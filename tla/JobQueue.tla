------------------------------ MODULE JobQueue ------------------------------
(***************************************************************************)
(* The JobQueue monitor and the job threads of src/tests/test.aikido,      *)
(* composed with Monitor: producers put, consumers get, and a get on an    *)
(* empty queue waits for the notify of a put.                              *)
(*                                                                         *)
(* The interpreter acquires a monitor before it runs one of its methods    *)
(* and releases it afterwards.  wait, timewait and notify are methods too, *)
(* native ones, so a body that calls them enters the monitor a second      *)
(* time, and a wait gives up and gets back two entries.  A method is       *)
(* therefore a sequence of calls of module Monitor with the reads and      *)
(* writes of the queue between them.                                       *)
(***************************************************************************)
EXTENDS Monitor, Sequences, FiniteSets

CONSTANTS Producer,  \* threads that only put
          Consumer,  \* threads that only get
          Puts,      \* bound: how many jobs a producer puts
          Gets,      \* bound: the "iterations" of a consumer
          Timed,     \* the consumers that call get with a time limit
          Spurious   \* bound: how many waits end for no reason

ASSUME ThreadAssumption == /\ Thread = Producer \cup Consumer
                           /\ Producer \cap Consumer = {}
ASSUME BoundAssumption == /\ Puts \in Nat /\ Gets \in Nat /\ Spurious \in Nat
                          /\ Timed \subseteq Consumer
ASSUME EntryAssumption == MaxEntry >= 2

VARIABLES jobs,     \* the vector "v" of the queue
          at,       \* at[t]: where t is in the body of put or get
          made,     \* made[t]: how many jobs producer t has begun to put
          got,      \* got[t]: what the calls of get returned to consumer t
          spurious  \* how many waits have ended for no reason

jobVars == <<jobs, at, made, got, spurious>>
allVars == <<vars, jobVars>>

TimedOut == <<None, 0>>
Job == Producer \X (1..Puts)

\* out     outside                       get   about to test the queue
\* put     about to append               wait  entered again, about to wait
\* notify  entered again, about to       test  back from the native wait
\*         notify                        leave about to release the monitor
\* end     about to leave the native method
Place == {"out", "put", "notify", "get", "wait", "end", "test", "leave"}

JobTypeOK == /\ TypeOK
             /\ jobs \in Seq(Job)
             /\ at \in [Thread -> Place]
             /\ made \in [Producer -> 0..Puts]
             /\ got \in [Consumer -> Seq(Job \cup {TimedOut})]
             /\ spurious \in 0..Spurious

JobInit == /\ Init
           /\ jobs = <<>>
           /\ at = [t \in Thread |-> "out"]
           /\ made = [p \in Producer |-> 0]
           /\ got = [c \in Consumer |-> <<>>]
           /\ spurious = 0

\* t is between two calls of the monitor, at l.
Between(t, l) == pc[t] = "idle" /\ at[t] = l

\* t calls o of the monitor and is at l when that returns.
CallThen(t, o, l) == Call(t, o) /\ at' = [at EXCEPT ![t] = l]

\* t goes on inside the method, at l.
GoOn(t, l) == UNCHANGED vars /\ at' = [at EXCEPT ![t] = l]

-----------------------------------------------------------------------------
\* queue.put (x): the monitor is acquired before the body runs.
EnterPut(p) == /\ Between(p, "out")
               /\ made[p] < Puts
               /\ made' = [made EXCEPT ![p] = @ + 1]
               /\ CallThen(p, "acquire", "put")
               /\ UNCHANGED <<jobs, got, spurious>>

\* A mutant: put returns without notify().
AppendJob_Silent(p) == /\ Between(p, "put")
                       /\ jobs' = Append(jobs, <<p, made[p]>>)
                       /\ GoOn(p, "leave")
                       /\ UNCHANGED <<made, got, spurious>>

\* v.append (x), and notify() is entered.
AppendJob(p) == /\ Between(p, "put")
                /\ jobs' = Append(jobs, <<p, made[p]>>)
                /\ CallThen(p, "acquire", "notify")
                /\ UNCHANGED <<made, got, spurious>>

NotifyJob(p) == /\ Between(p, "notify")
                /\ CallThen(p, "notify", "end")
                /\ UNCHANGED <<jobs, made, got, spurious>>

\* queue.get (millisecs)
EnterGet(c) == /\ Between(c, "out")
               /\ Len(got[c]) < Gets
               /\ CallThen(c, "acquire", "get")
               /\ UNCHANGED <<jobs, made, got, spurious>>

\* while (sizeof(v) == 0): wait() or timewait() is entered ...
AwaitJob(c) == /\ Between(c, "get")
               /\ jobs = <<>>
               /\ CallThen(c, "acquire", "wait")
               /\ UNCHANGED <<jobs, made, got, spurious>>

\* ... and waits.
WaitJob(c) == /\ Between(c, "wait")
              /\ CallThen(c, IF c \in Timed THEN "timewait" ELSE "wait", "end")
              /\ UNCHANGED <<jobs, made, got, spurious>>

\* The native method returns and its entry is released.
LeaveNative(t) == /\ Between(t, "end")
                  /\ CallThen(t, "release", IF t \in Producer THEN "leave"
                                                              ELSE "test")
                  /\ UNCHANGED <<jobs, made, got, spurious>>

\* A mutant: an if where the code has a while, so that a consumer takes its
\* job without having looked at the queue after the wait.
TestAgain_Once(c) == /\ Between(c, "test")
                     /\ c \in Timed => v[c]
                     /\ got' = [got EXCEPT ![c] =
                            Append(@, IF jobs = <<>> THEN TimedOut
                                                     ELSE Head(jobs))]
                     /\ jobs' = IF jobs = <<>> THEN <<>> ELSE Tail(jobs)
                     /\ GoOn(c, "leave")
                     /\ UNCHANGED <<made, spurious>>

\* wait() is over, or timewait() was true: back to the test of the loop.
TestAgain(c) == /\ Between(c, "test")
                /\ c \in Timed => v[c]
                /\ GoOn(c, "get")
                /\ UNCHANGED <<jobs, made, got, spurious>>

\* if (!t) return -1
GiveUp(c) == /\ Between(c, "test")
             /\ c \in Timed /\ ~v[c]
             /\ got' = [got EXCEPT ![c] = Append(@, TimedOut)]
             /\ GoOn(c, "leave")
             /\ UNCHANGED <<jobs, made, spurious>>

\* A mutant: the last job is taken, where the code takes v[0].
TakeJob_Newest(c) == /\ Between(c, "get")
                     /\ jobs # <<>>
                     /\ got' = [got EXCEPT ![c] = Append(@, jobs[Len(jobs)])]
                     /\ jobs' = SubSeq(jobs, 1, Len(jobs) - 1)
                     /\ GoOn(c, "leave")
                     /\ UNCHANGED <<made, spurious>>

\* var x = v[0], v <<= 1, return x
TakeJob(c) == /\ Between(c, "get")
              /\ jobs # <<>>
              /\ got' = [got EXCEPT ![c] = Append(@, Head(jobs))]
              /\ jobs' = Tail(jobs)
              /\ GoOn(c, "leave")
              /\ UNCHANGED <<made, spurious>>

\* The body is over: the monitor is released.
LeaveMethod(t) == /\ Between(t, "leave")
                  /\ CallThen(t, "release", "out")
                  /\ UNCHANGED <<jobs, made, got, spurious>>

-----------------------------------------------------------------------------
Put(p) == EnterPut(p) \/ AppendJob(p) \/ NotifyJob(p)

Get(c) == \/ EnterGet(c) \/ AwaitJob(c) \/ WaitJob(c)
          \/ TestAgain(c) \/ GiveUp(c) \/ TakeJob(c)

\* A step of t's program, or of the monitor call t is in.
Run(t) == \/ t \in Producer /\ Put(t)
          \/ t \in Consumer /\ Get(t)
          \/ LeaveNative(t) \/ LeaveMethod(t)
          \/ Step(t) /\ UNCHANGED jobVars

Deadline(t) == Timeout(t) /\ UNCHANGED jobVars

WakeForNothing(t) == /\ spurious < Spurious
                     /\ SpuriousWakeup(t)
                     /\ spurious' = spurious + 1
                     /\ UNCHANGED <<jobs, at, made, got>>

JobNext == \E t \in Thread : Run(t) \/ Deadline(t) \/ WakeForNothing(t)

JobSpec == JobInit /\ [][JobNext]_allVars

\* A thread that can run does run, and the clock reaches every deadline.
JobFairSpec == JobSpec /\ \A t \in Thread : /\ WF_allVars(Run(t))
                                            /\ WF_allVars(Deadline(t))

-----------------------------------------------------------------------------
\* Between its calls a thread inside a method owns the monitor, with one
\* entry for the method and one for the native method it is in: the body of
\* put or get never runs next to another, not even right after a wait.
InMethodOwns ==
    \A t \in Thread : pc[t] = "idle" /\ at[t] # "out"
        => owner = t /\ n = IF at[t] \in {"notify", "wait", "end"} THEN 2 ELSE 1

\* The types, and the methods' hold on the monitor.
JobInv == JobTypeOK /\ InMethodOwns

Appended(p) == IF at[p] = "put" THEN made[p] - 1 ELSE made[p]

\* The jobs consumer c was given, without its timeouts.
TakenBy(c) == {got[c][i] : i \in 1..Len(got[c])} \ {TimedOut}

Queued == {jobs[i] : i \in 1..Len(jobs)}

\* Every job put is in the queue or with exactly one consumer (the test
\* asserts that the sorted results are the numbers put), and no job is taken
\* before an older one of its producer.
JobsConserved ==
    /\ Queued \cup UNION {TakenBy(c) : c \in Consumer}
         = UNION {{p} \X (1..Appended(p)) : p \in Producer}
    /\ \A c, d \in Consumer : c # d => TakenBy(c) \cap TakenBy(d) = {}
    /\ \A c \in Consumer : \A job \in TakenBy(c), older \in Queued :
          job[1] = older[1] => job[2] < older[2]

\* A get without a time limit never returns -1: it waits again when the wait
\* ended for no reason or somebody else was faster.
NoEmptyHand ==
    \A c \in Consumer \ Timed : \A i \in 1..Len(got[c]) : got[c][i] # TimedOut

\* What a consumer is given: each job once, in order, and a job for every get.
JobsGiven == JobsConserved /\ NoEmptyHand

\* With as many jobs as gets, every consumer comes back from every get: the
\* joins of the test return.
EverybodyServed == <>(\A c \in Consumer : Len(got[c]) = Gets)
=============================================================================
