------------------------------ MODULE Monitor ------------------------------
(***************************************************************************)
(* The Aikido monitor of src/src/unix/monitor.cc: a POSIX mutex held only  *)
(* while the monitor's fields are looked at, two condition variables, and  *)
(* the bookkeeping fields owner and n.                                     *)
(*                                                                         *)
(* A call is a few steps of its thread: Call, Lock (mutex.lock()), the     *)
(* body up to the unlock or up to the wait on a condition variable, and,   *)
(* after such a wait, WakeLock (the mutex is taken back inside             *)
(* pthread_cond_wait) and Recheck (the test of the while loop).  Everything*)
(* between taking and giving back the mutex is one step.                   *)
(*                                                                         *)
(* Condition variables follow POSIX: waiting gives the mutex back and puts *)
(* the thread to sleep at once, a signal wakes at most one of the sleepers *)
(* and is lost when there is none, a broadcast wakes them all, a sleeper   *)
(* may wake for no reason, and a woken thread competes for the mutex.      *)
(***************************************************************************)
EXTENDS Naturals

CONSTANTS Thread,    \* the threads that use the monitor
          None,      \* owner = 0, and a free mutex
          MaxEntry,  \* bound of n: how deep the callers nest their entries
          Misuse,    \* do threads also call operations only an owner may?
          Negative   \* do threads also wait a negative number of microseconds?

ASSUME NoneAssumption == None \notin Thread
ASSUME MaxEntryAssumption == MaxEntry \in Nat \ {0}
ASSUME CallersAssumption == Misuse \in BOOLEAN /\ Negative \in BOOLEAN

VARIABLES mutex,   \* the thread that holds the pthread mutex, or None
          owner,   \* Monitor::owner
          n,       \* Monitor::n
          pc,      \* pc[t]: where t is in the code of its call
          op,      \* op[t]: the operation t is in, "none" outside
          prev,    \* prev[t]: the local "prev" of wait() and timewait()
          v        \* v[t]: what t's last timewait returns, or returned

vars == <<mutex, owner, n, pc, op, prev, v>>

Op == {"acquire", "release", "wait", "timewait", "notify", "notifyAll"}

\*   idle      outside                  queue   asleep in queue.wait
\*   lock      in mutex.lock()          event   asleep in event.(timed)wait
\*   body      holds the mutex          woken   awake, wants the mutex back
\*   recheck   holds the mutex again, is about to test "owner != 0"
Location == {"idle", "lock", "body", "queue", "event", "woken", "recheck"}

TypeOK == /\ mutex \in Thread \cup {None}
          /\ owner \in Thread \cup {None}
          /\ n \in 0..MaxEntry
          /\ pc \in [Thread -> Location]
          /\ op \in [Thread -> Op \cup {"none"}]
          /\ prev \in [Thread -> 0..MaxEntry]
          /\ v \in [Thread -> BOOLEAN]

Init == /\ mutex = None
        /\ owner = None
        /\ n = 0
        /\ pc = [t \in Thread |-> "idle"]
        /\ op = [t \in Thread |-> "none"]
        /\ prev = [t \in Thread |-> 0]
        /\ v = [t \in Thread |-> FALSE]

-----------------------------------------------------------------------------
\* The condition variables and the mutex, as unix/os.h wraps them.

queue == {t \in Thread : pc[t] = "queue"}
event == {t \in Thread : pc[t] = "event"}

\* The sets of sleepers that one pthread_cond_signal of C may wake.
Signal(C) == IF C = {} THEN {{}} ELSE {{t} : t \in C}

\* t goes to l, and the sleepers in W wake.
Goto(t, l, W) == pc' = [u \in Thread |-> IF u \in W THEN "woken"
                                         ELSE IF u = t THEN l ELSE pc[u]]

\* t returns from its call, whose locals are gone, and the sleepers in W wake.
Return(t, W) == /\ Goto(t, "idle", W)
                /\ op' = [op EXCEPT ![t] = "none"]
                /\ prev' = [prev EXCEPT ![t] = 0]

\* OSCondvar::timedwait returns 1 unless pthread_cond_timedwait gave ETIMEDOUT.
timedwait(e) == e # "ETIMEDOUT"

Unlock(t) == /\ mutex = t
             /\ mutex' = None

-----------------------------------------------------------------------------
\* A thread makes a call.  A thread nests at most MaxEntry entries, and an
\* operation only an owner may use is called by others only with Misuse.
Call(t, o) ==
    /\ pc[t] = "idle"
    /\ o = "acquire" => ~(owner = t /\ n = MaxEntry)
    /\ o # "acquire" => owner = t \/ Misuse
    /\ op' = [op EXCEPT ![t] = o]
    /\ pc' = [pc EXCEPT ![t] = "lock"]
    /\ UNCHANGED <<mutex, owner, n, prev, v>>

Lock(t) ==
    /\ pc[t] = "lock"
    /\ mutex = None
    /\ mutex' = t
    /\ pc' = [pc EXCEPT ![t] = "body"]
    /\ UNCHANGED <<owner, n, op, prev, v>>

\* Every body ends by giving the mutex back: an unlock, or a condition wait.
InBody(t, o) == /\ pc[t] = "body"
                /\ op[t] = o
                /\ Unlock(t)

\* acquire: the monitor is free, or t has it already.
AcquireTake(t) ==
    /\ InBody(t, "acquire")
    /\ owner \in {None, t}
    /\ owner' = t
    /\ n' = n + 1
    /\ Return(t, {})
    /\ UNCHANGED v

\* acquire: somebody else has it, so sleep on the queue.
AcquireBlock(t) ==
    /\ InBody(t, "acquire")
    /\ owner \notin {None, t}
    /\ Goto(t, "queue", {})
    /\ UNCHANGED <<owner, n, op, prev, v>>

\* A mutant: the error path throws without unlocking the mutex.
NotOwner_KeepsMutex(t) ==
    /\ pc[t] = "body"
    /\ op[t] # "acquire"
    /\ owner # t
    /\ Return(t, {})
    /\ UNCHANGED <<mutex, owner, n, v>>

\* Every operation but acquire throws when t is not the owner.
NotOwner(t) ==
    /\ \E o \in Op \ {"acquire"} : InBody(t, o)
    /\ owner # t
    /\ Return(t, {})
    /\ UNCHANGED <<owner, n, v>>

\* A mutant: release forgets to signal the queue.
Release_NoSignal(t) ==
    /\ InBody(t, "release")
    /\ owner = t
    /\ n' = n - 1
    /\ owner' = IF n = 1 THEN None ELSE t
    /\ Return(t, {})
    /\ UNCHANGED v

\* A mutant: release does not ask who the owner is.
Release_ByAnybody(t) ==
    /\ InBody(t, "release")
    /\ n > 0
    /\ n' = n - 1
    /\ owner' = IF n = 1 THEN None ELSE owner
    /\ \E W \in IF n = 1 THEN Signal(queue) ELSE {{}} : Return(t, W)
    /\ UNCHANGED v

\* release: the last release frees the monitor and signals the queue.
Release(t) ==
    /\ InBody(t, "release")
    /\ owner = t
    /\ n' = n - 1
    /\ owner' = IF n = 1 THEN None ELSE t
    /\ \E W \in IF n = 1 THEN Signal(queue) ELSE {{}} : Return(t, W)
    /\ UNCHANGED v

\* Mutants of the bookkeeping before a wait: the count saved after it is
\* cleared, not cleared at all, or the owner kept.
WaitBlock_Keeps(t, saved, count, who, woken) ==
    /\ \E o \in {"wait", "timewait"} : InBody(t, o)
    /\ owner = t
    /\ prev' = [prev EXCEPT ![t] = saved]
    /\ n' = count
    /\ owner' = who
    /\ \E W \in woken : Goto(t, "event", W)
    /\ v' = [v EXCEPT ![t] = timedwait("OK")]
    /\ UNCHANGED op

WaitBlock_SavesLate(t) == WaitBlock_Keeps(t, 0, 0, None, Signal(queue))
WaitBlock_KeepsCount(t) == WaitBlock_Keeps(t, n, n, None, Signal(queue))
WaitBlock_KeepsOwner(t) == WaitBlock_Keeps(t, n, 0, t, Signal(queue))
WaitBlock_NoSignal(t) == WaitBlock_Keeps(t, n, 0, None, {{}})

\* wait and timewait: remember n, free the monitor, signal the queue and
\* sleep on the event, which gives the mutex back.
WaitBlock(t) ==
    /\ \E o \in {"wait", "timewait"} : InBody(t, o)
    /\ owner = t
    /\ prev' = [prev EXCEPT ![t] = n]
    /\ n' = 0
    /\ owner' = None
    /\ \E W \in Signal(queue) : Goto(t, "event", W)
    /\ v' = [v EXCEPT ![t] = timedwait("OK")]
    /\ UNCHANGED op

\* timewait with a deadline POSIX refuses (tv_nsec is negative when the
\* number of microseconds is): the timed wait fails at once with the mutex
\* still held, so nobody else got the monitor and the loop finds it free.
WaitRefused(t) ==
    /\ Negative
    /\ InBody(t, "timewait")
    /\ owner = t
    /\ \E W \in Signal(queue) : Return(t, W)
    /\ v' = [v EXCEPT ![t] = timedwait("EINVAL")]
    /\ UNCHANGED <<owner, n>>

Notify(t) ==
    /\ InBody(t, "notify")
    /\ owner = t
    /\ \E W \in Signal(event) : Return(t, W)
    /\ UNCHANGED <<owner, n, v>>

NotifyAll(t) ==
    /\ InBody(t, "notifyAll")
    /\ owner = t
    /\ Return(t, event)
    /\ UNCHANGED <<owner, n, v>>

-----------------------------------------------------------------------------
\* pthread_cond_wait may return though nobody signalled.
SpuriousWakeup(t) ==
    /\ pc[t] \in {"queue", "event"}
    /\ pc' = [pc EXCEPT ![t] = "woken"]
    /\ UNCHANGED <<mutex, owner, n, op, prev, v>>

\* The deadline of a timed wait passes.
Timeout(t) ==
    /\ pc[t] = "event"
    /\ op[t] = "timewait"
    /\ pc' = [pc EXCEPT ![t] = "woken"]
    /\ v' = [v EXCEPT ![t] = timedwait("ETIMEDOUT")]
    /\ UNCHANGED <<mutex, owner, n, op, prev>>

\* A woken thread takes the mutex back before its condition wait returns.
WakeLock(t) ==
    /\ pc[t] = "woken"
    /\ mutex = None
    /\ mutex' = t
    /\ pc' = [pc EXCEPT ![t] = "recheck"]
    /\ UNCHANGED <<owner, n, op, prev, v>>

\* while (owner != 0) queue.wait (mutex)
RecheckBlock(t) ==
    /\ pc[t] = "recheck"
    /\ Unlock(t)
    /\ owner # None
    /\ Goto(t, "queue", {})
    /\ UNCHANGED <<owner, n, op, prev, v>>

\* A mutant: a wait comes back with one entry, however many it gave up.
RecheckTake_OneEntry(t) ==
    /\ pc[t] = "recheck"
    /\ Unlock(t)
    /\ owner = None
    /\ owner' = t
    /\ n' = n + 1
    /\ Return(t, {})
    /\ UNCHANGED v

\* The monitor is free: acquire counts its first entry, a wait restores n.
RecheckTake(t) ==
    /\ pc[t] = "recheck"
    /\ Unlock(t)
    /\ owner = None
    /\ owner' = t
    /\ n' = IF op[t] = "acquire" THEN n + 1 ELSE prev[t]
    /\ Return(t, {})
    /\ UNCHANGED v

-----------------------------------------------------------------------------
\* The steps of a call once it is made.
Step(t) == \/ Lock(t)
           \/ AcquireTake(t) \/ AcquireBlock(t)
           \/ NotOwner(t)
           \/ Release(t)
           \/ WaitBlock(t) \/ WaitRefused(t)
           \/ Notify(t) \/ NotifyAll(t)
           \/ WakeLock(t) \/ RecheckBlock(t) \/ RecheckTake(t)

\* What the operating system does to a sleeper.
Environment(t) == SpuriousWakeup(t) \/ Timeout(t)

Next == \E t \in Thread : \/ \E o \in Op : Call(t, o)
                          \/ Step(t)
                          \/ Environment(t)

Spec == Init /\ [][Next]_vars

\* A thread that can run does run.  Nothing is assumed of the callers: a
\* thread may own the monitor for ever.
FairSpec == Spec /\ \A t \in Thread : WF_vars(Step(t))

-----------------------------------------------------------------------------
\* Safety.

\* The pthread mutex is held exactly by the thread between lock and unlock:
\* no path leaves with it, and nobody touches owner and n without it.
MutexHeld == \A t \in Thread : pc[t] \in {"body", "recheck"} <=> mutex = t

\* The monitor is free exactly when its entry count is zero, and the owner
\* is never asleep or re-acquiring in the monitor it owns.
OwnerRuns == /\ owner = None <=> n = 0
             /\ owner # None => pc[owner] \in {"idle", "lock", "body"}

\* A waiter remembers at least one entry: a wait never returns to a caller
\* that would then own the monitor with no entry to release.
WaiterRemembers ==
    \A t \in Thread :
        /\ pc[t] = "event" => op[t] \in {"wait", "timewait"}
        /\ pc[t] \in {"queue", "event", "woken", "recheck"} /\ op[t] # "acquire"
              => op[t] \in {"wait", "timewait"} /\ prev[t] > 0

\* What a thread is doing fits the call it is in, and a nested acquire still
\* has room below MaxEntry.
CallsConsistent ==
    \A t \in Thread :
        /\ pc[t] = "idle" <=> op[t] = "none"
        /\ pc[t] \in {"queue", "event", "woken", "recheck"}
              => op[t] \in {"acquire", "wait", "timewait"}
        /\ owner = t /\ op[t] = "acquire" => n < MaxEntry

\* No lost wakeup: while threads sleep on the queue of a free monitor,
\* some thread has been woken and is on its way to take it.
NobodyStranded ==
    queue # {} /\ owner = None =>
        \E t \in Thread : pc[t] \in {"woken", "recheck"}

\* What holds between any two steps of monitor.cc: the mutex discipline, the
\* owner, what a wait remembers, and that no wakeup is lost.  None of the conjuncts is inductive alone: that
\* n stays below its bound needs CallsConsistent, and every conjunct that
\* speaks of owner or n needs MutexHeld, because a thread in "recheck" acts
\* on the owner it sees.
IInv == /\ TypeOK
        /\ MutexHeld
        /\ OwnerRuns
        /\ WaiterRemembers
        /\ CallsConsistent
        /\ NobodyStranded

\* Only the owner gives the monitor up, it gives it to nobody in
\* particular, and it does so holding the mutex.
OnlyOwnerLetsGo ==
    [][owner # None /\ owner' # owner => owner' = None /\ mutex = owner]_vars

\* Somebody is in a call that only the owner may make.
Misusing == \E t \in Thread : pc[t] = "body" /\ op[t] # "acquire" /\ owner # t

\* A free monitor that threads are queued for is eventually taken, unless
\* threads go on for ever to make calls they may not make: those hold the
\* mutex a woken thread wants back, and leave the monitor free.
FreeMonitorTaken ==
    []<>Misusing \/ (queue # {} /\ owner = None ~> owner # None)

-----------------------------------------------------------------------------
\* The monitor implements MonitorSpec.  The entries of a thread are n while
\* it owns the monitor and its saved prev while it waits.

Reentering(t) == /\ pc[t] \in {"queue", "event", "woken", "recheck"}
                 /\ op[t] # "acquire"

entries == [t \in Thread |-> IF owner = t THEN n
                             ELSE IF Reentering(t) THEN prev[t] ELSE 0]

status == [t \in Thread |->
              IF pc[t] # "idle" /\ op[t] = "acquire" THEN "entering"
              ELSE IF pc[t] = "event" THEN "waiting"
              ELSE IF Reentering(t) THEN "reentering"
              ELSE "running"]

Abstract == INSTANCE MonitorSpec WITH owner <- owner, entries <- entries, status <- status

ImplementsMonitorSpec == Abstract!Spec
=============================================================================
