------------------------------ MODULE Threads ------------------------------
(***************************************************************************)
(* The life of Aikido threads: callThread and execThread of                *)
(* src/src/interpret.cc, insertThread, deleteThread and findThread of      *)
(* src/src/parser.cc, join of src/src/native.cc and OSThread of            *)
(* src/src/unix/os.h.                                                      *)
(*                                                                         *)
(* A creator starts a child with pthread_create, writes the child's id     *)
(* into the two thread streams, lists the OSThread object under the id and *)
(* only then has a stream to join the child with.  The child runs its      *)
(* program, gives up its stream, takes itself off the list, which deletes  *)
(* the object, and ends.  Nothing orders the creator's steps and the       *)
(* child's: the child may be off the list before it was on it.             *)
(*                                                                         *)
(* An id belongs to a child until pthread_join has reaped it, and may then *)
(* be given to another child.                                              *)
(***************************************************************************)
EXTENDS Integers, FiniteSets

CONSTANTS Creator,  \* threads that start and join children
          Child,    \* the children, each started at most once
          Id,       \* bound: the pthread ids
          None

ASSUME NoneAssumption == None \notin Child \cup Id
ASSUME FiniteAssumption == IsFiniteSet(Child)

VARIABLES process,     \* "up", "exited", or "broken" by undefined behaviour
          life,        \* life[c]: how far child c is
          osid,        \* osid[c]: the pthread_t of c
          entry,       \* Aikido::threads: entry[i] is the child whose OSThread
                       \* object is listed under i
          deleted,     \* the children whose OSThread object is deleted
          numThreads,
          pc,          \* pc[k]: where creator k is
          arg,         \* arg[k]: the child k is starting or joining
          thr,         \* thr[k]: the child whose OSThread object k's join uses
          lost,        \* the creators whose map iterator points to an erased node
          begun,       \* the children a join has been called for
          repeated     \* was one joined again, by the same creator or another?

vars == <<process, life, osid, entry, deleted, numThreads, pc, arg, thr, lost,
          begun, repeated>>

creatorVars == <<pc, arg, thr, lost, begun, repeated>>
mapVars == <<entry, deleted, numThreads>>

\*  new       not started, or pthread_create failed
\*  running   in vm.execute, or before it, or in the finalizer
\*  ran       the program is over
\*  released  its ThreadStream is deleted
\*  unlisted  back from deleteThread
\*  zombie    ended, and not yet joined
\*  reaped    joined: its id is free again
Life == {"new", "running", "ran", "released", "unlisted", "zombie", "reaped"}

\*  created, named  between pthread_create, setThreadID and insertThread
\*  found           between findThread's unlock and its return
\*  join            in OSThread::join, before pthread_join
\*  wait            in pthread_join
Location == {"idle", "created", "named", "found", "join", "wait"}

TypeOK == /\ process \in {"up", "exited", "broken"}
          /\ life \in [Child -> Life]
          /\ osid \in [Child -> Id \cup {None}]
          /\ entry \in [Id -> Child \cup {None}]
          /\ deleted \subseteq Child
          /\ numThreads \in Int
          /\ pc \in [Creator -> Location]
          /\ arg \in [Creator -> Child \cup {None}]
          /\ thr \in [Creator -> Child \cup {None}]
          /\ lost \subseteq Creator
          /\ begun \subseteq Child
          /\ repeated \in BOOLEAN
          /\ \A k \in Creator :
                /\ pc[k] = "idle" <=> arg[k] = None
                /\ pc[k] \in {"found", "join", "wait"} <=> thr[k] # None

Init == /\ process = "up"
        /\ life = [c \in Child |-> "new"]
        /\ osid = [c \in Child |-> None]
        /\ entry = [i \in Id |-> None]
        /\ deleted = {}
        /\ numThreads = 0
        /\ pc = [k \in Creator |-> "idle"]
        /\ arg = [k \in Creator |-> None]
        /\ thr = [k \in Creator |-> None]
        /\ lost = {}
        /\ begun = {}
        /\ repeated = FALSE

-----------------------------------------------------------------------------
\* A child whose id is in use.
Alive(c) == life[c] \notin {"new", "reaped"}

\* The program of c may still have work to do.
Unfinished(c) == life[c] \in {"new", "running"}

\* A creator is still at work on starting c.
Starting(c) == \E k \in Creator : pc[k] \in {"created", "named"} /\ arg[k] = c

\* The expression that started c has a value: others can join c.
Published(c) == life[c] # "new" /\ ~Starting(c)

\* k returns from its call.
Back(k) == /\ pc' = [pc EXCEPT ![k] = "idle"]
           /\ arg' = [arg EXCEPT ![k] = None]
           /\ thr' = [thr EXCEPT ![k] = None]

\* What the build makes of a use of freed memory: the program goes on as if
\* nothing had happened, which is G, or it is gone.
Freed(G) == \/ G /\ UNCHANGED process
            \/ process' = "broken" /\ UNCHANGED creatorVars

-----------------------------------------------------------------------------
\* callThread.

\* new OSThread: the system gives the child an id that is not in use.
PthreadCreate(k, c) ==
    /\ process = "up"
    /\ pc[k] = "idle"
    /\ life[c] = "new"
    /\ \A j \in Creator : arg[j] # c
    /\ \E i \in Id : /\ \A d \in Child : Alive(d) => osid[d] # i
                     /\ osid' = [osid EXCEPT ![c] = i]
    /\ life' = [life EXCEPT ![c] = "running"]
    /\ pc' = [pc EXCEPT ![k] = "created"]
    /\ arg' = [arg EXCEPT ![k] = c]
    /\ UNCHANGED <<process, mapVars, thr, lost, begun, repeated>>

\* setThreadID on the two streams.  The child deletes its stream when it
\* ends, and nothing keeps it from having ended.
SetThreadID(k) ==
    /\ process = "up"
    /\ pc[k] = "created"
    /\ LET Named == /\ pc' = [pc EXCEPT ![k] = "named"]
                    /\ UNCHANGED <<arg, thr, lost, begun, repeated>>
       IN IF life[arg[k]] \in {"running", "ran"}
          THEN Named /\ UNCHANGED process
          ELSE Freed(Named)
    /\ UNCHANGED <<life, osid, mapVars>>

\* A mutant: map::insert, which keeps the entry an earlier child left.
insertThread_Keeps(k) ==
    /\ process = "up"
    /\ pc[k] = "named"
    /\ entry' = [entry EXCEPT ![osid[arg[k]]] = IF @ = None THEN arg[k] ELSE @]
    /\ numThreads' = numThreads + 1
    /\ Back(k)
    /\ UNCHANGED <<process, life, osid, deleted, lost, begun, repeated>>

\* insertThread, under threadLock; then the stream is the expression's value.
insertThread(k) ==
    /\ process = "up"
    /\ pc[k] = "named"
    /\ entry' = [entry EXCEPT ![osid[arg[k]]] = arg[k]]
    /\ numThreads' = numThreads + 1
    /\ Back(k)
    /\ UNCHANGED <<process, life, osid, deleted, lost, begun, repeated>>

-----------------------------------------------------------------------------
\* execThread.

\* c's step to l, up to where it takes itself off the list.
ChildStep(c, from, to) == /\ process = "up"
                          /\ life[c] = from
                          /\ life' = [life EXCEPT ![c] = to]
                          /\ UNCHANGED <<process, osid, mapVars, creatorVars>>

\* vm.execute, and the finalizer, are over.
Finish(c) == ChildStep(c, "running", "ran")

\* ... with an exception nobody caught: ::exit (1).
Fail(c) == /\ process = "up"
           /\ life[c] = "running"
           /\ process' = "exited"
           /\ UNCHANGED <<life, osid, mapVars, creatorVars>>

\* The child's references to its stack frame and its stream were the last.
Release(c) == ChildStep(c, "ran", "released")

\* A mutant: the entry stays on the list.
deleteThread_NoErase(c) ==
    /\ process = "up"
    /\ life[c] = "released"
    /\ life' = [life EXCEPT ![c] = "unlisted"]
    /\ deleted' = deleted \cup ({entry[osid[c]]} \ {None})
    /\ numThreads' = numThreads - 1
    /\ UNCHANGED <<process, osid, entry, creatorVars>>

\* A mutant: a child that finds no entry does not count.
deleteThread_IfListed(c) ==
    /\ process = "up"
    /\ life[c] = "released"
    /\ life' = [life EXCEPT ![c] = "unlisted"]
    /\ LET i == osid[c]
       IN /\ deleted' = deleted \cup ({entry[i]} \ {None})
          /\ entry' = [entry EXCEPT ![i] = None]
          /\ numThreads' = numThreads - (IF entry[i] = None THEN 0 ELSE 1)
          /\ lost' = lost \cup {k \in Creator : pc[k] = "found" /\ osid[arg[k]] = i}
    /\ UNCHANGED <<process, osid, pc, arg, thr, begun, repeated>>

\* deleteThread, under threadLock: what is listed under the child's id, if
\* anything is, is deleted and erased, and the count goes down either way.
deleteThread(c) ==
    /\ process = "up"
    /\ life[c] = "released"
    /\ life' = [life EXCEPT ![c] = "unlisted"]
    /\ LET i == osid[c]
       IN /\ deleted' = deleted \cup ({entry[i]} \ {None})
          /\ entry' = [entry EXCEPT ![i] = None]
          /\ lost' = lost \cup {k \in Creator : pc[k] = "found" /\ osid[arg[k]] = i}
    /\ numThreads' = numThreads - 1
    /\ UNCHANGED <<process, osid, pc, arg, thr, begun, repeated>>

\* return NULL
Exit(c) == ChildStep(c, "unlisted", "zombie")

-----------------------------------------------------------------------------
\* join (stream).

\* k's join begins: what the map holds under the id of c.  join returns when
\* that is nothing.
Look(k, c) ==
    /\ process = "up"
    /\ pc[k] = "idle"
    /\ begun' = begun \cup {c}
    /\ repeated' = (repeated \/ c \in begun)
    /\ thr' = [thr EXCEPT ![k] = entry[osid[c]]]
    /\ UNCHANGED <<process, life, osid, mapVars, lost>>

\* A mutant: the result of findThread is not compared with NULL.
findThread_NoTest(k, c) ==
    /\ Published(c)
    /\ Look(k, c)
    /\ pc' = [pc EXCEPT ![k] = "found"]
    /\ arg' = [arg EXCEPT ![k] = c]

\* A mutant: join is possible as soon as the thread was created.
findThread_Early(k, c) ==
    /\ life[c] # "new"
    /\ Look(k, c)
    /\ IF entry[osid[c]] = None
       THEN UNCHANGED <<pc, arg>>
       ELSE /\ pc' = [pc EXCEPT ![k] = "found"]
            /\ arg' = [arg EXCEPT ![k] = c]

\* findThread, under threadLock.
findThread(k, c) ==
    /\ Published(c)
    /\ Look(k, c)
    /\ IF entry[osid[c]] = None
       THEN UNCHANGED <<pc, arg>>
       ELSE /\ pc' = [pc EXCEPT ![k] = "found"]
            /\ arg' = [arg EXCEPT ![k] = c]

\* return (*r).second, after the unlock.
Dereference(k) ==
    /\ process = "up"
    /\ pc[k] = "found"
    /\ LET Got(c) == /\ pc' = [pc EXCEPT ![k] = "join"]
                     /\ thr' = [thr EXCEPT ![k] = c]
                     /\ lost' = lost \ {k}
                     /\ UNCHANGED <<arg, begun, repeated>>
       IN IF k \notin lost
          THEN Got(entry[osid[arg[k]]]) /\ UNCHANGED process
          ELSE Freed(\/ Got(thr[k])
                     \/ Back(k) /\ lost' = lost \ {k} /\ UNCHANGED <<begun, repeated>>)
    /\ UNCHANGED <<life, osid, mapVars>>

\* pthread_join, called with an id: it waits for the child that has the id,
\* and returns at once when there is none or somebody waits for it already.
PthreadJoin(k, i) ==
    \/ \E c \in Child : /\ Alive(c) /\ osid[c] = i
                        /\ \A j \in Creator : ~(pc[j] = "wait" /\ thr[j] = c)
                        /\ pc' = [pc EXCEPT ![k] = "wait"]
                        /\ thr' = [thr EXCEPT ![k] = c]
                        /\ UNCHANGED <<arg, lost, begun, repeated>>
    \/ /\ \A c \in Child : Alive(c) /\ osid[c] = i
            => \E j \in Creator : pc[j] = "wait" /\ thr[j] = c
       /\ Back(k)
       /\ UNCHANGED <<lost, begun, repeated>>

\* A mutant: join tries again when pthread_join returns an error.
Join_Retries(k) ==
    /\ process = "up"
    /\ pc[k] = "join"
    /\ PthreadJoin(k, osid[thr[k]])
    /\ pc'[k] = "wait"
    /\ UNCHANGED <<process, life, osid, mapVars>>

\* thr->join() reads the id from the object, which may be deleted.
Join(k) ==
    /\ process = "up"
    /\ pc[k] = "join"
    /\ IF thr[k] \notin deleted
       THEN PthreadJoin(k, osid[thr[k]]) /\ UNCHANGED process
       ELSE Freed(\/ PthreadJoin(k, osid[thr[k]])
                  \/ Back(k) /\ UNCHANGED <<lost, begun, repeated>>)
    /\ UNCHANGED <<life, osid, mapVars>>

\* pthread_join returns when the child has ended, and reaps it.
Joined(k) ==
    /\ process = "up"
    /\ pc[k] = "wait"
    /\ life[thr[k]] = "zombie"
    /\ life' = [life EXCEPT ![thr[k]] = "reaped"]
    /\ Back(k)
    /\ UNCHANGED <<process, osid, mapVars, lost, begun, repeated>>

-----------------------------------------------------------------------------
Run(c) == Finish(c) \/ Release(c) \/ deleteThread(c) \/ Exit(c)

GoOn(k) == \/ SetThreadID(k) \/ insertThread(k)
           \/ Dereference(k) \/ Join(k) \/ Joined(k)

\* The process is over.
Ended == process # "up" /\ UNCHANGED vars

Next == \/ \E c \in Child : Run(c) \/ Fail(c)
        \/ \E k \in Creator : \/ \E c \in Child : PthreadCreate(k, c) \/ findThread(k, c)
                              \/ GoOn(k)
        \/ Ended

Spec == Init /\ [][Next]_vars

\* Threads run; every program ends.
FairSpec == Spec /\ (\A c \in Child : WF_vars(Run(c)))
                 /\ (\A k \in Creator : WF_vars(GoOn(k)))

-----------------------------------------------------------------------------
\* The list never holds a deleted OSThread object, and no object twice: a
\* child that ends never deletes an object a second time, even when it finds
\* an entry that an earlier child with its id left behind.
ListedAlive ==
    /\ \A i \in Id : entry[i] \notin deleted
    /\ \A i, j \in Id : entry[i] = entry[j] /\ entry[i] # None => i = j

Joining(k) == pc[k] \in {"found", "join", "wait"}

\* A child is started by one creator, has an id from then on, and is
\* published once its creator has moved on.
Started ==
    /\ \A k \in Creator : pc[k] \in {"created", "named"} => life[arg[k]] # "new"
    /\ \A j, k \in Creator : pc[j] \in {"created", "named"} /\ arg[j] = arg[k]
          => j = k
    /\ \A c \in Child : life[c] # "new" => osid[c] \in Id

\* What is listed, deleted or being joined is published, and is listed under
\* its own id.
Known ==
    /\ \A i \in Id : entry[i] # None => Published(entry[i]) /\ osid[entry[i]] = i
    /\ \A c \in deleted : Published(c)
    /\ \A k \in Creator : Joining(k) => Published(arg[k])
    /\ \A k \in Creator : pc[k] = "found" /\ k \notin lost
          => entry[osid[arg[k]]] # None

\* The inductive invariant when anything may be joined at any time: the list
\* and the joins hold published children, under their ids, and nothing twice.
IInv == TypeOK /\ Started /\ Known /\ ListedAlive

\* As long as a published child may have work to do, the list finds the child
\* itself under its id: no stale entry hides it and nobody else removes it,
\* unless a thread was joined twice and the second join reaped another.
FindsItself ==
    ~repeated =>
        \A c \in Child : Published(c) /\ Unfinished(c) => entry[osid[c]] = c

\* A join never returns before the program of the child is over, neither by
\* finding nobody to wait for nor by waiting for somebody else: the test reads
\* the results of its threads right after joining each of them once.
JoinMeansFinished ==
    [][~repeated' => \A k \in Creator :
          /\ pc[k] \in {"found", "join", "wait"} /\ pc'[k] = "idle"
                => ~Unfinished(arg[k])
          /\ pc' = pc => \A c \in begun' \ begun : ~Unfinished(c)]_vars

\* When no creator is between pthread_create and insertThread, numThreads is
\* the number of children that are not yet off the list.
CountSettles ==
    (\A k \in Creator : pc[k] \notin {"created", "named"})
        => numThreads = Cardinality({c \in Child :
               life[c] \in {"running", "ran", "released"}})

\* A join goes by objects and list entries that still exist.
JoinSafe ==
    \A k \in Creator : /\ pc[k] = "found" => k \notin lost
                       /\ pc[k] = "join" => thr[k] \notin deleted

\* Every join returns, also one that has found an id that is in use again.
JoinReturns ==
    \A k \in Creator :
        pc[k] \in {"found", "join", "wait"} ~> pc[k] = "idle" \/ process # "up"
=============================================================================
