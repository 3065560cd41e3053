--------------------------- MODULE Monitor_proofs ---------------------------
(***************************************************************************)
(* The safety of Monitor for every number of threads and every MaxEntry,   *)
(* and of the job queue built on it for every number of producers,         *)
(* consumers and jobs.                                                     *)
(***************************************************************************)
EXTENDS JobQueue, TLAPS


\* A signal wakes sleepers of its condition variable, and one if there is one.
LEMMA SignalWakes ==
    ASSUME NEW C, NEW W \in Signal(C)
    PROVE  W \subseteq C /\ (C # {} => W # {})
  BY DEF Signal

\* A function that differs from another at one argument is its EXCEPT.
LEMMA PointUpdate ==
    ASSUME NEW S, NEW f, NEW g, NEW s \in S, NEW y,
           f = [x \in S |-> f[x]], g = [x \in S |-> g[x]],
           g[s] = y, \A x \in S \ {s} : g[x] = f[x]
    PROVE  g = [f EXCEPT ![s] = y]
  OBVIOUS

LEMMA InitIInv == Init => IInv
  BY NoneAssumption, MaxEntryAssumption
  DEF Init, IInv, TypeOK, Location, Op, MutexHeld, OwnerRuns, WaiterRemembers,
      CallsConsistent, NobodyStranded, queue

LEMMA StepIInv == IInv /\ [Next]_vars => IInv'
  <1> SUFFICES ASSUME IInv, [Next]_vars
               PROVE  IInv'
    OBVIOUS
  <1> USE NoneAssumption, MaxEntryAssumption
  <1> USE DEF IInv, TypeOK, Location, Op, MutexHeld, OwnerRuns,
              WaiterRemembers, CallsConsistent, NobodyStranded, queue
  <1>1. ASSUME NEW t \in Thread, NEW o \in Op, Call(t, o)
        PROVE  IInv'
    BY <1>1 DEF Call
  <1>2. ASSUME NEW t \in Thread, Lock(t)
        PROVE  IInv'
    BY <1>2 DEF Lock
  <1>3. ASSUME NEW t \in Thread, AcquireTake(t)
        PROVE  IInv'
    BY <1>3 DEF AcquireTake, InBody, Unlock, Return, Goto
  <1>4. ASSUME NEW t \in Thread, AcquireBlock(t)
        PROVE  IInv'
    BY <1>4 DEF AcquireBlock, InBody, Unlock, Goto
  <1>5. ASSUME NEW t \in Thread, NotOwner(t)
        PROVE  IInv'
    BY <1>5 DEF NotOwner, InBody, Unlock, Return, Goto
  <1>6. ASSUME NEW t \in Thread, Release(t)
        PROVE  IInv'
    BY <1>6, SignalWakes DEF Release, InBody, Unlock, Return, Goto
  <1>7. ASSUME NEW t \in Thread, WaitBlock(t)
        PROVE  IInv'
    BY <1>7, SignalWakes DEF WaitBlock, InBody, Unlock, Goto, timedwait
  <1>8. ASSUME NEW t \in Thread, WaitRefused(t)
        PROVE  IInv'
    BY <1>8, SignalWakes DEF WaitRefused, InBody, Unlock, Return, Goto, timedwait
  <1>9. ASSUME NEW t \in Thread, Notify(t)
        PROVE  IInv'
    BY <1>9, SignalWakes DEF Notify, InBody, Unlock, Return, Goto, event
  <1>10. ASSUME NEW t \in Thread, NotifyAll(t)
         PROVE  IInv'
    BY <1>10 DEF NotifyAll, InBody, Unlock, Return, Goto, event
  <1>11. ASSUME NEW t \in Thread, SpuriousWakeup(t)
         PROVE  IInv'
    BY <1>11 DEF SpuriousWakeup
  <1>12. ASSUME NEW t \in Thread, Timeout(t)
         PROVE  IInv'
    BY <1>12 DEF Timeout, timedwait
  <1>13. ASSUME NEW t \in Thread, WakeLock(t)
         PROVE  IInv'
    BY <1>13 DEF WakeLock
  <1>14. ASSUME NEW t \in Thread, RecheckBlock(t)
         PROVE  IInv'
    BY <1>14 DEF RecheckBlock, Unlock, Goto
  <1>15. ASSUME NEW t \in Thread, RecheckTake(t)
         PROVE  IInv'
    BY <1>15 DEF RecheckTake, Unlock, Return, Goto
  <1>16. CASE UNCHANGED vars
    BY <1>16 DEF vars
  <1>17. QED
    BY <1>1, <1>2, <1>3, <1>4, <1>5, <1>6, <1>7, <1>8, <1>9, <1>10, <1>11,
       <1>12, <1>13, <1>14, <1>15, <1>16, ZenonT(40)
    DEF Next, Step, Environment

-----------------------------------------------------------------------------
\* Every reachable state satisfies the inductive invariant.
THEOREM Invariance == Spec => []IInv
  BY InitIInv, StepIInv, PTL DEF Spec

\* Type correctness of the monitor's fields and of its callers.
THEOREM TypeCorrect == Spec => []TypeOK
  BY Invariance, PTL DEF IInv

\* A thread between mutex.lock() and the unlock is the only one there, for
\* every number of threads.
THEOREM MutexDiscipline == Spec => []MutexHeld
  BY Invariance, PTL DEF IInv

\* No wakeup is lost: a free monitor never has only sleepers, however many
\* threads use it and however deep they nest.
THEOREM NoLostWakeup == Spec => []NobodyStranded
  BY Invariance, PTL DEF IInv

\* Nobody but the owner ends an ownership, and only with the mutex held.
THEOREM OwnershipIsKept == Spec => OnlyOwnerLetsGo
  <1>1. ASSUME IInv, [Next]_vars, owner # None, owner' # owner
        PROVE  owner' = None /\ mutex = owner
    <2> USE NoneAssumption, <1>1
    <2> USE DEF InBody, Unlock, Goto, Return
    <2>1. PICK t \in Thread : (\E o \in Op : Call(t, o)) \/ Step(t) \/ Environment(t)
      BY DEF Next, vars
    <2>2. CASE Release(t)
      BY <2>2 DEF Release
    <2>3. CASE WaitBlock(t)
      BY <2>3 DEF WaitBlock
    <2>4. CASE AcquireTake(t)
      BY <2>4 DEF AcquireTake
    <2>5. CASE RecheckTake(t)
      BY <2>5 DEF RecheckTake
    <2>6. CASE UNCHANGED owner
      BY <2>6
    <2>7. QED
      BY <2>1, <2>2, <2>3, <2>4, <2>5, <2>6
      DEF Step, Environment, Call, Lock, AcquireBlock, NotOwner, WaitRefused,
          Notify, NotifyAll, SpuriousWakeup, Timeout, WakeLock, RecheckBlock
  <1>2. QED
    BY <1>1, Invariance, PTL DEF Spec, OnlyOwnerLetsGo

-----------------------------------------------------------------------------
\* Refinement: each step of the code is a step of MonitorSpec or leaves the
\* owner, the entries and the status of the threads alone.

LEMMA InitRefines == Init => Abstract!Init
  BY NoneAssumption
  DEF Init, Abstract!Init, entries, status, Reentering

LEMMA StepRefines == IInv /\ [Next]_vars => [Abstract!Next]_(Abstract!vars)
  <1> SUFFICES ASSUME IInv, [Next]_vars
               PROVE  Abstract!Next \/ UNCHANGED <<owner, entries, status>>
    BY DEF Abstract!vars
  <1> USE NoneAssumption, MaxEntryAssumption
  <1> USE DEF IInv, TypeOK, Location, Op, MutexHeld, OwnerRuns,
              WaiterRemembers, CallsConsistent,
              entries, status, Reentering, InBody, Unlock, Goto, Return
  <1>1. ASSUME NEW t \in Thread, NEW o \in Op, Call(t, o)
        PROVE  Abstract!Request(t) \/ UNCHANGED <<owner, entries, status>>
    <2>1. CASE o = "acquire"
      BY <1>1, <2>1 DEF Call, Abstract!Request
    <2>2. CASE o # "acquire"
      BY <1>1, <2>2 DEF Call
    <2>3. QED
      BY <2>1, <2>2
  <1>2. ASSUME NEW t \in Thread, Lock(t)
        PROVE  UNCHANGED <<owner, entries, status>>
    BY <1>2 DEF Lock
  <1>3. ASSUME NEW t \in Thread, AcquireTake(t)
        PROVE  Abstract!Enter(t)
    <2>1. pc[t] = "body" /\ op[t] = "acquire" /\ entries[t] = n /\ n \in Nat
      BY <1>3 DEF AcquireTake
    <2>2. entries' = [entries EXCEPT ![t] = @ + 1]
      <3>1. entries'[t] = n + 1
        BY <1>3, <2>1 DEF AcquireTake
      <3>2. \A u \in Thread \ {t} : entries'[u] = entries[u]
        BY <1>3, <2>1 DEF AcquireTake
      <3>3. entries = [u \in Thread |-> entries[u]]
            /\ entries' = [u \in Thread |-> entries'[u]]
        BY DEF entries
      <3>4. entries' = [entries EXCEPT ![t] = n + 1]
        BY ONLY <3>1, <3>2, <3>3, PointUpdate, t \in Thread
      <3>5. QED
        BY ONLY <2>1, <3>4
    <2>3. status' = [status EXCEPT ![t] = "running"]
      BY <1>3, <2>1 DEF AcquireTake
    <2>4. QED
      BY <1>3, <2>1, <2>2, <2>3 DEF AcquireTake, Abstract!Enter
  <1>4. ASSUME NEW t \in Thread, AcquireBlock(t)
        PROVE  UNCHANGED <<owner, entries, status>>
    BY <1>4 DEF AcquireBlock
  <1>5. ASSUME NEW t \in Thread, NotOwner(t)
        PROVE  UNCHANGED <<owner, entries, status>>
    BY <1>5 DEF NotOwner
  <1>6. ASSUME NEW t \in Thread, Release(t)
        PROVE  Abstract!Leave(t)
    <2>1. PICK W \in SUBSET queue : Return(t, W)
      BY <1>6, SignalWakes DEF Release
    <2>2. pc[t] = "body" /\ op[t] = "release" /\ entries[t] = n /\ n \in Nat
      BY <1>6 DEF Release
    <2>3. entries' = [entries EXCEPT ![t] = @ - 1]
      <3>1. entries'[t] = n - 1
        BY <1>6, <2>1, <2>2 DEF Release, queue
      <3>2. \A u \in Thread \ {t} : entries'[u] = entries[u]
        BY <1>6, <2>1, <2>2 DEF Release, queue
      <3>3. entries = [u \in Thread |-> entries[u]]
            /\ entries' = [u \in Thread |-> entries'[u]]
        BY DEF entries
      <3>4. entries' = [entries EXCEPT ![t] = n - 1]
        BY ONLY <3>1, <3>2, <3>3, PointUpdate, t \in Thread
      <3>5. QED
        BY ONLY <2>2, <3>4
    <2>4. UNCHANGED status
      BY <1>6, <2>1, <2>2 DEF Release, queue
    <2>5. QED
      BY <1>6, <2>2, <2>3, <2>4 DEF Release, Abstract!Leave
  <1>7. ASSUME NEW t \in Thread, WaitBlock(t)
        PROVE  Abstract!Wait(t)
    <2>1. PICK W \in SUBSET queue : Goto(t, "event", W)
      BY <1>7, SignalWakes DEF WaitBlock
    <2>2. pc[t] = "body" /\ op[t] \in {"wait", "timewait"} /\ op' = op
      BY <1>7 DEF WaitBlock
    <2>3. UNCHANGED entries
      BY <1>7, <2>1, <2>2 DEF WaitBlock, queue
    <2>4. status' = [status EXCEPT ![t] = "waiting"]
      BY <1>7, <2>1, <2>2 DEF WaitBlock, queue
    <2>5. QED
      BY <1>7, <2>2, <2>3, <2>4 DEF WaitBlock, Abstract!Wait
  <1>8. ASSUME NEW t \in Thread, WaitRefused(t)
        PROVE  UNCHANGED <<owner, entries, status>>
    BY <1>8, SignalWakes DEF WaitRefused, queue
  <1>9. ASSUME NEW t \in Thread, Notify(t)
        PROVE  Abstract!Notify(t) \/ UNCHANGED <<owner, entries, status>>
    <2>1. PICK W \in Signal(event) : Return(t, W)
      BY <1>9 DEF Notify
    <2>2. UNCHANGED <<owner, n>> /\ owner = t /\ pc[t] = "body" /\ op[t] = "notify"
      BY <1>9 DEF Notify
    <2>3. CASE event = {}
      <3>1. W = {}
        BY <2>3 DEF Signal
      <3>2. QED
        BY <2>1, <2>2, <3>1
    <2>4. CASE event # {}
      <3>1. PICK w \in event : W = {w}
        BY <2>4 DEF Signal
      <3>2. w # t /\ w \in Abstract!Waiting
        BY <2>2, <3>1 DEF event, Abstract!Waiting
      <3>3. UNCHANGED <<owner, entries>>
        BY <2>1, <2>2, <3>1, <3>2 DEF event
      <3>4. Abstract!Rouse({w})
        BY <2>1, <2>2, <3>1, <3>2 DEF event, Abstract!Rouse
      <3>5. QED
        BY <2>2, <3>2, <3>3, <3>4 DEF Abstract!Notify
    <2>5. QED
      BY <2>3, <2>4
  <1>10. ASSUME NEW t \in Thread, NotifyAll(t)
         PROVE  Abstract!NotifyAll(t)
    BY <1>10 DEF NotifyAll, event, Abstract!NotifyAll, Abstract!Rouse,
                 Abstract!Waiting
  <1>11. ASSUME NEW t \in Thread, SpuriousWakeup(t)
         PROVE  Abstract!WakeUp(t) \/ UNCHANGED <<owner, entries, status>>
    BY <1>11 DEF SpuriousWakeup, Abstract!WakeUp, Abstract!Rouse
  <1>12. ASSUME NEW t \in Thread, Timeout(t)
         PROVE  Abstract!WakeUp(t)
    BY <1>12 DEF Timeout, Abstract!WakeUp, Abstract!Rouse
  <1>13. ASSUME NEW t \in Thread, WakeLock(t)
         PROVE  UNCHANGED <<owner, entries, status>>
    BY <1>13 DEF WakeLock
  <1>14. ASSUME NEW t \in Thread, RecheckBlock(t)
         PROVE  UNCHANGED <<owner, entries, status>>
    BY <1>14 DEF RecheckBlock
  <1>15. ASSUME NEW t \in Thread, RecheckTake(t)
         PROVE  Abstract!Enter(t) \/ Abstract!Reenter(t)
    <2>1. CASE op[t] = "acquire"
      BY <1>15, <2>1, ZenonT(40) DEF RecheckTake, Abstract!Enter
    <2>2. CASE op[t] # "acquire"
      BY <1>15, <2>2, ZenonT(40) DEF RecheckTake, Abstract!Reenter
    <2>3. QED
      BY <2>1, <2>2
  <1>16. CASE UNCHANGED vars
    BY <1>16 DEF vars
  <1>17. QED
    BY <1>1, <1>2, <1>3, <1>4, <1>5, <1>6, <1>7, <1>8, <1>9, <1>10, <1>11,
       <1>12, <1>13, <1>14, <1>15, <1>16
    DEF Next, Step, Environment, Abstract!Next

\* The mutex and the two condition variables implement the promised monitor:
\* exclusive, reentrant, and a wait gives back exactly the entries it took.
THEOREM Refinement == Spec => ImplementsMonitorSpec
  BY InitRefines, StepRefines, Invariance, PTL
  DEF Spec, Abstract!Spec, ImplementsMonitorSpec

-----------------------------------------------------------------------------
(***************************************************************************)
(* The job queue, over what is proved of the monitor.                      *)
(*                                                                         *)
(* The inductive invariant: the monitor's own, and what a thread holds of  *)
(* the monitor at each place of its program, between two calls of it and   *)
(* in one.  at[t] is where t will be when its call returns.                *)
(***************************************************************************)
EntriesAt(l) == IF l \in {"notify", "wait", "end"} THEN 2 ELSE 1

Owns(t, k) == owner = t /\ n = k

InCall(t) ==
    \/ at[t] \in {"put", "get"} /\ op[t] = "acquire" /\ owner # t
    \/ at[t] \in {"notify", "wait"} /\ op[t] = "acquire" /\ Owns(t, 1)
    \/ at[t] = "end" /\ op[t] = "notify" /\ Owns(t, 2)
    \/ /\ at[t] = "end" /\ op[t] \in {"wait", "timewait"}
       /\ IF pc[t] \in {"lock", "body"} THEN Owns(t, 2) ELSE prev[t] = 2
    \/ at[t] \in {"leave", "test"} /\ op[t] = "release" /\ Owns(t, 2)
    \/ at[t] = "out" /\ op[t] = "release" /\ Owns(t, 1)

\* t has the entries its place says.
Placed(t) ==
    IF pc[t] # "idle" THEN InCall(t)
    ELSE IF at[t] = "out" THEN owner # t ELSE Owns(t, EntriesAt(at[t]))

\* The jobs of a producer are queued in the order it put them.
QueueInOrder ==
    \A i, j \in 1..Len(jobs) :
        i < j /\ jobs[i][1] = jobs[j][1] => jobs[i][2] < jobs[j][2]

QueueTypeOK ==
    /\ jobs \in Seq(Job)
    /\ at \in [Thread -> Place]
    /\ made \in [Producer -> 0..Puts]
    /\ got \in [Consumer -> Seq(Job \cup {TimedOut})]
    /\ spurious \in 0..Spurious
    /\ \A p \in Producer : at[p] = "put" => made[p] > 0

QueueInv == QueueTypeOK /\ QueueInOrder /\ JobsConserved /\ NoEmptyHand

JobIInv == IInv /\ (\A t \in Thread : Placed(t)) /\ QueueInv

-----------------------------------------------------------------------------
LEMMA InitJobIInv == JobInit => JobIInv
  <1> SUFFICES ASSUME JobInit
               PROVE  JobIInv
    OBVIOUS
  <1> USE NoneAssumption, ThreadAssumption, BoundAssumption
  <1>1. IInv
    BY InitIInv DEF JobInit
  <1>2. \A t \in Thread : Placed(t)
    BY DEF JobInit, Init, Placed
  <1>3. QueueTypeOK /\ QueueInOrder /\ NoEmptyHand
    BY DEF JobInit, QueueTypeOK, QueueInOrder, NoEmptyHand, Place
  <1>4. JobsConserved
    <2>1. \A c \in Consumer : TakenBy(c) = {}
      BY DEF JobInit, TakenBy
    <2>2. Queued = {}
      BY DEF JobInit, Queued
    <2>3. \A p \in Producer : Appended(p) = 0
      BY DEF JobInit, Appended
    <2>4. QED
      BY <2>1, <2>2, <2>3 DEF JobsConserved
  <1>5. QED
    BY <1>1, <1>2, <1>3, <1>4 DEF JobIInv, QueueInv

\* Every step of the program is one of the monitor, or leaves it alone.
LEMMA MonitorMoves == [JobNext]_allVars => [Next]_vars
  <1> SUFFICES ASSUME [JobNext]_allVars
               PROVE  [Next]_vars
    OBVIOUS
  <1>1. ASSUME NEW t \in Thread, Run(t)
        PROVE  [Next]_vars
    BY <1>1, ThreadAssumption
    DEF Run, Put, Get, EnterPut, AppendJob, NotifyJob, EnterGet, AwaitJob, WaitJob,
        LeaveNative, TestAgain, GiveUp, TakeJob, LeaveMethod, CallThen, GoOn, Next, Op
  <1>2. ASSUME NEW t \in Thread, Deadline(t) \/ WakeForNothing(t)
        PROVE  [Next]_vars
    BY <1>2 DEF Deadline, WakeForNothing, Next, Environment
  <1>3. QED
    BY <1>1, <1>2 DEF JobNext, allVars

\* What a step of the monitor by another thread leaves of t's call and of its
\* hold: it may be woken, and nothing else.
LEMMA OthersLeave ==
    ASSUME IInv, NEW t \in Thread, NEW u \in Thread, t # u,
           Step(u) \/ Environment(u) \/ (\E o \in Op : Call(u, o))
    PROVE  /\ op'[t] = op[t] /\ prev'[t] = prev[t]
           /\ pc'[t] = pc[t] \/ (pc[t] \in {"queue", "event"} /\ pc'[t] = "woken")
           /\ owner' = t <=> owner = t
           /\ owner = t => n' = n
  <1> USE NoneAssumption
  <1> USE DEF IInv, TypeOK, MutexHeld, OwnerRuns, InBody, Unlock, Goto, Return, queue, event
  <1>1. CASE \E o \in Op : Call(u, o)
    BY <1>1 DEF Call
  <1>2. CASE Lock(u) \/ AcquireTake(u) \/ AcquireBlock(u) \/ NotOwner(u)
    BY <1>2 DEF Lock, AcquireTake, AcquireBlock, NotOwner
  <1>3. CASE Release(u)
    BY <1>3, SignalWakes DEF Release
  <1>4. CASE WaitBlock(u)
    BY <1>4, SignalWakes DEF WaitBlock
  <1>5. CASE WaitRefused(u)
    BY <1>5, SignalWakes DEF WaitRefused
  <1>6. CASE Notify(u)
    BY <1>6, SignalWakes DEF Notify
  <1>7. CASE NotifyAll(u)
    BY <1>7 DEF NotifyAll
  <1>8. CASE WakeLock(u) \/ RecheckBlock(u) \/ RecheckTake(u)
    BY <1>8 DEF WakeLock, RecheckBlock, RecheckTake
  <1>9. CASE Environment(u)
    BY <1>9 DEF Environment, SpuriousWakeup, Timeout
  <1>10. QED
    BY <1>1, <1>2, <1>3, <1>4, <1>5, <1>6, <1>7, <1>8, <1>9 DEF Step

LEMMA OthersPlaced ==
    ASSUME JobIInv, NEW t \in Thread, NEW u \in Thread, t # u,
           Step(u) \/ Environment(u) \/ (\E o \in Op : Call(u, o)), at'[t] = at[t]
    PROVE  Placed(t)'
  <1> USE DEF JobIInv
  <1>1. /\ op'[t] = op[t] /\ prev'[t] = prev[t]
        /\ pc'[t] = pc[t] \/ (pc[t] \in {"queue", "event"} /\ pc'[t] = "woken")
        /\ owner' = t <=> owner = t
        /\ owner = t => n' = n
    BY OthersLeave
  <1>2. Placed(t)
    OBVIOUS
  <1>3. QED
    BY <1>1, <1>2 DEF Placed, InCall, Owns

\* A step of a monitor call brings its own thread to the place it said.
LEMMA StepPlaces ==
    ASSUME JobIInv, NEW t \in Thread, Step(t) \/ Environment(t), at'[t] = at[t]
    PROVE  Placed(t)'
  <1> USE NoneAssumption
  <1> USE DEF Placed, InCall, Owns, EntriesAt, InBody, Unlock, Goto, Return, queue, event
  <1>1. /\ IInv /\ Placed(t)
        /\ n \in Nat /\ pc \in [Thread -> Location] /\ op \in [Thread -> Op \cup {"none"}]
        /\ prev \in [Thread -> 0..MaxEntry]
    BY DEF JobIInv, IInv, TypeOK
  <1>2. /\ owner # None => pc[owner] \in {"idle", "lock", "body"}
        /\ pc[t] \in {"queue", "event", "woken", "recheck"}
              => op[t] \in {"acquire", "wait", "timewait"}
    BY <1>1 DEF IInv, OwnerRuns, CallsConsistent
  <1> USE <1>1, <1>2
  <1>3. CASE Lock(t)
    BY <1>3 DEF Lock
  <1>4. CASE AcquireTake(t)
    BY <1>4 DEF AcquireTake, IInv, OwnerRuns
  <1>5. CASE AcquireBlock(t)
    BY <1>5 DEF AcquireBlock
  <1>6. CASE NotOwner(t)
    BY <1>6 DEF NotOwner
  <1>7. CASE Release(t)
    BY <1>7, SignalWakes DEF Release
  <1>8. CASE WaitBlock(t)
    BY <1>8, SignalWakes DEF WaitBlock
  <1>9. CASE WaitRefused(t)
    BY <1>9, SignalWakes DEF WaitRefused
  <1>10. CASE Notify(t)
    BY <1>10, SignalWakes DEF Notify
  <1>11. CASE NotifyAll(t)
    BY <1>11 DEF NotifyAll
  <1>12. CASE WakeLock(t) \/ RecheckBlock(t)
    BY <1>12 DEF WakeLock, RecheckBlock
  <1>13. CASE RecheckTake(t)
    BY <1>13 DEF RecheckTake, IInv, OwnerRuns
  <1>14. CASE Environment(t)
    BY <1>14 DEF Environment, SpuriousWakeup, Timeout
  <1>15. QED
    BY <1>3, <1>4, <1>5, <1>6, <1>7, <1>8, <1>9, <1>10, <1>11, <1>12, <1>13, <1>14 DEF Step

\* A call from the place where t is begins as the place it returns to says,
\* and what a thread does by itself stays with its place.
LEMMA RunPlaces ==
    ASSUME JobIInv, NEW t \in Thread, Run(t)
    PROVE  Placed(t)'
  <1> USE NoneAssumption, ThreadAssumption
  <1>1. /\ IInv /\ Placed(t) /\ at \in [Thread -> Place]
        /\ pc \in [Thread -> Location] /\ op \in [Thread -> Op \cup {"none"}]
    BY DEF JobIInv, IInv, TypeOK, QueueInv, QueueTypeOK
  <1>2. ASSUME NEW o \in Op, NEW l \in Place, CallThen(t, o, l)
        PROVE  /\ pc'[t] = "lock" /\ op'[t] = o /\ at'[t] = l
               /\ owner' = owner /\ n' = n /\ pc[t] = "idle"
    BY <1>1, <1>2 DEF CallThen, Call
  <1>3. ASSUME NEW l \in Place, GoOn(t, l)
        PROVE  pc' = pc /\ op' = op /\ at'[t] = l /\ owner' = owner /\ n' = n
    BY <1>1, <1>3 DEF GoOn, vars
  <1>4. CASE t \in Producer /\ Put(t)
    <2>1. CASE EnterPut(t)
      BY <1>1, <1>2, <2>1 DEF EnterPut, Between, Placed, InCall, Owns, Op, Place
    <2>2. CASE AppendJob(t)
      BY <1>1, <1>2, <2>2 DEF AppendJob, Between, Placed, InCall, Owns, EntriesAt, Op, Place
    <2>3. CASE NotifyJob(t)
      BY <1>1, <1>2, <2>3 DEF NotifyJob, Between, Placed, InCall, Owns, EntriesAt, Op, Place
    <2>4. QED
      BY <1>4, <2>1, <2>2, <2>3 DEF Put
  <1>5. CASE t \in Consumer /\ Get(t)
    <2>1. CASE EnterGet(t)
      BY <1>1, <1>2, <2>1 DEF EnterGet, Between, Placed, InCall, Owns, Op, Place
    <2>2. CASE AwaitJob(t)
      BY <1>1, <1>2, <2>2 DEF AwaitJob, Between, Placed, InCall, Owns, EntriesAt, Op, Place
    <2>3. CASE WaitJob(t)
      BY <1>1, <1>2, <2>3 DEF WaitJob, Between, Placed, InCall, Owns, EntriesAt, Op, Place
    <2>4. CASE TestAgain(t)
      BY <1>1, <1>3, <2>4 DEF TestAgain, Between, Placed, InCall, Owns, EntriesAt, Place
    <2>5. CASE GiveUp(t)
      BY <1>1, <1>3, <2>5 DEF GiveUp, Between, Placed, InCall, Owns, EntriesAt, Place
    <2>6. CASE TakeJob(t)
      BY <1>1, <1>3, <2>6 DEF TakeJob, Between, Placed, InCall, Owns, EntriesAt, Place
    <2>7. QED
      BY <1>5, <2>1, <2>2, <2>3, <2>4, <2>5, <2>6 DEF Get
  <1>6. CASE LeaveNative(t)
    BY <1>1, <1>2, <1>6 DEF LeaveNative, Between, Placed, InCall, Owns, EntriesAt, Op, Place
  <1>7. CASE LeaveMethod(t)
    BY <1>1, <1>2, <1>7 DEF LeaveMethod, Between, Placed, InCall, Owns, EntriesAt, Op, Place
  <1>8. CASE Step(t) /\ UNCHANGED jobVars
    BY <1>8, StepPlaces DEF jobVars
  <1>9. QED
    BY <1>4, <1>5, <1>6, <1>7, <1>8 DEF Run

LEMMA AllPlaced ==
    ASSUME JobIInv, [JobNext]_allVars
    PROVE  (\A t \in Thread : Placed(t))'
  <1>1. CASE UNCHANGED allVars
    BY <1>1 DEF allVars, vars, jobVars, JobIInv, Placed, InCall, Owns
  <1>2. ASSUME NEW u \in Thread, Run(u)
        PROVE  (\A t \in Thread : Placed(t))'
    <2> SUFFICES ASSUME NEW t \in Thread
                 PROVE  Placed(t)'
      OBVIOUS
    <2>1. CASE t = u
      BY <1>2, <2>1, RunPlaces
    <2>2. CASE t # u
      <3>1. at'[t] = at[t]
        BY <1>2, <2>2 DEF JobIInv, QueueInv, QueueTypeOK, Run, Put, Get, EnterPut, AppendJob,
           NotifyJob, EnterGet, AwaitJob, WaitJob, LeaveNative, TestAgain, GiveUp, TakeJob,
           LeaveMethod, CallThen, GoOn, jobVars
      <3>2. CASE Step(u) \/ (\E o \in Op : Call(u, o))
        BY <2>2, <3>1, <3>2, OthersPlaced
      <3>3. CASE UNCHANGED vars
        BY <3>1, <3>3 DEF vars, JobIInv, Placed, InCall, Owns
      <3>4. QED
        BY <1>2, <3>2, <3>3 DEF Run, Put, Get, EnterPut, AppendJob, NotifyJob, EnterGet,
           AwaitJob, WaitJob, LeaveNative, TestAgain, GiveUp, TakeJob, LeaveMethod,
           CallThen, GoOn, Op
    <2>3. QED
      BY <2>1, <2>2
  <1>3. ASSUME NEW u \in Thread, Deadline(u) \/ WakeForNothing(u)
        PROVE  (\A t \in Thread : Placed(t))'
    <2>1. Environment(u) /\ at' = at
      BY <1>3 DEF Deadline, WakeForNothing, Environment, jobVars
    <2>2. QED
      BY <2>1, StepPlaces, OthersPlaced
  <1>4. QED
    BY <1>1, <1>2, <1>3 DEF JobNext

-----------------------------------------------------------------------------
(***************************************************************************)
(* The queue.                                                              *)
(***************************************************************************)
LEMMA NoJobIsATimeout == TimedOut \notin Job
  BY NoneAssumption, ThreadAssumption DEF TimedOut, Job

LEMMA Unmoved ==
    ASSUME QueueInv, UNCHANGED <<jobs, made, got>>, at' \in [Thread -> Place],
           spurious' \in 0..Spurious,
           \A p \in Producer : at'[p] = "put" <=> at[p] = "put"
    PROVE  QueueInv'
  <1>1. \A p \in Producer : Appended(p)' = Appended(p)
    BY DEF Appended
  <1>2. \A c \in Consumer : TakenBy(c)' = TakenBy(c)
    BY DEF TakenBy
  <1>3. Queued' = Queued
    BY DEF Queued
  <1>4. QED
    BY <1>1, <1>2, <1>3 DEF QueueInv, QueueTypeOK, QueueInOrder, JobsConserved, NoEmptyHand

\* A put that begins: the job is counted but not yet appended.
LEMMA EnterPutKeeps ==
    ASSUME QueueInv, NEW t \in Producer, EnterPut(t)
    PROVE  QueueInv'
  <1> USE ThreadAssumption, BoundAssumption
  <1>1. /\ made' = [made EXCEPT ![t] = @ + 1] /\ at' = [at EXCEPT ![t] = "put"]
        /\ UNCHANGED <<jobs, got, spurious>> /\ at[t] = "out" /\ made[t] < Puts
    BY DEF EnterPut, CallThen, Between
  <1>2. QueueTypeOK'
    BY <1>1 DEF QueueInv, QueueTypeOK, Place
  <1>3. \A p \in Producer : Appended(p)' = Appended(p)
    BY <1>1 DEF QueueInv, QueueTypeOK, Appended
  <1>4. \A c \in Consumer : TakenBy(c)' = TakenBy(c)
    BY <1>1 DEF TakenBy
  <1>5. Queued' = Queued
    BY <1>1 DEF Queued
  <1>6. QED
    BY <1>1, <1>2, <1>3, <1>4, <1>5 DEF QueueInv, QueueInOrder, JobsConserved, NoEmptyHand

LEMMA AppendKeeps ==
    ASSUME QueueInv, NEW t \in Producer, AppendJob(t)
    PROVE  QueueInv'
  <1> USE ThreadAssumption, BoundAssumption
  <1> DEFINE job == <<t, made[t]>>
  <1>1. /\ jobs' = Append(jobs, job) /\ at' = [at EXCEPT ![t] = "notify"]
        /\ UNCHANGED <<made, got, spurious>> /\ at[t] = "put"
    BY DEF AppendJob, CallThen, Between
  <1>2. jobs \in Seq(Job) /\ made \in [Producer -> 0..Puts] /\ made[t] > 0 /\ job \in Job
    BY <1>1 DEF QueueInv, QueueTypeOK, Job
  <1>3. QueueTypeOK'
    BY <1>1, <1>2 DEF QueueInv, QueueTypeOK, Place
  <1>4. /\ \A p \in Producer \ {t} : Appended(p)' = Appended(p)
        /\ Appended(t) = made[t] - 1 /\ Appended(t)' = made[t]
    BY <1>1, <1>2 DEF Appended, QueueInv, QueueTypeOK
  <1>5. \A c \in Consumer : TakenBy(c)' = TakenBy(c)
    BY <1>1 DEF TakenBy
  <1>6. Queued' = Queued \cup {job}
    BY <1>1, <1>2 DEF Queued
  <1>7. \A x \in Queued \cup UNION {TakenBy(c) : c \in Consumer} :
            x[1] = t => x[2] < made[t]
    BY <1>2, <1>4 DEF QueueInv, JobsConserved
  <1>8. QueueInOrder'
    <2>1. \A i \in 1..Len(jobs) : jobs[i] \in Queued
      BY DEF Queued
    <2>2. QED
      BY <1>1, <1>2, <1>7, <2>1 DEF QueueInv, QueueInOrder
  <1>9. JobsConserved'
    <2>1. UNION {{p} \X (1..Appended(p)') : p \in Producer}
            = {job} \cup UNION {{p} \X (1..Appended(p)) : p \in Producer}
      BY <1>2, <1>4
    <2>2. QED
      BY <1>5, <1>6, <1>7, <2>1 DEF QueueInv, JobsConserved
  <1>10. QED
    BY <1>1, <1>3, <1>8, <1>9 DEF QueueInv, NoEmptyHand

\* A wait that timed out is recorded as such: no job changes hands.
LEMMA GiveUpKeeps ==
    ASSUME QueueInv, NEW t \in Consumer, GiveUp(t)
    PROVE  QueueInv'
  <1> USE ThreadAssumption, BoundAssumption
  <1>1. /\ got' = [got EXCEPT ![t] = Append(got[t], TimedOut)]
        /\ at' = [at EXCEPT ![t] = "leave"]
        /\ UNCHANGED <<jobs, made, spurious>> /\ t \in Timed
    BY DEF GiveUp, GoOn
  <1>2. got[t] \in Seq(Job \cup {TimedOut}) /\ got \in [Consumer -> Seq(Job \cup {TimedOut})]
    BY DEF QueueInv, QueueTypeOK
  <1>3. QueueTypeOK'
    BY <1>1, <1>2 DEF QueueInv, QueueTypeOK, Place
  <1>4. \A p \in Producer : Appended(p)' = Appended(p)
    BY <1>1 DEF QueueInv, QueueTypeOK, Appended
  <1>5. \A c \in Consumer : TakenBy(c)' = TakenBy(c)
    <2>1. TakenBy(t)' = TakenBy(t)
      BY <1>1, <1>2, SMTT(30) DEF TakenBy
    <2>2. \A c \in Consumer \ {t} : TakenBy(c)' = TakenBy(c)
      BY <1>1, <1>2 DEF TakenBy
    <2>3. QED
      BY <2>1, <2>2
  <1>6. Queued' = Queued
    BY <1>1 DEF Queued
  <1>7. QED
    BY <1>1, <1>2, <1>3, <1>4, <1>5, <1>6, ZenonT(40)
    DEF QueueInv, QueueInOrder, JobsConserved, NoEmptyHand

\* The oldest job goes to the consumer that has the monitor.
LEMMA TakeKeeps ==
    ASSUME QueueInv, NEW t \in Consumer, TakeJob(t)
    PROVE  QueueInv'
  <1> USE ThreadAssumption, BoundAssumption
  <1> DEFINE job == Head(jobs)
  <1>1. /\ jobs # <<>> /\ jobs' = Tail(jobs)
        /\ got' = [got EXCEPT ![t] = Append(got[t], job)]
        /\ at' = [at EXCEPT ![t] = "leave"]
        /\ UNCHANGED <<made, spurious>>
    BY DEF TakeJob, GoOn
  <1>2. /\ jobs \in Seq(Job) /\ got[t] \in Seq(Job \cup {TimedOut})
        /\ got \in [Consumer -> Seq(Job \cup {TimedOut})]
        /\ \A c \in Consumer : got[c] \in Seq(Job \cup {TimedOut})
    BY DEF QueueInv, QueueTypeOK
  <1>3. /\ Len(jobs) > 0 /\ job = jobs[1] /\ job \in Job /\ job # TimedOut
        /\ Len(jobs') = Len(jobs) - 1 /\ jobs' \in Seq(Job)
        /\ \A i \in 1..Len(jobs') : jobs'[i] = jobs[i + 1]
    BY <1>1, <1>2, NoJobIsATimeout
  <1>4. QueueTypeOK'
    <2>1. Append(got[t], job) \in Seq(Job \cup {TimedOut})
      BY <1>2, <1>3
    <2>2. QED
      BY <1>1, <1>2, <1>3, <2>1 DEF QueueInv, QueueTypeOK, Place
  <1>5. \A p \in Producer : Appended(p)' = Appended(p)
    BY <1>1 DEF QueueInv, QueueTypeOK, Appended
  <1>6. TakenBy(t)' = TakenBy(t) \cup {job}
    BY <1>1, <1>2, <1>3 DEF TakenBy
  <1>7. \A c \in Consumer \ {t} : TakenBy(c)' = TakenBy(c)
    BY <1>1, <1>2 DEF TakenBy
  <1>8. Queued = Queued' \cup {job}
    <2>1. \A i \in 1..Len(jobs) : i = 1 \/ (i - 1 \in 1..Len(jobs') /\ jobs[i] = jobs'[i - 1])
      BY <1>2, <1>3
    <2>2. \A i \in 1..Len(jobs') : i + 1 \in 1..Len(jobs)
      BY <1>2, <1>3
    <2>3. QED
      BY <1>3, <2>1, <2>2, SMTT(30) DEF Queued
  <1>9. \A x \in Queued' : x[1] = job[1] => job[2] < x[2]
    <2> SUFFICES ASSUME NEW i \in 1..Len(jobs'), jobs'[i][1] = job[1]
                 PROVE  job[2] < jobs'[i][2]
      BY DEF Queued
    <2>1. Len(jobs) \in Nat
      BY <1>2
    <2>2. 1 \in 1..Len(jobs) /\ i + 1 \in 1..Len(jobs) /\ 1 < i + 1
      BY <1>3, <2>1
    <2>3. jobs[1] = job /\ jobs[i + 1] = jobs'[i]
      BY <1>3
    <2>4. \A k, l \in 1..Len(jobs) :
              k < l /\ jobs[k][1] = jobs[l][1] => jobs[k][2] < jobs[l][2]
      BY DEF QueueInv, QueueInOrder
    <2>5. QED
      BY <2>2, <2>3, <2>4
  <1>10. \A c \in Consumer : job \notin TakenBy(c)
    <2>1. job \in Queued /\ job[2] \in Nat
      BY <1>3, <1>8 DEF Job
    <2>2. QED
      BY <2>1 DEF QueueInv, JobsConserved
  <1>11. QueueInOrder'
    <2> SUFFICES ASSUME NEW i \in 1..Len(jobs'), NEW j \in 1..Len(jobs'), i < j,
                        jobs'[i][1] = jobs'[j][1]
                 PROVE  jobs'[i][2] < jobs'[j][2]
      BY DEF QueueInOrder
    <2>1. Len(jobs) \in Nat
      BY <1>2
    <2>2. i + 1 \in 1..Len(jobs) /\ j + 1 \in 1..Len(jobs) /\ i + 1 < j + 1
      BY <1>3, <2>1
    <2>3. jobs[i + 1] = jobs'[i] /\ jobs[j + 1] = jobs'[j]
      BY <1>3
    <2>4. \A k, l \in 1..Len(jobs) :
              k < l /\ jobs[k][1] = jobs[l][1] => jobs[k][2] < jobs[l][2]
      BY DEF QueueInv, QueueInOrder
    <2>5. QED
      BY <2>2, <2>3, <2>4
  <1>12. JobsConserved'
    <2>1. Queued' \cup UNION {TakenBy(c)' : c \in Consumer}
            = Queued \cup UNION {TakenBy(c) : c \in Consumer}
      BY <1>6, <1>7, <1>8
    <2>2. \A c, d \in Consumer : c # d => TakenBy(c)' \cap TakenBy(d)' = {}
      BY <1>6, <1>7, <1>10 DEF QueueInv, JobsConserved
    <2>3. \A c \in Consumer : \A x \in TakenBy(c)', older \in Queued' :
              x[1] = older[1] => x[2] < older[2]
      BY <1>6, <1>7, <1>8, <1>9 DEF QueueInv, JobsConserved
    <2>4. UNION {{p} \X (1..Appended(p)') : p \in Producer}
            = UNION {{p} \X (1..Appended(p)) : p \in Producer}
      BY <1>5
    <2>5. QED
      BY <2>1, <2>2, <2>3, <2>4 DEF QueueInv, JobsConserved
  <1>13. NoEmptyHand'
    BY <1>1, <1>2, <1>3 DEF QueueInv, NoEmptyHand
  <1>14. QED
    BY <1>4, <1>11, <1>12, <1>13 DEF QueueInv

LEMMA QueueKept ==
    ASSUME QueueInv, [JobNext]_allVars
    PROVE  QueueInv'
  <1> USE ThreadAssumption
  <1>1. ASSUME NEW t \in Thread, NEW l \in Place \ {"put"}, at' = [at EXCEPT ![t] = l],
               at[t] # "put", UNCHANGED <<jobs, made, got, spurious>>
        PROVE  QueueInv'
    <2>1. /\ at' \in [Thread -> Place] /\ spurious' \in 0..Spurious
          /\ \A p \in Producer : at'[p] = "put" <=> at[p] = "put"
      BY <1>1 DEF QueueInv, QueueTypeOK
    <2>2. QED
      BY <1>1, <2>1, Unmoved
  <1>2. ASSUME NEW t \in Thread, Run(t)
        PROVE  QueueInv'
    <2>1. CASE t \in Producer /\ (EnterPut(t) \/ AppendJob(t))
      BY <2>1, EnterPutKeeps, AppendKeeps
    <2>2. CASE t \in Consumer /\ (GiveUp(t) \/ TakeJob(t))
      BY <2>2, GiveUpKeeps, TakeKeeps
    <2>3. CASE NotifyJob(t)
      BY <1>1, <2>3 DEF NotifyJob, CallThen, Between, Place
    <2>4. CASE EnterGet(t)
      BY <1>1, <2>4 DEF EnterGet, CallThen, Between, Place
    <2>5. CASE AwaitJob(t)
      BY <1>1, <2>5 DEF AwaitJob, CallThen, Between, Place
    <2>6. CASE WaitJob(t)
      BY <1>1, <2>6 DEF WaitJob, CallThen, Between, Place
    <2>7. CASE LeaveNative(t)
      BY <1>1, <2>7 DEF LeaveNative, CallThen, Between, Place
    <2>8. CASE TestAgain(t)
      BY <1>1, <2>8 DEF TestAgain, GoOn, Between, Place
    <2>9. CASE LeaveMethod(t)
      BY <1>1, <2>9 DEF LeaveMethod, CallThen, Between, Place
    <2>10. CASE UNCHANGED jobVars
      BY <2>10, Unmoved DEF jobVars, QueueInv, QueueTypeOK
    <2>11. QED
      BY <1>2, <2>1, <2>2, <2>3, <2>4, <2>5, <2>6, <2>7, <2>8, <2>9, <2>10 DEF Run, Put, Get
  <1>3. CASE UNCHANGED jobVars
    BY <1>3, Unmoved DEF jobVars, QueueInv, QueueTypeOK
  <1>4. ASSUME NEW t \in Thread, WakeForNothing(t)
        PROVE  QueueInv'
    <2>1. spurious' \in 0..Spurious
      BY <1>4, BoundAssumption DEF WakeForNothing, QueueInv, QueueTypeOK
    <2>2. QED
      BY <1>4, <2>1, Unmoved DEF WakeForNothing, QueueInv, QueueTypeOK
  <1>5. QED
    BY <1>2, <1>3, <1>4 DEF JobNext, Deadline, allVars

-----------------------------------------------------------------------------
THEOREM JobInvariance == JobSpec => []JobIInv
  <1>1. ASSUME JobIInv, [JobNext]_allVars
        PROVE  JobIInv'
    <2>1. IInv'
      BY <1>1, MonitorMoves, StepIInv DEF JobIInv
    <2>2. (\A t \in Thread : Placed(t))'
      BY <1>1, AllPlaced
    <2>3. QueueInv'
      BY <1>1, QueueKept DEF JobIInv
    <2>4. QED
      BY <2>1, <2>2, <2>3 DEF JobIInv
  <1>2. QED
    BY <1>1, InitJobIInv, PTL DEF JobSpec

\* The bodies of put and get never run next to each other, however many
\* threads share the queue: a thread between two calls of the monitor owns it
\* with one entry, or two in a native method, and a wait gave both back.
THEOREM MethodsOwn == JobSpec => []JobInv
  <1>1. JobIInv => JobInv
    BY DEF JobIInv, JobInv, JobTypeOK, IInv, QueueInv, QueueTypeOK, InMethodOwns, Placed,
       Owns, EntriesAt
  <1>2. QED
    BY <1>1, JobInvariance, PTL

\* No job is lost, none is given twice, each producer's are given in order,
\* and a get without a time limit returns a job: what the test's sorted
\* results stand for, for every number of threads and jobs.
THEOREM NothingMislaid == JobSpec => []JobsGiven
  <1>1. JobIInv => JobsGiven
    BY DEF JobIInv, QueueInv, JobsGiven
  <1>2. QED
    BY <1>1, JobInvariance, PTL

\* The monitor stays a monitor under the methods that use it: what Monitor
\* promises of every caller holds of these.
THEOREM JobsUseTheMonitor == JobSpec => Spec
  <1>1. JobInit => Init
    BY DEF JobInit
  <1>2. QED
    BY <1>1, MonitorMoves, PTL DEF JobSpec, Spec
=============================================================================
