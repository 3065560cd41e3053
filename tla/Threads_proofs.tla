--------------------------- MODULE Threads_proofs ---------------------------
(***************************************************************************)
(* The safety of Threads for every number of creators, children and ids.   *)
(***************************************************************************)
EXTENDS Threads, TLAPS

-----------------------------------------------------------------------------
\* An id in use is the id of one child.
IdsDiffer ==
    \A c, d \in Child : Alive(c) /\ Alive(d) /\ osid[c] = osid[d] => c = d

\* When nothing is joined twice, a join holds the object of its own child,
\* and no child is reaped under somebody else's feet.
JoinsDiffer ==
    /\ \A c \in begun : Published(c)
    /\ \A c \in Child : life[c] = "reaped" => c \in begun
    /\ \A k \in Creator : Joining(k)
          => arg[k] \in begun /\ thr[k] = arg[k] /\ life[arg[k]] # "reaped"
    /\ \A j, k \in Creator : Joining(j) /\ Joining(k) /\ arg[j] = arg[k] => j = k

\* A published child that is not reaped hides behind nobody's stale entry, and
\* its entry, its object and the iterators to it outlive its program.
EntryOutlives ==
    /\ \A c \in Child : Published(c) /\ Alive(c)
          => entry[osid[c]] \in {c, None}
    /\ FindsItself
    /\ \A c \in deleted : ~Unfinished(c)
    /\ \A k \in lost : pc[k] = "found" /\ ~Unfinished(arg[k])

\* The inductive invariant: more is true as long as no child was joined again.
Undisturbed == IdsDiffer /\ JoinsDiffer /\ EntryOutlives
OnceInv == IInv /\ (~repeated => Undisturbed)

-----------------------------------------------------------------------------
LEMMA InitIInv == Init => IInv
  <1> SUFFICES ASSUME Init PROVE IInv
    OBVIOUS
  <1> USE NoneAssumption DEF Init
  <1>1. repeated \in BOOLEAN
    OBVIOUS
  <1>2. TypeOK
    BY <1>1 DEF TypeOK, Life, Location
  <1>3. Started /\ Known /\ ListedAlive
    BY DEF Started, Known, Published, Starting, Joining, ListedAlive
  <1>4. QED
    BY <1>2, <1>3 DEF IInv

LEMMA StepIInv == IInv /\ [Next]_vars => IInv'
  <1> SUFFICES ASSUME IInv, [Next]_vars
               PROVE  IInv'
    OBVIOUS
  <1> USE NoneAssumption
  <1> USE DEF IInv, TypeOK, Life, Location, Started, Known, Published, Starting,
              Joining, ListedAlive, creatorVars, mapVars
  <1>1. ASSUME NEW k \in Creator, NEW c \in Child, PthreadCreate(k, c)
        PROVE  IInv'
    BY <1>1 DEF PthreadCreate
  <1>2. ASSUME NEW k \in Creator, SetThreadID(k)
        PROVE  IInv'
    BY <1>2 DEF SetThreadID, Freed
  <1>3. ASSUME NEW k \in Creator, insertThread(k)
        PROVE  IInv'
    BY <1>3 DEF insertThread, Back
  <1>4. ASSUME NEW c \in Child, Finish(c) \/ Release(c) \/ Exit(c)
        PROVE  IInv'
    BY <1>4 DEF Finish, Release, Exit, ChildStep
  <1>5. ASSUME NEW c \in Child, Fail(c)
        PROVE  IInv'
    BY <1>5 DEF Fail
  <1>6. ASSUME NEW c \in Child, deleteThread(c)
        PROVE  IInv'
    BY <1>6 DEF deleteThread
  <1>7. ASSUME NEW k \in Creator, NEW c \in Child, findThread(k, c)
        PROVE  IInv'
    BY <1>7 DEF findThread, Look
  <1>8. ASSUME NEW k \in Creator, Dereference(k)
        PROVE  IInv'
    BY <1>8 DEF Dereference, Freed, Back
  <1>9. ASSUME NEW k \in Creator, Join(k)
        PROVE  IInv'
    BY <1>9, SMTT(30) DEF Join, Freed, PthreadJoin, Back
  <1>10. ASSUME NEW k \in Creator, Joined(k)
         PROVE  IInv'
    BY <1>10 DEF Joined, Back
  <1>11. CASE UNCHANGED vars
    BY <1>11 DEF vars
  <1>12. QED
    BY <1>1, <1>2, <1>3, <1>4, <1>5, <1>6, <1>7, <1>8, <1>9, <1>10, <1>11
    DEF Next, Run, GoOn, Ended

LEMMA InitOnceInv == Init => OnceInv
  BY InitIInv, NoneAssumption
  DEF Init, OnceInv, Undisturbed, IdsDiffer, Alive, JoinsDiffer, Joining, EntryOutlives,
      FindsItself, Published, Unfinished

\* Once a child was joined again, that stays so.
LEMMA RepeatedStays == [Next]_vars /\ repeated => repeated'
  BY DEF Next, vars, creatorVars, mapVars, PthreadCreate, SetThreadID, Freed,
         insertThread, Back, Run, Finish, Release, Exit, ChildStep, Fail,
         deleteThread, findThread, Look, GoOn, Dereference, Join, PthreadJoin,
         Joined, Ended

LEMMA StepOnceInv == OnceInv /\ [Next]_vars => OnceInv'
  <1> SUFFICES ASSUME OnceInv, [Next]_vars, ~repeated'
               PROVE  Undisturbed'
    BY StepIInv DEF OnceInv
  <1>0. IInv /\ IInv' /\ Undisturbed /\ ~repeated /\ ~repeated'
    BY StepIInv, RepeatedStays DEF OnceInv
  <1> USE <1>0, NoneAssumption
  <1> USE DEF IInv, TypeOK, Life, Location, Started, Known, Published, Starting,
              Joining, ListedAlive, creatorVars, mapVars,
              Undisturbed, IdsDiffer, Alive, JoinsDiffer, EntryOutlives,
              FindsItself, Unfinished
  <1>1. ASSUME NEW k \in Creator, NEW c \in Child, PthreadCreate(k, c)
        PROVE  Undisturbed'
    BY <1>1 DEF PthreadCreate
  <1>2. ASSUME NEW k \in Creator, SetThreadID(k)
        PROVE  Undisturbed'
    BY <1>2 DEF SetThreadID, Freed
  <1>3. ASSUME NEW k \in Creator, insertThread(k)
        PROVE  Undisturbed'
    BY <1>3 DEF insertThread, Back
  <1>4. ASSUME NEW c \in Child, Finish(c) \/ Release(c) \/ Exit(c)
        PROVE  Undisturbed'
    BY <1>4 DEF Finish, Release, Exit, ChildStep
  <1>5. ASSUME NEW c \in Child, Fail(c)
        PROVE  Undisturbed'
    BY <1>5 DEF Fail
  <1>6. ASSUME NEW c \in Child, deleteThread(c)
        PROVE  Undisturbed'
    <2> USE <1>6 DEF deleteThread
    <2>1. IdsDiffer' /\ JoinsDiffer'
      OBVIOUS
    <2>2. EntryOutlives'
      OBVIOUS
    <2>3. QED
      BY <2>1, <2>2
  <1>7. ASSUME NEW k \in Creator, NEW c \in Child, findThread(k, c)
        PROVE  Undisturbed'
    <2>1. c \notin begun
      BY <1>7, ~repeated', Zenon DEF findThread, Look
    <2> USE <1>7, <2>1 DEF findThread, Look
    <2>2. IdsDiffer' /\ JoinsDiffer'
      OBVIOUS
    <2>3. EntryOutlives'
      OBVIOUS
    <2>4. QED
      BY <2>2, <2>3
  <1>8. ASSUME NEW k \in Creator, Dereference(k)
        PROVE  Undisturbed'
    BY <1>8, SMTT(30) DEF Dereference, Freed, Back
  <1>9. ASSUME NEW k \in Creator, Join(k)
        PROVE  Undisturbed'
    BY <1>9, SMTT(30) DEF Join, Freed, PthreadJoin, Back
  <1>10. ASSUME NEW k \in Creator, Joined(k)
         PROVE  Undisturbed'
    BY <1>10 DEF Joined, Back
  <1>11. CASE UNCHANGED vars
    BY <1>11 DEF vars
  <1>12. QED
    BY <1>1, <1>2, <1>3, <1>4, <1>5, <1>6, <1>7, <1>8, <1>9, <1>10, <1>11
    DEF Next, Run, GoOn, Ended

-----------------------------------------------------------------------------
\* Whatever is joined, and by whomever: the types, and what is listed, deleted
\* and joined.
THEOREM Invariance == Spec => []IInv
  BY InitIInv, StepIInv, PTL DEF Spec

\* The types of the list, of the children and of the joins' locals.
THEOREM TypeCorrect == Spec => []TypeOK
  BY Invariance, PTL DEF IInv

\* No OSThread object is deleted twice or listed after it was deleted, also
\* when joins are repeated: deleteThread may find an entry a child with the
\* same id left behind, but never one whose object is gone.
THEOREM NoDoubleDelete == Spec => []ListedAlive
  BY Invariance, PTL DEF IInv

\* As long as no child was joined twice, the list leads a join to its own child.
THEOREM ListLeadsToChild == Spec => []FindsItself
  <1>1. OnceInv => FindsItself
    BY DEF OnceInv, Undisturbed, EntryOutlives, FindsItself
  <1>2. QED
    BY <1>1, InitOnceInv, StepOnceInv, PTL DEF Spec

\* As long as no child was joined twice, every join that returns, through the
\* list or past it, returns after the program of its child is over.
THEOREM JoinWaits == Spec => JoinMeansFinished
  <1> DEFINE Finished ==
               ~repeated' => \A k \in Creator :
                  /\ pc[k] \in {"found", "join", "wait"} /\ pc'[k] = "idle"
                        => ~Unfinished(arg[k])
                  /\ pc' = pc => \A c \in begun' \ begun : ~Unfinished(c)
  <1>1. ASSUME OnceInv, [Next]_vars
        PROVE  Finished
    <2> SUFFICES ASSUME ~repeated'
                 PROVE  Finished
      OBVIOUS
    <2>0. ~repeated
      BY <1>1, RepeatedStays
    <2> USE <1>1, <2>0, NoneAssumption
    <2> USE DEF OnceInv, Undisturbed, IInv, TypeOK, Life, Location, Known, Joining,
                creatorVars, IdsDiffer, Alive, JoinsDiffer, EntryOutlives,
                FindsItself, Unfinished, Published
    <2>1. ASSUME NEW k \in Creator, NEW c \in Child, PthreadCreate(k, c)
          PROVE  Finished
      BY <2>1 DEF PthreadCreate
    <2>2. ASSUME NEW k \in Creator, SetThreadID(k) \/ insertThread(k)
          PROVE  Finished
      BY <2>2 DEF SetThreadID, Freed, insertThread, Back
    <2>3. ASSUME NEW c \in Child, Run(c) \/ Fail(c)
          PROVE  Finished
      BY <2>3 DEF Run, Finish, Release, Exit, ChildStep, deleteThread, Fail
    <2>4. ASSUME NEW k \in Creator, NEW c \in Child, findThread(k, c)
          PROVE  Finished
      BY <2>4 DEF findThread, Look
    <2>5. ASSUME NEW k \in Creator, Dereference(k)
          PROVE  Finished
      BY <2>5 DEF Dereference, Freed, Back
    <2>6. ASSUME NEW k \in Creator, Join(k)
          PROVE  Finished
      BY <2>6 DEF Join, Freed, PthreadJoin, Back
    <2>7. ASSUME NEW k \in Creator, Joined(k)
          PROVE  Finished
      BY <2>7 DEF Joined, Back
    <2>8. CASE UNCHANGED vars
      BY <2>8 DEF vars
    <2>9. QED
      BY <2>1, <2>2, <2>3, <2>4, <2>5, <2>6, <2>7, <2>8
      DEF Next, Run, GoOn, Ended, vars
  <1>2. QED
    BY <1>1, InitOnceInv, StepOnceInv, PTL DEF Spec, JoinMeansFinished
=============================================================================
