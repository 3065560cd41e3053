----------------------------- MODULE Heap_proofs -----------------------------
(***************************************************************************)
(* The counts of Heap for any number of threads, variables and cells: they *)
(* are exact, nothing is freed too early or kept too long, and a finalizer *)
(* runs once.                                                              *)
(***************************************************************************)
EXTENDS Heap, FiniteSetTheorems, SequenceTheorems, TLAPS

-----------------------------------------------------------------------------
(***************************************************************************)
(* What a thread has to do, as a function: Job[t][k] is the k-th task of t *)
(* from the end, and N[t] is the number of the next one.                   *)
(***************************************************************************)
NoTask == [op |-> "none", loc |-> Nowhere, from |-> Nowhere, c |-> Null]
FromEnd(s) == [k \in Nat |-> IF k \in 1..Len(s) THEN s[Len(s) + 1 - k] ELSE NoTask]

N == [t \in Thread |-> Len(todo[t])]
Job == [t \in Thread |-> FromEnd(todo[t])]

LEMMA FromEndOf ==
    ASSUME NEW s \in Seq(TaskType)
    PROVE  /\ Len(s) \in Nat
           /\ \A k \in 1..Len(s) : FromEnd(s)[k] = s[Len(s) + 1 - k] /\ FromEnd(s)[k] \in TaskType
           /\ \A k \in Nat : k \notin 1..Len(s) => FromEnd(s)[k] = NoTask
  <1>1. Len(s) \in Nat
    OBVIOUS
  <1>2. ASSUME NEW k \in 1..Len(s)
        PROVE  FromEnd(s)[k] = s[Len(s) + 1 - k] /\ FromEnd(s)[k] \in TaskType
    <2>1. Len(s) + 1 - k \in 1..Len(s) /\ k \in Nat
      BY <1>1
    <2>2. FromEnd(s)[k] = s[Len(s) + 1 - k]
      BY <2>1 DEF FromEnd
    <2>3. s[Len(s) + 1 - k] \in TaskType
      BY <2>1
    <2> QED BY <2>2, <2>3
  <1>3. \A k \in Nat : k \notin 1..Len(s) => FromEnd(s)[k] = NoTask
    BY DEF FromEnd
  <1> QED BY <1>1, <1>2, <1>3

JobsOf(t) == /\ N[t] = Len(todo[t]) /\ N[t] \in Nat
             /\ \A k \in 1..N[t] : Job[t][k] = todo[t][N[t] + 1 - k] /\ Job[t][k] \in TaskType
             /\ \A k \in Nat : k \notin 1..N[t] => Job[t][k] = NoTask

LEMMA JobTable ==
    ASSUME todo \in [Thread -> Seq(TaskType)], NEW t \in Thread
    PROVE  JobsOf(t)
  BY FromEndOf DEF JobsOf, Job, N

\* The task a thread is at.
LEMMA NextTask ==
    ASSUME todo \in [Thread -> Seq(TaskType)], NEW t \in Thread, todo[t] # <<>>
    PROVE  /\ N[t] \in Nat \ {0}
           /\ Job[t][N[t]] = Now(t)
           /\ Now(t) \in TaskType
  <1>1. JobsOf(t) /\ todo[t] \in Seq(TaskType)
    BY JobTable
  <1>2. Len(todo[t]) \in Nat \ {0} /\ Head(todo[t]) = todo[t][1]
    BY <1>1
  <1>3. N[t] \in Nat \ {0} /\ N[t] \in 1..N[t] /\ N[t] + 1 - N[t] = 1
    BY <1>1, <1>2 DEF JobsOf
  <1> QED BY <1>1, <1>2, <1>3 DEF JobsOf, Now

\* The first task is replaced by others.
LEMMA FromEndThen ==
    ASSUME NEW s \in Seq(TaskType), s # <<>>, NEW tasks \in Seq(TaskType)
    PROVE  LET n == Len(s)  m == Len(tasks)  new == tasks \o Tail(s)
           IN  /\ n \in Nat \ {0} /\ m \in Nat
               /\ new \in Seq(TaskType) /\ Len(new) = n - 1 + m
               /\ \A k \in Nat : k < n => FromEnd(new)[k] = FromEnd(s)[k]
               /\ \A k \in 1..m : FromEnd(new)[n + m - k] = tasks[k]
               /\ \A k \in Nat : k >= n + m => FromEnd(new)[k] = NoTask
  <1> DEFINE n == Len(s)
             m == Len(tasks)
             new == tasks \o Tail(s)
  <1>1. /\ Tail(s) \in Seq(TaskType) /\ n \in Nat \ {0} /\ m \in Nat
        /\ Len(Tail(s)) = n - 1
        /\ \A i \in 1..(n - 1) : Tail(s)[i] = s[i + 1]
    OBVIOUS
  <1>2. /\ new \in Seq(TaskType) /\ Len(new) = n - 1 + m
        /\ \A i \in 1..m : new[i] = tasks[i]
        /\ \A i \in 1..(n - 1) : new[m + i] = s[i + 1]
    BY <1>1
  <1> HIDE DEF new, n, m
  <1>3. /\ \A k \in 1..Len(new) : FromEnd(new)[k] = new[Len(new) + 1 - k]
        /\ \A k \in Nat : k \notin 1..Len(new) => FromEnd(new)[k] = NoTask
        /\ \A k \in 1..n : FromEnd(s)[k] = s[n + 1 - k]
        /\ \A k \in Nat : k \notin 1..n => FromEnd(s)[k] = NoTask
    BY <1>2, FromEndOf DEF n
  <1>4. ASSUME NEW k \in Nat, k < n
        PROVE  FromEnd(new)[k] = FromEnd(s)[k]
    <2>1. CASE k = 0
      BY <2>1, <1>1, <1>2, <1>3
    <2>2. CASE k # 0
      <3>1. /\ k \in 1..Len(new) /\ k \in 1..n
            /\ n - k \in 1..(n - 1)
            /\ Len(new) + 1 - k = m + (n - k) /\ n + 1 - k = (n - k) + 1
        BY <2>2, <1>1, <1>2, <1>4
      <3> QED BY <1>2, <1>3, <3>1
    <2> QED BY <2>1, <2>2
  <1>5. ASSUME NEW k \in 1..m
        PROVE  FromEnd(new)[n + m - k] = tasks[k]
    <2>1. /\ n + m - k \in 1..Len(new)
          /\ Len(new) + 1 - (n + m - k) = k
      BY <1>1, <1>2
    <2> QED BY <1>2, <1>3, <2>1
  <1>6. ASSUME NEW k \in Nat, k >= n + m
        PROVE  FromEnd(new)[k] = NoTask
    <2>1. k \notin 1..Len(new)
      BY <1>1, <1>2, <1>6
    <2> QED BY <2>1, <1>3
  <1> QED BY <1>1, <1>2, <1>4, <1>5, <1>6 DEF new, n, m

\* What becomes of the tasks when the next one is done and leaves others.
Leaves(t, tasks) ==
    /\ todo' \in [Thread -> Seq(TaskType)]
    /\ Len(tasks) \in Nat /\ N'[t] = N[t] - 1 + Len(tasks)
    /\ \A u \in Thread \ {t} : N'[u] = N[u] /\ Job'[u] = Job[u]
    /\ \A k \in Nat : k < N[t] => Job'[t][k] = Job[t][k]
    /\ \A k \in 1..Len(tasks) : Job'[t][N[t] + Len(tasks) - k] = tasks[k]
    /\ \A k \in Nat : k >= N[t] + Len(tasks) => Job'[t][k] = NoTask

LEMMA Done ==
    ASSUME todo \in [Thread -> Seq(TaskType)], NEW t \in Thread, todo[t] # <<>>,
           NEW tasks \in Seq(TaskType), Then(t, tasks)
    PROVE  Leaves(t, tasks)
  <1>1. tasks \o Tail(todo[t]) \in Seq(TaskType)
    BY FromEndThen
  <1>2. /\ todo' \in [Thread -> Seq(TaskType)]
        /\ todo'[t] = tasks \o Tail(todo[t]) /\ \A u \in Thread \ {t} : todo'[u] = todo[u]
    BY <1>1 DEF Then
  <1>3. /\ N[t] = Len(todo[t]) /\ N'[t] = Len(todo'[t])
        /\ Job[t] = FromEnd(todo[t]) /\ Job'[t] = FromEnd(todo'[t])
        /\ \A u \in Thread \ {t} : N'[u] = N[u] /\ Job'[u] = Job[u]
    BY <1>2 DEF N, Job
  <1> QED BY <1>2, <1>3, FromEndThen DEF Leaves

\* What a thread that has nothing to do begins.
Begins(t, tasks) ==
    /\ todo' \in [Thread -> Seq(TaskType)]
    /\ Len(tasks) \in Nat /\ N[t] = 0 /\ N'[t] = Len(tasks)
    /\ \A u \in Thread \ {t} : N'[u] = N[u] /\ Job'[u] = Job[u]
    /\ \A k \in Nat : Job[t][k] = NoTask
    /\ \A k \in 1..Len(tasks) : Job'[t][Len(tasks) + 1 - k] = tasks[k]
    /\ \A k \in 1..Len(tasks) : Job'[t][k] = tasks[Len(tasks) + 1 - k]
    /\ \A k \in Nat : k \notin 1..Len(tasks) => Job'[t][k] = NoTask

LEMMA Begun ==
    ASSUME todo \in [Thread -> Seq(TaskType)], NEW t \in Thread, todo[t] = <<>>,
           NEW tasks \in Seq(TaskType), todo' = [todo EXCEPT ![t] = tasks]
    PROVE  Begins(t, tasks)
  <1>1. /\ todo' \in [Thread -> Seq(TaskType)]
        /\ todo'[t] = tasks /\ \A u \in Thread \ {t} : todo'[u] = todo[u]
    OBVIOUS
  <1>2. /\ N[t] = Len(todo[t]) /\ N'[t] = Len(tasks)
        /\ Job[t] = FromEnd(todo[t]) /\ Job'[t] = FromEnd(tasks)
        /\ \A u \in Thread \ {t} : N'[u] = N[u] /\ Job'[u] = Job[u]
    BY <1>1 DEF N, Job
  <1>3. Len(todo[t]) = 0 /\ \A k \in Nat : FromEnd(todo[t])[k] = NoTask
    <2>1. todo[t] \in Seq(TaskType) /\ Len(todo[t]) = 0
      OBVIOUS
    <2>2. \A k \in Nat : k \notin 1..Len(todo[t])
      BY <2>1
    <2> QED BY <2>1, <2>2, FromEndOf
  <1>4. /\ Len(tasks) \in Nat
        /\ \A k \in 1..Len(tasks) : FromEnd(tasks)[k] = tasks[Len(tasks) + 1 - k]
        /\ \A k \in Nat : k \notin 1..Len(tasks) => FromEnd(tasks)[k] = NoTask
    BY FromEndOf
  <1>5. ASSUME NEW k \in 1..Len(tasks)
        PROVE  FromEnd(tasks)[Len(tasks) + 1 - k] = tasks[k]
    <2>1. Len(tasks) + 1 - k \in 1..Len(tasks) /\ Len(tasks) + 1 - (Len(tasks) + 1 - k) = k
      BY <1>4
    <2> QED BY <2>1, <1>4
  <1> QED BY <1>1, <1>2, <1>3, <1>4, <1>5 DEF Begins

-----------------------------------------------------------------------------
(***************************************************************************)
(* References.  Ref is what each place, loop and task refers to; Core is   *)
(* what is true of it and the counts.                                      *)
(***************************************************************************)
Hand(j) == IF j.op \in Owns THEN j.c ELSE Null
Val == [p \in Places |-> IF p \in Stale THEN Null ELSE read(p)]
AllSlots == ({"place"} \X Places) \cup ({"loop"} \X Thread) \cup ({"task"} \X (Thread \X Nat))
Ref == [s \in AllSlots |->
          IF s[1] = "place" THEN Val[s[2]]
          ELSE IF s[1] = "loop" THEN loop[s[2]].vec
          ELSE Hand(Job[s[2][1]][s[2][2]])]

Where(S, f, c) == {x \in S : f[x] = c}
At(c) == Where(AllSlots, Ref, c)
Own(c) == <<"place", Element(c, 1)>>

\* The count of a cell that is not being deleted.
Counted(c) ==
    /\ IsFiniteSet(At(c)) /\ ref[c] = Cardinality(At(c))
    /\ ref[c] >= 1
    /\ kind[c] = "object" => Ref[Own(c)] = c /\ (ref[c] >= 2 \/ lost[c])

\* Every reference is to a cell that lives, and a cell that is being deleted has
\* none but an object's pointer to itself.
Core ==
    /\ Ref \in [AllSlots -> Cell \cup {Null}]
    /\ ref \in [Cell -> Int]
    /\ Dying \subseteq Live
    /\ \A s \in AllSlots : Ref[s] # Null =>
          /\ Ref[s] \in Live
          /\ Ref[s] \in Dying => s = Own(Ref[s]) /\ kind[Ref[s]] = "object"
    /\ \A c \in Live \ Dying : Counted(c)

LEMMA CellsAre ==
    /\ Null \notin Cell /\ Live \subseteq Cell
    /\ Cell \subseteq Int
  BY BoundsAssumption DEF Cell, Null, Live

LEMMA OwnSlot ==
    ASSUME NEW c \in Cell
    PROVE  Own(c) \in AllSlots /\ \A d \in Cell : Own(c) = Own(d) => c = d
  <1>1. 1 \in 1..MaxLen
    BY BoundsAssumption
  <1>2. Element(c, 1) \in Places
    BY <1>1 DEF Places
  <1>3. Own(c) \in AllSlots
    BY <1>2 DEF Own, AllSlots
  <1>4. \A d \in Cell : Own(c) = Own(d) => c = d
    BY DEF Own, Element
  <1> QED BY <1>3, <1>4

\* One value of a function changes.
Changed(S, f, g, s, v) == s \in S /\ \A x \in S : g[x] = IF x = s THEN v ELSE f[x]
Recounted(F, G, old, new, c) ==
    /\ IsFiniteSet(G) /\ Cardinality(F) \in Nat
    /\ Cardinality(G) = Cardinality(F) + (IF new = c THEN 1 ELSE 0) - (IF old = c THEN 1 ELSE 0)

LEMMA CountChange ==
    ASSUME NEW S, NEW f, NEW g, NEW s, NEW v, NEW c,
           Changed(S, f, g, s, v), IsFiniteSet(Where(S, f, c))
    PROVE  Recounted(Where(S, f, c), Where(S, g, c), f[s], v, c)
  <1> DEFINE F == Where(S, f, c)
             G == Where(S, g, c)
  <1> USE DEF Recounted, Changed
  <1>1. IsFiniteSet(F) /\ Cardinality(F) \in Nat
    BY FS_CardinalityType
  <1>2. CASE v = c /\ f[s] = c
    <2>1. G = F
      BY <1>2 DEF Where
    <2> QED BY <1>1, <1>2, <2>1
  <1>3. CASE v = c /\ f[s] # c
    <2>1. G = F \cup {s} /\ s \notin F
      BY <1>3 DEF Where
    <2> HIDE DEF G, F
    <2>2. IsFiniteSet(G) /\ Cardinality(G) = Cardinality(F) + 1
      BY <1>1, <2>1, FS_AddElement
    <2> QED BY <1>1, <1>3, <2>2 DEF F, G
  <1>4. CASE v # c /\ f[s] = c
    <2>1. G = F \ {s} /\ s \in F
      BY <1>4 DEF Where
    <2> HIDE DEF G, F
    <2>2. IsFiniteSet(G) /\ Cardinality(G) = Cardinality(F) - 1
      BY <1>1, <2>1, FS_RemoveElement
    <2> QED BY <1>1, <1>4, <2>2 DEF F, G
  <1>5. CASE v # c /\ f[s] # c
    <2>1. G = F
      BY <1>5 DEF Where
    <2> QED BY <1>1, <1>5, <2>1
  <1> QED BY <1>2, <1>3, <1>4, <1>5

LEMMA AtChange ==
    ASSUME NEW s, NEW v, Changed(AllSlots, Ref, Ref', s, v), NEW d, IsFiniteSet(At(d))
    PROVE  Recounted(At(d), At(d)', Ref[s], v, d)
  <1>1. At(d)' = Where(AllSlots, Ref', d) /\ At(d) = Where(AllSlots, Ref, d)
    BY DEF At, Where
  <1>2. IsFiniteSet(Where(AllSlots, Ref, d))
    BY <1>1
  <1>3. Recounted(Where(AllSlots, Ref, d), Where(AllSlots, Ref', d), Ref[s], v, d)
    BY ONLY <1>2, CountChange, Changed(AllSlots, Ref, Ref', s, v)
  <1> QED BY <1>1, <1>3

LEMMA AtSame ==
    ASSUME Ref' = Ref, NEW d
    PROVE  At(d)' = At(d)
  BY DEF At, Where

Kept(c) == kind'[c] = kind[c] /\ ref'[c] = ref[c] /\ (lost[c] => lost'[c])

\* Nothing changes that the references are about.
LEMMA SameReferences ==
    ASSUME Core, Ref' = Ref, Dying' = Dying, Live' = Live, ref' \in [Cell -> Int],
           \A c \in Live : kind'[c] = kind[c], \A c \in Live \ Dying : Kept(c)
    PROVE  Core'
  <1>1. ASSUME NEW c \in Live' \ Dying'
        PROVE  Counted(c)'
    <2>1. c \in Live \ Dying /\ Counted(c) /\ Kept(c) /\ At(c)' = At(c)
      BY <1>1, AtSame DEF Core
    <2> QED BY <2>1 DEF Counted, Kept, Own, Element
  <1>2. \A s \in AllSlots : Ref'[s] # Null =>
          /\ Ref'[s] \in Live'
          /\ Ref'[s] \in Dying' => s = Own(Ref'[s]) /\ kind'[Ref'[s]] = "object"
    BY DEF Core
  <1> QED BY <1>1, <1>2 DEF Core, Own, Element

\* One more reference to a cell, which is counted.
LEMMA OneMore ==
    ASSUME Core, NEW s \in AllSlots, Ref[s] = Null, NEW c \in Live \ Dying,
           Ref' = [Ref EXCEPT ![s] = c], ref' = [ref EXCEPT ![c] = @ + 1],
           Dying' = Dying, kind' = kind, lost' = lost
    PROVE  Core'
  <1>1. c \in Cell /\ c # Null /\ Live' = Live
    BY CellsAre DEF Live
  <1>2. /\ Ref \in [AllSlots -> Cell \cup {Null}] /\ Ref' \in [AllSlots -> Cell \cup {Null}]
        /\ ref \in [Cell -> Int] /\ ref' \in [Cell -> Int]
    BY <1>1 DEF Core
  <1>3. ASSUME NEW d \in Live' \ Dying'
        PROVE  Counted(d)'
    <2>1. d \in Cell /\ d # Null /\ d \in Live \ Dying /\ Counted(d)
      BY <1>1, CellsAre DEF Core
    <2>a. Recounted(At(d), At(d)', Ref[s], c, d)
      BY <1>2, <2>1, AtChange DEF Counted, Changed
    <2>2. /\ IsFiniteSet(At(d)') /\ Cardinality(At(d)) \in Nat
          /\ Cardinality(At(d)') = Cardinality(At(d)) + (IF c = d THEN 1 ELSE 0)
      BY <2>1, <2>a DEF Recounted
    <2>3. ref'[d] = ref[d] + (IF c = d THEN 1 ELSE 0)
      BY <1>2, <2>1
    <2>4. Own(d)' = Own(d) /\ Own(d) \in AllSlots
      BY <2>1, OwnSlot DEF Own, Element
    <2>5. kind[d] = "object" => Ref'[Own(d)] = d
      BY <1>2, <2>1, <2>4 DEF Counted
    <2> QED BY <1>2, <2>1, <2>2, <2>3, <2>4, <2>5 DEF Counted
  <1>4. \A x \in AllSlots : Ref'[x] # Null =>
          /\ Ref'[x] \in Live'
          /\ Ref'[x] \in Dying' => x = Own(Ref'[x]) /\ kind'[Ref'[x]] = "object"
    BY <1>1, <1>2 DEF Core
  <1> QED BY <1>1, <1>2, <1>3, <1>4 DEF Core, Own, Element

\* A reference goes from one place to another.
LEMMA Moved ==
    ASSUME Core, NEW s \in AllSlots, NEW z \in AllSlots, NEW c \in Cell \cup {Null},
           s # z, Ref[s] = c, Ref[z] = Null, c # Null => s # Own(c),
           Ref' = [Ref EXCEPT ![s] = Null, ![z] = c], ref' = ref,
           Dying' = Dying, kind' = kind, lost' = lost
    PROVE  Core'
  <1>1. Live' = Live /\ Null \notin Cell /\ Live \subseteq Cell
    BY CellsAre DEF Live
  <1> DEFINE R == [Ref EXCEPT ![s] = Null]
  <1>2. /\ Ref \in [AllSlots -> Cell \cup {Null}] /\ R \in [AllSlots -> Cell \cup {Null}]
        /\ Ref' = [R EXCEPT ![z] = c] /\ Ref' \in [AllSlots -> Cell \cup {Null}]
        /\ R[z] = Null
    BY DEF Core
  <1>3. ASSUME NEW d \in Live' \ Dying'
        PROVE  Counted(d)'
    <2>1. d \in Cell /\ d # Null /\ d \in Live \ Dying /\ Counted(d)
      BY <1>1 DEF Core
    <2> DEFINE F == Where(AllSlots, Ref, d)
               G == Where(AllSlots, R, d)
               H == Where(AllSlots, Ref', d)
    <2>2. At(d) = F /\ At(d)' = H
      BY DEF At, Where
    <2>3. IsFiniteSet(F)
      BY <2>1, <2>2 DEF Counted
    <2>4. Recounted(F, G, Ref[s], Null, d)
      <3>1. Changed(AllSlots, Ref, R, s, Null)
        BY <1>2 DEF Changed
      <3> HIDE DEF R
      <3> QED BY <2>3, <3>1, CountChange
    <2>5. Recounted(G, H, R[z], c, d)
      <3> HIDE DEF R
      <3>1. Changed(AllSlots, R, Ref', z, c)
        BY <1>2 DEF Changed
      <3>2. IsFiniteSet(G)
        BY <2>4 DEF Recounted
      <3> QED BY <3>1, <3>2, CountChange
    <2> HIDE DEF F, G, H, R
    <2>6. IsFiniteSet(At(d)') /\ Cardinality(At(d)') = Cardinality(At(d))
      BY <1>2, <2>1, <2>2, <2>4, <2>5 DEF Recounted
    <2>7. Own(d)' = Own(d) /\ Own(d) \in AllSlots
      BY <2>1, OwnSlot DEF Own, Element
    <2>8. kind[d] = "object" => Ref'[Own(d)] = d
      BY <1>2, <2>1, <2>7 DEF Counted
    <2> QED BY <2>1, <2>6, <2>7, <2>8 DEF Counted
  <1>4. \A x \in AllSlots : Ref'[x] # Null =>
          /\ Ref'[x] \in Live'
          /\ Ref'[x] \in Dying' => x = Own(Ref'[x]) /\ kind'[Ref'[x]] = "object"
    BY <1>1, <1>2 DEF Core
  <1> QED BY <1>1, <1>2, <1>3, <1>4 DEF Core, Own, Element

\* What is left of the references to a cell when one is given up.
LEMMA Given ==
    ASSUME Core, NEW s \in AllSlots, NEW c \in Cell, Ref[s] = c,
           kind[c] = "object" => s # Own(c)
    PROVE  /\ c \in Live \ Dying /\ c # Null /\ Counted(c)
           /\ kind[c] = "object" => ref[c] >= 2
  <1>1. c # Null /\ c \in Live \ Dying /\ Counted(c)
    BY CellsAre DEF Core
  <1>2. ASSUME kind[c] = "object"
        PROVE  ref[c] >= 2
    <2>1. Own(c) \in AllSlots /\ Ref[Own(c)] = c /\ s # Own(c)
      BY <1>1, <1>2, OwnSlot DEF Counted
    <2>2. s \in At(c) /\ Own(c) \in At(c)
      BY <2>1 DEF At, Where
    <2>3. IsFiniteSet(At(c)) /\ ref[c] = Cardinality(At(c)) /\ Cardinality(At(c)) \in Nat
      BY <1>1, FS_CardinalityType DEF Counted
    <2> DEFINE A == At(c) \ {s}
    <2>4. IsFiniteSet(A) /\ Cardinality(A) = Cardinality(At(c)) - 1
      BY <2>2, <2>3, FS_RemoveElement
    <2>5. Own(c) \in A
      BY <2>1, <2>2
    <2> HIDE DEF A
    <2>6. Cardinality(A) # 0 /\ Cardinality(A) \in Nat
      BY <2>4, <2>5, FS_EmptySet, FS_CardinalityType
    <2> QED BY <2>3, <2>4, <2>6
  <1> QED BY <1>1, <1>2

\* A reference is given up, and the cell with its last one.
LEMMA Give ==
    ASSUME Core, NEW s \in AllSlots, NEW c \in Cell, Ref[s] = c,
           kind[c] = "object" => s # Own(c),
           Ref' = [Ref EXCEPT ![s] = Null], ref' = [ref EXCEPT ![c] = @ - 1],
           Dying' = IF LastReference(c) THEN Dying \cup {c} ELSE Dying,
           kind' = kind, lost' = lost
    PROVE  Core'
  <1>1. /\ Live' = Live /\ Live \subseteq Cell /\ Null \notin Cell
        /\ c \in Live \ Dying /\ c # Null /\ Counted(c)
        /\ kind[c] = "object" => ref[c] >= 2
    BY CellsAre, Given DEF Live
  <1>2. /\ Ref \in [AllSlots -> Cell \cup {Null}] /\ Ref' \in [AllSlots -> Cell \cup {Null}]
        /\ ref \in [Cell -> Int] /\ ref' \in [Cell -> Int]
    BY DEF Core
  <1>3. ASSUME NEW d \in Live \ Dying
        PROVE  /\ IsFiniteSet(At(d)') /\ Cardinality(At(d)') = ref'[d]
               /\ Own(d)' = Own(d)
               /\ kind[d] = "object" => Ref'[Own(d)] = d
    <2>1. d \in Cell /\ d # Null /\ Counted(d)
      BY <1>1 DEF Core
    <2>2. Recounted(At(d), At(d)', Ref[s], Null, d)
      BY <1>2, <2>1, AtChange DEF Counted, Changed
    <2>3. /\ IsFiniteSet(At(d)') /\ Cardinality(At(d)) \in Nat
          /\ Cardinality(At(d)') = Cardinality(At(d)) - (IF c = d THEN 1 ELSE 0)
      BY <2>1, <2>2 DEF Recounted
    <2>4. ref'[d] = ref[d] - (IF c = d THEN 1 ELSE 0)
      BY <1>2, <2>1
    <2>5. Own(d)' = Own(d) /\ Own(d) \in AllSlots
      BY <2>1, OwnSlot DEF Own, Element
    <2>6. kind[d] = "object" => Ref[Own(d)] = d /\ Own(d) # s
      BY <2>1, OwnSlot DEF Counted
    <2> QED BY <1>2, <2>1, <2>3, <2>4, <2>5, <2>6 DEF Counted
  <1>4. ASSUME NEW d \in Live' \ Dying'
        PROVE  Counted(d)'
    <2>1. d \in Live \ Dying /\ d \in Cell /\ Counted(d) /\ (d = c => ~LastReference(c))
      BY <1>1, <1>4 DEF Core
    <2>2. ref'[d] = ref[d] - (IF c = d THEN 1 ELSE 0) /\ ref[d] \in Int
      BY <1>2, <2>1
    <2>3. ref'[d] >= 1 /\ (kind[d] = "object" => ref'[d] >= 2 \/ lost[d])
      <3>1. CASE d = c
        BY <1>1, <2>1, <2>2, <3>1 DEF LastReference, Counted
      <3>2. CASE d # c
        BY <2>1, <2>2, <3>2 DEF Counted
      <3> QED BY <3>1, <3>2
    <2> QED BY <1>3, <2>1, <2>3 DEF Counted
  <1>5. ASSUME NEW x \in AllSlots, Ref'[x] # Null
        PROVE  /\ Ref'[x] \in Live'
               /\ Ref'[x] \in Dying' => x = Own(Ref'[x]) /\ kind'[Ref'[x]] = "object"
    <2>1. Ref'[x] = Ref[x] /\ x # s /\ Ref[x] \in Live
      BY <1>1, <1>2, <1>5 DEF Core
    <2>2. CASE Ref[x] \in Dying
      BY <2>1, <2>2, <1>1 DEF Core
    <2>3. CASE Ref[x] \notin Dying /\ Ref[x] = c /\ LastReference(c)
      <3>1. IsFiniteSet(At(c)') /\ Cardinality(At(c)') = ref[c] - 1 /\ x \in At(c)'
        BY <1>1, <1>2, <1>3, <2>1, <2>3 DEF At, Where
      <3> DEFINE A == At(c)'
      <3>5. IsFiniteSet(A) /\ Cardinality(A) = ref[c] - 1 /\ x \in A
        BY <3>1
      <3>6. Own(c) \in AllSlots /\ (kind[c] = "object" => Own(c) \in A)
        BY <1>1, <1>3, OwnSlot DEF At, Where
      <3>7. ref[c] = IF kind[c] = "object" THEN 2 ELSE 1
        BY <2>3 DEF LastReference
      <3> HIDE DEF A
      <3>8. Cardinality(A) # 0
        BY <3>5, FS_EmptySet
      <3>2. kind[c] = "object"
        BY <3>5, <3>7, <3>8
      <3>3. Cardinality(A) = 1 /\ Own(c) \in A
        BY <3>2, <3>5, <3>6, <3>7
      <3>4. A = {x}
        BY <3>3, <3>5, FS_Singleton
      <3> QED BY <1>1, <2>1, <2>3, <3>2, <3>3, <3>4
    <2>4. CASE Ref[x] \notin Dying /\ ~(Ref[x] = c /\ LastReference(c))
      BY <1>1, <2>1, <2>4
    <2> QED BY <2>2, <2>3, <2>4
  <1>6. Dying' \subseteq Live'
    BY <1>1 DEF Core
  <1> QED BY <1>1, <1>2, <1>4, <1>5, <1>6 DEF Core, Own, Element

\* A reference is given up that was not the last one.
LEMMA GiveOne ==
    ASSUME Core, NEW s \in AllSlots, NEW c \in Live \ Dying, Ref[s] = c, s # Own(c),
           Ref' = [Ref EXCEPT ![s] = Null], ref' = [ref EXCEPT ![c] = @ - 1],
           ref[c] >= 2, kind[c] = "object" => ref[c] >= 3 \/ lost[c],
           Dying' = Dying, kind' = kind, lost' = lost
    PROVE  Core'
  <1>1. Live' = Live /\ Live \subseteq Cell /\ Null \notin Cell
    BY CellsAre DEF Live
  <1>2. /\ Ref \in [AllSlots -> Cell \cup {Null}] /\ Ref' \in [AllSlots -> Cell \cup {Null}]
        /\ ref \in [Cell -> Int] /\ ref' \in [Cell -> Int] /\ c \in Cell
    BY <1>1 DEF Core
  <1>3. ASSUME NEW d \in Live' \ Dying'
        PROVE  Counted(d)'
    <2>1. d \in Cell /\ d # Null /\ d \in Live \ Dying /\ Counted(d)
      BY <1>1 DEF Core
    <2>2. Recounted(At(d), At(d)', Ref[s], Null, d)
      BY <1>2, <2>1, AtChange DEF Counted, Changed
    <2>3. /\ IsFiniteSet(At(d)') /\ Cardinality(At(d)) \in Nat
          /\ Cardinality(At(d)') = Cardinality(At(d)) - (IF c = d THEN 1 ELSE 0)
      BY <2>1, <2>2 DEF Recounted
    <2>4. ref'[d] = ref[d] - (IF c = d THEN 1 ELSE 0)
      BY <1>2, <2>1
    <2>5. Own(d)' = Own(d) /\ Own(d) \in AllSlots
      BY <2>1, OwnSlot DEF Own, Element
    <2>6. kind[d] = "object" => Ref[Own(d)] = d /\ Own(d) # s
      BY <2>1, OwnSlot DEF Counted
    <2> QED BY <1>2, <2>1, <2>3, <2>4, <2>5, <2>6 DEF Counted
  <1>4. \A x \in AllSlots : Ref'[x] # Null =>
          /\ Ref'[x] \in Live'
          /\ Ref'[x] \in Dying' => x = Own(Ref'[x]) /\ kind'[Ref'[x]] = "object"
    BY <1>1, <1>2 DEF Core
  <1> QED BY <1>1, <1>2, <1>3, <1>4 DEF Core, Own, Element

\* An object that is being deleted forgets itself.
LEMMA Forgotten ==
    ASSUME Core, NEW c \in Dying, Ref[Own(c)] = c,
           Ref' = [Ref EXCEPT ![Own(c)] = Null], ref' = ref,
           Dying' = Dying, kind' = kind, lost' = lost
    PROVE  Core'
  <1>1. /\ Live' = Live /\ Live \subseteq Cell /\ Null \notin Cell /\ c \in Cell /\ c # Null
        /\ Own(c) \in AllSlots
    BY CellsAre, OwnSlot DEF Live, Core
  <1>2. /\ Ref \in [AllSlots -> Cell \cup {Null}] /\ Ref' \in [AllSlots -> Cell \cup {Null}]
        /\ ref \in [Cell -> Int]
    BY <1>1 DEF Core
  <1>3. ASSUME NEW d \in Live' \ Dying'
        PROVE  Counted(d)'
    <2>1. d \in Cell /\ d # Null /\ d # c /\ d \in Live \ Dying /\ Counted(d)
      BY <1>1 DEF Core
    <2>2. Recounted(At(d), At(d)', Ref[Own(c)], Null, d)
      BY <1>1, <1>2, <2>1, AtChange DEF Counted, Changed
    <2>3. IsFiniteSet(At(d)') /\ Cardinality(At(d)') = Cardinality(At(d))
      BY <2>1, <2>2 DEF Recounted
    <2>4. Own(d)' = Own(d) /\ Own(d) \in AllSlots /\ Own(d) # Own(c)
      BY <1>1, <2>1, OwnSlot DEF Own, Element
    <2>5. kind[d] = "object" => Ref'[Own(d)] = d
      BY <1>2, <2>1, <2>4 DEF Counted
    <2> QED BY <1>2, <2>1, <2>3, <2>4, <2>5 DEF Counted
  <1>4. \A x \in AllSlots : Ref'[x] # Null =>
          /\ Ref'[x] \in Live'
          /\ Ref'[x] \in Dying' => x = Own(Ref'[x]) /\ kind'[Ref'[x]] = "object"
    BY <1>1, <1>2 DEF Core
  <1> QED BY <1>1, <1>2, <1>3, <1>4 DEF Core, Own, Element

\* A cell to which nothing refers is freed.
LEMMA FreedOne ==
    ASSUME Core, NEW c \in Dying, \A s \in AllSlots : Ref[s] # c,
           Ref' = Ref, ref' \in [Cell -> Int],
           Dying' = Dying \ {c}, Live' = Live \ {c}, \A d \in Cell \ {c} : Kept(d)
    PROVE  Core'
  <1>1. /\ Live \subseteq Cell /\ Null \notin Cell /\ c \in Cell /\ c # Null
    BY CellsAre DEF Core
  <1>2. ASSUME NEW d \in Live' \ Dying'
        PROVE  Counted(d)'
    <2>1. d \in Live \ Dying /\ d \in Cell \ {c} /\ Counted(d) /\ Kept(d) /\ At(d)' = At(d)
      BY <1>1, AtSame DEF Core
    <2> QED BY <2>1 DEF Counted, Kept, Own, Element
  <1>3. ASSUME NEW s \in AllSlots, Ref'[s] # Null
        PROVE  /\ Ref'[s] \in Live'
               /\ Ref'[s] \in Dying' => s = Own(Ref'[s]) /\ kind'[Ref'[s]] = "object"
    <2>1. Ref[s] \in Live \ {c} /\ Kept(Ref[s]) /\ Ref'[s] = Ref[s]
      BY <1>1, <1>3 DEF Core
    <2> QED BY <1>3, <2>1 DEF Core, Kept
  <1>4. Ref' \in [AllSlots -> Cell \cup {Null}] /\ Dying' \subseteq Live'
    BY DEF Core
  <1> QED BY <1>2, <1>3, <1>4 DEF Core, Own, Element

\* The first places of a cell are as many as they are.
FirstPlaces(c, n) == {<<"place", Element(c, i)>> : i \in 1..n}

LEMMA CountPlaces ==
    ASSUME NEW c, NEW n \in Nat
    PROVE  IsFiniteSet(FirstPlaces(c, n)) /\ Cardinality(FirstPlaces(c, n)) = n
  <1> DEFINE E == {<<"place", Element(c, i)>> : i \in 1..n}
             g == [i \in 1..n |-> <<"place", Element(c, i)>>]
  <1>1. g \in [1..n -> E]
    OBVIOUS
  <1>2. \A i, j \in 1..n : g[i] = g[j] => i = j
    BY DEF Element
  <1>3. g \in Bijection(1..n, E)
    BY <1>1, <1>2 DEF Bijection, Injection, Surjection, IsInjective
  <1>4. IsFiniteSet(1..n) /\ Cardinality(1..n) = n
    BY FS_Interval
  <1>5. ExistsBijection(1..n, E)
    BY <1>3 DEF ExistsBijection
  <1> HIDE DEF E, g
  <1>6. IsFiniteSet(E) /\ Cardinality(E) = n
    BY <1>4, <1>5, FS_Bijection
  <1> QED BY <1>6 DEF E, FirstPlaces

\* A new vector, to which a thread refers, with n references to one cell.
AddsVector(c, n, v, E, z) ==
    /\ c \in Cell \ Live /\ n \in Nat /\ v \in (Live \ Dying) \cup {Null}
    /\ IsFiniteSet(E) /\ Cardinality(E) = n /\ E \subseteq AllSlots
    /\ z \in AllSlots \ E /\ Ref[z] = Null /\ z # Own(v)
    /\ \A s \in E : Ref[s] = Null
    /\ \A s \in AllSlots : Ref'[s] = IF s \in E THEN v ELSE IF s = z THEN c ELSE Ref[s]
    /\ Ref' \in [AllSlots -> Cell \cup {Null}] /\ ref' \in [Cell -> Int]
    /\ \A d \in Cell : ref'[d] = IF d = c THEN 1 ELSE IF d = v THEN ref[d] + n ELSE ref[d]
    /\ Dying' = Dying /\ Live' = Live \cup {c} /\ kind' = [kind EXCEPT ![c] = "vector"]
    /\ kind \in [Cell -> {"free", "vector", "object"}] /\ lost' = lost

LEMMA NewVector ==
    ASSUME Core, NEW c, NEW n, NEW v, NEW E, NEW z, AddsVector(c, n, v, E, z)
    PROVE  Core'
  <1> USE DEF AddsVector
  <1>1. /\ Live \subseteq Cell /\ Null \notin Cell /\ c # Null /\ c # v /\ c \notin Dying
        /\ \A s \in AllSlots : Ref[s] # c
        /\ Dying \subseteq Live
    BY CellsAre DEF Core
  <1>2. /\ ref \in [Cell -> Int] /\ ref' \in [Cell -> Int]
        /\ \A d \in Cell \ {c} : kind'[d] = kind[d]
    BY DEF Core
  <1>3. kind'[c] = "vector" /\ ref'[c] = 1
    BY <1>2
  <1>4. IsFiniteSet(E) /\ Cardinality(E) = n
    OBVIOUS
  <1>5. Counted(c)'
    <2>1. At(c)' = {z}
      BY <1>1 DEF At, Where
    <2>2. IsFiniteSet({z}) /\ Cardinality({z}) = 1
      BY FS_Singleton
    <2>3. IsFiniteSet(At(c)') /\ Cardinality(At(c)') = 1
      BY <2>1, <2>2
    <2> QED BY <1>3, <2>3 DEF Counted
  <1>6. ASSUME NEW d \in Live \ Dying
        PROVE  Counted(d)'
    <2>1. /\ d \in Cell /\ d # Null /\ d # c /\ Counted(d)
          /\ IsFiniteSet(At(d)) /\ Cardinality(At(d)) \in Nat /\ ref[d] = Cardinality(At(d))
      BY <1>1, FS_CardinalityType DEF Core, Counted
    <2>2. Own(d)' = Own(d) /\ Own(d) \in AllSlots /\ (kind[d] = "object" => Ref[Own(d)] = d)
      BY <2>1, OwnSlot DEF Own, Element, Counted
    <2>3. kind[d] = "object" => Ref'[Own(d)] = d
      BY <1>1, <2>1, <2>2
    <2>4. CASE d # v
      <3>1. At(d)' = At(d)
        BY <1>1, <2>1, <2>4 DEF At, Where
      <3>2. ref'[d] = ref[d] /\ kind'[d] = kind[d]
        BY <1>2, <2>1, <2>4
      <3> QED BY <2>1, <2>2, <2>3, <3>1, <3>2 DEF Counted
    <2>5. CASE d = v
      <3>1. At(d)' = At(d) \cup E /\ At(d) \cap E = {}
        BY <1>1, <2>1, <2>5 DEF At, Where
      <3>2. IsFiniteSet(At(d)') /\ Cardinality(At(d)') = Cardinality(At(d)) + n
        <4> DEFINE A == At(d)
        <4> HIDE DEF A
        <4>1. IsFiniteSet(A) /\ Cardinality(A) \in Nat /\ A \cap E = {}
          BY <2>1, <3>1 DEF A
        <4>2. IsFiniteSet(A \cup E) /\ Cardinality(A \cup E) = Cardinality(A) + n - 0
          <5>1. Cardinality(A \cap E) = 0
            BY <4>1, FS_EmptySet
          <5>2. /\ IsFiniteSet(A \cup E)
                /\ Cardinality(A \cup E) = Cardinality(A) + Cardinality(E) - Cardinality(A \cap E)
            BY <1>4, <4>1, FS_Union
          <5> QED BY <1>4, <5>1, <5>2
        <4> QED BY <3>1, <4>1, <4>2 DEF A
      <3>3. ref'[d] = ref[d] + n /\ kind'[d] = kind[d]
        BY <1>2, <2>1, <2>5
      <3> QED BY <1>2, <2>1, <2>2, <2>3, <3>2, <3>3 DEF Counted
    <2> QED BY <2>4, <2>5
  <1>7. ASSUME NEW x \in AllSlots, Ref'[x] # Null
        PROVE  /\ Ref'[x] \in Live'
               /\ Ref'[x] \in Dying' => x = Own(Ref'[x]) /\ kind'[Ref'[x]] = "object"
    <2>1. CASE x \in E \/ x = z
      BY <2>1, <1>1, <1>7
    <2>2. CASE x \notin E /\ x # z
      <3>1. Ref'[x] = Ref[x] /\ Ref[x] \in Live /\ Ref[x] \in Cell \ {c}
        BY <2>2, <1>1, <1>7 DEF Core
      <3> QED BY <1>2, <1>7, <3>1 DEF Core
    <2> QED BY <2>1, <2>2
  <1>8. Dying' \subseteq Live'
    BY <1>1
  <1> QED BY <1>2, <1>5, <1>6, <1>7, <1>8 DEF Core, Own, Element

\* A new object, which refers to itself, and to which a thread refers.
LEMMA Two ==
    ASSUME NEW a, NEW b, a # b
    PROVE  IsFiniteSet({a, b}) /\ Cardinality({a, b}) = 2
  <1>1. IsFiniteSet({b}) /\ Cardinality({b}) = 1
    BY FS_Singleton
  <1>2. {a, b} = {b} \cup {a} /\ a \notin {b}
    OBVIOUS
  <1>3. IsFiniteSet({b} \cup {a}) /\ Cardinality({b} \cup {a}) = Cardinality({b}) + 1
    BY <1>1, <1>2, FS_AddElement
  <1>4. Cardinality({b} \cup {a}) = 2
    BY <1>1, <1>3
  <1> QED BY <1>2, <1>3, <1>4

LEMMA NewObject ==
    ASSUME Core, NEW c \in Cell \ Live, NEW z \in AllSlots, z # Own(c), Ref[z] = Null,
           Ref[Own(c)] = Null, Ref' = [Ref EXCEPT ![Own(c)] = c, ![z] = c],
           ref' = [ref EXCEPT ![c] = 2],
           Dying' = Dying, Live' = Live \cup {c}, kind' = [kind EXCEPT ![c] = "object"],
           kind \in [Cell -> {"free", "vector", "object"}], lost' = lost
    PROVE  Core'
  <1>1. /\ Live \subseteq Cell /\ Null \notin Cell /\ c # Null /\ c \notin Dying
        /\ \A s \in AllSlots : Ref[s] # c
        /\ Dying \subseteq Live /\ Own(c) \in AllSlots
    BY CellsAre, OwnSlot DEF Core
  <1>2. /\ ref \in [Cell -> Int] /\ ref' \in [Cell -> Int]
        /\ Ref \in [AllSlots -> Cell \cup {Null}] /\ Ref' \in [AllSlots -> Cell \cup {Null}]
        /\ \A d \in Cell \ {c} : kind'[d] = kind[d] /\ ref'[d] = ref[d]
    BY DEF Core
  <1>3. kind'[c] = "object" /\ ref'[c] = 2 /\ Ref'[Own(c)] = c
    BY <1>1, <1>2
  <1>4. Counted(c)'
    <2>1. At(c)' = {Own(c), z}
      BY <1>1, <1>2 DEF At, Where
    <2>2. IsFiniteSet({Own(c), z}) /\ Cardinality({Own(c), z}) = 2
      BY Two
    <2>3. IsFiniteSet(At(c)') /\ Cardinality(At(c)') = 2
      BY <2>1, <2>2
    <2> QED BY <1>3, <2>3 DEF Counted, Own, Element
  <1>5. ASSUME NEW d \in Live \ Dying
        PROVE  Counted(d)'
    <2>1. d \in Cell /\ d # Null /\ d # c /\ Counted(d)
      BY <1>1 DEF Core
    <2>2. Own(d)' = Own(d) /\ Own(d) \in AllSlots /\ Own(d) # Own(c)
      BY <2>1, OwnSlot DEF Own, Element
    <2>3. At(d)' = At(d)
      BY <1>1, <1>2, <2>1 DEF At, Where
    <2>4. kind[d] = "object" => Ref'[Own(d)] = d
      BY <1>1, <1>2, <2>1, <2>2 DEF Counted
    <2> QED BY <1>2, <2>1, <2>2, <2>3, <2>4 DEF Counted
  <1>6. ASSUME NEW x \in AllSlots, Ref'[x] # Null
        PROVE  /\ Ref'[x] \in Live'
               /\ Ref'[x] \in Dying' => x = Own(Ref'[x]) /\ kind'[Ref'[x]] = "object"
    <2>1. CASE x = Own(c) \/ x = z
      BY <2>1, <1>1, <1>2, <1>6
    <2>2. CASE x # Own(c) /\ x # z
      <3>1. Ref'[x] = Ref[x] /\ Ref[x] \in Live /\ Ref[x] \in Cell \ {c}
        BY <2>2, <1>1, <1>2, <1>6 DEF Core
      <3> QED BY <1>2, <1>6, <3>1 DEF Core
    <2> QED BY <2>1, <2>2
  <1>7. Dying' \subseteq Live'
    BY <1>1
  <1> QED BY <1>2, <1>4, <1>5, <1>6, <1>7 DEF Core, Own, Element

-----------------------------------------------------------------------------
(***************************************************************************)
(* How a step changes the tasks, and with them what is being deleted, what *)
(* is being overwritten and what a thread has in its hands.                *)
(***************************************************************************)

\* The next task of t becomes b, with a above it.
Turns(t, a, b) ==
    /\ todo' \in [Thread -> Seq(TaskType)]
    /\ \A u \in Thread, k \in Nat :
          Job'[u][k] = IF u = t /\ k = N[t] THEN b
                       ELSE IF u = t /\ k = N[t] + 1 THEN a ELSE Job[u][k]

AtHead(t) == /\ N[t] \in Nat \ {0} /\ Job[t][N[t]] = Now(t) /\ Now(t) \in TaskType
             /\ \A k \in Nat : k > N[t] => Job[t][k] = NoTask

LEMMA Heads ==
    ASSUME todo \in [Thread -> Seq(TaskType)], NEW t \in Thread, todo[t] # <<>>
    PROVE  AtHead(t)
  BY NextTask, JobTable DEF AtHead, JobsOf

LEMMA TurnNone ==
    ASSUME todo \in [Thread -> Seq(TaskType)], NEW t \in Thread, todo[t] # <<>>,
           Then(t, <<>>)
    PROVE  Turns(t, NoTask, NoTask)
  <1>1. AtHead(t)
    BY Heads
  <1>2. <<>> \in Seq(TaskType) /\ Len(<<>>) = 0
    OBVIOUS
  <1>3. Leaves(t, <<>>)
    BY <1>2, Done
  <1> DEFINE n == N[t]
  <1>4. ASSUME NEW k \in Nat
        PROVE  Job'[t][k] = IF k = n THEN NoTask ELSE IF k = n + 1 THEN NoTask ELSE Job[t][k]
    <2>1. CASE k < n
      BY <1>1, <1>3, <2>1 DEF AtHead, Leaves
    <2>2. CASE k >= n
      BY <1>1, <1>2, <1>3, <2>2 DEF AtHead, Leaves
    <2> QED BY <1>1, <2>1, <2>2 DEF AtHead
  <1> QED BY <1>3, <1>4 DEF Turns, Leaves

LEMMA TurnOne ==
    ASSUME todo \in [Thread -> Seq(TaskType)], NEW t \in Thread, todo[t] # <<>>,
           NEW b \in TaskType, Then(t, <<b>>)
    PROVE  Turns(t, NoTask, b)
  <1>1. AtHead(t)
    BY Heads
  <1>2. <<b>> \in Seq(TaskType) /\ Len(<<b>>) = 1 /\ <<b>>[1] = b /\ 1 \in 1..1
    OBVIOUS
  <1>3. Leaves(t, <<b>>)
    BY <1>2, Done
  <1> DEFINE n == N[t]
  <1>4. ASSUME NEW k \in Nat
        PROVE  Job'[t][k] = IF k = n THEN b ELSE IF k = n + 1 THEN NoTask ELSE Job[t][k]
    <2>1. CASE k < n
      BY <1>1, <1>3, <2>1 DEF AtHead, Leaves
    <2>2. CASE k = n
      <3>1. n + 1 - 1 = k
        BY <1>1, <2>2 DEF AtHead
      <3> QED BY <1>2, <1>3, <2>2, <3>1 DEF Leaves
    <2>3. CASE k > n
      BY <1>1, <1>2, <1>3, <2>3 DEF AtHead, Leaves
    <2> QED BY <1>1, <2>1, <2>2, <2>3 DEF AtHead
  <1> QED BY <1>3, <1>4 DEF Turns, Leaves

LEMMA TurnTwo ==
    ASSUME todo \in [Thread -> Seq(TaskType)], NEW t \in Thread, todo[t] # <<>>,
           NEW a \in TaskType, NEW b \in TaskType, Then(t, <<a>> \o <<b>>)
    PROVE  Turns(t, a, b)
  <1>1. AtHead(t)
    BY Heads
  <1> DEFINE tasks == <<a>> \o <<b>>
  <1>2. /\ tasks \in Seq(TaskType) /\ Len(tasks) = 2
        /\ tasks[1] = a /\ tasks[2] = b /\ 1 \in 1..2 /\ 2 \in 1..2
    OBVIOUS
  <1> HIDE DEF tasks
  <1>3. Leaves(t, tasks)
    BY <1>2, Done DEF tasks
  <1> DEFINE n == N[t]
  <1>4. ASSUME NEW k \in Nat
        PROVE  Job'[t][k] = IF k = n THEN b ELSE IF k = n + 1 THEN a ELSE Job[t][k]
    <2>1. CASE k < n
      BY <1>1, <1>3, <2>1 DEF AtHead, Leaves
    <2>2. CASE k = n
      <3>1. n + 2 - 2 = k
        BY <1>1, <2>2 DEF AtHead
      <3> QED BY <1>2, <1>3, <2>2, <3>1 DEF Leaves
    <2>3. CASE k = n + 1
      <3>1. n + 2 - 1 = k /\ k # n
        BY <1>1, <2>3 DEF AtHead
      <3> QED BY <1>2, <1>3, <2>3, <3>1 DEF Leaves
    <2>4. CASE k > n + 1
      <3>1. n \in Nat /\ \A i \in Nat : i >= n + 2 => Job'[t][i] = NoTask
        BY <1>1, <1>2, <1>3 DEF AtHead, Leaves
      <3>2. \A i \in Nat : i > n => Job[t][i] = NoTask
        BY <1>1 DEF AtHead
      <3> HIDE DEF n
      <3>3. k >= n + 2 /\ k > n /\ k # n /\ k # n + 1
        BY <2>4, <3>1
      <3> QED BY <3>1, <3>2, <3>3
    <2> QED BY <1>1, <2>1, <2>2, <2>3, <2>4, SMTT(30) DEF AtHead
  <1> QED BY <1>3, <1>4 DEF Turns, Leaves

\* The task that deletes c, when a reference to it is given up.
Deletion(c) == IF LastReference(c) THEN Destroy(c) ELSE NoTask

LEMMA NowhereIs == Nowhere \in Location
  BY DEF Nowhere, Location

LEMMA DestroyIs ==
    ASSUME NEW c \in Cell
    PROVE  /\ Destroy(c) \in TaskType /\ Destroy(c).c = c /\ Destroy(c).op \in Deletes
           /\ Destroy(c).op = IF kind[c] = "object" THEN "bias" ELSE "elements"
  BY NowhereIs DEF Destroy, OfCell, Task, TaskType, Op, Deletes

LEMMA TurnDeleting ==
    ASSUME todo \in [Thread -> Seq(TaskType)], NEW t \in Thread, todo[t] # <<>>,
           NEW c \in Cell \cup {Null}, Then(t, Deleting(c))
    PROVE  Turns(t, NoTask, Deletion(c))
  <1>1. CASE LastReference(c)
    <2>1. Deleting(c) = <<Destroy(c)>> /\ Deletion(c) = Destroy(c) /\ c \in Cell
      BY <1>1 DEF Deleting, Deletion, LastReference
    <2> QED BY <2>1, DestroyIs, TurnOne
  <1>2. CASE ~LastReference(c)
    <2>1. Deleting(c) = <<>> /\ Deletion(c) = NoTask
      BY <1>2 DEF Deleting, Deletion
    <2> QED BY <2>1, TurnNone
  <1> QED BY <1>1, <1>2

LEMMA TurnDeletingThen ==
    ASSUME todo \in [Thread -> Seq(TaskType)], NEW t \in Thread, todo[t] # <<>>,
           NEW c \in Cell \cup {Null}, NEW b \in TaskType, Then(t, Deleting(c) \o <<b>>)
    PROVE  Turns(t, Deletion(c), b)
  <1>1. CASE LastReference(c)
    <2>1. /\ Deleting(c) = <<Destroy(c)>> /\ Deletion(c) = Destroy(c)
          /\ c \in Cell
      BY <1>1 DEF Deleting, Deletion, LastReference
    <2>2. Destroy(c) \in TaskType
      BY <2>1, DestroyIs
    <2> QED BY <2>1, <2>2, TurnTwo
  <1>2. CASE ~LastReference(c)
    <2>1. Deleting(c) = <<>> /\ Deletion(c) = NoTask
      BY <1>2 DEF Deleting, Deletion
    <2>2. Deleting(c) \o <<b>> = <<b>>
      BY <2>1
    <2> QED BY <2>1, <2>2, TurnOne
  <1> QED BY <1>1, <1>2

\* What is being deleted, and overwritten, in a table of tasks.
Deleted(J) == {c \in Cell \cup {Null} :
                 \E t \in Thread, k \in Nat : J[t][k].op \in Deletes /\ J[t][k].c = c}
Overwritten(J) == {loc \in Location :
                     \E t \in Thread, k \in Nat : J[t][k].op = "store" /\ J[t][k].loc = loc}

WorkOf(f) == UNION {{<<t, k>> : k \in DOMAIN f[t]} : t \in Thread}
TaskOf(f, w) == f[w[1]][Len(f[w[1]]) + 1 - w[2]]
JobOf(f) == [t \in Thread |-> FromEnd(f[t])]

LEMMA WorkIs ==
    ASSUME NEW f \in [Thread -> Seq(TaskType)], NEW t \in Thread, NEW k \in Nat
    PROVE  /\ <<t, k>> \in WorkOf(f) <=> k \in 1..Len(f[t])
           /\ <<t, k>> \in WorkOf(f) => /\ TaskOf(f, <<t, k>>) = JobOf(f)[t][k]
                                        /\ JobOf(f)[t][k] \in TaskType
           /\ <<t, k>> \notin WorkOf(f) => JobOf(f)[t][k] = NoTask
  <1>1. DOMAIN f[t] = 1..Len(f[t]) /\ f[t] \in Seq(TaskType)
    OBVIOUS
  <1>2. <<t, k>> \in WorkOf(f) <=> k \in 1..Len(f[t])
    BY <1>1 DEF WorkOf
  <1> QED BY <1>1, <1>2, FromEndOf DEF TaskOf, JobOf

LEMMA WorkHas ==
    ASSUME NEW f \in [Thread -> Seq(TaskType)], NEW w \in WorkOf(f)
    PROVE  \E t \in Thread, k \in Nat : w = <<t, k>>
  <1>1. PICK t \in Thread : w \in {<<t, k>> : k \in DOMAIN f[t]}
    BY DEF WorkOf
  <1>2. DOMAIN f[t] \subseteq Nat
    BY DEF TaskType
  <1> QED BY <1>1, <1>2

LEMMA Tables ==
    ASSUME NEW f \in [Thread -> Seq(TaskType)]
    PROVE  /\ {TaskOf(f, w).c : w \in {v \in WorkOf(f) : TaskOf(f, v).op \in Deletes}}
                 = Deleted(JobOf(f))
           /\ {TaskOf(f, w).loc : w \in {v \in WorkOf(f) : TaskOf(f, v).op = "store"}}
                 = Overwritten(JobOf(f))
  <1> DEFINE J == JobOf(f)
             D == {TaskOf(f, w).c : w \in {v \in WorkOf(f) : TaskOf(f, v).op \in Deletes}}
             S == {TaskOf(f, w).loc : w \in {v \in WorkOf(f) : TaskOf(f, v).op = "store"}}
  <1>1. NoTask.op \notin Deletes /\ NoTask.op # "store"
    BY DEF NoTask, Deletes
  <1>2. ASSUME NEW w \in WorkOf(f)
        PROVE  \E t \in Thread, k \in Nat : TaskOf(f, w) = J[t][k] /\ J[t][k] \in TaskType
    <2>1. PICK t \in Thread, k \in Nat : w = <<t, k>>
      BY WorkHas
    <2> QED BY <2>1, <1>2, WorkIs
  <1>3. ASSUME NEW t \in Thread, NEW k \in Nat, J[t][k] # NoTask
        PROVE  \E w \in WorkOf(f) : TaskOf(f, w) = J[t][k] /\ J[t][k] \in TaskType
    BY <1>3, WorkIs
  <1> HIDE DEF J
  <1>4. D = Deleted(J)
    <2>1. \A c \in D : c \in Deleted(J)
      BY <1>2 DEF Deleted, TaskType
    <2>2. ASSUME NEW c \in Deleted(J)
          PROVE  c \in D
      <3>1. PICK t \in Thread, k \in Nat : J[t][k].op \in Deletes /\ J[t][k].c = c
        BY DEF Deleted
      <3>2. PICK w \in WorkOf(f) : TaskOf(f, w) = J[t][k]
        BY <1>1, <1>3, <3>1
      <3> QED BY <3>1, <3>2
    <2> QED BY <2>1, <2>2
  <1>5. S = Overwritten(J)
    <2>1. \A p \in S : p \in Overwritten(J)
      BY <1>2 DEF Overwritten, TaskType
    <2>2. ASSUME NEW p \in Overwritten(J)
          PROVE  p \in S
      <3>1. PICK t \in Thread, k \in Nat : J[t][k].op = "store" /\ J[t][k].loc = p
        BY DEF Overwritten
      <3>2. PICK w \in WorkOf(f) : TaskOf(f, w) = J[t][k]
        BY <1>1, <1>3, <3>1
      <3> QED BY <3>1, <3>2
    <2> QED BY <2>1, <2>2
  <1> QED BY <1>4, <1>5 DEF J

LEMMA TablesAre ==
    ASSUME todo \in [Thread -> Seq(TaskType)]
    PROVE  Dying = Deleted(Job) /\ Stale = Overwritten(Job)
  <1>1. Job = JobOf(todo) /\ Work = WorkOf(todo) /\ \A w : task(w) = TaskOf(todo, w)
    BY DEF Job, JobOf, Work, WorkOf, task, TaskOf
  <1>2. Dying = {TaskOf(todo, w).c : w \in {v \in WorkOf(todo) : TaskOf(todo, v).op \in Deletes}}
    BY <1>1 DEF Dying
  <1>3. Stale = {TaskOf(todo, w).loc : w \in {v \in WorkOf(todo) : TaskOf(todo, v).op = "store"}}
    BY <1>1 DEF Stale
  <1> QED BY <1>1, <1>2, <1>3, Tables

LEMMA TablesBecome ==
    ASSUME todo' \in [Thread -> Seq(TaskType)]
    PROVE  Dying' = Deleted(Job') /\ Stale' = Overwritten(Job')
  <1>1. Job' = JobOf(todo') /\ Work' = WorkOf(todo')
    BY DEF Job, JobOf, Work, WorkOf
  <1>2. Dying' = {TaskOf(todo', w).c : w \in {v \in WorkOf(todo') : TaskOf(todo', v).op \in Deletes}}
    BY DEF Dying, Work, WorkOf, task, TaskOf
  <1>3. Stale' = {TaskOf(todo', w).loc : w \in {v \in WorkOf(todo') : TaskOf(todo', v).op = "store"}}
    BY DEF Stale, Work, WorkOf, task, TaskOf
  <1> QED BY <1>1, <1>2, <1>3, Tables

\* No cell is deleted twice.
Once == \A t, u \in Thread, k, i \in Nat :
           (/\ Job[t][k].op \in Deletes /\ Job[u][i].op \in Deletes
            /\ Job[t][k].c = Job[u][i].c) => t = u /\ k = i

\* A step of a deletion goes on with it, or neither is one.
GoesOn(j, b) == /\ b.op \in Deletes <=> j.op \in Deletes
                /\ b.op \in Deletes => b.c = j.c

Turning(t, a, b) == /\ todo \in [Thread -> Seq(TaskType)] /\ AtHead(t) /\ Turns(t, a, b)
                    /\ a \in TaskType \cup {NoTask} /\ b \in TaskType \cup {NoTask}

LEMMA NoTaskIs ==
    /\ NoTask.op \notin Deletes /\ NoTask.op \notin Owns /\ NoTask.op # "store"
    /\ NoTask.op = "none" /\ Hand(NoTask) = Null
    /\ Deletes \cap Owns = {} /\ "store" \notin Deletes
  BY DEF NoTask, Deletes, Owns, Hand

LEMMA DyingSame ==
    ASSUME NEW t \in Thread, NEW a, NEW b, Turning(t, a, b), Once,
           a.op \notin Deletes, GoesOn(Now(t), b)
    PROVE  Dying' = Dying /\ Once'
  <1> DEFINE n == N[t]
  <1>1. n \in Nat /\ n + 1 \in Nat /\ n # n + 1 /\ Job[t][n] = Now(t) /\ Job[t][n + 1] = NoTask
    BY DEF Turning, AtHead
  <1>2. \A u \in Thread, k \in Nat : GoesOn(Job[u][k], Job'[u][k])
    BY <1>1, NoTaskIs, ZenonT(60) DEF Turning, Turns, GoesOn
  <1>3. Deleted(Job') = Deleted(Job)
    BY <1>2 DEF Deleted, GoesOn
  <1>4. Once'
    BY <1>2 DEF Once, GoesOn
  <1> QED BY <1>3, <1>4, TablesAre, TablesBecome DEF Turning, Turns

LEMMA DyingLess ==
    ASSUME NEW t \in Thread, NEW a, NEW b, Turning(t, a, b), Once,
           a.op \notin Deletes, b.op \notin Deletes, Now(t).op \in Deletes
    PROVE  Dying' = Dying \ {Now(t).c} /\ Once'
  <1> DEFINE n == N[t]
  <1>1. n \in Nat /\ n + 1 \in Nat /\ n # n + 1 /\ Job[t][n] = Now(t) /\ Job[t][n + 1] = NoTask
    BY DEF Turning, AtHead
  <1>2. \A u \in Thread, k \in Nat :
           /\ Job'[u][k].op \in Deletes => Job'[u][k] = Job[u][k] /\ ~(u = t /\ k = n)
           /\ Job[u][k].op \in Deletes => Job'[u][k] = Job[u][k] \/ (u = t /\ k = n)
    BY <1>1, NoTaskIs DEF Turning, Turns
  <1>3. Deleted(Job') = Deleted(Job) \ {Now(t).c}
    <2>1. ASSUME NEW c \in Deleted(Job')
          PROVE  c \in Deleted(Job) \ {Now(t).c}
      <3>1. PICK u \in Thread, k \in Nat : Job'[u][k].op \in Deletes /\ Job'[u][k].c = c
        BY DEF Deleted
      <3>2. Job[u][k].op \in Deletes /\ Job[u][k].c = c /\ ~(u = t /\ k = n)
        BY <1>2, <3>1
      <3>3. c # Now(t).c
        BY <1>1, <3>2 DEF Once
      <3> QED BY <3>2, <3>3 DEF Deleted
    <2>2. ASSUME NEW c \in Deleted(Job) \ {Now(t).c}
          PROVE  c \in Deleted(Job')
      <3>1. PICK u \in Thread, k \in Nat : Job[u][k].op \in Deletes /\ Job[u][k].c = c
        BY DEF Deleted
      <3>2. ~(u = t /\ k = n)
        BY <1>1, <3>1
      <3>3. Job'[u][k].op \in Deletes /\ Job'[u][k].c = c
        BY <1>2, <3>1, <3>2
      <3> QED BY <3>3 DEF Deleted
    <2> QED BY <2>1, <2>2
  <1>4. Once'
    BY <1>2 DEF Once
  <1> QED BY <1>3, <1>4, TablesAre, TablesBecome DEF Turning, Turns

\* A deletion begins, as the m-th task of t.
LEMMA DyingMore ==
    ASSUME todo \in [Thread -> Seq(TaskType)], todo' \in [Thread -> Seq(TaskType)],
           Once, NEW t \in Thread, NEW m \in Nat, NEW v \in Cell, v \notin Dying,
           Job[t][m].op \notin Deletes, Job'[t][m].op \in Deletes, Job'[t][m].c = v,
           \A u \in Thread, k \in Nat : ~(u = t /\ k = m) => GoesOn(Job[u][k], Job'[u][k])
    PROVE  Dying' = Dying \cup {v} /\ Once'
  <1>1. v \notin Deleted(Job)
    BY TablesAre
  <1>2. \A u \in Thread, k \in Nat : Job[u][k].op \in Deletes => Job[u][k].c # v
    BY <1>1 DEF Deleted
  <1>3. Deleted(Job') = Deleted(Job) \cup {v}
    <2>1. ASSUME NEW c \in Deleted(Job')
          PROVE  c \in Deleted(Job) \cup {v}
      <3>1. PICK u \in Thread, k \in Nat : Job'[u][k].op \in Deletes /\ Job'[u][k].c = c
        BY DEF Deleted
      <3>2. CASE u = t /\ k = m
        BY <3>1, <3>2
      <3>3. CASE ~(u = t /\ k = m)
        BY <3>1, <3>3 DEF Deleted, GoesOn
      <3> QED BY <3>2, <3>3
    <2>2. ASSUME NEW c \in Deleted(Job)
          PROVE  c \in Deleted(Job')
      <3>1. PICK u \in Thread, k \in Nat : Job[u][k].op \in Deletes /\ Job[u][k].c = c
        BY DEF Deleted
      <3>2. ~(u = t /\ k = m)
        BY <3>1
      <3> QED BY <3>1, <3>2 DEF Deleted, GoesOn
    <2>3. v \in Deleted(Job')
      BY DEF Deleted
    <2> QED BY <2>1, <2>2, <2>3
  <1>4. Once'
    <2> SUFFICES ASSUME NEW u \in Thread, NEW w \in Thread, NEW k \in Nat, NEW j \in Nat,
                        Job'[u][k].op \in Deletes, Job'[w][j].op \in Deletes,
                        Job'[u][k].c = Job'[w][j].c
                 PROVE  u = w /\ k = j
      BY DEF Once
    <2>1. CASE u = t /\ k = m
      <3>1. CASE w = t /\ j = m
        BY <2>1, <3>1
      <3>2. CASE ~(w = t /\ j = m)
        BY <1>2, <2>1, <3>2, ZenonT(60) DEF GoesOn
      <3> QED BY <3>1, <3>2
    <2>2. CASE ~(u = t /\ k = m)
      <3>1. CASE w = t /\ j = m
        BY <1>2, <2>2, <3>1, ZenonT(60) DEF GoesOn
      <3>2. CASE ~(w = t /\ j = m)
        BY <2>2, <3>2 DEF GoesOn, Once
      <3> QED BY <3>1, <3>2
    <2> QED BY <2>1, <2>2
  <1> QED BY <1>3, <1>4, TablesAre, TablesBecome

\* What dies when a reference to c is given up.
DiesWith(c) == Dying' = IF LastReference(c) THEN Dying \cup {c} ELSE Dying

LEMMA DyingNext ==
    ASSUME NEW t \in Thread, NEW c \in Cell \cup {Null}, Turning(t, NoTask, Deletion(c)), Once,
           Now(t).op \notin Deletes, c \notin Dying
    PROVE  DiesWith(c) /\ Once'
  <1>1. CASE LastReference(c)
    <2>1. c \in Cell /\ Deletion(c).op \in Deletes /\ Deletion(c).c = c
      BY <1>1, DestroyIs DEF LastReference, Deletion
    <2> DEFINE n == N[t]
    <2>2. n \in Nat /\ n + 1 \in Nat /\ n # n + 1 /\ Job[t][n] = Now(t) /\ Job[t][n + 1] = NoTask
      BY SMTT(30) DEF Turning, AtHead
    <2>3. /\ Job'[t][n] = Deletion(c)
          /\ \A u \in Thread, k \in Nat : ~(u = t /\ k = n) => Job'[u][k] = Job[u][k]
      BY <2>2 DEF Turning, Turns
    <2>4. \A u \in Thread, k \in Nat : ~(u = t /\ k = n) => GoesOn(Job[u][k], Job'[u][k])
      BY <2>3 DEF GoesOn
    <2> HIDE DEF n
    <2>6. todo \in [Thread -> Seq(TaskType)] /\ todo' \in [Thread -> Seq(TaskType)]
      BY DEF Turning, Turns
    <2>7. Job[t][n].op \notin Deletes /\ Job'[t][n].op \in Deletes /\ Job'[t][n].c = c
      BY <2>1, <2>2, <2>3
    <2>5. Dying' = Dying \cup {c} /\ Once'
      BY <2>1, <2>2, <2>4, <2>6, <2>7, DyingMore
    <2> QED BY <1>1, <2>5 DEF DiesWith
  <1>2. CASE ~LastReference(c)
    <2>1. Deletion(c) = NoTask
      BY <1>2 DEF Deletion
    <2>2. GoesOn(Now(t), Deletion(c))
      BY <2>1, NoTaskIs DEF GoesOn
    <2>3. Dying' = Dying /\ Once'
      BY <2>2, NoTaskIs, DyingSame
    <2> QED BY <1>2, <2>3 DEF DiesWith
  <1> QED BY <1>1, <1>2

LEMMA DyingAbove ==
    ASSUME NEW t \in Thread, NEW c \in Cell \cup {Null}, NEW b, Turning(t, Deletion(c), b), Once,
           GoesOn(Now(t), b), c \notin Dying
    PROVE  DiesWith(c) /\ Once'
  <1>1. CASE LastReference(c)
    <2>1. c \in Cell /\ Deletion(c).op \in Deletes /\ Deletion(c).c = c
      BY <1>1, DestroyIs DEF LastReference, Deletion
    <2> DEFINE n == N[t]
               m == N[t] + 1
    <2>2. n \in Nat /\ m \in Nat /\ n # m /\ Job[t][n] = Now(t) /\ Job[t][m] = NoTask
      BY DEF Turning, AtHead
    <2>3. /\ Job'[t][m] = Deletion(c) /\ Job'[t][n] = b
          /\ \A u \in Thread, k \in Nat :
                ~(u = t /\ k = m) /\ ~(u = t /\ k = n) => Job'[u][k] = Job[u][k]
      BY <2>2 DEF Turning, Turns
    <2> HIDE DEF n, m
    <2>4. \A u \in Thread, k \in Nat : ~(u = t /\ k = m) => GoesOn(Job[u][k], Job'[u][k])
      BY <2>2, <2>3 DEF GoesOn
    <2>5. Job[t][m].op \notin Deletes
      BY <2>2, NoTaskIs
    <2>8. todo \in [Thread -> Seq(TaskType)] /\ todo' \in [Thread -> Seq(TaskType)]
      BY DEF Turning, Turns
    <2>7. Job'[t][m].op \in Deletes /\ Job'[t][m].c = c
      BY <2>1, <2>2, <2>3
    <2>6. Dying' = Dying \cup {c} /\ Once'
      BY <2>1, <2>2, <2>4, <2>5, <2>7, <2>8, DyingMore
    <2> QED BY <1>1, <2>6 DEF DiesWith
  <1>2. CASE ~LastReference(c)
    <2>1. Deletion(c) = NoTask
      BY <1>2 DEF Deletion
    <2>3. Dying' = Dying /\ Once'
      BY <2>1, NoTaskIs, DyingSame
    <2> QED BY <1>2, <2>3 DEF DiesWith
  <1> QED BY <1>1, <1>2

LEMMA StaleSame ==
    ASSUME NEW t \in Thread, NEW a, NEW b, Turning(t, a, b),
           a.op # "store", b.op # "store", Now(t).op # "store"
    PROVE  Stale' = Stale
  <1> DEFINE n == N[t]
  <1>1. n \in Nat /\ n + 1 \in Nat /\ n # n + 1 /\ Job[t][n] = Now(t) /\ Job[t][n + 1] = NoTask
    BY DEF Turning, AtHead
  <1>2. \A u \in Thread, k \in Nat :
           Job'[u][k].op = "store" \/ Job[u][k].op = "store" => Job'[u][k] = Job[u][k]
    BY <1>1, NoTaskIs DEF Turning, Turns
  <1>3. Overwritten(Job') = Overwritten(Job)
    BY <1>2 DEF Overwritten
  <1> QED BY <1>3, TablesAre, TablesBecome DEF Turning, Turns

LEMMA StaleMore ==
    ASSUME NEW t \in Thread, NEW a, NEW b, Turning(t, a, b),
           a.op # "store", b.op = "store", Now(t).op # "store"
    PROVE  Stale' = Stale \cup {b.loc}
  <1> DEFINE n == N[t]
  <1>1. /\ n \in Nat /\ n + 1 \in Nat /\ n # n + 1 /\ Job[t][n] = Now(t)
        /\ Job[t][n + 1] = NoTask
    BY DEF Turning, AtHead
  <1>2. b.loc \in Location
    BY NowhereIs DEF Turning, TaskType, NoTask
  <1>3. /\ Job'[t][n] = b
        /\ \A u \in Thread, k \in Nat :
              /\ Job[u][k].op = "store" => Job'[u][k] = Job[u][k]
              /\ Job'[u][k].op = "store" => Job'[u][k] = Job[u][k] \/ Job'[u][k] = b
    BY <1>1, NoTaskIs DEF Turning, Turns
  <1> HIDE DEF n
  <1>4. Overwritten(Job') = Overwritten(Job) \cup {b.loc}
    BY <1>1, <1>2, <1>3 DEF Overwritten
  <1> QED BY <1>4, TablesAre, TablesBecome DEF Turning, Turns

LEMMA StaleLess ==
    ASSUME NEW t \in Thread, NEW a, NEW b, Turning(t, a, b),
           a.op # "store", b.op # "store", Now(t).op = "store",
           \A u \in Thread, k \in Nat :
              Job[u][k].op = "store" /\ Job[u][k].loc = Now(t).loc => u = t /\ k = N[t]
    PROVE  Stale' = Stale \ {Now(t).loc} /\ Now(t).loc \in Stale
  <1> DEFINE n == N[t]
  <1>1. /\ n \in Nat /\ n + 1 \in Nat /\ n # n + 1 /\ Job[t][n] = Now(t)
        /\ Job[t][n + 1] = NoTask
    BY DEF Turning, AtHead
  <1>2. Now(t).loc \in Location
    BY DEF Turning, AtHead, TaskType
  <1>3. \A u \in Thread, k \in Nat :
              /\ Job[u][k].op = "store" => Job'[u][k] = Job[u][k] \/ (u = t /\ k = n)
              /\ Job'[u][k].op = "store" => Job'[u][k] = Job[u][k] /\ ~(u = t /\ k = n)
    BY <1>1, NoTaskIs DEF Turning, Turns
  <1>4. \A p \in Location : p \in Overwritten(Job') <=> p \in Overwritten(Job) /\ p # Now(t).loc
    <2> SUFFICES ASSUME NEW p \in Location
                 PROVE  p \in Overwritten(Job') <=> p \in Overwritten(Job) /\ p # Now(t).loc
      OBVIOUS
    <2>1. ASSUME p \in Overwritten(Job')
          PROVE  p \in Overwritten(Job) /\ p # Now(t).loc
      BY <1>1, <1>3, <2>1 DEF Overwritten
    <2>2. ASSUME p \in Overwritten(Job), p # Now(t).loc
          PROVE  p \in Overwritten(Job')
      BY <1>1, <1>3, <2>2 DEF Overwritten
    <2> QED BY <2>1, <2>2
  <1>5. Overwritten(Job) \subseteq Location /\ Overwritten(Job') \subseteq Location
    BY DEF Overwritten
  <1>6. Now(t).loc \in Overwritten(Job)
    BY <1>1, <1>2 DEF Overwritten
  <1>7. Overwritten(Job') = Overwritten(Job) \ {Now(t).loc}
    BY <1>4, <1>5
  <1> QED BY <1>6, <1>7, TablesAre, TablesBecome DEF Turning, Turns

\* Which slots there are, and what each refers to, before a step and after it.
LEMMA SlotIs ==
    ASSUME NEW s \in AllSlots
    PROVE  \/ \E p \in Places : s = <<"place", p>>
           \/ \E u \in Thread : s = <<"loop", u>>
           \/ \E u \in Thread, k \in Nat : s = <<"task", <<u, k>>>>
  BY DEF AllSlots

LEMMA SlotsAre ==
    /\ \A p \in Places : <<"place", p>> \in AllSlots
    /\ \A u \in Thread : <<"loop", u>> \in AllSlots
    /\ \A u \in Thread, k \in Nat : <<"task", <<u, k>>>> \in AllSlots
  BY DEF AllSlots

LEMMA RefsAre ==
    /\ \A p \in Places : Ref[<<"place", p>>] = Val[p]
    /\ \A u \in Thread : Ref[<<"loop", u>>] = loop[u].vec
    /\ \A u \in Thread, k \in Nat : Ref[<<"task", <<u, k>>>>] = Hand(Job[u][k])
  BY SlotsAre DEF Ref

LEMMA RefsBecome ==
    /\ \A p \in Places : Ref'[<<"place", p>>] = Val'[p]
    /\ \A u \in Thread : Ref'[<<"loop", u>>] = loop'[u].vec
    /\ \A u \in Thread, k \in Nat : Ref'[<<"task", <<u, k>>>>] = Hand(Job'[u][k])
  <1>1. Ref' = [s \in AllSlots |->
          IF s[1] = "place" THEN Val'[s[2]]
          ELSE IF s[1] = "loop" THEN loop'[s[2]].vec
          ELSE Hand(Job'[s[2][1]][s[2][2]])]
    BY DEF Ref, Hand
  <1> QED BY <1>1, SlotsAre

SameLoops == \A u \in Thread : loop'[u].vec = loop[u].vec
SameHands == \A u \in Thread, k \in Nat : Hand(Job'[u][k]) = Hand(Job[u][k])
NewHand(t, n, v) == \A u \in Thread, k \in Nat :
    Hand(Job'[u][k]) = IF u = t /\ k = n THEN v ELSE Hand(Job[u][k])

LEMMA RefPointwise ==
    ASSUME NEW g, \A s \in AllSlots : Ref'[s] = g[s], DOMAIN g = AllSlots,
           g = [s \in AllSlots |-> g[s]]
    PROVE  Ref' = g
  <1>1. Ref' = [s \in AllSlots |-> Ref'[s]]
    BY DEF Ref
  <1> QED BY <1>1

LEMMA RefSame ==
    ASSUME Val' = Val, SameLoops, SameHands
    PROVE  Ref' = Ref
  <1>1. \A s \in AllSlots : Ref'[s] = Ref[s]
    BY SlotIs, RefsAre, RefsBecome DEF SameLoops, SameHands
  <1>2. DOMAIN Ref = AllSlots /\ Ref = [s \in AllSlots |-> Ref[s]]
    BY DEF Ref
  <1> QED BY <1>1, <1>2, RefPointwise

LEMMA RefTask ==
    ASSUME NEW t \in Thread, NEW n \in Nat, NEW v, Val' = Val, SameLoops, NewHand(t, n, v)
    PROVE  Ref' = [Ref EXCEPT ![<<"task", <<t, n>>>>] = v]
  <1> DEFINE x == <<"task", <<t, n>>>>
             g == [Ref EXCEPT ![x] = v]
  <1>1. Ref = [s \in AllSlots |-> Ref[s]] /\ x \in AllSlots
    BY SlotsAre DEF Ref
  <1>2. /\ DOMAIN g = AllSlots /\ g = [s \in AllSlots |-> g[s]]
        /\ \A s \in AllSlots : g[s] = IF s = x THEN v ELSE Ref[s]
    BY <1>1
  <1>3. \A s \in AllSlots : Ref'[s] = IF s = x THEN v ELSE Ref[s]
    BY SlotIs, RefsAre, RefsBecome DEF SameLoops, NewHand
  <1> HIDE DEF g
  <1>4. Ref' = g
    BY <1>2, <1>3, RefPointwise
  <1> QED BY <1>4 DEF g

LEMMA RefPlace ==
    ASSUME NEW p \in Places, NEW v, Val' = [Val EXCEPT ![p] = v], SameLoops, SameHands
    PROVE  Ref' = [Ref EXCEPT ![<<"place", p>>] = v]
  <1> DEFINE x == <<"place", p>>
             g == [Ref EXCEPT ![x] = v]
  <1>1. Ref = [s \in AllSlots |-> Ref[s]] /\ x \in AllSlots /\ Val = [q \in Places |-> Val[q]]
    BY SlotsAre DEF Ref, Val
  <1>2. /\ DOMAIN g = AllSlots /\ g = [s \in AllSlots |-> g[s]]
        /\ \A s \in AllSlots : g[s] = IF s = x THEN v ELSE Ref[s]
    BY <1>1
  <1>3. \A q \in Places : Val'[q] = IF q = p THEN v ELSE Val[q]
    BY <1>1
  <1>4. \A s \in AllSlots : Ref'[s] = IF s = x THEN v ELSE Ref[s]
    BY <1>3, SlotIs, RefsAre, RefsBecome DEF SameLoops, SameHands
  <1> HIDE DEF g
  <1>5. Ref' = g
    BY <1>2, <1>4, RefPointwise
  <1> QED BY <1>5 DEF g

LEMMA RefStore ==
    ASSUME NEW p \in Places, NEW v, Val' = [Val EXCEPT ![p] = v], SameLoops,
           NEW t \in Thread, NEW n \in Nat, NewHand(t, n, Null)
    PROVE  Ref' = [Ref EXCEPT ![<<"task", <<t, n>>>>] = Null, ![<<"place", p>>] = v]
  <1> DEFINE x == <<"task", <<t, n>>>>
             y == <<"place", p>>
             g == [Ref EXCEPT ![x] = Null, ![y] = v]
  <1>1. /\ Ref = [s \in AllSlots |-> Ref[s]] /\ x \in AllSlots /\ y \in AllSlots /\ x # y
        /\ Val = [q \in Places |-> Val[q]]
    BY SlotsAre DEF Ref, Val
  <1>2. /\ DOMAIN g = AllSlots /\ g = [s \in AllSlots |-> g[s]]
        /\ \A s \in AllSlots : g[s] = IF s = y THEN v ELSE IF s = x THEN Null ELSE Ref[s]
    BY <1>1
  <1>3. \A q \in Places : Val'[q] = IF q = p THEN v ELSE Val[q]
    BY <1>1
  <1>4. \A s \in AllSlots : Ref'[s] = IF s = y THEN v ELSE IF s = x THEN Null ELSE Ref[s]
    BY <1>3, SlotIs, RefsAre, RefsBecome DEF SameLoops, NewHand
  <1> HIDE DEF g
  <1>5. Ref' = g
    BY <1>2, <1>4, RefPointwise
  <1> QED BY <1>5 DEF g

LEMMA RefLoop ==
    ASSUME NEW t \in Thread, NEW v, Val' = Val, SameHands, loop'[t].vec = v,
           \A u \in Thread \ {t} : loop'[u].vec = loop[u].vec
    PROVE  Ref' = [Ref EXCEPT ![<<"loop", t>>] = v]
  <1> DEFINE x == <<"loop", t>>
             g == [Ref EXCEPT ![x] = v]
  <1>1. Ref = [s \in AllSlots |-> Ref[s]] /\ x \in AllSlots
    BY SlotsAre DEF Ref
  <1>2. /\ DOMAIN g = AllSlots /\ g = [s \in AllSlots |-> g[s]]
        /\ \A s \in AllSlots : g[s] = IF s = x THEN v ELSE Ref[s]
    BY <1>1
  <1>3. \A s \in AllSlots : Ref'[s] = IF s = x THEN v ELSE Ref[s]
    BY SlotIs, RefsAre, RefsBecome DEF SameHands
  <1> HIDE DEF g
  <1>4. Ref' = g
    BY <1>2, <1>3, RefPointwise
  <1> QED BY <1>4 DEF g

LEMMA RefLoopEnds ==
    ASSUME NEW t \in Thread, NEW n \in Nat, NEW v, Val' = Val, NewHand(t, n, v),
           loop'[t].vec = Null, \A u \in Thread \ {t} : loop'[u].vec = loop[u].vec
    PROVE  Ref' = [Ref EXCEPT ![<<"loop", t>>] = Null, ![<<"task", <<t, n>>>>] = v]
  <1> DEFINE x == <<"loop", t>>
             y == <<"task", <<t, n>>>>
             g == [Ref EXCEPT ![x] = Null, ![y] = v]
  <1>1. /\ Ref = [s \in AllSlots |-> Ref[s]] /\ x \in AllSlots /\ y \in AllSlots /\ x # y
    BY SlotsAre DEF Ref
  <1>2. /\ DOMAIN g = AllSlots /\ g = [s \in AllSlots |-> g[s]]
        /\ \A s \in AllSlots : g[s] = IF s = y THEN v ELSE IF s = x THEN Null ELSE Ref[s]
    BY <1>1
  <1>4. \A s \in AllSlots : Ref'[s] = IF s = y THEN v ELSE IF s = x THEN Null ELSE Ref[s]
    BY SlotIs, RefsAre, RefsBecome DEF NewHand
  <1> HIDE DEF g
  <1>5. Ref' = g
    BY <1>2, <1>4, RefPointwise
  <1> QED BY <1>5 DEF g

\* What a place holds.
Stored(V, E, loc) == IF loc.in = Null THEN V[loc.at]
                   ELSE IF loc.at \in DOMAIN E[loc.in] THEN E[loc.in][loc.at] ELSE Null

LEMMA ValsAre ==
    /\ \A p \in Places : Val[p] = IF p \in Stale THEN Null ELSE Stored(var, elems, p)
    /\ \A p \in Places : Val'[p] = IF p \in Stale' THEN Null ELSE Stored(var', elems', p)
    /\ \A p : read(p) = Stored(var, elems, p)
    /\ Val = [p \in Places |-> Val[p]] /\ Val' = [p \in Places |-> Val'[p]]
  <1>1. Val' = [p \in Places |-> IF p \in Stale' THEN Null ELSE Stored(var', elems', p)]
    BY DEF Val, read, Stored
  <1>2. Val = [p \in Places |-> IF p \in Stale THEN Null ELSE Stored(var, elems, p)]
    BY DEF Val, read, Stored
  <1>3. \A p : read(p) = Stored(var, elems, p)
    BY DEF read, Stored
  <1> QED BY <1>1, <1>2, <1>3

LEMMA ValSame ==
    ASSUME Stale' = Stale, var' = var, elems' = elems
    PROVE  Val' = Val
  BY ValsAre

LEMMA ValAt ==
    ASSUME NEW p \in Places, NEW v, Val'[p] = v,
           \A q \in Places : q # p => /\ q \in Stale' <=> q \in Stale
                                      /\ Stored(var', elems', q) = Stored(var, elems, q)
    PROVE  Val' = [Val EXCEPT ![p] = v]
  <1>1. \A q \in Places : Val'[q] = IF q = p THEN v ELSE Val[q]
    BY ValsAre
  <1> QED BY <1>1, ValsAre

LEMMA PlaceIs ==
    ASSUME NEW p \in Places
    PROVE  \/ \E x \in Var : p = Variable(x) /\ p.in = Null /\ p.at = x
           \/ \E c \in Cell, i \in 1..MaxLen : p = Element(c, i) /\ p.in = c /\ p.at = i
  BY DEF Places, Variable, Element

LEMMA PlacesAre ==
    /\ \A x \in Var : /\ Variable(x) \in Places /\ Variable(x).in = Null /\ Variable(x).at = x
                      /\ Variable(x) \in Location
    /\ \A c \in Cell, i \in Nat : /\ Element(c, i).in = c /\ Element(c, i).at = i
                                  /\ Element(c, i) \in Location
                                  /\ Element(c, i) \in Places <=> i \in 1..MaxLen
    /\ Places \subseteq Location
  <1>1. \A x \in Var : /\ Variable(x) \in Places /\ Variable(x).in = Null /\ Variable(x).at = x
                       /\ Variable(x) \in Location
    BY DEF Places, Variable, Location
  <1>2. ASSUME NEW c \in Cell, NEW i \in Nat
        PROVE  /\ Element(c, i).in = c /\ Element(c, i).at = i
               /\ Element(c, i) \in Location
               /\ Element(c, i) \in Places <=> i \in 1..MaxLen
    <2>1. /\ Element(c, i).in = c /\ Element(c, i).at = i /\ Element(c, i) \in Location
          /\ c # Null
      BY CellsAre DEF Element, Location
    <2>2. i \in 1..MaxLen => Element(c, i) \in Places
      BY DEF Places
    <2>3. ASSUME Element(c, i) \in Places
          PROVE  i \in 1..MaxLen
      BY <2>1, <2>3, PlaceIs
    <2> QED BY <2>1, <2>2, <2>3
  <1>3. Places \subseteq Location
    <2>1. 1..MaxLen \subseteq Nat
      BY BoundsAssumption
    <2> QED BY <2>1 DEF Places, Location, Variable, Element
  <1> QED BY <1>1, <1>2, <1>3

-----------------------------------------------------------------------------
(***************************************************************************)
(* What is true of the tasks of a thread.  A thread reads and writes only  *)
(* what is its own, or what it has locked; a cell on whose values it works *)
(* stays referred to by a variable or a loop that it does not change first.*)
(***************************************************************************)
Writes == {"copy", "take", "over", "store"}

Owned(t, x) == x = t \/ (x \in Shared /\ lock = t)
Mine(t, loc) == loc.in = Null /\ Owned(t, loc.at)
HeldBy(t, d) == \E x \in Shared \cup {t} : Owned(t, x) /\ var[x] = d
Anchored(t, d) == d \in Cell /\ (loop[t].vec = d \/ HeldBy(t, d))
Within(t, loc) == /\ lock = t /\ loc.in \in Cell /\ HeldBy(t, loc.in)
                  /\ loc.at \in DOMAIN elems[loc.in]
                  /\ kind[loc.in] = "object" => loc.at # 1
Target(t, loc) == Mine(t, loc) \/ Within(t, loc)

OnlyUnlock(t, k) == \A i \in 1..(k - 1) : Job[t][i].op = "unlock"

\* What a task relies on: a place that no other thread writes, values that are
\* still held, and for the last reference to a new object that one is left.
WriteOK(t, k) == Job[t][k].op \in Writes =>
    /\ Target(t, Job[t][k].loc)
    /\ Job[t][k].loc.in = Null =>
          \A i \in 1..(k - 1) : Job[t][i].op \in {"unlock", "drop", "take"}
CopyOK(t, k) == Job[t][k].op = "copy" =>
    \/ Mine(t, Job[t][k].from)
    \/ (lock = t /\ Anchored(t, Job[t][k].from.in))
PopOK(t, k) == Job[t][k].op = "pop" =>
    /\ lock = t /\ Job[t][k].c \in Cell /\ HeldBy(t, Job[t][k].c)
    /\ kind[Job[t][k].c] = "vector" /\ 1 \in DOMAIN elems[Job[t][k].c]
    /\ OnlyUnlock(t, k)
ConstructOK(t, k) == Job[t][k].op = "construct" =>
    /\ Job[t][k].c \in Cell /\ kind[Job[t][k].c] = "object"
    /\ Mine(t, Job[t][k].loc) /\ OnlyUnlock(t, k)
TakeOK(t, k) == Job[t][k].op = "take" =>
    /\ Job[t][k].c \in Cell
    /\ \E i \in 1..(k - 1) : Job[t][i].op = "drop" /\ Job[t][i].c = Job[t][k].c
DropOK(t, k) == Job[t][k].op = "drop" =>
    /\ Job[t][k].c \in Cell /\ kind[Job[t][k].c] = "object" /\ OnlyUnlock(t, k)
    /\ \/ lost[Job[t][k].c]
       \/ HeldBy(t, Job[t][k].c)
       \/ \E i \in Nat : /\ i > k /\ Job[t][i].op \in {"take", "over", "store"}
                         /\ Job[t][i].c = Job[t][k].c
    /\ \A i \in Nat : i > k /\ Job[t][i].op \in Writes =>
          /\ Job[t][i].op # "copy" /\ Job[t][i].loc.in = Null
          /\ Job[t][i].c = Job[t][k].c

TaskOK(t, k) == /\ WriteOK(t, k) /\ CopyOK(t, k) /\ PopOK(t, k)
                /\ ConstructOK(t, k) /\ TakeOK(t, k) /\ DropOK(t, k)

\* A thread has the lock just as long as it is still to give it back.
Locked(t) == /\ lock = t => Job[t][1].op = "unlock"
             /\ \A k \in Nat : Job[t][k].op = "unlock" => k = 1 /\ lock = t
\* Nothing but the deletion of the old value comes before the pointer is written.
StoreNext(t) == \A k, i \in Nat :
    Job[t][k].op = "store" /\ i > k => Job[t][i].op \in Deletes \cup {"none"}

Orderly(t) == Locked(t) /\ StoreNext(t) /\ \A k \in Nat : TaskOK(t, k)
AllOrderly == \A t \in Thread : Orderly(t)

\* What is true of the cell that a task deletes.
InPhase(op, c) ==
    /\ c \in Live
    /\ op = "elements" <=> Ref[Own(c)] # c
    /\ op = "inc" => ref[c] = Bias
    /\ op \in {"finalize", "release"} => ref[c] = Bias + 1
    /\ op \in {"bias", "inc", "finalize"} => ran[c] = 0
    /\ op \in {"release", "forget", "elements"} => (kind[c] = "object" => ran[c] = 1)
Phases == \A t \in Thread, k \in Nat :
    Job[t][k].op \in Deletes => InPhase(Job[t][k].op, Job[t][k].c)

\* No finalizer has run of a cell that is in use; a freed cell holds nothing.
Whole == \A c \in Live \ Dying : ran[c] = 0
Empty == \A c \in Cell \ Live : elems[c] = <<>> /\ ran[c] = 0

\* The inductive invariant.
IInv == TypeOK /\ Core /\ AllOrderly /\ Once /\ Phases /\ Whole /\ Empty

LEMMA OpsAre ==
    /\ Deletes \cap Owns = {} /\ Deletes \cap Writes = {}
    /\ \A op \in {"unlock", "none", "pop", "construct", "drop", "dec"} : op \notin Deletes \cup Writes
    /\ \A op \in {"take", "copy"} : op \notin Deletes \cup Owns
    /\ {"over", "store", "dec", "drop", "construct"} \subseteq Owns
    /\ "unlock" \notin Owns /\ "pop" \notin Owns /\ "none" \notin Owns
  BY DEF Deletes, Owns, Writes

\* A task that has a reference in its hands.
LEMMA HandLive ==
    ASSUME Core, NEW t \in Thread, NEW k \in Nat, Job[t][k].op \in Owns, Job[t][k].c # Null
    PROVE  /\ Ref[<<"task", <<t, k>>>>] = Job[t][k].c
           /\ Job[t][k].c \in Live \ Dying
  <1>1. Ref[<<"task", <<t, k>>>>] = Job[t][k].c /\ <<"task", <<t, k>>>> \in AllSlots
    BY RefsAre, SlotsAre DEF Hand
  <1> QED BY <1>1 DEF Core, Own

\* A place a thread may use is not one that another overwrites.
LEMMA Excluded ==
    ASSUME AllOrderly, NEW t \in Thread, NEW u \in Thread \ {t}, NEW k \in Nat,
           NEW loc, Mine(t, loc) \/ (lock = t /\ loc.in \in Cell),
           Job[u][k].op = "store"
    PROVE  Job[u][k].loc # loc
  <1>1. Target(u, Job[u][k].loc)
    BY DEF AllOrderly, Orderly, TaskOK, WriteOK, Writes
  <1> QED BY <1>1, CellsAre, VariablesAssumption DEF Target, Mine, Within, Owned, Var

\* The cells on which a task works are not being deleted.
Relies(t, k, d) ==
    \/ Job[t][k].op \in Writes /\ Job[t][k].loc.in = d
    \/ Job[t][k].op = "pop" /\ Job[t][k].c = d
    \/ Job[t][k].op = "copy" /\ Job[t][k].from.in = d

LEMMA VariableHolds ==
    ASSUME Core, NEW x \in Var, Variable(x) \notin Stale, var[x] \in Cell
    PROVE  /\ Ref[<<"place", Variable(x)>>] = var[x]
           /\ \A d \in Cell : <<"place", Variable(x)>> # Own(d)
           /\ var[x] \in Live \ Dying
  <1>1. /\ Variable(x) \in Places /\ Variable(x).in = Null /\ Variable(x).at = x
        /\ <<"place", Variable(x)>> \in AllSlots
    BY PlacesAre, SlotsAre
  <1>2. Ref[<<"place", Variable(x)>>] = var[x]
    BY <1>1, RefsAre, ValsAre DEF Stored
  <1>3. \A d \in Cell : <<"place", Variable(x)>> # Own(d)
    BY <1>1, CellsAre DEF Own, Element
  <1>4. var[x] # Null
    BY CellsAre
  <1> QED BY <1>1, <1>2, <1>3, <1>4 DEF Core

LEMMA OverwrittenBy ==
    ASSUME todo \in [Thread -> Seq(TaskType)], NEW loc \in Stale
    PROVE  \E u \in Thread, k \in Nat : Job[u][k].op = "store" /\ Job[u][k].loc = loc
  BY TablesAre DEF Overwritten

LEMMA ReliedLive ==
    ASSUME IInv, NEW t \in Thread, NEW k \in Nat, NEW d \in Cell, Relies(t, k, d)
    PROVE  /\ d \in Live \ Dying
           /\ \A x \in Shared \cup {t} : Owned(t, x) => Variable(x) \notin Stale
           /\ HeldBy(t, d) \/ loop[t].vec = d
           /\ lock = t
  <1>1. TaskOK(t, k) /\ StoreNext(t) /\ \A i \in Nat : TaskOK(t, i)
    BY DEF IInv, AllOrderly, Orderly
  <1>2. (HeldBy(t, d) \/ loop[t].vec = d) /\ lock = t
    BY <1>1, CellsAre DEF Relies, TaskOK, WriteOK, CopyOK, PopOK, Target, Mine, Within, Anchored
  <1>3. Job[t][k].op # "take" \/ Job[t][k].loc.in = Null
    <2>1. ASSUME Job[t][k].op = "take"
          PROVE  Job[t][k].loc.in = Null
      <3>1. PICK i \in 1..(k - 1) : Job[t][i].op = "drop"
        BY <1>1, <2>1 DEF TaskOK, TakeOK
      <3>2. DropOK(t, i) /\ i \in Nat /\ k > i
        BY <1>1 DEF TaskOK
      <3> QED BY <2>1, <3>1, <3>2 DEF DropOK, Writes
    <2> QED BY <2>1
  <1>4. ASSUME NEW i \in Nat, Job[t][i].op = "store"
        PROVE  Job[t][i].loc.in # Null
    <2>1. CASE i < k
      <3>1. Job[t][k].op \in Deletes \cup {"none"}
        BY <1>1, <1>4, <2>1 DEF StoreNext
      <3> QED BY <3>1, OpsAre DEF Relies, Writes
    <2>2. CASE i = k
      BY <2>2, <1>4, CellsAre DEF Relies
    <2>3. CASE i > k
      <3>1. k # 0
        <4>1. k = 0 => Job[t][k].op = "none"
          BY JobTable DEF IInv, TypeOK, JobsOf, NoTask
        <4> QED BY <4>1, OpsAre DEF Relies, Writes
      <3>2. k \in 1..(i - 1)
        BY <2>3, <3>1
      <3>3. ASSUME Job[t][i].loc.in = Null
            PROVE  FALSE
        <4>1. Job[t][k].op \in {"unlock", "drop", "take"}
          BY <1>1, <1>4, <3>2, <3>3 DEF TaskOK, WriteOK, Writes
        <4> QED BY <4>1, <1>3, CellsAre DEF Relies, Writes
      <3> QED BY <3>3
    <2> QED BY <2>1, <2>2, <2>3
  <1>5. ASSUME NEW x \in Shared \cup {t}, Owned(t, x), Variable(x) \in Stale
        PROVE  FALSE
    <2>1. PICK u \in Thread, i \in Nat : Job[u][i].op = "store" /\ Job[u][i].loc = Variable(x)
      BY <1>5, OverwrittenBy DEF IInv, TypeOK
    <2>2. Variable(x).in = Null /\ Variable(x).at = x
      BY DEF Variable
    <2>3. u = t
      BY <1>5, <2>1, <2>2, Excluded DEF Mine, IInv
    <2> QED BY <1>4, <2>1, <2>2, <2>3
  <1>6. d \in Live \ Dying
    <2>1. CASE loop[t].vec = d
      <3>1. Ref[<<"loop", t>>] = d /\ <<"loop", t>> \in AllSlots /\ <<"loop", t>> # Own(d)
        BY <2>1, RefsAre, SlotsAre DEF Own
      <3> QED BY <3>1, CellsAre DEF IInv, Core
    <2>2. CASE HeldBy(t, d)
      <3>1. PICK x \in Shared \cup {t} : Owned(t, x) /\ var[x] = d
        BY <2>2 DEF HeldBy
      <3>2. x \in Var /\ Variable(x) \notin Stale
        BY <1>5, <3>1 DEF Var
      <3> QED BY <3>1, <3>2, VariableHolds DEF IInv
    <2> QED BY <1>2, <2>1, <2>2
  <1> QED BY <1>2, <1>5, <1>6

-----------------------------------------------------------------------------
(***************************************************************************)
(* A step keeps the tasks of a thread in order if it leaves alone what they*)
(* are about, and makes of each task the same, or the next part of it.     *)
(***************************************************************************)
Frame(u) ==
    /\ lock' = u <=> lock = u
    /\ loop'[u].vec = loop[u].vec
    /\ \A x \in Shared \cup {u} : Owned(u, x) => var'[x] = var[x]
    /\ \A d \in Live \ Dying :
          /\ kind'[d] = kind[d] /\ (lost[d] => lost'[d])
          /\ lock = u => DOMAIN elems'[d] = DOMAIN elems[d]

Gone(j, i) == /\ \/ j.op \in Deletes \cup {"dec", "none"}
                 \/ j.op = "store" /\ j.loc.in # Null
              /\ i.op \in Deletes \cup {"none"}
On(j, i) == /\ j.op \in {"copy", "take", "over"} /\ i.op \in {"over", "store"}
            /\ i.loc = j.loc /\ (j.op # "copy" => i.c = j.c)
\* What becomes of the k-th task.
Becomes(u, k) ==
    \/ Job'[u][k] = Job[u][k]
    \/ Gone(Job[u][k], Job'[u][k])
    \/ On(Job[u][k], Job'[u][k]) /\ \A m \in Nat : m > k => Job[u][m].op = "none"

Going(u) == Frame(u) /\ \A k \in Nat : Becomes(u, k)

LEMMA LockedKeeps ==
    ASSUME NEW u \in Thread, Locked(u), Going(u)
    PROVE  Locked(u)'
  <1>1. \A k \in Nat : Job'[u][k].op = "unlock" <=> Job[u][k].op = "unlock"
    BY OpsAre DEF Going, Becomes, Gone, On
  <1> QED BY <1>1 DEF Locked, Going, Frame

LEMMA StoreNextKeeps ==
    ASSUME NEW u \in Thread, StoreNext(u), Going(u)
    PROVE  StoreNext(u)'
  <1> SUFFICES ASSUME NEW k \in Nat, NEW i \in Nat, Job'[u][k].op = "store", i > k
               PROVE  Job'[u][i].op \in Deletes \cup {"none"}
    BY DEF StoreNext
  <1>1. Becomes(u, k) /\ Becomes(u, i)
    BY DEF Going
  <1>2. Job[u][i].op \in Deletes \cup {"none"}
    <2>1. CASE Job[u][k].op = "store"
      BY <2>1 DEF StoreNext
    <2>2. CASE Job[u][k].op # "store"
      BY <1>1, <2>2, OpsAre DEF Becomes, Gone, On
    <2> QED BY <2>1, <2>2
  <1> QED BY <1>1, <1>2, OpsAre DEF Becomes, Gone, On

LEMMA MineKeeps ==
    ASSUME NEW u \in Thread, Frame(u), NEW loc, Mine(u, loc)
    PROVE  Mine(u, loc)'
  BY DEF Mine, Owned, Frame

LEMMA HeldKeeps ==
    ASSUME NEW u \in Thread, Frame(u), NEW d, HeldBy(u, d)
    PROVE  HeldBy(u, d)'
  BY DEF HeldBy, Owned, Frame

LEMMA UnlocksKeep ==
    ASSUME NEW u \in Thread, Going(u), NEW k \in Nat, OnlyUnlock(u, k)
    PROVE  OnlyUnlock(u, k)'
  <1>1. \A i \in 1..(k - 1) : i \in Nat /\ Job'[u][i] = Job[u][i]
    BY OpsAre DEF Going, Becomes, Gone, On, OnlyUnlock
  <1> QED BY <1>1 DEF OnlyUnlock

LEMMA TargetKeeps ==
    ASSUME NEW u \in Thread, Frame(u), NEW loc, Target(u, loc), loc.in \in Cell => loc.in \in Live \ Dying
    PROVE  Target(u, loc)'
  <1>1. CASE Mine(u, loc)
    BY <1>1, MineKeeps DEF Target
  <1>2. CASE Within(u, loc)
    <2>1. HeldBy(u, loc.in)'
      BY <1>2, HeldKeeps DEF Within
    <2> QED BY <1>2, <2>1 DEF Target, Within, Frame
  <1> QED BY <1>1, <1>2 DEF Target

LEMMA WriteKeeps ==
    ASSUME IInv, NEW u \in Thread, Going(u), NEW k \in Nat
    PROVE  WriteOK(u, k)'
  <1> SUFFICES ASSUME Job'[u][k].op \in Writes
               PROVE  WriteOK(u, k)'
    BY DEF WriteOK
  <1>1. /\ Becomes(u, k) /\ Frame(u) /\ TaskOK(u, k)
        /\ \A i \in Nat : Becomes(u, i)
    BY DEF Going, IInv, AllOrderly, Orderly
  <1>2. Job[u][k].op \in Writes /\ Job'[u][k].loc = Job[u][k].loc
    BY <1>1, OpsAre DEF Becomes, Gone, On, Writes
  <1>3. PICK loc : loc = Job[u][k].loc
    OBVIOUS
  <1>4. Target(u, loc)'
    <2>1. loc.in \in Cell => loc.in \in Live \ Dying
      BY <1>2, <1>3, ReliedLive DEF Relies
    <2>2. Target(u, loc)
      BY <1>1, <1>2, <1>3 DEF TaskOK, WriteOK
    <2> QED BY <1>1, <2>1, <2>2, TargetKeeps
  <1>5. ASSUME loc.in = Null, NEW i \in 1..(k - 1)
        PROVE  Job'[u][i].op \in {"unlock", "drop", "take"}
    <2>1. i \in Nat /\ Job[u][i].op \in {"unlock", "drop", "take"} /\ Becomes(u, i) /\ k > i
      BY <1>1, <1>2, <1>3, <1>5 DEF TaskOK, WriteOK
    <2>2. Job[u][k].op # "none"
      BY <1>2, OpsAre
    <2> QED BY <2>1, <2>2, OpsAre DEF Becomes, Gone, On
  <1>6. Job'[u][k].loc = loc
    BY <1>2, <1>3
  <1> QED BY <1>4, <1>5, <1>6 DEF WriteOK

LEMMA CopyKeeps ==
    ASSUME IInv, NEW u \in Thread, Going(u), NEW k \in Nat
    PROVE  CopyOK(u, k)'
  <1> SUFFICES ASSUME Job'[u][k].op = "copy"
               PROVE  CopyOK(u, k)'
    BY DEF CopyOK
  <1>1. Becomes(u, k) /\ Frame(u) /\ TaskOK(u, k)
    BY DEF Going, IInv, AllOrderly, Orderly
  <1>2. Job'[u][k] = Job[u][k] /\ Job[u][k].op = "copy"
    BY <1>1, OpsAre DEF Becomes, Gone, On
  <1>3. PICK from : from = Job[u][k].from
    OBVIOUS
  <1>4. CASE Mine(u, from)
    <2>1. Mine(u, from)'
      BY <1>1, <1>4, MineKeeps
    <2> QED BY <1>2, <1>3, <2>1 DEF CopyOK
  <1>5. CASE lock = u /\ Anchored(u, from.in)
    <2>1. HeldBy(u, from.in) => HeldBy(u, from.in)'
      BY <1>1, HeldKeeps
    <2>2. lock' = u /\ Anchored(u, from.in)'
      BY <1>1, <1>5, <2>1 DEF Anchored, Frame
    <2> QED BY <1>2, <1>3, <2>2 DEF CopyOK
  <1>6. Mine(u, from) \/ (lock = u /\ Anchored(u, from.in))
    BY <1>1, <1>2, <1>3 DEF TaskOK, CopyOK
  <1> QED BY <1>4, <1>5, <1>6

LEMMA PopKeeps ==
    ASSUME IInv, NEW u \in Thread, Going(u), NEW k \in Nat
    PROVE  PopOK(u, k)'
  <1> SUFFICES ASSUME Job'[u][k].op = "pop"
               PROVE  PopOK(u, k)'
    BY DEF PopOK
  <1>1. Becomes(u, k) /\ Frame(u) /\ TaskOK(u, k)
    BY DEF Going, IInv, AllOrderly, Orderly
  <1>2. Job'[u][k] = Job[u][k] /\ Job[u][k].op = "pop"
    BY <1>1, OpsAre DEF Becomes, Gone, On
  <1>3. PICK c : c = Job[u][k].c
    OBVIOUS
  <1>4. /\ lock = u /\ c \in Cell /\ HeldBy(u, c) /\ kind[c] = "vector" /\ 1 \in DOMAIN elems[c]
        /\ OnlyUnlock(u, k)
    BY <1>1, <1>2, <1>3 DEF TaskOK, PopOK
  <1>5. c \in Live \ Dying
    BY <1>2, <1>3, <1>4, ReliedLive DEF Relies
  <1>6. HeldBy(u, c)' /\ OnlyUnlock(u, k)'
    BY <1>1, <1>4, HeldKeeps, UnlocksKeep
  <1>7. lock' = u /\ kind'[c] = "vector" /\ 1 \in DOMAIN elems'[c]
    BY <1>1, <1>4, <1>5 DEF Frame
  <1> QED BY <1>2, <1>3, <1>4, <1>6, <1>7 DEF PopOK

LEMMA ConstructKeeps ==
    ASSUME IInv, NEW u \in Thread, Going(u), NEW k \in Nat
    PROVE  ConstructOK(u, k)'
  <1> SUFFICES ASSUME Job'[u][k].op = "construct"
               PROVE  ConstructOK(u, k)'
    BY DEF ConstructOK
  <1>1. Becomes(u, k) /\ Frame(u) /\ TaskOK(u, k)
    BY DEF Going, IInv, AllOrderly, Orderly
  <1>2. Job'[u][k] = Job[u][k] /\ Job[u][k].op = "construct"
    BY <1>1, OpsAre DEF Becomes, Gone, On
  <1>3. PICK c, loc : c = Job[u][k].c /\ loc = Job[u][k].loc
    OBVIOUS
  <1>4. c \in Cell /\ kind[c] = "object" /\ Mine(u, loc) /\ OnlyUnlock(u, k)
    BY <1>1, <1>2, <1>3 DEF TaskOK, ConstructOK
  <1>5. c \in Live \ Dying
    BY <1>2, <1>3, <1>4, HandLive, OpsAre, CellsAre DEF IInv
  <1>6. Mine(u, loc)' /\ OnlyUnlock(u, k)'
    BY <1>1, <1>4, MineKeeps, UnlocksKeep
  <1>7. kind'[c] = "object"
    BY <1>1, <1>4, <1>5 DEF Frame
  <1> QED BY <1>2, <1>3, <1>4, <1>6, <1>7 DEF ConstructOK

LEMMA TakeKeeps ==
    ASSUME IInv, NEW u \in Thread, Going(u), NEW k \in Nat
    PROVE  TakeOK(u, k)'
  <1> SUFFICES ASSUME Job'[u][k].op = "take"
               PROVE  TakeOK(u, k)'
    BY DEF TakeOK
  <1>1. Becomes(u, k) /\ TaskOK(u, k) /\ \A i \in Nat : Becomes(u, i)
    BY DEF Going, IInv, AllOrderly, Orderly
  <1>2. Job'[u][k] = Job[u][k] /\ Job[u][k].op = "take"
    BY <1>1, OpsAre DEF Becomes, Gone, On
  <1>3. PICK i \in 1..(k - 1) : Job[u][i].op = "drop" /\ Job[u][i].c = Job[u][k].c
    BY <1>1, <1>2 DEF TaskOK, TakeOK
  <1>4. i \in Nat /\ Job'[u][i] = Job[u][i]
    BY <1>1, <1>3, OpsAre DEF Becomes, Gone, On
  <1> QED BY <1>1, <1>2, <1>3, <1>4 DEF TakeOK, TaskOK

LEMMA DropKeeps ==
    ASSUME IInv, NEW u \in Thread, Going(u), NEW k \in Nat
    PROVE  DropOK(u, k)'
  <1> SUFFICES ASSUME Job'[u][k].op = "drop"
               PROVE  DropOK(u, k)'
    BY DEF DropOK
  <1>1. Becomes(u, k) /\ Frame(u) /\ TaskOK(u, k) /\ \A i \in Nat : Becomes(u, i)
    BY DEF Going, IInv, AllOrderly, Orderly
  <1>2. Job'[u][k] = Job[u][k] /\ Job[u][k].op = "drop"
    BY <1>1, OpsAre DEF Becomes, Gone, On
  <1>3. PICK c : c = Job[u][k].c
    OBVIOUS
  <1>4. /\ c \in Cell /\ kind[c] = "object" /\ OnlyUnlock(u, k)
        /\ \/ lost[c] \/ HeldBy(u, c)
           \/ \E i \in Nat : i > k /\ Job[u][i].op \in {"take", "over", "store"} /\ Job[u][i].c = c
        /\ \A i \in Nat : i > k /\ Job[u][i].op \in Writes =>
              Job[u][i].op # "copy" /\ Job[u][i].loc.in = Null /\ Job[u][i].c = c
    BY <1>1, <1>2, <1>3 DEF TaskOK, DropOK
  <1>5. c \in Live \ Dying
    BY <1>2, <1>3, <1>4, HandLive, OpsAre, CellsAre DEF IInv
  <1>6. OnlyUnlock(u, k)' /\ kind'[c] = "object" /\ (lost[c] => lost'[c])
    BY <1>1, <1>4, <1>5, UnlocksKeep DEF Frame
  <1>7. HeldBy(u, c) => HeldBy(u, c)'
    BY <1>1, HeldKeeps
  <1>8. ASSUME NEW i \in Nat, i > k, Job'[u][i].op \in Writes
        PROVE  Job'[u][i].op # "copy" /\ Job'[u][i].loc.in = Null /\ Job'[u][i].c = c
    <2>1. Job[u][i].op \in Writes /\ Becomes(u, i)
      BY <1>1, <1>8, OpsAre DEF Becomes, Gone, On, Writes
    <2>2. Job[u][i].op # "copy" /\ Job[u][i].loc.in = Null /\ Job[u][i].c = c
      BY <1>4, <1>8, <2>1
    <2> QED BY <1>8, <2>1, <2>2, OpsAre DEF Becomes, Gone, On
  <1>9. ASSUME NEW i \in Nat, i > k, Job[u][i].op \in {"take", "over", "store"}, Job[u][i].c = c
        PROVE  Job'[u][i].op \in {"take", "over", "store"} /\ Job'[u][i].c = c
    <2>1. Becomes(u, i) /\ Job[u][i].loc.in = Null
      BY <1>1, <1>4, <1>9 DEF Writes
    <2> QED BY <1>9, <2>1, OpsAre DEF Becomes, Gone, On, Writes
  <1>10. \/ lost'[c] \/ HeldBy(u, c)'
         \/ \E i \in Nat : i > k /\ Job'[u][i].op \in {"take", "over", "store"} /\ Job'[u][i].c = c
    BY <1>4, <1>6, <1>7, <1>9
  <1> QED BY <1>2, <1>3, <1>4, <1>6, <1>8, <1>10 DEF DropOK

LEMMA Keeps ==
    ASSUME IInv, NEW u \in Thread, Going(u)
    PROVE  Orderly(u)'
  <1>1. Locked(u)' /\ StoreNext(u)'
    BY LockedKeeps, StoreNextKeeps DEF IInv, AllOrderly, Orderly
  <1>2. ASSUME NEW k \in Nat
        PROVE  TaskOK(u, k)'
    BY WriteKeeps, CopyKeeps, PopKeeps, ConstructKeeps, TakeKeeps, DropKeeps DEF TaskOK
  <1> QED BY <1>1, <1>2 DEF Orderly


-----------------------------------------------------------------------------
(***************************************************************************)
(* What the step lemmas share.                                             *)
(***************************************************************************)

\* The other threads are not disturbed by a step of t.
Around(t) ==
    /\ \A u \in Thread \ {t} :
          /\ lock' = u <=> lock = u
          /\ loop'[u].vec = loop[u].vec
          /\ \A x \in Shared \cup {u} : Owned(u, x) => var'[x] = var[x]
          /\ \A k \in Nat : Job'[u][k] = Job[u][k]
    /\ \A d \in Live \ Dying :
          /\ kind'[d] = kind[d] /\ (lost[d] => lost'[d])
          /\ lock \in Thread \ {t} => DOMAIN elems'[d] = DOMAIN elems[d]

LEMMA OrderlyStep ==
    ASSUME IInv, NEW t \in Thread, Around(t), Orderly(t)'
    PROVE  AllOrderly'
  <1>1. ASSUME NEW u \in Thread \ {t}
        PROVE  Orderly(u)'
    <2>1. Frame(u)
      BY DEF Around, Frame
    <2>2. \A k \in Nat : Becomes(u, k)
      BY DEF Around, Becomes
    <2> QED BY <2>1, <2>2, Keeps DEF Going
  <1> QED BY <1>1 DEF AllOrderly

\* A step that changes neither variables nor the cells that are not deleted.
Quiet == /\ var' = var /\ loop' = loop /\ lock' = lock
         /\ \A d \in Live \ Dying : /\ kind'[d] = kind[d] /\ (lost[d] => lost'[d])
                                    /\ DOMAIN elems'[d] = DOMAIN elems[d]

LEMMA OrderlyTurn ==
    ASSUME IInv, NEW t \in Thread, NEW a, NEW b, Turning(t, a, b), Quiet,
           a.op \in Deletes \cup {"none"}, b = Now(t) \/ Gone(Now(t), b) \/ On(Now(t), b)
    PROVE  AllOrderly'
  <1>1. Frame(t)
    BY DEF Quiet, Frame
  <1> DEFINE n == N[t]
  <1>2. /\ n \in Nat /\ n + 1 \in Nat /\ n # n + 1 /\ Job[t][n] = Now(t)
        /\ \A m \in Nat : m > n => Job[t][m] = NoTask
    BY DEF Turning, AtHead
  <1>3. Job'[t][n] = b /\ Job'[t][n + 1] = a
    BY <1>2 DEF Turning, Turns
  <1>4. Becomes(t, n)
    BY <1>2, <1>3, NoTaskIs DEF Becomes
  <1>5. Becomes(t, n + 1)
    <2>1. Job[t][n + 1] = NoTask
      BY <1>2
    <2> QED BY <1>2, <1>3, <2>1, NoTaskIs DEF Becomes, Gone
  <1> HIDE DEF n
  <1>6. \A u \in Thread, k \in Nat : ~(u = t /\ (k = n \/ k = n + 1)) => Job'[u][k] = Job[u][k]
    BY <1>2 DEF Turning, Turns, n
  <1>7. \A k \in Nat : Becomes(t, k)
    BY <1>4, <1>5, <1>6 DEF Becomes
  <1>8. Orderly(t)'
    BY <1>1, <1>7, Keeps DEF Going
  <1>9. Around(t)
    BY <1>6 DEF Around, Quiet
  <1> QED BY <1>8, <1>9, OrderlyStep

\* What a step leaves of the cells that are being deleted.
Untouched(c) == /\ kind'[c] = kind[c] /\ ref'[c] = ref[c] /\ ran'[c] = ran[c]
                /\ Ref'[Own(c)] = Ref[Own(c)]

LEMMA PhaseKeeps ==
    ASSUME NEW op, NEW c \in Cell, InPhase(op, c), Untouched(c)
    PROVE  InPhase(op, c)'
  <1>1. c \in Live' /\ Own(c)' = Own(c)
    BY DEF InPhase, Untouched, Live, Own, Element
  <1> QED BY <1>1 DEF InPhase, Untouched

LEMMA PhasesTurn ==
    ASSUME NEW t \in Thread, NEW a, NEW b, Turning(t, a, b), Core, Once, Phases,
           \A c \in Dying : Untouched(c) \/ (Now(t).op \in Deletes /\ c = Now(t).c),
           a.op \in Deletes => InPhase(a.op, a.c)', b.op \in Deletes => InPhase(b.op, b.c)'
    PROVE  Phases'
  <1> SUFFICES ASSUME NEW u \in Thread, NEW k \in Nat, Job'[u][k].op \in Deletes
               PROVE  InPhase(Job[u][k].op, Job[u][k].c)'
    BY DEF Phases
  <1>1. PICK op, c : op = Job'[u][k].op /\ c = Job'[u][k].c
    OBVIOUS
  <1>2. InPhase(op, c)'
    <2>1. CASE u = t /\ k = N[t]
      <3>1. Job'[u][k] = b
        BY <2>1 DEF Turning, Turns
      <3> QED BY <1>1, <3>1
    <2>2. CASE u = t /\ k = N[t] + 1
      <3>1. Job'[u][k] = a
        BY <2>2 DEF Turning, Turns, AtHead
      <3> QED BY <1>1, <3>1
    <2>3. CASE ~(u = t /\ k = N[t]) /\ ~(u = t /\ k = N[t] + 1)
      <3>1. Job'[u][k] = Job[u][k]
        BY <2>3 DEF Turning, Turns
      <3>2. Job[u][k].op = op /\ Job[u][k].c = c /\ op \in Deletes
        BY <1>1, <3>1
      <3>3. InPhase(op, c)
        BY <3>2 DEF Phases
      <3>4. c \in Cell /\ c \in Dying
        <4>1. c \in Cell
          BY <3>3, CellsAre DEF InPhase
        <4> QED BY <3>2, <4>1, TablesAre DEF Deleted, Turning
      <3>5. ~(Now(t).op \in Deletes /\ c = Now(t).c)
        BY <2>3, <3>2 DEF Once, Turning, AtHead
      <3> QED BY <3>3, <3>4, <3>5, PhaseKeeps
    <2> QED BY <2>1, <2>2, <2>3
  <1> QED BY <1>1, <1>2 DEF InPhase, Own, Element

LEMMA HandsTurn ==
    ASSUME NEW t \in Thread, NEW a, NEW b, Turning(t, a, b), Hand(a) = Null
    PROVE  NewHand(t, N[t], Hand(b))
  <1> DEFINE n == N[t]
  <1>1. n \in Nat /\ n + 1 \in Nat /\ n # n + 1 /\ Job[t][n + 1] = NoTask
    BY DEF Turning, AtHead
  <1> QED BY <1>1, NoTaskIs DEF Turning, Turns, NewHand

LEMMA DeletionIs ==
    ASSUME NEW c \in Cell \cup {Null}
    PROVE  /\ Deletion(c) \in TaskType \cup {NoTask} /\ Deletion(c).op \in Deletes \cup {"none"}
           /\ Hand(Deletion(c)) = Null
           /\ Deletion(c).op \in Deletes => /\ LastReference(c) /\ c \in Cell /\ Deletion(c).c = c
                                            /\ Deletion(c).op = IF kind[c] = "object" THEN "bias" ELSE "elements"
           /\ Deletion(c).op # "store"
  <1>1. CASE LastReference(c)
    <2>1. c \in Cell /\ Deletion(c) = Destroy(c)
      BY <1>1 DEF LastReference, Deletion
    <2> QED BY <1>1, <2>1, DestroyIs, OpsAre DEF Hand
  <1>2. CASE ~LastReference(c)
    <2>1. Deletion(c) = NoTask
      BY <1>2 DEF Deletion
    <2> QED BY <2>1, NoTaskIs
  <1> QED BY <1>1, <1>2

LEMMA HeadFacts ==
    ASSUME IInv, NEW t \in Thread, todo[t] # <<>>
    PROVE  /\ todo \in [Thread -> Seq(TaskType)] /\ AtHead(t) /\ TaskOK(t, N[t])
           /\ N[t] \in Nat /\ Job[t][N[t]] = Now(t) /\ Now(t) \in TaskType /\ Locked(t)
           /\ Now(t).op \notin Deletes =>
                 \A k \in Nat : Job[t][k].op = "store" => k = N[t]
  <1>1. todo \in [Thread -> Seq(TaskType)] /\ Orderly(t)
    BY DEF IInv, TypeOK, AllOrderly
  <1>2. AtHead(t) /\ N[t] \in Nat
    BY <1>1, Heads DEF AtHead
  <1>3. ASSUME Now(t).op \notin Deletes, NEW k \in Nat, Job[t][k].op = "store", k # N[t]
        PROVE  FALSE
    <2>1. CASE k > N[t]
      BY <1>2, <1>3, <2>1, NoTaskIs DEF AtHead
    <2>2. CASE k < N[t]
      <3>1. Now(t).op = "none"
        BY <1>1, <1>2, <1>3, <2>2 DEF Orderly, StoreNext, AtHead
      <3> QED BY <1>2, <3>1 DEF AtHead, TaskType, Op, Deletes, Owns
    <2> QED BY <1>2, <1>3, <2>1, <2>2
  <1> QED BY <1>1, <1>2, <1>3 DEF AtHead, Orderly

LEMMA LocationIs ==
    ASSUME TypeOK, NEW loc \in Location
    PROVE  /\ loc.in = Null /\ loc.at \in Var => loc \in Places /\ loc = Variable(loc.at)
           /\ loc.in \in Cell /\ loc.at \in DOMAIN elems[loc.in] =>
                 /\ loc \in Places /\ loc.at \in Nat \ {0} /\ loc = Element(loc.in, loc.at)
                 /\ elems[loc.in][loc.at] \in Cell \cup {Null}
  <1>1. loc = [in |-> loc.in, at |-> loc.at]
    BY DEF Location
  <1>2. loc.in = Null /\ loc.at \in Var => loc \in Places /\ loc = Variable(loc.at)
    BY <1>1, PlacesAre DEF Variable
  <1>3. ASSUME loc.in \in Cell, loc.at \in DOMAIN elems[loc.in]
        PROVE  /\ loc \in Places /\ loc.at \in Nat \ {0} /\ loc = Element(loc.in, loc.at)
               /\ elems[loc.in][loc.at] \in Cell \cup {Null}
    <2> DEFINE s == elems[loc.in]
    <2>1. s \in Seq(Cell \cup {Null}) /\ Len(s) <= MaxLen /\ Len(s) \in Nat /\ MaxLen \in Nat
      BY <1>3, BoundsAssumption DEF TypeOK
    <2>2. DOMAIN s = 1..Len(s) /\ s[loc.at] \in Cell \cup {Null}
      BY <1>3, <2>1
    <2> HIDE DEF s
    <2>3. loc.at \in 1..Len(s)
      BY <1>3, <2>2 DEF s
    <2>4. loc.at \in Nat \ {0} /\ loc.at \in 1..MaxLen
      BY <2>1, <2>3
    <2>5. loc = Element(loc.in, loc.at)
      BY <1>1 DEF Element
    <2>6. Element(loc.in, loc.at) \in Places
      BY <1>3, <2>4, PlacesAre
    <2> QED BY <2>2, <2>4, <2>5, <2>6 DEF s
  <1> QED BY <1>2, <1>3

\* What a thread reads is what its place refers to.
LEMMA Reads ==
    ASSUME IInv, NEW t \in Thread, todo[t] # <<>>, Now(t).op \notin Deletes \cup {"store"},
           NEW loc \in Location, Mine(t, loc) \/ (lock = t /\ loc.in \in Cell)
    PROVE  /\ loc \notin Stale
           /\ read(loc) \in Cell \cup {Null}
           /\ loc \in Places => Ref[<<"place", loc>>] = read(loc)
           /\ read(loc) # Null => loc \in Places
           /\ Mine(t, loc) => loc \in Places
  <1>1. loc \notin Stale
    <2> SUFFICES ASSUME loc \in Stale PROVE FALSE
      OBVIOUS
    <2>1. PICK u \in Thread, k \in Nat : Job[u][k].op = "store" /\ Job[u][k].loc = loc
      BY OverwrittenBy DEF IInv, TypeOK
    <2>2. u = t
      BY <2>1, Excluded DEF IInv
    <2>3. k = N[t] /\ Job[t][N[t]] = Now(t)
      BY <2>1, <2>2, HeadFacts
    <2> QED BY <2>1, <2>2, <2>3
  <1>2. TypeOK
    BY DEF IInv
  <1>3. loc \in Places => Ref[<<"place", loc>>] = read(loc)
    BY <1>1, RefsAre, ValsAre
  <1>4. CASE Mine(t, loc)
    <2>1. loc.in = Null /\ loc.at \in Var
      BY <1>4 DEF Mine, Owned, Var
    <2>2. loc \in Places /\ read(loc) \in Cell \cup {Null}
      BY <1>2, <2>1, LocationIs DEF TypeOK, read
    <2> QED BY <1>1, <1>3, <2>2
  <1>5. CASE loc.in \in Cell
    <2>1. /\ read(loc) \in Cell \cup {Null}
          /\ read(loc) # Null => loc \in Places
      BY <1>2, <1>5, LocationIs, CellsAre DEF read
    <2>2. ~Mine(t, loc)
      BY <1>5, CellsAre DEF Mine
    <2> QED BY <1>1, <1>3, <2>1, <2>2
  <1> QED BY <1>4, <1>5

LEMMA CountsType ==
    ASSUME ref \in [Cell -> Int], NEW c \in Cell \cup {Null}, incRef(c) \/ decRef(c)
    PROVE  /\ ref' \in [Cell -> Int]
           /\ \A d \in Cell \ {c} : ref'[d] = ref[d]
           /\ c = Null => ref' = ref
           /\ c \in Cell /\ incRef(c) => ref' = [ref EXCEPT ![c] = @ + 1]
           /\ c \in Cell /\ decRef(c) => ref' = [ref EXCEPT ![c] = @ - 1]
  BY CellsAre DEF incRef, decRef

LEMMA TypeTurn ==
    ASSUME TypeOK, NEW t \in Thread, NEW a, NEW b, Turning(t, a, b),
           UNCHANGED <<state, places, rest>>, ref' \in [Cell -> Int]
    PROVE  TypeOK'
  BY DEF TypeOK, Turning, Turns, state, places, rest

LEMMA WholeKeeps ==
    ASSUME Whole, Dying \subseteq Dying', kind' = kind, ran' = ran
    PROVE  Whole'
  BY DEF Whole, Live

LEMMA EmptyKeeps ==
    ASSUME Empty, kind' = kind, ran' = ran, elems' = elems
    PROVE  Empty'
  BY DEF Empty, Live

\* A slot gives up its reference.
GivesUp(s, c) ==
    /\ s \in AllSlots /\ c \in Cell \cup {Null} /\ Ref[s] = c
    /\ c \in Cell /\ kind[c] = "object" => s # Own(c)
    /\ decRef(c) /\ DiesWith(c)
    /\ Ref' = [Ref EXCEPT ![s] = Null]
    /\ kind' = kind /\ ran' = ran /\ lost' = lost

LEMMA GiveUp ==
    ASSUME IInv, NEW s, NEW c, GivesUp(s, c)
    PROVE  /\ Core' /\ Dying \subseteq Dying' /\ ref' \in [Cell -> Int]
           /\ LastReference(c) =>
                 \A op : op = (IF kind[c] = "object" THEN "bias" ELSE "elements")
                           => InPhase(op, c)'
           /\ \A d \in Dying : s # Own(d) => Untouched(d)
  <1>1. /\ Core /\ TypeOK /\ s \in AllSlots /\ c \in Cell \cup {Null} /\ Ref[s] = c
        /\ ref \in [Cell -> Int] /\ Ref \in [AllSlots -> Cell \cup {Null}]
        /\ Live \subseteq Cell /\ Null \notin Cell /\ Live' = Live /\ Dying \subseteq Live
    BY CellsAre DEF IInv, Core, GivesUp, Live
  <1>2. /\ ref' \in [Cell -> Int]
        /\ \A d \in Cell \ {c} : ref'[d] = ref[d]
        /\ c = Null => ref' = ref
        /\ c \in Cell => ref' = [ref EXCEPT ![c] = @ - 1]
    BY <1>1, CountsType DEF GivesUp
  <1>3. CASE c = Null
    <2>1. ~LastReference(c) /\ Dying' = Dying
      BY <1>3 DEF GivesUp, DiesWith, LastReference
    <2>2. Ref' = Ref
      BY <1>1, <1>3 DEF GivesUp
    <2>3. Core'
      BY <1>1, <1>2, <1>3, <2>1, <2>2, SameReferences DEF GivesUp, Kept
    <2>4. \A d \in Dying : Untouched(d)
      BY <1>2, <1>3, <2>2 DEF Untouched, GivesUp
    <2> QED BY <1>2, <2>1, <2>3, <2>4
  <1>4. CASE c \in Cell
    <2>1. /\ c \in Live \ Dying /\ c # Null /\ Counted(c)
          /\ kind[c] = "object" => s # Own(c)
      BY <1>1, <1>4, Given DEF GivesUp
    <2>2. Core'
      BY <1>1, <1>2, <1>4, <2>1, Give DEF GivesUp, DiesWith
    <2>3. Dying \subseteq Dying'
      BY DEF GivesUp, DiesWith
    <2>4. ASSUME NEW d \in Dying, s # Own(d)
          PROVE  Untouched(d)
      <3>1. d \in Cell \ {c} /\ Own(d) \in AllSlots
        BY <1>1, <2>1, OwnSlot
      <3> QED BY <1>1, <1>2, <2>4, <3>1 DEF Untouched, GivesUp
    <2>5. ASSUME LastReference(c), NEW op,
                 op = (IF kind[c] = "object" THEN "bias" ELSE "elements")
          PROVE  InPhase(op, c)'
      <3>1. ran'[c] = 0 /\ c \in Live' /\ c \in Dying' /\ kind'[c] = kind[c]
        BY <1>1, <2>1, <2>5 DEF IInv, Whole, GivesUp, DiesWith
      <3>2. Own(c)' = Own(c) /\ Own(c) \in AllSlots
        BY <1>4, OwnSlot DEF Own, Element
      <3>3. CASE kind[c] = "object"
        <4>1. Ref[Own(c)] = c /\ Ref'[Own(c)] = c
          BY <1>1, <2>1, <3>2, <3>3 DEF Counted, GivesUp
        <4> QED BY <2>5, <3>1, <3>2, <3>3, <4>1 DEF InPhase
      <3>4. CASE kind[c] # "object"
        <4>1. Ref'[Own(c)] # c
          BY <2>1, <2>2, <3>1, <3>2, <3>4 DEF Core
        <4> QED BY <2>5, <3>1, <3>2, <3>4, <4>1 DEF InPhase
      <3> QED BY <3>3, <3>4
    <2> QED BY <1>2, <2>2, <2>3, <2>4, <2>5
  <1> QED BY <1>1, <1>3, <1>4

\* A task is no place of a cell.
LEMMA NotOwn ==
    /\ \A d : \A w : <<"task", w>> # Own(d)
    /\ \A d : \A u : <<"loop", u>> # Own(d)
  BY DEF Own

LEMMA DecStep ==
    ASSUME IInv, NEW t \in Thread, Dec(t)
    PROVE  IInv'
  <1>1. /\ todo[t] # <<>> /\ Now(t).op = "dec" /\ decRef(Now(t).c)
        /\ Then(t, Deleting(Now(t).c)) /\ UNCHANGED <<state, places, rest>>
    BY DEF Dec, Doing
  <1>2. PICK c : c = Now(t).c
    OBVIOUS
  <1>3. /\ todo \in [Thread -> Seq(TaskType)] /\ AtHead(t) /\ N[t] \in Nat
        /\ Job[t][N[t]] = Now(t) /\ Now(t) \in TaskType /\ c \in Cell \cup {Null}
        /\ Core /\ TypeOK /\ Once /\ Phases
    BY <1>1, <1>2, HeadFacts DEF IInv, TaskType
  <1>4. PICK b : b = Deletion(c)
    OBVIOUS
  <1>5. Turning(t, NoTask, b)
    <2>1. Turns(t, NoTask, b)
      BY <1>1, <1>2, <1>3, <1>4, TurnDeleting
    <2> QED BY <1>3, <1>4, <2>1, DeletionIs DEF Turning
  <1>6. kind' = kind /\ ran' = ran /\ lost' = lost /\ elems' = elems /\ var' = var /\ loop' = loop /\ lock' = lock
    BY <1>1 DEF state, places, rest
  <1> DEFINE s == <<"task", <<t, N[t]>>>>
  <1>a. Job[t][N[t]].op \in Owns /\ Job[t][N[t]].c = c /\ Hand(Job[t][N[t]]) = c
    BY <1>1, <1>2, <1>3 DEF Owns, Hand
  <1>7. s \in AllSlots /\ Ref[s] = c
    BY <1>3, <1>a, SlotsAre, RefsAre
  <1>8. c \notin Dying
    <2>1. c = Null => c \notin Dying
      BY <1>3, CellsAre DEF Core
    <2> QED BY <1>3, <1>a, <2>1, HandLive
  <1>9. DiesWith(c) /\ Once'
    BY <1>1, <1>3, <1>4, <1>5, <1>8, DyingNext, OpsAre
  <1>10. Ref' = [Ref EXCEPT ![s] = Null]
    <2>1. Hand(b) = Null /\ Hand(NoTask) = Null /\ b.op # "store" /\ NoTask.op # "store"
      BY <1>3, <1>4, DeletionIs, NoTaskIs
    <2>2. NewHand(t, N[t], Null)
      BY <1>5, <2>1, HandsTurn
    <2>3. Stale' = Stale
      BY <1>1, <1>5, <2>1, StaleSame
    <2>4. Val' = Val
      BY <1>6, <2>3, ValSame
    <2>5. SameLoops
      BY <1>6 DEF SameLoops
    <2>6. PICK n \in Nat : n = N[t]
      BY <1>3
    <2>7. NewHand(t, n, Null)
      BY <2>2, <2>6
    <2>8. Ref' = [Ref EXCEPT ![<<"task", <<t, n>>>>] = Null]
      BY <2>4, <2>5, <2>7, RefTask
    <2> QED BY <2>6, <2>8
  <1>11. GivesUp(s, c)
    BY <1>1, <1>2, <1>3, <1>6, <1>7, <1>9, <1>10, NotOwn DEF GivesUp
  <1> HIDE DEF s
  <1>12. /\ Core' /\ Dying \subseteq Dying' /\ ref' \in [Cell -> Int]
         /\ LastReference(c) =>
               \A op : op = (IF kind[c] = "object" THEN "bias" ELSE "elements")
                         => InPhase(op, c)'
         /\ \A d \in Dying : s # Own(d) => Untouched(d)
    BY <1>11, GiveUp
  <1>13. TypeOK'
    BY <1>1, <1>3, <1>5, <1>12, TypeTurn
  <1>14. AllOrderly'
    <2>1. Gone(Now(t), b)
      BY <1>1, <1>3, <1>4, DeletionIs DEF Gone
    <2>2. Quiet
      BY <1>6 DEF Quiet
    <2> QED BY <1>5, <2>1, <2>2, OrderlyTurn, NoTaskIs
  <1>15. Phases'
    <2>1. b.op \in Deletes => InPhase(b.op, b.c)'
      BY <1>3, <1>4, <1>12, DeletionIs
    <2>2. \A d \in Dying : Untouched(d)
      BY <1>12, NotOwn DEF s
    <2> QED BY <1>3, <1>5, <2>1, <2>2, PhasesTurn, NoTaskIs
  <1>16. Whole' /\ Empty'
    BY <1>6, <1>12, WholeKeeps, EmptyKeeps DEF IInv
  <1> QED BY <1>9, <1>12, <1>13, <1>14, <1>15, <1>16 DEF IInv

\* A thread takes a reference in its hands.
LEMMA ReceiveStep ==
    ASSUME IInv, NEW t \in Thread, todo[t] # <<>>, Now(t).op \in {"copy", "take"},
           NEW c \in (Live \ Dying) \cup {Null}, incRef(c), UNCHANGED <<state, places, rest>>,
           Then(t, << Task("over", Now(t).loc, c) >>),
           Now(t).op = "take" => Now(t).c = c
    PROVE  IInv'
  <1>1. /\ todo \in [Thread -> Seq(TaskType)] /\ AtHead(t) /\ N[t] \in Nat
        /\ Job[t][N[t]] = Now(t) /\ Now(t) \in TaskType
        /\ Core /\ TypeOK /\ Once /\ Phases /\ Live \subseteq Cell /\ Null \notin Cell
    BY HeadFacts, CellsAre DEF IInv
  <1>2. c \in Cell \cup {Null} /\ c \notin Dying
    BY <1>1 DEF Core
  <1>3. PICK b : b = Task("over", Now(t).loc, c)
    OBVIOUS
  <1>4. b \in TaskType /\ b.op = "over" /\ b.loc = Now(t).loc /\ b.c = c /\ Hand(b) = c
    BY <1>1, <1>2, <1>3, NowhereIs DEF Task, TaskType, Op, Owns, Hand
  <1>5. Turning(t, NoTask, b)
    <2>1. Turns(t, NoTask, b)
      BY <1>1, <1>3, <1>4, TurnOne
    <2> QED BY <1>1, <1>4, <2>1 DEF Turning
  <1>6. kind' = kind /\ ran' = ran /\ lost' = lost /\ elems' = elems /\ var' = var /\ loop' = loop /\ lock' = lock
    BY DEF state, places, rest
  <1> DEFINE s == <<"task", <<t, N[t]>>>>
  <1>7. s \in AllSlots /\ Ref[s] = Null
    <2>1. Hand(Job[t][N[t]]) = Null
      BY <1>1 DEF Hand, Owns
    <2> QED BY <1>1, <2>1, SlotsAre, RefsAre
  <1>8. Dying' = Dying /\ Once'
    <2>1. GoesOn(Now(t), b)
      BY <1>4, OpsAre DEF GoesOn, Deletes
    <2> QED BY <1>1, <1>5, <2>1, DyingSame, NoTaskIs
  <1>9. Ref' = [Ref EXCEPT ![s] = c]
    <2>1. NewHand(t, N[t], c)
      BY <1>4, <1>5, HandsTurn, NoTaskIs
    <2>2. Stale' = Stale
      BY <1>4, <1>5, StaleSame, NoTaskIs
    <2>3. Val' = Val /\ SameLoops
      BY <1>6, <2>2, ValSame DEF SameLoops
    <2> QED BY <1>1, <2>1, <2>3, RefTask
  <1>10. /\ ref' \in [Cell -> Int]
         /\ \A d \in Cell \ {c} : ref'[d] = ref[d]
         /\ c = Null => ref' = ref
         /\ c \in Cell => ref' = [ref EXCEPT ![c] = @ + 1]
    BY <1>1, <1>2, CountsType DEF TypeOK
  <1> HIDE DEF s
  <1>11. Core'
    <2>1. CASE c = Null
      <3>1. Ref' = Ref
        BY <1>1, <1>7, <1>9, <2>1 DEF Core
      <3>2. Live' = Live
        BY <1>6 DEF Live
      <3> QED BY <1>1, <1>6, <1>8, <1>10, <2>1, <3>1, <3>2, SameReferences DEF Kept
    <2>2. CASE c # Null
      BY <1>1, <1>2, <1>6, <1>7, <1>8, <1>9, <1>10, <2>2, OneMore
    <2> QED BY <2>1, <2>2
  <1>12. TypeOK'
    BY <1>1, <1>5, <1>10, TypeTurn
  <1>13. AllOrderly'
    <2>1. On(Now(t), b)
      BY <1>4 DEF On
    <2>2. Quiet
      BY <1>6 DEF Quiet
    <2> QED BY <1>5, <2>1, <2>2, OrderlyTurn, NoTaskIs
  <1>14. Phases'
    <2>1. b.op \notin Deletes
      BY <1>4 DEF Deletes
    <2>2. \A d \in Dying : Untouched(d)
      <3>1. ASSUME NEW d \in Dying
            PROVE  Untouched(d)
        <4>1. d \in Cell \ {c} /\ Own(d) \in AllSlots /\ s # Own(d)
          BY <1>1, <1>2, OwnSlot, NotOwn DEF Core, s
        <4> QED BY <1>1, <1>6, <1>9, <1>10, <4>1 DEF Untouched, Core
      <3> QED BY <3>1
    <2> QED BY <1>1, <1>5, <2>1, <2>2, PhasesTurn, NoTaskIs
  <1>15. Whole' /\ Empty'
    BY <1>6, <1>8, WholeKeeps, EmptyKeeps DEF IInv
  <1> QED BY <1>8, <1>11, <1>12, <1>13, <1>14, <1>15 DEF IInv

LEMMA CopyStep ==
    ASSUME IInv, NEW t \in Thread, Copy(t)
    PROVE  IInv'
  <1>1. /\ todo[t] # <<>> /\ Now(t).op = "copy" /\ UNCHANGED <<state, places, rest>>
        /\ incRef(read(Now(t).from))
        /\ Then(t, << Task("over", Now(t).loc, read(Now(t).from)) >>)
    BY DEF Copy, Doing
  <1>2. PICK from : from = Now(t).from
    OBVIOUS
  <1>3. PICK c : c = read(from)
    OBVIOUS
  <1>4. /\ TaskOK(t, N[t]) /\ N[t] \in Nat /\ Job[t][N[t]] = Now(t) /\ Now(t) \in TaskType
        /\ Core
    BY <1>1, HeadFacts DEF IInv
  <1>5. from \in Location /\ (Mine(t, from) \/ (lock = t /\ from.in \in Cell))
    BY <1>1, <1>2, <1>4 DEF TaskOK, CopyOK, Anchored, TaskType
  <1>6. Now(t).op \notin Deletes \cup {"store"}
    BY <1>1 DEF Deletes
  <1>7. /\ c \in Cell \cup {Null} /\ (c # Null => from \in Places)
        /\ from \in Places => Ref[<<"place", from>>] = c
    BY <1>1, <1>3, <1>5, <1>6, Reads
  <1>8. c \in (Live \ Dying) \cup {Null}
    <2> SUFFICES ASSUME c # Null
                 PROVE  c \in Live \ Dying
      BY <1>7
    <2>1. Ref[<<"place", from>>] = c /\ <<"place", from>> \in AllSlots
      BY <1>7, SlotsAre
    <2>2. ASSUME c \in Dying
          PROVE  FALSE
      <3>1. from = Element(c, 1)
        BY <1>4, <2>1, <2>2 DEF Core, Own
      <3>2. from.in = c /\ c \in Cell
        BY <1>7, <3>1 DEF Element
      <3>3. Relies(t, N[t], c)
        BY <1>1, <1>2, <1>4, <3>2 DEF Relies
      <3> QED BY <1>4, <2>2, <3>2, <3>3, ReliedLive
    <2> QED BY <1>4, <2>1, <2>2 DEF Core
  <1>9. incRef(c) /\ Then(t, << Task("over", Now(t).loc, c) >>)
    BY <1>1, <1>2, <1>3
  <1> QED BY <1>1, <1>8, <1>9, ReceiveStep

LEMMA TakeStep ==
    ASSUME IInv, NEW t \in Thread, Take(t)
    PROVE  IInv'
  <1>1. /\ todo[t] # <<>> /\ Now(t).op = "take" /\ UNCHANGED <<state, places, rest>>
        /\ incRef(Now(t).c)
        /\ Then(t, << Task("over", Now(t).loc, Now(t).c) >>)
    BY DEF Take, Doing
  <1>2. PICK c : c = Now(t).c
    OBVIOUS
  <1>3. TaskOK(t, N[t]) /\ N[t] \in Nat /\ Job[t][N[t]] = Now(t) /\ Core
    BY <1>1, HeadFacts DEF IInv
  <1>4. PICK i \in 1..(N[t] - 1) : Job[t][i].op = "drop" /\ Job[t][i].c = c
    BY <1>1, <1>2, <1>3 DEF TaskOK, TakeOK
  <1>5. c \in Cell
    BY <1>1, <1>2, <1>3 DEF TaskOK, TakeOK
  <1>6. c \in Live \ Dying
    <2>1. i \in Nat /\ Job[t][i].op \in Owns /\ Job[t][i].c # Null
      BY <1>3, <1>4, <1>5, CellsAre DEF Owns
    <2> QED BY <1>3, <1>4, <2>1, HandLive
  <1>7. incRef(c) /\ Then(t, << Task("over", Now(t).loc, c) >>)
    BY <1>1, <1>2
  <1> QED BY <1>1, <1>2, <1>6, <1>7, ReceiveStep

LEMMA OverStep ==
    ASSUME IInv, NEW t \in Thread, Over(t)
    PROVE  IInv'
  <1>1. /\ todo[t] # <<>> /\ Now(t).op = "over" /\ UNCHANGED <<state, places, rest>>
        /\ decRef(read(Now(t).loc))
        /\ Then(t, Deleting(read(Now(t).loc)) \o << Task("store", Now(t).loc, Now(t).c) >>)
    BY DEF Over, Doing
  <1>2. PICK loc : loc = Now(t).loc
    OBVIOUS
  <1>3. PICK c : c = read(loc)
    OBVIOUS
  <1>4. /\ todo \in [Thread -> Seq(TaskType)] /\ AtHead(t) /\ N[t] \in Nat /\ TaskOK(t, N[t])
        /\ Job[t][N[t]] = Now(t) /\ Now(t) \in TaskType /\ loc \in Location
        /\ Core /\ TypeOK /\ Once /\ Phases
    BY <1>1, <1>2, HeadFacts DEF IInv, TaskType
  <1>5. Target(t, loc)
    BY <1>1, <1>2, <1>4 DEF TaskOK, WriteOK, Writes
  <1>6. Now(t).op \notin Deletes \cup {"store"}
    BY <1>1 DEF Deletes
  <1>7. /\ loc \notin Stale /\ loc \in Places /\ c \in Cell \cup {Null}
        /\ Ref[<<"place", loc>>] = c
    <2>1. Mine(t, loc) \/ (lock = t /\ loc.in \in Cell)
      BY <1>5 DEF Target, Within
    <2>2. loc \in Places
      <3>1. CASE Mine(t, loc)
        BY <1>1, <1>4, <1>6, <3>1, Reads
      <3>2. CASE Within(t, loc)
        BY <1>4, <3>2, LocationIs DEF Within
      <3> QED BY <1>5, <3>1, <3>2 DEF Target
    <2> QED BY <1>1, <1>3, <1>4, <1>6, <2>1, <2>2, Reads
  <1> DEFINE s == <<"place", loc>>
  <1>8. s \in AllSlots /\ (c \in Cell /\ kind[c] = "object" => s # Own(c))
    <2>1. ASSUME c \in Cell, kind[c] = "object", s = Own(c)
          PROVE  FALSE
      <3>1. loc = Element(c, 1)
        BY <2>1 DEF Own
      <3>2. loc.in = c /\ loc.at = 1
        BY <3>1 DEF Element
      <3> QED BY <1>5, <2>1, <3>2, CellsAre DEF Target, Mine, Within
    <2> QED BY <1>7, <2>1, SlotsAre
  <1>9. c \notin Dying
    <2>1. c = Null => c \notin Dying
      BY <1>4, CellsAre DEF Core
    <2> QED BY <1>4, <1>7, <1>8, <2>1, Given
  <1>10. PICK a, b : a = Deletion(c) /\ b = Task("store", loc, Now(t).c)
    OBVIOUS
  <1>11. b \in TaskType /\ b.op = "store" /\ b.loc = loc /\ b.c = Now(t).c /\ Hand(b) = Hand(Now(t))
    BY <1>1, <1>2, <1>4, <1>10, NowhereIs DEF Task, TaskType, Op, Owns, Hand
  <1>12. Turning(t, a, b)
    <2>1. Then(t, Deleting(c) \o << b >>)
      BY <1>1, <1>2, <1>3, <1>10
    <2>2. Turns(t, a, b)
      BY <1>1, <1>4, <1>7, <1>10, <1>11, <2>1, TurnDeletingThen
    <2> QED BY <1>4, <1>7, <1>10, <1>11, <2>2, DeletionIs DEF Turning
  <1>13. kind' = kind /\ ran' = ran /\ lost' = lost /\ elems' = elems /\ var' = var /\ loop' = loop /\ lock' = lock
    BY <1>1 DEF state, places, rest
  <1>14. GoesOn(Now(t), b) /\ b.op \notin Deletes
    BY <1>1, <1>11 DEF GoesOn, Deletes
  <1>15. DiesWith(c) /\ Once'
    BY <1>4, <1>7, <1>9, <1>10, <1>12, <1>14, DyingAbove
  <1>16. Ref' = [Ref EXCEPT ![s] = Null]
    <2>1. Hand(a) = Null /\ a.op # "store"
      BY <1>7, <1>10, DeletionIs
    <2>2. SameHands
      <3>1. NewHand(t, N[t], Hand(b))
        BY <1>12, <2>1, HandsTurn
      <3> QED BY <1>4, <1>11, <3>1 DEF NewHand, SameHands
    <2>3. Stale' = Stale \cup {loc}
      BY <1>1, <1>11, <1>12, <2>1, StaleMore
    <2>4. Val' = [Val EXCEPT ![loc] = Null]
      BY <1>7, <1>13, <2>3, ValAt, ValsAre
    <2>5. SameLoops
      BY <1>13 DEF SameLoops
    <2> QED BY <1>7, <2>2, <2>4, <2>5, RefPlace
  <1>17. GivesUp(s, c)
    BY <1>1, <1>2, <1>3, <1>7, <1>8, <1>13, <1>15, <1>16 DEF GivesUp
  <1>18. \A d \in Dying : s # Own(d)
    <2>1. ASSUME NEW d \in Dying, s = Own(d)
          PROVE  FALSE
      <3>1. loc = Element(d, 1) /\ d \in Cell
        BY <1>4, <2>1, CellsAre DEF Own, Core
      <3>2. loc.in = d
        BY <3>1 DEF Element
      <3>3. Relies(t, N[t], d)
        BY <1>1, <1>2, <1>4, <3>2 DEF Relies, Writes
      <3> QED BY <1>4, <2>1, <3>1, <3>3, ReliedLive
    <2> QED BY <2>1
  <1> HIDE DEF s
  <1>19. /\ Core' /\ Dying \subseteq Dying' /\ ref' \in [Cell -> Int]
         /\ LastReference(c) =>
               \A op : op = (IF kind[c] = "object" THEN "bias" ELSE "elements")
                         => InPhase(op, c)'
         /\ \A d \in Dying : Untouched(d)
    BY <1>17, <1>18, GiveUp
  <1>20. TypeOK'
    BY <1>1, <1>4, <1>12, <1>19, TypeTurn
  <1>21. AllOrderly'
    <2>1. On(Now(t), b)
      BY <1>1, <1>2, <1>11 DEF On
    <2>2. Quiet
      BY <1>13 DEF Quiet
    <2> QED BY <1>7, <1>10, <1>12, <2>1, <2>2, OrderlyTurn, DeletionIs
  <1>22. Phases'
    <2>1. a.op \in Deletes => InPhase(a.op, a.c)'
      BY <1>7, <1>10, <1>19, DeletionIs
    <2> QED BY <1>4, <1>12, <1>14, <1>19, <2>1, PhasesTurn
  <1>23. Whole' /\ Empty'
    BY <1>13, <1>19, WholeKeeps, EmptyKeeps DEF IInv
  <1> QED BY <1>15, <1>19, <1>20, <1>21, <1>22, <1>23 DEF IInv

-----------------------------------------------------------------------------
(***************************************************************************)
(* The steps of a deletion.                                                *)
(***************************************************************************)
LEMMA DeletingFacts ==
    ASSUME IInv, NEW t \in Thread, todo[t] # <<>>, Now(t).op \in Deletes
    PROVE  /\ InPhase(Now(t).op, Now(t).c) /\ Now(t).c \in Dying /\ Now(t).c \in Cell
           /\ Now(t).c \in Live /\ Hand(Now(t)) = Null /\ Now(t).op # "store"
           /\ Now(t).op \in {"finalize", "release"} => ~LastReference(Now(t).c)
  <1>1. /\ N[t] \in Nat /\ Job[t][N[t]] = Now(t) /\ Now(t) \in TaskType
        /\ todo \in [Thread -> Seq(TaskType)]
    BY HeadFacts
  <1>2. InPhase(Now(t).op, Now(t).c)
    BY <1>1 DEF IInv, Phases
  <1>3. Now(t).c \in Live /\ Now(t).c \in Cell
    BY <1>2, CellsAre DEF InPhase
  <1>4. Now(t).c \in Dying
    BY <1>1, <1>3, TablesAre DEF Deleted
  <1>5. Hand(Now(t)) = Null /\ Now(t).op # "store"
    BY OpsAre, NoTaskIs DEF Hand
  <1>6. Now(t).op \in {"finalize", "release"} => ~LastReference(Now(t).c)
    BY <1>2 DEF InPhase, LastReference, Bias
  <1> QED BY <1>2, <1>3, <1>4, <1>5, <1>6

\* A step of a deletion that leaves the values in the cell.
LEMMA PhaseStep ==
    ASSUME IInv, NEW t \in Thread, todo[t] # <<>>,
           Now(t).op \in Deletes, Now(t).op # "elements", NEW c, c = Now(t).c,
           NEW next \in {"inc", "finalize", "release", "forget"},
           Then(t, << OfCell(next, c) >>), UNCHANGED <<kind, lost, elems, var, rest>>,
           ref' \in [Cell -> Int], ran' \in [Cell -> 0..2],
           \A d \in Cell \ {c} : ref'[d] = ref[d] /\ ran'[d] = ran[d],
           next = "inc" => ref'[c] = Bias,
           next \in {"finalize", "release"} => ref'[c] = Bias + 1,
           next \in {"inc", "finalize"} => ran'[c] = 0,
           next \in {"release", "forget"} => (kind[c] = "object" => ran'[c] = 1)
    PROVE  IInv'
  <1>1. /\ todo \in [Thread -> Seq(TaskType)] /\ AtHead(t) /\ N[t] \in Nat
        /\ Job[t][N[t]] = Now(t) /\ Now(t) \in TaskType
        /\ Core /\ TypeOK /\ Once /\ Phases /\ Whole /\ Empty
    BY HeadFacts DEF IInv
  <1>2. /\ InPhase(Now(t).op, c) /\ c \in Dying /\ c \in Cell /\ c \in Live
        /\ Hand(Now(t)) = Null /\ Now(t).op # "store" /\ Dying \subseteq Live /\ Live \subseteq Cell
    BY <1>1, DeletingFacts, CellsAre DEF Core
  <1>3. PICK b : b = OfCell(next, c)
    OBVIOUS
  <1>4. b \in TaskType /\ b.op = next /\ b.c = c /\ Hand(b) = Null /\ b.op \in Deletes /\ b.op # "store"
    BY <1>2, <1>3, NowhereIs DEF OfCell, Task, TaskType, Op, Deletes, Owns, Hand
  <1>5. Turning(t, NoTask, b)
    <2>1. Turns(t, NoTask, b)
      BY <1>1, <1>3, <1>4, TurnOne
    <2> QED BY <1>1, <1>4, <2>1 DEF Turning
  <1>6. kind' = kind /\ lost' = lost /\ elems' = elems /\ var' = var /\ loop' = loop /\ lock' = lock /\ left' = left
    BY DEF rest
  <1>7. Dying' = Dying /\ Once'
    <2>1. GoesOn(Now(t), b)
      BY <1>4 DEF GoesOn
    <2> QED BY <1>1, <1>5, <2>1, DyingSame, NoTaskIs
  <1>8. Ref' = Ref
    <2>1. NewHand(t, N[t], Null)
      BY <1>4, <1>5, HandsTurn, NoTaskIs
    <2>2. SameHands
      BY <1>1, <1>2, <2>1 DEF NewHand, SameHands
    <2>3. Stale' = Stale
      BY <1>2, <1>4, <1>5, StaleSame, NoTaskIs
    <2>4. Val' = Val /\ SameLoops
      BY <1>6, <2>3, ValSame DEF SameLoops
    <2> QED BY <2>2, <2>4, RefSame
  <1>9. Live' = Live
    BY <1>6 DEF Live
  <1>10. Core'
    <2>1. \A d \in Live \ Dying : Kept(d)
      BY <1>2, <1>6 DEF Kept
    <2> QED BY <1>1, <1>6, <1>7, <1>8, <1>9, <2>1, SameReferences
  <1>11. TypeOK'
    BY <1>1, <1>5, <1>6 DEF TypeOK, Turning, Turns
  <1>12. AllOrderly'
    <2>1. Gone(Now(t), b)
      BY <1>4 DEF Gone
    <2>2. Quiet
      BY <1>6 DEF Quiet
    <2> QED BY <1>5, <2>1, <2>2, OrderlyTurn, NoTaskIs
  <1>13. Phases'
    <2>1. InPhase(next, c)'
      <3>1. Own(c)' = Own(c) /\ c \in Live'
        BY <1>2, <1>9 DEF Own, Element
      <3> QED BY <1>2, <1>6, <1>8, <3>1 DEF InPhase
    <2>2. \A d \in Dying : Untouched(d) \/ (Now(t).op \in Deletes /\ d = Now(t).c)
      BY <1>2, <1>6, <1>8 DEF Untouched
    <2> QED BY <1>1, <1>4, <1>5, <2>1, <2>2, PhasesTurn, NoTaskIs
  <1>14. Whole'
    BY <1>1, <1>2, <1>7, <1>9 DEF Whole
  <1>15. Empty'
    BY <1>1, <1>2, <1>6, <1>9 DEF Empty
  <1> QED BY <1>7, <1>10, <1>11, <1>12, <1>13, <1>14, <1>15 DEF IInv

LEMMA PhaseSteps ==
    ASSUME IInv, NEW t \in Thread, SetBias(t) \/ Inc(t) \/ Finalize(t) \/ Release(t)
    PROVE  IInv'
  <1>1. TypeOK
    BY DEF IInv
  <1>2. PICK c : c = Now(t).c
    OBVIOUS
  <1>3. CASE SetBias(t)
    <2>1. /\ todo[t] # <<>> /\ Now(t).op = "bias" /\ Then(t, << OfCell("inc", c) >>)
          /\ UNCHANGED <<kind, lost, elems, var, rest>> /\ ref' = [ref EXCEPT ![c] = Bias]
          /\ ran' = ran
      BY <1>2, <1>3 DEF SetBias, Phase, Doing
    <2>2. Now(t).op \in Deletes
      BY <2>1 DEF Deletes
    <2>3. InPhase("bias", c) /\ c \in Cell
      BY <1>2, <2>1, <2>2, DeletingFacts
    <2>4. /\ ref' \in [Cell -> Int] /\ ran' \in [Cell -> 0..2]
          /\ \A d \in Cell \ {c} : ref'[d] = ref[d] /\ ran'[d] = ran[d]
          /\ ref'[c] = Bias /\ ran'[c] = 0
      BY <1>1, <2>1, <2>3 DEF TypeOK, Bias, InPhase
    <2> QED BY <1>2, <2>1, <2>2, <2>4, PhaseStep
  <1>4. CASE Inc(t)
    <2>1. /\ todo[t] # <<>> /\ Now(t).op = "inc" /\ Then(t, << OfCell("finalize", c) >>)
          /\ UNCHANGED <<kind, lost, elems, var, rest>> /\ incRef(c)
          /\ ran' = ran
      BY <1>2, <1>4 DEF Inc, Phase, Doing
    <2>2. Now(t).op \in Deletes
      BY <2>1 DEF Deletes
    <2>3. InPhase("inc", c) /\ c \in Cell
      BY <1>2, <2>1, <2>2, DeletingFacts
    <2>4. /\ ref' \in [Cell -> Int] /\ ran' \in [Cell -> 0..2]
          /\ \A d \in Cell \ {c} : ref'[d] = ref[d] /\ ran'[d] = ran[d]
          /\ ref'[c] = Bias + 1 /\ ran'[c] = 0
      BY <1>1, <2>1, <2>3, CountsType DEF TypeOK, InPhase
    <2> QED BY <1>2, <2>1, <2>2, <2>4, PhaseStep
  <1>5. CASE Finalize(t)
    <2>1. /\ todo[t] # <<>> /\ Now(t).op = "finalize" /\ Then(t, << OfCell("release", c) >>)
          /\ UNCHANGED <<kind, lost, elems, var, rest>> /\ ref' = ref
          /\ ran' = [ran EXCEPT ![c] = IF @ = 2 THEN 2 ELSE @ + 1]
      BY <1>2, <1>5 DEF Finalize, Phase, Doing
    <2>2. Now(t).op \in Deletes
      BY <2>1 DEF Deletes
    <2>3. InPhase("finalize", c) /\ c \in Cell
      BY <1>2, <2>1, <2>2, DeletingFacts
    <2>4. /\ ref' \in [Cell -> Int] /\ ran' \in [Cell -> 0..2]
          /\ \A d \in Cell \ {c} : ref'[d] = ref[d] /\ ran'[d] = ran[d]
          /\ ref'[c] = Bias + 1 /\ ran'[c] = 1
      BY <1>1, <2>1, <2>3 DEF TypeOK, InPhase
    <2> QED BY <1>2, <2>1, <2>2, <2>4, PhaseStep
  <1>6. CASE Release(t)
    <2>1. /\ todo[t] # <<>> /\ Now(t).op = "release"
          /\ Then(t, Deleting(c) \o << OfCell("forget", c) >>)
          /\ UNCHANGED <<state, places, rest>> /\ decRef(c)
      BY <1>2, <1>6 DEF Release, Doing
    <2>2. Now(t).op \in Deletes
      BY <2>1 DEF Deletes
    <2>3. InPhase("release", c) /\ c \in Cell /\ ~LastReference(c)
      BY <1>2, <2>1, <2>2, DeletingFacts
    <2>4. /\ ref' \in [Cell -> Int] /\ ran' \in [Cell -> 0..2]
          /\ \A d \in Cell \ {c} : ref'[d] = ref[d] /\ ran'[d] = ran[d]
          /\ kind[c] = "object" => ran'[c] = 1
      BY <1>1, <2>1, <2>3, CountsType DEF TypeOK, InPhase, state
    <2>5. Then(t, << OfCell("forget", c) >>)
      <3>1. OfCell("forget", c) \in TaskType
        BY <2>3, NowhereIs DEF OfCell, Task, TaskType, Op, Deletes
      <3>2. <<>> \o << OfCell("forget", c) >> = << OfCell("forget", c) >>
        BY <3>1
      <3> QED BY <2>1, <2>3, <3>2 DEF Deleting
    <2>6. UNCHANGED <<kind, lost, elems, var, rest>>
      BY <2>1 DEF state, places
    <2> QED BY <1>2, <2>1, <2>2, <2>4, <2>5, <2>6, PhaseStep
  <1> QED BY <1>3, <1>4, <1>5, <1>6

\* One value in a cell is set.
LEMMA SetElement ==
    ASSUME TypeOK, NEW c \in Cell, NEW i \in DOMAIN elems[c], NEW v \in Cell \cup {Null},
           elems' = [elems EXCEPT ![c][i] = v], var' = var
    PROVE  /\ elems' \in [Cell -> Seq(Cell \cup {Null})]
           /\ \A d \in Cell : Len(elems'[d]) <= MaxLen /\ DOMAIN elems'[d] = DOMAIN elems[d]
           /\ \A d \in Cell \ {c} : elems'[d] = elems[d]
           /\ i \in Nat /\ Element(c, i) \in Places
           /\ Stored(var', elems', Element(c, i)) = v
           /\ \A q \in Places : q # Element(c, i) =>
                 Stored(var', elems', q) = Stored(var, elems, q)
  <1> DEFINE s == elems[c]
             z == [s EXCEPT ![i] = v]
  <1>1. s \in Seq(Cell \cup {Null}) /\ Len(s) <= MaxLen /\ elems \in [Cell -> Seq(Cell \cup {Null})]
    BY DEF TypeOK
  <1>2. /\ elems' = [elems EXCEPT ![c] = z] /\ i \in 1..Len(s) /\ i \in Nat
        /\ Len(s) \in Nat /\ MaxLen \in Nat
    BY <1>1, BoundsAssumption
  <1>3. z \in Seq(Cell \cup {Null}) /\ Len(z) = Len(s) /\ DOMAIN z = DOMAIN s
    BY <1>1, <1>2
  <1>4. \A j \in DOMAIN s : z[j] = IF j = i THEN v ELSE s[j]
    BY <1>1, <1>2
  <1>5. elems'[c] = z /\ \A d \in Cell \ {c} : elems'[d] = elems[d]
    BY <1>1, <1>2
  <1>6. elems' \in [Cell -> Seq(Cell \cup {Null})]
    BY <1>1, <1>2, <1>3
  <1>7. \A d \in Cell : Len(elems'[d]) <= MaxLen /\ DOMAIN elems'[d] = DOMAIN elems[d]
    <2> HIDE DEF z
    <2> QED BY <1>1, <1>3, <1>5 DEF TypeOK
  <1>8. i \in 1..MaxLen /\ Element(c, i) \in Places /\ Element(c, i).in = c /\ Element(c, i).at = i
    <2>1. i \in 1..MaxLen
      BY <1>1, <1>2
    <2> QED BY <2>1, <1>2, PlacesAre
  <1> HIDE DEF z
  <1>9. Stored(var', elems', Element(c, i)) = v
    BY <1>3, <1>4, <1>5, <1>8, CellsAre DEF Stored
  <1>10. ASSUME NEW q \in Places, q # Element(c, i)
         PROVE  Stored(var', elems', q) = Stored(var, elems, q)
    <2>1. CASE q.in = Null
      BY <2>1 DEF Stored
    <2>2. CASE q.in = c
      <3>1. q.at # i /\ c # Null
        BY <1>10, <2>2, PlaceIs, CellsAre
      <3> QED BY <2>2, <3>1, <1>3, <1>4, <1>5 DEF Stored
    <2>3. CASE q.in # Null /\ q.in # c
      <3>1. q.in \in Cell \ {c}
        BY <2>3, PlaceIs
      <3> QED BY <1>5, <3>1 DEF Stored
    <2> QED BY <2>1, <2>2, <2>3
  <1> QED BY <1>2, <1>5, <1>6, <1>7, <1>8, <1>9, <1>10

LEMMA OwnIs ==
    ASSUME IInv, NEW c \in Cell, Ref[Own(c)] # Null
    PROVE  /\ Element(c, 1) \in Places /\ Element(c, 1) \notin Stale
           /\ 1 \in DOMAIN elems[c] /\ Ref[Own(c)] = elems[c][1]
  <1>1. 1 \in 1..MaxLen /\ 1 \in Nat
    BY BoundsAssumption
  <1>2. /\ Element(c, 1) \in Places /\ Element(c, 1).in = c /\ Element(c, 1).at = 1
    BY <1>1, PlacesAre
  <1>3. Ref[Own(c)] = Val[Element(c, 1)]
    BY <1>2, RefsAre DEF Own
  <1> QED BY <1>2, <1>3, ValsAre, CellsAre DEF Stored

LEMMA ForgetStep ==
    ASSUME IInv, NEW t \in Thread, Forget(t)
    PROVE  IInv'
  <1>1. PICK c : c = Now(t).c
    OBVIOUS
  <1>2. /\ todo[t] # <<>> /\ Now(t).op = "forget" /\ Now(t).op \in Deletes
        /\ Then(t, << OfCell("elements", c) >>)
        /\ UNCHANGED <<kind, lost, var, rest>> /\ ref' = ref /\ ran' = ran
        /\ elems' = [elems EXCEPT ![c][1] = Null]
    BY <1>1 DEF Forget, Phase, Doing, Deletes
  <1>3. /\ todo \in [Thread -> Seq(TaskType)] /\ AtHead(t) /\ N[t] \in Nat
        /\ Job[t][N[t]] = Now(t) /\ Now(t) \in TaskType
        /\ Core /\ TypeOK /\ Once /\ Phases /\ Whole /\ Empty
    BY <1>2, HeadFacts DEF IInv
  <1>4. /\ InPhase("forget", c) /\ c \in Dying /\ c \in Cell /\ c \in Live
        /\ Hand(Now(t)) = Null /\ Now(t).op # "store" /\ Dying \subseteq Live /\ Live \subseteq Cell
    BY <1>1, <1>2, <1>3, DeletingFacts, CellsAre DEF Core
  <1>5. Ref[Own(c)] = c /\ c # Null
    BY <1>4, CellsAre DEF InPhase
  <1>6. /\ Element(c, 1) \in Places /\ Element(c, 1) \notin Stale /\ 1 \in DOMAIN elems[c]
    BY <1>4, <1>5, OwnIs
  <1>7. PICK b : b = OfCell("elements", c)
    OBVIOUS
  <1>8. /\ b \in TaskType /\ b.op = "elements" /\ b.c = c /\ Hand(b) = Null /\ b.op \in Deletes
        /\ b.op # "store"
    BY <1>4, <1>7, NowhereIs DEF OfCell, Task, TaskType, Op, Deletes, Owns, Hand
  <1>9. Turning(t, NoTask, b)
    <2>1. Turns(t, NoTask, b)
      BY <1>2, <1>3, <1>7, <1>8, TurnOne
    <2> QED BY <1>3, <1>8, <2>1 DEF Turning
  <1>10. kind' = kind /\ lost' = lost /\ var' = var /\ loop' = loop /\ lock' = lock /\ left' = left
    BY <1>2 DEF rest
  <1>11. Dying' = Dying /\ Once'
    <2>1. GoesOn(Now(t), b)
      BY <1>1, <1>2, <1>8 DEF GoesOn
    <2> QED BY <1>3, <1>9, <2>1, DyingSame, NoTaskIs
  <1>12. /\ elems' \in [Cell -> Seq(Cell \cup {Null})]
         /\ \A d \in Cell : Len(elems'[d]) <= MaxLen /\ DOMAIN elems'[d] = DOMAIN elems[d]
         /\ \A d \in Cell \ {c} : elems'[d] = elems[d]
         /\ Stored(var', elems', Element(c, 1)) = Null
         /\ \A q \in Places : q # Element(c, 1) => Stored(var', elems', q) = Stored(var, elems, q)
    BY <1>2, <1>3, <1>4, <1>6, <1>10, SetElement, ZenonT(60)
  <1>13. Ref' = [Ref EXCEPT ![Own(c)] = Null]
    <2>1. SameHands
      <3>1. NewHand(t, N[t], Null)
        BY <1>8, <1>9, HandsTurn, NoTaskIs
      <3> QED BY <1>3, <1>4, <3>1 DEF NewHand, SameHands
    <2>2. Stale' = Stale
      BY <1>4, <1>8, <1>9, StaleSame, NoTaskIs
    <2>3. Val' = [Val EXCEPT ![Element(c, 1)] = Null]
      BY <1>6, <1>12, <2>2, ValAt, ValsAre
    <2>4. SameLoops
      BY <1>10 DEF SameLoops
    <2> QED BY <1>6, <2>1, <2>3, <2>4, RefPlace DEF Own
  <1>14. Core'
    BY <1>2, <1>3, <1>4, <1>5, <1>10, <1>11, <1>13, Forgotten
  <1>15. TypeOK'
    BY <1>2, <1>3, <1>9, <1>10, <1>12 DEF TypeOK, Turning, Turns
  <1>16. AllOrderly'
    <2>1. Gone(Now(t), b)
      BY <1>2, <1>8 DEF Gone
    <2>2. Quiet
      BY <1>4, <1>10, <1>12 DEF Quiet
    <2> QED BY <1>9, <2>1, <2>2, OrderlyTurn, NoTaskIs
  <1>17. Live' = Live
    BY <1>10 DEF Live
  <1>18. Phases'
    <2>1. InPhase("elements", c)'
      <3>1. /\ Own(c)' = Own(c) /\ c \in Live' /\ Own(c) \in AllSlots
        BY <1>4, <1>17, OwnSlot DEF Own, Element
      <3>2. Ref'[Own(c)] # c
        BY <1>3, <1>5, <1>13, <3>1 DEF Core
      <3> QED BY <1>2, <1>4, <1>10, <3>1, <3>2 DEF InPhase
    <2>2. ASSUME NEW d \in Dying, d # c
          PROVE  Untouched(d)
      <3>1. d \in Cell /\ Own(d) \in AllSlots /\ Own(d) # Own(c)
        BY <1>4, <2>2, OwnSlot
      <3> QED BY <1>2, <1>3, <1>10, <1>13, <3>1 DEF Untouched, Core
    <2> QED BY <1>1, <1>2, <1>3, <1>8, <1>9, <2>1, <2>2, PhasesTurn, NoTaskIs
  <1>19. Whole'
    BY <1>2, <1>3, <1>11, <1>17 DEF Whole
  <1>20. Empty'
    BY <1>2, <1>3, <1>4, <1>12, <1>17 DEF Empty
  <1> QED BY <1>11, <1>14, <1>15, <1>16, <1>18, <1>19, <1>20 DEF IInv

\* No thread overwrites a value in a cell that is being deleted.
LEMMA NotOverwritten ==
    ASSUME IInv, NEW c \in Dying, NEW i, NEW p, p = Element(c, i), c \in Cell
    PROVE  p \notin Stale
  <1> SUFFICES ASSUME p \in Stale
               PROVE  FALSE
    OBVIOUS
  <1>1. PICK u \in Thread, k \in Nat : Job[u][k].op = "store" /\ Job[u][k].loc = p
    BY OverwrittenBy DEF IInv, TypeOK
  <1>2. p.in = c
    BY DEF Element
  <1>3. Relies(u, k, c)
    BY <1>1, <1>2 DEF Relies, Writes
  <1> QED BY <1>3, ReliedLive

LEMMA ElementsStep ==
    ASSUME IInv, NEW t \in Thread, Elements(t)
    PROVE  IInv'
  <1>1. PICK c : c = Now(t).c
    OBVIOUS
  <1>2. /\ todo[t] # <<>> /\ Now(t).op = "elements" /\ Now(t).op \in Deletes
        /\ UNCHANGED <<state, var, rest>>
    BY DEF Elements, Doing, Deletes
  <1>3. PICK i \in DOMAIN elems[c] :
           /\ elems[c][i] # Null
           /\ elems' = [elems EXCEPT ![c][i] = Null]
           /\ decRef(elems[c][i])
           /\ Then(t, Deleting(elems[c][i]) \o << Now(t) >>)
    BY <1>1 DEF Elements
  <1>4. PICK v : v = elems[c][i]
    OBVIOUS
  <1>5. /\ todo \in [Thread -> Seq(TaskType)] /\ AtHead(t) /\ N[t] \in Nat
        /\ Job[t][N[t]] = Now(t) /\ Now(t) \in TaskType
        /\ Core /\ TypeOK /\ Once /\ Phases /\ Whole /\ Empty
    BY <1>2, HeadFacts DEF IInv
  <1>6. /\ InPhase("elements", c) /\ c \in Dying /\ c \in Cell /\ c \in Live
        /\ Hand(Now(t)) = Null /\ Now(t).op # "store" /\ Dying \subseteq Live /\ Live \subseteq Cell
    BY <1>1, <1>2, <1>5, DeletingFacts, CellsAre DEF Core
  <1>7. kind' = kind /\ ran' = ran /\ lost' = lost /\ var' = var /\ loop' = loop /\ lock' = lock /\ left' = left
    BY <1>2 DEF state, rest
  <1>8. PICK p : p = Element(c, i)
    OBVIOUS
  <1>9. /\ elems' \in [Cell -> Seq(Cell \cup {Null})]
        /\ \A d \in Cell : Len(elems'[d]) <= MaxLen /\ DOMAIN elems'[d] = DOMAIN elems[d]
        /\ \A d \in Cell \ {c} : elems'[d] = elems[d]
        /\ i \in Nat /\ p \in Places
        /\ Stored(var', elems', p) = Null
        /\ \A q \in Places : q # p => Stored(var', elems', q) = Stored(var, elems, q)
    <2>1. /\ elems' \in [Cell -> Seq(Cell \cup {Null})]
          /\ \A d \in Cell : Len(elems'[d]) <= MaxLen /\ DOMAIN elems'[d] = DOMAIN elems[d]
          /\ \A d \in Cell \ {c} : elems'[d] = elems[d]
          /\ i \in Nat /\ Element(c, i) \in Places
          /\ Stored(var', elems', Element(c, i)) = Null
          /\ \A q \in Places : q # Element(c, i) =>
                Stored(var', elems', q) = Stored(var, elems, q)
      <3>1. elems' = [elems EXCEPT ![c][i] = Null] /\ var' = var /\ TypeOK
        BY <1>3, <1>5, <1>7
      <3>2. c \in Cell /\ i \in DOMAIN elems[c] /\ Null \in Cell \cup {Null}
        BY <1>3, <1>6
      <3> QED BY <3>1, <3>2, SetElement
    <2> QED BY <1>8, <2>1
  <1>10. p.in = c /\ p.at = i /\ p \notin Stale
    BY <1>6, <1>8, NotOverwritten DEF Element
  <1> DEFINE s == <<"place", p>>
  <1>11. s \in AllSlots /\ Ref[s] = v /\ v \in Cell
    <2>1. Stored(var, elems, p) = v
      BY <1>3, <1>4, <1>6, <1>10, CellsAre DEF Stored
    <2>2. v \in Cell \cup {Null} /\ v # Null
      <3>1. elems[c] \in Seq(Cell \cup {Null})
        BY <1>5, <1>6 DEF TypeOK
      <3> QED BY <1>3, <1>4, <3>1
    <2> QED BY <1>9, <1>10, <2>1, <2>2, SlotsAre, RefsAre, ValsAre
  <1>12. \A d \in Cell : s = Own(d) => d = c
    BY <1>10 DEF Own, Element
  <1>13. s # Own(v)
    BY <1>6, <1>11, <1>12 DEF InPhase
  <1>14. v \notin Dying
    BY <1>5, <1>11, <1>13, Given
  <1>15. PICK a, b : a = Deletion(v) /\ b = Now(t)
    OBVIOUS
  <1>16. Turning(t, a, b)
    <2>1. Then(t, Deleting(v) \o << b >>)
      BY <1>3, <1>4, <1>15
    <2>2. Turns(t, a, b)
      BY <1>2, <1>5, <1>11, <1>15, <2>1, TurnDeletingThen
    <2> QED BY <1>5, <1>11, <1>15, <2>2, DeletionIs DEF Turning
  <1>17. DiesWith(v) /\ Once'
    BY <1>5, <1>11, <1>14, <1>15, <1>16, DyingAbove DEF GoesOn
  <1>18. Ref' = [Ref EXCEPT ![s] = Null]
    <2>1. Hand(a) = Null /\ a.op # "store"
      BY <1>11, <1>15, DeletionIs
    <2>2. SameHands
      <3>1. NewHand(t, N[t], Hand(b))
        BY <1>16, <2>1, HandsTurn
      <3> QED BY <1>5, <1>15, <3>1 DEF NewHand, SameHands
    <2>3. Stale' = Stale
      BY <1>6, <1>15, <1>16, <2>1, StaleSame
    <2>4. Val' = [Val EXCEPT ![p] = Null]
      BY <1>9, <2>3, ValAt, ValsAre
    <2>5. SameLoops
      BY <1>7 DEF SameLoops
    <2> QED BY <1>9, <2>2, <2>4, <2>5, RefPlace
  <1>19. GivesUp(s, v)
    BY <1>3, <1>4, <1>7, <1>11, <1>13, <1>17, <1>18 DEF GivesUp
  <1> HIDE DEF s
  <1>20. /\ Core' /\ Dying \subseteq Dying' /\ ref' \in [Cell -> Int]
         /\ LastReference(v) =>
               \A op : op = (IF kind[v] = "object" THEN "bias" ELSE "elements")
                         => InPhase(op, v)'
         /\ \A d \in Dying : s # Own(d) => Untouched(d)
    BY <1>19, GiveUp
  <1>21. TypeOK'
    BY <1>5, <1>7, <1>9, <1>16, <1>20 DEF TypeOK, Turning, Turns
  <1>22. AllOrderly'
    <2>1. Quiet
      BY <1>6, <1>7, <1>9 DEF Quiet
    <2> QED BY <1>11, <1>15, <1>16, <2>1, OrderlyTurn, DeletionIs
  <1>23. Phases'
    <2>1. a.op \in Deletes => InPhase(a.op, a.c)'
      BY <1>11, <1>15, <1>20, DeletionIs
    <2>2. InPhase("elements", c)'
      <3>1. Own(c)' = Own(c) /\ c \in Live' /\ Own(c) \in AllSlots
        BY <1>6, <1>7, OwnSlot DEF Own, Element, Live
      <3>2. Ref'[Own(c)] # c
        BY <1>5, <1>6, <1>11, <1>18, <3>1, CellsAre DEF Core, InPhase
      <3> QED BY <1>6, <1>7, <3>1, <3>2 DEF InPhase
    <2>3. \A d \in Dying : Untouched(d) \/ (Now(t).op \in Deletes /\ d = Now(t).c)
      BY <1>1, <1>2, <1>6, <1>12, <1>20
    <2> QED BY <1>1, <1>2, <1>5, <1>15, <1>16, <2>1, <2>2, <2>3, PhasesTurn
  <1>24. Whole'
    BY <1>5, <1>7, <1>20, WholeKeeps
  <1>25. Empty'
    BY <1>5, <1>6, <1>7, <1>9 DEF Empty, Live
  <1> QED BY <1>17, <1>20, <1>21, <1>22, <1>23, <1>24, <1>25 DEF IInv

\* A function of which one value is set.
LEMMA SetOne ==
    ASSUME NEW S, NEW T, NEW f \in [S -> T], NEW c, NEW v \in T, NEW g, g = [f EXCEPT ![c] = v]
    PROVE  g \in [S -> T]
  OBVIOUS

LEMMA FreeStep ==
    ASSUME IInv, NEW t \in Thread, Free(t)
    PROVE  IInv'
  <1>1. PICK c : c = Now(t).c
    OBVIOUS
  <1>2. /\ todo[t] # <<>> /\ Now(t).op = "elements" /\ Now(t).op \in Deletes
        /\ \A i \in DOMAIN elems[c] : elems[c][i] = Null
        /\ kind' = [kind EXCEPT ![c] = "free"] /\ ref' = [ref EXCEPT ![c] = 0]
        /\ elems' = [elems EXCEPT ![c] = <<>>] /\ ran' = [ran EXCEPT ![c] = 0]
        /\ lost' = [lost EXCEPT ![c] = FALSE]
        /\ Then(t, <<>>) /\ UNCHANGED <<var, rest>>
    BY <1>1 DEF Free, Doing, Deletes
  <1>3. /\ todo \in [Thread -> Seq(TaskType)] /\ AtHead(t) /\ N[t] \in Nat
        /\ Job[t][N[t]] = Now(t) /\ Now(t) \in TaskType
        /\ Core /\ TypeOK /\ Once /\ Phases /\ Whole /\ Empty
    BY <1>2, HeadFacts DEF IInv
  <1>4. /\ InPhase("elements", c) /\ c \in Dying /\ c \in Cell /\ c \in Live
        /\ Hand(Now(t)) = Null /\ Now(t).op # "store" /\ Dying \subseteq Live /\ Live \subseteq Cell
    BY <1>1, <1>2, <1>3, DeletingFacts, CellsAre DEF Core
  <1>5. Turning(t, NoTask, NoTask)
    <2>1. Turns(t, NoTask, NoTask)
      BY <1>2, <1>3, TurnNone
    <2> QED BY <1>3, <2>1 DEF Turning
  <1>6. var' = var /\ loop' = loop /\ lock' = lock /\ left' = left
    BY <1>2 DEF rest
  <1>7. Dying' = Dying \ {c} /\ Once'
    BY <1>1, <1>2, <1>3, <1>5, DyingLess, NoTaskIs
  <1>8. /\ \A d \in Cell \ {c} : /\ kind'[d] = kind[d] /\ ref'[d] = ref[d] /\ ran'[d] = ran[d]
                                 /\ lost'[d] = lost[d] /\ elems'[d] = elems[d]
        /\ kind'[c] = "free" /\ ran'[c] = 0 /\ elems'[c] = <<>>
    BY <1>2, <1>3, <1>4 DEF TypeOK
  <1>9. Live' = Live \ {c}
    BY <1>4, <1>8 DEF Live
  <1>10. Ref' = Ref
    <2>1. SameHands
      <3>1. NewHand(t, N[t], Null)
        BY <1>5, HandsTurn, NoTaskIs
      <3> QED BY <1>3, <1>4, <3>1 DEF NewHand, SameHands
    <2>2. Stale' = Stale
      BY <1>4, <1>5, StaleSame, NoTaskIs
    <2>3. \A q \in Places : Stored(var', elems', q) = Stored(var, elems, q)
      <3>1. ASSUME NEW q \in Places
            PROVE  Stored(var', elems', q) = Stored(var, elems, q)
        <4>1. CASE q.in = Null
          BY <4>1, <1>6 DEF Stored
        <4>2. CASE q.in = c
          <5>1. q.at \notin DOMAIN elems'[c] /\ c # Null
            BY <1>4, <1>8, CellsAre
          <5>2. Stored(var, elems, q) = Null
            BY <1>2, <4>2, <5>1 DEF Stored
          <5> QED BY <4>2, <5>1, <5>2 DEF Stored
        <4>3. CASE q.in # Null /\ q.in # c
          <5>1. q.in \in Cell \ {c}
            BY <4>3, PlaceIs
          <5> QED BY <1>8, <4>3, <5>1 DEF Stored
        <4> QED BY <4>1, <4>2, <4>3
      <3> QED BY <3>1
    <2>4. Val' = Val
      BY <2>2, <2>3, ValsAre
    <2>5. SameLoops
      BY <1>6 DEF SameLoops
    <2> QED BY <2>1, <2>4, <2>5, RefSame
  <1>11. Core'
    <2>1. \A s \in AllSlots : Ref[s] # c
      BY <1>3, <1>4, CellsAre DEF Core, InPhase
    <2>2. \A d \in Cell \ {c} : Kept(d)
      BY <1>8 DEF Kept
    <2>3. ref' \in [Cell -> Int]
      <3>1. ref \in [Cell -> Int] /\ 0 \in Int
        BY <1>3 DEF TypeOK
      <3>2. ref' = [ref EXCEPT ![c] = 0]
        BY <1>2
      <3> QED BY <3>1, <3>2, SetOne
    <2> QED BY <1>3, <1>4, <1>7, <1>9, <1>10, <2>1, <2>2, <2>3, FreedOne
  <1>12. TypeOK'
    <2>1. elems' \in [Cell -> Seq(Cell \cup {Null})] /\ \A d \in Cell : Len(elems'[d]) <= MaxLen
      <3>1. <<>> \in Seq(Cell \cup {Null}) /\ Len(<<>>) = 0 /\ 0 <= MaxLen
        BY BoundsAssumption
      <3> QED BY <1>2, <1>3, <1>8, <3>1 DEF TypeOK
    <2>2. ref' \in [Cell -> Int]
      <3>1. ref \in [Cell -> Int] /\ 0 \in Int
        BY <1>3 DEF TypeOK
      <3>2. ref' = [ref EXCEPT ![c] = 0]
        BY <1>2
      <3> QED BY <3>1, <3>2, SetOne
    <2>3. kind' \in [Cell -> {"free", "vector", "object"}]
      <3>1. kind \in [Cell -> {"free", "vector", "object"}]
        BY <1>3 DEF TypeOK
      <3> QED BY <1>2, <3>1
    <2>4. ran' \in [Cell -> 0..2] /\ lost' \in [Cell -> BOOLEAN]
      <3>1. ran \in [Cell -> 0..2] /\ lost \in [Cell -> BOOLEAN] /\ 0 \in 0..2 /\ FALSE \in BOOLEAN
        BY <1>3 DEF TypeOK
      <3>2. ran' = [ran EXCEPT ![c] = 0] /\ lost' = [lost EXCEPT ![c] = FALSE]
        BY <1>2
      <3>3. ran' \in [Cell -> 0..2]
        BY <3>1, <3>2, SetOne
      <3>4. lost' \in [Cell -> BOOLEAN]
        BY <3>1, <3>2, SetOne
      <3> QED BY <3>3, <3>4
    <2>5. todo' \in [Thread -> Seq(TaskType)]
      BY <1>5 DEF Turning, Turns
    <2> QED BY <1>3, <1>6, <2>1, <2>2, <2>3, <2>4, <2>5 DEF TypeOK
  <1>13. AllOrderly'
    <2>1. Gone(Now(t), NoTask)
      BY <1>2, NoTaskIs DEF Gone
    <2>2. Quiet
      BY <1>4, <1>6, <1>8 DEF Quiet
    <2> QED BY <1>5, <2>1, <2>2, OrderlyTurn, NoTaskIs
  <1>14. Phases'
    <2>1. \A d \in Dying : Untouched(d) \/ (Now(t).op \in Deletes /\ d = Now(t).c)
      BY <1>1, <1>2, <1>4, <1>8, <1>10 DEF Untouched
    <2> QED BY <1>3, <1>5, <2>1, PhasesTurn, NoTaskIs
  <1>15. Whole'
    BY <1>3, <1>4, <1>7, <1>8, <1>9 DEF Whole
  <1>16. Empty'
    BY <1>3, <1>4, <1>8, <1>9 DEF Empty
  <1> QED BY <1>7, <1>11, <1>12, <1>13, <1>14, <1>15, <1>16 DEF IInv

-----------------------------------------------------------------------------
(***************************************************************************)
(* The steps that finish something, and do what only the thread that has   *)
(* the place, or the lock, may do.                                         *)
(***************************************************************************)
\* Tasks that need nothing are in order.
LEMMA Plain ==
    ASSUME NEW t \in Thread, Locked(t)',
           \A k \in Nat : Job'[t][k].op \in Deletes \cup {"none", "unlock", "dec"}
    PROVE  Orderly(t)'
  <1>1. \A k \in Nat : Job'[t][k].op \notin Writes \cup {"copy", "pop", "construct", "take", "drop", "store"}
    BY OpsAre DEF Writes, Deletes
  <1>2. ASSUME NEW k \in Nat
        PROVE  TaskOK(t, k)'
    BY <1>1, <1>2 DEF TaskOK, WriteOK, CopyOK, PopOK, ConstructOK, TakeOK, DropOK
  <1>3. StoreNext(t)'
    BY <1>1 DEF StoreNext
  <1> QED BY <1>2, <1>3 DEF Orderly

\* What comes after a thread's last task but the unlocking.
LEMMA OnlyUnlocks ==
    ASSUME IInv, NEW t \in Thread, NEW b, Turning(t, NoTask, b), OnlyUnlock(t, N[t]),
           b.op \in Deletes \cup {"none"}, lock' = lock, Now(t).op # "unlock"
    PROVE  Orderly(t)'
  <1>1. /\ N[t] \in Nat \ {0} /\ Job[t][N[t]] = Now(t) /\ Locked(t) /\ JobsOf(t)
        /\ \A k \in Nat : k > N[t] => Job[t][k] = NoTask
        /\ \A k \in Nat : Job'[t][k] = IF k = N[t] THEN b ELSE IF k = N[t] + 1 THEN NoTask ELSE Job[t][k]
    BY JobTable DEF Turning, Turns, AtHead, IInv, AllOrderly, Orderly
  <1>2. b.op # "unlock" /\ NoTask.op = "none" /\ "unlock" \notin Deletes
    BY OpsAre, NoTaskIs
  <1>3. ASSUME NEW k \in Nat
        PROVE  Job'[t][k].op \in Deletes \cup {"none", "unlock", "dec"}
    <2>1. CASE k \in 1..(N[t] - 1)
      <3>1. Job[t][k].op = "unlock" /\ k # N[t] /\ k # N[t] + 1
        BY <1>1, <2>1 DEF OnlyUnlock
      <3> QED BY <1>1, <3>1
    <2>2. CASE k = N[t]
      BY <1>1, <2>2
    <2>3. CASE k = 0
      <3>1. Job[t][k] = NoTask /\ k # N[t] /\ k # N[t] + 1
        BY <1>1, <2>3 DEF JobsOf
      <3> QED BY <1>1, <1>2, <3>1
    <2>4. CASE k > N[t]
      BY <1>1, <1>2, <2>4
    <2> QED BY <1>1, <2>1, <2>2, <2>3, <2>4
  <1>4. Locked(t)'
    <2>1. lock = t => Job'[t][1].op = "unlock"
      BY <1>1 DEF Locked
    <2>2. ASSUME NEW k \in Nat, Job'[t][k].op = "unlock"
          PROVE  k = 1 /\ lock = t
      <3>1. Job[t][k].op = "unlock"
        BY <1>1, <1>2, <2>2
      <3> QED BY <1>1, <3>1 DEF Locked
    <2> QED BY <2>1, <2>2 DEF Locked
  <1> QED BY <1>3, <1>4, Plain

LEMMA UnlockStep ==
    ASSUME IInv, NEW t \in Thread, Unlock(t)
    PROVE  IInv'
  <1>1. /\ todo[t] # <<>> /\ Now(t).op = "unlock" /\ lock' = NoThread /\ Then(t, <<>>)
        /\ UNCHANGED <<heap, var, loop, left>>
    BY DEF Unlock, Doing
  <1>2. /\ todo \in [Thread -> Seq(TaskType)] /\ AtHead(t) /\ N[t] \in Nat
        /\ Job[t][N[t]] = Now(t) /\ Core /\ TypeOK /\ Once /\ Phases /\ Locked(t) /\ JobsOf(t)
    BY <1>1, HeadFacts, JobTable DEF IInv
  <1>3. N[t] = 1 /\ lock = t
    BY <1>1, <1>2 DEF Locked
  <1>4. Turning(t, NoTask, NoTask)
    <2>1. Turns(t, NoTask, NoTask)
      BY <1>1, <1>2, TurnNone
    <2> QED BY <1>2, <2>1 DEF Turning
  <1>5. /\ kind' = kind /\ ran' = ran /\ lost' = lost /\ elems' = elems /\ var' = var
        /\ loop' = loop /\ ref' = ref /\ left' = left
    BY <1>1 DEF heap, state
  <1>6. Now(t).op \notin Deletes /\ Now(t).op # "store" /\ Hand(Now(t)) = Null
    BY <1>1, OpsAre DEF Hand
  <1>7. Dying' = Dying /\ Once'
    <2>1. GoesOn(Now(t), NoTask)
      BY <1>6, NoTaskIs DEF GoesOn
    <2> QED BY <1>2, <1>4, <2>1, DyingSame, NoTaskIs
  <1>8. Ref' = Ref
    <2>1. NewHand(t, N[t], Null)
      BY <1>4, HandsTurn, NoTaskIs
    <2>2. SameHands
      BY <1>2, <1>6, <2>1 DEF NewHand, SameHands
    <2>3. Stale' = Stale
      BY <1>4, <1>6, StaleSame, NoTaskIs
    <2>4. Val' = Val /\ SameLoops
      BY <1>5, <2>3, ValSame DEF SameLoops
    <2> QED BY <2>2, <2>4, RefSame
  <1>9. Live' = Live
    BY <1>5 DEF Live
  <1>10. Core'
    <2>1. ref' \in [Cell -> Int]
      BY <1>2, <1>5 DEF TypeOK
    <2> QED BY <1>2, <1>5, <1>7, <1>8, <1>9, <2>1, SameReferences DEF Kept
  <1>11. TypeOK'
    <2>1. todo' \in [Thread -> Seq(TaskType)]
      BY <1>4 DEF Turning, Turns
    <2> QED BY <1>1, <1>2, <1>5, <2>1 DEF TypeOK
  <1>12. AllOrderly'
    <2>1. \A k \in Nat : Job'[t][k] = NoTask
      <3>1. ASSUME NEW k \in Nat
            PROVE  Job'[t][k] = NoTask
        <4>1. Job'[t][k] = IF k = 1 THEN NoTask ELSE IF k = 2 THEN NoTask ELSE Job[t][k]
          BY <1>3, <1>4 DEF Turning, Turns
        <4>2. k # 1 => Job[t][k] = NoTask
          BY <1>2, <1>3 DEF JobsOf
        <4> QED BY <4>1, <4>2
      <3> QED BY <3>1
    <2>2. lock' # t /\ \A u \in Thread : lock' # u
      BY <1>1, VariablesAssumption DEF Var
    <2>3. Locked(t)'
      BY <2>1, <2>2, NoTaskIs DEF Locked
    <2>4. Orderly(t)'
      BY <2>1, <2>3, NoTaskIs, Plain
    <2>5. Around(t)
      <3>1. \A u \in Thread \ {t}, k \in Nat : Job'[u][k] = Job[u][k]
        BY <1>4 DEF Turning, Turns
      <3> QED BY <1>3, <1>5, <2>2, <3>1 DEF Around
    <2> QED BY <2>4, <2>5, OrderlyStep
  <1>13. Phases'
    <2>1. \A d \in Dying : Untouched(d)
      BY <1>5, <1>8 DEF Untouched
    <2> QED BY <1>2, <1>4, <2>1, PhasesTurn, NoTaskIs
  <1>14. Whole' /\ Empty'
    BY <1>5, <1>7, WholeKeeps, EmptyKeeps DEF IInv
  <1> QED BY <1>7, <1>10, <1>11, <1>12, <1>13, <1>14 DEF IInv

\* Three slots that refer to a cell are counted.
LEMMA AtLeast ==
    ASSUME NEW c, IsFiniteSet(At(c)), NEW s \in At(c), NEW z \in At(c), s # z
    PROVE  /\ Cardinality(At(c)) \in Nat /\ Cardinality(At(c)) >= 2
           /\ \A p \in At(c) : p # s /\ p # z => Cardinality(At(c)) >= 3
  <1>1. /\ IsFiniteSet(At(c) \ {s}) /\ IsFiniteSet((At(c) \ {s}) \ {z})
        /\ Cardinality(At(c)) \in Nat /\ Cardinality((At(c) \ {s}) \ {z}) \in Nat
        /\ Cardinality(At(c) \ {s}) = Cardinality(At(c)) - 1
        /\ Cardinality((At(c) \ {s}) \ {z}) = Cardinality(At(c) \ {s}) - 1
    BY FS_RemoveElement, FS_CardinalityType
  <1>2. ASSUME NEW p \in At(c), p # s, p # z
        PROVE  Cardinality(At(c)) >= 3
    <2>1. p \in (At(c) \ {s}) \ {z}
      BY <1>2
    <2>2. Cardinality((At(c) \ {s}) \ {z}) # 0
      BY <1>1, <2>1, FS_EmptySet
    <2> QED BY <1>1, <2>2
  <1> QED BY <1>1, <1>2

LEMMA DropStep ==
    ASSUME IInv, NEW t \in Thread, Drop(t)
    PROVE  IInv'
  <1>1. PICK c : c = Now(t).c
    OBVIOUS
  <1>2. /\ todo[t] # <<>> /\ Now(t).op = "drop" /\ decRef(c) /\ Then(t, <<>>)
        /\ UNCHANGED <<state, places, rest>>
    BY <1>1 DEF Drop, Doing
  <1>3. /\ todo \in [Thread -> Seq(TaskType)] /\ AtHead(t) /\ N[t] \in Nat /\ TaskOK(t, N[t])
        /\ Job[t][N[t]] = Now(t) /\ Now(t) \in TaskType /\ Core /\ TypeOK /\ Once /\ Phases
    BY <1>2, HeadFacts DEF IInv
  <1>4. c \in Cell /\ kind[c] = "object" /\ OnlyUnlock(t, N[t])
    BY <1>1, <1>2, <1>3 DEF TaskOK, DropOK
  <1>5. lost[c] \/ HeldBy(t, c)
    <2>1. \A i \in Nat : i > N[t] => Job[t][i].op = "none"
      BY <1>3, NoTaskIs DEF AtHead
    <2> QED BY <1>1, <1>2, <1>3, <2>1 DEF TaskOK, DropOK
  <1>6. Now(t).op \notin Deletes /\ Now(t).op # "store" /\ Now(t).op \in Owns
    BY <1>2, OpsAre
  <1> DEFINE s == <<"task", <<t, N[t]>>>>
  <1>7. s \in AllSlots /\ Ref[s] = c /\ c \in Live \ Dying /\ s # Own(c)
    <2>1. Ref[s] = c /\ c \in Live \ Dying
      <3>1. Job[t][N[t]].op \in Owns /\ Job[t][N[t]].c = c /\ c # Null
        BY <1>1, <1>3, <1>4, <1>6, CellsAre
      <3> QED BY <1>3, <3>1, HandLive
    <2> QED BY <1>3, <2>1, SlotsAre, NotOwn
  <1>8. Counted(c)
    BY <1>3, <1>7 DEF Core
  <1>9. ref[c] >= 2 /\ (ref[c] >= 3 \/ lost[c])
    <2>1. Own(c) \in At(c) /\ s \in At(c)
      BY <1>4, <1>7, <1>8, OwnSlot DEF Counted, At, Where
    <2>2. ASSUME ~lost[c]
          PROVE  \E p \in At(c) : p # s /\ p # Own(c)
      <3>1. PICK x \in Shared \cup {t} : Owned(t, x) /\ var[x] = c
        BY <1>5, <2>2 DEF HeldBy
      <3>2. PICK loc : loc = Variable(x)
        OBVIOUS
      <3>3. x \in Var /\ loc \in Location /\ loc.in = Null /\ loc.at = x
        BY <3>2, PlacesAre DEF Var
      <3>4. Mine(t, loc) /\ Now(t).op \notin Deletes \cup {"store"}
        BY <1>6, <3>1, <3>3 DEF Mine
      <3>5. loc \in Places /\ Ref[<<"place", loc>>] = read(loc)
        BY <1>2, <3>3, <3>4, Reads
      <3>6. read(loc) = c
        BY <3>1, <3>3 DEF read
      <3>7. <<"place", loc>> # Own(c)
        <4>1. loc # Element(c, 1)
          BY <1>4, <3>3, CellsAre DEF Element
        <4> QED BY <4>1 DEF Own
      <3>8. <<"place", loc>> # s /\ <<"place", loc>> \in At(c)
        BY <3>5, <3>6, SlotsAre DEF At, Where
      <3> QED BY <3>7, <3>8
    <2>3. s # Own(c) /\ IsFiniteSet(At(c)) /\ ref[c] = Cardinality(At(c))
      BY <1>7, <1>8 DEF Counted
    <2> HIDE DEF s
    <2> QED BY <2>1, <2>2, <2>3, AtLeast
  <1>10. Turning(t, NoTask, NoTask)
    <2>1. Turns(t, NoTask, NoTask)
      BY <1>2, <1>3, TurnNone
    <2> QED BY <1>3, <2>1 DEF Turning
  <1>11. kind' = kind /\ ran' = ran /\ lost' = lost /\ elems' = elems /\ var' = var /\ loop' = loop /\ lock' = lock
    BY <1>2 DEF state, places, rest
  <1>12. Dying' = Dying /\ Once'
    <2>1. GoesOn(Now(t), NoTask)
      BY <1>6, NoTaskIs DEF GoesOn
    <2> QED BY <1>3, <1>10, <2>1, DyingSame, NoTaskIs
  <1>13. Ref' = [Ref EXCEPT ![s] = Null]
    <2>1. NewHand(t, N[t], Null)
      BY <1>10, HandsTurn, NoTaskIs
    <2>2. Stale' = Stale
      BY <1>6, <1>10, StaleSame, NoTaskIs
    <2>3. Val' = Val /\ SameLoops
      BY <1>11, <2>2, ValSame DEF SameLoops
    <2> QED BY <1>3, <2>1, <2>3, RefTask
  <1>14. /\ ref' \in [Cell -> Int] /\ ref' = [ref EXCEPT ![c] = @ - 1]
         /\ \A d \in Cell \ {c} : ref'[d] = ref[d]
    BY <1>2, <1>3, <1>4, CountsType DEF TypeOK
  <1>15. \A d \in Dying : s # Own(d) /\ Own(d) \in AllSlots /\ d \in Cell
    BY <1>3, CellsAre, NotOwn, OwnSlot DEF Core
  <1> HIDE DEF s
  <1>16. Core'
    BY <1>3, <1>7, <1>9, <1>11, <1>12, <1>13, <1>14, GiveOne
  <1>17. TypeOK'
    BY <1>2, <1>3, <1>10, <1>14, TypeTurn
  <1>18. AllOrderly'
    <2>1. Orderly(t)'
      BY <1>2, <1>4, <1>10, <1>11, OnlyUnlocks, NoTaskIs
    <2>2. Around(t)
      <3>1. \A u \in Thread \ {t}, k \in Nat : Job'[u][k] = Job[u][k]
        BY <1>10 DEF Turning, Turns
      <3> QED BY <1>11, <3>1 DEF Around
    <2> QED BY <2>1, <2>2, OrderlyStep
  <1>19. Phases'
    <2>1. \A d \in Dying : Untouched(d)
      <3>1. ASSUME NEW d \in Dying
            PROVE  Untouched(d)
        <4>1. d # c /\ d \in Cell /\ Own(d) \in AllSlots /\ Own(d) # s
          BY <1>7, <1>15
        <4>2. Ref'[Own(d)] = Ref[Own(d)]
          BY <1>3, <1>13, <4>1 DEF Core
        <4> QED BY <1>11, <1>14, <4>1, <4>2 DEF Untouched
      <3> QED BY <3>1
    <2> QED BY <1>3, <1>10, <2>1, PhasesTurn, NoTaskIs
  <1>20. Whole' /\ Empty'
    BY <1>11, <1>12, WholeKeeps, EmptyKeeps DEF IInv
  <1> QED BY <1>12, <1>16, <1>17, <1>18, <1>19, <1>20 DEF IInv


LEMMA FrontIs ==
    ASSUME NEW S, NEW q \in Seq(S), q # <<>>
    PROVE  /\ Len(q) \in Nat \ {0} /\ Front(q) \in Seq(S) /\ Len(Front(q)) = Len(q) - 1
           /\ \A i \in 1..(Len(q) - 1) : Front(q)[i] = q[i]
           /\ Last(q) = q[Len(q)] /\ Last(q) \in S
           /\ DOMAIN Front(q) = DOMAIN q \ {Len(q)}
  <1>1. Len(q) \in Nat \ {0} /\ \A i \in 1..Len(q) : q[i] \in S
    OBVIOUS
  <1>2. PICK n \in Nat : n = Len(q) - 1
    BY <1>1
  <1>3. Front(q) = SubSeq(q, 1, n)
    BY <1>2 DEF Front
  <1>4. 1 \in Int /\ n \in Int /\ (\A i \in 1..n : q[i] \in S)
    BY <1>1, <1>2
  <1>5. /\ SubSeq(q, 1, n) \in Seq(S) /\ Len(SubSeq(q, 1, n)) = IF 1 <= n THEN n - 1 + 1 ELSE 0
        /\ \A i \in 1..(n - 1 + 1) : SubSeq(q, 1, n)[i] = q[1 + i - 1]
    BY <1>4, SubSeqProperties
  <1>6. Front(q) \in Seq(S) /\ Len(Front(q)) = n
    BY <1>2, <1>3, <1>5
  <1>7. DOMAIN Front(q) = 1..n /\ DOMAIN q = 1..(n + 1)
    BY <1>2, <1>6
  <1>8. \A i \in 1..n : Front(q)[i] = q[i]
    <2>1. ASSUME NEW i \in 1..n
          PROVE  Front(q)[i] = q[i]
      <3>1. i \in 1..(n - 1 + 1) /\ 1 + i - 1 = i
        BY <1>2
      <3> QED BY <1>3, <1>5, <3>1
    <2> QED BY <2>1
  <1>9. Last(q) = q[Len(q)] /\ Last(q) \in S
    BY <1>1 DEF Last
  <1>10. Len(q) - 1 = n /\ Len(q) = n + 1
    BY <1>1, <1>2
  <1>11. 1..n = (1..(n + 1)) \ {n + 1}
    BY <1>2
  <1> QED BY <1>1, <1>6, <1>7, <1>8, <1>9, <1>10, <1>11

\* A vector becomes shorter.
LEMMA Shorter ==
    ASSUME TypeOK, NEW c \in Cell, elems[c] # <<>>, NEW n, n = Len(elems[c]),
           elems' = [elems EXCEPT ![c] = Front(@)], var' = var
    PROVE  /\ elems' \in [Cell -> Seq(Cell \cup {Null})]
           /\ \A d \in Cell : Len(elems'[d]) <= MaxLen
           /\ \A d \in Cell \ {c} : elems'[d] = elems[d]
           /\ n \in Nat /\ Element(c, n) \in Places /\ n \in DOMAIN elems[c]
           /\ Stored(var', elems', Element(c, n)) = Null
           /\ \A q \in Places : q # Element(c, n) =>
                 Stored(var', elems', q) = Stored(var, elems, q)
  <1>1. /\ elems \in [Cell -> Seq(Cell \cup {Null})] /\ elems[c] \in Seq(Cell \cup {Null})
        /\ \A d \in Cell : Len(elems[d]) <= MaxLen
    BY DEF TypeOK
  <1>2. /\ n \in Nat \ {0} /\ Front(elems[c]) \in Seq(Cell \cup {Null})
        /\ Len(Front(elems[c])) = n - 1
        /\ \A i \in 1..(n - 1) : Front(elems[c])[i] = elems[c][i]
        /\ DOMAIN Front(elems[c]) = DOMAIN elems[c] \ {n}
        /\ DOMAIN elems[c] = 1..n
    <2>1. /\ Len(elems[c]) \in Nat \ {0} /\ Front(elems[c]) \in Seq(Cell \cup {Null})
          /\ Len(Front(elems[c])) = Len(elems[c]) - 1
          /\ \A i \in 1..(Len(elems[c]) - 1) : Front(elems[c])[i] = elems[c][i]
          /\ DOMAIN Front(elems[c]) = DOMAIN elems[c] \ {Len(elems[c])}
      BY <1>1, FrontIs
    <2>2. DOMAIN elems[c] = 1..Len(elems[c])
      BY <1>1
    <2>3. n = Len(elems[c])
      OBVIOUS
    <2> QED BY ONLY <2>1, <2>2, <2>3
  <1>3. elems'[c] = Front(elems[c]) /\ \A d \in Cell \ {c} : elems'[d] = elems[d]
    BY <1>1
  <1>4. elems' \in [Cell -> Seq(Cell \cup {Null})] /\ \A d \in Cell : Len(elems'[d]) <= MaxLen
    <2>1. MaxLen \in Nat /\ n <= MaxLen
      BY <1>1, BoundsAssumption
    <2> QED BY <1>1, <1>2, <1>3, <2>1
  <1>5. Element(c, n) \in Places /\ n \in DOMAIN elems[c] /\ Element(c, n).in = c /\ Element(c, n).at = n
    <2>1. n \in 1..MaxLen
      BY <1>1, <1>2, BoundsAssumption
    <2> QED BY <1>2, <2>1, PlacesAre
  <1>6. Stored(var', elems', Element(c, n)) = Null
    BY <1>2, <1>3, <1>5, CellsAre DEF Stored
  <1>7. ASSUME NEW q \in Places, q # Element(c, n)
        PROVE  Stored(var', elems', q) = Stored(var, elems, q)
    <2>1. CASE q.in = Null
      BY <2>1 DEF Stored
    <2>2. CASE q.in = c
      <3>1. PICK i \in 1..MaxLen : q = Element(c, i) /\ q.at = i
        BY <2>2, PlaceIs, CellsAre
      <3>2. i # n
        BY <1>7, <3>1
      <3>3. i \in DOMAIN elems'[c] <=> i \in DOMAIN elems[c]
        BY <1>2, <1>3, <3>2
      <3>4. i \in DOMAIN elems[c] => elems'[c][i] = elems[c][i]
        <4>1. i \in 1..n => i \in 1..(n - 1)
          BY <1>2, <3>2
        <4> QED BY <1>2, <1>3, <4>1
      <3>5. c # Null
        BY CellsAre
      <3> QED BY <2>2, <3>1, <3>3, <3>4, <3>5 DEF Stored
    <2>3. CASE q.in # Null /\ q.in # c
      <3>1. q.in \in Cell \ {c}
        BY <2>3, PlaceIs
      <3> QED BY <1>3, <2>3, <3>1 DEF Stored
    <2> QED BY <2>1, <2>2, <2>3
  <1> QED BY <1>2, <1>3, <1>4, <1>5, <1>6, <1>7

LEMMA PopStep ==
    ASSUME IInv, NEW t \in Thread, Pop(t)
    PROVE  IInv'
  <1>1. PICK c : c = Now(t).c
    OBVIOUS
  <1>2. /\ todo[t] # <<>> /\ Now(t).op = "pop" /\ decRef(Last(elems[c]))
        /\ elems' = [elems EXCEPT ![c] = Front(@)] /\ Then(t, Deleting(Last(elems[c])))
        /\ UNCHANGED <<state, var, rest>>
    BY <1>1 DEF Pop, Doing
  <1>3. /\ todo \in [Thread -> Seq(TaskType)] /\ AtHead(t) /\ N[t] \in Nat /\ TaskOK(t, N[t])
        /\ Job[t][N[t]] = Now(t) /\ Now(t) \in TaskType /\ Core /\ TypeOK /\ Once /\ Phases
        /\ Whole /\ Empty
    BY <1>2, HeadFacts DEF IInv
  <1>4. /\ lock = t /\ c \in Cell /\ kind[c] = "vector" /\ 1 \in DOMAIN elems[c]
        /\ OnlyUnlock(t, N[t])
    BY <1>1, <1>2, <1>3 DEF TaskOK, PopOK
  <1>5. Now(t).op \notin Deletes /\ Now(t).op # "store" /\ Now(t).op # "unlock" /\ Hand(Now(t)) = Null
    BY <1>2, OpsAre DEF Hand
  <1>6. c \in Live \ Dying
    <2>1. Relies(t, N[t], c)
      BY <1>1, <1>2, <1>3 DEF Relies
    <2> QED BY <1>4, <1>3, <2>1, ReliedLive
  <1>7. PICK n : n = Len(elems[c])
    OBVIOUS
  <1>8. PICK p : p = Element(c, n)
    OBVIOUS
  <1>9. PICK v : v = Last(elems[c])
    OBVIOUS
  <1>10. elems[c] # <<>> /\ elems[c] \in Seq(Cell \cup {Null})
    <2>1. elems[c] \in Seq(Cell \cup {Null})
      BY <1>3, <1>4 DEF TypeOK
    <2>2. Len(elems[c]) # 0
      BY <1>4, <2>1
    <2> QED BY <2>1, <2>2
  <1>11. kind' = kind /\ ran' = ran /\ lost' = lost /\ var' = var /\ loop' = loop /\ lock' = lock /\ left' = left
    BY <1>2 DEF state, rest
  <1>12. /\ elems' \in [Cell -> Seq(Cell \cup {Null})]
         /\ \A d \in Cell : Len(elems'[d]) <= MaxLen
         /\ \A d \in Cell \ {c} : elems'[d] = elems[d]
         /\ n \in Nat /\ p \in Places /\ n \in DOMAIN elems[c]
         /\ Stored(var', elems', p) = Null
         /\ \A q \in Places : q # p => Stored(var', elems', q) = Stored(var, elems, q)
    <2>1. /\ elems' \in [Cell -> Seq(Cell \cup {Null})]
          /\ \A d \in Cell : Len(elems'[d]) <= MaxLen
          /\ \A d \in Cell \ {c} : elems'[d] = elems[d]
          /\ n \in Nat /\ Element(c, n) \in Places /\ n \in DOMAIN elems[c]
          /\ Stored(var', elems', Element(c, n)) = Null
          /\ \A q \in Places : q # Element(c, n) =>
                Stored(var', elems', q) = Stored(var, elems, q)
      BY <1>2, <1>3, <1>4, <1>7, <1>10, <1>11, Shorter
    <2> QED BY <1>8, <2>1
  <1> DEFINE s == <<"place", p>>
  <1>13. p \notin Stale /\ s \in AllSlots /\ Ref[s] = v /\ v \in Cell \cup {Null} /\ p.in = c
    <2>1. p.in = c /\ p.at = n /\ p \in Location
      BY <1>8, <1>12, PlacesAre DEF Element
    <2>2. read(p) = elems[c][n]
      BY <1>4, <1>12, <2>1, CellsAre DEF read
    <2>3. v = elems[c][n]
      BY <1>7, <1>9, <1>10, FrontIs
    <2>4. p \notin Stale /\ read(p) \in Cell \cup {Null} /\ Ref[<<"place", p>>] = read(p)
      <3>1. lock = t /\ p.in \in Cell /\ Now(t).op \notin Deletes \cup {"store"}
        BY <1>4, <1>5, <2>1
      <3> QED BY <1>2, <1>12, <2>1, <3>1, Reads
    <2> QED BY <1>12, <2>1, <2>2, <2>3, <2>4, SlotsAre
  <1>14. \A d \in Cell : s = Own(d) => d = c
    BY <1>13 DEF Own, Element
  <1>15. v \in Cell /\ kind[v] = "object" => s # Own(v)
    BY <1>4, <1>14
  <1>16. v \notin Dying
    <2>1. CASE v = Null
      BY <1>3, <2>1, CellsAre DEF Core
    <2>2. CASE v \in Cell
      BY <1>3, <1>13, <1>15, <2>2, Given
    <2> QED BY <1>13, <2>1, <2>2
  <1>17. PICK b : b = Deletion(v)
    OBVIOUS
  <1>18. Turning(t, NoTask, b)
    <2>1. Then(t, Deleting(v))
      BY <1>2, <1>9
    <2>2. Turns(t, NoTask, b)
      BY <1>2, <1>3, <1>13, <1>17, <2>1, TurnDeleting
    <2> QED BY <1>3, <1>13, <1>17, <2>2, DeletionIs DEF Turning
  <1>19. DiesWith(v) /\ Once'
    BY <1>3, <1>5, <1>13, <1>16, <1>17, <1>18, DyingNext
  <1>20. Hand(b) = Null /\ b.op # "store" /\ b.op \in Deletes \cup {"none"}
    BY <1>13, <1>17, DeletionIs
  <1>21. Ref' = [Ref EXCEPT ![s] = Null]
    <2>1. SameHands
      <3>1. NewHand(t, N[t], Null)
        BY <1>18, <1>20, HandsTurn, NoTaskIs
      <3> QED BY <1>3, <1>5, <3>1 DEF NewHand, SameHands
    <2>2. Stale' = Stale
      BY <1>5, <1>18, <1>20, StaleSame, NoTaskIs
    <2>3. Val' = [Val EXCEPT ![p] = Null]
      BY <1>12, <2>2, ValAt, ValsAre
    <2>4. SameLoops
      BY <1>11 DEF SameLoops
    <2> QED BY <1>12, <2>1, <2>3, <2>4, RefPlace
  <1>22. GivesUp(s, v)
    BY <1>2, <1>9, <1>11, <1>13, <1>15, <1>19, <1>21 DEF GivesUp
  <1>23. \A d \in Dying : s # Own(d)
    BY <1>3, <1>6, <1>14, CellsAre DEF Core
  <1> HIDE DEF s
  <1>24. /\ Core' /\ Dying \subseteq Dying' /\ ref' \in [Cell -> Int]
         /\ LastReference(v) =>
               \A op : op = (IF kind[v] = "object" THEN "bias" ELSE "elements")
                         => InPhase(op, v)'
         /\ \A d \in Dying : Untouched(d)
    BY <1>22, <1>23, GiveUp
  <1>25. TypeOK'
    BY <1>3, <1>11, <1>12, <1>18, <1>24 DEF TypeOK, Turning, Turns
  <1>26. AllOrderly'
    <2>1. Orderly(t)'
      BY <1>4, <1>5, <1>11, <1>18, <1>20, OnlyUnlocks
    <2>2. Around(t)
      <3>1. \A u \in Thread \ {t}, k \in Nat : Job'[u][k] = Job[u][k]
        BY <1>18 DEF Turning, Turns
      <3> QED BY <1>4, <1>11, <3>1 DEF Around
    <2> QED BY <2>1, <2>2, OrderlyStep
  <1>27. Phases'
    <2>1. b.op \in Deletes => InPhase(b.op, b.c)'
      BY <1>13, <1>17, <1>24, DeletionIs
    <2> QED BY <1>3, <1>18, <1>24, <2>1, PhasesTurn, NoTaskIs
  <1>28. Whole'
    BY <1>3, <1>11, <1>24, WholeKeeps
  <1>29. Empty'
    <2>1. c \in Live /\ Live' = Live
      BY <1>6, <1>11 DEF Live
    <2> QED BY <1>3, <1>11, <1>12, <2>1 DEF Empty
  <1> QED BY <1>19, <1>24, <1>25, <1>26, <1>27, <1>28, <1>29 DEF IInv

\* The order of the tasks of a thread that has stored in a variable.
LEMMA StoredInVariable ==
    ASSUME IInv, NEW t \in Thread, todo[t] # <<>>, Now(t).op = "store",
           NEW loc, loc = Now(t).loc, Mine(t, loc), Turning(t, NoTask, NoTask),
           var' = [var EXCEPT ![loc.at] = Now(t).c], kind' = kind, lost' = lost,
           elems' = elems, loop' = loop, lock' = lock
    PROVE  AllOrderly'
  <1>1. /\ AtHead(t) /\ TaskOK(t, N[t]) /\ Orderly(t)
        /\ N[t] \in Nat \ {0} /\ Job[t][N[t]] = Now(t) /\ JobsOf(t)
        /\ \A k \in Nat : k > N[t] => Job[t][k] = NoTask
        /\ \A k \in Nat : Job'[t][k] = IF k = N[t] THEN NoTask
                                       ELSE IF k = N[t] + 1 THEN NoTask ELSE Job[t][k]
        /\ \A u \in Thread \ {t}, k \in Nat : Job'[u][k] = Job[u][k]
    BY HeadFacts, JobTable DEF IInv, AllOrderly, AtHead, Turning, Turns
  <1>2. loc.at \in Shared \cup {t} /\ Owned(t, loc.at) /\ loc.in = Null
    BY DEF Mine, Owned
  <1>3. \A i \in 1..(N[t] - 1) : Job[t][i].op \in {"unlock", "drop", "take"}
    BY <1>1, <1>2 DEF TaskOK, WriteOK, Writes
  <1>4. ASSUME NEW k \in Nat, Job'[t][k].op # "none"
        PROVE  /\ k \in 1..(N[t] - 1) /\ Job'[t][k] = Job[t][k]
               /\ Job[t][k].op \in {"unlock", "drop", "take"} /\ TaskOK(t, k)
    <2>1. k # N[t] /\ k # N[t] + 1 /\ Job'[t][k] = Job[t][k]
      BY <1>1, <1>4, NoTaskIs
    <2>2. ~(k > N[t])
      BY <1>1, <1>4, <2>1, NoTaskIs
    <2>3. k # 0
      BY <1>1, <1>4, <2>1, NoTaskIs DEF JobsOf
    <2>4. k \in 1..(N[t] - 1)
      BY <1>1, <2>1, <2>2, <2>3
    <2> QED BY <1>1, <1>3, <2>1, <2>4 DEF Orderly
  <1>5. \A k \in Nat : k < N[t] => Job'[t][k] = Job[t][k]
    BY <1>1
  <1>6. Locked(t)'
    <2>1. lock = t => Job'[t][1].op = "unlock"
      <3>1. lock = t => Job[t][1].op = "unlock" /\ 1 < N[t]
        BY <1>1 DEF Orderly, Locked
      <3> QED BY <1>5, <3>1
    <2>2. ASSUME NEW k \in Nat, Job'[t][k].op = "unlock"
          PROVE  k = 1 /\ lock = t
      BY <1>1, <1>4, <2>2 DEF Orderly, Locked
    <2> QED BY <2>1, <2>2 DEF Locked
  <1>7. StoreNext(t)'
    BY <1>4 DEF StoreNext
  <1>8. ASSUME NEW k \in Nat
        PROVE  TaskOK(t, k)'
    <2>1. Job'[t][k].op \notin {"copy", "over", "store", "pop", "construct"}
      BY <1>4
    <2>2. ASSUME Job'[t][k].op = "take"
          PROVE  WriteOK(t, k)' /\ TakeOK(t, k)'
      <3>1. /\ k \in 1..(N[t] - 1) /\ Job'[t][k] = Job[t][k] /\ Job[t][k].op = "take" /\ TaskOK(t, k)
        BY <1>4, <2>2
      <3>2. Job[t][k].c \in Cell
        BY <3>1 DEF TaskOK, TakeOK
      <3>3. PICK i \in 1..(k - 1) : Job[t][i].op = "drop" /\ Job[t][i].c = Job[t][k].c
        BY <3>1 DEF TaskOK, TakeOK
      <3>4. i \in Nat /\ i < k /\ i < N[t] /\ DropOK(t, i)
        BY <1>1, <3>1, <3>3 DEF Orderly, TaskOK
      <3>5. Job[t][k].loc.in = Null
        BY <3>1, <3>3, <3>4 DEF DropOK, Writes
      <3>6. Mine(t, Job[t][k].loc)
        BY <3>1, <3>5, CellsAre DEF TaskOK, WriteOK, Writes, Target, Within
      <3>7. Mine(t, Job[t][k].loc)'
        BY <3>1, <3>6 DEF Mine, Owned
      <3>8. \A j \in 1..(k - 1) : Job'[t][j].op \in {"unlock", "drop", "take"}
        <4>1. ASSUME NEW j \in 1..(k - 1)
              PROVE  Job'[t][j].op \in {"unlock", "drop", "take"}
          <5>1. j \in Nat /\ j < N[t] /\ j \in 1..(N[t] - 1)
            BY <1>1, <3>1
          <5> QED BY <1>3, <1>5, <5>1
        <4> QED BY <4>1
      <3>9. WriteOK(t, k)'
        BY <3>1, <3>7, <3>8 DEF WriteOK, Target
      <3>10. TakeOK(t, k)'
        <4>1. Job'[t][i] = Job[t][i]
          BY <1>5, <3>4
        <4> QED BY <3>1, <3>2, <3>3, <4>1 DEF TakeOK
      <3> QED BY <3>9, <3>10
    <2>3. ASSUME Job'[t][k].op = "drop"
          PROVE  DropOK(t, k)'
      <3>1. /\ k \in 1..(N[t] - 1) /\ Job'[t][k] = Job[t][k] /\ Job[t][k].op = "drop" /\ TaskOK(t, k)
        BY <1>4, <2>3
      <3>2. DropOK(t, k) /\ k < N[t]
        BY <1>1, <3>1 DEF TaskOK
      <3>3. PICK c : c = Job[t][k].c
        OBVIOUS
      <3>4. /\ c \in Cell /\ kind[c] = "object" /\ OnlyUnlock(t, k)
            /\ \A i \in Nat : i > k /\ Job[t][i].op \in Writes =>
                  Job[t][i].op # "copy" /\ Job[t][i].loc.in = Null /\ Job[t][i].c = c
        BY <3>1, <3>2, <3>3 DEF DropOK
      <3>5. Now(t).c = c
        BY <1>1, <3>2, <3>4 DEF Writes
      <3>6. HeldBy(t, c)'
        <4>1. var \in [Var -> Cell \cup {Null}] /\ loc.at \in Var
          BY <1>2 DEF IInv, TypeOK, Var
        <4>2. var'[loc.at] = c
          BY <3>5, <4>1
        <4> QED BY <1>2, <4>2 DEF HeldBy, Owned
      <3>7. OnlyUnlock(t, k)'
        <4>1. ASSUME NEW j \in 1..(k - 1)
              PROVE  Job'[t][j].op = "unlock"
          <5>1. j \in Nat /\ j < N[t]
            BY <1>1, <3>1
          <5> QED BY <1>5, <3>4, <4>1, <5>1 DEF OnlyUnlock
        <4> QED BY <4>1 DEF OnlyUnlock
      <3>8. \A i \in Nat : i > k /\ Job'[t][i].op \in Writes =>
               Job'[t][i].op # "copy" /\ Job'[t][i].loc.in = Null /\ Job'[t][i].c = c
        BY <1>4, <3>4, OpsAre
      <3> QED BY <3>1, <3>3, <3>4, <3>6, <3>7, <3>8 DEF DropOK
    <2> QED BY <2>1, <2>2, <2>3 DEF TaskOK, WriteOK, CopyOK, PopOK, ConstructOK, TakeOK, DropOK, Writes
  <1>9. Orderly(t)'
    BY <1>6, <1>7, <1>8 DEF Orderly
  <1>10. Around(t)
    <2>1. ASSUME NEW u \in Thread \ {t}, NEW x \in Shared \cup {u}, Owned(u, x)
          PROVE  var'[x] = var[x]
      <3>1. x # loc.at
        BY <1>2, <2>1, VariablesAssumption DEF Owned
      <3>2. x \in Var /\ var \in [Var -> Cell \cup {Null}]
        BY DEF Var, IInv, TypeOK
      <3> QED BY <3>1, <3>2
    <2> QED BY <1>1, <2>1 DEF Around
  <1> QED BY <1>9, <1>10, OrderlyStep

LEMMA StoreStep ==
    ASSUME IInv, NEW t \in Thread, Store(t)
    PROVE  IInv'
  <1>1. PICK loc, c : loc = Now(t).loc /\ c = Now(t).c
    OBVIOUS
  <1>2. /\ todo[t] # <<>> /\ Now(t).op = "store" /\ Then(t, <<>>)
        /\ UNCHANGED <<state, ref, rest>>
        /\ loc.in = Null => var' = [var EXCEPT ![loc.at] = c] /\ elems' = elems
        /\ loc.in # Null => elems' = [elems EXCEPT ![loc.in][loc.at] = c] /\ var' = var
    BY <1>1 DEF Store, Doing
  <1>3. /\ todo \in [Thread -> Seq(TaskType)] /\ AtHead(t) /\ N[t] \in Nat /\ TaskOK(t, N[t])
        /\ Job[t][N[t]] = Now(t) /\ Now(t) \in TaskType /\ Core /\ TypeOK /\ Once /\ Phases
        /\ Whole /\ Empty /\ AllOrderly
    BY <1>2, HeadFacts DEF IInv
  <1>4. /\ Now(t).op \notin Deletes /\ Hand(Now(t)) = c
        /\ loc \in Location /\ c \in Cell \cup {Null} /\ Target(t, loc)
    BY <1>1, <1>2, <1>3, OpsAre DEF Hand, TaskType, TaskOK, WriteOK, Writes
  <1>5. kind' = kind /\ ran' = ran /\ lost' = lost /\ ref' = ref /\ loop' = loop /\ lock' = lock /\ left' = left
    BY <1>2 DEF state, rest
  <1>6. /\ loc.in = Null => Mine(t, loc) /\ loc.at \in Var /\ loc = Variable(loc.at)
        /\ loc.in # Null => /\ loc.in \in Live \ Dying /\ loc.at \in DOMAIN elems[loc.in] /\ lock = t
                            /\ loc = Element(loc.in, loc.at) /\ loc.in \in Cell
        /\ loc \in Places
    <2>1. CASE loc.in = Null
      <3>1. Mine(t, loc)
        BY <1>4, <2>1, CellsAre DEF Target, Within
      <3>2. loc.at \in Var
        BY <3>1 DEF Mine, Owned, Var
      <3> QED BY <1>3, <1>4, <2>1, <3>1, <3>2, LocationIs
    <2>2. CASE loc.in # Null
      <3>1. Within(t, loc)
        BY <1>4, <2>2 DEF Target, Mine
      <3>2. loc.in \in Cell /\ loc.at \in DOMAIN elems[loc.in] /\ lock = t
        BY <3>1 DEF Within
      <3>3. Relies(t, N[t], loc.in)
        BY <1>1, <1>2, <1>3 DEF Relies, Writes
      <3> QED BY <1>3, <1>4, <2>2, <3>2, <3>3, ReliedLive, LocationIs
    <2> QED BY <2>1, <2>2
  <1>7. Turning(t, NoTask, NoTask)
    <2>1. Turns(t, NoTask, NoTask)
      BY <1>2, <1>3, TurnNone
    <2> QED BY <1>3, <2>1 DEF Turning
  <1>8. Stale' = Stale \ {loc} /\ loc \in Stale
    <2>1. \A u \in Thread, k \in Nat :
             Job[u][k].op = "store" /\ Job[u][k].loc = Now(t).loc => u = t /\ k = N[t]
      <3>1. ASSUME NEW u \in Thread, NEW k \in Nat, Job[u][k].op = "store", Job[u][k].loc = loc
            PROVE  u = t /\ k = N[t]
        <4>1. Mine(t, loc) \/ (lock = t /\ loc.in \in Cell)
          BY <1>6
        <4>2. CASE u # t
          <5>1. u \in Thread \ {t}
            BY <4>2
          <5> QED BY <1>3, <3>1, <4>1, <5>1, Excluded
        <4>3. CASE u = t
          BY <1>2, <1>4, <3>1, <4>3, HeadFacts
        <4> QED BY <4>2, <4>3
      <3> QED BY <1>1, <3>1
    <2> QED BY <1>1, <1>2, <1>7, <2>1, StaleLess, NoTaskIs
  <1>9. Dying' = Dying /\ Once'
    <2>1. GoesOn(Now(t), NoTask)
      BY <1>4, NoTaskIs DEF GoesOn
    <2> QED BY <1>3, <1>7, <2>1, DyingSame, NoTaskIs
  <1>10. /\ var' \in [Var -> Cell \cup {Null}]
         /\ elems' \in [Cell -> Seq(Cell \cup {Null})]
         /\ \A d \in Cell : Len(elems'[d]) <= MaxLen /\ DOMAIN elems'[d] = DOMAIN elems[d]
         /\ \A d \in Cell : d # loc.in => elems'[d] = elems[d]
         /\ Stored(var', elems', loc) = c
         /\ \A q \in Places : q # loc => Stored(var', elems', q) = Stored(var, elems, q)
    <2>1. CASE loc.in = Null
      <3>1. var' = [var EXCEPT ![loc.at] = c] /\ elems' = elems /\ loc = Variable(loc.at) /\ loc.at \in Var
        BY <1>2, <1>6, <2>1
      <3>2. var \in [Var -> Cell \cup {Null}]
        BY <1>3 DEF TypeOK
      <3>3. var' \in [Var -> Cell \cup {Null}] /\ var'[loc.at] = c /\ \A x \in Var : x # loc.at => var'[x] = var[x]
        BY <1>4, <3>1, <3>2
      <3>4. ASSUME NEW q \in Places, q # loc
            PROVE  Stored(var', elems', q) = Stored(var, elems, q)
        <4>1. CASE q.in = Null
          <5>1. q.at \in Var /\ q = Variable(q.at)
            BY <4>1, PlaceIs, CellsAre
          <5>2. q.at # loc.at
            BY <3>1, <3>4, <5>1
          <5> QED BY <3>3, <4>1, <5>1, <5>2 DEF Stored
        <4>2. CASE q.in # Null
          BY <3>1, <4>2 DEF Stored
        <4> QED BY <4>1, <4>2
      <3>5. Stored(var', elems', loc) = c
        BY <2>1, <3>3 DEF Stored
      <3> QED BY <1>3, <3>1, <3>3, <3>4, <3>5 DEF TypeOK
    <2>2. CASE loc.in # Null
      <3>1. PICK d, i : d = loc.in /\ i = loc.at
        OBVIOUS
      <3>2. elems' = [elems EXCEPT ![d][i] = c] /\ var' = var /\ d \in Cell /\ i \in DOMAIN elems[d]
        BY <1>2, <1>6, <2>2, <3>1
      <3>3. /\ elems' \in [Cell -> Seq(Cell \cup {Null})]
            /\ \A e \in Cell : Len(elems'[e]) <= MaxLen /\ DOMAIN elems'[e] = DOMAIN elems[e]
            /\ \A e \in Cell \ {d} : elems'[e] = elems[e]
            /\ Stored(var', elems', Element(d, i)) = c
            /\ \A q \in Places : q # Element(d, i) =>
                  Stored(var', elems', q) = Stored(var, elems, q)
        BY <1>3, <1>4, <3>2, SetElement, ZenonT(60)
      <3>4. Element(d, i) = loc
        BY <1>6, <2>2, <3>1
      <3>5. var' \in [Var -> Cell \cup {Null}]
        BY <1>3, <3>2 DEF TypeOK
      <3> QED BY <3>1, <3>3, <3>4, <3>5
    <2> QED BY <2>1, <2>2
  <1> DEFINE s == <<"task", <<t, N[t]>>>>
             z == <<"place", loc>>
  <1>11. /\ s \in AllSlots /\ z \in AllSlots /\ s # z /\ Ref[s] = c /\ Ref[z] = Null
         /\ \A d : s # Own(d)
    BY <1>3, <1>4, <1>6, <1>8, SlotsAre, RefsAre, ValsAre, NotOwn
  <1>12. Ref' = [Ref EXCEPT ![s] = Null, ![z] = c]
    <2>1. NewHand(t, N[t], Null)
      BY <1>7, HandsTurn, NoTaskIs
    <2>2. Val' = [Val EXCEPT ![loc] = c]
      BY <1>6, <1>8, <1>10, ValAt, ValsAre
    <2>3. SameLoops
      BY <1>5 DEF SameLoops
    <2> QED BY <1>3, <1>6, <2>1, <2>2, <2>3, RefStore
  <1>13. \A d \in Dying : z # Own(d) /\ Own(d) \in AllSlots /\ d \in Cell
    <2>1. ASSUME NEW d \in Dying
          PROVE  z # Own(d) /\ Own(d) \in AllSlots /\ d \in Cell
      <3>1. d \in Cell /\ d # Null /\ Own(d) \in AllSlots
        BY <1>3, CellsAre, OwnSlot DEF Core
      <3>2. loc # Element(d, 1)
        BY <1>6, <3>1 DEF Element
      <3> QED BY <3>1, <3>2 DEF Own
    <2> QED BY <2>1
  <1> HIDE DEF s, z
  <1>14. Core'
    BY <1>3, <1>4, <1>5, <1>9, <1>11, <1>12, Moved
  <1>15. TypeOK'
    BY <1>3, <1>5, <1>7, <1>10 DEF TypeOK, Turning, Turns
  <1>16. AllOrderly'
    <2>1. CASE loc.in = Null
      BY <1>1, <1>2, <1>5, <1>6, <1>7, <2>1, StoredInVariable
    <2>2. CASE loc.in # Null
      <3>1. Gone(Now(t), NoTask)
        BY <1>1, <1>2, <2>2, NoTaskIs DEF Gone
      <3>2. Quiet
        BY <1>2, <1>3, <1>5, <1>10, <2>2, CellsAre DEF Quiet
      <3> QED BY <1>7, <3>1, <3>2, OrderlyTurn, NoTaskIs
    <2> QED BY <2>1, <2>2
  <1>17. Phases'
    <2>1. \A d \in Dying : Untouched(d)
      <3>1. ASSUME NEW d \in Dying
            PROVE  Untouched(d)
        <4>1. Ref'[Own(d)] = Ref[Own(d)]
          BY <1>3, <1>11, <1>12, <1>13 DEF Core
        <4> QED BY <1>5, <4>1 DEF Untouched
      <3> QED BY <3>1
    <2> QED BY <1>3, <1>7, <2>1, PhasesTurn, NoTaskIs
  <1>18. Whole'
    BY <1>3, <1>5, <1>9, WholeKeeps
  <1>19. Empty'
    <2>1. loc.in # Null => loc.in \in Live
      BY <1>6
    <2>2. Live' = Live /\ \A d \in Cell \ Live : d # Null
      BY <1>5, CellsAre DEF Live
    <2> QED BY <1>3, <1>5, <1>10, <2>1, <2>2 DEF Empty
  <1> QED BY <1>9, <1>14, <1>15, <1>16, <1>17, <1>18, <1>19 DEF IInv


-----------------------------------------------------------------------------
(***************************************************************************)
(* Steps that neither delete nor write: the end of a constructor, and the  *)
(* beginnings of the statements.                                           *)
(***************************************************************************)
\* No deletion and no store begins, goes on or ends.
Mild == /\ todo \in [Thread -> Seq(TaskType)] /\ todo' \in [Thread -> Seq(TaskType)]
        /\ \A u \in Thread, k \in Nat :
              \/ Job'[u][k] = Job[u][k]
              \/ /\ Job[u][k].op \notin Deletes \cup {"store"}
                 /\ Job'[u][k].op \notin Deletes \cup {"store"}

LEMMA MildTables ==
    ASSUME Mild, Once
    PROVE  Dying' = Dying /\ Stale' = Stale /\ Once'
  <1>1. \A u \in Thread, k \in Nat : GoesOn(Job[u][k], Job'[u][k])
    BY DEF Mild, GoesOn
  <1>2. Deleted(Job') = Deleted(Job)
    BY <1>1 DEF Deleted, GoesOn
  <1>3. Once'
    BY <1>1 DEF Once, GoesOn
  <1>4. \A u \in Thread, k \in Nat :
           Job'[u][k].op = "store" \/ Job[u][k].op = "store" => Job'[u][k] = Job[u][k]
    BY DEF Mild
  <1>5. Overwritten(Job') = Overwritten(Job)
    BY <1>4 DEF Overwritten
  <1> QED BY <1>2, <1>3, <1>5, TablesAre, TablesBecome DEF Mild

LEMMA MildPhases ==
    ASSUME Mild, Core, Phases, \A d \in Dying : Untouched(d)
    PROVE  Phases'
  <1> SUFFICES ASSUME NEW u \in Thread, NEW k \in Nat, Job'[u][k].op \in Deletes
               PROVE  InPhase(Job[u][k].op, Job[u][k].c)'
    BY DEF Phases
  <1>1. PICK op, c : op = Job'[u][k].op /\ c = Job'[u][k].c
    OBVIOUS
  <1>2. Job[u][k].op = op /\ Job[u][k].c = c /\ op \in Deletes
    BY <1>1 DEF Mild
  <1>3. InPhase(op, c)
    BY <1>2 DEF Phases
  <1>4. c \in Cell /\ c \in Dying
    <2>1. c \in Cell
      BY <1>3, CellsAre DEF InPhase
    <2> QED BY <1>2, <2>1, TablesAre DEF Deleted, Mild
  <1>5. InPhase(op, c)'
    BY <1>3, <1>4, PhaseKeeps
  <1> QED BY <1>1, <1>5 DEF InPhase, Own, Element

LEMMA Mildly ==
    ASSUME IInv, Mild, Core', TypeOK', AllOrderly', \A d \in Dying : Untouched(d), Whole', Empty'
    PROVE  IInv'
  BY MildTables, MildPhases DEF IInv

\* Nothing changes but the tasks, and no reference is in other hands.
LEMMA MildSame ==
    ASSUME IInv, Mild, TypeOK', AllOrderly', SameHands, SameLoops,
           kind' = kind, ref' = ref, ran' = ran, elems' = elems, var' = var,
           \A c \in Cell : lost[c] => lost'[c]
    PROVE  IInv'
  <1>1. Dying' = Dying /\ Stale' = Stale
    BY MildTables DEF IInv
  <1>2. Val' = Val
    BY <1>1, ValSame
  <1>3. Ref' = Ref
    BY <1>2, RefSame
  <1>4. Live' = Live /\ Live \subseteq Cell
    BY CellsAre DEF Live
  <1>5. Core'
    <2>1. ref' \in [Cell -> Int]
      BY DEF IInv, TypeOK
    <2> QED BY <1>1, <1>3, <1>4, <2>1, SameReferences DEF IInv, Kept
  <1>6. \A d \in Dying : Untouched(d)
    BY <1>3 DEF Untouched
  <1>7. Whole' /\ Empty'
    BY <1>1, WholeKeeps, EmptyKeeps DEF IInv
  <1> QED BY <1>5, <1>6, <1>7, Mildly

LEMMA Concatenated ==
    ASSUME NEW S, NEW a \in S, NEW b \in S
    PROVE  /\ <<>> \o <<a, b>> \in Seq(S) /\ Len(<<>> \o <<a, b>>) = 2
           /\ (<<>> \o <<a, b>>)[1] = a /\ (<<>> \o <<a, b>>)[2] = b
           /\ \A e \in S : /\ <<e>> \o <<a, b>> \in Seq(S) /\ Len(<<e>> \o <<a, b>>) = 3
                           /\ (<<e>> \o <<a, b>>)[1] = e /\ (<<e>> \o <<a, b>>)[2] = a
                           /\ (<<e>> \o <<a, b>>)[3] = b
  <1>1. <<>> \o <<a, b>> = <<a, b>>
    OBVIOUS
  <1>2. ASSUME NEW e \in S
        PROVE  /\ <<e>> \o <<a, b>> \in Seq(S) /\ Len(<<e>> \o <<a, b>>) = 3
               /\ (<<e>> \o <<a, b>>)[1] = e /\ (<<e>> \o <<a, b>>)[2] = a
               /\ (<<e>> \o <<a, b>>)[3] = b
    OBVIOUS
  <1> QED BY <1>1, <1>2

\* The next task is replaced by b, with a and then e above it.
Replaced(t, e, a, b) ==
    \A u \in Thread, k \in Nat :
       Job'[u][k] = IF u = t /\ k = N[t] THEN b
                    ELSE IF u = t /\ k = N[t] + 1 THEN a
                    ELSE IF u = t /\ k = N[t] + 2 THEN e ELSE Job[u][k]

LEMMA ReplacedIs ==
    ASSUME todo \in [Thread -> Seq(TaskType)], NEW t \in Thread, todo[t] # <<>>,
           NEW a \in TaskType, NEW b \in TaskType, NEW e,
           \/ e = NoTask /\ Then(t, <<>> \o <<a, b>>)
           \/ e \in TaskType /\ Then(t, <<e>> \o <<a, b>>)
    PROVE  Replaced(t, e, a, b) /\ todo' \in [Thread -> Seq(TaskType)]
  <1>1. /\ AtHead(t) /\ N[t] \in Nat \ {0} /\ \A k \in Nat : k > N[t] => Job[t][k] = NoTask
    BY Heads DEF AtHead
  <1>2. PICK tasks : /\ tasks \in Seq(TaskType) /\ Then(t, tasks)
                     /\ \/ Len(tasks) = 2 /\ tasks[1] = a /\ tasks[2] = b /\ e = NoTask
                        \/ /\ Len(tasks) = 3 /\ tasks[1] = e /\ tasks[2] = a /\ tasks[3] = b
    <2>1. CASE e = NoTask /\ Then(t, <<>> \o <<a, b>>)
      <3>1. PICK q : q = <<>> \o <<a, b>>
        OBVIOUS
      <3>2. q \in Seq(TaskType) /\ Len(q) = 2 /\ q[1] = a /\ q[2] = b
        BY <3>1, Concatenated
      <3>3. Then(t, q)
        BY <2>1, <3>1
      <3> QED BY <2>1, <3>2, <3>3
    <2>2. CASE e \in TaskType /\ Then(t, <<e>> \o <<a, b>>)
      <3>1. PICK q : q = <<e>> \o <<a, b>>
        OBVIOUS
      <3>2. q \in Seq(TaskType) /\ Len(q) = 3 /\ q[1] = e /\ q[2] = a /\ q[3] = b
        BY <2>2, <3>1, Concatenated
      <3>3. Then(t, q)
        BY <2>2, <3>1
      <3> QED BY <3>2, <3>3
    <2> QED BY <2>1, <2>2
  <1>3. Leaves(t, tasks)
    BY <1>2, Done
  <1>4. PICK n \in Nat \ {0} : n = N[t]
    BY <1>1
  <1>5. PICK m \in {2, 3} : m = Len(tasks)
    BY <1>2
  <1>6. /\ \A k \in Nat : k < n => Job'[t][k] = Job[t][k]
        /\ \A i \in 1..m : Job'[t][n + m - i] = tasks[i]
        /\ \A k \in Nat : k >= n + m => Job'[t][k] = NoTask
        /\ \A k \in Nat : k > n => Job[t][k] = NoTask
    BY <1>1, <1>3, <1>4, <1>5 DEF Leaves
  <1>7. Job'[t][n] = b /\ Job'[t][n + 1] = a /\ Job'[t][n + 2] = e
    <2>1. CASE m = 2
      <3>1. n + m - 2 = n /\ n + m - 1 = n + 1 /\ n + 2 >= n + m /\ 1 \in 1..m /\ 2 \in 1..m /\ n + 2 \in Nat
        BY <2>1
      <3>2. tasks[1] = a /\ tasks[2] = b /\ e = NoTask
        BY <1>2, <1>5, <2>1
      <3> QED BY <1>6, <3>1, <3>2
    <2>2. CASE m = 3
      <3>1. n + m - 3 = n /\ n + m - 2 = n + 1 /\ n + m - 1 = n + 2 /\ 1 \in 1..m /\ 2 \in 1..m /\ 3 \in 1..m
        BY <2>2
      <3>2. tasks[1] = e /\ tasks[2] = a /\ tasks[3] = b
        BY <1>2, <1>5, <2>2
      <3> QED BY <1>6, <3>1, <3>2
    <2> QED BY <2>1, <2>2
  <1>8. ASSUME NEW k \in Nat, k # n, k # n + 1, k # n + 2
        PROVE  Job'[t][k] = Job[t][k]
    <2>1. CASE k < n
      BY <1>6, <2>1
    <2>2. CASE k > n + 2
      <3>1. k >= n + m /\ k > n
        BY <2>2
      <3> QED BY <1>6, <3>1
    <2> QED BY <1>8, <2>1, <2>2
  <1> QED BY <1>3, <1>4, <1>7, <1>8 DEF Replaced, Leaves

\* The constructor raised.
LEMMA ConstructFails ==
    ASSUME IInv, NEW t \in Thread, todo[t] # <<>>, Now(t).op = "construct", NEW c, c = Now(t).c,
           Then(t, << OfCell("drop", c) >>), lost' = [lost EXCEPT ![c] = TRUE],
           UNCHANGED <<kind, ran, ref, places, rest>>
    PROVE  IInv'
  <1>1. /\ todo \in [Thread -> Seq(TaskType)] /\ AtHead(t) /\ N[t] \in Nat \ {0} /\ TaskOK(t, N[t])
        /\ Job[t][N[t]] = Now(t) /\ Now(t) \in TaskType /\ TypeOK /\ Locked(t) /\ JobsOf(t)
        /\ \A k \in Nat : k > N[t] => Job[t][k] = NoTask
    BY HeadFacts, JobTable DEF IInv, AtHead
  <1>2. c \in Cell /\ kind[c] = "object" /\ OnlyUnlock(t, N[t])
    BY <1>1 DEF TaskOK, ConstructOK
  <1>3. PICK b : b = OfCell("drop", c)
    OBVIOUS
  <1>4. b \in TaskType /\ b.op = "drop" /\ b.c = c
    BY <1>2, <1>3, NowhereIs DEF OfCell, Task, TaskType, Op, Owns
  <1>5. Turns(t, NoTask, b)
    BY <1>1, <1>3, <1>4, TurnOne
  <1>6. /\ \A k \in Nat : Job'[t][k] = IF k = N[t] THEN b ELSE Job[t][k]
        /\ \A u \in Thread \ {t}, k \in Nat : Job'[u][k] = Job[u][k]
        /\ todo' \in [Thread -> Seq(TaskType)]
    BY <1>1, <1>5 DEF Turns
  <1>7. kind' = kind /\ ref' = ref /\ ran' = ran /\ elems' = elems /\ var' = var /\ loop' = loop /\ lock' = lock /\ left' = left
    BY DEF places, rest
  <1>8. Mild
    BY <1>1, <1>4, <1>6, OpsAre, ZenonT(60) DEF Mild
  <1>9. SameHands
    <2>1. Hand(b) = c /\ Hand(Now(t)) = c
      BY <1>4, OpsAre DEF Hand
    <2> QED BY <1>1, <1>6, <2>1 DEF SameHands
  <1>10. lost' \in [Cell -> BOOLEAN] /\ lost'[c] /\ \A d \in Cell : lost[d] => lost'[d]
    BY <1>1, <1>2 DEF TypeOK
  <1>11. TypeOK'
    BY <1>1, <1>6, <1>7, <1>10 DEF TypeOK
  <1>12. \A k \in 1..(N[t] - 1) : Job'[t][k].op = "unlock" /\ Job[t][k].op = "unlock"
    <2>1. PICK n \in Nat \ {0} : n = N[t]
      BY <1>1
    <2>2. \A k \in 1..(n - 1) : k \in Nat /\ k # n
      OBVIOUS
    <2>3. \A k \in 1..(n - 1) : Job[t][k].op = "unlock"
      BY <1>2, <2>1 DEF OnlyUnlock
    <2>4. \A k \in 1..(n - 1) : Job'[t][k] = Job[t][k]
      BY <1>6, <2>1, <2>2
    <2> QED BY <2>1, <2>3, <2>4
  <1>13. ASSUME NEW k \in Nat, k \notin 1..N[t]
         PROVE  Job'[t][k] = NoTask
    <2>1. Job[t][k] = NoTask
      BY <1>1, <1>13 DEF JobsOf
    <2>2. k # N[t]
      BY <1>1, <1>13
    <2> QED BY <1>6, <2>1, <2>2
  <1>14. Locked(t)'
    <2>1. lock = t => Job'[t][1].op = "unlock"
      BY <1>1, <1>6 DEF Locked
    <2>2. ASSUME NEW k \in Nat, Job'[t][k].op = "unlock"
          PROVE  k = 1 /\ lock = t
      BY <1>1, <1>4, <1>6, <2>2 DEF Locked
    <2> QED BY <1>7, <2>1, <2>2 DEF Locked
  <1>15. StoreNext(t)'
    <2>1. \A k \in Nat : Job'[t][k].op # "store"
      <3>1. ASSUME NEW k \in Nat
            PROVE  Job'[t][k].op # "store"
        <4>1. k = N[t] \/ k \in 1..(N[t] - 1) \/ k \notin 1..N[t]
          BY <1>1
        <4>2. k = N[t] => Job'[t][k].op = "drop"
          BY <1>4, <1>6
        <4> QED BY <1>12, <1>13, <4>1, <4>2, NoTaskIs
      <3> QED BY <3>1
    <2> QED BY <2>1 DEF StoreNext
  <1>16. ASSUME NEW k \in Nat
         PROVE  TaskOK(t, k)'
    <2>1. CASE k = N[t]
      <3>1. OnlyUnlock(t, k)'
        BY <1>12, <2>1 DEF OnlyUnlock
      <3>2. \A i \in Nat : i > k => Job'[t][i].op \notin Writes
        BY <1>1, <1>13, <2>1, NoTaskIs DEF Writes
      <3>3. Job'[t][k] = b
        BY <1>1, <1>6, <2>1
      <3>4. DropOK(t, k)'
        BY <1>2, <1>4, <1>7, <1>10, <3>1, <3>2, <3>3 DEF DropOK
      <3> QED BY <1>4, <3>3, <3>4
             DEF TaskOK, WriteOK, CopyOK, PopOK, ConstructOK, TakeOK, Writes
    <2>2. CASE k # N[t]
      <3>1. Job'[t][k].op \in {"unlock", "none"}
        BY <1>1, <1>12, <1>13, <2>2, NoTaskIs
      <3> QED BY <3>1 DEF TaskOK, WriteOK, CopyOK, PopOK, ConstructOK, TakeOK, DropOK, Writes
    <2> QED BY <2>1, <2>2
  <1>17. AllOrderly'
    <2>1. Orderly(t)'
      BY <1>14, <1>15, <1>16 DEF Orderly
    <2>2. Around(t)
      <3>1. Dying \subseteq Live /\ Live \subseteq Cell
        BY CellsAre DEF IInv, Core
      <3> QED BY <1>6, <1>7, <1>10, <3>1 DEF Around
    <2> QED BY <2>1, <2>2, OrderlyStep
  <1> QED BY <1>7, <1>8, <1>9, <1>10, <1>11, <1>17, MildSame DEF SameLoops

\* The order of the tasks that follow a constructor.
LEMMA ConstructedOrder ==
    ASSUME IInv, NEW t \in Thread, todo[t] # <<>>, Now(t).op = "construct",
           NEW loc, loc = Now(t).loc, NEW c, c = Now(t).c, NEW a, NEW b, NEW e,
           a.op = "take", a.loc = loc, a.c = c, b.op = "drop", b.c = c,
           \/ e = NoTask
           \/ e.op = "take" /\ Mine(t, e.loc) /\ e.c = c,
           Replaced(t, e, a, b), lock' = lock, kind' = kind
    PROVE  Orderly(t)'
  <1>1. /\ N[t] \in Nat \ {0} /\ TaskOK(t, N[t]) /\ Job[t][N[t]] = Now(t) /\ Locked(t) /\ JobsOf(t)
        /\ \A k \in Nat : k > N[t] => Job[t][k] = NoTask
    BY HeadFacts, JobTable DEF IInv, AtHead
  <1>2. c \in Cell /\ kind[c] = "object" /\ OnlyUnlock(t, N[t]) /\ Mine(t, loc)
    BY <1>1 DEF TaskOK, ConstructOK
  <1>3. PICK n \in Nat \ {0} : n = N[t]
    BY <1>1
  <1>4. /\ Job'[t][n] = b /\ Job'[t][n + 1] = a /\ Job'[t][n + 2] = e
        /\ \A k \in Nat : k \notin {n, n + 1, n + 2} => Job'[t][k] = Job[t][k]
    <2>1. n + 1 # n /\ n + 2 # n /\ n + 2 # n + 1 /\ n + 1 \in Nat /\ n + 2 \in Nat
      OBVIOUS
    <2> QED BY <1>3, <2>1 DEF Replaced
  <1>5. \A k \in 1..(n - 1) : Job'[t][k] = Job[t][k] /\ Job[t][k].op = "unlock"
    BY <1>2, <1>3, <1>4 DEF OnlyUnlock
  <1>6. ASSUME NEW k \in Nat, k \notin 1..(n + 2)
        PROVE  Job'[t][k] = NoTask
    <2>1. Job[t][k] = NoTask
      BY <1>1, <1>3, <1>6 DEF JobsOf
    <2> QED BY <1>4, <1>6, <2>1
  <1>7. ASSUME NEW k \in Nat
        PROVE  \/ k = n \/ k = n + 1 \/ k = n + 2 \/ k \in 1..(n - 1) \/ k \notin 1..(n + 2)
    OBVIOUS
  <1>8. Mine(t, loc)' /\ loc.in = Null /\ (e # NoTask => Mine(t, e.loc)' /\ e.loc.in = Null)
    BY <1>2 DEF Mine, Owned
  <1>9. Locked(t)'
    <2>1. lock = t => Job'[t][1].op = "unlock"
      <3>1. lock = t => Job[t][1].op = "unlock" /\ n # 1
        BY <1>1, <1>3 DEF Locked
      <3>2. n # 1 => 1 \in 1..(n - 1)
        OBVIOUS
      <3> QED BY <1>5, <3>1, <3>2
    <2>2. ASSUME NEW k \in Nat, Job'[t][k].op = "unlock"
          PROVE  k = 1 /\ lock = t
      <3>1. Job[t][k].op = "unlock"
        BY <1>4, <2>2, NoTaskIs
      <3> QED BY <1>1, <3>1 DEF Locked
    <2> QED BY <2>1, <2>2 DEF Locked
  <1>10. StoreNext(t)'
    <2>1. ASSUME NEW k \in Nat
          PROVE  Job'[t][k].op # "store"
      BY <1>4, <1>5, <1>6, <1>7, NoTaskIs
    <2> QED BY <2>1 DEF StoreNext
  <1>11. ASSUME NEW k \in Nat
         PROVE  TaskOK(t, k)'
    <2>1. CASE k = n
      <3>1. OnlyUnlock(t, k)'
        BY <1>5, <2>1 DEF OnlyUnlock
      <3>2. ASSUME NEW i \in Nat, i > k, Job'[t][i].op \in Writes
            PROVE  Job'[t][i].op # "copy" /\ Job'[t][i].loc.in = Null /\ Job'[t][i].c = c
        <4>1. i = n + 1 \/ (i = n + 2 /\ e # NoTask)
          BY <1>4, <1>5, <1>6, <1>7, <2>1, <3>2, NoTaskIs DEF Writes
        <4> QED BY <1>4, <1>8, <4>1
      <3>3. n + 1 \in Nat /\ n + 1 > k
        BY <2>1
      <3>4. DropOK(t, k)'
        BY <1>2, <1>4, <2>1, <3>1, <3>2, <3>3 DEF DropOK
      <3> QED BY <1>4, <2>1, <3>4
             DEF TaskOK, WriteOK, CopyOK, PopOK, ConstructOK, TakeOK, Writes
    <2>2. CASE k = n + 1
      <3>1. \A i \in 1..(k - 1) : Job'[t][i].op \in {"unlock", "drop", "take"}
        BY <1>4, <1>5, <2>2
      <3>2. n \in 1..(k - 1)
        BY <2>2
      <3>3. WriteOK(t, k)' /\ TakeOK(t, k)'
        BY <1>2, <1>4, <1>8, <2>2, <3>1, <3>2 DEF WriteOK, TakeOK, Target
      <3> QED BY <1>4, <2>2, <3>3 DEF TaskOK, CopyOK, PopOK, ConstructOK, DropOK
    <2>3. CASE k = n + 2 /\ e # NoTask
      <3>1. \A i \in 1..(k - 1) : Job'[t][i].op \in {"unlock", "drop", "take"}
        <4>1. ASSUME NEW i \in 1..(k - 1)
              PROVE  Job'[t][i].op \in {"unlock", "drop", "take"}
          <5>1. i = n \/ i = n + 1 \/ i \in 1..(n - 1)
            BY <2>3
          <5> QED BY <1>4, <1>5, <5>1
        <4> QED BY <4>1
      <3>2. n \in 1..(k - 1)
        BY <2>3
      <3>3. WriteOK(t, k)' /\ TakeOK(t, k)'
        BY <1>2, <1>4, <1>8, <2>3, <3>1, <3>2 DEF WriteOK, TakeOK, Target
      <3> QED BY <1>4, <2>3, <3>3 DEF TaskOK, CopyOK, PopOK, ConstructOK, DropOK
    <2>4. CASE (k = n + 2 /\ e = NoTask) \/ k \in 1..(n - 1) \/ k \notin 1..(n + 2)
      <3>1. Job'[t][k].op \in {"unlock", "none"}
        BY <1>4, <1>5, <1>6, <2>4, NoTaskIs
      <3> QED BY <3>1 DEF TaskOK, WriteOK, CopyOK, PopOK, ConstructOK, TakeOK, DropOK, Writes
    <2> QED BY <1>7, <2>1, <2>2, <2>3, <2>4
  <1> QED BY <1>9, <1>10, <1>11 DEF Orderly

LEMMA ConstructSucceeds ==
    ASSUME IInv, NEW t \in Thread, todo[t] # <<>>, Now(t).op = "construct",
           NEW loc, loc = Now(t).loc, NEW c, c = Now(t).c,
           \E kept \in {<<>>} \cup {<< Task("take", Variable(x), c) >> :
                                         x \in IF lock = t THEN Shared ELSE {}} :
              Then(t, kept \o << Task("take", loc, c), OfCell("drop", c) >>),
           UNCHANGED <<state, ref, places, rest>>
    PROVE  IInv'
  <1>1. /\ todo \in [Thread -> Seq(TaskType)] /\ AtHead(t) /\ N[t] \in Nat \ {0} /\ TaskOK(t, N[t])
        /\ Job[t][N[t]] = Now(t) /\ Now(t) \in TaskType /\ TypeOK /\ loc \in Location
        /\ \A k \in Nat : k > N[t] => Job[t][k] = NoTask
    BY HeadFacts DEF IInv, AtHead, TaskType
  <1>2. c \in Cell /\ Mine(t, loc)
    BY <1>1 DEF TaskOK, ConstructOK
  <1>3. PICK a, b : a = Task("take", loc, c) /\ b = OfCell("drop", c)
    OBVIOUS
  <1>4. /\ a \in TaskType /\ a.op = "take" /\ a.loc = loc /\ a.c = c
        /\ b \in TaskType /\ b.op = "drop" /\ b.c = c
    BY <1>1, <1>2, <1>3, NowhereIs DEF OfCell, Task, TaskType, Op, Owns
  <1>5. PICK e : /\ \/ e = NoTask /\ Then(t, <<>> \o <<a, b>>)
                    \/ e \in TaskType /\ Then(t, <<e>> \o <<a, b>>)
                 /\ \/ e = NoTask
                    \/ e.op = "take" /\ Mine(t, e.loc) /\ e.c = c
    <2>1. CASE Then(t, <<>> \o <<a, b>>)
      BY <2>1
    <2>2. ASSUME NEW x \in Shared, lock = t, Then(t, << Task("take", Variable(x), c) >> \o <<a, b>>)
          PROVE  \E e : /\ e \in TaskType /\ Then(t, <<e>> \o <<a, b>>)
                        /\ e.op = "take" /\ Mine(t, e.loc) /\ e.c = c
      <3>1. PICK e : e = Task("take", Variable(x), c)
        OBVIOUS
      <3>2. x \in Var /\ Variable(x) \in Location /\ Variable(x).in = Null /\ Variable(x).at = x
        BY PlacesAre DEF Var
      <3>3. e \in TaskType /\ e.op = "take" /\ e.loc = Variable(x) /\ e.c = c
        BY <1>2, <3>1, <3>2, NowhereIs DEF Task, TaskType, Op
      <3>4. Mine(t, e.loc)
        BY <2>2, <3>2, <3>3 DEF Mine, Owned
      <3> QED BY <2>2, <3>1, <3>3, <3>4
    <2> QED BY <1>3, <2>1, <2>2
  <1>6. Replaced(t, e, a, b) /\ todo' \in [Thread -> Seq(TaskType)]
    BY <1>1, <1>4, <1>5, ReplacedIs
  <1>7. kind' = kind /\ ref' = ref /\ ran' = ran /\ lost' = lost /\ elems' = elems /\ var' = var /\ loop' = loop /\ lock' = lock /\ left' = left
    BY DEF state, places, rest
  <1>8. /\ N[t] + 1 \in Nat /\ N[t] + 2 \in Nat
        /\ Job[t][N[t] + 1] = NoTask /\ Job[t][N[t] + 2] = NoTask
    BY <1>1
  <1>9. e.op \in {"take", "none"}
    BY <1>5, NoTaskIs
  <1>10. Mild
    <2>1. \A op \in {"take", "drop", "none", "construct"} : op \notin Deletes \cup {"store"}
      BY OpsAre
    <2> QED BY <1>1, <1>4, <1>6, <1>8, <1>9, <2>1, NoTaskIs DEF Mild, Replaced
  <1>11. SameHands
    <2>1. Hand(b) = c /\ Hand(Now(t)) = c /\ Hand(a) = Null /\ Hand(e) = Null
      BY <1>4, <1>9, OpsAre DEF Hand
    <2> QED BY <1>1, <1>6, <1>8, <2>1, NoTaskIs, ZenonT(60) DEF SameHands, Replaced
  <1>12. TypeOK'
    BY <1>1, <1>6, <1>7 DEF TypeOK
  <1>13. AllOrderly'
    <2>1. Orderly(t)'
      BY <1>4, <1>5, <1>6, <1>7, ConstructedOrder
    <2>2. Around(t)
      BY <1>6, <1>7 DEF Around, Replaced
    <2> QED BY <2>1, <2>2, OrderlyStep
  <1> QED BY <1>7, <1>10, <1>11, <1>12, <1>13, MildSame DEF SameLoops

LEMMA ConstructStep ==
    ASSUME IInv, NEW t \in Thread, Construct(t)
    PROVE  IInv'
  <1>1. PICK loc, c : loc = Now(t).loc /\ c = Now(t).c
    OBVIOUS
  <1>2. todo[t] # <<>> /\ Now(t).op = "construct" /\ UNCHANGED <<kind, ran, ref, places, rest>>
    BY DEF Construct, Doing
  <1>3. \/ Then(t, << OfCell("drop", c) >>) /\ lost' = [lost EXCEPT ![c] = TRUE]
        \/ /\ \E kept \in {<<>>} \cup {<< Task("take", Variable(x), c) >> :
                                         x \in IF lock = t THEN Shared ELSE {}} :
                 Then(t, kept \o << Task("take", loc, c), OfCell("drop", c) >>)
           /\ lost' = lost
    BY <1>1 DEF Construct
  <1>4. CASE Then(t, << OfCell("drop", c) >>) /\ lost' = [lost EXCEPT ![c] = TRUE]
    BY <1>1, <1>2, <1>4, ConstructFails
  <1>5. CASE /\ \E kept \in {<<>>} \cup {<< Task("take", Variable(x), c) >> :
                                         x \in IF lock = t THEN Shared ELSE {}} :
                  Then(t, kept \o << Task("take", loc, c), OfCell("drop", c) >>)
             /\ lost' = lost
    <2>1. UNCHANGED <<state, ref, places, rest>>
      BY <1>2, <1>5 DEF state
    <2> QED BY <1>1, <1>2, <1>5, <2>1, ConstructSucceeds
  <1> QED BY <1>3, <1>4, <1>5


\* The variables of the threads themselves have their types.
RestTyped == /\ todo \in [Thread -> Seq(TaskType)]
             /\ loop \in [Thread -> [vec : Cell \cup {Null}, at : Nat, last : Nat, body : BOOLEAN]]
             /\ lock \in Thread \cup {NoThread}
             /\ left \in [Thread -> 0..Statements]

\* A thread that has nothing to do does not have the lock.
LEMMA Idle ==
    ASSUME IInv, NEW t \in Thread, todo[t] = <<>>
    PROVE  /\ \A k \in Nat : Job[t][k] = NoTask
           /\ lock # t /\ todo \in [Thread -> Seq(TaskType)]
  <1>1. JobsOf(t) /\ todo \in [Thread -> Seq(TaskType)]
    BY JobTable DEF IInv, TypeOK
  <1>2. N[t] = 0
    <2>1. Len(todo[t]) = 0
      OBVIOUS
    <2> QED BY <1>1, <2>1 DEF JobsOf
  <1>3. \A k \in Nat : Job[t][k] = NoTask
    BY <1>1, <1>2 DEF JobsOf
  <1>4. lock # t
    BY <1>3, NoTaskIs DEF IInv, AllOrderly, Orderly, Locked
  <1> QED BY <1>1, <1>3, <1>4

\* A statement begins with one task, the m-th from the end, and then unlocks if
\* it has locked.
Starts(t, m, b) ==
    /\ todo \in [Thread -> Seq(TaskType)] /\ todo' \in [Thread -> Seq(TaskType)]
    /\ \A k \in Nat : Job[t][k] = NoTask
    /\ \A u \in Thread \ {t}, k \in Nat : Job'[u][k] = Job[u][k]
    /\ Job'[t][m] = b
    /\ \A k \in Nat : k # m => Job'[t][k] = IF m = 2 /\ k = 1 THEN OfCell("unlock", Null) ELSE NoTask
    /\ m = 2 => lock = NoThread /\ lock' = t
    /\ m = 1 => lock' = lock
    /\ lock # t /\ SameLoops

LEMMA UnlockIs == /\ OfCell("unlock", Null) \in TaskType /\ OfCell("unlock", Null).op = "unlock"
                  /\ Hand(OfCell("unlock", Null)) = Null
  BY NowhereIs DEF OfCell, Task, TaskType, Op, Hand, Owns

LEMMA Appended ==
    ASSUME NEW S, NEW a \in S, NEW b \in S
    PROVE  /\ Append(<<a>>, b) \in Seq(S) /\ Len(Append(<<a>>, b)) = 2
           /\ Append(<<a>>, b)[1] = a /\ Append(<<a>>, b)[2] = b
  OBVIOUS

\* What begins, in the words of the table.
LEMMA BegunIs ==
    ASSUME IInv, NEW t \in Thread, todo[t] = <<>>, NEW b \in TaskType, NEW m,
           NEW tasks \in Seq(TaskType), todo' = [todo EXCEPT ![t] = tasks],
           \/ m = 1 /\ Len(tasks) = 1 /\ tasks[1] = b /\ lock' = lock
           \/ /\ m = 2 /\ Len(tasks) = 2 /\ tasks[1] = b /\ tasks[2] = OfCell("unlock", Null)
              /\ lock = NoThread /\ lock' = t,
           SameLoops
    PROVE  Starts(t, m, b)
  <1>1. \A k \in Nat : Job[t][k] = NoTask /\ lock # t /\ todo \in [Thread -> Seq(TaskType)]
    BY Idle
  <1>2. /\ \A u \in Thread \ {t}, k \in Nat : Job'[u][k] = Job[u][k]
        /\ todo' \in [Thread -> Seq(TaskType)]
        /\ \A k \in 1..Len(tasks) : Job'[t][Len(tasks) + 1 - k] = tasks[k]
        /\ \A k \in Nat : k \notin 1..Len(tasks) => Job'[t][k] = NoTask
    BY <1>1, Begun DEF Begins
  <1>3. CASE m = 1
    <2>1. Len(tasks) = 1 /\ tasks[1] = b /\ lock' = lock
      BY <1>3
    <2>2. Job'[t][1] = b
      <3>1. 1 + 1 - 1 = 1 /\ 1 \in 1..1
        OBVIOUS
      <3> QED BY <1>2, <2>1, <3>1
    <2>3. \A k \in Nat : k # 1 => Job'[t][k] = NoTask
      BY <1>2, <2>1
    <2>4. \A k \in Nat : k # m => Job'[t][k] = IF m = 2 /\ k = 1 THEN OfCell("unlock", Null) ELSE NoTask
      BY <1>3, <2>3
    <2>5. Job'[t][m] = b /\ (m = 2 => lock = NoThread /\ lock' = t) /\ (m = 1 => lock' = lock)
      BY <1>3, <2>1, <2>2
    <2> QED BY <1>1, <1>2, <2>4, <2>5, Idle DEF Starts
  <1>4. CASE m = 2
    <2>1. /\ Len(tasks) = 2 /\ tasks[1] = b /\ tasks[2] = OfCell("unlock", Null)
          /\ lock = NoThread /\ lock' = t
      BY <1>4
    <2>2. Job'[t][2] = b /\ Job'[t][1] = OfCell("unlock", Null)
      <3>1. 2 + 1 - 1 = 2 /\ 2 + 1 - 2 = 1 /\ 1 \in 1..2 /\ 2 \in 1..2
        OBVIOUS
      <3> QED BY <1>2, <2>1, <3>1
    <2>3. \A k \in Nat : k # 1 /\ k # 2 => Job'[t][k] = NoTask
      BY <1>2, <2>1
    <2>4. \A k \in Nat : k # m => Job'[t][k] = IF m = 2 /\ k = 1 THEN OfCell("unlock", Null) ELSE NoTask
      BY <1>4, <2>2, <2>3
    <2>5. Job'[t][m] = b /\ (m = 2 => lock = NoThread /\ lock' = t) /\ (m = 1 => lock' = lock)
      BY <1>4, <2>1, <2>2
    <2> QED BY <1>1, <1>2, <2>4, <2>5, Idle DEF Starts
  <1> QED BY <1>3, <1>4

LEMMA Executes ==
    ASSUME IInv, NEW t \in Thread, Ready(t), NEW b \in TaskType, NEW shared \in BOOLEAN,
           Execute(t, shared, <<b>>), NEW m, m = IF shared THEN 2 ELSE 1
    PROVE  Starts(t, m, b) /\ RestTyped' /\ lock # t
  <1>1. todo[t] = <<>> /\ left[t] > 0 /\ TypeOK
    BY DEF Ready, IInv
  <1>2. /\ left' \in [Thread -> 0..Statements]
        /\ loop' \in [Thread -> [vec : Cell \cup {Null}, at : Nat, last : Nat, body : BOOLEAN]]
        /\ SameLoops
    <2>1. left' = [left EXCEPT ![t] = @ - 1] /\ loop' = [loop EXCEPT ![t].body = FALSE]
      BY DEF Execute
    <2>2. /\ left \in [Thread -> 0..Statements] /\ left[t] - 1 \in 0..Statements
          /\ loop \in [Thread -> [vec : Cell \cup {Null}, at : Nat, last : Nat, body : BOOLEAN]]
      BY <1>1, BoundsAssumption DEF TypeOK
    <2>3. left' \in [Thread -> 0..Statements]
      BY <2>1, <2>2
    <2>4. loop' \in [Thread -> [vec : Cell \cup {Null}, at : Nat, last : Nat, body : BOOLEAN]]
      BY <2>1, <2>2
    <2>5. SameLoops
      BY <2>1, <2>2 DEF SameLoops
    <2> QED BY <2>3, <2>4, <2>5
  <1>3. CASE shared
    <2>1. /\ lock = NoThread /\ lock' = t
          /\ todo' = [todo EXCEPT ![t] = Append(<<b>>, OfCell("unlock", Null))]
      BY <1>3 DEF Execute
    <2>2. PICK tasks : tasks = Append(<<b>>, OfCell("unlock", Null))
      OBVIOUS
    <2>3. tasks \in Seq(TaskType) /\ Len(tasks) = 2 /\ tasks[1] = b /\ tasks[2] = OfCell("unlock", Null)
      BY <2>2, Appended, UnlockIs
    <2>4. m = 2 /\ todo' = [todo EXCEPT ![t] = tasks]
      BY <1>3, <2>1, <2>2
    <2>5. Starts(t, m, b)
      BY <1>1, <1>2, <2>1, <2>3, <2>4, BegunIs
    <2> QED BY <1>2, <2>1, <2>5 DEF RestTyped, Starts
  <1>4. CASE ~shared
    <2>1. lock' = lock /\ todo' = [todo EXCEPT ![t] = <<b>>]
      BY <1>4 DEF Execute
    <2>2. PICK tasks : tasks = <<b>>
      OBVIOUS
    <2>3. tasks \in Seq(TaskType) /\ Len(tasks) = 1 /\ tasks[1] = b
      BY <2>2
    <2>4. m = 1 /\ todo' = [todo EXCEPT ![t] = tasks]
      BY <1>4, <2>1, <2>2
    <2>5. Starts(t, m, b)
      BY <1>1, <1>2, <2>1, <2>3, <2>4, BegunIs
    <2> QED BY <1>1, <1>2, <2>1, <2>5 DEF RestTyped, Starts, TypeOK
  <1> QED BY <1>3, <1>4

LEMMA StartsMild ==
    ASSUME NEW t \in Thread, NEW m \in {1, 2}, NEW b, Starts(t, m, b),
           b.op \notin Deletes \cup {"store"}
    PROVE  Mild /\ NewHand(t, m, Hand(b)) /\ (Hand(b) = Null => SameHands) /\ OnlyUnlock(t, m)'
  <1>1. /\ OfCell("unlock", Null).op \notin Deletes \cup {"store"}
        /\ NoTask.op \notin Deletes \cup {"store"} /\ Hand(NoTask) = Null
    BY UnlockIs, NoTaskIs, OpsAre
  <1>2. \A k \in Nat : Job'[t][k] \in {b, NoTask, OfCell("unlock", Null)} /\ Job[t][k] = NoTask
    BY DEF Starts
  <1>3. Mild
    BY <1>1, <1>2 DEF Starts, Mild
  <1>4. NewHand(t, m, Hand(b))
    BY <1>1, UnlockIs DEF Starts, NewHand
  <1>5. Hand(b) = Null => SameHands
    <2>1. Hand(Job[t][m]) = Null
      BY <1>1, <1>2
    <2> QED BY <1>4, <2>1 DEF NewHand, SameHands
  <1>6. OnlyUnlock(t, m)'
    <2>1. \A i \in 1..(m - 1) : i = 1 /\ m = 2
      OBVIOUS
    <2> QED BY <2>1, UnlockIs DEF Starts, OnlyUnlock
  <1> QED BY <1>3, <1>4, <1>5, <1>6

\* The order of the tasks when a statement has begun.
LEMMA Started ==
    ASSUME IInv, NEW t \in Thread, NEW m \in {1, 2}, NEW b, Starts(t, m, b),
           b.op \in {"copy", "over", "construct"}, TaskOK(t, m)', var' = var,
           \A d \in Live \ Dying : /\ kind'[d] = kind[d] /\ (lost[d] => lost'[d])
                                   /\ DOMAIN elems'[d] = DOMAIN elems[d]
    PROVE  AllOrderly'
  <1>1. ASSUME NEW k \in Nat
        PROVE  /\ k = m \/ (k = 1 /\ m = 2 /\ Job'[t][k].op = "unlock") \/ Job'[t][k].op = "none"
               /\ Job'[t][k].op # "store"
    <2>1. Job'[t][m].op # "store"
      BY DEF Starts
    <2> QED BY <2>1, UnlockIs, NoTaskIs DEF Starts
  <1>2. StoreNext(t)'
    BY <1>1 DEF StoreNext
  <1>3. Locked(t)'
    <2>1. lock' = t => Job'[t][1].op = "unlock"
      <3>1. lock' = t => m = 2
        BY DEF Starts
      <3> QED BY <3>1, UnlockIs DEF Starts
    <2>2. ASSUME NEW k \in Nat, Job'[t][k].op = "unlock"
          PROVE  k = 1 /\ lock' = t
      <3>1. Job'[t][m].op # "unlock"
        BY DEF Starts
      <3>2. k = 1 /\ m = 2
        BY <1>1, <2>2, <3>1
      <3> QED BY <3>2 DEF Starts
    <2> QED BY <2>1, <2>2 DEF Locked
  <1>4. ASSUME NEW k \in Nat
        PROVE  TaskOK(t, k)'
    <2>1. CASE k = m
      BY <2>1
    <2>2. CASE k # m
      <3>1. Job'[t][k].op \in {"unlock", "none"}
        BY <1>1, <2>2
      <3> QED BY <3>1 DEF TaskOK, WriteOK, CopyOK, PopOK, ConstructOK, TakeOK, DropOK, Writes
    <2> QED BY <2>1, <2>2
  <1>5. Orderly(t)'
    BY <1>2, <1>3, <1>4 DEF Orderly
  <1>6. Around(t)
    <2>1. \A u \in Thread \ {t} : lock' = u <=> lock = u
      BY VariablesAssumption DEF Starts, Var
    <2> QED BY <2>1 DEF Around, Starts, SameLoops
  <1> QED BY <1>5, <1>6, OrderlyStep

\* An assignment under the lock.
LEMMA CopyStarts ==
    ASSUME IInv, NEW t \in Thread, NEW b, Starts(t, 2, b), b.op = "copy", RestTyped',
           Target(t, b.loc)', Mine(t, b.from)' \/ Anchored(t, b.from.in)', UNCHANGED <<heap, var>>
    PROVE  IInv'
  <1>1. /\ kind' = kind /\ ran' = ran /\ lost' = lost /\ elems' = elems /\ ref' = ref /\ var' = var
    BY DEF heap, state
  <1>2. b.op \notin Deletes \cup {"store"} /\ Hand(b) = Null
    BY OpsAre DEF Hand
  <1>3. Mild /\ SameHands /\ OnlyUnlock(t, 2)'
    BY <1>2, StartsMild
  <1>4. /\ Job'[t][2] = b /\ lock' = t /\ SameLoops
    BY DEF Starts
  <1>5. TaskOK(t, 2)'
    <2>1. \A i \in 1..(2 - 1) : Job'[t][i].op \in {"unlock", "drop", "take"}
      BY <1>3 DEF OnlyUnlock
    <2>2. WriteOK(t, 2)' /\ CopyOK(t, 2)'
      BY <1>4, <2>1 DEF WriteOK, CopyOK
    <2> QED BY <1>4, <2>2 DEF TaskOK, PopOK, ConstructOK, TakeOK, DropOK
  <1>6. AllOrderly'
    BY <1>1, <1>5, Started
  <1>7. TypeOK'
    BY <1>1 DEF RestTyped, TypeOK, IInv
  <1> QED BY <1>1, <1>3, <1>4, <1>6, <1>7, MildSame

\* A variable that a thread names is its own, or it has the lock.
LEMMA NamesVariable ==
    ASSUME NEW t \in Thread, NEW x \in Shared \cup {t}
    PROVE  /\ x \in Var /\ Variable(x) \in Location /\ Variable(x).in = Null /\ Variable(x).at = x
           /\ lock' = t \/ x = t => Mine(t, Variable(x))' /\ Owned(t, x)'
  <1>1. x \in Var /\ Variable(x) \in Location /\ Variable(x).in = Null /\ Variable(x).at = x
    BY PlacesAre DEF Var
  <1> QED BY <1>1 DEF Mine, Owned

LEMMA AssignmentIs ==
    ASSUME NEW to \in Location, NEW from \in Location
    PROVE  /\ Assignment(to, from) \in TaskType /\ Assignment(to, from).op = "copy"
           /\ Assignment(to, from).loc = to /\ Assignment(to, from).from = from
  BY DEF Assignment, TaskType, Op

LEMMA AssignStep ==
    ASSUME IInv, NEW t \in Thread, Assign(t)
    PROVE  IInv'
  <1>1. PICK x \in Shared \cup {t}, y \in Shared \cup {t} :
           /\ Ready(t) /\ Execute(t, TRUE, << Assignment(Variable(x), Variable(y)) >>)
           /\ UNCHANGED <<heap, var>>
    BY DEF Assign
  <1>2. PICK to, from : to = Variable(x) /\ from = Variable(y)
    OBVIOUS
  <1>3. PICK b : b = Assignment(to, from)
    OBVIOUS
  <1>4. b \in TaskType /\ b.op = "copy" /\ b.loc = to /\ b.from = from
    BY <1>2, <1>3, NamesVariable, AssignmentIs
  <1>5. Starts(t, 2, b) /\ RestTyped'
    BY <1>1, <1>2, <1>3, <1>4, Executes
  <1>6. to.in = Null /\ to.at = x /\ from.in = Null /\ from.at = y /\ lock' = t
    BY <1>2, <1>5, NamesVariable DEF Starts
  <1>7. Target(t, to)' /\ Mine(t, from)'
    BY <1>6 DEF Target, Mine, Owned
  <1> QED BY <1>1, <1>4, <1>5, <1>7, CopyStarts

LEMMA SetsubStep ==
    ASSUME IInv, NEW t \in Thread, setsub(t)
    PROVE  IInv'
  <1>1. PICK x \in Shared \cup {t}, y \in Shared \cup {t}, i \in 1..MaxLen :
           /\ Ready(t) /\ var[x] # Null /\ i \in DOMAIN elems[var[x]]
           /\ kind[var[x]] = "object" => i # 1
           /\ Execute(t, TRUE, << Assignment(Element(var[x], i), Variable(y)) >>)
           /\ UNCHANGED <<heap, var>>
    BY DEF setsub
  <1>2. PICK d : d = var[x]
    OBVIOUS
  <1>3. d \in Cell /\ i \in Nat
    <2>1. x \in Var /\ var \in [Var -> Cell \cup {Null}]
      BY NamesVariable DEF IInv, TypeOK
    <2> QED BY <1>1, <1>2, <2>1, BoundsAssumption
  <1>4. PICK to, from : to = Element(d, i) /\ from = Variable(y)
    OBVIOUS
  <1>5. PICK b : b = Assignment(to, from)
    OBVIOUS
  <1>6. to \in Location /\ to.in = d /\ to.at = i /\ from \in Location /\ from.in = Null /\ from.at = y
    BY <1>3, <1>4, NamesVariable, PlacesAre
  <1>7. b \in TaskType /\ b.op = "copy" /\ b.loc = to /\ b.from = from
    BY <1>5, <1>6, AssignmentIs
  <1>8. Starts(t, 2, b) /\ RestTyped'
    BY <1>1, <1>2, <1>4, <1>5, <1>7, Executes
  <1>9. lock' = t /\ kind' = kind /\ elems' = elems /\ var' = var
    BY <1>1, <1>8 DEF Starts, heap, state
  <1>10. Mine(t, from)'
    BY <1>6, <1>9 DEF Mine, Owned
  <1>11. Target(t, to)'
    <2>1. HeldBy(t, d)'
      BY <1>2, <1>9 DEF HeldBy, Owned
    <2> QED BY <1>1, <1>2, <1>3, <1>6, <1>9, <2>1 DEF Target, Within
  <1> QED BY <1>1, <1>7, <1>8, <1>10, <1>11, CopyStarts

LEMMA GetsubStep ==
    ASSUME IInv, NEW t \in Thread, getsub(t)
    PROVE  IInv'
  <1>1. PICK x \in Shared \cup {t}, i \in 1..MaxLen :
           /\ Ready(t) /\ var[x] # Null
           /\ Execute(t, TRUE, << Assignment(Variable(t), Element(var[x], i)) >>)
           /\ UNCHANGED <<heap, var>>
    BY DEF getsub
  <1>2. PICK d : d = var[x]
    OBVIOUS
  <1>3. d \in Cell /\ i \in Nat
    <2>1. x \in Var /\ var \in [Var -> Cell \cup {Null}]
      BY NamesVariable DEF IInv, TypeOK
    <2> QED BY <1>1, <1>2, <2>1, BoundsAssumption
  <1>4. PICK to, from : to = Variable(t) /\ from = Element(d, i)
    OBVIOUS
  <1>5. PICK b : b = Assignment(to, from)
    OBVIOUS
  <1>6. from \in Location /\ from.in = d /\ from.at = i /\ to \in Location /\ to.in = Null /\ to.at = t
    BY <1>3, <1>4, NamesVariable, PlacesAre
  <1>7. b \in TaskType /\ b.op = "copy" /\ b.loc = to /\ b.from = from
    BY <1>5, <1>6, AssignmentIs
  <1>8. Starts(t, 2, b) /\ RestTyped'
    BY <1>1, <1>2, <1>4, <1>5, <1>7, Executes
  <1>9. lock' = t /\ var' = var
    BY <1>1, <1>8 DEF Starts
  <1>10. Target(t, to)'
    BY <1>6, <1>9 DEF Target, Mine, Owned
  <1>11. Anchored(t, from.in)'
    <2>1. HeldBy(t, d)'
      BY <1>2, <1>9 DEF HeldBy, Owned
    <2> QED BY <1>3, <1>6, <2>1 DEF Anchored
  <1> QED BY <1>1, <1>7, <1>8, <1>10, <1>11, CopyStarts

LEMMA DodeleteStep ==
    ASSUME IInv, NEW t \in Thread, dodelete(t)
    PROVE  IInv'
  <1>1. PICK x \in Shared \cup {t} :
           /\ Ready(t) /\ Execute(t, x \in Shared, << Task("over", Variable(x), Null) >>)
           /\ UNCHANGED <<heap, var>>
    BY DEF dodelete
  <1>2. PICK loc : loc = Variable(x)
    OBVIOUS
  <1>3. loc \in Location /\ loc.in = Null /\ loc.at = x
    BY <1>2, NamesVariable
  <1>4. PICK b : b = Task("over", loc, Null)
    OBVIOUS
  <1>5. b \in TaskType /\ b.op = "over" /\ b.loc = loc /\ b.c = Null /\ Hand(b) = Null
    BY <1>3, <1>4, NowhereIs DEF Task, TaskType, Op, Owns, Hand
  <1>6. PICK shared : shared = (x \in Shared)
    OBVIOUS
  <1>7. PICK m : m = IF shared THEN 2 ELSE 1
    OBVIOUS
  <1>8. Execute(t, shared, <<b>>) /\ m \in {1, 2} /\ shared \in BOOLEAN
    BY <1>1, <1>2, <1>4, <1>6, <1>7
  <1>9. Starts(t, m, b) /\ RestTyped'
    BY <1>1, <1>5, <1>8, <1>7, Executes
  <1>10. /\ kind' = kind /\ ran' = ran /\ lost' = lost /\ elems' = elems /\ ref' = ref /\ var' = var
    BY <1>1 DEF heap, state
  <1>11. Mild /\ SameHands /\ OnlyUnlock(t, m)'
    BY <1>5, <1>8, <1>9, StartsMild, OpsAre
  <1>12. TaskOK(t, m)'
    <2>1. Job'[t][m] = b
      BY <1>9 DEF Starts
    <2>2. Mine(t, loc)'
      <3>1. x # t => lock' = t
        BY <1>6, <1>9, <1>7 DEF Starts
      <3> QED BY <1>3, <3>1 DEF Mine, Owned
    <2>3. \A i \in 1..(m - 1) : Job'[t][i].op \in {"unlock", "drop", "take"}
      BY <1>11 DEF OnlyUnlock
    <2>4. WriteOK(t, m)'
      BY <1>5, <2>1, <2>2, <2>3 DEF WriteOK, Target
    <2> QED BY <1>5, <2>1, <2>4 DEF TaskOK, CopyOK, PopOK, ConstructOK, TakeOK, DropOK
  <1>13. AllOrderly'
    BY <1>5, <1>8, <1>9, <1>10, <1>12, Started
  <1>14. TypeOK' /\ SameLoops
    BY <1>9, <1>10 DEF RestTyped, TypeOK, IInv, Starts
  <1> QED BY <1>10, <1>11, <1>13, <1>14, MildSame


-----------------------------------------------------------------------------
(* New vectors and objects.                                                *)

\* No thread overwrites a value in a cell that is not in use.
LEMMA NotInUse ==
    ASSUME IInv, NEW c \in Cell, c \notin Live \ Dying, NEW p, p.in = c
    PROVE  p \notin Stale
  <1> SUFFICES ASSUME p \in Stale
               PROVE  FALSE
    OBVIOUS
  <1>1. PICK u \in Thread, k \in Nat : Job[u][k].op = "store" /\ Job[u][k].loc = p
    BY OverwrittenBy DEF IInv, TypeOK
  <1>2. Relies(u, k, c)
    BY <1>1 DEF Relies, Writes
  <1> QED BY <1>2, ReliedLive

\* What an idle thread finds in a variable when nobody has the lock.
LEMMA VariableLive ==
    ASSUME IInv, NEW t \in Thread, todo[t] = <<>>, lock = NoThread, NEW x \in Shared \cup {t}
    PROVE  /\ Variable(x) \notin Stale /\ x \in Var /\ var[x] \in Cell \cup {Null}
           /\ var[x] # Null => var[x] \in Live \ Dying
  <1>1. x \in Var /\ Variable(x).in = Null /\ Variable(x).at = x /\ var[x] \in Cell \cup {Null}
    BY NamesVariable DEF IInv, TypeOK
  <1>2. Variable(x) \notin Stale
    <2> SUFFICES ASSUME Variable(x) \in Stale
                 PROVE  FALSE
      OBVIOUS
    <2>1. PICK u \in Thread, k \in Nat : Job[u][k].op = "store" /\ Job[u][k].loc = Variable(x)
      BY OverwrittenBy DEF IInv, TypeOK
    <2>2. Mine(u, Variable(x))
      BY <1>1, <2>1, CellsAre DEF IInv, AllOrderly, Orderly, TaskOK, WriteOK, Writes, Target, Within
    <2>3. u # t
      BY <2>1, Idle, NoTaskIs
    <2> QED BY <1>1, <2>2, <2>3, VariablesAssumption DEF Mine, Owned, Var
  <1> QED BY <1>1, <1>2, VariableHolds DEF IInv

\* A cell that was not in use has values.
LEMMA Placed ==
    ASSUME IInv, NEW c \in Cell \ Live, NEW k \in {"vector", "object"},
           NEW q \in Seq(Cell \cup {Null}), Len(q) <= MaxLen,
           kind' = [kind EXCEPT ![c] = k], elems' = [elems EXCEPT ![c] = q],
           UNCHANGED <<ran, lost, var>>, Stale' = Stale, Dying' = Dying
    PROVE  /\ Live' = Live \cup {c} /\ kind'[c] = k
           /\ elems' \in [Cell -> Seq(Cell \cup {Null})]
           /\ \A d \in Cell : Len(elems'[d]) <= MaxLen
           /\ kind' \in [Cell -> {"free", "vector", "object"}]
           /\ \A d \in Cell \ {c} : kind'[d] = kind[d] /\ elems'[d] = elems[d]
           /\ \A p \in Places : p.in # c => Val'[p] = Val[p]
           /\ \A p \in Places : p.in = c =>
                 /\ Val[p] = Null
                 /\ Val'[p] = IF p.at \in DOMAIN q THEN q[p.at] ELSE Null
           /\ Whole' /\ Empty'
  <1>1. TypeOK /\ Whole /\ Empty /\ Core /\ Live \subseteq Cell /\ Null \notin Cell /\ Dying \subseteq Live
    BY CellsAre DEF IInv, Core
  <1>2. /\ kind \in [Cell -> {"free", "vector", "object"}]
        /\ elems \in [Cell -> Seq(Cell \cup {Null})]
        /\ \A d \in Cell : Len(elems[d]) <= MaxLen
    BY <1>1 DEF TypeOK
  <1>3. /\ kind'[c] = k /\ elems'[c] = q
        /\ \A d \in Cell \ {c} : kind'[d] = kind[d] /\ elems'[d] = elems[d]
    BY <1>2
  <1>4. Live' = Live \cup {c}
    BY <1>3 DEF Live
  <1>5. /\ elems' \in [Cell -> Seq(Cell \cup {Null})]
        /\ \A d \in Cell : Len(elems'[d]) <= MaxLen
    BY <1>2, <1>3
  <1>6. kind' \in [Cell -> {"free", "vector", "object"}]
    BY <1>2
  <1>7. elems[c] = <<>> /\ ran[c] = 0
    BY <1>1 DEF Empty
  <1>8. ASSUME NEW p \in Places, p.in # c
        PROVE  Val'[p] = Val[p]
    <2>1. p.in = Null \/ p.in \in Cell \ {c}
      BY <1>8, PlaceIs
    <2>2. Stored(var', elems', p) = Stored(var, elems, p)
      BY <1>3, <2>1 DEF Stored
    <2> QED BY <2>2, ValsAre
  <1>9. ASSUME NEW p \in Places, p.in = c
        PROVE  /\ Val[p] = Null
               /\ Val'[p] = IF p.at \in DOMAIN q THEN q[p.at] ELSE Null
    <2>1. p \notin Stale /\ p.in # Null
      BY <1>1, <1>9, NotInUse
    <2>2. p.at \notin DOMAIN <<>>
      OBVIOUS
    <2>3. Stored(var, elems, p) = Null
      BY <1>7, <1>9, <2>1, <2>2 DEF Stored
    <2>4. Stored(var', elems', p) = IF p.at \in DOMAIN q THEN q[p.at] ELSE Null
      BY <1>3, <1>9, <2>1 DEF Stored
    <2> QED BY <2>1, <2>3, <2>4, ValsAre
  <1>10. Whole'
    BY <1>1, <1>4, <1>7 DEF Whole
  <1>11. Empty'
    BY <1>1, <1>3, <1>4 DEF Empty
  <1> QED BY <1>3, <1>4, <1>5, <1>6, <1>8, <1>9, <1>10, <1>11

\* Which of the slots are the places of a cell.
LEMMA SlotsOf ==
    ASSUME NEW c \in Cell, NEW n \in 0..MaxLen, NEW E, E = FirstPlaces(c, n)
    PROVE  /\ E \subseteq AllSlots
           /\ \A p \in Places : <<"place", p>> \in E <=> p.in = c /\ p.at \in 1..n
           /\ \A u : <<"loop", u>> \notin E
           /\ \A w : <<"task", w>> \notin E
           /\ \A d \in Cell : d # c => Own(d) \notin E
  <1>1. \A i \in 1..n : i \in 1..MaxLen /\ i \in Nat
    BY BoundsAssumption
  <1>2. E \subseteq AllSlots
    BY <1>1, PlacesAre, SlotsAre DEF FirstPlaces
  <1>3. ASSUME NEW p \in Places
        PROVE  <<"place", p>> \in E <=> p.in = c /\ p.at \in 1..n
    <2>1. <<"place", p>> \in E <=> \E i \in 1..n : p = Element(c, i)
      BY DEF FirstPlaces
    <2>2. ASSUME p.in = c, p.at \in 1..n
          PROVE  \E i \in 1..n : p = Element(c, i)
      BY <2>2, PlaceIs, CellsAre
    <2>3. ASSUME NEW i \in 1..n, p = Element(c, i)
          PROVE  p.in = c /\ p.at = i
      BY <2>3 DEF Element
    <2> QED BY <2>1, <2>2, <2>3
  <1>4. ASSUME NEW d \in Cell, d # c
        PROVE  Own(d) \notin E
    BY <1>4 DEF Own, Element, FirstPlaces
  <1>5. (\A u : <<"loop", u>> \notin E) /\ (\A w : <<"task", w>> \notin E)
    BY DEF FirstPlaces
  <1> QED BY <1>2, <1>3, <1>4, <1>5

LEMMA SameValues ==
    ASSUME NEW n \in Nat, NEW S, NEW v \in S
    PROVE  /\ [i \in 1..n |-> v] \in Seq(S) /\ Len([i \in 1..n |-> v]) = n
           /\ DOMAIN [i \in 1..n |-> v] = 1..n /\ \A i \in 1..n : [j \in 1..n |-> v][i] = v
  OBVIOUS

LEMMA MakeVectorStep ==
    ASSUME IInv, NEW t \in Thread, makeVector(t)
    PROVE  IInv'
  <1>1. PICK c \in Cell, n \in 0..MaxLen, y \in Shared \cup {t} :
           /\ Ready(t) /\ Fresh(c)
           /\ Made(c, "vector", [i \in 1..n |-> var[y]])
           /\ ref' = [d \in Cell |-> IF d = c THEN 1 ELSE IF d = var[y] THEN ref[d] + n ELSE ref[d]]
           /\ Execute(t, TRUE, << Task("over", Variable(t), c) >>)
    BY DEF makeVector
  <1>2. PICK v : v = var[y]
    OBVIOUS
  <1>3. PICK loc : loc = Variable(t)
    OBVIOUS
  <1>4. PICK b : b = Task("over", loc, c)
    OBVIOUS
  <1>5. loc \in Location /\ loc.in = Null /\ loc.at = t
    BY <1>3, NamesVariable
  <1>6. b \in TaskType /\ b.op = "over" /\ b.loc = loc /\ b.c = c /\ Hand(b) = c
    BY <1>4, <1>5, NowhereIs DEF Task, TaskType, Op, Owns, Hand
  <1>7. Starts(t, 2, b) /\ RestTyped' /\ lock = NoThread /\ lock' = t /\ todo[t] = <<>>
    <2>1. Starts(t, 2, b) /\ RestTyped'
      BY <1>1, <1>3, <1>4, <1>6, Executes
    <2> QED BY <1>1, <2>1 DEF Starts, Ready
  <1>8. /\ Core /\ TypeOK /\ Once /\ Live \subseteq Cell /\ Null \notin Cell /\ Dying \subseteq Live
        /\ n \in Nat /\ n <= MaxLen /\ MaxLen \in Nat
    BY CellsAre, BoundsAssumption DEF IInv, Core
  <1>9. v \in Cell \cup {Null} /\ v \in (Live \ Dying) \cup {Null}
    BY <1>2, <1>7, VariableLive
  <1>10. Mild /\ NewHand(t, 2, c) /\ OnlyUnlock(t, 2)'
    BY <1>6, <1>7, StartsMild, OpsAre
  <1>11. Dying' = Dying /\ Stale' = Stale
    BY <1>8, <1>10, MildTables
  <1>12. PICK q : q = [i \in 1..n |-> v]
    OBVIOUS
  <1>13. q \in Seq(Cell \cup {Null}) /\ Len(q) <= MaxLen /\ DOMAIN q = 1..n /\ \A i \in 1..n : q[i] = v
    BY <1>8, <1>9, <1>12, SameValues
  <1>14. /\ c \in Cell \ Live /\ ran' = ran /\ lost' = lost /\ var' = var
         /\ kind' = [kind EXCEPT ![c] = "vector"] /\ elems' = [elems EXCEPT ![c] = q]
    BY <1>1, <1>2, <1>12 DEF Fresh, Made
  <1>15. /\ Live' = Live \cup {c} /\ kind'[c] = "vector"
         /\ elems' \in [Cell -> Seq(Cell \cup {Null})]
         /\ \A d \in Cell : Len(elems'[d]) <= MaxLen
         /\ kind' \in [Cell -> {"free", "vector", "object"}]
         /\ \A d \in Cell \ {c} : kind'[d] = kind[d] /\ elems'[d] = elems[d]
         /\ \A p \in Places : p.in # c => Val'[p] = Val[p]
         /\ \A p \in Places : p.in = c =>
               /\ Val[p] = Null
               /\ Val'[p] = IF p.at \in DOMAIN q THEN q[p.at] ELSE Null
         /\ Whole' /\ Empty'
    BY <1>11, <1>13, <1>14, Placed
  <1>16. PICK E : E = FirstPlaces(c, n)
    OBVIOUS
  <1>17. /\ E \subseteq AllSlots
         /\ \A p \in Places : <<"place", p>> \in E <=> p.in = c /\ p.at \in 1..n
         /\ \A u : <<"loop", u>> \notin E
         /\ \A w : <<"task", w>> \notin E
         /\ \A d \in Cell : d # c => Own(d) \notin E
    BY <1>16, SlotsOf
  <1>18. PICK z : z = <<"task", <<t, 2>>>>
    OBVIOUS
  <1>19. z \in AllSlots \ E /\ Ref[z] = Null /\ \A d : z # Own(d)
    <2>1. Hand(Job[t][2]) = Null
      BY <1>7, NoTaskIs DEF Starts
    <2> QED BY <1>17, <1>18, <2>1, SlotsAre, RefsAre, NotOwn
  <1>20. ASSUME NEW s \in AllSlots
         PROVE  Ref'[s] = IF s \in E THEN v ELSE IF s = z THEN c ELSE Ref[s]
    <2>1. ASSUME NEW p \in Places, s = <<"place", p>>
          PROVE  Ref'[s] = IF s \in E THEN v ELSE IF s = z THEN c ELSE Ref[s]
      <3>1. Ref'[s] = Val'[p] /\ Ref[s] = Val[p] /\ s # z
        BY <1>18, <2>1, RefsAre, RefsBecome
      <3>2. s \in E <=> p.in = c /\ p.at \in 1..n
        BY <1>17, <2>1
      <3>3. CASE p.in = c
        BY <1>13, <1>15, <3>1, <3>2, <3>3
      <3>4. CASE p.in # c
        BY <1>15, <3>1, <3>2, <3>4
      <3> QED BY <3>3, <3>4
    <2>2. ASSUME NEW u \in Thread, s = <<"loop", u>>
          PROVE  Ref'[s] = IF s \in E THEN v ELSE IF s = z THEN c ELSE Ref[s]
      <3>1. s # z /\ s \notin E
        BY <1>17, <1>18, <2>2
      <3>2. loop'[u].vec = loop[u].vec
        BY <1>7 DEF Starts, SameLoops
      <3> QED BY <2>2, <3>1, <3>2, RefsAre, RefsBecome
    <2>3. ASSUME NEW u \in Thread, NEW k \in Nat, s = <<"task", <<u, k>>>>
          PROVE  Ref'[s] = IF s \in E THEN v ELSE IF s = z THEN c ELSE Ref[s]
      <3>1. (s = z <=> u = t /\ k = 2) /\ s \notin E
        BY <1>17, <1>18, <2>3
      <3> QED BY <1>10, <2>3, <3>1, RefsAre, RefsBecome DEF NewHand
    <2> QED BY <2>1, <2>2, <2>3, SlotIs
  <1>21. \A s \in E : Ref[s] = Null
    <2>1. ASSUME NEW s \in E
          PROVE  Ref[s] = Null
      <3>1. PICK i \in 1..n : s = <<"place", Element(c, i)>>
        BY <1>16 DEF FirstPlaces
      <3>2. i \in 1..MaxLen /\ i \in Nat
        BY <1>8
      <3>3. Element(c, i) \in Places /\ Element(c, i).in = c
        BY <3>2, PlacesAre
      <3> QED BY <1>15, <3>1, <3>3, RefsAre
    <2> QED BY <2>1
  <1>22. Ref' \in [AllSlots -> Cell \cup {Null}]
    <2>1. \A s \in AllSlots : Ref'[s] \in Cell \cup {Null}
      BY <1>8, <1>9, <1>20 DEF Core
    <2>2. Ref' = [s \in AllSlots |-> Ref'[s]]
      BY DEF Ref
    <2> QED BY <2>1, <2>2
  <1>23. /\ ref' \in [Cell -> Int]
         /\ \A d \in Cell : ref'[d] = IF d = c THEN 1 ELSE IF d = v THEN ref[d] + n ELSE ref[d]
    <2>1. ref' = [d \in Cell |-> IF d = c THEN 1 ELSE IF d = v THEN ref[d] + n ELSE ref[d]]
      BY <1>1, <1>2
    <2>2. ref \in [Cell -> Int]
      BY <1>8 DEF TypeOK
    <2> QED BY <1>8, <2>1, <2>2
  <1>24. Core'
    <2>1. kind \in [Cell -> {"free", "vector", "object"}]
      BY <1>8 DEF TypeOK
    <2>2. IsFiniteSet(E) /\ Cardinality(E) = n /\ z # Own(v)
      BY <1>8, <1>16, <1>19, CountPlaces
    <2>3. /\ Core /\ c \in Cell \ Live /\ n \in Nat /\ v \in (Live \ Dying) \cup {Null}
          /\ E \subseteq AllSlots /\ z \in AllSlots \ E /\ Ref[z] = Null
          /\ Dying' = Dying /\ Live' = Live \cup {c} /\ kind' = [kind EXCEPT ![c] = "vector"]
          /\ lost' = lost
      BY <1>8, <1>9, <1>11, <1>14, <1>15, <1>17, <1>19
    <2>4. \A s \in AllSlots : Ref'[s] = IF s \in E THEN v ELSE IF s = z THEN c ELSE Ref[s]
      BY <1>20
    <2>5. AddsVector(c, n, v, E, z)
      BY <1>21, <1>22, <1>23, <2>1, <2>2, <2>3, <2>4 DEF AddsVector
    <2> QED BY <2>3, <2>5, NewVector
  <1>25. \A d \in Cell : d # c /\ d # v => ref'[d] = ref[d]
    BY <1>23
  <1>26. TypeOK'
    BY <1>7, <1>8, <1>14, <1>15, <1>23 DEF TypeOK, RestTyped
  <1>27. TaskOK(t, 2)'
    <2>1. Job'[t][2] = b
      BY <1>7 DEF Starts
    <2>2. Mine(t, loc)'
      BY <1>5 DEF Mine, Owned
    <2>3. \A i \in 1..(2 - 1) : Job'[t][i].op \in {"unlock", "drop", "take"}
      BY <1>10 DEF OnlyUnlock
    <2>4. WriteOK(t, 2)'
      BY <1>6, <2>1, <2>2, <2>3 DEF WriteOK, Target
    <2> QED BY <1>6, <2>1, <2>4 DEF TaskOK, CopyOK, PopOK, ConstructOK, TakeOK, DropOK
  <1>28. AllOrderly'
    <2>1. \A d \in Live \ Dying : d \in Cell \ {c}
      BY <1>8, <1>14
    <2> QED BY <1>6, <1>7, <1>14, <1>15, <1>27, <2>1, Started
  <1>29. \A d \in Dying : Untouched(d)
    <2>1. ASSUME NEW d \in Dying
          PROVE  Untouched(d)
      <3>1. d \in Cell /\ d # c /\ d # v /\ Own(d) \in AllSlots
        BY <1>8, <1>9, <1>14, OwnSlot
      <3>2. Own(d) \notin E /\ Own(d) # z
        BY <1>17, <1>19, <3>1
      <3> QED BY <1>14, <1>15, <1>20, <1>25, <3>1, <3>2 DEF Untouched
    <2> QED BY <2>1
  <1> QED BY <1>10, <1>15, <1>24, <1>26, <1>28, <1>29, Mildly

LEMMA TwoValues ==
    ASSUME NEW S, NEW a \in S, NEW b \in S
    PROVE  /\ <<a, b>> \in Seq(S) /\ Len(<<a, b>>) = 2 /\ DOMAIN <<a, b>> = 1..2
           /\ <<a, b>>[1] = a /\ <<a, b>>[2] = b
  OBVIOUS

LEMMA NewObjectStep ==
    ASSUME IInv, NEW t \in Thread, newObject(t)
    PROVE  IInv'
  <1>1. PICK c \in Cell, x \in Shared \cup {t} :
           /\ Ready(t) /\ Fresh(c)
           /\ Made(c, "object", <<c, Null>>)
           /\ ref' = [ref EXCEPT ![c] = 2]
           /\ Execute(t, x \in Shared, << Task("construct", Variable(x), c) >>)
    BY DEF newObject
  <1>2. PICK loc : loc = Variable(x)
    OBVIOUS
  <1>3. loc \in Location /\ loc.in = Null /\ loc.at = x
    BY <1>2, NamesVariable
  <1>4. PICK b : b = Task("construct", loc, c)
    OBVIOUS
  <1>5. b \in TaskType /\ b.op = "construct" /\ b.loc = loc /\ b.c = c /\ Hand(b) = c
    BY <1>3, <1>4, NowhereIs DEF Task, TaskType, Op, Owns, Hand
  <1>6. PICK shared : shared = (x \in Shared)
    OBVIOUS
  <1>7. PICK m : m = IF shared THEN 2 ELSE 1
    OBVIOUS
  <1>8. Execute(t, shared, <<b>>) /\ m \in {1, 2} /\ shared \in BOOLEAN /\ m \in Nat
    BY <1>1, <1>2, <1>4, <1>6, <1>7
  <1>9. Starts(t, m, b) /\ RestTyped'
    BY <1>1, <1>5, <1>7, <1>8, Executes
  <1>10. /\ Core /\ TypeOK /\ Once /\ Live \subseteq Cell /\ Null \notin Cell /\ Dying \subseteq Live
         /\ 2 <= MaxLen /\ MaxLen \in Nat
    BY CellsAre, BoundsAssumption DEF IInv, Core
  <1>11. Mild /\ NewHand(t, m, c) /\ OnlyUnlock(t, m)'
    BY <1>5, <1>8, <1>9, StartsMild, OpsAre
  <1>12. Dying' = Dying /\ Stale' = Stale
    BY <1>10, <1>11, MildTables
  <1>13. PICK q : q = <<c, Null>>
    OBVIOUS
  <1>14. q \in Seq(Cell \cup {Null}) /\ Len(q) <= MaxLen /\ DOMAIN q = 1..2 /\ q[1] = c /\ q[2] = Null
    BY <1>10, <1>13, TwoValues
  <1>15. /\ c \in Cell \ Live /\ ran' = ran /\ lost' = lost /\ var' = var
         /\ kind' = [kind EXCEPT ![c] = "object"] /\ elems' = [elems EXCEPT ![c] = q]
    BY <1>1, <1>13 DEF Fresh, Made
  <1>16. /\ Live' = Live \cup {c} /\ kind'[c] = "object"
         /\ elems' \in [Cell -> Seq(Cell \cup {Null})]
         /\ \A d \in Cell : Len(elems'[d]) <= MaxLen
         /\ kind' \in [Cell -> {"free", "vector", "object"}]
         /\ \A d \in Cell \ {c} : kind'[d] = kind[d] /\ elems'[d] = elems[d]
         /\ \A p \in Places : p.in # c => Val'[p] = Val[p]
         /\ \A p \in Places : p.in = c =>
               /\ Val[p] = Null
               /\ Val'[p] = IF p.at \in DOMAIN q THEN q[p.at] ELSE Null
         /\ Whole' /\ Empty'
    BY <1>12, <1>14, <1>15, Placed
  <1>17. PICK z : z = <<"task", <<t, m>>>>
    OBVIOUS
  <1>18. z \in AllSlots /\ Ref[z] = Null /\ \A d : z # Own(d)
    <2>1. Hand(Job[t][m]) = Null
      BY <1>8, <1>9, NoTaskIs DEF Starts
    <2> QED BY <1>8, <1>17, <2>1, SlotsAre, RefsAre, NotOwn
  <1>19. PICK e : e = Element(c, 1)
    OBVIOUS
  <1>20. /\ e \in Places /\ e.in = c /\ e.at = 1 /\ Own(c) = <<"place", e>> /\ Own(c) \in AllSlots
         /\ \A p \in Places : p.in = c /\ p.at = 1 => p = e
    <2>1. 1 \in 1..MaxLen /\ 1 \in Nat
      BY <1>10
    <2>2. \A p \in Places : p.in = c /\ p.at = 1 => p = e
      BY <1>10, <1>19, PlaceIs
    <2> QED BY <1>19, <2>1, <2>2, PlacesAre, OwnSlot DEF Own
  <1>21. ASSUME NEW s \in AllSlots
         PROVE  Ref'[s] = IF s = Own(c) \/ s = z THEN c ELSE Ref[s]
    <2>1. ASSUME NEW p \in Places, s = <<"place", p>>
          PROVE  Ref'[s] = IF s = Own(c) \/ s = z THEN c ELSE Ref[s]
      <3>1. Ref'[s] = Val'[p] /\ Ref[s] = Val[p] /\ s # z
        BY <1>17, <2>1, RefsAre, RefsBecome
      <3>2. s = Own(c) <=> p = e
        BY <1>20, <2>1
      <3>3. CASE p.in = c
        <4>1. p = e => Val'[p] = c
          BY <1>14, <1>16, <1>20, <3>3
        <4>2. p # e => Val'[p] = Null /\ Val[p] = Null
          <5>1. p # e => p.at # 1
            BY <1>20, <3>3
          <5>2. p.at \in 1..2 /\ p.at # 1 => p.at = 2
            OBVIOUS
          <5> QED BY <1>14, <1>16, <3>3, <5>1, <5>2
        <4> QED BY <3>1, <3>2, <4>1, <4>2
      <3>4. CASE p.in # c
        BY <1>16, <1>20, <3>1, <3>2, <3>4
      <3> QED BY <3>3, <3>4
    <2>2. ASSUME NEW u \in Thread, s = <<"loop", u>>
          PROVE  Ref'[s] = IF s = Own(c) \/ s = z THEN c ELSE Ref[s]
      <3>1. s # z /\ s # Own(c)
        BY <1>17, <2>2, NotOwn
      <3>2. loop'[u].vec = loop[u].vec
        BY <1>9 DEF Starts, SameLoops
      <3> QED BY <2>2, <3>1, <3>2, RefsAre, RefsBecome
    <2>3. ASSUME NEW u \in Thread, NEW k \in Nat, s = <<"task", <<u, k>>>>
          PROVE  Ref'[s] = IF s = Own(c) \/ s = z THEN c ELSE Ref[s]
      <3>1. (s = z <=> u = t /\ k = m) /\ s # Own(c)
        BY <1>17, <2>3, NotOwn
      <3> QED BY <1>11, <2>3, <3>1, RefsAre, RefsBecome DEF NewHand
    <2> QED BY <2>1, <2>2, <2>3, SlotIs
  <1>22. Ref' = [Ref EXCEPT ![Own(c)] = c, ![z] = c] /\ Ref[Own(c)] = Null
    <2>1. PICK g : g = [Ref EXCEPT ![Own(c)] = c, ![z] = c]
      OBVIOUS
    <2>2. /\ DOMAIN g = AllSlots /\ g = [s \in AllSlots |-> g[s]]
          /\ \A s \in AllSlots : g[s] = IF s = Own(c) \/ s = z THEN c ELSE Ref[s]
      BY <1>10, <2>1 DEF Core
    <2>3. Ref' = g
      BY <1>21, <2>2, RefPointwise
    <2> QED BY <1>16, <1>20, <2>1, <2>3, RefsAre
  <1>23. ref' \in [Cell -> Int] /\ \A d \in Cell \ {c} : ref'[d] = ref[d]
    <2>1. ref \in [Cell -> Int] /\ 2 \in Int /\ ref' = [ref EXCEPT ![c] = 2]
      BY <1>1, <1>10 DEF TypeOK
    <2> QED BY <2>1, SetOne
  <1>24. Core'
    <2>1. kind \in [Cell -> {"free", "vector", "object"}] /\ ref' = [ref EXCEPT ![c] = 2]
      BY <1>1, <1>10 DEF TypeOK
    <2> QED BY <1>10, <1>12, <1>15, <1>16, <1>18, <1>22, <2>1, NewObject, ZenonT(60)
  <1>25. TypeOK'
    BY <1>9, <1>10, <1>15, <1>16, <1>23 DEF TypeOK, RestTyped
  <1>26. TaskOK(t, m)'
    <2>1. Job'[t][m] = b
      BY <1>9 DEF Starts
    <2>2. Mine(t, loc)'
      <3>1. x # t => lock' = t
        BY <1>6, <1>7, <1>9 DEF Starts
      <3> QED BY <1>3, <3>1 DEF Mine, Owned
    <2>3. ConstructOK(t, m)'
      BY <1>5, <1>11, <1>15, <1>16, <2>1, <2>2 DEF ConstructOK
    <2> QED BY <1>5, <2>1, <2>3 DEF TaskOK, WriteOK, CopyOK, PopOK, TakeOK, DropOK, Writes
  <1>27. AllOrderly'
    <2>1. \A d \in Live \ Dying : d \in Cell \ {c}
      BY <1>10, <1>15
    <2> QED BY <1>5, <1>8, <1>9, <1>15, <1>16, <1>26, <2>1, Started
  <1>28. \A d \in Dying : Untouched(d)
    <2>1. ASSUME NEW d \in Dying
          PROVE  Untouched(d)
      <3>1. d \in Cell /\ d # c /\ Own(d) \in AllSlots
        BY <1>10, <1>15, OwnSlot
      <3>2. Own(d) # Own(c) /\ Own(d) # z
        BY <1>15, <1>18, <3>1, OwnSlot
      <3> QED BY <1>15, <1>16, <1>21, <1>23, <3>1, <3>2 DEF Untouched
    <2> QED BY <2>1
  <1> QED BY <1>11, <1>16, <1>24, <1>25, <1>27, <1>28, Mildly


-----------------------------------------------------------------------------
(* The statements that append, delete a value, and loop.                   *)

\* A statement that locks begins with several tasks.
Runs(t, tasks) ==
    /\ todo \in [Thread -> Seq(TaskType)] /\ todo' \in [Thread -> Seq(TaskType)]
    /\ \A k \in Nat : Job[t][k] = NoTask
    /\ \A u \in Thread \ {t}, k \in Nat : Job'[u][k] = Job[u][k]
    /\ Len(tasks) \in Nat /\ Job'[t][1] = OfCell("unlock", Null)
    /\ \A k \in 1..Len(tasks) : Job'[t][k + 1] = tasks[Len(tasks) + 1 - k]
    /\ \A k \in Nat : k \notin 1..(Len(tasks) + 1) => Job'[t][k] = NoTask
    /\ lock = NoThread /\ lock' = t /\ lock # t /\ SameLoops

LEMMA AppendIs ==
    ASSUME NEW S, NEW q \in Seq(S), NEW b \in S
    PROVE  /\ Append(q, b) \in Seq(S) /\ Len(Append(q, b)) = Len(q) + 1 /\ Len(q) \in Nat
           /\ \A i \in 1..Len(q) : Append(q, b)[i] = q[i]
           /\ Append(q, b)[Len(q) + 1] = b
           /\ DOMAIN q = 1..Len(q) /\ DOMAIN Append(q, b) = 1..(Len(q) + 1)
  OBVIOUS

LEMMA RunsIs ==
    ASSUME IInv, NEW t \in Thread, Ready(t), NEW tasks \in Seq(TaskType), Execute(t, TRUE, tasks)
    PROVE  Runs(t, tasks) /\ RestTyped'
  <1>1. todo[t] = <<>> /\ left[t] > 0 /\ TypeOK
    BY DEF Ready, IInv
  <1>2. /\ left' = [left EXCEPT ![t] = @ - 1] /\ loop' = [loop EXCEPT ![t].body = FALSE]
        /\ lock = NoThread /\ lock' = t
        /\ todo' = [todo EXCEPT ![t] = Append(tasks, OfCell("unlock", Null))]
    BY DEF Execute
  <1>3. /\ left \in [Thread -> 0..Statements] /\ left[t] - 1 \in 0..Statements
        /\ loop \in [Thread -> [vec : Cell \cup {Null}, at : Nat, last : Nat, body : BOOLEAN]]
    BY <1>1, BoundsAssumption DEF TypeOK
  <1>4. left' \in [Thread -> 0..Statements]
    BY <1>2, <1>3
  <1>5. loop' \in [Thread -> [vec : Cell \cup {Null}, at : Nat, last : Nat, body : BOOLEAN]]
    BY <1>2, <1>3
  <1>6. SameLoops
    BY <1>2, <1>3 DEF SameLoops
  <1>7. PICK q, n : q = Append(tasks, OfCell("unlock", Null)) /\ n = Len(tasks)
    OBVIOUS
  <1>8. /\ q \in Seq(TaskType) /\ Len(q) = n + 1 /\ n \in Nat
        /\ \A i \in 1..n : q[i] = tasks[i]
        /\ q[n + 1] = OfCell("unlock", Null)
    BY <1>7, AppendIs, UnlockIs
  <1>9. /\ \A k \in Nat : Job[t][k] = NoTask
        /\ lock # t /\ todo \in [Thread -> Seq(TaskType)]
    BY <1>1, Idle
  <1>10. /\ \A u \in Thread \ {t}, k \in Nat : Job'[u][k] = Job[u][k]
         /\ todo' \in [Thread -> Seq(TaskType)]
         /\ \A k \in 1..Len(q) : Job'[t][k] = q[Len(q) + 1 - k]
         /\ \A k \in Nat : k \notin 1..Len(q) => Job'[t][k] = NoTask
    <2>1. todo' = [todo EXCEPT ![t] = q]
      BY <1>2, <1>7
    <2> QED BY <1>1, <1>8, <1>9, <2>1, Begun DEF Begins
  <1>11. Job'[t][1] = OfCell("unlock", Null)
    <2>1. 1 \in 1..(n + 1) /\ n + 1 + 1 - 1 = n + 1
      BY <1>8
    <2> QED BY <1>8, <1>10, <2>1
  <1>12. ASSUME NEW k \in 1..n
         PROVE  Job'[t][k + 1] = tasks[n + 1 - k]
    <2>1. k + 1 \in 1..(n + 1) /\ n + 1 + 1 - (k + 1) = n + 1 - k /\ n + 1 - k \in 1..n
      BY <1>8
    <2> QED BY <1>8, <1>10, <2>1
  <1>13. RestTyped'
    BY <1>2, <1>4, <1>5, <1>10 DEF RestTyped
  <1> QED BY <1>2, <1>6, <1>7, <1>8, <1>9, <1>10, <1>11, <1>12, <1>13 DEF Runs

\* A step of a thread that keeps the others as they are, apart from the lock.
LEMMA AroundRuns ==
    ASSUME NEW t \in Thread, NEW tasks, Runs(t, tasks), var' = var, kind' = kind, lost' = lost
    PROVE  Around(t)
  <1>1. \A u \in Thread : lock # u /\ (u # t => lock' # u)
    BY VariablesAssumption DEF Runs, Var
  <1> QED BY <1>1 DEF Around, Runs, SameLoops

LEMMA Longer ==
    ASSUME TypeOK, NEW c \in Cell, NEW n, n = Len(elems[c]), n < MaxLen, NEW v \in Cell \cup {Null},
           NEW e, e = Append(elems[c], v), elems' = [elems EXCEPT ![c] = e], var' = var
    PROVE  /\ elems' \in [Cell -> Seq(Cell \cup {Null})]
           /\ \A d \in Cell : Len(elems'[d]) <= MaxLen
           /\ \A d \in Cell \ {c} : elems'[d] = elems[d]
           /\ n + 1 \in Nat /\ Element(c, n + 1) \in Places /\ Element(c, n + 1).in = c
           /\ Stored(var, elems, Element(c, n + 1)) = Null
           /\ Stored(var', elems', Element(c, n + 1)) = v
           /\ \A q \in Places : q # Element(c, n + 1) =>
                 Stored(var', elems', q) = Stored(var, elems, q)
  <1>1. /\ elems \in [Cell -> Seq(Cell \cup {Null})] /\ elems[c] \in Seq(Cell \cup {Null})
        /\ \A d \in Cell : Len(elems[d]) <= MaxLen
    BY DEF TypeOK
  <1>2. e = Append(elems[c], v) /\ elems' = [elems EXCEPT ![c] = e]
    OBVIOUS
  <1>3. /\ e \in Seq(Cell \cup {Null}) /\ Len(e) = n + 1 /\ n \in Nat
        /\ \A i \in 1..n : e[i] = elems[c][i]
        /\ e[n + 1] = v /\ DOMAIN elems[c] = 1..n /\ DOMAIN e = 1..(n + 1)
    BY <1>1, <1>2, AppendIs
  <1>4. elems'[c] = e /\ \A d \in Cell \ {c} : elems'[d] = elems[d]
    BY <1>1, <1>2
  <1>5. elems' \in [Cell -> Seq(Cell \cup {Null})]
    BY <1>1, <1>2, <1>3
  <1>6. \A d \in Cell : Len(elems'[d]) <= MaxLen
    BY <1>1, <1>3, <1>4, BoundsAssumption
  <1>7. PICK p : p = Element(c, n + 1)
    OBVIOUS
  <1>8. p \in Places /\ p.in = c /\ p.at = n + 1 /\ c # Null /\ n + 1 \in Nat
    <2>1. n + 1 \in 1..MaxLen
      BY <1>3, BoundsAssumption
    <2> QED BY <1>3, <1>7, <2>1, PlacesAre, CellsAre
  <1>9. Stored(var, elems, p) = Null
    <2>1. n + 1 \notin 1..n
      BY <1>3
    <2> QED BY <1>3, <1>8, <2>1 DEF Stored
  <1>10. Stored(var', elems', p) = v
    <2>1. n + 1 \in 1..(n + 1)
      BY <1>3
    <2> QED BY <1>3, <1>4, <1>8, <2>1 DEF Stored
  <1>11. ASSUME NEW q \in Places, q # p
         PROVE  Stored(var', elems', q) = Stored(var, elems, q)
    <2>1. CASE q.in = Null
      BY <2>1 DEF Stored
    <2>2. CASE q.in = c
      <3>1. PICK i \in 1..MaxLen : q = Element(c, i) /\ q.at = i
        BY <1>8, <2>2, PlaceIs
      <3>2. i # n + 1
        BY <1>7, <1>11, <3>1
      <3>3. i \in 1..(n + 1) <=> i \in 1..n
        BY <1>3, <3>2
      <3> QED BY <1>3, <1>4, <1>8, <2>2, <3>1, <3>3 DEF Stored
    <2>3. CASE q.in # Null /\ q.in # c
      <3>1. q.in \in Cell \ {c}
        BY <2>3, PlaceIs
      <3> QED BY <1>4, <2>3, <3>1 DEF Stored
    <2> QED BY <2>1, <2>2, <2>3
  <1> QED BY <1>4, <1>5, <1>6, <1>7, <1>8, <1>9, <1>10, <1>11

LEMMA StreamCopyStep ==
    ASSUME IInv, NEW t \in Thread, streamCopy(t)
    PROVE  IInv'
  <1>1. PICK x \in Shared \cup {t}, y \in Shared \cup {t} :
           /\ Ready(t) /\ var[x] # Null /\ Len(elems[var[x]]) < MaxLen
           /\ incRef(var[y])
           /\ elems' = [elems EXCEPT ![var[x]] = Append(@, var[y])]
           /\ Execute(t, TRUE, <<>>)
           /\ UNCHANGED <<state, var>>
    BY DEF streamCopy
  <1>2. PICK c, v : c = var[x] /\ v = var[y]
    OBVIOUS
  <1>3. PICK tasks : tasks = <<>>
    OBVIOUS
  <1>4. tasks \in Seq(TaskType) /\ Len(tasks) = 0
    BY <1>3
  <1>5. Runs(t, tasks) /\ RestTyped'
    BY <1>1, <1>3, <1>4, RunsIs
  <1>6. /\ Core /\ TypeOK /\ Once /\ Whole /\ Empty
        /\ Live \subseteq Cell /\ Null \notin Cell /\ Dying \subseteq Live
        /\ todo[t] = <<>> /\ lock = NoThread /\ lock' = t
    BY <1>1, <1>5, CellsAre DEF IInv, Core, Ready, Runs
  <1>7. c \in Live \ Dying /\ c \in Cell /\ v \in Cell \cup {Null} /\ (v # Null => v \in Live \ Dying)
    BY <1>1, <1>2, <1>6, VariableLive
  <1>8. kind' = kind /\ ran' = ran /\ lost' = lost /\ var' = var
    BY <1>1 DEF state
  <1>9. \A k \in Nat : Job'[t][k].op \in {"unlock", "none"} /\ Hand(Job'[t][k]) = Null /\ Job[t][k] = NoTask
    <2>1. ASSUME NEW k \in Nat
          PROVE  Job'[t][k] \in {NoTask, OfCell("unlock", Null)}
      <3>1. k \in 1..(0 + 1) => k = 1
        OBVIOUS
      <3> QED BY <1>4, <1>5, <3>1 DEF Runs
    <2> QED BY <1>5, <2>1, UnlockIs, NoTaskIs DEF Runs
  <1>10. Mild /\ SameHands
    <2>1. "unlock" \notin Deletes \cup {"store"} /\ "none" \notin Deletes \cup {"store"}
      BY OpsAre
    <2> QED BY <1>5, <1>9, <2>1, NoTaskIs DEF Mild, SameHands, Runs
  <1>11. Dying' = Dying /\ Stale' = Stale
    BY <1>6, <1>10, MildTables
  <1>12. PICK n : n = Len(elems[c])
    OBVIOUS
  <1>13. PICK p : p = Element(c, n + 1)
    OBVIOUS
  <1>14. /\ elems' \in [Cell -> Seq(Cell \cup {Null})]
         /\ \A d \in Cell : Len(elems'[d]) <= MaxLen
         /\ \A d \in Cell \ {c} : elems'[d] = elems[d]
         /\ p \in Places /\ p.in = c
         /\ Stored(var, elems, p) = Null /\ Stored(var', elems', p) = v
         /\ \A q \in Places : q # p => Stored(var', elems', q) = Stored(var, elems, q)
    <2>1. PICK e : e = Append(elems[c], v)
      OBVIOUS
    <2>3. elems' = [elems EXCEPT ![c] = e]
      BY <1>1, <1>2, <2>1
    <2>4. n < MaxLen /\ n = Len(elems[c]) /\ TypeOK /\ c \in Cell /\ v \in Cell \cup {Null}
      BY <1>1, <1>2, <1>6, <1>7, <1>12
    <2>2. /\ elems' \in [Cell -> Seq(Cell \cup {Null})]
          /\ \A d \in Cell : Len(elems'[d]) <= MaxLen
          /\ \A d \in Cell \ {c} : elems'[d] = elems[d]
          /\ n + 1 \in Nat /\ Element(c, n + 1) \in Places /\ Element(c, n + 1).in = c
          /\ Stored(var, elems, Element(c, n + 1)) = Null
          /\ Stored(var', elems', Element(c, n + 1)) = v
          /\ \A q \in Places : q # Element(c, n + 1) =>
                Stored(var', elems', q) = Stored(var, elems, q)
      BY <1>8, <2>1, <2>3, <2>4, Longer
    <2> QED BY <1>13, <2>2
  <1>15. p \notin Stale
    <2> SUFFICES ASSUME p \in Stale
                 PROVE  FALSE
      OBVIOUS
    <2>1. PICK u \in Thread, k \in Nat : Job[u][k].op = "store" /\ Job[u][k].loc = p
      BY OverwrittenBy DEF IInv, TypeOK
    <2>2. Relies(u, k, c)
      BY <1>14, <2>1 DEF Relies, Writes
    <2>3. lock = u
      BY <1>7, <2>2, ReliedLive
    <2> QED BY <1>6, <2>3, VariablesAssumption DEF Var
  <1>16. PICK s : s = <<"place", p>>
    OBVIOUS
  <1>17. s \in AllSlots /\ Ref[s] = Null /\ \A d \in Cell : s = Own(d) => d = c
    <2>1. \A d \in Cell : s = Own(d) => d = c
      BY <1>14, <1>16 DEF Own, Element
    <2> QED BY <1>14, <1>15, <1>16, <2>1, SlotsAre, RefsAre, ValsAre
  <1>18. Ref' = [Ref EXCEPT ![s] = v]
    <2>1. Val' = [Val EXCEPT ![p] = v]
      BY <1>11, <1>14, <1>15, ValAt, ValsAre
    <2>2. SameLoops
      BY <1>5 DEF Runs
    <2> QED BY <1>10, <1>14, <1>16, <2>1, <2>2, RefPlace
  <1>19. /\ ref' \in [Cell -> Int]
         /\ \A d \in Cell \ {v} : ref'[d] = ref[d]
         /\ v = Null => ref' = ref
         /\ v \in Cell => ref' = [ref EXCEPT ![v] = @ + 1]
    <2>1. incRef(v) /\ ref \in [Cell -> Int]
      BY <1>1, <1>2, <1>6 DEF TypeOK
    <2> QED BY <1>7, <2>1, CountsType
  <1>20. Core'
    <2>1. CASE v = Null
      <3>1. Ref' = Ref
        BY <1>6, <1>17, <1>18, <2>1 DEF Core
      <3>2. Live' = Live
        BY <1>8 DEF Live
      <3> QED BY <1>6, <1>8, <1>11, <1>19, <2>1, <3>1, <3>2, SameReferences DEF Kept
    <2>2. CASE v # Null
      BY <1>6, <1>7, <1>8, <1>11, <1>17, <1>18, <1>19, <2>2, OneMore
    <2> QED BY <2>1, <2>2
  <1>21. TypeOK'
    BY <1>5, <1>6, <1>8, <1>14, <1>19 DEF TypeOK, RestTyped
  <1>22. AllOrderly'
    <2>1. Locked(t)'
      <3>1. Job'[t][1].op = "unlock"
        BY <1>5, UnlockIs DEF Runs
      <3>2. ASSUME NEW k \in Nat, Job'[t][k].op = "unlock"
            PROVE  k = 1
        <4>1. k \in 1..(0 + 1) => k = 1
          OBVIOUS
        <4> QED BY <1>4, <1>5, <3>2, <4>1, NoTaskIs DEF Runs
      <3> QED BY <1>6, <3>1, <3>2 DEF Locked
    <2>2. Orderly(t)'
      BY <1>9, <2>1, Plain
    <2>3. Around(t)
      BY <1>5, <1>8, AroundRuns
    <2> QED BY <2>2, <2>3, OrderlyStep
  <1>23. \A d \in Dying : Untouched(d)
    <2>1. ASSUME NEW d \in Dying
          PROVE  Untouched(d)
      <3>1. d \in Cell /\ d # c /\ d # v /\ Own(d) \in AllSlots
        BY <1>6, <1>7, OwnSlot
      <3>2. Own(d) # s
        BY <1>17, <3>1
      <3>3. Ref'[Own(d)] = Ref[Own(d)]
        BY <1>6, <1>18, <3>1, <3>2 DEF Core
      <3> QED BY <1>8, <1>19, <3>1, <3>3 DEF Untouched
    <2> QED BY <2>1
  <1>24. Whole'
    BY <1>6, <1>8, <1>11, WholeKeeps
  <1>25. Empty'
    BY <1>6, <1>7, <1>8, <1>14 DEF Empty, Live
  <1> QED BY <1>10, <1>20, <1>21, <1>22, <1>23, <1>24, <1>25, Mildly

LEMMA DelsubStep ==
    ASSUME IInv, NEW t \in Thread, delsub(t)
    PROVE  IInv'
  <1>1. PICK x \in Shared \cup {t}, i \in 1..MaxLen :
           /\ Ready(t) /\ var[x] # Null /\ kind[var[x]] = "vector"
           /\ i <= Len(elems[var[x]])
           /\ Execute(t, TRUE, Append([j \in 1..(Len(elems[var[x]]) - i) |->
                                 Assignment(Element(var[x], i + j - 1), Element(var[x], i + j))],
                              OfCell("pop", var[x])))
           /\ UNCHANGED <<heap, var>>
    BY DEF delsub
  <1>2. PICK c, n : c = var[x] /\ n = Len(elems[c])
    OBVIOUS
  <1>3. PICK q : q = [j \in 1..(n - i) |-> Assignment(Element(c, i + j - 1), Element(c, i + j))]
    OBVIOUS
  <1>4. PICK b : b = OfCell("pop", c)
    OBVIOUS
  <1>5. PICK tasks : tasks = Append(q, b)
    OBVIOUS
  <1>6. c \in Cell /\ i \in Nat /\ n \in Nat /\ i <= n /\ DOMAIN elems[c] = 1..n /\ x \in Var /\ i >= 1
    <2>1. x \in Var /\ var \in [Var -> Cell \cup {Null}] /\ elems \in [Cell -> Seq(Cell \cup {Null})]
      BY NamesVariable DEF IInv, TypeOK
    <2>2. c \in Cell
      BY <1>1, <1>2, <2>1
    <2>3. elems[c] \in Seq(Cell \cup {Null})
      BY <2>1, <2>2
    <2> QED BY <1>1, <1>2, <2>1, <2>2, <2>3, BoundsAssumption
  <1>7. \A j \in 1..(n - i) :
           /\ Element(c, i + j - 1).in = c /\ Element(c, i + j - 1).at \in 1..n
           /\ Element(c, i + j).in = c
           /\ q[j] \in TaskType /\ q[j].op = "copy"
           /\ q[j].loc = Element(c, i + j - 1) /\ q[j].from = Element(c, i + j)
    <2>1. ASSUME NEW j \in 1..(n - i)
          PROVE  /\ Element(c, i + j - 1).in = c /\ Element(c, i + j - 1).at \in 1..n
                 /\ Element(c, i + j).in = c
                 /\ q[j] \in TaskType /\ q[j].op = "copy"
                 /\ q[j].loc = Element(c, i + j - 1) /\ q[j].from = Element(c, i + j)
      <3>1. i + j - 1 \in 1..n /\ i + j - 1 \in Nat /\ i + j \in Nat
        BY <1>6
      <3>2. /\ Element(c, i + j - 1) \in Location /\ Element(c, i + j) \in Location
            /\ Element(c, i + j - 1).in = c /\ Element(c, i + j - 1).at = i + j - 1
            /\ Element(c, i + j).in = c
        BY <1>6, <3>1, PlacesAre
      <3>3. q[j] = Assignment(Element(c, i + j - 1), Element(c, i + j))
        BY <1>3
      <3> QED BY <3>1, <3>2, <3>3, AssignmentIs
    <2> QED BY <2>1
  <1>8. q \in Seq(TaskType) /\ Len(q) = n - i /\ n - i \in Nat
    <2>1. n - i \in Nat
      BY <1>6
    <2>2. q \in [1..(n - i) -> TaskType]
      <3>1. DOMAIN q = 1..(n - i) /\ q = [j \in 1..(n - i) |-> q[j]]
        BY <1>3
      <3> QED BY <1>7, <3>1
    <2> QED BY <2>1, <2>2
  <1>9. b \in TaskType /\ b.op = "pop" /\ b.c = c
    BY <1>4, <1>6, NowhereIs DEF OfCell, Task, TaskType, Op
  <1>10. PICK m : m = n - i + 1
    OBVIOUS
  <1>11. /\ tasks \in Seq(TaskType) /\ Len(tasks) = m /\ m \in Nat /\ m >= 1
         /\ \A j \in 1..(m - 1) : tasks[j] = q[j]
         /\ tasks[m] = b /\ m - 1 = n - i
    <2>1. m \in Nat /\ m >= 1 /\ m - 1 = n - i
      BY <1>8, <1>10
    <2> QED BY <1>5, <1>8, <1>9, <1>10, <2>1, AppendIs
  <1>12. Runs(t, tasks) /\ RestTyped'
    <2>1. Execute(t, TRUE, tasks)
      BY <1>1, <1>2, <1>3, <1>4, <1>5
    <2> QED BY <1>1, <1>11, <2>1, RunsIs
  <1>13. /\ kind' = kind /\ ran' = ran /\ lost' = lost /\ elems' = elems /\ ref' = ref /\ var' = var
         /\ lock' = t
    BY <1>1, <1>12 DEF heap, state, Runs
  <1>14. Job'[t][1] = OfCell("unlock", Null) /\ Job'[t][2] = b
    <2>1. 1 \in 1..m /\ 1 + 1 = 2 /\ m + 1 - 1 = m
      BY <1>11
    <2> QED BY <1>11, <1>12, <2>1 DEF Runs
  <1>15. ASSUME NEW k \in Nat, k # 1, k # 2
         PROVE  Job'[t][k] = NoTask \/ \E j \in 1..(n - i) : Job'[t][k] = q[j]
    <2>1. CASE k \notin 1..(m + 1)
      BY <1>11, <1>12, <2>1 DEF Runs
    <2>2. CASE k \in 1..(m + 1)
      <3>1. PICK h \in 1..m : h = k - 1 /\ k = h + 1
        BY <1>11, <1>15, <2>2
      <3>2. Job'[t][h + 1] = tasks[m + 1 - h]
        BY <1>11, <1>12 DEF Runs
      <3>3. m + 1 - h \in 1..(m - 1)
        BY <1>11, <1>15, <2>2, <3>1
      <3> QED BY <1>11, <3>1, <3>2, <3>3
    <2> QED BY <2>1, <2>2
  <1>16. ASSUME NEW k \in Nat
         PROVE  /\ Job'[t][k].op \in {"unlock", "pop", "copy", "none"}
                /\ Job'[t][k].op = "unlock" => k = 1
                /\ Job'[t][k].op = "pop" => k = 2 /\ Job'[t][k].c = c
                /\ Job'[t][k].op = "copy" =>
                      \E j \in 1..(n - i) : Job'[t][k] = q[j]
    BY <1>7, <1>9, <1>14, <1>15, UnlockIs, NoTaskIs
  <1>17. Mild /\ SameHands
    <2>1. /\ \A op \in {"unlock", "pop", "copy", "none"} : op \notin Deletes \cup {"store"} /\ op \notin Owns
      BY OpsAre
    <2>2. \A k \in Nat : Job[t][k] = NoTask
      BY <1>12 DEF Runs
    <2>3. \A k \in Nat : Hand(Job'[t][k]) = Null
      BY <1>16, <2>1 DEF Hand
    <2>4. ASSUME NEW u \in Thread \ {t}, NEW k \in Nat
          PROVE  Job'[u][k] = Job[u][k]
      BY <1>12 DEF Runs
    <2>5. \A k \in Nat : Hand(Job[t][k]) = Null
      BY <2>2, NoTaskIs
    <2>6. SameHands
      BY <2>3, <2>4, <2>5 DEF SameHands
    <2>7. \A k \in Nat : /\ Job[t][k].op \notin Deletes \cup {"store"}
                         /\ Job'[t][k].op \notin Deletes \cup {"store"}
      BY <1>16, <2>1, <2>2, NoTaskIs
    <2>8. Mild
      BY <1>12, <2>4, <2>7 DEF Mild, Runs
    <2> QED BY <2>6, <2>8
  <1>18. HeldBy(t, c)' /\ Anchored(t, c)'
    <2>1. Owned(t, x)' /\ var'[x] = c
      BY <1>2, <1>13 DEF Owned
    <2> QED BY <1>6, <2>1 DEF HeldBy, Anchored
  <1>19. ASSUME NEW k \in Nat
         PROVE  TaskOK(t, k)'
    <2>1. ASSUME Job'[t][k].op = "copy"
          PROVE  WriteOK(t, k)' /\ CopyOK(t, k)'
      <3>1. PICK j \in 1..(n - i) : Job'[t][k] = q[j]
        BY <1>16, <2>1
      <3>2. PICK to, from : to = Job'[t][k].loc /\ from = Job'[t][k].from
        OBVIOUS
      <3>3. to.in = c /\ to.at \in 1..n /\ from.in = c /\ c # Null
        BY <1>6, <1>7, <3>1, <3>2, CellsAre
      <3>4. Within(t, to)'
        BY <1>1, <1>2, <1>6, <1>13, <1>18, <3>3 DEF Within
      <3> QED BY <1>13, <1>18, <3>2, <3>3, <3>4 DEF WriteOK, CopyOK, Target
    <2>2. ASSUME Job'[t][k].op = "pop"
          PROVE  PopOK(t, k)'
      <3>1. k = 2 /\ Job'[t][k].c = c
        BY <1>16, <2>2
      <3>2. OnlyUnlock(t, k)'
        <4>1. \A h \in 1..(2 - 1) : h = 1
          OBVIOUS
        <4> QED BY <1>14, <3>1, <4>1, UnlockIs DEF OnlyUnlock
      <3>3. 1 \in DOMAIN elems'[c] /\ kind'[c] = "vector"
        BY <1>1, <1>2, <1>6, <1>13
      <3> QED BY <1>6, <1>13, <1>18, <3>1, <3>2, <3>3 DEF PopOK
    <2> QED BY <1>16, <2>1, <2>2
            DEF TaskOK, WriteOK, CopyOK, PopOK, ConstructOK, TakeOK, DropOK, Writes
  <1>20. AllOrderly'
    <2>1. Locked(t)'
      BY <1>13, <1>14, <1>16, UnlockIs DEF Locked
    <2>2. StoreNext(t)'
      BY <1>16 DEF StoreNext
    <2>3. Orderly(t)'
      BY <1>19, <2>1, <2>2 DEF Orderly
    <2>4. Around(t)
      BY <1>12, <1>13, AroundRuns
    <2> QED BY <2>3, <2>4, OrderlyStep
  <1>21. TypeOK' /\ SameLoops
    BY <1>12, <1>13 DEF RestTyped, TypeOK, IInv, Runs
  <1> QED BY <1>13, <1>17, <1>20, <1>21, MildSame

\* A thread that has nothing to do, and begins nothing.
LEMMA IdleStays ==
    ASSUME IInv, NEW t \in Thread, todo[t] = <<>>, todo' = todo, lock' = lock
    PROVE  /\ Mild /\ SameHands /\ Orderly(t)'
           /\ \A u \in Thread, k \in Nat : Job'[u][k] = Job[u][k]
  <1>1. \A u \in Thread, k \in Nat : Job'[u][k] = Job[u][k]
    BY DEF Job
  <1>2. (\A k \in Nat : Job[t][k] = NoTask) /\ lock # t /\ todo \in [Thread -> Seq(TaskType)]
    BY Idle
  <1>3. Mild /\ SameHands
    BY <1>1, <1>2 DEF Mild, SameHands
  <1>4. Locked(t)'
    BY <1>1, <1>2, NoTaskIs DEF Locked
  <1>5. Orderly(t)'
    BY <1>1, <1>2, <1>4, NoTaskIs, Plain
  <1> QED BY <1>1, <1>3, <1>5

LEMMA ForeachStep ==
    ASSUME IInv, NEW t \in Thread, Foreach(t)
    PROVE  IInv'
  <1>1. PICK x \in Shared \cup {t} :
           /\ todo[t] = <<>> /\ left[t] > 0 /\ loop[t].vec = Null
           /\ lock = NoThread /\ var[x] # Null
           /\ incRef(var[x])
           /\ loop' = [loop EXCEPT ![t] = [vec |-> var[x], at |-> 1, body |-> FALSE,
                                           last |-> Len(elems[var[x]])]]
           /\ left' = [left EXCEPT ![t] = @ - 1]
           /\ UNCHANGED <<state, places, todo, lock>>
    BY DEF Foreach
  <1>2. PICK c : c = var[x]
    OBVIOUS
  <1>3. /\ Core /\ TypeOK /\ Once /\ Live \subseteq Cell /\ Null \notin Cell /\ Dying \subseteq Live
    BY CellsAre DEF IInv, Core
  <1>4. c \in Live \ Dying /\ c \in Cell
    BY <1>1, <1>2, VariableLive
  <1>5. /\ kind' = kind /\ ran' = ran /\ lost' = lost /\ elems' = elems /\ var' = var
        /\ todo' = todo /\ lock' = lock
    BY <1>1 DEF state, places
  <1>6. /\ Mild /\ SameHands /\ Orderly(t)'
        /\ \A u \in Thread, k \in Nat : Job'[u][k] = Job[u][k]
    BY <1>1, <1>5, IdleStays
  <1>7. Dying' = Dying /\ Stale' = Stale
    BY <1>3, <1>6, MildTables
  <1>8. /\ loop' \in [Thread -> [vec : Cell \cup {Null}, at : Nat, last : Nat, body : BOOLEAN]]
        /\ loop'[t].vec = c /\ \A u \in Thread \ {t} : loop'[u].vec = loop[u].vec
    <2>1. loop \in [Thread -> [vec : Cell \cup {Null}, at : Nat, last : Nat, body : BOOLEAN]]
      BY <1>3 DEF TypeOK
    <2>2. Len(elems[c]) \in Nat
      <3>1. elems[c] \in Seq(Cell \cup {Null})
        BY <1>3, <1>4 DEF TypeOK
      <3> QED BY <3>1
    <2>3. PICK l : l = [vec |-> c, at |-> 1, body |-> FALSE, last |-> Len(elems[c])]
      OBVIOUS
    <2>4. l \in [vec : Cell \cup {Null}, at : Nat, last : Nat, body : BOOLEAN] /\ l.vec = c
      BY <1>4, <2>2, <2>3
    <2>5. loop' = [loop EXCEPT ![t] = l]
      BY <1>1, <1>2, <2>3
    <2> QED BY <2>1, <2>4, <2>5
  <1>9. left' \in [Thread -> 0..Statements]
    <2>1. left \in [Thread -> 0..Statements] /\ left[t] - 1 \in 0..Statements
      BY <1>1, <1>3, BoundsAssumption DEF TypeOK
    <2> QED BY <1>1, <2>1
  <1>10. PICK s : s = <<"loop", t>>
    OBVIOUS
  <1>11. s \in AllSlots /\ Ref[s] = Null /\ \A d : s # Own(d)
    BY <1>1, <1>10, SlotsAre, RefsAre, NotOwn
  <1>12. Ref' = [Ref EXCEPT ![s] = c]
    <2>1. Val' = Val
      BY <1>5, <1>7, ValSame
    <2> QED BY <1>6, <1>8, <1>10, <2>1, RefLoop
  <1>13. /\ ref' \in [Cell -> Int] /\ ref' = [ref EXCEPT ![c] = @ + 1]
         /\ \A d \in Cell \ {c} : ref'[d] = ref[d]
    <2>1. incRef(c) /\ ref \in [Cell -> Int]
      BY <1>1, <1>2, <1>3 DEF TypeOK
    <2> QED BY <1>4, <2>1, CountsType
  <1>14. Core'
    BY <1>3, <1>4, <1>5, <1>7, <1>11, <1>12, <1>13, OneMore
  <1>15. TypeOK'
    BY <1>3, <1>5, <1>8, <1>9, <1>13 DEF TypeOK
  <1>16. AllOrderly'
    <2>1. Around(t)
      BY <1>5, <1>6, <1>8 DEF Around
    <2> QED BY <1>6, <2>1, OrderlyStep
  <1>17. \A d \in Dying : Untouched(d)
    <2>1. ASSUME NEW d \in Dying
          PROVE  Untouched(d)
      <3>1. d \in Cell /\ d # c /\ Own(d) \in AllSlots /\ Own(d) # s
        BY <1>3, <1>4, <1>11, OwnSlot
      <3>2. Ref'[Own(d)] = Ref[Own(d)]
        BY <1>3, <1>12, <3>1 DEF Core
      <3> QED BY <1>5, <1>13, <3>1, <3>2 DEF Untouched
    <2> QED BY <2>1
  <1>18. Whole' /\ Empty'
    BY <1>5, <1>7, WholeKeeps, EmptyKeeps DEF IInv
  <1> QED BY <1>6, <1>14, <1>15, <1>16, <1>17, <1>18, Mildly

LEMMA LoopEnds ==
    ASSUME IInv, NEW t \in Thread, todo[t] = <<>>, NEW v, v = loop[t].vec, v # Null,
           lock = NoThread, lock' = lock, loop' = [loop EXCEPT ![t] = NoLoop],
           todo' = [todo EXCEPT ![t] = << OfCell("dec", v) >>], UNCHANGED <<heap, var, left>>
    PROVE  IInv'
  <1>1. /\ Core /\ TypeOK /\ Once /\ Live \subseteq Cell /\ Null \notin Cell /\ Dying \subseteq Live
    BY CellsAre DEF IInv, Core
  <1>2. loop \in [Thread -> [vec : Cell \cup {Null}, at : Nat, last : Nat, body : BOOLEAN]]
    BY <1>1 DEF TypeOK
  <1>3. v \in Cell
    BY <1>2
  <1>4. PICK b : b = OfCell("dec", v)
    OBVIOUS
  <1>5. b \in TaskType /\ b.op = "dec" /\ Hand(b) = v
    BY <1>3, <1>4, NowhereIs DEF OfCell, Task, TaskType, Op, Owns, Hand
  <1>6. /\ \A k \in Nat : Job[t][k] = NoTask
        /\ lock # t /\ todo \in [Thread -> Seq(TaskType)]
    BY Idle
  <1>7. /\ \A u \in Thread \ {t}, k \in Nat : Job'[u][k] = Job[u][k]
        /\ todo' \in [Thread -> Seq(TaskType)]
        /\ Job'[t][1] = b /\ \A k \in Nat : k # 1 => Job'[t][k] = NoTask
    <2>1. PICK q : q = <<b>>
      OBVIOUS
    <2>2. q \in Seq(TaskType) /\ Len(q) = 1 /\ q[1] = b /\ todo' = [todo EXCEPT ![t] = q]
      BY <1>4, <1>5, <2>1
    <2>3. Begins(t, q)
      BY <1>6, <2>2, Begun
    <2>4. \A k \in Nat : k # 1 => k \notin 1..1
      OBVIOUS
    <2>5. 1 \in 1..1 /\ 1 + 1 - 1 = 1
      OBVIOUS
    <2> QED BY <2>2, <2>3, <2>4, <2>5 DEF Begins
  <1>8. /\ kind' = kind /\ ran' = ran /\ lost' = lost /\ elems' = elems /\ var' = var
        /\ ref' = ref /\ left' = left
    BY DEF heap, state
  <1>9. Mild /\ NewHand(t, 1, v)
    <2>1. "dec" \notin Deletes \cup {"store"}
      BY OpsAre
    <2>2. Mild
      BY <1>5, <1>6, <1>7, <2>1, NoTaskIs DEF Mild
    <2>3. NewHand(t, 1, v)
      BY <1>5, <1>6, <1>7 DEF NewHand
    <2> QED BY <2>2, <2>3
  <1>10. Dying' = Dying /\ Stale' = Stale
    BY <1>1, <1>9, MildTables
  <1>11. /\ loop' \in [Thread -> [vec : Cell \cup {Null}, at : Nat, last : Nat, body : BOOLEAN]]
         /\ loop'[t].vec = Null /\ \A u \in Thread \ {t} : loop'[u].vec = loop[u].vec
    <2>1. NoLoop \in [vec : Cell \cup {Null}, at : Nat, last : Nat, body : BOOLEAN] /\ NoLoop.vec = Null
      BY DEF NoLoop
    <2> QED BY <1>2, <2>1
  <1>12. PICK s, z : s = <<"loop", t>> /\ z = <<"task", <<t, 1>>>>
    OBVIOUS
  <1>13. /\ s \in AllSlots /\ z \in AllSlots /\ s # z /\ Ref[s] = v /\ Ref[z] = Null
         /\ \A d : s # Own(d) /\ z # Own(d)
    <2>1. Hand(Job[t][1]) = Null
      BY <1>6, NoTaskIs
    <2> QED BY <1>12, <2>1, SlotsAre, RefsAre, NotOwn
  <1>14. Ref' = [Ref EXCEPT ![s] = Null, ![z] = v]
    <2>1. Val' = Val
      BY <1>8, <1>10, ValSame
    <2> QED BY <1>9, <1>11, <1>12, <2>1, RefLoopEnds
  <1>15. Core'
    BY <1>1, <1>3, <1>8, <1>10, <1>13, <1>14, Moved
  <1>16. TypeOK'
    BY <1>1, <1>7, <1>8, <1>11 DEF TypeOK
  <1>17. AllOrderly'
    <2>1. Locked(t)'
      BY <1>5, <1>6, <1>7, NoTaskIs DEF Locked
    <2>2. \A k \in Nat : Job'[t][k].op \in {"dec", "none"}
      BY <1>5, <1>7, NoTaskIs
    <2>3. Orderly(t)'
      BY <2>1, <2>2, Plain
    <2>4. Around(t)
      BY <1>7, <1>8, <1>11 DEF Around
    <2> QED BY <2>3, <2>4, OrderlyStep
  <1>18. \A d \in Dying : Untouched(d)
    <2>1. ASSUME NEW d \in Dying
          PROVE  Untouched(d)
      <3>1. Own(d) \in AllSlots /\ Own(d) # s /\ Own(d) # z
        BY <1>1, <1>13, OwnSlot
      <3>2. Ref'[Own(d)] = Ref[Own(d)]
        BY <1>1, <1>14, <3>1 DEF Core
      <3> QED BY <1>8, <3>2 DEF Untouched
    <2> QED BY <2>1
  <1>19. Whole' /\ Empty'
    BY <1>8, <1>10, WholeKeeps, EmptyKeeps DEF IInv
  <1> QED BY <1>9, <1>15, <1>16, <1>17, <1>18, <1>19, Mildly

LEMMA NextElementStep ==
    ASSUME IInv, NEW t \in Thread, NextElement(t)
    PROVE  IInv'
  <1>1. PICK v : v = loop[t].vec
    OBVIOUS
  <1>2. /\ todo[t] = <<>> /\ v # Null /\ lock = NoThread /\ UNCHANGED <<heap, var, left>>
    BY <1>1 DEF NextElement
  <1>3. CASE loop[t].at > loop[t].last
    <2>1. /\ loop' = [loop EXCEPT ![t] = NoLoop] /\ lock' = lock
          /\ todo' = [todo EXCEPT ![t] = << OfCell("dec", v) >>]
      BY <1>1, <1>3 DEF NextElement
    <2> QED BY <1>1, <1>2, <2>1, LoopEnds
  <1>4. CASE ~(loop[t].at > loop[t].last)
    <2>1. PICK to, from : to = Variable(t) /\ from = Element(v, loop[t].at)
      OBVIOUS
    <2>2. PICK b : b = Assignment(to, from)
      OBVIOUS
    <2>3. /\ loop' = [loop EXCEPT ![t].at = @ + 1, ![t].body = TRUE] /\ lock' = t
          /\ todo' = [todo EXCEPT ![t] = << b, OfCell("unlock", Null) >>]
      BY <1>1, <1>4, <2>1, <2>2 DEF NextElement
    <2>4. loop \in [Thread -> [vec : Cell \cup {Null}, at : Nat, last : Nat, body : BOOLEAN]] /\ TypeOK
      BY DEF IInv, TypeOK
    <2>5. v \in Cell /\ loop[t].at \in Nat
      BY <1>1, <1>2, <2>4
    <2>6. /\ loop' \in [Thread -> [vec : Cell \cup {Null}, at : Nat, last : Nat, body : BOOLEAN]]
          /\ SameLoops /\ loop'[t].vec = v
      <3>1. PICK g : g = [loop EXCEPT ![t].at = @ + 1]
        OBVIOUS
      <3>2. /\ g \in [Thread -> [vec : Cell \cup {Null}, at : Nat, last : Nat, body : BOOLEAN]]
            /\ g[t].vec = v /\ \A u \in Thread \ {t} : g[u] = loop[u]
        BY <1>1, <2>4, <2>5, <3>1
      <3>3. loop' = [g EXCEPT ![t].body = TRUE]
        BY <2>3, <2>4, <3>1
      <3>4. /\ loop' \in [Thread -> [vec : Cell \cup {Null}, at : Nat, last : Nat, body : BOOLEAN]]
            /\ loop'[t].vec = g[t].vec /\ \A u \in Thread \ {t} : loop'[u] = g[u]
        BY <3>2, <3>3
      <3>5. \A u \in Thread : loop'[u].vec = loop[u].vec
        BY <1>1, <3>2, <3>4
      <3> QED BY <1>1, <3>4, <3>5 DEF SameLoops
    <2>7. /\ to \in Location /\ to.in = Null /\ to.at = t /\ from \in Location /\ from.in = v
      BY <2>1, <2>5, NamesVariable, PlacesAre
    <2>8. b \in TaskType /\ b.op = "copy" /\ b.loc = to /\ b.from = from
      BY <2>2, <2>7, AssignmentIs
    <2>9. Starts(t, 2, b)
      <3>1. PICK q : q = << b, OfCell("unlock", Null) >>
        OBVIOUS
      <3>2. q \in Seq(TaskType) /\ Len(q) = 2 /\ q[1] = b /\ q[2] = OfCell("unlock", Null)
        BY <2>8, <3>1, TwoValues, UnlockIs
      <3>3. todo' = [todo EXCEPT ![t] = q]
        BY <2>3, <3>1
      <3> QED BY <1>2, <2>3, <2>6, <2>8, <3>2, <3>3, BegunIs
    <2>10. RestTyped'
      BY <1>2, <2>3, <2>4, <2>6, <2>9 DEF RestTyped, Starts, TypeOK
    <2>11. Target(t, to)'
      BY <2>7 DEF Target, Mine, Owned
    <2>12. Anchored(t, from.in)'
      BY <2>5, <2>6, <2>7 DEF Anchored
    <2> QED BY <1>2, <2>8, <2>9, <2>10, <2>11, <2>12, CopyStarts
  <1> QED BY <1>3, <1>4

LEMMA EmptyBodyStep ==
    ASSUME IInv, NEW t \in Thread, EmptyBody(t)
    PROVE  IInv'
  <1>1. /\ todo[t] = <<>> /\ loop' = [loop EXCEPT ![t].body = FALSE]
        /\ UNCHANGED <<heap, var, todo, lock, left>>
    BY DEF EmptyBody
  <1>2. /\ kind' = kind /\ ran' = ran /\ lost' = lost /\ elems' = elems /\ var' = var
        /\ ref' = ref /\ left' = left /\ todo' = todo /\ lock' = lock
    BY <1>1 DEF heap, state
  <1>3. /\ Mild /\ SameHands /\ Orderly(t)'
        /\ \A u \in Thread, k \in Nat : Job'[u][k] = Job[u][k]
    BY <1>1, <1>2, IdleStays
  <1>4. /\ loop' \in [Thread -> [vec : Cell \cup {Null}, at : Nat, last : Nat, body : BOOLEAN]]
        /\ SameLoops
    <2>1. loop \in [Thread -> [vec : Cell \cup {Null}, at : Nat, last : Nat, body : BOOLEAN]]
      BY DEF IInv, TypeOK
    <2> QED BY <1>1, <2>1 DEF SameLoops
  <1>5. TypeOK'
    BY <1>2, <1>4 DEF TypeOK, IInv
  <1>6. AllOrderly'
    <2>1. Around(t)
      BY <1>2, <1>3, <1>4 DEF Around, SameLoops
    <2> QED BY <1>3, <2>1, OrderlyStep
  <1> QED BY <1>2, <1>3, <1>4, <1>5, <1>6, MildSame


-----------------------------------------------------------------------------
(* Every step.                                                             *)

LEMMA StutterStep ==
    ASSUME IInv, UNCHANGED vars
    PROVE  IInv'
  <1>1. /\ kind' = kind /\ ran' = ran /\ lost' = lost /\ elems' = elems /\ var' = var
        /\ ref' = ref /\ left' = left /\ todo' = todo /\ lock' = lock /\ loop' = loop
    BY DEF vars, heap, state, places, rest
  <1>2. TypeOK /\ todo \in [Thread -> Seq(TaskType)]
    BY DEF IInv, TypeOK
  <1>3. Job' = Job
    BY <1>1 DEF Job
  <1>4. Mild /\ SameHands /\ SameLoops
    BY <1>1, <1>2, <1>3 DEF Mild, SameHands, SameLoops
  <1>5. ASSUME NEW u \in Thread
        PROVE  Orderly(u)'
    <2>1. Frame(u)
      BY <1>1 DEF Frame
    <2>2. Going(u)
      BY <1>3, <2>1 DEF Going, Becomes
    <2> QED BY <2>2, Keeps
  <1>6. AllOrderly' /\ TypeOK'
    BY <1>1, <1>2, <1>5 DEF AllOrderly, TypeOK
  <1> QED BY <1>1, <1>4, <1>6, MildSame

LEMMA NextStep ==
    ASSUME IInv, [Next]_vars
    PROVE  IInv'
  <1>1. CASE UNCHANGED vars
    BY <1>1, StutterStep
  <1>2. CASE Next
    <2>1. PICK t \in Thread : Step(t) \/ Statement(t) \/ Loop(t)
      BY <1>2 DEF Next
    <2>2. CASE Step(t)
      <3>1. CASE Dec(t) \/ Copy(t) \/ Take(t) \/ Over(t) \/ Construct(t)
        BY <3>1, DecStep, CopyStep, TakeStep, OverStep, ConstructStep
      <3>2. CASE Delete(t)
        BY <3>2, PhaseSteps, ForgetStep, ElementsStep, FreeStep, PopStep DEF Delete
      <3>3. CASE Finish(t)
        BY <3>3, DropStep, StoreStep, UnlockStep DEF Finish
      <3> QED BY <2>2, <3>1, <3>2, <3>3 DEF Step
    <2>3. CASE Statement(t)
      BY <2>3, AssignStep, DodeleteStep, MakeVectorStep, NewObjectStep, SetsubStep, GetsubStep,
         StreamCopyStep, DelsubStep, ForeachStep DEF Statement
    <2>4. CASE Loop(t)
      BY <2>4, NextElementStep, EmptyBodyStep DEF Loop
    <2> QED BY <2>1, <2>2, <2>3, <2>4
  <1> QED BY <1>1, <1>2

-----------------------------------------------------------------------------
(* The initial states.                                                     *)

\* Threads that have nothing to do.
LEMMA Resting ==
    ASSUME todo \in [Thread -> Seq(TaskType)], \A t \in Thread : todo[t] = <<>>
    PROVE  /\ \A t \in Thread, k \in Nat : Job[t][k] = NoTask
           /\ Dying = {} /\ Stale = {}
  <1>1. ASSUME NEW t \in Thread, NEW k \in Nat
        PROVE  Job[t][k] = NoTask
    <2>1. Len(todo[t]) = 0 /\ k \notin 1..0
      OBVIOUS
    <2>2. JobsOf(t)
      BY JobTable
    <2> QED BY <2>1, <2>2 DEF JobsOf
  <1>2. Deleted(Job) = {} /\ Overwritten(Job) = {}
    BY <1>1, NoTaskIs DEF Deleted, Overwritten
  <1> QED BY <1>1, <1>2, TablesAre

LEMMA NoReference ==
    ASSUME NEW c, c # Null, \A p \in Places : Val[p] # c, \A u \in Thread : loop[u].vec # c,
           \A u \in Thread, k \in Nat : Hand(Job[u][k]) # c
    PROVE  \A s \in AllSlots : Ref[s] # c
  BY SlotIs, RefsAre

\* One thread has executed y = [new C].
Executed(y) == /\ kind = [c \in Cell |-> IF c = 1 THEN "vector"
                                      ELSE IF c = 2 THEN "object" ELSE "free"]
               /\ ref = [c \in Cell |-> IF c <= 2 THEN c ELSE 0]
               /\ elems = [c \in Cell |-> IF c = 1 THEN <<2>>
                                       ELSE IF c = 2 THEN <<2, Null>> ELSE <<>>]
               /\ var = [x \in Var |-> IF x = y THEN 1 ELSE Null]

LEMMA InitInv ==
    ASSUME Init
    PROVE  IInv
  <1>1. /\ ran = [c \in Cell |-> 0] /\ lost = [c \in Cell |-> FALSE]
        /\ todo = [t \in Thread |-> <<>>] /\ loop = [t \in Thread |-> NoLoop]
        /\ lock = NoThread /\ left = [t \in Thread |-> Statements]
    BY DEF Init
  <1>2. /\ NoThread \notin Thread /\ Null \notin Cell /\ 1 \in Cell /\ 2 \in Cell /\ 1 # 2
        /\ 1 # Null /\ 2 # Null
    BY BoundsAssumption, VariablesAssumption DEF Var, Cell, Null
  <1>3. /\ ran \in [Cell -> 0..2] /\ lost \in [Cell -> BOOLEAN]
        /\ todo \in [Thread -> Seq(TaskType)] /\ lock \in Thread \cup {NoThread}
        /\ left \in [Thread -> 0..Statements]
        /\ loop \in [Thread -> [vec : Cell \cup {Null}, at : Nat, last : Nat, body : BOOLEAN]]
    <2>1. todo \in [Thread -> Seq(TaskType)]
      BY <1>1
    <2>2. NoLoop \in [vec : Cell \cup {Null}, at : Nat, last : Nat, body : BOOLEAN]
      BY DEF NoLoop
    <2>3. loop \in [Thread -> [vec : Cell \cup {Null}, at : Nat, last : Nat, body : BOOLEAN]]
      BY <1>1, <2>2
    <2>4. ran \in [Cell -> 0..2] /\ lost \in [Cell -> BOOLEAN] /\ left \in [Thread -> 0..Statements]
      BY <1>1, BoundsAssumption
    <2> QED BY <1>1, <2>1, <2>3, <2>4
  <1>4. /\ \A t \in Thread, k \in Nat : Job[t][k] = NoTask
        /\ Dying = {} /\ Stale = {}
    BY <1>1, <1>3, Resting
  <1>5. AllOrderly
    <2>1. ASSUME NEW t \in Thread
          PROVE  Orderly(t)
      <3>1. \A k \in Nat : Job[t][k].op = "none"
        BY <1>4, NoTaskIs
      <3>2. Locked(t)
        BY <1>1, <1>2, <3>1 DEF Locked
      <3>3. StoreNext(t)
        BY <3>1 DEF StoreNext
      <3>4. \A k \in Nat : TaskOK(t, k)
        BY <3>1 DEF TaskOK, WriteOK, CopyOK, PopOK, ConstructOK, TakeOK, DropOK, Writes
      <3> QED BY <3>2, <3>3, <3>4 DEF Orderly
    <2> QED BY <2>1 DEF AllOrderly
  <1>6. Once /\ Phases /\ Whole
    <2>1. \A t \in Thread, k \in Nat : Job[t][k].op \notin Deletes
      BY <1>4, NoTaskIs
    <2>2. Live \subseteq Cell
      BY CellsAre
    <2> QED BY <1>1, <2>1, <2>2 DEF Once, Phases, Whole
  <1>7. \A u \in Thread : loop[u].vec = Null
    BY <1>1 DEF NoLoop
  <1>8. \A u \in Thread, k \in Nat : Hand(Job[u][k]) = Null
    BY <1>4, NoTaskIs
  <1>9. \A p \in Places : Val[p] = Stored(var, elems, p)
    BY <1>4, ValsAre
  <1>10. CASE /\ kind = [c \in Cell |-> "free"] /\ ref = [c \in Cell |-> 0]
              /\ elems = [c \in Cell |-> <<>>] /\ var = [x \in Var |-> Null]
    <2>1. \A p \in Places : Val[p] = Null
      <3>1. ASSUME NEW p \in Places
            PROVE  Stored(var, elems, p) = Null
        <4>1. CASE p.in = Null
          BY <1>10, <4>1, <1>2, PlaceIs DEF Stored
        <4>2. CASE p.in # Null
          <5>1. p.in \in Cell
            BY <4>2, PlaceIs
          <5>2. DOMAIN elems[p.in] = {}
            BY <1>10, <5>1
          <5> QED BY <4>2, <5>2 DEF Stored
        <4> QED BY <4>1, <4>2
      <3> QED BY <1>9, <3>1
    <2>2. \A s \in AllSlots : Ref[s] = Null
      BY <1>7, <1>8, <2>1, SlotIs, RefsAre
    <2>3. Live = {}
      BY <1>10 DEF Live
    <2>4. TypeOK
      <3>1. elems \in [Cell -> Seq(Cell \cup {Null})] /\ \A c \in Cell : Len(elems[c]) <= MaxLen
        BY <1>10, BoundsAssumption
      <3> QED BY <1>3, <1>10, <3>1 DEF TypeOK
    <2>5. Core
      <3>1. Ref \in [AllSlots -> Cell \cup {Null}]
        <4>1. Ref = [s \in AllSlots |-> Ref[s]]
          BY DEF Ref
        <4> QED BY <2>2, <4>1
      <3> QED BY <1>4, <2>2, <2>3, <2>4, <3>1 DEF Core, TypeOK
    <2>6. Empty
      BY <1>1, <1>10 DEF Empty
    <2> QED BY <1>5, <1>6, <2>4, <2>5, <2>6 DEF IInv
  <1>11. ASSUME NEW y \in Shared, Executed(y)
         PROVE  IInv
    <2>0. /\ kind = [c \in Cell |-> IF c = 1 THEN "vector"
                                 ELSE IF c = 2 THEN "object" ELSE "free"]
          /\ ref = [c \in Cell |-> IF c <= 2 THEN c ELSE 0]
          /\ elems = [c \in Cell |-> IF c = 1 THEN <<2>>
                                    ELSE IF c = 2 THEN <<2, Null>> ELSE <<>>]
          /\ var = [x \in Var |-> IF x = y THEN 1 ELSE Null]
      BY <1>11 DEF Executed
    <2>1. /\ <<2>> \in Seq(Cell \cup {Null}) /\ <<2, Null>> \in Seq(Cell \cup {Null})
          /\ Len(<<2>>) = 1 /\ <<2>>[1] = 2 /\ DOMAIN <<2>> = 1..1
          /\ Len(<<2, Null>>) = 2 /\ DOMAIN <<2, Null>> = 1..2
          /\ <<2, Null>>[1] = 2 /\ <<2, Null>>[2] = Null
      BY <1>2, TwoValues
    <2>2. PICK v, w : v = <<2>> /\ w = <<2, Null>>
      OBVIOUS
    <2>3. /\ elems[1] = v /\ elems[2] = w
          /\ \A c \in Cell : c # 1 /\ c # 2 => elems[c] = <<>>
          /\ elems = [c \in Cell |-> IF c = 1 THEN v ELSE IF c = 2 THEN w ELSE <<>>]
      BY <1>2, <2>0, <2>2
    <2>4. /\ v \in Seq(Cell \cup {Null}) /\ Len(v) = 1 /\ v[1] = 2 /\ DOMAIN v = 1..1
          /\ w \in Seq(Cell \cup {Null}) /\ Len(w) = 2 /\ w[1] = 2 /\ w[2] = Null /\ DOMAIN w = 1..2
      BY <2>1, <2>2
    <2>5. TypeOK
      <3>1. elems \in [Cell -> Seq(Cell \cup {Null})]
        BY <2>3, <2>4
      <3>2. \A c \in Cell : Len(elems[c]) <= MaxLen
        <4>1. ASSUME NEW c \in Cell
              PROVE  Len(elems[c]) \in {0, 1, 2}
          <5>1. CASE c = 1
            BY <2>3, <2>4, <5>1
          <5>2. CASE c = 2
            BY <2>3, <2>4, <5>2
          <5>3. CASE c # 1 /\ c # 2
            BY <2>3, <5>3
          <5> QED BY <5>1, <5>2, <5>3
        <4>2. 0 <= MaxLen /\ 1 <= MaxLen /\ 2 <= MaxLen
          BY BoundsAssumption
        <4> QED BY <4>1, <4>2
      <3>3. ref \in [Cell -> Int]
        BY <2>0, CellsAre
      <3>4. kind \in [Cell -> {"free", "vector", "object"}] /\ var \in [Var -> Cell \cup {Null}]
        BY <1>2, <2>0
      <3> QED BY <1>3, <3>1, <3>2, <3>3, <3>4 DEF TypeOK
    <2>6. /\ Live = {1, 2} /\ kind[1] = "vector" /\ kind[2] = "object" /\ ref[1] = 1 /\ ref[2] = 2
      <3>1. 1 <= 2 /\ 2 <= 2
        OBVIOUS
      <3> QED BY <1>2, <2>0, <3>1 DEF Live
    <2>7. PICK p, q, r : p = Variable(y) /\ q = Element(1, 1) /\ r = Element(2, 1)
      OBVIOUS
    <2>8. /\ p \in Places /\ q \in Places /\ r \in Places /\ y \in Var
          /\ p.in = Null /\ p.at = y /\ q.in = 1 /\ q.at = 1 /\ r.in = 2 /\ r.at = 1
      <3>1. y \in Var /\ 1 \in Nat /\ 1 \in 1..MaxLen
        BY BoundsAssumption DEF Var
      <3> QED BY <1>2, <2>7, <3>1, PlacesAre
    <2>9. \A z \in Places : Val[z] = IF z = p THEN 1 ELSE IF z = q \/ z = r THEN 2 ELSE Null
      <3>1. ASSUME NEW z \in Places
            PROVE  Stored(var, elems, z) = IF z = p THEN 1 ELSE IF z = q \/ z = r THEN 2 ELSE Null
        <4>1. CASE z.in = Null
          <5>1. PICK x \in Var : z = Variable(x) /\ z.at = x
            BY <1>2, <4>1, PlaceIs
          <5>2. z = p <=> x = y
            BY <2>7, <2>8, <5>1
          <5>3. z # q /\ z # r
            BY <1>2, <2>8, <4>1
          <5>4. Stored(var, elems, z) = var[x]
            BY <4>1, <5>1 DEF Stored
          <5> QED BY <2>0, <5>1, <5>2, <5>3, <5>4
        <4>2. CASE z.in # Null
          <5>1. PICK c \in Cell, i \in 1..MaxLen : z = Element(c, i) /\ z.in = c /\ z.at = i
            BY <4>2, PlaceIs
          <5>2. z # p /\ (z = q <=> c = 1 /\ i = 1) /\ (z = r <=> c = 2 /\ i = 1)
            BY <2>7, <2>8, <4>2, <5>1
          <5>3. Stored(var, elems, z) = IF i \in DOMAIN elems[c] THEN elems[c][i] ELSE Null
            BY <4>2, <5>1 DEF Stored
          <5>4. CASE c = 1
            <6>1. i \in 1..1 <=> i = 1
              OBVIOUS
            <6> QED BY <1>2, <2>3, <2>4, <5>2, <5>3, <5>4, <6>1
          <5>5. CASE c = 2
            <6>1. i \in 1..2 => i = 1 \/ i = 2
              OBVIOUS
            <6>2. 1 \in 1..2
              OBVIOUS
            <6> QED BY <1>2, <2>3, <2>4, <5>2, <5>3, <5>5, <6>1, <6>2
          <5>6. CASE c # 1 /\ c # 2
            <6>1. DOMAIN elems[c] = {}
              BY <2>3, <5>6
            <6> QED BY <5>2, <5>3, <5>6, <6>1
          <5> QED BY <5>4, <5>5, <5>6
        <4> QED BY <4>1, <4>2
      <3> QED BY <1>9, <3>1
    <2>10. PICK sp, sq, sr : sp = <<"place", p>> /\ sq = <<"place", q>> /\ sr = <<"place", r>>
      OBVIOUS
    <2>11. /\ sp \in AllSlots /\ sq \in AllSlots /\ sr \in AllSlots /\ sp # sq /\ sp # sr /\ sq # sr
           /\ Ref[sp] = 1 /\ Ref[sq] = 2 /\ Ref[sr] = 2
           /\ sq = Own(1) /\ sr = Own(2)
      BY <1>2, <2>7, <2>8, <2>9, <2>10, SlotsAre, RefsAre DEF Own
    <2>12. \A s \in AllSlots : s # sp /\ s # sq /\ s # sr => Ref[s] = Null
      <3>1. ASSUME NEW s \in AllSlots, s # sp, s # sq, s # sr
            PROVE  Ref[s] = Null
        <4>1. CASE \E z \in Places : s = <<"place", z>>
          BY <2>9, <2>10, <3>1, <4>1, RefsAre
        <4> QED BY <1>7, <1>8, <4>1, SlotIs, RefsAre
      <3> QED BY <3>1
    <2>13. At(1) = {sp} /\ At(2) = {sq, sr}
      BY <1>2, <2>11, <2>12 DEF At, Where
    <2>14. Counted(1) /\ Counted(2)
      <3>1. IsFiniteSet({sp}) /\ Cardinality({sp}) = 1
        BY FS_Singleton
      <3>2. IsFiniteSet({sq, sr}) /\ Cardinality({sq, sr}) = 2
        BY <2>11, Two
      <3> QED BY <2>6, <2>11, <2>13, <3>1, <3>2 DEF Counted
    <2>15. Core
      <3>1. Ref \in [AllSlots -> Cell \cup {Null}]
        <4>1. Ref = [s \in AllSlots |-> Ref[s]]
          BY DEF Ref
        <4>2. \A s \in AllSlots : Ref[s] \in Cell \cup {Null}
          BY <1>2, <2>11, <2>12
        <4> QED BY <4>1, <4>2
      <3>2. \A s \in AllSlots : Ref[s] # Null => Ref[s] \in Live
        BY <2>6, <2>11, <2>12
      <3>3. \A c \in Live \ Dying : Counted(c)
        BY <2>6, <2>14
      <3> QED BY <1>4, <2>5, <3>1, <3>2, <3>3 DEF Core, TypeOK
    <2>16. Empty
      BY <1>1, <1>2, <2>3, <2>6 DEF Empty
    <2> QED BY <1>5, <1>6, <2>5, <2>15, <2>16 DEF IInv
  <1> QED BY <1>10, <1>11 DEF Init, Executed


-----------------------------------------------------------------------------
(* What the invariant says in the model's own terms.                       *)

\* The slots of the model are those that can hold something.
LEMMA SlotsHold ==
    ASSUME todo \in [Thread -> Seq(TaskType)]
    PROVE  /\ \A s \in Slots : s \in AllSlots /\ held(s) = Ref[s]
           /\ \A s \in AllSlots \ Slots : Ref[s] = Null
  <1>1. Work = WorkOf(todo) /\ Job = JobOf(todo) /\ \A w : task(w) = TaskOf(todo, w)
    BY DEF Work, WorkOf, Job, JobOf, task, TaskOf
  <1>2. ASSUME NEW s \in Slots
        PROVE  s \in AllSlots /\ held(s) = Ref[s]
    <2>1. CASE s \in {"place"} \X Places
      <3>1. PICK p \in Places : s = <<"place", p>>
        BY <2>1
      <3>2. held(s) = IF p \in Stale THEN Null ELSE read(p)
        BY <3>1 DEF held
      <3> QED BY <3>1, <3>2, SlotsAre, RefsAre, ValsAre
    <2>2. CASE s \in {"loop"} \X Thread
      <3>1. PICK u \in Thread : s = <<"loop", u>>
        BY <2>2
      <3>2. held(s) = loop[u].vec
        BY <3>1 DEF held
      <3> QED BY <3>1, <3>2, SlotsAre, RefsAre
    <2>3. CASE s \in {"task"} \X Work
      <3>1. PICK w \in Work : s = <<"task", w>>
        BY <2>3
      <3>2. PICK u \in Thread, k \in Nat : w = <<u, k>>
        BY <1>1, <3>1, WorkHas
      <3>3. held(s) = IF task(w).op \in Owns THEN task(w).c ELSE Null
        BY <3>1 DEF held
      <3>4. task(w) = Job[u][k]
        BY <1>1, <3>1, <3>2, WorkIs
      <3> QED BY <3>1, <3>2, <3>3, <3>4, SlotsAre, RefsAre DEF Hand
    <2> QED BY <2>1, <2>2, <2>3 DEF Slots
  <1>3. ASSUME NEW s \in AllSlots, s \notin Slots
        PROVE  Ref[s] = Null
    <2>1. PICK u \in Thread, k \in Nat : s = <<"task", <<u, k>>>>
      BY <1>3, SlotIs DEF Slots
    <2>2. <<u, k>> \notin Work
      BY <1>3, <2>1 DEF Slots
    <2>3. Job[u][k] = NoTask
      BY <1>1, <2>2, WorkIs
    <2> QED BY <2>1, <2>3, RefsAre, NoTaskIs
  <1> QED BY <1>2, <1>3

LEMMA CountsExact ==
    ASSUME IInv
    PROVE  RefCountExact
  <1>1. Core /\ todo \in [Thread -> Seq(TaskType)] /\ Live \subseteq Cell /\ Null \notin Cell
    BY CellsAre DEF IInv, TypeOK
  <1>2. ASSUME NEW c \in Live \ Dying
        PROVE  ref[c] = Cardinality(References(c))
    <2>1. Counted(c) /\ c # Null
      BY <1>1 DEF Core
    <2>2. References(c) = At(c)
      BY <1>1, <2>1, SlotsHold DEF References, At, Where
    <2> QED BY <2>1, <2>2 DEF Counted
  <1> QED BY <1>2 DEF RefCountExact

\* An object's pointer to itself is one of two references, at least.
LEMMA Another ==
    ASSUME NEW S, IsFiniteSet(S), Cardinality(S) >= 2, NEW a \in S
    PROVE  \E b \in S : b # a
  <1>1. CASE S = {a}
    <2>1. Cardinality({a}) = 1
      BY FS_Singleton
    <2> QED BY <1>1, <2>1
  <1> QED BY <1>1

LEMMA LeaksNothing ==
    ASSUME IInv
    PROVE  NothingLeaks
  <1> SUFFICES ASSUME \A t \in Thread : todo[t] = <<>>, NEW c \in Live, ~lost[c]
               PROVE  \/ \E p \in Places : read(p) = c /\ (p = Element(c, 1) => kind[c] = "vector")
                      \/ \E t \in Thread : loop[t].vec = c
    BY DEF NothingLeaks
  <1>1. /\ Core /\ TypeOK /\ todo \in [Thread -> Seq(TaskType)] /\ c \in Cell /\ c # Null
    BY CellsAre DEF IInv, TypeOK
  <1>2. Dying = {} /\ Stale = {} /\ \A t \in Thread, k \in Nat : Hand(Job[t][k]) = Null
    BY <1>1, Resting, NoTaskIs
  <1>3. Counted(c)
    BY <1>1, <1>2 DEF Core
  <1>4. \E s \in At(c) : kind[c] = "object" => s # Own(c)
    <2>1. CASE kind[c] = "object"
      <3>1. ref[c] >= 2 /\ Own(c) \in At(c)
        BY <1>1, <1>3, <2>1, OwnSlot DEF Counted, At, Where
      <3> QED BY <1>3, <3>1, Another DEF Counted
    <2>2. CASE kind[c] # "object"
      <3>1. At(c) # {}
        <4>1. Cardinality({}) = 0
          BY FS_EmptySet
        <4> QED BY <1>3, <4>1 DEF Counted
      <3> QED BY <2>2, <3>1
    <2> QED BY <2>1, <2>2
  <1>5. PICK s \in AllSlots : Ref[s] = c /\ (kind[c] = "object" => s # Own(c))
    BY <1>4 DEF At, Where
  <1>6. CASE \E p \in Places : s = <<"place", p>>
    <2>1. PICK p \in Places : s = <<"place", p>>
      BY <1>6
    <2>2. read(p) = c
      BY <1>2, <1>5, <2>1, RefsAre, ValsAre
    <2>3. p = Element(c, 1) => kind[c] # "object"
      BY <1>5, <2>1 DEF Own
    <2>4. kind[c] \in {"vector", "object"}
      BY <1>1 DEF TypeOK, Live
    <2> QED BY <2>2, <2>3, <2>4
  <1>7. CASE \E u \in Thread : s = <<"loop", u>>
    BY <1>5, <1>7, RefsAre
  <1>8. CASE \E u \in Thread, k \in Nat : s = <<"task", <<u, k>>>>
    BY <1>1, <1>2, <1>5, <1>8, RefsAre
  <1> QED BY <1>6, <1>7, <1>8, SlotIs

LEMMA NothingDangles ==
    ASSUME IInv
    PROVE  NoDangling
  <1>1. Core /\ todo \in [Thread -> Seq(TaskType)]
    BY DEF IInv, TypeOK
  <1> QED BY <1>1, SlotsHold DEF Core, NoDangling

\* The tasks of a deletion belong to a thread that is in that phase of it.
LEMMA AtPhase ==
    ASSUME IInv, NEW t \in Thread, NEW op \in Deletes, Doing(t, op)
    PROVE  Now(t).c \in Live /\ InPhase(op, Now(t).c)
  <1>1. /\ todo[t] # <<>> /\ Now(t).op = op
    BY DEF Doing
  <1>2. N[t] \in Nat /\ Job[t][N[t]] = Now(t)
    BY <1>1, HeadFacts
  <1> QED BY <1>1, <1>2 DEF IInv, Phases, InPhase

FinalizedNow(c) == /\ (kind[c] = "object" /\ kind'[c] = "free") => ran[c] = 1
                   /\ ran[c] = 1 => ran'[c] # 2

LEMMA FinalizedStep ==
    ASSUME IInv, [Next]_vars, NEW c \in Cell
    PROVE  FinalizedNow(c)
  <1>1. TypeOK
    BY DEF IInv
  <1>2. CASE kind' = kind /\ ran' = ran
    BY <1>2 DEF FinalizedNow
  <1>3. CASE UNCHANGED vars
    BY <1>2, <1>3 DEF vars, heap, state
  <1>4. ASSUME NEW t \in Thread, Free(t)
        PROVE  FinalizedNow(c)
    <2>1. PICK d : d = Now(t).c
      OBVIOUS
    <2>2. /\ Doing(t, "elements") /\ kind' = [kind EXCEPT ![d] = "free"]
          /\ ran' = [ran EXCEPT ![d] = 0]
      BY <1>4, <2>1 DEF Free
    <2>3. "elements" \in Deletes
      BY DEF Deletes
    <2>4. kind[d] = "object" => ran[d] = 1
      BY <2>1, <2>2, <2>3, AtPhase DEF InPhase
    <2> QED BY <1>1, <2>2, <2>4 DEF FinalizedNow, TypeOK
  <1>5. ASSUME NEW t \in Thread, Finalize(t)
        PROVE  FinalizedNow(c)
    <2>1. PICK d : d = Now(t).c
      OBVIOUS
    <2>2. /\ Doing(t, "finalize") /\ kind' = kind
          /\ ran' = [ran EXCEPT ![d] = IF @ = 2 THEN 2 ELSE @ + 1]
      BY <1>5, <2>1 DEF Finalize, Phase
    <2>3. "finalize" \in Deletes
      BY DEF Deletes
    <2>4. ran[d] = 0
      BY <2>1, <2>2, <2>3, AtPhase DEF InPhase
    <2> QED BY <1>1, <2>2, <2>4 DEF FinalizedNow, TypeOK
  <1>6. ASSUME NEW t \in Thread, makeVector(t) \/ newObject(t)
        PROVE  FinalizedNow(c)
    <2>1. CASE makeVector(t)
      <3>1. PICK d \in Cell : \E values : Made(d, "vector", values)
        BY <2>1 DEF makeVector
      <3>2. kind' = [kind EXCEPT ![d] = "vector"] /\ ran' = ran
        BY <3>1 DEF Made
      <3> QED BY <1>1, <3>2 DEF FinalizedNow, TypeOK
    <2>2. CASE newObject(t)
      <3>1. PICK d \in Cell : Made(d, "object", <<d, Null>>)
        BY <2>2 DEF newObject
      <3>2. kind' = [kind EXCEPT ![d] = "object"] /\ ran' = ran
        BY <3>1 DEF Made
      <3> QED BY <1>1, <3>2 DEF FinalizedNow, TypeOK
    <2> QED BY <1>6, <2>1, <2>2
  <1>7. CASE Next
    <2>1. PICK t \in Thread : Step(t) \/ Statement(t) \/ Loop(t)
      BY <1>7 DEF Next
    <2>2. CASE Dec(t) \/ Copy(t) \/ Take(t) \/ Over(t) \/ Construct(t) \/ Finish(t)
      BY <1>2, <2>2 DEF Dec, Copy, Take, Over, Construct, Finish, Drop, Store, Unlock, heap, state
    <2>3. CASE SetBias(t) \/ Inc(t) \/ Release(t) \/ Forget(t) \/ Elements(t) \/ Pop(t)
      BY <1>2, <2>3 DEF SetBias, Inc, Release, Forget, Elements, Pop, Phase, state
    <2>4. CASE Assign(t) \/ dodelete(t) \/ setsub(t) \/ getsub(t) \/ streamCopy(t) \/ delsub(t) \/ Foreach(t)
      BY <1>2, <2>4 DEF Assign, dodelete, setsub, getsub, streamCopy, delsub, Foreach, heap, state
    <2>5. CASE Loop(t)
      BY <1>2, <2>5 DEF Loop, NextElement, EmptyBody, heap, state
    <2> QED BY <1>4, <1>5, <1>6, <2>1, <2>2, <2>3, <2>4, <2>5 DEF Step, Delete, Statement
  <1> QED BY <1>3, <1>7

-----------------------------------------------------------------------------
(***************************************************************************)
(* The theorems.                                                           *)
(***************************************************************************)

\* The inductive invariant: every reference is where the tasks of the threads
\* say it is, and no other thread can take it away.
THEOREM Invariance == Spec => []IInv
  <1>1. Init => IInv
    BY InitInv
  <1>2. IInv /\ [Next]_vars => IInv'
    BY NextStep
  <1> QED BY <1>1, <1>2, PTL DEF Spec

\* The counts of value.cc are exact, and free everything in the end.
THEOREM CountsAreRight == Spec => []CountInv
  <1>1. IInv => CountInv
    BY CountsExact, LeaksNothing DEF CountInv, IInv
  <1> QED BY <1>1, Invariance, PTL

\* No variable, cell, loop or thread is left with a pointer to a freed cell.
THEOREM NothingIsFreedEarly == Spec => []NoDangling
  <1>1. IInv => NoDangling
    BY NothingDangles
  <1> QED BY <1>1, Invariance, PTL

\* The finalizer of an object runs once, and before the object is freed.
THEOREM FinalizersRunOnce == Spec => FinalizedOnce
  <1>1. IInv /\ [Next]_vars =>
           [\A c \in Cell : /\ (kind[c] = "object" /\ kind'[c] = "free") => ran[c] = 1
                            /\ ran[c] = 1 => ran'[c] # 2]_vars
    BY FinalizedStep DEF FinalizedNow
  <1> QED BY <1>1, Invariance, PTL DEF Spec, FinalizedOnce

==============================================================================
