---------------------------- MODULE Locks_proofs ----------------------------
(***************************************************************************)
(* The safety of the parser lock and of the monitors of objects, which are *)
(* composed with it.  First ParserLock, for every number of threads,       *)
(* whatever they nest, throw and leave behind.                             *)
(***************************************************************************)
EXTENDS ObjectMonitors, FiniteSetTheorems, SequenceTheorems, TLAPS

-----------------------------------------------------------------------------
(***************************************************************************)
(* What an action does to the operations of its thread: one more, one      *)
(* less, or another innermost one.  The other threads' stay as they are.   *)
(***************************************************************************)
Alone(t) == /\ ops' \in [Thread -> Seq(Operation)]
            /\ \A u \in Thread \ {t} : ops'[u] = ops[u]

Grows(t, f) == /\ Alone(t)
               /\ Len(ops'[t]) = Len(ops[t]) + 1
               /\ ops'[t][Len(ops[t]) + 1] = f
               /\ \A d \in 1..Len(ops[t]) : ops'[t][d] = ops[t][d]

Shrinks(t) == /\ Alone(t)
              /\ ops[t] # <<>>
              /\ Len(ops'[t]) = Len(ops[t]) - 1
              /\ \A d \in 1..(Len(ops[t]) - 1) : ops'[t][d] = ops[t][d]

Changes(t, f) == /\ Alone(t)
                 /\ ops[t] # <<>>
                 /\ Len(ops'[t]) = Len(ops[t])
                 /\ ops'[t][Len(ops[t])] = f
                 /\ \A d \in 1..(Len(ops[t]) - 1) : ops'[t][d] = ops[t][d]

LEMMA OperationsGrow ==
    ASSUME ops \in [Thread -> Seq(Operation)], NEW t \in Thread, NEW f \in Operation,
           ops' = [ops EXCEPT ![t] = Append(@, f)]
    PROVE  Grows(t, f)
  <1>1. ops[t] \in Seq(Operation) /\ ops'[t] = Append(ops[t], f)
    OBVIOUS
  <1>2. /\ Append(ops[t], f) \in Seq(Operation)
        /\ Len(Append(ops[t], f)) = Len(ops[t]) + 1
        /\ Append(ops[t], f)[Len(ops[t]) + 1] = f
        /\ \A d \in 1..Len(ops[t]) : Append(ops[t], f)[d] = ops[t][d]
    BY <1>1, AppendProperties
  <1>3. QED
    BY <1>1, <1>2 DEF Grows, Alone

LEMMA OperationsShrink ==
    ASSUME ops \in [Thread -> Seq(Operation)], NEW t \in Thread, ops[t] # <<>>,
           ops' = [ops EXCEPT ![t] = Below(t)]
    PROVE  Shrinks(t)
  <1>1. ops[t] \in Seq(Operation) /\ ops'[t] = Below(t) /\ Len(ops[t]) \in Nat \ {0}
    BY EmptySeq
  <1>2. /\ Below(t) \in Seq(Operation)
        /\ Len(Below(t)) = Len(ops[t]) - 1
        /\ \A d \in 1..(Len(ops[t]) - 1) : Below(t)[d] = ops[t][d]
    <2> DEFINE m == Len(ops[t]) - 1
    <2>1. m \in Nat /\ \A d \in 1..m : ops[t][d] \in Operation
      BY <1>1, ElementOfSeq
    <2>2. /\ SubSeq(ops[t], 1, m) \in Seq(Operation)
          /\ Len(SubSeq(ops[t], 1, m)) = m
          /\ \A d \in 1..m : SubSeq(ops[t], 1, m)[d] = ops[t][d]
      <3> HIDE DEF m
      <3>1. /\ SubSeq(ops[t], 1, m) \in Seq(Operation)
            /\ Len(SubSeq(ops[t], 1, m)) = IF 1 <= m THEN m - 1 + 1 ELSE 0
            /\ \A d \in 1..(m - 1 + 1) : SubSeq(ops[t], 1, m)[d] = ops[t][1 + d - 1]
        BY <2>1, SubSeqProperties
      <3>2. \A d \in Int : 1 + d - 1 = d
        OBVIOUS
      <3>3. QED
        BY <2>1, <3>1, <3>2
    <2>3. QED
      BY <2>2 DEF Below
  <1>3. QED
    BY <1>1, <1>2 DEF Shrinks, Alone

LEMMA OperationsChange ==
    ASSUME ops \in [Thread -> Seq(Operation)], NEW t \in Thread, ops[t] # <<>>, NEW f \in Operation,
           ops' = [ops EXCEPT ![t] = [@ EXCEPT ![Len(ops[t])] = f]]
    PROVE  Changes(t, f)
  <1>1. ops[t] \in Seq(Operation) /\ Len(ops[t]) \in Nat \ {0}
    BY EmptySeq
  <1>2. ops'[t] = [ops[t] EXCEPT ![Len(ops[t])] = f]
    OBVIOUS
  <1>3. /\ ops'[t] \in Seq(Operation) /\ Len(ops'[t]) = Len(ops[t])
        /\ ops'[t][Len(ops[t])] = f
        /\ \A d \in 1..(Len(ops[t]) - 1) : ops'[t][d] = ops[t][d]
    BY <1>1, <1>2, ExceptSeq
  <1>4. QED
    BY <1>2, <1>3 DEF Changes, Alone

\* The innermost operation of a thread that is in one.
LEMMA InnermostOperation ==
    ASSUME TypeOK, NEW t \in Thread, ops[t] # <<>>
    PROVE  /\ Len(ops[t]) \in 1..Depth
           /\ Top(t) \in Operation
           /\ Mine(t) \in Present /\ At(Mine(t)) = Top(t)
  <1>1. ops[t] \in Seq(Operation) /\ Len(ops[t]) \in Nat \ {0} /\ Len(ops[t]) <= Depth
    BY EmptySeq DEF TypeOK
  <1>2. Depth \in Nat
    BY BoundAssumption
  <1>3. Top(t) \in Operation
    BY <1>1, ElementOfSeq DEF Top
  <1>4. QED
    BY <1>1, <1>2, <1>3 DEF Mine, Present, Ids, Id, At, Top

-----------------------------------------------------------------------------
(***************************************************************************)
(* How many of a thread's operations have an entry of the lock.            *)
(***************************************************************************)
LEMMA HoldersFinite ==
    ASSUME TypeOK, NEW t \in Thread
    PROVE  IsFiniteSet(Holders(t)) /\ Cardinality(Holders(t)) \in Nat
  <1>1. ops[t] \in Seq(Operation) /\ Len(ops[t]) \in Nat
    BY LenProperties DEF TypeOK
  <1>2. IsFiniteSet(1..Len(ops[t]))
    BY <1>1, FS_Interval
  <1>3. Holders(t) \in SUBSET (1..Len(ops[t]))
    BY DEF Holders
  <1>4. QED
    BY <1>2, <1>3, FS_Subset, FS_CardinalityType

LEMMA HoldersNotEmpty ==
    ASSUME TypeOK, NEW t \in Thread, ops[t] # <<>>, Entries(Top(t)) = 1
    PROVE  Cardinality(Holders(t)) # 0
  <1>1. Len(ops[t]) \in Holders(t)
    BY InnermostOperation DEF Holders, Top
  <1>2. QED
    BY <1>1, HoldersFinite, FS_EmptySet

LEMMA HoldersAlone ==
    ASSUME NEW t \in Thread, Alone(t), NEW u \in Thread \ {t}
    PROVE  Holders(u)' = Holders(u)
  BY DEF Alone, Holders

LEMMA HoldersGrow ==
    ASSUME TypeOK, NEW t \in Thread, NEW f, Grows(t, f), Entries(f) = 0
    PROVE  Holders(t)' = Holders(t)
  <1>1. Len(ops[t]) \in Nat
    BY LenProperties DEF TypeOK
  <1>2. QED
    BY <1>1 DEF Grows, Holders

LEMMA HoldersShrink ==
    ASSUME TypeOK, NEW t \in Thread, Shrinks(t)
    PROVE  Cardinality(Holders(t)') = Cardinality(Holders(t)) - Entries(Top(t))
  <1>1. ops[t] # <<>> /\ Len(ops[t]) \in Nat \ {0} /\ IsFiniteSet(Holders(t))
        /\ Cardinality(Holders(t)) \in Nat
    BY InnermostOperation, HoldersFinite DEF Shrinks
  <1>2. Holders(t)' = Holders(t) \ {Len(ops[t])}
    BY <1>1 DEF Shrinks, Holders
  <1>3. Len(ops[t]) \in Holders(t) <=> Entries(Top(t)) = 1
    BY <1>1 DEF Holders, Top
  <1>4. Cardinality(Holders(t)') = IF Len(ops[t]) \in Holders(t) THEN Cardinality(Holders(t)) - 1
                                   ELSE Cardinality(Holders(t))
    BY <1>1, <1>2, FS_RemoveElement
  <1>5. QED
    BY <1>1, <1>3, <1>4 DEF Entries

LEMMA HoldersChange ==
    ASSUME TypeOK, NEW t \in Thread, NEW f, Changes(t, f)
    PROVE  Cardinality(Holders(t)') = Cardinality(Holders(t)) - Entries(Top(t)) + Entries(f)
  <1> DEFINE rest == Holders(t) \ {Len(ops[t])}
  <1>1. ops[t] # <<>> /\ Len(ops[t]) \in Nat \ {0} /\ IsFiniteSet(Holders(t))
        /\ Cardinality(Holders(t)) \in Nat
    BY InnermostOperation, HoldersFinite DEF Changes
  <1>2. Holders(t)' = IF Entries(f) = 1 THEN rest \cup {Len(ops[t])} ELSE rest
    BY <1>1 DEF Changes, Holders
  <1>3. Len(ops[t]) \in Holders(t) <=> Entries(Top(t)) = 1
    BY <1>1 DEF Holders, Top
  <1>4. /\ IsFiniteSet(rest)
        /\ Cardinality(rest) = IF Len(ops[t]) \in Holders(t) THEN Cardinality(Holders(t)) - 1
                               ELSE Cardinality(Holders(t))
    BY <1>1, FS_RemoveElement
  <1>5. Cardinality(rest \cup {Len(ops[t])}) = Cardinality(rest) + 1
    <2>1. Len(ops[t]) \notin rest
      OBVIOUS
    <2>2. QED
      BY <1>4, <2>1, FS_AddElement
  <1>6. QED
    <2> HIDE DEF rest
    <2>1. Cardinality(rest) = Cardinality(Holders(t)) - Entries(Top(t))
      BY <1>1, <1>3, <1>4 DEF Entries
    <2>2. QED
      BY <1>1, <1>2, <1>5, <2>1 DEF Entries

-----------------------------------------------------------------------------
(***************************************************************************)
(* The innermost operation before and after every action.                  *)
(***************************************************************************)
LEMMA BeginGrows ==
    ASSUME TypeOK, NEW t \in Thread, NEW o \in Used, Begin(t, o)
    PROVE  \E f \in Operation : Grows(t, f) /\ f.op = o /\ f.at = "open" /\ f.previous = None
  <1> DEFINE f == [op |-> o, at |-> "open", previous |-> None, oldscope |-> None]
  <1>1. f \in Operation
    BY UsedAssumption DEF Operation, Place
  <1>2. ops \in [Thread -> Seq(Operation)] /\ ops' = [ops EXCEPT ![t] = Append(@, f)]
    BY DEF TypeOK, Begin
  <1>3. Grows(t, f)
    <2> HIDE DEF f
    <2>1. QED
      BY <1>1, <1>2, OperationsGrow
  <1>4. QED
    BY <1>1, <1>3

LEMMA OpenChanges ==
    ASSUME TypeOK, NEW t \in Thread, Open(t)
    PROVE  \E f \in Operation : /\ Changes(t, f) /\ f.op = Top(t).op /\ f.at = "parse"
                                /\ f.previous \in {None, currentContext}
  <1> DEFINE p == IF Top(t).op \in {"eval", "expression"} THEN None ELSE currentContext
             s == IF Top(t).op \in {"execute", "expression"} THEN currentScope ELSE None
             f == [Top(t) EXCEPT !.at = "parse", !.previous = p, !.oldscope = s]
  <1>1. ops[t] # <<>> /\ ops' = [ops EXCEPT ![t][Len(ops[t])] =
                                    [@ EXCEPT !.at = "parse", !.previous = p, !.oldscope = s]]
    BY DEF Open, In, Push
  <1>2. Top(t) \in Operation /\ ops \in [Thread -> Seq(Operation)]
    BY <1>1, InnermostOperation DEF TypeOK
  <1>3. f \in Operation /\ f.op = Top(t).op /\ f.at = "parse" /\ f.previous \in {None, currentContext}
    BY <1>2 DEF Operation, Place, TypeOK
  <1>4. ops' = [ops EXCEPT ![t] = [@ EXCEPT ![Len(ops[t])] = f]]
    BY <1>1 DEF Top
  <1>5. Changes(t, f)
    <2> HIDE DEF f
    <2>1. QED
      BY <1>1, <1>2, <1>3, <1>4, OperationsChange
  <1>6. QED
    BY <1>3, <1>5

\* What sets the current Context aside and runs.
LEMMA SetAsideChanges ==
    ASSUME TypeOK, NEW t \in Thread, OpenRun(t) \/ OpenDelegate(t)
    PROVE  \E f \in Operation : /\ Changes(t, f) /\ f.op = Top(t).op /\ f.at = "code"
                                /\ f.previous = currentContext
  <1> DEFINE f == [Top(t) EXCEPT !.at = "code", !.previous = currentContext]
  <1>1. ops[t] # <<>> /\ ops' = [ops EXCEPT ![t][Len(ops[t])] =
                                    [@ EXCEPT !.at = "code", !.previous = currentContext]]
    BY DEF OpenRun, OpenDelegate, In
  <1>2. Top(t) \in Operation /\ ops \in [Thread -> Seq(Operation)]
    BY <1>1, InnermostOperation DEF TypeOK
  <1>3. f \in Operation /\ f.op = Top(t).op /\ f.at = "code" /\ f.previous = currentContext
    BY <1>2 DEF Operation, TypeOK, Place
  <1>4. ops' = [ops EXCEPT ![t] = [@ EXCEPT ![Len(ops[t])] = f]]
    BY <1>1 DEF Top
  <1>5. Changes(t, f)
    <2> HIDE DEF f
    <2>1. QED
      BY <1>1, <1>2, <1>3, <1>4, OperationsChange
  <1>6. QED
    BY <1>3, <1>5

LEMMA ParsedChanges ==
    ASSUME TypeOK, NEW t \in Thread, Parsed(t)
    PROVE  \E f \in Operation :
              /\ Changes(t, f) /\ f.op = Top(t).op /\ f.previous = None
              /\ f.at = IF Top(t).op \in {"execute", "load"} THEN "vm" ELSE "code"
  <1> DEFINE l == IF Top(t).op \in {"execute", "load"} THEN "vm" ELSE "code"
             f == [Top(t) EXCEPT !.previous = None, !.at = l]
  <1>1. ops[t] # <<>> /\ ops' = [ops EXCEPT ![t][Len(ops[t])] =
                                    [@ EXCEPT !.previous = None, !.at = l]]
    BY DEF Parsed, In
  <1>2. Top(t) \in Operation /\ ops \in [Thread -> Seq(Operation)]
    BY <1>1, InnermostOperation DEF TypeOK
  <1>3. f \in Operation /\ f.op = Top(t).op /\ f.at = l /\ f.previous = None
    BY <1>2 DEF Operation, Place
  <1>4. ops' = [ops EXCEPT ![t] = [@ EXCEPT ![Len(ops[t])] = f]]
    BY <1>1 DEF Top
  <1>5. Changes(t, f)
    <2> HIDE DEF f
    <2>1. QED
      BY <1>1, <1>2, <1>3, <1>4, OperationsChange
  <1>6. QED
    BY <1>3, <1>5

LEMMA MakeMachineChanges ==
    ASSUME TypeOK, NEW t \in Thread, MakeMachine(t)
    PROVE  \E f \in Operation : /\ Changes(t, f) /\ f.op = Top(t).op /\ f.at = "code"
                                /\ f.previous = Top(t).previous
  <1> DEFINE f == [Top(t) EXCEPT !.at = "code"]
  <1>1. ops[t] # <<>> /\ ops' = [ops EXCEPT ![t][Len(ops[t])].at = "code"]
    BY DEF MakeMachine, GoTo, In
  <1>2. Top(t) \in Operation /\ ops \in [Thread -> Seq(Operation)]
    BY <1>1, InnermostOperation DEF TypeOK
  <1>3. f \in Operation /\ f.op = Top(t).op /\ f.at = "code" /\ f.previous = Top(t).previous
    BY <1>2 DEF Operation, Place
  <1>4. ops' = [ops EXCEPT ![t] = [@ EXCEPT ![Len(ops[t])] = f]]
    BY <1>1 DEF Top
  <1>5. Changes(t, f)
    <2> HIDE DEF f
    <2>1. QED
      BY <1>1, <1>2, <1>3, <1>4, OperationsChange
  <1>6. QED
    BY <1>3, <1>5

\* The actions that end an operation.
Ends(t) == \/ FileMissing(t) \/ ParseFails(t) \/ NothingToRun(t)
           \/ EndLoad(t) \/ EndEval(t) \/ EndRun(t)
           \/ CloseExecute(t) \/ CloseExpression(t) \/ FailExpression(t) \/ CloseDelegate(t)

LEMMA EndShrinks ==
    ASSUME TypeOK, NEW t \in Thread, Ends(t)
    PROVE  Shrinks(t)
  <1>1. ops[t] # <<>> /\ ops' = [ops EXCEPT ![t] = Below(t)]
    BY DEF Ends, FileMissing, ParseFails, NothingToRun, EndLoad, EndEval, EndRun, CloseExecute,
           CloseExpression, FailExpression, CloseDelegate, In, Return, Throw
  <1>2. QED
    BY <1>1, OperationsShrink DEF TypeOK

-----------------------------------------------------------------------------
(***************************************************************************)
(* Type correctness.                                                       *)
(***************************************************************************)
OperationsTyped == ops \in [Thread -> Seq(Operation)] /\ \A t \in Thread : Len(ops[t]) <= Depth

LEMMA StepOperationsTyped ==
    ASSUME TypeOK, NEW t \in Thread,
           \/ (\E f \in Operation : Grows(t, f)) /\ Len(ops[t]) < Depth
           \/ Shrinks(t)
           \/ \E f \in Operation : Changes(t, f)
           \/ UNCHANGED ops
    PROVE  OperationsTyped'
  <1>1. Depth \in Nat /\ \A u \in Thread : Len(ops[u]) \in Nat /\ Len(ops[u]) <= Depth
    BY BoundAssumption, LenProperties DEF TypeOK
  <1>2. CASE UNCHANGED ops
    BY <1>2 DEF OperationsTyped, TypeOK
  <1>3. CASE ~UNCHANGED ops
    <2>1. Alone(t) /\ Len(ops'[t]) <= Depth
      BY <1>1, <1>3 DEF Grows, Shrinks, Changes
    <2>2. QED
      BY <1>1, <2>1 DEF OperationsTyped, Alone
  <1>4. QED
    BY <1>2, <1>3

LEMMA StepLockTyped ==
    ASSUME TypeOK, NEW t \in Thread, Acquire(t) \/ Release(t) \/ UNCHANGED <<owner, n>>
    PROVE  /\ owner' \in Thread \cup {None} /\ n' \in 0..MaxEntry
           /\ owner' = None <=> n' = 0
  BY NoneAssumption, BoundAssumption DEF TypeOK, Acquire, Release

LEMMA StepTypeOK ==
    ASSUME TypeOK, Next
    PROVE  TypeOK'
  <1> USE DEF OperationsTyped
  <1>1. ASSUME NEW t \in Thread, NEW o \in Used, Begin(t, o)
        PROVE  TypeOK'
    <2>1. OperationsTyped'
      BY <1>1, BeginGrows, StepOperationsTyped DEF Begin
    <2>2. QED
      BY <1>1, <2>1 DEF TypeOK, Begin
  <1>2. ASSUME NEW t \in Thread, Open(t)
        PROVE  TypeOK'
    <2>1. OperationsTyped'
      BY <1>2, OpenChanges, StepOperationsTyped
    <2>2. Mine(t) \in Ids
      BY <1>2, InnermostOperation DEF Open, In, Present
    <2>3. QED
      BY <1>2, <2>1, <2>2, StepLockTyped DEF TypeOK, Open, Push
  <1>3. ASSUME NEW t \in Thread, OpenRun(t) \/ OpenDelegate(t)
        PROVE  TypeOK'
    <2>1. OperationsTyped'
      BY <1>3, SetAsideChanges, StepOperationsTyped
    <2>2. Mine(t) \in Ids
      BY <1>3, InnermostOperation DEF OpenRun, OpenDelegate, In, Present
    <2>3. QED
      BY <1>3, <2>1, <2>2, StepLockTyped DEF TypeOK, OpenRun, OpenDelegate, Visit
  <1>4. ASSUME NEW t \in Thread, Parsed(t)
        PROVE  TypeOK'
    <2>1. OperationsTyped'
      BY <1>4, ParsedChanges, StepOperationsTyped
    <2>2. Top(t).previous \in Ids \cup {None}
      BY <1>4, InnermostOperation DEF Parsed, In, Operation
    <2>3. QED
      BY <1>4, <2>1, <2>2, StepLockTyped DEF TypeOK, Parsed
  <1>5. ASSUME NEW t \in Thread, MakeMachine(t)
        PROVE  TypeOK'
    <2>1. OperationsTyped'
      BY <1>5, MakeMachineChanges, StepOperationsTyped
    <2>2. QED
      BY <1>5, <2>1, StepLockTyped DEF TypeOK, MakeMachine, Visit
  <1>6. ASSUME NEW t \in Thread, Ends(t)
        PROVE  TypeOK'
    <2>1. OperationsTyped' /\ ops[t] # <<>>
      BY <1>6, EndShrinks, StepOperationsTyped DEF Shrinks
    <2>2. Mine(t) \in Ids /\ Top(t).previous \in Ids \cup {None} /\ Top(t).oldscope \in Ids \cup {None}
      BY <2>1, InnermostOperation DEF Present, Operation
    <2>3. Acquire(t) \/ Release(t) \/ UNCHANGED <<owner, n>>
      BY <1>6 DEF Ends, FileMissing, ParseFails, NothingToRun, EndLoad, EndEval, EndRun, CloseExecute,
                  CloseExpression, FailExpression, CloseDelegate, Visit
    <2>4. /\ raising' \subseteq Thread /\ joining' = joining
          /\ spoilt' \subseteq {"kept", "overreleased", "context", "unlocked"}
      BY <1>6 DEF TypeOK, Ends, FileMissing, ParseFails, NothingToRun, EndLoad, EndEval, EndRun,
                  CloseExecute, CloseExpression, FailExpression, CloseDelegate, Return, Throw, Spoil
    <2>5. /\ currentContext' \in {currentContext, Top(t).previous}
          /\ currentScope' \in {currentScope, Mine(t), Top(t).oldscope}
      BY <1>6 DEF Ends, FileMissing, ParseFails, NothingToRun, EndLoad, EndEval, EndRun,
                  CloseExecute, CloseExpression, FailExpression, CloseDelegate
    <2>6. QED
      BY <2>1, <2>2, <2>3, <2>4, <2>5, StepLockTyped DEF TypeOK
  <1>7. ASSUME NEW t \in Thread, Raise(t) \/ Catch(t) \/ Join(t) \/ Joined
        PROVE  TypeOK'
    BY <1>7, StepOperationsTyped DEF TypeOK, Raise, Catch, Join, Joined
  <1>8. QED
    BY <1>1, <1>2, <1>3, <1>4, <1>5, <1>6, <1>7, MainAssumption DEF Next, Advance, Ends

-----------------------------------------------------------------------------
(***************************************************************************)
(* The operations stay nested, and main in its join.                       *)
(***************************************************************************)
NestsAs(f) == /\ f.at = "parse" => f.op \notin {"run", "delegate"}
              /\ f.previous # None =>
                    f.at = "parse" \/ (f.at = "code" /\ f.op \in {"run", "delegate"})

LEMMA StepNested ==
    ASSUME TypeOK, OperationsNest, NEW t \in Thread,
           \/ /\ \E f \in Operation : Grows(t, f) /\ NestsAs(f)
              /\ ops[t] # <<>> => Top(t).at = "code"
           \/ Shrinks(t)
           \/ \E f \in Operation : Changes(t, f) /\ NestsAs(f)
    PROVE  OperationsNest'
  <1>1. /\ \A u \in Thread : Len(ops[u]) \in Nat
        /\ ops[t] # <<>> => Len(ops[t]) \in Nat \ {0} /\ Top(t) = ops[t][Len(ops[t])]
        /\ Len(<<>>) = 0
    BY LenProperties, EmptySeq DEF TypeOK, Top
  <1>2. ASSUME NEW u \in Thread \ {t}, NEW d \in 1..Len(ops'[u])
        PROVE  /\ d < Len(ops'[u]) => ops'[u][d].at = "code"
               /\ NestsAs(ops'[u][d])
    <2>1. ops'[u] = ops[u]
      BY DEF Grows, Shrinks, Changes, Alone
    <2>2. QED
      BY <2>1 DEF OperationsNest, NestsAs
  <1>3. ASSUME NEW d \in 1..Len(ops'[t])
        PROVE  /\ d < Len(ops'[t]) => ops'[t][d].at = "code"
               /\ NestsAs(ops'[t][d])
    <2>0. \A e \in 1..Len(ops[t]) : (e < Len(ops[t]) => ops[t][e].at = "code") /\ NestsAs(ops[t][e])
      BY DEF OperationsNest, NestsAs
    <2>1. CASE \E f \in Operation : Grows(t, f) /\ NestsAs(f) /\ (ops[t] # <<>> => Top(t).at = "code")
      <3>1. PICK f \in Operation : Grows(t, f) /\ NestsAs(f) /\ (ops[t] # <<>> => Top(t).at = "code")
        BY <2>1
      <3>2. Len(ops'[t]) = Len(ops[t]) + 1
        BY <3>1 DEF Grows
      <3>3. CASE d = Len(ops[t]) + 1
        BY <1>1, <3>1, <3>2, <3>3 DEF Grows
      <3>4. CASE d # Len(ops[t]) + 1
        <4>1. d \in 1..Len(ops[t]) /\ ops'[t][d] = ops[t][d]
          BY <1>1, <3>1, <3>2, <3>4 DEF Grows
        <4>2. ops[t] # <<>>
          BY <1>1, <4>1
        <4>3. ops[t][d].at = "code"
          BY <1>1, <2>0, <3>1, <4>1, <4>2
        <4>4. QED
          BY <2>0, <4>1, <4>3
      <3>5. QED
        BY <3>3, <3>4
    <2>2. CASE Shrinks(t)
      <3>1. d \in 1..Len(ops[t]) /\ d < Len(ops[t]) /\ ops'[t][d] = ops[t][d]
        BY <1>1, <2>2 DEF Shrinks
      <3>2. QED
        BY <2>0, <3>1
    <2>3. CASE \E f \in Operation : Changes(t, f) /\ NestsAs(f)
      <3>1. PICK f \in Operation : Changes(t, f) /\ NestsAs(f)
        BY <2>3
      <3>2. CASE d = Len(ops[t])
        BY <1>1, <3>1, <3>2 DEF Changes
      <3>3. CASE d # Len(ops[t])
        <4>1. d \in 1..Len(ops[t]) /\ d < Len(ops[t]) /\ ops'[t][d] = ops[t][d]
          BY <1>1, <3>1, <3>3 DEF Changes
        <4>2. QED
          BY <2>0, <4>1
      <3>4. QED
        BY <3>2, <3>3
    <2>4. QED
      BY <2>1, <2>2, <2>3
  <1>4. QED
    BY <1>2, <1>3 DEF OperationsNest, NestsAs

LEMMA StepOperationsNest ==
    ASSUME TypeOK, OperationsNest, Next
    PROVE  OperationsNest'
  <1>1. ASSUME NEW t \in Thread, NEW o \in Used, Begin(t, o)
        PROVE  OperationsNest'
    BY <1>1, BeginGrows, StepNested DEF Begin, Runs, NestsAs
  <1>2. ASSUME NEW t \in Thread, Open(t)
        PROVE  OperationsNest'
    <2>1. PICK f \in Operation : Changes(t, f) /\ f.op = Top(t).op /\ f.at = "parse"
      BY <1>2, OpenChanges
    <2>2. NestsAs(f)
      BY <1>2, <2>1 DEF Open, In, NestsAs
    <2>3. QED
      BY <2>1, <2>2, StepNested
  <1>3. ASSUME NEW t \in Thread, OpenRun(t) \/ OpenDelegate(t)
        PROVE  OperationsNest'
    <2>1. PICK f \in Operation : Changes(t, f) /\ f.op = Top(t).op /\ f.at = "code"
      BY <1>3, SetAsideChanges
    <2>2. NestsAs(f)
      BY <1>3, <2>1 DEF OpenRun, OpenDelegate, In, NestsAs
    <2>3. QED
      BY <2>1, <2>2, StepNested
  <1>4. ASSUME NEW t \in Thread, Parsed(t)
        PROVE  OperationsNest'
    BY <1>4, ParsedChanges, StepNested DEF NestsAs
  <1>5. ASSUME NEW t \in Thread, MakeMachine(t)
        PROVE  OperationsNest'
    <2>1. PICK f \in Operation : /\ Changes(t, f) /\ f.op = Top(t).op /\ f.at = "code"
                                 /\ f.previous = Top(t).previous
      BY <1>5, MakeMachineChanges
    <2>2. ops[t] # <<>> /\ Top(t).at = "vm" /\ Len(ops[t]) \in 1..Len(ops[t])
      BY <1>5, InnermostOperation DEF MakeMachine, In
    <2>3. Top(t).previous = None
      BY <2>2 DEF OperationsNest, Top
    <2>4. QED
      BY <2>1, <2>3, StepNested DEF NestsAs
  <1>6. ASSUME NEW t \in Thread, Ends(t)
        PROVE  OperationsNest'
    BY <1>6, EndShrinks, StepNested
  <1>7. ASSUME NEW t \in Thread, Raise(t) \/ Catch(t) \/ Join(t) \/ Joined
        PROVE  OperationsNest'
    BY <1>7 DEF OperationsNest, Raise, Catch, Join, Joined
  <1>8. QED
    BY <1>1, <1>2, <1>3, <1>4, <1>5, <1>6, <1>7, MainAssumption DEF Next, Advance, Ends

LEMMA StepMainJoins ==
    ASSUME TypeOK, MainJoins, Next
    PROVE  MainJoins'
  <1>1. ASSUME NEW t \in Thread \ {Main}, Alone(t), joining' = joining, raising' \subseteq raising \cup {t}
        PROVE  MainJoins'
    BY <1>1, MainAssumption DEF MainJoins, Alone, Top
  <1>2. ASSUME NEW t \in Thread, NEW o \in Used, Begin(t, o)
        PROVE  MainJoins'
    <2>1. CASE t = Main
      BY <1>2, <2>1 DEF Begin, Runs, MainJoins
    <2>2. CASE t # Main
      BY <1>1, <1>2, <2>2, BeginGrows DEF Begin, Grows
    <2>3. QED
      BY <2>1, <2>2
  <1>3. ASSUME NEW t \in Thread, Open(t) \/ OpenRun(t) \/ OpenDelegate(t) \/ Parsed(t) \/ MakeMachine(t)
        PROVE  MainJoins'
    <2>1. joining' = joining /\ raising' = raising
          /\ ops[t] # <<>> /\ Top(t).at # "code"
      BY <1>3 DEF Open, OpenRun, OpenDelegate, Parsed, MakeMachine, In
    <2>2. Alone(t)
      BY <1>3, OpenChanges, SetAsideChanges, ParsedChanges, MakeMachineChanges DEF Changes
    <2>3. CASE t = Main
      BY <2>1, <2>3 DEF MainJoins
    <2>4. CASE t # Main
      BY <1>1, <2>1, <2>2, <2>4
    <2>5. QED
      BY <2>3, <2>4
  <1>4. ASSUME NEW t \in Thread, Ends(t)
        PROVE  MainJoins'
    <2>1. joining' = joining /\ raising' \subseteq raising \cup {t} /\ Alone(t)
      BY <1>4, EndShrinks DEF Shrinks, Ends, FileMissing, ParseFails, NothingToRun, EndLoad, EndEval, EndRun,
         CloseExecute, CloseExpression, FailExpression, CloseDelegate, Return, Throw
    <2>2. t = Main => joining = {}
      BY <1>4 DEF MainJoins, Ends, FileMissing, ParseFails, NothingToRun, EndLoad, EndEval, EndRun,
         CloseExecute, CloseExpression, FailExpression, CloseDelegate, In
    <2>3. CASE t = Main
      BY <2>1, <2>2, <2>3 DEF MainJoins
    <2>4. CASE t # Main
      BY <1>1, <2>1, <2>4
    <2>5. QED
      BY <2>3, <2>4
  <1>5. ASSUME NEW t \in Thread, Raise(t) \/ Catch(t) \/ Join(t) \/ Joined
        PROVE  MainJoins'
    BY <1>5 DEF MainJoins, Raise, Catch, Join, Joined, Runs, Top
  <1>6. QED
    BY <1>2, <1>3, <1>4, <1>5, MainAssumption DEF Next, Advance, Ends

-----------------------------------------------------------------------------
(***************************************************************************)
(* The entries of the lock and the operations that have them.              *)
(***************************************************************************)
LEMMA StepHeld ==
    ASSUME TypeOK, NEW t \in Thread
    PROVE  /\ Held(t) \in Nat
           /\ Acquire(t) => Held(t)' = Held(t) + 1
           /\ Release(t) => Held(t)' = Held(t) - 1
           /\ Free(t) => \A u \in Thread \ {t} : Held(u) = 0
           /\ Acquire(t) \/ Release(t) \/ UNCHANGED <<owner, n>> =>
                 \A u \in Thread \ {t} : Held(u)' = Held(u)
  BY NoneAssumption, BoundAssumption DEF TypeOK, Held, Acquire, Release, Free

\* It is enough to look at the thread that does something.
LEMMA StepBalanced ==
    ASSUME TypeOK, LockBalanced, NEW t \in Thread, Alone(t), spoilt \subseteq spoilt',
           Acquire(t) \/ Release(t) \/ UNCHANGED <<owner, n>>,
           "kept" \notin spoilt' => Held(t)' <= Cardinality(Holders(t)'),
           "overreleased" \notin spoilt' => Cardinality(Holders(t)') <= Held(t)'
    PROVE  LockBalanced'
  <1>1. ASSUME NEW u \in Thread \ {t}
        PROVE  Held(u)' = Held(u) /\ Holders(u)' = Holders(u)
    BY StepHeld, HoldersAlone
  <1>2. QED
    BY <1>1 DEF LockBalanced

LEMMA StepLockBalanced ==
    ASSUME TypeOK, OperationsNest, LockBalanced, Next
    PROVE  LockBalanced'
  <1>0. ASSUME NEW t \in Thread
        PROVE  /\ Held(t) \in Nat /\ Cardinality(Holders(t)) \in Nat
               /\ "kept" \notin spoilt => Held(t) <= Cardinality(Holders(t))
               /\ "overreleased" \notin spoilt => Cardinality(Holders(t)) <= Held(t)
    BY StepHeld, HoldersFinite DEF LockBalanced
  <1>1. ASSUME NEW t \in Thread, NEW o \in Used, Begin(t, o)
        PROVE  LockBalanced'
    <2>1. PICK f \in Operation : Grows(t, f) /\ f.at = "open"
      BY <1>1, BeginGrows
    <2>2. Holders(t)' = Holders(t)
      BY <2>1, HoldersGrow DEF Entries
    <2>3. UNCHANGED <<owner, n, spoilt>> /\ Held(t)' = Held(t)
      BY <1>1 DEF Begin, Held
    <2>4. QED
      BY <1>0, <2>1, <2>2, <2>3, StepBalanced DEF Grows
  <1>2. ASSUME NEW t \in Thread, Open(t)
        PROVE  LockBalanced'
    <2>1. PICK f \in Operation : Changes(t, f) /\ f.at = "parse"
      BY <1>2, OpenChanges
    <2>2. Acquire(t) /\ UNCHANGED spoilt /\ Entries(Top(t)) = 0
      BY <1>2 DEF Open, In, Entries
    <2>3. Cardinality(Holders(t)') = Cardinality(Holders(t)) + 1
      BY <1>0, <2>1, <2>2, HoldersChange DEF Entries
    <2>4. Held(t)' = Held(t) + 1
      BY <2>2, StepHeld
    <2>5. QED
      BY <1>0, <2>1, <2>2, <2>3, <2>4, StepBalanced DEF Changes
  <1>3. ASSUME NEW t \in Thread, OpenRun(t)
        PROVE  LockBalanced'
    <2>1. PICK f \in Operation : Changes(t, f) /\ f.at = "code" /\ f.op = Top(t).op
      BY <1>3, SetAsideChanges
    <2>2. Acquire(t) /\ UNCHANGED spoilt /\ Entries(Top(t)) = 0 /\ Top(t).op = "run"
      BY <1>3 DEF OpenRun, In, Entries
    <2>3. Cardinality(Holders(t)') = Cardinality(Holders(t)) + 1
      BY <1>0, <2>1, <2>2, HoldersChange DEF Entries
    <2>4. Held(t)' = Held(t) + 1
      BY <2>2, StepHeld
    <2>5. QED
      BY <1>0, <2>1, <2>2, <2>3, <2>4, StepBalanced DEF Changes
  <1>4. ASSUME NEW t \in Thread, OpenDelegate(t)
        PROVE  LockBalanced'
    <2>1. PICK f \in Operation : Changes(t, f) /\ f.at = "code" /\ f.op = Top(t).op
      BY <1>4, SetAsideChanges
    <2>2. UNCHANGED <<owner, n, spoilt>> /\ Entries(Top(t)) = 0 /\ Top(t).op = "delegate"
      BY <1>4 DEF OpenDelegate, In, Entries, Visit
    <2>3. Cardinality(Holders(t)') = Cardinality(Holders(t)) /\ Held(t)' = Held(t)
      BY <1>0, <2>1, <2>2, HoldersChange DEF Entries, Held
    <2>4. QED
      BY <1>0, <2>1, <2>2, <2>3, StepBalanced DEF Changes
  <1>5. ASSUME NEW t \in Thread, Parsed(t)
        PROVE  LockBalanced'
    <2>1. PICK f \in Operation : /\ Changes(t, f) /\ f.op = Top(t).op
                                 /\ f.at = IF Top(t).op \in {"execute", "load"} THEN "vm" ELSE "code"
      BY <1>5, ParsedChanges
    <2>2. UNCHANGED spoilt /\ ops[t] # <<>> /\ Top(t).at = "parse" /\ Entries(Top(t)) = 1
      BY <1>5 DEF Parsed, In, Entries
    <2>3. Top(t).op \notin {"run", "delegate"}
      BY <2>2, InnermostOperation DEF OperationsNest, Top
    <2>4. CASE Top(t).op = "eval"
      <3>1. UNCHANGED <<owner, n>> /\ Held(t)' = Held(t)
        BY <1>5, <2>4 DEF Parsed, Held
      <3>2. Cardinality(Holders(t)') = Cardinality(Holders(t))
        BY <1>0, <2>1, <2>2, <2>4, HoldersChange DEF Entries
      <3>3. QED
        BY <1>0, <2>1, <2>2, <3>1, <3>2, StepBalanced DEF Changes
    <2>5. CASE Top(t).op # "eval"
      <3>1. Release(t) /\ Held(t)' = Held(t) - 1
        BY <1>5, <2>5, StepHeld DEF Parsed
      <3>2. Entries(f) = 0
        BY <2>1, <2>3, <2>5 DEF Entries
      <3>3. Cardinality(Holders(t)') = Cardinality(Holders(t)) - 1
        BY <1>0, <2>1, <2>2, <3>2, HoldersChange
      <3>4. QED
        BY <1>0, <2>1, <2>2, <3>1, <3>3, StepBalanced DEF Changes
    <2>6. QED
      BY <2>4, <2>5
  <1>6. ASSUME NEW t \in Thread, MakeMachine(t)
        PROVE  LockBalanced'
    <2>1. PICK f \in Operation : Changes(t, f) /\ f.op = Top(t).op /\ f.at = "code"
      BY <1>6, MakeMachineChanges
    <2>2. UNCHANGED <<owner, n, spoilt>> /\ Entries(Top(t)) = 0 /\ Top(t).op \in {"execute", "load"}
      BY <1>6 DEF MakeMachine, In, Entries, Visit
    <2>3. Cardinality(Holders(t)') = Cardinality(Holders(t)) /\ Held(t)' = Held(t)
      BY <1>0, <2>1, <2>2, HoldersChange DEF Entries, Held
    <2>4. QED
      BY <1>0, <2>1, <2>2, <2>3, StepBalanced DEF Changes
  <1>7. ASSUME NEW t \in Thread, Ends(t)
        PROVE  LockBalanced'
    <2>1. Shrinks(t) /\ ops[t] # <<>>
          /\ Cardinality(Holders(t)') = Cardinality(Holders(t)) - Entries(Top(t))
      BY <1>7, EndShrinks, HoldersShrink DEF Shrinks
    <2>2. Alone(t) /\ spoilt \subseteq spoilt'
      BY <1>7, <2>1 DEF Shrinks, Ends, FileMissing, ParseFails, NothingToRun, EndLoad, EndEval, EndRun,
                  CloseExecute, CloseExpression, FailExpression, CloseDelegate, Spoil
    <2>3. CASE \/ FileMissing(t) \/ EndLoad(t) \/ CloseExpression(t) \/ CloseDelegate(t)
               \/ (CloseExecute(t) /\ UNCHANGED <<owner, n>>)
      <3>1. UNCHANGED <<owner, n>> /\ Entries(Top(t)) = 0
        BY <2>3 DEF FileMissing, EndLoad, CloseExpression, CloseDelegate, CloseExecute, Visit, In, Entries
      <3>2. Held(t)' = Held(t) /\ Cardinality(Holders(t)') = Cardinality(Holders(t))
        BY <1>0, <2>1, <3>1 DEF Held
      <3>3. QED
        BY <1>0, <2>2, <3>1, <3>2, StepBalanced
    <2>4. CASE ParseFails(t) \/ NothingToRun(t) \/ (EndEval(t) /\ owner = t)
      <3>1. Release(t) /\ Entries(Top(t)) = 1
        BY <2>4 DEF ParseFails, NothingToRun, EndEval, In, Entries
      <3>2. Held(t)' = Held(t) - 1 /\ Cardinality(Holders(t)') = Cardinality(Holders(t)) - 1
        BY <2>1, <3>1, StepHeld
      <3>3. QED
        BY <1>0, <2>2, <3>1, <3>2, StepBalanced
    <2>5. CASE EndEval(t) /\ owner # t
      <3>1. UNCHANGED <<owner, n, spoilt>> /\ Entries(Top(t)) = 1 /\ Held(t) = 0 /\ Held(t)' = 0
        BY <2>5 DEF EndEval, Entries, Held
      <3>2. Cardinality(Holders(t)) # 0
        BY <2>1, <3>1, HoldersNotEmpty
      <3>3. Cardinality(Holders(t)') = Cardinality(Holders(t)) - 1 /\ Cardinality(Holders(t)') \in Nat
        BY <1>0, <2>1, <3>1, <3>2
      <3>4. QED
        BY <1>0, <2>2, <3>1, <3>3, StepBalanced
    <2>6. CASE EndRun(t)
      <3>1. UNCHANGED <<owner, n>> /\ Entries(Top(t)) = 1 /\ "kept" \in spoilt' /\ Held(t)' = Held(t)
        BY <2>6 DEF EndRun, Entries, Spoil, Held
      <3>2. Cardinality(Holders(t)') = Cardinality(Holders(t)) - 1
        BY <2>1, <3>1
      <3>3. QED
        BY <1>0, <2>2, <3>1, <3>2, StepBalanced
    <2>7. CASE CloseExecute(t) /\ Acquire(t)
      <3>1. Entries(Top(t)) = 0 /\ Held(t)' = Held(t) + 1
        BY <2>7, StepHeld DEF CloseExecute, Entries
      <3>2. Cardinality(Holders(t)') = Cardinality(Holders(t))
        BY <1>0, <2>1, <3>1
      <3>3. "kept" \in spoilt'
        BY <2>7 DEF CloseExecute, Acquire, Visit, Spoil, TypeOK
      <3>4. QED
        BY <1>0, <2>2, <2>7, <3>1, <3>2, <3>3, StepBalanced
    <2>8. CASE FailExpression(t)
      <3>1. Entries(Top(t)) = 0 /\ Cardinality(Holders(t)') = Cardinality(Holders(t))
        BY <1>0, <2>1, <2>8 DEF FailExpression, Entries
      <3>2. CASE owner = t
        <4>1. Release(t) /\ "overreleased" \in spoilt' /\ Held(t)' = Held(t) - 1
          BY <2>8, <3>2, StepHeld DEF FailExpression, Spoil
        <4>2. QED
          BY <1>0, <2>2, <3>1, <4>1, StepBalanced
      <3>3. CASE owner # t
        <4>1. UNCHANGED <<owner, n>> /\ Held(t)' = Held(t)
          BY <2>8, <3>3 DEF FailExpression, Held
        <4>2. QED
          BY <1>0, <2>2, <3>1, <4>1, StepBalanced
      <3>4. QED
        BY <3>2, <3>3
    <2>9. CASE CloseExecute(t)
      <3>1. Acquire(t) \/ UNCHANGED <<owner, n>>
        BY <2>9 DEF CloseExecute, Visit
      <3>2. QED
        BY <2>3, <2>7, <2>9, <3>1
    <2>10. QED
      BY <1>7, <2>3, <2>4, <2>5, <2>6, <2>8, <2>9 DEF Ends
  <1>8. ASSUME NEW t \in Thread, Raise(t) \/ Catch(t) \/ Join(t) \/ Joined
        PROVE  LockBalanced'
    BY <1>8 DEF LockBalanced, Held, Holders, Raise, Catch, Join, Joined
  <1>9. QED
    BY <1>1, <1>2, <1>3, <1>4, <1>5, <1>6, <1>7, <1>8, MainAssumption DEF Next, Advance, Ends

-----------------------------------------------------------------------------
(***************************************************************************)
(* The chain of Contexts.                                                  *)
(***************************************************************************)
Links(f) == f.at = "parse" \/ (f.op = "delegate" /\ f.at = "code")

LEMMA PresentGrows ==
    ASSUME TypeOK, NEW t \in Thread, NEW f, Grows(t, f), Len(ops[t]) < Depth
    PROVE  \E m \in Ids : /\ m \notin Present /\ Present' = Present \cup {m} /\ At(m)' = f
                          /\ \A i \in Present : At(i)' = At(i)
  <1>1. /\ \A u \in Thread : Len(ops[u]) \in Nat
        /\ Depth \in Nat
    BY LenProperties, BoundAssumption DEF TypeOK
  <1>0. PICK m : m = <<t, Len(ops[t]) + 1>>
    OBVIOUS
  <1>2. m \in Ids /\ m \notin Present
    BY <1>0, <1>1 DEF Ids, Present
  <1>3. At(m)' = f
    BY <1>0 DEF Grows, At
  <1>4. ASSUME NEW u \in Thread, NEW d \in 1..Depth
        PROVE  <<u, d>> \in Present' <=> <<u, d>> \in Present \/ <<u, d>> = m
    BY <1>0, <1>1 DEF Grows, Alone, Present, Ids
  <1>5. Present' = Present \cup {m}
    BY <1>2, <1>4 DEF Present, Ids
  <1>6. ASSUME NEW u \in Thread, NEW d \in 1..Depth, <<u, d>> \in Present
        PROVE  At(<<u, d>>)' = At(<<u, d>>)
    BY <1>1, <1>6, SMTT(30) DEF Grows, Alone, Present, At
  <1>7. QED
    BY <1>2, <1>3, <1>5, <1>6 DEF Present, Ids

LEMMA PresentShrinks ==
    ASSUME TypeOK, NEW t \in Thread, NEW m, m = Mine(t), Shrinks(t)
    PROVE  /\ Present' = Present \ {m}
           /\ \A i \in Present \ {m} : At(i)' = At(i)
  <1>1. /\ \A u \in Thread : Len(ops[u]) \in Nat
        /\ Len(ops[t]) \in 1..Depth /\ Depth \in Nat
    BY LenProperties, BoundAssumption, InnermostOperation DEF TypeOK, Shrinks
  <1>2. ASSUME NEW u \in Thread, NEW d \in 1..Depth
        PROVE  <<u, d>> \in Present' <=> <<u, d>> \in Present \ {m}
    BY <1>1 DEF Shrinks, Alone, Present, Ids, Mine, Id
  <1>3. ASSUME NEW u \in Thread, NEW d \in 1..Depth, <<u, d>> \in Present \ {m}
        PROVE  At(<<u, d>>)' = At(<<u, d>>)
    BY <1>1, <1>3 DEF Shrinks, Alone, Present, At, Mine, Id
  <1>4. QED
    BY <1>2, <1>3 DEF Present, Ids

LEMMA PresentChanges ==
    ASSUME TypeOK, NEW t \in Thread, NEW m, m = Mine(t), NEW f, Changes(t, f)
    PROVE  /\ Present' = Present /\ At(m)' = f
           /\ \A i \in Present \ {m} : At(i)' = At(i)
  <1>1. /\ \A u \in Thread : Len(ops[u]) \in Nat
        /\ Len(ops[t]) \in 1..Depth /\ Depth \in Nat
    BY LenProperties, BoundAssumption, InnermostOperation DEF TypeOK, Changes
  <1>2. ASSUME NEW u \in Thread, NEW d \in 1..Depth
        PROVE  <<u, d>> \in Present' <=> <<u, d>> \in Present
    BY <1>1 DEF Changes, Alone, Present, Ids
  <1>3. ASSUME NEW u \in Thread, NEW d \in 1..Depth, <<u, d>> \in Present \ {m}
        PROVE  At(<<u, d>>)' = At(<<u, d>>)
    BY <1>1, <1>3 DEF Changes, Alone, Present, At, Mine, Id
  <1>4. At(m)' = f
    BY DEF Changes, At, Mine, Id
  <1>5. QED
    BY <1>2, <1>3, <1>4 DEF Present, Ids

\* Whoever parses has the lock, so nobody else does while a thread visits or has it.
LEMMA ParsesAlone ==
    ASSUME ParsesItsOwn, NEW t \in Thread, Free(t), NEW u \in Thread \ {t}
    PROVE  ~Parses(u)
  BY NoneAssumption DEF ParsesItsOwn, Free

\* Who parses after a step of t: the others as before, and t if it begins to.
LEMMA ParsesAfter ==
    ASSUME TypeOK, OperationsNest, NEW t \in Thread,
           \/ \E f \in Operation : Grows(t, f) /\ f.at = "open"
           \/ Shrinks(t)
           \/ \E f \in Operation : Changes(t, f) /\ f.at # "parse"
    PROVE  ~Parses(t)' /\ \A u \in Thread \ {t} : Parses(u)' = Parses(u) /\ Mine(u)' = Mine(u)
  <1>1. ASSUME NEW u \in Thread \ {t}
        PROVE  Parses(u)' = Parses(u) /\ Mine(u)' = Mine(u)
    BY DEF Grows, Shrinks, Changes, Alone, Parses, Top, Mine
  <1>2. Len(ops[t]) \in Nat /\ (ops'[t] # <<>> => Len(ops'[t]) \in Nat \ {0})
    BY LenProperties, EmptySeq DEF TypeOK, Grows, Shrinks, Changes, Alone
  <1>3. ASSUME ops'[t] # <<>>
        PROVE  ops'[t][Len(ops'[t])].at # "parse"
    <2>1. CASE \E f \in Operation : Grows(t, f) /\ f.at = "open"
      BY <2>1 DEF Grows
    <2>2. CASE Shrinks(t)
      <3> DEFINE d == Len(ops[t]) - 1
      <3>1. d \in 1..Len(ops[t]) /\ d < Len(ops[t]) /\ Len(ops'[t]) = d /\ ops'[t][d] = ops[t][d]
        BY <1>2, <1>3, <2>2 DEF Shrinks
      <3>2. QED
        BY <3>1 DEF OperationsNest
    <2>3. CASE \E f \in Operation : Changes(t, f) /\ f.at # "parse"
      BY <2>3 DEF Changes
    <2>4. QED
      BY <2>1, <2>2, <2>3
  <1>4. ~Parses(t)'
    BY <1>3 DEF Parses, Top
  <1>5. QED
    BY <1>1, <1>4

\* t's Context is put before the current one, or begins a chain.
LEMMA ContextPushed ==
    ASSUME TypeOK, ContextsExist, ParsesItsOwn, NEW t \in Thread, Free(t),
           NEW f \in Operation, Changes(t, f), Links(f), ~Links(Top(t)),
           f.previous \in {None, currentContext},
           currentContext' = Mine(t), spoilt' = spoilt
    PROVE  ContextsExist'
  <1>0. PICK M : M = Mine(t)
    OBVIOUS
  <1>1. /\ M \in Present /\ At(M) = Top(t) /\ ops[t] # <<>>
        /\ Present' = Present /\ At(M)' = f
        /\ \A i \in Present \ {M} : At(i)' = At(i)
    BY <1>0, InnermostOperation, PresentChanges DEF Changes
  <1>2. M \notin Linked /\ Linked' = Linked \cup {M}
    BY <1>1 DEF Linked, Links
  <1>3. ASSUME NEW u \in Thread, Parses(u)'
        PROVE  Mine(u)' = M
    BY <1>0, <1>3, ParsesAlone DEF Changes, Alone, Parses, Top, Mine
  <1>4. ASSUME "context" \notin spoilt'
        PROVE  /\ currentContext' \in Linked' \cup {None}
               /\ \A i \in Present' : At(i)'.previous # None =>
                    /\ At(i)'.previous \in Linked' \ {currentContext'}
                    /\ \A j \in Present' : At(j)'.previous = At(i)'.previous => i = j
                    /\ \A u \in Thread : Parses(u)' => At(i)'.previous # Mine(u)'
    <2>1. /\ currentContext \in Linked \cup {None}
          /\ \A i \in Present : At(i).previous # None =>
                /\ At(i).previous \in Linked \ {currentContext}
                /\ \A j \in Present : At(j).previous = At(i).previous => i = j
      BY <1>4 DEF ContextsExist
    <2>2. currentContext' = M
      BY <1>0
    <2>3. ASSUME NEW i \in Present', At(i)'.previous # None
          PROVE  At(i)'.previous \in Linked /\ At(i)'.previous # M
      BY <1>1, <1>2, <2>1, <2>3
    <2>4. ASSUME NEW i \in Present', NEW j \in Present', At(i)'.previous # None,
                 At(j)'.previous = At(i)'.previous
          PROVE  i = j
      BY <1>1, <2>1, <2>4
    <2>5. QED
      BY <1>2, <1>3, <2>2, <2>3, <2>4
  <1>5. QED
    BY <1>4 DEF ContextsExist

\* The current Context is set aside, by what has none of its own.
LEMMA ContextSetAside ==
    ASSUME TypeOK, ContextsExist, ParsesItsOwn, NEW t \in Thread, Free(t),
           NEW f \in Operation, Changes(t, f), ~Links(f), ~Links(Top(t)),
           f.previous = currentContext, currentContext' = None, spoilt' = spoilt
    PROVE  ContextsExist'
  <1>0. PICK M : M = Mine(t)
    OBVIOUS
  <1>1. /\ M \in Present /\ At(M) = Top(t) /\ ops[t] # <<>>
        /\ Present' = Present /\ At(M)' = f
        /\ \A i \in Present \ {M} : At(i)' = At(i)
    BY <1>0, InnermostOperation, PresentChanges DEF Changes
  <1>2. M \notin Linked /\ Linked' = Linked
    BY <1>1 DEF Linked, Links
  <1>3. ASSUME NEW u \in Thread, Parses(u)'
        PROVE  u = t /\ f.at = "parse"
    BY <1>3, ParsesAlone DEF Changes, Alone, Parses, Top
  <1>4. ASSUME "context" \notin spoilt', NEW i \in Present', At(i)'.previous # None
        PROVE  /\ At(i)'.previous \in Linked' \ {currentContext'}
               /\ \A j \in Present' : At(j)'.previous = At(i)'.previous => i = j
               /\ \A u \in Thread : Parses(u)' => At(i)'.previous # Mine(u)'
    <2>1. /\ currentContext \in Linked \cup {None}
          /\ \A k \in Present : At(k).previous # None =>
                /\ At(k).previous \in Linked \ {currentContext}
                /\ \A j \in Present : At(j).previous = At(k).previous => k = j
      BY <1>4 DEF ContextsExist
    <2>2. At(i)'.previous \in Linked'
      BY <1>1, <1>2, <1>4, <2>1
    <2>3. ASSUME NEW j \in Present', At(j)'.previous = At(i)'.previous
          PROVE  i = j
      BY <1>1, <1>4, <2>1, <2>3
    <2>4. QED
      BY <1>3, <1>4, <2>2, <2>3 DEF Links
  <1>5. QED
    BY <1>4 DEF ContextsExist

\* t's operation ends or goes on without a Context, and the one that was current
\* before it is current again.
LEMMA ContextRestored ==
    ASSUME TypeOK, OperationsNest, ContextsExist, NEW t \in Thread,
           \/ Shrinks(t)
           \/ \E f \in Operation : Changes(t, f) /\ f.at # "parse" /\ ~Links(f) /\ f.previous = None,
           "context" \notin spoilt => \A i \in Present : At(i).previous # Mine(t),
           currentContext' = Top(t).previous, spoilt \subseteq spoilt'
    PROVE  ContextsExist'
  <1>0. PICK M : M = Mine(t)
    OBVIOUS
  <1>1. /\ M \in Present /\ At(M) = Top(t)
        /\ \A i \in Present' \ {M} : i \in Present /\ At(i)' = At(i)
        /\ M \in Present' => At(M)'.previous = None
        /\ Linked' = Linked \ {M}
    <2>1. CASE Shrinks(t)
      <3>1. /\ M \in Present /\ At(M) = Top(t) /\ Present' = Present \ {M}
            /\ \A i \in Present \ {M} : At(i)' = At(i)
        BY <1>0, <2>1, InnermostOperation, PresentShrinks DEF Shrinks
      <3>2. QED
        BY <3>1 DEF Linked
    <2>2. CASE \E f \in Operation : Changes(t, f) /\ f.at # "parse" /\ ~Links(f) /\ f.previous = None
      <3>1. PICK f \in Operation : Changes(t, f) /\ ~Links(f) /\ f.previous = None
        BY <2>2
      <3>2. /\ M \in Present /\ At(M) = Top(t) /\ Present' = Present /\ At(M)' = f
            /\ \A i \in Present \ {M} : At(i)' = At(i)
        BY <1>0, <3>1, InnermostOperation, PresentChanges DEF Changes
      <3>3. QED
        BY <3>1, <3>2 DEF Linked, Links
    <2>3. QED
      BY <2>1, <2>2
  <1>2. ~Parses(t)' /\ \A u \in Thread \ {t} : Parses(u)' = Parses(u) /\ Mine(u)' = Mine(u)
    BY ParsesAfter
  <1>3. ASSUME "context" \notin spoilt'
        PROVE  /\ currentContext' \in Linked' \cup {None}
               /\ \A i \in Present' : At(i)'.previous # None =>
                     /\ At(i)'.previous \in Linked' \ {currentContext'}
                     /\ \A j \in Present' : At(j)'.previous = At(i)'.previous => i = j
                     /\ \A u \in Thread : Parses(u)' => At(i)'.previous # Mine(u)'
    <2>1. /\ \A i \in Present : At(i).previous # M
          /\ \A k \in Present : At(k).previous # None =>
                /\ At(k).previous \in Linked
                /\ \A j \in Present : At(j).previous = At(k).previous => k = j
                /\ \A u \in Thread : Parses(u) => At(k).previous # Mine(u)
      BY <1>0, <1>3 DEF ContextsExist
    <2>2. currentContext' = At(M).previous /\ currentContext' \in Linked' \cup {None}
      BY <1>1, <2>1
    <2>3. ASSUME NEW i \in Present', At(i)'.previous # None
          PROVE  i \in Present \ {M} /\ At(i)'.previous = At(i).previous
      BY <1>1, <2>3
    <2>4. ASSUME NEW i \in Present', At(i)'.previous # None
          PROVE  /\ At(i)'.previous \in Linked' \ {currentContext'}
                 /\ \A j \in Present' : At(j)'.previous = At(i)'.previous => i = j
      <3>1. At(i).previous # At(M).previous
        BY <1>1, <2>1, <2>3, <2>4
      <3>2. At(i)'.previous \in Linked'
        BY <1>1, <2>1, <2>3, <2>4
      <3>3. ASSUME NEW j \in Present', At(j)'.previous = At(i)'.previous
            PROVE  i = j
        BY <2>1, <2>3, <2>4, <3>3
      <3>4. QED
        BY <2>2, <2>3, <2>4, <3>1, <3>2, <3>3
    <2>5. ASSUME NEW i \in Present', At(i)'.previous # None, NEW u \in Thread, Parses(u)'
          PROVE  At(i)'.previous # Mine(u)'
      BY <1>2, <2>1, <2>3, <2>5
    <2>6. QED
      BY <2>2, <2>4, <2>5
  <1>4. QED
    BY <1>3 DEF ContextsExist

\* The chain stays as it is when an operation without a Context begins, ends or goes on.
LEMMA ContextsKept ==
    ASSUME TypeOK, OperationsNest, ContextsExist, NEW t \in Thread,
           \/ (\E f \in Operation : Grows(t, f) /\ f.at = "open" /\ f.previous = None) /\ Len(ops[t]) < Depth
           \/ (Shrinks(t) /\ ~Links(Top(t)) /\ Top(t).previous = None)
           \/ /\ \E f \in Operation : Changes(t, f) /\ f.at # "parse" /\ ~Links(f) /\ f.previous = None
              /\ ~Links(Top(t)) /\ Top(t).previous = None,
           currentContext' = currentContext, spoilt \subseteq spoilt'
    PROVE  ContextsExist'
  <1>1. /\ Linked' = Linked
        /\ \A i \in Present' : At(i)'.previous # None => i \in Present /\ At(i)'.previous = At(i).previous
    <2>1. CASE (\E f \in Operation : Grows(t, f) /\ f.at = "open" /\ f.previous = None) /\ Len(ops[t]) < Depth
      <3>1. PICK f \in Operation : Grows(t, f) /\ f.at = "open" /\ f.previous = None
        BY <2>1
      <3>2. PICK m \in Ids : /\ m \notin Present /\ Present' = Present \cup {m} /\ At(m)' = f
                             /\ \A i \in Present : At(i)' = At(i)
        BY <2>1, <3>1, PresentGrows
      <3>3. QED
        BY <3>1, <3>2 DEF Linked
    <2>2. CASE Shrinks(t) /\ ~Links(Top(t)) /\ Top(t).previous = None
      <3>0. PICK M : M = Mine(t)
        OBVIOUS
      <3>1. /\ M \in Present /\ At(M) = Top(t) /\ Present' = Present \ {M}
            /\ \A i \in Present \ {M} : At(i)' = At(i)
        BY <2>2, <3>0, InnermostOperation, PresentShrinks DEF Shrinks
      <3>2. QED
        BY <2>2, <3>1 DEF Linked, Links
    <2>3. CASE /\ \E f \in Operation : Changes(t, f) /\ f.at # "parse" /\ ~Links(f) /\ f.previous = None
               /\ ~Links(Top(t)) /\ Top(t).previous = None
      <3>0. PICK M : M = Mine(t)
        OBVIOUS
      <3>1. PICK f \in Operation : Changes(t, f) /\ ~Links(f) /\ f.previous = None
        BY <2>3
      <3>2. /\ M \in Present /\ At(M) = Top(t) /\ Present' = Present /\ At(M)' = f
            /\ \A i \in Present \ {M} : At(i)' = At(i)
        BY <3>0, <3>1, InnermostOperation, PresentChanges DEF Changes
      <3>3. QED
        BY <2>3, <3>1, <3>2 DEF Linked, Links
    <2>4. QED
      BY <2>1, <2>2, <2>3
  <1>2. ~Parses(t)' /\ \A u \in Thread \ {t} : Parses(u)' = Parses(u) /\ Mine(u)' = Mine(u)
    BY ParsesAfter
  <1>3. ASSUME "context" \notin spoilt', NEW i \in Present', At(i)'.previous # None
        PROVE  /\ At(i)'.previous \in Linked' \ {currentContext'}
               /\ \A j \in Present' : At(j)'.previous = At(i)'.previous => i = j
               /\ \A u \in Thread : Parses(u)' => At(i)'.previous # Mine(u)'
    <2>1. \A k \in Present : At(k).previous # None =>
                /\ At(k).previous \in Linked \ {currentContext}
                /\ \A j \in Present : At(j).previous = At(k).previous => k = j
                /\ \A u \in Thread : Parses(u) => At(k).previous # Mine(u)
      BY <1>3 DEF ContextsExist
    <2>2. QED
      BY <1>1, <1>2, <1>3, <2>1
  <1>4. "context" \notin spoilt' => currentContext' \in Linked' \cup {None}
    BY <1>1 DEF ContextsExist
  <1>5. QED
    BY <1>3, <1>4 DEF ContextsExist

LEMMA ContextsUnchanged ==
    ASSUME ContextsExist, UNCHANGED <<ops, currentContext, spoilt>>
    PROVE  ContextsExist'
  <1>1. /\ Present' = Present /\ \A i \in Present : At(i)' = At(i)
        /\ \A t \in Thread : Parses(t)' = Parses(t) /\ Mine(t)' = Mine(t)
    BY DEF Present, At, Parses, Top, Mine
  <1>2. Linked' = Linked
    BY <1>1 DEF Linked
  <1>3. QED
    BY <1>1, <1>2 DEF ContextsExist

LEMMA StepContextsExist ==
    ASSUME TypeOK, OperationsNest, ContextsExist, ParsesItsOwn, Next
    PROVE  ContextsExist'
  <1>1. ASSUME NEW t \in Thread, NEW o \in Used, Begin(t, o)
        PROVE  ContextsExist'
    <2>1. Len(ops[t]) < Depth /\ currentContext' = currentContext /\ spoilt' = spoilt
      BY <1>1 DEF Begin
    <2>2. \E f \in Operation : Grows(t, f) /\ f.at = "open" /\ f.previous = None
      BY <1>1, BeginGrows
    <2>3. QED
      BY <2>1, <2>2, ContextsKept
  <1>2. ASSUME NEW t \in Thread, Open(t) \/ OpenDelegate(t)
        PROVE  ContextsExist'
    <2>1. Free(t) /\ ~Links(Top(t)) /\ currentContext' = Mine(t) /\ spoilt' = spoilt
      BY <1>2 DEF Open, OpenDelegate, In, Links, Acquire, Visit, Push
    <2>2. \E f \in Operation : Changes(t, f) /\ Links(f) /\ f.previous \in {None, currentContext}
      <3>1. CASE Open(t)
        BY <3>1, OpenChanges DEF Links
      <3>2. CASE OpenDelegate(t)
        BY <3>2, SetAsideChanges DEF Links, OpenDelegate, In
      <3>3. QED
        BY <1>2, <3>1, <3>2
    <2>3. QED
      BY <2>1, <2>2, ContextPushed
  <1>3. ASSUME NEW t \in Thread, OpenRun(t)
        PROVE  ContextsExist'
    <2>1. Free(t) /\ ~Links(Top(t)) /\ Top(t).op = "run" /\ currentContext' = None /\ spoilt' = spoilt
      BY <1>3 DEF OpenRun, In, Links, Acquire
    <2>2. \E f \in Operation : Changes(t, f) /\ ~Links(f) /\ f.previous = currentContext
      BY <1>3, <2>1, SetAsideChanges DEF Links
    <2>3. QED
      BY <2>1, <2>2, ContextSetAside
  <1>4. ASSUME NEW t \in Thread, Parses(t)
        PROVE  "context" \notin spoilt => \A i \in Present : At(i).previous # Mine(t)
    <2>1. CASE Mine(t) = None
      BY <1>4, <2>1, InnermostOperation, NoneAssumption DEF Parses, Mine, Id
    <2>2. CASE Mine(t) # None
      BY <1>4, <2>2 DEF ContextsExist
    <2>3. QED
      BY <2>1, <2>2
  <1>5. ASSUME NEW t \in Thread, Parsed(t)
        PROVE  ContextsExist'
    <2>1. Parses(t) /\ currentContext' = Top(t).previous /\ spoilt' = spoilt
      BY <1>5 DEF Parsed, In, Parses
    <2>2. Top(t).op # "delegate"
      BY <2>1, InnermostOperation DEF OperationsNest, Parses, Top
    <2>3. \E f \in Operation : Changes(t, f) /\ f.at # "parse" /\ ~Links(f) /\ f.previous = None
      BY <1>5, <2>2, ParsedChanges DEF Links
    <2>4. QED
      BY <1>4, <2>1, <2>3, ContextRestored
  <1>6. ASSUME NEW t \in Thread, NothingToRun(t)
        PROVE  ContextsExist'
    <2>1. Parses(t) /\ currentContext' = Top(t).previous /\ spoilt' = spoilt
      BY <1>6 DEF NothingToRun, In, Parses
    <2>2. Shrinks(t)
      BY <1>6, EndShrinks DEF Ends
    <2>3. QED
      BY <1>4, <2>1, <2>2, ContextRestored
  <1>7. ASSUME NEW t \in Thread, ParseFails(t)
        PROVE  ContextsExist'
    <2>1. Parses(t)
      BY <1>7 DEF ParseFails, In, Parses
    <2>2. Shrinks(t)
      BY <1>7, EndShrinks DEF Ends
    <2>3. CASE Top(t).op \in {"execute", "load", "preload"}
      <3>1. currentContext' = Top(t).previous /\ spoilt' = spoilt
        BY <1>7, <2>3 DEF ParseFails
      <3>2. QED
        BY <1>4, <2>1, <2>2, <3>1, ContextRestored
    <2>4. CASE Top(t).op \notin {"execute", "load", "preload"}
      BY <1>7, <2>4 DEF ParseFails, Spoil, ContextsExist
    <2>5. QED
      BY <2>3, <2>4
  <1>8. ASSUME NEW t \in Thread, EndRun(t)
        PROVE  ContextsExist'
    <2>1. Top(t).op = "run" /\ Top(t).at = "code" /\ currentContext' = Top(t).previous /\ spoilt \subseteq spoilt'
      BY <1>8 DEF EndRun, Spoil
    <2>2. Shrinks(t)
      BY <1>8, EndShrinks DEF Ends
    <2>3. Mine(t) \notin Linked /\ Mine(t) # None
      BY <2>1, <2>2, InnermostOperation, NoneAssumption DEF Linked, Shrinks, Mine, Id
    <2>4. "context" \notin spoilt => \A i \in Present : At(i).previous # Mine(t)
      BY <2>3 DEF ContextsExist
    <2>5. QED
      BY <2>1, <2>2, <2>4, ContextRestored
  <1>9. ASSUME NEW t \in Thread, CloseDelegate(t)
        PROVE  ContextsExist'
    <2>1. Shrinks(t)
      BY <1>9, EndShrinks DEF Ends
    <2>2. CASE currentContext = Mine(t)
      <3>1. currentContext' = Top(t).previous /\ spoilt' = spoilt
        BY <1>9, <2>2 DEF CloseDelegate
      <3>2. Mine(t) # None
        BY <2>1, InnermostOperation, NoneAssumption DEF Shrinks, Mine, Id
      <3>3. "context" \notin spoilt => \A i \in Present : At(i).previous # Mine(t)
        BY <2>2, <3>2 DEF ContextsExist
      <3>4. QED
        BY <2>1, <3>1, <3>3, ContextRestored
    <2>3. CASE currentContext # Mine(t)
      BY <1>9, <2>3 DEF CloseDelegate, Spoil, ContextsExist
    <2>4. QED
      BY <2>2, <2>3
  <1>10. ASSUME NEW t \in Thread, MakeMachine(t)
         PROVE  ContextsExist'
    <2>1. ops[t] # <<>> /\ Top(t).at = "vm" /\ Top(t).op \in {"execute", "load"}
          /\ currentContext' = currentContext /\ spoilt' = spoilt
      BY <1>10 DEF MakeMachine, In
    <2>2. ~Links(Top(t)) /\ Top(t).previous = None
      BY <2>1, InnermostOperation DEF Links, OperationsNest, Top
    <2>3. \E f \in Operation : Changes(t, f) /\ f.at # "parse" /\ ~Links(f) /\ f.previous = None
      BY <1>10, <2>1, <2>2, MakeMachineChanges DEF Links
    <2>4. QED
      BY <2>1, <2>2, <2>3, ContextsKept
  <1>11. ASSUME NEW t \in Thread,
                \/ FileMissing(t) \/ EndLoad(t) \/ EndEval(t)
                \/ CloseExecute(t) \/ CloseExpression(t) \/ FailExpression(t)
         PROVE  ContextsExist'
    <2>1. /\ currentContext' = currentContext /\ spoilt \subseteq spoilt'
          /\ Top(t).at \in {"open", "code"} /\ Top(t).op \notin {"delegate", "run"}
      BY <1>11 DEF FileMissing, EndLoad, EndEval, CloseExecute, CloseExpression,
                   FailExpression, In, Spoil
    <2>2. Shrinks(t)
      BY <1>11, EndShrinks DEF Ends
    <2>3. ~Links(Top(t)) /\ Top(t).previous = None
      BY <2>1, <2>2, InnermostOperation DEF Links, OperationsNest, Top, Shrinks
    <2>4. QED
      BY <2>1, <2>2, <2>3, ContextsKept
  <1>12. ASSUME UNCHANGED <<ops, currentContext, spoilt>>
         PROVE  ContextsExist'
    BY <1>12, ContextsUnchanged
  <1>13. QED
    BY <1>1, <1>2, <1>3, <1>5, <1>6, <1>7, <1>8, <1>9, <1>10, <1>11, <1>12
       DEF Next, Advance, Raise, Catch, Join, Joined

-----------------------------------------------------------------------------
(***************************************************************************)
(* Whoever parses.                                                         *)
(***************************************************************************)
\* A step of t that does not end with t parsing: it leaves the parser's state as it
\* is, or may have the lock, or is one of those that are said to go wrong.
LEMMA ParsesKept ==
    ASSUME TypeOK, ParsesItsOwn, NEW t \in Thread,
           ~Parses(t)', \A u \in Thread \ {t} : Parses(u)' = Parses(u) /\ Mine(u)' = Mine(u),
           Acquire(t) \/ Release(t) \/ UNCHANGED <<owner, n>>,
           \/ Free(t)
           \/ UNCHANGED <<currentContext, currentScope>>
           \/ spoilt' \cap {"unlocked", "overreleased"} # {},
           spoilt \subseteq spoilt'
    PROVE  ParsesItsOwn'
  <1>1. ASSUME NEW u \in Thread, Parses(u)'
        PROVE  /\ owner' = u
               /\ spoilt' \cap {"unlocked", "overreleased"} = {} =>
                     currentContext' = Mine(u)' /\ currentScope' = Mine(u)'
    <2>1. u # t /\ Parses(u) /\ owner = u /\ ~Free(t)
      BY <1>1, ParsesAlone DEF ParsesItsOwn
    <2>2. owner' = owner
      BY <2>1 DEF Free, Acquire, Release
    <2>3. Mine(u)' = Mine(u)
      BY <2>1
    <2>4. ASSUME spoilt' \cap {"unlocked", "overreleased"} = {}
          PROVE  currentContext' = Mine(u) /\ currentScope' = Mine(u)
      <3>1. UNCHANGED <<currentContext, currentScope>>
        BY <2>1, <2>4
      <3>2. spoilt \cap {"unlocked", "overreleased"} = {}
        BY <2>4
      <3>3. QED
        BY <2>1, <3>1, <3>2 DEF ParsesItsOwn
    <2>5. QED
      BY <2>1, <2>2, <2>3, <2>4
  <1>2. QED
    BY <1>1 DEF ParsesItsOwn

LEMMA StepParsesItsOwn ==
    ASSUME TypeOK, OperationsNest, LockBalanced, ParsesItsOwn, Next
    PROVE  ParsesItsOwn'
  <1>1. ASSUME NEW t \in Thread, NEW o \in Used, Begin(t, o)
        PROVE  ParsesItsOwn'
    <2>1. ~Parses(t)' /\ \A u \in Thread \ {t} : Parses(u)' = Parses(u) /\ Mine(u)' = Mine(u)
      BY <1>1, BeginGrows, ParsesAfter
    <2>2. QED
      BY <1>1, <2>1, ParsesKept DEF Begin
  <1>2. ASSUME NEW t \in Thread, Open(t)
        PROVE  ParsesItsOwn'
    <2>1. Free(t) /\ owner' = t /\ currentContext' = Mine(t) /\ currentScope' = Mine(t)
      BY <1>2 DEF Open, Acquire, Push
    <2>2. \E f \in Operation : Changes(t, f)
      BY <1>2, OpenChanges
    <2>3. Mine(t)' = Mine(t) /\ \A u \in Thread \ {t} : ~Parses(u)'
      BY <2>1, <2>2, ParsesAlone DEF Changes, Alone, Parses, Top, Mine
    <2>4. QED
      BY <2>1, <2>3 DEF ParsesItsOwn
  <1>3. ASSUME NEW t \in Thread, OpenRun(t) \/ OpenDelegate(t)
        PROVE  ParsesItsOwn'
    <2>1. ~Parses(t)' /\ \A u \in Thread \ {t} : Parses(u)' = Parses(u) /\ Mine(u)' = Mine(u)
      BY <1>3, SetAsideChanges, ParsesAfter
    <2>2. Free(t) /\ spoilt' = spoilt
      BY <1>3 DEF OpenRun, OpenDelegate, Acquire, Visit
    <2>3. Acquire(t) \/ UNCHANGED <<owner, n>>
      BY <1>3 DEF OpenRun, OpenDelegate, Visit
    <2>4. QED
      BY <2>1, <2>2, <2>3, ParsesKept
  <1>4. ASSUME NEW t \in Thread, Parsed(t)
        PROVE  ParsesItsOwn'
    <2>1. \E f \in Operation : Changes(t, f) /\ f.at # "parse"
      BY <1>4, ParsedChanges
    <2>2. ~Parses(t)' /\ \A u \in Thread \ {t} : Parses(u)' = Parses(u) /\ Mine(u)' = Mine(u)
      BY <2>1, ParsesAfter
    <2>3. Free(t)
      BY <1>4 DEF Parsed, In, Parses, ParsesItsOwn, Free
    <2>4. QED
      BY <1>4, <2>2, <2>3, ParsesKept DEF Parsed
  <1>5. ASSUME NEW t \in Thread, MakeMachine(t)
        PROVE  ParsesItsOwn'
    <2>1. \E f \in Operation : Changes(t, f) /\ f.at # "parse"
      BY <1>5, MakeMachineChanges
    <2>2. ~Parses(t)' /\ \A u \in Thread \ {t} : Parses(u)' = Parses(u) /\ Mine(u)' = Mine(u)
      BY <2>1, ParsesAfter
    <2>3. QED
      BY <1>5, <2>2, ParsesKept DEF MakeMachine, Visit
  <1>6. ASSUME NEW t \in Thread, Ends(t)
        PROVE  ParsesItsOwn'
    <2>1. Shrinks(t)
      BY <1>6, EndShrinks
    <2>2. ~Parses(t)' /\ \A u \in Thread \ {t} : Parses(u)' = Parses(u) /\ Mine(u)' = Mine(u)
      BY <2>1, ParsesAfter
    <2>3. Acquire(t) \/ Release(t) \/ UNCHANGED <<owner, n>>
      BY <1>6 DEF Ends, FileMissing, ParseFails, NothingToRun, EndLoad, EndEval, EndRun, CloseExecute,
                  CloseExpression, FailExpression, CloseDelegate, Visit
    <2>4. spoilt \subseteq spoilt'
      BY <1>6 DEF Ends, FileMissing, ParseFails, NothingToRun, EndLoad, EndEval, EndRun, CloseExecute,
                  CloseExpression, FailExpression, CloseDelegate, Spoil
    <2>5. \/ Free(t)
          \/ UNCHANGED <<currentContext, currentScope>>
          \/ spoilt' \cap {"unlocked", "overreleased"} # {}
      <3>1. CASE EndRun(t)
        <4>1. CASE "overreleased" \in spoilt
          BY <2>4, <4>1
        <4>2. CASE "overreleased" \notin spoilt
          <5>1. Entries(Top(t)) = 1 /\ ops[t] # <<>>
            BY <3>1 DEF EndRun, Entries
          <5>2. Cardinality(Holders(t)) # 0 /\ Cardinality(Holders(t)) \in Nat
            BY <5>1, HoldersNotEmpty, HoldersFinite
          <5>3. Cardinality(Holders(t)) <= Held(t)
            BY <4>2 DEF LockBalanced
          <5>4. QED
            BY <5>2, <5>3 DEF Held, Free
        <4>3. QED
          BY <4>1, <4>2
      <3>2. CASE FailExpression(t)
        BY <3>2 DEF FailExpression, Spoil
      <3>3. CASE EndLoad(t) \/ EndEval(t)
        BY <3>3 DEF EndLoad, EndEval
      <3>4. CASE FileMissing(t) \/ ParseFails(t) \/ NothingToRun(t) \/ CloseExecute(t)
                 \/ CloseExpression(t) \/ CloseDelegate(t)
        BY <3>4 DEF FileMissing, ParseFails, NothingToRun, CloseExecute, CloseExpression,
                    CloseDelegate, Visit, Acquire, Release, Free
      <3>5. QED
        BY <1>6, <3>1, <3>2, <3>3, <3>4 DEF Ends
    <2>6. QED
      BY <2>2, <2>3, <2>4, <2>5, ParsesKept
  <1>7. ASSUME UNCHANGED <<owner, ops, currentContext, currentScope, spoilt>>
        PROVE  ParsesItsOwn'
    BY <1>7 DEF ParsesItsOwn, Parses, Top, Mine
  <1>8. QED
    BY <1>1, <1>2, <1>3, <1>4, <1>5, <1>6, <1>7
       DEF Next, Advance, Ends, Raise, Catch, Join, Joined

-----------------------------------------------------------------------------
(***************************************************************************)
(* The inductive invariant, and what follows from it.                      *)
(***************************************************************************)
IInv == LockInv /\ ParserInv

LEMMA InitIInv == Init => IInv
  <1> SUFFICES ASSUME Init
               PROVE  IInv
    OBVIOUS
  <1>1. /\ \A t \in Thread : ops[t] = <<>> /\ Len(ops[t]) = 0
        /\ owner = None /\ spoilt = {} /\ joining = {}
    BY DEF Init
  <1>2. TypeOK
    BY <1>1, BoundAssumption DEF Init, TypeOK
  <1>3. OperationsNest /\ MainJoins
    BY <1>1 DEF OperationsNest, MainJoins
  <1>4. LockBalanced
    <2>1. ASSUME NEW t \in Thread
          PROVE  Held(t) = 0 /\ Cardinality(Holders(t)) = 0
      <3>1. Held(t) = 0
        BY <1>1, NoneAssumption DEF Held
      <3>2. Holders(t) = {}
        BY <1>1 DEF Holders
      <3>3. QED
        BY <3>1, <3>2, FS_EmptySet
    <2>2. QED
      BY <2>1 DEF LockBalanced
  <1>5. ContextsExist /\ ParsesItsOwn
    <2>1. Present = {}
      BY <1>1 DEF Present, Ids
    <2>2. \A t \in Thread : ~Parses(t)
      BY <1>1 DEF Parses
    <2>3. QED
      BY <2>1, <2>2 DEF ContextsExist, ParsesItsOwn, Init
  <1>6. QED
    BY <1>2, <1>3, <1>4, <1>5 DEF IInv, LockInv, ParserInv

LEMMA StepIInv == IInv /\ [Next]_vars => IInv'
  <1> SUFFICES ASSUME IInv, [Next]_vars
               PROVE  IInv'
    OBVIOUS
  <1> USE DEF IInv, LockInv, ParserInv
  <1>1. CASE Next
    BY <1>1, StepTypeOK, StepOperationsNest, StepMainJoins, StepLockBalanced, StepContextsExist,
       StepParsesItsOwn
  <1>2. CASE UNCHANGED vars
    <2> USE <1>2 DEF vars
    <2>1. TypeOK'
      BY DEF TypeOK
    <2>2. OperationsNest' /\ MainJoins'
      BY DEF OperationsNest, MainJoins, Top
    <2>3. LockBalanced'
      BY DEF LockBalanced, Held, Holders
    <2>4. ContextsExist'
      BY ContextsUnchanged
    <2>5. ParsesItsOwn'
      BY DEF ParsesItsOwn, Parses, Top, Mine
    <2>6. QED
      BY <2>1, <2>2, <2>3, <2>4, <2>5
  <1>3. QED
    BY <1>1, <1>2

\* The operations of every thread nest, and a thread has exactly the entries of the
\* parser's lock that the operations it is in took (LockInv), for every number of
\* threads, operations and exceptions.
THEOREM LockSafety == Spec => []LockInv
  <1>1. IInv => LockInv
    BY DEF IInv
  <1>2. QED
    BY InitIInv, StepIInv, <1>1, PTL DEF Spec

\* Whoever parses has the lock and parses its own text in its own scope, and the
\* chain of Contexts leads to Contexts that exist (ParserInv).
THEOREM ParserSafety == Spec => []ParserInv
  <1>1. IInv => ParserInv
    BY DEF IInv
  <1>2. QED
    BY InitIInv, StepIInv, <1>1, PTL DEF Spec

\* A thread that joins another one has the lock only for code of eval or of a preload,
\* or because it was left with it (JoinsWithoutLock).
THEOREM JoinSafety == Spec => []JoinsWithoutLock
  <1>1. IInv => JoinsWithoutLock
    <2> SUFFICES ASSUME IInv, joining # {}, owner = Main, "kept" \notin spoilt
                 PROVE  \E d \in 1..Len(ops[Main]) : ops[Main][d].op \in {"eval", "run"}
      BY DEF JoinsWithoutLock
    <2> USE DEF IInv, LockInv
    <2>1. n \in Nat \ {0} /\ Held(Main) = n
      BY NoneAssumption, MainAssumption, BoundAssumption DEF TypeOK, Held
    <2>2. Cardinality(Holders(Main)) # 0
      BY <2>1, MainAssumption, HoldersFinite DEF LockBalanced
    <2>3. PICK d \in 1..Len(ops[Main]) : Entries(ops[Main][d]) = 1
      <3>1. Holders(Main) # {}
        BY <2>2, FS_EmptySet
      <3>2. QED
        BY <3>1 DEF Holders
    <2>4. ops[Main][d].at = "code"
      <3>1. ops[Main] \in Seq(Operation) /\ Len(ops[Main]) \in Nat /\ Len(<<>>) = 0
        BY MainAssumption, LenProperties, EmptySeq DEF TypeOK
      <3>2. ops[Main] # <<>> /\ ops[Main][Len(ops[Main])].at = "code"
        BY <2>3, <3>1 DEF MainJoins, Top
      <3>3. QED
        BY <2>3, <3>1, <3>2, MainAssumption DEF OperationsNest
    <2>5. QED
      BY <2>3, <2>4 DEF Entries
  <1>2. QED
    BY InitIInv, StepIInv, <1>1, PTL DEF Spec

-----------------------------------------------------------------------------
(***************************************************************************)
(* Second, ObjectMonitors, for every number of threads, variables, objects *)
(* and blocks, composed with the parser lock.                              *)
(***************************************************************************)
(***************************************************************************)
(* Sequences without duplicates, as the free list is one.                  *)
(***************************************************************************)
LEMMA RangeOfList ==
    ASSUME NEW S, NEW s \in Seq(S)
    PROVE  /\ Len(s) \in Nat /\ DOMAIN s = 1..Len(s)
           /\ Range(s) = {s[i] : i \in 1..Len(s)}
           /\ Range(s) \subseteq S
  <1>1. Len(s) \in Nat /\ DOMAIN s = 1..Len(s) /\ \A i \in 1..Len(s) : s[i] \in S
    BY LenProperties, ElementOfSeq
  <1>2. QED
    BY <1>1 DEF Range

LEMMA ListWithoutHead ==
    ASSUME NEW S, NEW s \in Seq(S), s # <<>>, IsInjective(s)
    PROVE  /\ Head(s) \in S /\ Tail(s) \in Seq(S)
           /\ IsInjective(Tail(s)) /\ Range(Tail(s)) = Range(s) \ {Head(s)}
           /\ Head(s) \in Range(s)
  <1>1. /\ Tail(s) \in Seq(S) /\ Len(s) \in Nat \ {0} /\ Len(Tail(s)) = Len(s) - 1
        /\ \A i \in 1..Len(Tail(s)) : Tail(s)[i] = s[i + 1]
        /\ Head(s) = s[1] /\ Head(s) \in S
    BY HeadTailProperties, EmptySeq
  <1>2. DOMAIN s = 1..Len(s) /\ DOMAIN Tail(s) = 1..Len(Tail(s))
    BY <1>1, LenProperties
  <1>3. IsInjective(Tail(s))
    BY <1>1, <1>2 DEF IsInjective
  <1>4. Range(Tail(s)) = Range(s) \ {Head(s)}
    <2>1. ASSUME NEW y \in Range(Tail(s))
          PROVE  y \in Range(s) \ {Head(s)}
      BY <1>1, <1>2 DEF Range, IsInjective
    <2>2. ASSUME NEW y \in Range(s) \ {Head(s)}
          PROVE  y \in Range(Tail(s))
      <3>1. PICK i \in 1..Len(s) : y = s[i]
        BY <1>2 DEF Range
      <3>2. i - 1 \in 1..Len(Tail(s)) /\ Tail(s)[i - 1] = s[i - 1 + 1] /\ i - 1 + 1 = i
        BY <1>1, <2>2, <3>1
      <3>3. QED
        BY <1>2, <3>1, <3>2 DEF Range
    <2>3. QED
      BY <2>1, <2>2
  <1>5. QED
    BY <1>1, <1>2, <1>3, <1>4, SMTT(30) DEF Range

LEMMA ListWithOneMore ==
    ASSUME NEW S, NEW s \in Seq(S), IsInjective(s), NEW e \in S, e \notin Range(s)
    PROVE  /\ Append(s, e) \in Seq(S)
           /\ IsInjective(Append(s, e)) /\ Range(Append(s, e)) = Range(s) \cup {e}
  <1>1. /\ Append(s, e) \in Seq(S) /\ Len(s) \in Nat /\ Len(Append(s, e)) = Len(s) + 1
        /\ \A i \in 1..Len(s) : Append(s, e)[i] = s[i]
        /\ Append(s, e)[Len(s) + 1] = e
    BY AppendProperties, LenProperties
  <1>2. DOMAIN s = 1..Len(s) /\ DOMAIN Append(s, e) = 1..Len(Append(s, e))
    BY <1>1, LenProperties
  <1>3. IsInjective(Append(s, e))
    <2>1. ASSUME NEW i \in 1..(Len(s) + 1), NEW j \in 1..(Len(s) + 1), Append(s, e)[i] = Append(s, e)[j]
          PROVE  i = j
      <3>1. (i \in 1..Len(s) \/ i = Len(s) + 1) /\ (j \in 1..Len(s) \/ j = Len(s) + 1)
        BY <1>1
      <3>2. \A k \in 1..Len(s) : s[k] # e
        BY <1>2 DEF Range
      <3>3. QED
        BY <1>1, <1>2, <2>1, <3>1, <3>2 DEF IsInjective
    <2>2. QED
      BY <1>1, <1>2, <2>1 DEF IsInjective
  <1>4. Range(Append(s, e)) = Range(s) \cup {e}
    <2>1. 1..(Len(s) + 1) = 1..Len(s) \cup {Len(s) + 1}
      BY <1>1
    <2>2. QED
      BY <1>1, <1>2, <2>1 DEF Range
  <1>5. QED
    BY <1>1, <1>3, <1>4

-----------------------------------------------------------------------------
(***************************************************************************)
(* The map from objects to monitors.                                       *)
(***************************************************************************)
\* findMonitor can make one when it has to.
LEMMA MonitorLeft ==
    ASSUME ObjTypeOK, NEW a \in Addr, monitorCache[a] = None, monitorFreeList = <<>>
    PROVE  Unmade \in Mon /\ Unmade \notin Made
  <1> DEFINE S == {b \in Addr : monitorCache[b] # None}
             T == Range(monitorCache) \ {None}
             f == [b \in S |-> monitorCache[b]]
  <1>1. monitorCache \in [Addr -> Mon \cup {None}] /\ IsFiniteSet(Addr) /\ IsFiniteSet(Mon)
        /\ Cardinality(Addr) <= Cardinality(Mon)
    BY MonAssumption DEF ObjTypeOK
  <1>2. Made = T
    <2>1. Range(<<>>) = {}
      BY DEF Range
    <2>2. QED
      BY <2>1 DEF Made
  <1>3. f \in Surjection(S, T)
    BY <1>1 DEF Surjection, Range
  <1>4. /\ IsFiniteSet(S)
        /\ Cardinality(S) <= Cardinality(Addr) - 1
    <2>1. /\ IsFiniteSet(Addr \ {a})
          /\ Cardinality(Addr \ {a}) = Cardinality(Addr) - 1
      BY <1>1, FS_RemoveElement
    <2>2. S \in SUBSET (Addr \ {a})
      OBVIOUS
    <2>3. QED
      <3> HIDE DEF S
      <3>1. QED
        BY <2>1, <2>2, FS_Subset
  <1>5. /\ IsFiniteSet(T)
        /\ Cardinality(T) <= Cardinality(S)
    <2> HIDE DEF S, T, f
    <2>1. QED
      BY <1>3, <1>4, FS_Surjection
  <1>6. ~(Mon \subseteq T)
    <2> HIDE DEF S, T, f
    <2>1. SUFFICES ASSUME Mon \in SUBSET T
                   PROVE  FALSE
      OBVIOUS
    <2>2. Cardinality(Mon) <= Cardinality(T)
      BY <1>5, <2>1, FS_Subset
    <2>3. /\ Cardinality(Mon) \in Nat /\ Cardinality(T) \in Nat /\ Cardinality(S) \in Nat
          /\ Cardinality(Addr) \in Nat
      BY <1>1, <1>4, <1>5, FS_CardinalityType
    <2>4. QED
      BY <1>1, <1>4, <1>5, <2>2, <2>3
  <1>7. \E m \in Mon : m \notin Made
    BY <1>2, <1>6
  <1>8. QED
    BY <1>7 DEF Unmade

\* findMonitor gives the object's monitor, or one that is no object's.
LEMMA MonitorFound ==
    ASSUME ObjTypeOK, OneMonitorEach, NEW a \in Addr
    PROVE  /\ findMonitor(a) \in Mon
           /\ monitorCache[a] # None => findMonitor(a) = monitorCache[a]
           /\ monitorCache[a] = None => findMonitor(a) \notin Range(monitorCache)
  <1>1. CASE monitorCache[a] # None
    BY <1>1 DEF ObjTypeOK, findMonitor
  <1>2. CASE monitorCache[a] = None /\ monitorFreeList # <<>>
    <2>1. Head(monitorFreeList) \in Mon /\ Head(monitorFreeList) \in Range(monitorFreeList)
      BY <1>2, ListWithoutHead DEF ObjTypeOK, OneMonitorEach
    <2>2. QED
      BY <1>2, <2>1 DEF findMonitor, OneMonitorEach
  <1>3. CASE monitorCache[a] = None /\ monitorFreeList = <<>>
    <2>1. Unmade \in Mon /\ Unmade \notin Made
      BY <1>3, MonitorLeft
    <2>2. Unmade # None
      BY <2>1, VarAssumption
    <2>3. QED
      BY <1>3, <2>1, <2>2 DEF findMonitor, Made
  <1>4. QED
    BY <1>1, <1>2, <1>3

\* What Found leaves: the map is one-to-one, and only a's monitor is new.
CacheTyped == /\ monitorCache \in [Addr -> Mon \cup {None}]
              /\ monitorFreeList \in Seq(Mon)

LEMMA FoundKeeps ==
    ASSUME ObjTypeOK, OneMonitorEach, NEW a \in Live, Found(a), val' = val
    PROVE  /\ CacheTyped' /\ OneMonitorEach'
           /\ monitorCache'[a] = findMonitor(a)
           /\ \A b \in Addr \ {a} : monitorCache'[b] = monitorCache[b]
           /\ Range(monitorFreeList') \subseteq Range(monitorFreeList)
  <1>0. a \in Addr /\ monitorCache \in [Addr -> Mon \cup {None}] /\ monitorFreeList \in Seq(Mon)
    BY DEF ObjTypeOK, Live, Range
  <1>1. findMonitor(a) \in Mon /\ findMonitor(a) # None
    BY <1>0, MonitorFound, VarAssumption
  <1>2. /\ monitorCache' \in [Addr -> Mon \cup {None}]
        /\ monitorCache'[a] = findMonitor(a)
        /\ \A b \in Addr \ {a} : monitorCache'[b] = monitorCache[b]
    BY <1>0, <1>1 DEF Found
  <1>3. /\ monitorFreeList' \in Seq(Mon)
        /\ Range(monitorFreeList') \subseteq Range(monitorFreeList)
        /\ IsInjective(monitorFreeList')
        /\ monitorCache[a] = None => findMonitor(a) \notin Range(monitorFreeList')
    <2>1. CASE monitorCache[a] = None /\ monitorFreeList # <<>>
      BY <1>0, <2>1, ListWithoutHead DEF Found, findMonitor, OneMonitorEach
    <2>2. CASE monitorCache[a] = None /\ monitorFreeList = <<>>
      <3>1. findMonitor(a) \notin Made /\ monitorFreeList' = monitorFreeList
        BY <1>0, <2>2, MonitorLeft DEF Found, findMonitor
      <3>2. QED
        BY <1>0, <3>1 DEF Made, OneMonitorEach
    <2>3. CASE monitorCache[a] # None
      BY <1>0, <2>3 DEF Found, OneMonitorEach
    <2>4. QED
      BY <2>1, <2>2, <2>3
  <1>4. ASSUME NEW b \in Addr, NEW c \in Addr, monitorCache'[b] = monitorCache'[c],
               monitorCache'[b] # None
        PROVE  b = c
    <2>1. monitorCache[a] = None => \A d \in Addr : monitorCache[d] # findMonitor(a)
      BY <1>0, MonitorFound DEF Range
    <2>2. monitorCache[a] # None => findMonitor(a) = monitorCache[a]
      BY <1>0, MonitorFound
    <2>3. QED
      BY <1>0, <1>2, <1>4, <2>1, <2>2 DEF OneMonitorEach
  <1>5. Range(monitorFreeList') \cap Range(monitorCache') = {}
    <2>1. ASSUME NEW m \in Range(monitorFreeList'), NEW b \in Addr, monitorCache'[b] = m
          PROVE  FALSE
      <3>1. m \in Range(monitorFreeList) /\ m \notin Range(monitorCache)
        BY <1>3 DEF OneMonitorEach
      <3>2. b = a /\ m = findMonitor(a)
        BY <1>0, <1>2, <2>1, <3>1 DEF Range
      <3>3. monitorCache[a] # None
        BY <1>3, <2>1, <3>2
      <3>4. QED
        BY <1>0, <3>1, <3>2, <3>3, MonitorFound DEF Range
    <2>2. QED
      BY <1>2, <2>1 DEF Range
  <1>6. \A b \in Addr : monitorCache'[b] # None => b \in Live'
    BY <1>2 DEF OneMonitorEach, Live
  <1>7. OneMonitorEach'
    BY <1>3, <1>4, <1>5, <1>6 DEF OneMonitorEach
  <1>8. QED
    BY <1>2, <1>3, <1>7 DEF CacheTyped

\* What freeMonitor leaves, when the last reference to the object has gone.
LEMMA FreedKeeps ==
    ASSUME ObjTypeOK, OneMonitorEach, NEW a \in Addr, freeMonitor(a), Live \ {a} \subseteq Live'
    PROVE  /\ CacheTyped' /\ OneMonitorEach'
           /\ \A b \in Addr \ {a} : monitorCache'[b] = monitorCache[b]
           /\ \A m \in Range(monitorFreeList') : m \in Range(monitorFreeList) \/ m = monitorCache[a]
  <1>0. monitorCache \in [Addr -> Mon \cup {None}] /\ monitorFreeList \in Seq(Mon)
    BY DEF ObjTypeOK
  <1>1. CASE monitorCache[a] = None
    <2>1. monitorCache' = monitorCache /\ monitorFreeList' = monitorFreeList
      BY <1>1 DEF freeMonitor
    <2>2. \A b \in Addr : monitorCache[b] # None => b \in Live'
      BY <1>1 DEF OneMonitorEach
    <2>3. QED
      BY <1>0, <2>1, <2>2 DEF CacheTyped, OneMonitorEach
  <1>2. CASE monitorCache[a] # None
    <2>1. PICK m \in Mon : m = monitorCache[a] /\ m \in Range(monitorCache)
      BY <1>0, <1>2 DEF Range
    <2>2. m \notin Range(monitorFreeList) /\ m # None
      BY <1>2, <2>1 DEF OneMonitorEach
    <2>3. /\ monitorFreeList' \in Seq(Mon) /\ IsInjective(monitorFreeList')
          /\ Range(monitorFreeList') = Range(monitorFreeList) \cup {m}
      <3>1. monitorFreeList' = Append(monitorFreeList, m) /\ IsInjective(monitorFreeList)
        BY <1>2, <2>1 DEF freeMonitor, OneMonitorEach
      <3>2. QED
        BY <1>0, <2>2, <3>1, ListWithOneMore
    <2>4. /\ monitorCache' \in [Addr -> Mon \cup {None}] /\ monitorCache'[a] = None
          /\ \A b \in Addr \ {a} : monitorCache'[b] = monitorCache[b]
      BY <1>0, <1>2 DEF freeMonitor
    <2>5. Range(monitorCache') \subseteq (Range(monitorCache) \ {m}) \cup {None}
      <3>1. ASSUME NEW b \in Addr \ {a}
            PROVE  monitorCache[b] # m
        BY <1>2, <2>1 DEF OneMonitorEach
      <3>2. QED
        BY <1>0, <2>4, <3>1 DEF Range
    <2>6. None \notin Range(monitorFreeList)
      BY <1>0, RangeOfList, VarAssumption
    <2>7. Range(monitorFreeList') \cap Range(monitorCache') = {}
      BY <2>2, <2>3, <2>5, <2>6 DEF OneMonitorEach
    <2>8. \A b \in Addr : monitorCache'[b] # None => b \in Live'
      BY <2>4 DEF OneMonitorEach
    <2>9. \A b, c \in Addr : monitorCache'[b] = monitorCache'[c] => b = c \/ monitorCache'[b] = None
      BY <2>4 DEF OneMonitorEach
    <2>10. QED
      BY <2>1, <2>3, <2>4, <2>7, <2>8, <2>9 DEF CacheTyped, OneMonitorEach
  <1>3. QED
    BY <1>1, <1>2

-----------------------------------------------------------------------------
(***************************************************************************)
(* The blocks of a thread, and its entries.                                *)
(***************************************************************************)
LEMMA BlockTypes ==
    ASSUME ObjTypeOK, NEW t \in Thread
    PROVE  /\ Len(blocks[t]) \in Nat /\ Len(blocks[t]) <= Blocks /\ Blocks \in Nat
           /\ \A i \in 1..Len(blocks[t]) : blocks[t][i].x \in Var /\ blocks[t][i].obj \in Addr
           /\ blocks[t] # <<>> <=> Len(blocks[t]) # 0
           /\ blocks[t] # <<>> => Len(blocks[t]) \in 1..Len(blocks[t])
  <1>1. blocks[t] \in Seq(Block)
    BY DEF ObjTypeOK
  <1>2. /\ Len(blocks[t]) \in Nat /\ \A i \in 1..Len(blocks[t]) : blocks[t][i] \in Block
        /\ Len(<<>>) = 0 /\ (blocks[t] # <<>> => Len(blocks[t]) \in Nat \ {0})
    BY <1>1, LenProperties, ElementOfSeq, EmptySeq
  <1>3. QED
    BY <1>2, BlocksAssumption DEF ObjTypeOK, Block

BlocksAlone(t) == /\ blocks' \in [Thread -> Seq(Block)]
                  /\ \A u \in Thread \ {t} : blocks'[u] = blocks[u]

LEMMA LookGrows ==
    ASSUME TypeOK, ObjTypeOK, NEW t \in Thread, NEW x \in Var, Look(t, x)
    PROVE  /\ BlocksAlone(t)
           /\ Len(blocks'[t]) = Len(blocks[t]) + 1
           /\ blocks'[t][Len(blocks[t]) + 1].x = x
           /\ blocks'[t][Len(blocks[t]) + 1].obj = val[x]
           /\ \A i \in 1..Len(blocks[t]) : blocks'[t][i] = blocks[t][i]
  <1> DEFINE b == [x |-> x, obj |-> val[x], depth |-> Len(ops[t])]
  <1>1. b \in Block
    <2>1. Len(ops[t]) \in 0..Depth
      BY LenProperties, BoundAssumption DEF TypeOK
    <2>2. val[x] \in Addr
      BY DEF Look, ObjTypeOK
    <2>3. QED
      BY <2>1, <2>2 DEF Block
  <1>2. b.x = x /\ b.obj = val[x]
    OBVIOUS
  <1>3. blocks' = [blocks EXCEPT ![t] = Append(@, b)] /\ blocks \in [Thread -> Seq(Block)]
    BY DEF Look, ObjTypeOK
  <1> HIDE DEF b
  <1>4. blocks'[t] = Append(blocks[t], b) /\ blocks[t] \in Seq(Block)
    BY <1>3
  <1>5. /\ Append(blocks[t], b) \in Seq(Block)
        /\ Len(Append(blocks[t], b)) = Len(blocks[t]) + 1
        /\ Append(blocks[t], b)[Len(blocks[t]) + 1] = b
        /\ \A i \in 1..Len(blocks[t]) : Append(blocks[t], b)[i] = blocks[t][i]
    BY <1>1, <1>4, AppendProperties
  <1>6. QED
    BY <1>2, <1>3, <1>4, <1>5 DEF BlocksAlone

LEMMA LeaveShrinks ==
    ASSUME ObjTypeOK, NEW t \in Thread, Leave(t), blocks[t] # <<>>
    PROVE  /\ BlocksAlone(t)
           /\ Len(blocks'[t]) = Len(blocks[t]) - 1
           /\ \A i \in 1..(Len(blocks[t]) - 1) : blocks'[t][i] = blocks[t][i]
  <1> DEFINE m == Len(blocks[t]) - 1
  <1>1. blocks[t] \in Seq(Block) /\ m \in Nat
    BY BlockTypes DEF ObjTypeOK
  <1>2. \A i \in 1..m : blocks[t][i] \in Block
    BY <1>1, ElementOfSeq
  <1>3. blocks'[t] = SubSeq(blocks[t], 1, m) /\ blocks' = [blocks EXCEPT ![t] = SubSeq(blocks[t], 1, m)]
        /\ blocks \in [Thread -> Seq(Block)]
    BY DEF Leave, Front, ObjTypeOK
  <1> HIDE DEF m
  <1>4. /\ SubSeq(blocks[t], 1, m) \in Seq(Block)
        /\ Len(SubSeq(blocks[t], 1, m)) = IF 1 <= m THEN m - 1 + 1 ELSE 0
        /\ \A i \in 1..(m - 1 + 1) : SubSeq(blocks[t], 1, m)[i] = blocks[t][1 + i - 1]
    BY <1>1, <1>2, SubSeqProperties
  <1>5. Len(blocks'[t]) = m /\ \A i \in 1..m : blocks'[t][i] = blocks[t][i]
    <2>1. \A i \in Int : 1 + i - 1 = i
      OBVIOUS
    <2>2. QED
      BY <1>1, <1>3, <1>4, <2>1
  <1>6. BlocksAlone(t)
    BY <1>3, <1>4 DEF BlocksAlone
  <1>7. QED
    BY <1>5, <1>6 DEF m

LEMMA EntriesFinite ==
    ASSUME NEW t \in Thread
    PROVE  IsFiniteSet(EntriesOf(t)) /\ Cardinality(EntriesOf(t)) \in Nat
  <1>1. IsFiniteSet(1..Blocks) /\ IsFiniteSet(Mon)
    BY FS_Interval, BlocksAssumption, MonAssumption
  <1>2. IsFiniteSet(Mon \X (1..Blocks))
    BY <1>1, FS_Product
  <1>3. EntriesOf(t) \in SUBSET (Mon \X (1..Blocks))
    BY DEF EntriesOf
  <1>4. IsFiniteSet(EntriesOf(t))
    BY <1>2, <1>3, FS_Subset
  <1>5. QED
    BY <1>4, FS_CardinalityType

\* No monitor has more entries than its owner.
LEMMA EntriesOfOne ==
    ASSUME ObjTypeOK, NEW t \in Thread, NEW m \in Mon, mowner[m] = t
    PROVE  mn[m] <= Cardinality(EntriesOf(t)) /\ Cardinality(EntriesOf(t)) # 0
  <1> DEFINE k == mn[m]
             f == [i \in 1..k |-> <<m, i>>]
  <1>1. k \in Nat /\ k <= Blocks /\ k # 0
    BY NoneAssumption, BlocksAssumption DEF ObjTypeOK
  <1>2. f \in Injection(1..k, EntriesOf(t))
    <2>1. \A i \in 1..k : <<m, i>> \in EntriesOf(t)
      BY <1>1, BlocksAssumption DEF EntriesOf
    <2>2. QED
      BY <2>1 DEF Injection, IsInjective
  <1>3. Cardinality(1..k) = k
    <2> HIDE DEF k
    <2>1. QED
      BY <1>1, FS_Interval
  <1>4. Cardinality(1..k) <= Cardinality(EntriesOf(t))
    <2> HIDE DEF k, f
    <2>1. QED
      BY <1>2, EntriesFinite, FS_Injection
  <1>5. QED
    BY <1>1, <1>3, <1>4, EntriesFinite

LEMMA EnteredFinite ==
    ASSUME ObjTypeOK, NEW t \in Thread, NEW m
    PROVE  IsFiniteSet(Entered(t, m)) /\ Cardinality(Entered(t, m)) \in Nat
  <1>1. IsFiniteSet(1..Len(blocks[t]))
    BY BlockTypes, FS_Interval
  <1>2. Entered(t, m) \in SUBSET (1..Len(blocks[t]))
    BY DEF Entered
  <1>3. QED
    BY <1>1, <1>2, FS_Subset, FS_CardinalityType

-----------------------------------------------------------------------------
(***************************************************************************)
(* Every action keeps what is known of the monitors.                       *)
(***************************************************************************)
MonitorsIInv == ObjTypeOK /\ OneMonitorEach /\ AsksOwn /\ BlocksHold /\ EntriesCounted

LEMMA MonitorsUntouched ==
    ASSUME MonitorsIInv, UNCHANGED ovars, raising \subseteq raising',
           \A u \in Thread : asking[u] # None => u \notin raising' /\ ops'[u] = ops[u]
    PROVE  MonitorsIInv'
  <1> USE DEF MonitorsIInv, ovars
  <1>1. ObjTypeOK'
    BY DEF ObjTypeOK
  <1>2. OneMonitorEach'
    BY DEF OneMonitorEach, Live
  <1>3. AsksOwn'
    BY DEF AsksOwn, Innermost, Top
  <1>4. BlocksHold'
    BY DEF BlocksHold, Entered
  <1>5. EntriesCounted'
    BY DEF EntriesCounted, EntriesOf
  <1>6. QED
    BY <1>1, <1>2, <1>3, <1>4, <1>5

\* A step of the parser lock's is one of the thread's own.
LEMMA LockStep ==
    ASSUME TypeOK, NEW t \in Thread, Lock(t)
    PROVE  /\ \A u \in Thread \ {t} : ops'[u] = ops[u]
           /\ raising \subseteq raising' /\ raising' \subseteq raising \cup {t}
  <1>1. CASE \E o \in Used : Begin(t, o)
    BY <1>1, BeginGrows DEF Grows, Alone, Begin
  <1>2. CASE Advance(t)
    <2>1. Alone(t)
      <3>1. CASE Open(t)
        BY <3>1, OpenChanges DEF Changes
      <3>2. CASE OpenRun(t) \/ OpenDelegate(t)
        BY <3>2, SetAsideChanges DEF Changes
      <3>3. CASE Parsed(t)
        BY <3>3, ParsedChanges DEF Changes
      <3>4. CASE MakeMachine(t)
        BY <3>4, MakeMachineChanges DEF Changes
      <3>5. CASE Ends(t)
        BY <3>5, EndShrinks DEF Shrinks
      <3>6. QED
        BY <1>2, <3>1, <3>2, <3>3, <3>4, <3>5 DEF Advance, Ends
    <2>2. raising \subseteq raising' /\ raising' \subseteq raising \cup {t}
      BY <1>2 DEF Advance, Open, FileMissing, OpenRun, OpenDelegate, Parsed, NothingToRun, ParseFails,
             MakeMachine, EndLoad, EndEval, EndRun, CloseExecute, CloseExpression, FailExpression,
             CloseDelegate, Return, Throw, In
    <2>3. QED
      BY <2>1, <2>2 DEF Alone
  <1>3. QED
    BY <1>1, <1>2 DEF Lock

LEMMA StepLock ==
    ASSUME TypeOK, MonitorsIInv,
           \/ \E t \in Thread : Lock(t)
           \/ Joins
           \/ EndJoin
    PROVE  MonitorsIInv'
  <1>1. ASSUME NEW t \in Thread, Lock(t)
        PROVE  MonitorsIInv'
    <2>1. asking[t] = None /\ UNCHANGED ovars
      BY <1>1 DEF Lock
    <2>2. /\ \A u \in Thread \ {t} : ops'[u] = ops[u]
          /\ raising \subseteq raising' /\ raising' \subseteq raising \cup {t}
      BY <1>1, LockStep
    <2>3. \A u \in Thread : asking[u] # None => u \notin raising
      BY DEF MonitorsIInv, AsksOwn
    <2>4. QED
      BY <2>1, <2>2, <2>3, MonitorsUntouched
  <1>2. CASE Joins \/ EndJoin
    <2>1. UNCHANGED <<ovars, ops, raising>>
      BY <1>2 DEF Joins, EndJoin, Join, Joined
    <2>2. \A u \in Thread : asking[u] # None => u \notin raising
      BY DEF MonitorsIInv, AsksOwn
    <2>3. QED
      BY <2>1, <2>2, MonitorsUntouched
  <1>3. QED
    BY <1>1, <1>2

LEMMA StepAssign ==
    ASSUME MonitorsIInv, NEW t \in Thread, NEW x \in Var, NEW a \in Addr \cup {None}, Assign(t, x, a)
    PROVE  MonitorsIInv'
  <1> USE DEF MonitorsIInv
  <1>1. /\ val' = [val EXCEPT ![x] = a] /\ val \in [Var -> Addr \cup {None}]
        /\ mixed' = (mixed \/ InUse(x)) /\ mixed \in BOOLEAN
        /\ UNCHANGED <<mowner, mn, blocks, asking, ops, raising>>
    BY DEF Assign, vars, ObjTypeOK
  <1>2. /\ CacheTyped' /\ OneMonitorEach'
        /\ \A b \in Addr : monitorCache'[b] = monitorCache[b] \/ (b = val[x] /\ ~ \E y \in Var \ {x} : val[y] = b)
    <2>1. CASE val[x] # None /\ \A y \in Var \ {x} : val[y] # val[x]
      <3>1. freeMonitor(val[x]) /\ val[x] \in Addr
        BY <1>1, <2>1 DEF Assign
      <3>2. Live \ {val[x]} \subseteq Live'
        BY <1>1 DEF Live, Range
      <3>3. PICK old \in Addr : old = val[x]
        BY <3>1
      <3>4. /\ CacheTyped' /\ OneMonitorEach'
            /\ \A b \in Addr \ {old} : monitorCache'[b] = monitorCache[b]
        BY <3>1, <3>2, <3>3, FreedKeeps
      <3>5. QED
        BY <2>1, <3>3, <3>4
    <2>2. CASE ~(val[x] # None /\ \A y \in Var \ {x} : val[y] # val[x])
      <3>1. UNCHANGED <<monitorCache, monitorFreeList>>
        BY <2>2 DEF Assign
      <3>2. Live \subseteq Live'
        BY <1>1, <2>2 DEF Live, Range
      <3>3. QED
        BY <3>1, <3>2 DEF CacheTyped, ObjTypeOK, OneMonitorEach
    <2>3. QED
      BY <2>1, <2>2
  <1>3. ObjTypeOK'
    <2>1. val' \in [Var -> Addr \cup {None}] /\ mixed' \in BOOLEAN
      BY <1>1 DEF InUse
    <2>2. QED
      BY <1>1, <1>2, <2>1 DEF CacheTyped, ObjTypeOK
  <1>4. ASSUME ~mixed', NEW u \in Thread, NEW i \in 1..Len(blocks[u])
        PROVE  /\ val'[blocks[u][i].x] = blocks[u][i].obj
               /\ monitorCache'[blocks[u][i].obj] = monitorCache[blocks[u][i].obj]
    <2>1. ~mixed /\ blocks[u][i].x # x
      BY <1>1, <1>4 DEF InUse
    <2>2. blocks[u][i].x \in Var /\ blocks[u][i].obj \in Addr
      BY BlockTypes
    <2>3. val[blocks[u][i].x] = blocks[u][i].obj
      BY <2>1 DEF BlocksHold
    <2>4. QED
      BY <1>1, <1>2, <2>1, <2>2, <2>3
  <1>5. AsksOwn'
    <2>1. ASSUME NEW u \in Thread, asking[u] # None, ~mixed'
          PROVE  asking[u] = monitorCache'[Innermost(u).obj]
      BY <1>1, <1>4, <2>1, BlockTypes DEF AsksOwn, Innermost
    <2>2. QED
      BY <1>1, <2>1 DEF AsksOwn, Innermost, Top
  <1>6. BlocksHold'
    <2>1. ASSUME ~mixed', NEW u \in Thread, NEW m \in Mon
          PROVE  Entered(u, m)' = Entered(u, m)
      BY <1>1, <1>4, <2>1 DEF Entered
    <2>2. ~mixed' => ~mixed
      BY <1>1
    <2>3. QED
      BY <1>1, <1>4, <2>1, <2>2 DEF BlocksHold
  <1>7. EntriesCounted'
    BY <1>1 DEF EntriesCounted, EntriesOf
  <1>8. QED
    BY <1>2, <1>3, <1>5, <1>6, <1>7

LEMMA StepLook ==
    ASSUME TypeOK, MonitorsIInv, NEW t \in Thread, NEW x \in Var, Look(t, x)
    PROVE  MonitorsIInv'
  <1> USE DEF MonitorsIInv
  <1>0. PICK a \in Live : a = val[x]
    BY DEF Look, Live, Range, ObjTypeOK
  <1>1. /\ t \notin raising /\ (ops[t] # <<>> => Top(t).at = "code") /\ asking[t] = None
        /\ Len(blocks[t]) < Blocks /\ asking' = [asking EXCEPT ![t] = findMonitor(a)]
        /\ UNCHANGED <<val, mowner, mn, mixed, ops, raising>>
    BY <1>0 DEF Look, Goes, Runs, vars
  <1>2. /\ CacheTyped' /\ OneMonitorEach'
        /\ monitorCache'[a] = findMonitor(a)
        /\ \A b \in Addr \ {a} : monitorCache'[b] = monitorCache[b]
    BY <1>0, <1>1, FoundKeeps DEF Look
  <1>3. /\ a \in Addr /\ findMonitor(a) \in Mon /\ findMonitor(a) # None
        /\ monitorCache[a] # None => findMonitor(a) = monitorCache[a]
    BY MonitorFound, VarAssumption DEF Live, Range, ObjTypeOK
  <1>4. /\ BlocksAlone(t)
        /\ Len(blocks'[t]) = Len(blocks[t]) + 1
        /\ blocks'[t][Len(blocks[t]) + 1].x = x
        /\ blocks'[t][Len(blocks[t]) + 1].obj = a
        /\ \A i \in 1..Len(blocks[t]) : blocks'[t][i] = blocks[t][i]
    BY <1>0, LookGrows
  <1>5. Len(blocks[t]) \in Nat
    BY BlockTypes
  <1>6. ObjTypeOK'
    <2>1. \A u \in Thread : Len(blocks'[u]) <= Blocks
      <3>1. Len(blocks'[t]) <= Blocks
        BY <1>1, <1>4, <1>5, BlocksAssumption
      <3>2. \A u \in Thread \ {t} : Len(blocks'[u]) <= Blocks
        BY <1>4 DEF BlocksAlone, ObjTypeOK
      <3>3. QED
        BY <3>1, <3>2
    <2>2. asking' \in [Thread -> Mon \cup {None}]
      BY <1>1, <1>3 DEF ObjTypeOK
    <2>3. QED
      BY <1>1, <1>2, <1>4, <2>1, <2>2 DEF CacheTyped, ObjTypeOK, BlocksAlone
  <1>7. ASSUME NEW u \in Thread, NEW i \in 1..Len(blocks[u]), ~mixed
        PROVE  /\ blocks'[u][i] = blocks[u][i]
               /\ val'[blocks[u][i].x] = blocks[u][i].obj
               /\ monitorCache'[blocks[u][i].obj] = monitorCache[blocks[u][i].obj]
               /\ monitorCache[blocks[u][i].obj] # None
    <2>1. /\ val[blocks[u][i].x] = blocks[u][i].obj
          /\ monitorCache[blocks[u][i].obj] # None
          /\ blocks[u][i].obj \in Addr
      BY <1>7, BlockTypes DEF BlocksHold
    <2>2. QED
      BY <1>1, <1>2, <1>3, <1>4, <2>1 DEF BlocksAlone
  <1>8. AsksOwn'
    <2>1. ASSUME NEW u \in Thread \ {t}, asking'[u] # None
          PROVE  /\ u \notin raising' /\ (ops'[u] # <<>> => Top(u)'.at = "code")
                 /\ blocks'[u] # <<>>
                 /\ ~mixed' => asking'[u] = monitorCache'[Innermost(u)'.obj]
      <3>1. asking[u] # None /\ asking'[u] = asking[u] /\ blocks'[u] = blocks[u]
        BY <1>1, <1>4, <2>1 DEF BlocksAlone, ObjTypeOK
      <3>2. ~mixed => monitorCache'[Innermost(u).obj] = monitorCache[Innermost(u).obj]
        BY <1>7, <3>1, BlockTypes DEF AsksOwn, Innermost
      <3>3. QED
        BY <1>1, <3>1, <3>2 DEF AsksOwn, Innermost, Top
    <2>2. /\ t \notin raising' /\ (ops'[t] # <<>> => Top(t)'.at = "code")
          /\ blocks'[t] # <<>> /\ asking'[t] = monitorCache'[Innermost(t)'.obj]
      <3>1. asking'[t] = findMonitor(a)
        BY <1>1 DEF ObjTypeOK
      <3>2. blocks'[t] # <<>>
        BY <1>4, <1>5, EmptySeq
      <3>3. QED
        BY <1>1, <1>2, <1>4, <3>1, <3>2 DEF Innermost, Top
    <2>3. QED
      BY <2>1, <2>2 DEF AsksOwn
  <1>9. BlocksHold'
    <2>1. ASSUME ~mixed, NEW u \in Thread, NEW m \in Mon
          PROVE  Entered(u, m)' = Entered(u, m)
      <3>1. CASE u = t
        <4>1. asking'[t] # None
          BY <1>1, <1>3 DEF ObjTypeOK
        <4>2. QED
          BY <1>1, <1>4, <1>5, <1>7, <2>1, <3>1, <4>1 DEF Entered
      <3>2. CASE u # t
        BY <1>1, <1>4, <1>7, <2>1, <3>2 DEF Entered, BlocksAlone, ObjTypeOK
      <3>3. QED
        BY <3>1, <3>2
    <2>2. ASSUME ~mixed, NEW u \in Thread, NEW i \in 1..Len(blocks'[u])
          PROVE  /\ val'[blocks'[u][i].x] = blocks'[u][i].obj
                 /\ monitorCache'[blocks'[u][i].obj] # None
      <3>1. CASE i \in 1..Len(blocks[u])
        BY <1>7, <2>2, <3>1
      <3>2. CASE i \notin 1..Len(blocks[u])
        <4>1. u = t /\ i = Len(blocks[t]) + 1
          BY <1>4, <1>5, <3>2 DEF BlocksAlone
        <4>2. QED
          BY <1>0, <1>1, <1>2, <1>3, <1>4, <4>1
      <3>3. QED
        BY <3>1, <3>2
    <2>3. QED
      BY <1>1, <2>1, <2>2 DEF BlocksHold
  <1>10. EntriesCounted'
    <2>1. \A u \in Thread : EntriesOf(u)' = EntriesOf(u)
      BY <1>1 DEF EntriesOf
    <2>2. asking'[t] # None /\ \A u \in Thread \ {t} : asking'[u] = asking[u]
      BY <1>1, <1>3 DEF ObjTypeOK
    <2>3. QED
      BY <1>1, <1>4, <1>5, <2>1, <2>2 DEF EntriesCounted, BlocksAlone
  <1>11. QED
    BY <1>2, <1>6, <1>8, <1>9, <1>10

LEMMA StepEnter ==
    ASSUME MonitorsIInv, NEW t \in Thread, Enter(t)
    PROVE  MonitorsIInv'
  <1> USE DEF MonitorsIInv
  <1>0. PICK M \in Mon : M = asking[t]
    BY DEF Enter, ObjTypeOK
  <1>1. /\ mowner' = [mowner EXCEPT ![M] = t] /\ mn' = [mn EXCEPT ![M] = @ + 1]
        /\ asking' = [asking EXCEPT ![t] = None]
        /\ mowner[M] \in {None, t} /\ asking[t] # None
        /\ UNCHANGED <<val, monitorCache, monitorFreeList, blocks, mixed, ops, raising>>
    BY <1>0 DEF Enter, vars
  <1>2. /\ mowner \in [Mon -> Thread \cup {None}] /\ mn \in [Mon -> 0..Blocks]
        /\ asking \in [Thread -> Mon \cup {None}]
        /\ \A m \in Mon : mowner[m] = None <=> mn[m] = 0
    BY DEF ObjTypeOK
  <1>3. /\ t \notin raising /\ blocks[t] # <<>>
        /\ Cardinality(EntriesOf(t)) = Len(blocks[t]) - 1
        /\ Len(blocks[t]) \in 1..Len(blocks[t]) /\ Len(blocks[t]) \in Nat
        /\ Len(blocks[t]) <= Blocks /\ Blocks \in Nat
    BY <1>1, BlockTypes DEF AsksOwn, EntriesCounted
  <1>4. mn[M] \in Nat /\ mn[M] + 1 \in 1..Blocks
    <2>1. CASE mowner[M] = t
      <3>1. mn[M] <= Cardinality(EntriesOf(t))
        BY <2>1, EntriesOfOne
      <3>2. mn[M] \in Nat /\ Len(blocks[t]) \in Nat
        BY <1>2, <1>3
      <3>3. QED
        BY <1>3, <3>1, <3>2
    <2>2. CASE mowner[M] = None
      BY <1>2, <1>3, <2>2
    <2>3. QED
      BY <1>1, <2>1, <2>2
  <1>5. mowner' \in [Mon -> Thread \cup {None}] /\ mn' \in [Mon -> 0..Blocks]
        /\ asking' \in [Thread -> Mon \cup {None}]
        /\ \A m \in Mon : mowner'[m] = None <=> mn'[m] = 0
    <2>1. mn[M] + 1 \in 0..Blocks /\ mn[M] + 1 # 0
      BY <1>3, <1>4
    <2>2. QED
      BY <1>1, <1>2, <2>1, NoneAssumption
  <1>6. ObjTypeOK'
    BY <1>1, <1>5 DEF ObjTypeOK
  <1>7. OneMonitorEach'
    BY <1>1 DEF OneMonitorEach, Live
  <1>8. AsksOwn'
    BY <1>1, <1>2 DEF AsksOwn, Innermost, Top
  <1>9. asking'[t] = None /\ \A u \in Thread \ {t} : asking'[u] = asking[u]
    BY <1>1, <1>2
  <1>10. BlocksHold'
    <2>1. ASSUME ~mixed, NEW m \in Mon
          PROVE  Cardinality(Entered(t, m)') = IF mowner'[m] = t THEN mn'[m] ELSE 0
      <3>1. /\ M = monitorCache[blocks[t][Len(blocks[t])].obj]
            /\ Cardinality(Entered(t, m)) = IF mowner[m] = t THEN mn[m] ELSE 0
        BY <1>0, <1>1, <2>1 DEF AsksOwn, Innermost, BlocksHold
      <3>2. CASE m = M
        <4>1. Entered(t, m)' = Entered(t, m) \cup {Len(blocks[t])}
          BY <1>1, <1>3, <1>9, <3>1, <3>2 DEF Entered
        <4>2. Len(blocks[t]) \notin Entered(t, m)
          BY <1>1 DEF Entered
        <4>3. Cardinality(Entered(t, m)') = Cardinality(Entered(t, m)) + 1
          BY <4>1, <4>2, EnteredFinite, FS_AddElement
        <4>4. mowner'[m] = t /\ mn'[m] = mn[m] + 1
          BY <1>1, <1>2, <3>2
        <4>5. mn[m] = IF mowner[m] = t THEN mn[m] ELSE 0
          BY <1>1, <1>2, <3>2
        <4>6. QED
          BY <3>1, <4>3, <4>4, <4>5
      <3>3. CASE m # M
        <4>1. Entered(t, m)' = Entered(t, m)
          BY <1>1, <1>9, <3>1, <3>3 DEF Entered
        <4>2. mowner'[m] = mowner[m] /\ mn'[m] = mn[m]
          BY <1>1, <1>2, <3>3
        <4>3. QED
          BY <3>1, <4>1, <4>2
      <3>4. QED
        BY <3>2, <3>3
    <2>2. ASSUME ~mixed, NEW u \in Thread \ {t}, NEW m \in Mon
          PROVE  Cardinality(Entered(u, m)') = IF mowner'[m] = u THEN mn'[m] ELSE 0
      <3>1. Entered(u, m)' = Entered(u, m)
        BY <1>1, <1>9 DEF Entered
      <3>2. Cardinality(Entered(u, m)) = IF mowner[m] = u THEN mn[m] ELSE 0
        BY <2>2 DEF BlocksHold
      <3>3. mowner'[m] = u <=> mowner[m] = u
        BY <1>1, <1>2, NoneAssumption
      <3>4. mowner[m] = u => mn'[m] = mn[m]
        BY <1>1, <1>2, NoneAssumption
      <3>5. QED
        BY <3>1, <3>2, <3>3, <3>4
    <2>3. QED
      BY <1>1, <2>1, <2>2 DEF BlocksHold
  <1>11. EntriesCounted'
    <2>1. EntriesOf(t)' = EntriesOf(t) \cup {<<M, mn[M] + 1>>}
      <3>1. ASSUME NEW m \in Mon, NEW k \in 1..Blocks
            PROVE  (mowner'[m] = t /\ k <= mn'[m]) <=>
                      (mowner[m] = t /\ k <= mn[m]) \/ (m = M /\ k = mn[M] + 1)
        <4>1. CASE m = M
          BY <1>1, <1>2, <1>4, <4>1, NoneAssumption
        <4>2. CASE m # M
          BY <1>1, <1>2, <4>2
        <4>3. QED
          BY <4>1, <4>2
      <3>2. <<M, mn[M] + 1>> \in Mon \X (1..Blocks)
        BY <1>4
      <3>3. QED
        BY <3>1, <3>2 DEF EntriesOf
    <2>2. <<M, mn[M] + 1>> \notin EntriesOf(t)
      BY <1>4 DEF EntriesOf
    <2>3. Cardinality(EntriesOf(t)') = Cardinality(EntriesOf(t)) + 1
      BY <2>1, <2>2, EntriesFinite, FS_AddElement
    <2>4. \A u \in Thread \ {t} : EntriesOf(u)' = EntriesOf(u)
      <3>1. ASSUME NEW u \in Thread \ {t}, NEW m \in Mon, NEW k \in 1..Blocks
            PROVE  (mowner'[m] = u /\ k <= mn'[m]) <=> (mowner[m] = u /\ k <= mn[m])
        BY <1>1, <1>2, NoneAssumption
      <3>2. QED
        BY <3>1 DEF EntriesOf
    <2>5. Cardinality(EntriesOf(t)') = Len(blocks[t])
      BY <1>3, <2>3
    <2>6. QED
      BY <1>1, <1>3, <1>9, <2>4, <2>5 DEF EntriesCounted
  <1>12. QED
    BY <1>6, <1>7, <1>8, <1>10, <1>11

\* The blocks that remain when t's innermost one goes.
LEMMA EnteredLeaves ==
    ASSUME ObjTypeOK, NEW t \in Thread, Leave(t), blocks[t] # <<>>, asking[t] = None,
           asking' = asking, monitorCache' = monitorCache, NEW m
    PROVE  /\ \A u \in Thread \ {t} : Entered(u, m)' = Entered(u, m)
           /\ Entered(t, m)' = Entered(t, m) \ {Len(blocks[t])}
           /\ Len(blocks[t]) \in Entered(t, m) <=> monitorCache[Innermost(t).obj] = m
  <1>1. /\ BlocksAlone(t)
        /\ Len(blocks'[t]) = Len(blocks[t]) - 1
        /\ \A i \in 1..(Len(blocks[t]) - 1) : blocks'[t][i] = blocks[t][i]
        /\ Len(blocks[t]) \in Nat /\ Len(blocks[t]) \in 1..Len(blocks[t])
    BY LeaveShrinks, BlockTypes
  <1>2. QED
    BY <1>1, SMTT(30) DEF Entered, BlocksAlone, Innermost

LEMMA StepExit ==
    ASSUME MonitorsIInv, NEW t \in Thread, Exit(t)
    PROVE  MonitorsIInv'
  <1> USE DEF MonitorsIInv
  <1>0. PICK a \in Live, M \in Mon : a = val[Innermost(t).x] /\ M = findMonitor(a) /\ a \in Addr
    <2>1. blocks[t] # <<>> /\ Innermost(t).x \in Var
      BY BlockTypes DEF Exit, OwnBlock, Innermost
    <2>2. val[Innermost(t).x] \in Live /\ val[Innermost(t).x] \in Addr
      BY <2>1 DEF Exit, Live, Range, ObjTypeOK
    <2>3. QED
      BY <2>2, MonitorFound
  <1>1. /\ mowner[M] = t /\ mn' = [mn EXCEPT ![M] = @ - 1]
        /\ mowner' = [mowner EXCEPT ![M] = IF mn[M] = 1 THEN None ELSE t]
        /\ Found(a) /\ Leave(t) /\ blocks[t] # <<>> /\ asking[t] = None /\ t \notin raising
        /\ UNCHANGED <<val, asking, mixed, ops, raising>>
    BY <1>0 DEF Exit, vars, OwnBlock, Goes, Runs
  <1>2. /\ mowner \in [Mon -> Thread \cup {None}] /\ mn \in [Mon -> 0..Blocks]
        /\ asking \in [Thread -> Mon \cup {None}]
        /\ \A m \in Mon : mowner[m] = None <=> mn[m] = 0
    BY DEF ObjTypeOK
  <1>3. /\ BlocksAlone(t)
        /\ Len(blocks'[t]) = Len(blocks[t]) - 1
        /\ \A i \in 1..(Len(blocks[t]) - 1) : blocks'[t][i] = blocks[t][i]
        /\ Len(blocks[t]) \in Nat /\ Len(blocks[t]) # 0 /\ Len(blocks[t]) <= Blocks /\ Blocks \in Nat
        /\ Len(blocks[t]) \in 1..Len(blocks[t])
    BY <1>1, LeaveShrinks, BlockTypes
  <1>4. /\ CacheTyped' /\ OneMonitorEach' /\ monitorCache'[a] = M
        /\ \A b \in Addr \ {a} : monitorCache'[b] = monitorCache[b]
    BY <1>0, <1>1, FoundKeeps
  <1>5. mn[M] \in 1..Blocks
    BY <1>1, <1>2, NoneAssumption, BlocksAssumption
  <1>6. ObjTypeOK'
    <2>1. mowner' \in [Mon -> Thread \cup {None}] /\ mn' \in [Mon -> 0..Blocks]
          /\ \A m \in Mon : mowner'[m] = None <=> mn'[m] = 0
      <3>1. mn[M] - 1 \in 0..Blocks /\ (mn[M] = 1 <=> mn[M] - 1 = 0)
        BY <1>5, BlocksAssumption
      <3>2. QED
        BY <1>1, <1>2, <3>1, NoneAssumption
    <2>2. \A u \in Thread : Len(blocks'[u]) <= Blocks
      <3>1. Len(blocks'[t]) <= Blocks
        BY <1>3
      <3>2. \A u \in Thread \ {t} : Len(blocks'[u]) <= Blocks
        BY <1>3 DEF BlocksAlone, ObjTypeOK
      <3>3. QED
        BY <3>1, <3>2
    <2>3. QED
      BY <1>1, <1>3, <1>4, <2>1, <2>2 DEF CacheTyped, ObjTypeOK, BlocksAlone
  <1>7. ASSUME ~mixed
        PROVE  monitorCache[Innermost(t).obj] = M /\ monitorCache' = monitorCache
    <2>1. a = Innermost(t).obj /\ monitorCache[a] # None
      BY <1>0, <1>3, <1>7 DEF BlocksHold, Innermost
    <2>2. M = monitorCache[a]
      BY <1>0, <2>1, MonitorFound
    <2>3. monitorCache' = monitorCache
      BY <1>1, <2>2, <1>0 DEF Found, ObjTypeOK
    <2>4. QED
      BY <2>1, <2>2, <2>3
  <1>8. AsksOwn'
    <2>1. ASSUME NEW u \in Thread, asking'[u] # None
          PROVE  /\ u \notin raising' /\ (ops'[u] # <<>> => Top(u)'.at = "code")
                 /\ blocks'[u] # <<>>
                 /\ ~mixed' => asking'[u] = monitorCache'[Innermost(u)'.obj]
      <3>1. u # t /\ asking[u] # None /\ blocks'[u] = blocks[u]
        BY <1>1, <1>3, <2>1 DEF BlocksAlone
      <3>2. QED
        BY <1>1, <1>7, <3>1 DEF AsksOwn, Innermost, Top
    <2>2. QED
      BY <2>1 DEF AsksOwn
  <1>9. BlocksHold'
    <2>1. ASSUME ~mixed, NEW m \in Mon
          PROVE  Cardinality(Entered(t, m)') = IF mowner'[m] = t THEN mn'[m] ELSE 0
      <3>1. /\ Entered(t, m)' = Entered(t, m) \ {Len(blocks[t])}
            /\ Len(blocks[t]) \in Entered(t, m) <=> M = m
        BY <1>1, <1>7, <2>1, EnteredLeaves
      <3>2. Cardinality(Entered(t, m)) = IF mowner[m] = t THEN mn[m] ELSE 0
        BY <2>1 DEF BlocksHold
      <3>3. Cardinality(Entered(t, m)') = IF m = M THEN Cardinality(Entered(t, m)) - 1
                                          ELSE Cardinality(Entered(t, m))
        BY <3>1, EnteredFinite, FS_RemoveElement
      <3>4. CASE m = M
        <4>1. mn'[m] = mn[m] - 1 /\ (mowner'[m] = t \/ mn'[m] = 0)
          BY <1>1, <1>2, <1>5, <3>4
        <4>2. QED
          BY <1>1, <3>2, <3>3, <3>4, <4>1
      <3>5. CASE m # M
        BY <1>1, <1>2, <3>2, <3>3, <3>5
      <3>6. QED
        BY <3>4, <3>5
    <2>2. ASSUME ~mixed, NEW u \in Thread \ {t}, NEW m \in Mon
          PROVE  Cardinality(Entered(u, m)') = IF mowner'[m] = u THEN mn'[m] ELSE 0
      <3>0. \A w \in Thread \ {t} : Entered(w, m)' = Entered(w, m)
        BY <1>1, <1>7, <2>2, EnteredLeaves
      <3>1. Entered(u, m)' = Entered(u, m)
        BY <3>0
      <3>2. Cardinality(Entered(u, m)) = IF mowner[m] = u THEN mn[m] ELSE 0
        BY <2>2 DEF BlocksHold
      <3>3. mowner'[m] = u <=> mowner[m] = u
        BY <1>1, <1>2, NoneAssumption
      <3>4. mowner[m] = u => mn'[m] = mn[m]
        BY <1>1, <1>2, NoneAssumption
      <3>5. QED
        BY <3>1, <3>2, <3>3, <3>4
    <2>3. ASSUME ~mixed, NEW u \in Thread, NEW i \in 1..Len(blocks'[u])
          PROVE  /\ val'[blocks'[u][i].x] = blocks'[u][i].obj
                 /\ monitorCache'[blocks'[u][i].obj] # None
      <3>1. i \in 1..Len(blocks[u]) /\ blocks'[u][i] = blocks[u][i]
        BY <1>3 DEF BlocksAlone
      <3>2. QED
        BY <1>1, <1>7, <2>3, <3>1 DEF BlocksHold
    <2>4. QED
      BY <1>1, <2>1, <2>2, <2>3 DEF BlocksHold
  <1>10. EntriesCounted'
    <2>1. EntriesOf(t)' = EntriesOf(t) \ {<<M, mn[M]>>}
      <3>1. ASSUME NEW m \in Mon, NEW k \in 1..Blocks
            PROVE  (mowner'[m] = t /\ k <= mn'[m]) <=>
                      (mowner[m] = t /\ k <= mn[m]) /\ ~(m = M /\ k = mn[M])
        <4>1. CASE m = M
          BY <1>1, <1>2, <1>5, <4>1, NoneAssumption
        <4>2. CASE m # M
          BY <1>1, <1>2, <4>2
        <4>3. QED
          BY <4>1, <4>2
      <3>2. QED
        BY <3>1 DEF EntriesOf
    <2>2. <<M, mn[M]>> \in EntriesOf(t)
      BY <1>1, <1>5 DEF EntriesOf
    <2>3. Cardinality(EntriesOf(t)') = Cardinality(EntriesOf(t)) - 1
      BY <2>1, <2>2, EntriesFinite, FS_RemoveElement
    <2>4. \A u \in Thread \ {t} : EntriesOf(u)' = EntriesOf(u)
      <3>1. ASSUME NEW u \in Thread \ {t}, NEW m \in Mon, NEW k \in 1..Blocks
            PROVE  (mowner'[m] = u /\ k <= mn'[m]) <=> (mowner[m] = u /\ k <= mn[m])
        BY <1>1, <1>2, NoneAssumption
      <3>2. QED
        BY <3>1 DEF EntriesOf
    <2>5. Cardinality(EntriesOf(t)') = Len(blocks'[t]) /\ Cardinality(EntriesOf(t)') <= Blocks
      <3>1. Cardinality(EntriesOf(t)) = Len(blocks[t])
        BY <1>1 DEF EntriesCounted
      <3>2. QED
        BY <1>3, <2>3, <3>1
    <2>6. QED
      BY <1>1, <1>3, <2>4, <2>5, SMTT(30) DEF EntriesCounted, BlocksAlone
  <1>11. QED
    BY <1>4, <1>6, <1>8, <1>9, <1>10

\* The exception of a block that finds no monitor to leave stops its thread.
LEMMA StopKeeps ==
    ASSUME MonitorsIInv, NEW t \in Thread, Leave(t), blocks[t] # <<>>, asking[t] = None,
           mixed, CacheTyped', OneMonitorEach', raising' = raising \cup {t},
           UNCHANGED <<val, mowner, mn, asking, mixed, ops>>
    PROVE  MonitorsIInv'
  <1> USE DEF MonitorsIInv
  <1>1. /\ BlocksAlone(t)
        /\ Len(blocks'[t]) = Len(blocks[t]) - 1
        /\ Len(blocks[t]) \in Nat /\ Len(blocks[t]) <= Blocks /\ Blocks \in Nat
    BY LeaveShrinks, BlockTypes
  <1>2. ObjTypeOK'
    <2>1. \A u \in Thread : Len(blocks'[u]) <= Blocks
      <3>1. Len(blocks'[t]) <= Blocks
        BY <1>1
      <3>2. \A u \in Thread \ {t} : Len(blocks'[u]) <= Blocks
        BY <1>1 DEF BlocksAlone, ObjTypeOK
      <3>3. QED
        BY <3>1, <3>2
    <2>2. QED
      BY <1>1, <2>1 DEF CacheTyped, ObjTypeOK, BlocksAlone
  <1>3. AsksOwn'
    BY <1>1 DEF AsksOwn, BlocksAlone, Top
  <1>4. BlocksHold'
    BY DEF BlocksHold
  <1>5. EntriesCounted'
    <2>1. \A u \in Thread : EntriesOf(u)' = EntriesOf(u)
      BY DEF EntriesOf
    <2>2. QED
      BY <1>1, <2>1 DEF EntriesCounted, BlocksAlone
  <1>6. QED
    BY <1>2, <1>3, <1>4, <1>5

\* A block whose variable nobody has assigned finds its monitor, and t in it.
LEMMA BlockInside ==
    ASSUME MonitorsIInv, NEW t \in Thread, blocks[t] # <<>>, asking[t] = None, ~mixed
    PROVE  LET a == val[Innermost(t).x]
           IN a # None /\ mowner[findMonitor(a)] = t
  <1> USE DEF MonitorsIInv
  <1>1. Len(blocks[t]) \in 1..Len(blocks[t]) /\ Innermost(t).obj \in Addr
    BY BlockTypes DEF Innermost
  <1>2. PICK a \in Addr : a = Innermost(t).obj /\ a = val[Innermost(t).x] /\ monitorCache[a] # None
    BY <1>1 DEF BlocksHold, Innermost
  <1>3. PICK M \in Mon : M = monitorCache[a] /\ findMonitor(a) = M
    BY <1>2, MonitorFound
  <1>4. Len(blocks[t]) \in Entered(t, M)
    BY <1>1, <1>2, <1>3 DEF Entered, Innermost
  <1>5. Cardinality(Entered(t, M)) # 0
    BY <1>4, EnteredFinite, FS_EmptySet
  <1>6. mowner[M] = t
    BY <1>5 DEF BlocksHold
  <1>7. QED
    BY <1>2, <1>3, <1>6, VarAssumption

LEMMA StepExitThrows ==
    ASSUME MonitorsIInv, NEW t \in Thread, ExitThrows(t) \/ ExitNothing(t)
    PROVE  MonitorsIInv'
  <1> USE DEF MonitorsIInv
  <1>1. /\ Leave(t) /\ blocks[t] # <<>> /\ asking[t] = None /\ raising' = raising \cup {t}
        /\ UNCHANGED <<val, mowner, mn, asking, mixed, ops>>
    BY DEF ExitThrows, ExitNothing, OwnBlock, Goes
  <1>2. mixed
    <2>1. \/ val[Innermost(t).x] = None
          \/ mowner[findMonitor(val[Innermost(t).x])] # t
      BY DEF ExitThrows, ExitNothing
    <2>2. QED
      BY <1>1, <2>1, BlockInside
  <1>3. CacheTyped' /\ OneMonitorEach'
    <2>1. CASE ExitThrows(t)
      <3>1. Innermost(t).x \in Var
        BY <1>1, BlockTypes DEF Innermost
      <3>2. PICK a \in Live : a = val[Innermost(t).x]
        BY <2>1, <3>1 DEF ExitThrows, Live, Range, ObjTypeOK
      <3>3. Found(a)
        BY <2>1, <3>2 DEF ExitThrows
      <3>4. QED
        BY <1>1, <3>3, FoundKeeps
    <2>2. CASE ExitNothing(t)
      BY <2>2 DEF ExitNothing, CacheTyped, ObjTypeOK, OneMonitorEach, Live
    <2>3. QED
      BY <2>1, <2>2
  <1>4. QED
    BY <1>1, <1>2, <1>3, StopKeeps

-----------------------------------------------------------------------------
(***************************************************************************)
(* The parser lock beneath it.                                             *)
(***************************************************************************)
\* What the blocks do to the parser lock: nothing, or they keep an entry of it.
LEMMA BlocksKeepIInv ==
    ASSUME IInv, NEW t \in Thread, Runs(t),
           UNCHANGED <<ops, joining, currentContext, currentScope>>,
           raising' \in {raising, raising \cup {t}},
           \/ UNCHANGED <<owner, n, spoilt>>
           \/ Acquire(t) /\ Spoil("kept")
    PROVE  IInv'
  <1> USE DEF IInv, LockInv, ParserInv
  <1>1. ~Parses(t) /\ \A u \in Thread : Parses(u)' = Parses(u) /\ Mine(u)' = Mine(u)
    BY DEF Runs, Parses, Top, Mine
  <1>2. TypeOK'
    <2>1. /\ owner' \in Thread \cup {None} /\ n' \in 0..MaxEntry
          /\ owner' = None <=> n' = 0
      BY StepLockTyped
    <2>2. spoilt' \subseteq {"kept", "overreleased", "context", "unlocked"} /\ raising' \subseteq Thread
      BY DEF TypeOK, Spoil
    <2>3. QED
      BY <2>1, <2>2 DEF TypeOK
  <1>3. OperationsNest' /\ MainJoins'
    BY DEF OperationsNest, MainJoins, Runs, Top
  <1>4. LockBalanced'
    <2>1. \A u \in Thread : Holders(u)' = Holders(u) /\ Cardinality(Holders(u)) \in Nat
      BY HoldersFinite DEF Holders
    <2>2. CASE UNCHANGED <<owner, n, spoilt>>
      BY <2>1, <2>2 DEF LockBalanced, Held
    <2>3. CASE Acquire(t) /\ Spoil("kept")
      <3>1. /\ "kept" \in spoilt' /\ ("overreleased" \in spoilt' <=> "overreleased" \in spoilt)
            /\ \A u \in Thread \ {t} : Held(u)' = Held(u)
            /\ Held(t)' = Held(t) + 1 /\ Held(t) \in Nat
        BY <2>3, NoneAssumption, BoundAssumption DEF Acquire, Free, Spoil, Held, TypeOK
      <3>2. ASSUME NEW u \in Thread, "overreleased" \notin spoilt
            PROVE  Cardinality(Holders(u)) <= Held(u)'
        <4>1. Cardinality(Holders(u)) <= Held(u)
          BY <3>2 DEF LockBalanced
        <4>2. CASE u = t
          BY <2>1, <3>1, <4>1, <4>2
        <4>3. CASE u # t
          BY <3>1, <4>1, <4>3
        <4>4. QED
          BY <4>2, <4>3
      <3>3. QED
        BY <2>1, <3>1, <3>2 DEF LockBalanced
    <2>4. QED
      BY <2>2, <2>3
  <1>5. ContextsExist'
    <2>1. "context" \notin spoilt' => "context" \notin spoilt
      BY DEF Spoil
    <2>2. /\ Present' = Present /\ \A i \in Present : At(i)' = At(i)
      BY DEF Present, At
    <2>3. Linked' = Linked
      BY <2>2 DEF Linked
    <2>4. QED
      BY <1>1, <2>1, <2>2, <2>3 DEF ContextsExist
  <1>6. ParsesItsOwn'
    <2>1. Acquire(t) \/ UNCHANGED <<owner, n>>
      OBVIOUS
    <2>2. spoilt \subseteq spoilt'
      BY DEF Spoil
    <2>3. QED
      BY <1>1, <2>1, <2>2, ParsesKept
  <1>7. QED
    BY <1>2, <1>3, <1>4, <1>5, <1>6

LEMMA ObjStepIInv ==
    ASSUME IInv, ObjNext
    PROVE  IInv'
  <1>1. ASSUME NEW t \in Thread, Lock(t)
        PROVE  IInv'
    BY <1>1, StepIInv DEF Lock, Next
  <1>2. CASE Joins \/ EndJoin
    BY <1>2, StepIInv DEF Joins, EndJoin, Next
  <1>3. ASSUME NEW t \in Thread,
               \/ \E x \in Var, a \in Addr \cup {None} : Assign(t, x, a)
               \/ \E x \in Var : Look(t, x)
               \/ Enter(t) \/ Exit(t)
        PROVE  IInv'
    <2>1. UNCHANGED vars
      BY <1>3 DEF Assign, Look, Enter, Exit
    <2>2. QED
      BY <2>1, StepIInv
  <1>4. ASSUME NEW t \in Thread, ExitThrows(t) \/ ExitNothing(t)
        PROVE  IInv'
    <2>1. /\ Runs(t) /\ UNCHANGED <<ops, joining, currentContext, currentScope>>
          /\ raising' = raising \cup {t}
          /\ UNCHANGED <<owner, n, spoilt>> \/ (Acquire(t) /\ Spoil("kept"))
      BY <1>4 DEF ExitThrows, ExitNothing, Goes
    <2>2. QED
      BY <2>1, BlocksKeepIInv
  <1>5. QED
    BY <1>1, <1>2, <1>3, <1>4 DEF ObjNext

-----------------------------------------------------------------------------
(***************************************************************************)
(* The inductive invariant, and what follows from it.                      *)
(***************************************************************************)
ObjIInv == IInv /\ MonitorsIInv

LEMMA InitObjIInv == ObjInit => ObjIInv
  <1> SUFFICES ASSUME ObjInit
               PROVE  ObjIInv
    OBVIOUS
  <1>1. IInv
    BY InitIInv DEF ObjInit
  <1>2. /\ \A t \in Thread : blocks[t] = <<>> /\ Len(blocks[t]) = 0 /\ asking[t] = None
        /\ \A a \in Addr : monitorCache[a] = None
        /\ \A m \in Mon : mowner[m] = None /\ mn[m] = 0
    BY DEF ObjInit
  <1>3. ObjTypeOK
    <2>1. <<>> \in Seq(Block) /\ <<>> \in Seq(Mon)
      BY EmptySeq
    <2>2. 0 \in 0..Blocks /\ \A t \in Thread : Len(blocks[t]) <= Blocks
      BY <1>2, BlocksAssumption
    <2>3. blocks \in [Thread -> Seq(Block)] /\ monitorFreeList \in Seq(Mon)
      BY <2>1 DEF ObjInit
    <2>4. mn \in [Mon -> 0..Blocks]
      BY <2>2 DEF ObjInit
    <2>5. QED
      BY <1>2, <2>2, <2>3, <2>4 DEF ObjInit, ObjTypeOK
  <1>4. OneMonitorEach
    <2>1. monitorFreeList = <<>> /\ DOMAIN <<>> = {}
      BY DEF ObjInit
    <2>2. QED
      BY <1>2, <2>1 DEF OneMonitorEach, IsInjective, Range
  <1>5. AsksOwn
    BY <1>2 DEF AsksOwn
  <1>6. BlocksHold
    <2>1. \A t \in Thread, m \in Mon : Entered(t, m) = {}
      BY <1>2 DEF Entered
    <2>2. QED
      <3>1. \A t \in Thread, m \in Mon : Cardinality(Entered(t, m)) = IF mowner[m] = t THEN mn[m] ELSE 0
        BY <1>2, <2>1, FS_EmptySet
      <3>2. \A t \in Thread : 1..Len(blocks[t]) = {}
        BY <1>2
      <3>3. QED
        BY <3>1, <3>2 DEF BlocksHold
  <1>7. EntriesCounted
    <2>1. \A t \in Thread : EntriesOf(t) = {}
      BY <1>2, NoneAssumption DEF EntriesOf
    <2>2. QED
      <3>1. \A t \in Thread : Cardinality(EntriesOf(t)) = 0
        BY <2>1, FS_EmptySet
      <3>2. QED
        BY <1>2, <3>1, BlocksAssumption DEF EntriesCounted
  <1>8. QED
    BY <1>1, <1>3, <1>4, <1>5, <1>6, <1>7 DEF ObjIInv, MonitorsIInv

LEMMA StepObjIInv == ObjIInv /\ [ObjNext]_<<vars, ovars>> => ObjIInv'
  <1> SUFFICES ASSUME ObjIInv, [ObjNext]_<<vars, ovars>>
               PROVE  ObjIInv'
    OBVIOUS
  <1> USE DEF ObjIInv
  <1>1. CASE ObjNext
    <2>1. IInv'
      BY <1>1, ObjStepIInv
    <2>2. TypeOK
      BY DEF IInv, LockInv
    <2>3. MonitorsIInv'
      BY <1>1, <2>2, StepLock, StepAssign, StepLook, StepEnter, StepExit, StepExitThrows DEF ObjNext
    <2>4. QED
      BY <2>1, <2>3
  <1>2. CASE UNCHANGED <<vars, ovars>>
    <2>1. IInv'
      BY <1>2, StepIInv
    <2>2. UNCHANGED <<ovars, ops, raising>>
      BY <1>2 DEF vars
    <2>3. \A u \in Thread : asking[u] # None => u \notin raising
      BY DEF MonitorsIInv, AsksOwn
    <2>4. MonitorsIInv'
      BY <2>2, <2>3, MonitorsUntouched
    <2>5. QED
      BY <2>1, <2>4
  <1>3. QED
    BY <1>1, <1>2

\* A monitor on the free list is nobody's.
LEMMA FreeUnowned == MonitorsIInv => FreeMonitorsUnowned
  <1> SUFFICES ASSUME MonitorsIInv, ~mixed, NEW m \in Range(monitorFreeList)
               PROVE  mowner[m] = None /\ \A t \in Thread : asking[t] # m
    BY DEF FreeMonitorsUnowned
  <1> USE DEF MonitorsIInv
  <1>1. m \in Mon /\ m # None
    BY RangeOfList, VarAssumption DEF ObjTypeOK
  <1>2. \A a \in Addr : monitorCache[a] # m
    BY DEF OneMonitorEach, Range, ObjTypeOK
  <1>3. ASSUME NEW t \in Thread
        PROVE  mowner[m] # t /\ asking[t] # m
    <2>1. Entered(t, m) = {}
      BY <1>2, BlockTypes DEF Entered
    <2>2. mowner[m] = t => mn[m] = 0
      BY <1>1, <2>1, FS_EmptySet DEF BlocksHold
    <2>3. mowner[m] # t
      BY <1>1, <2>2, NoneAssumption DEF ObjTypeOK
    <2>4. asking[t] # m
      BY <1>1, <1>2, BlockTypes DEF AsksOwn, Innermost
    <2>5. QED
      BY <2>3, <2>4
  <1>4. QED
    BY <1>1, <1>3 DEF ObjTypeOK

\* Who is inside a block of an object owns its monitor.
LEMMA InsideOwns ==
    ASSUME MonitorsIInv, ~mixed, NEW t \in Thread, NEW a \in Addr, Inside(t, a)
    PROVE  \E m \in Mon : m = monitorCache[a] /\ mowner[m] = t
  <1> USE DEF MonitorsIInv
  <1>1. PICK i \in 1..Len(blocks[t]) :
            blocks[t][i].obj = a /\ (i = Len(blocks[t]) => asking[t] = None)
    BY DEF Inside
  <1>2. PICK m \in Mon : m = monitorCache[a]
    BY <1>1 DEF BlocksHold, ObjTypeOK
  <1>3. i \in Entered(t, m)
    BY <1>1, <1>2 DEF Entered
  <1>4. Cardinality(Entered(t, m)) # 0
    BY <1>3, EnteredFinite, FS_EmptySet
  <1>5. QED
    BY <1>2, <1>4 DEF BlocksHold

\* Who has the parser lock parses, and waits for nobody, unless code of eval or of a
\* preload runs with it.
LEMMA HolderGoesOn ==
    ASSUME ObjIInv, spoilt = {}, NEW t \in Thread, owner = t,
           \A i \in Ids : Len(ops[i[1]]) >= i[2] => ops[i[1]][i[2]].op \notin {"eval", "run"},
           NEW u \in Thread
    PROVE  ~WaitsFor(t, u)
  <1> USE DEF ObjIInv, IInv, LockInv
  <1>1. ops[t] \in Seq(Operation) /\ Len(ops[t]) \in Nat /\ Len(ops[t]) <= Depth /\ Depth \in Nat
    BY LenProperties, BoundAssumption DEF TypeOK
  <1>2. Held(t) \in Nat \ {0}
    BY NoneAssumption, BoundAssumption DEF TypeOK, Held
  <1>3. PICK d \in 1..Len(ops[t]) : Entries(ops[t][d]) = 1
    <2>1. Cardinality(Holders(t)) # 0
      BY <1>2, HoldersFinite DEF LockBalanced
    <2>2. Holders(t) # {}
      BY <2>1, FS_EmptySet
    <2>3. QED
      BY <2>2 DEF Holders
  <1>4. ops[t][d].at = "parse"
    <2>1. <<t, d>> \in Ids
      BY <1>1 DEF Ids
    <2>2. ops[t][d].op \notin {"eval", "run"}
      BY <1>1, <2>1
    <2>3. QED
      BY <1>3, <2>2 DEF Entries
  <1>5. d = Len(ops[t]) /\ ops[t] # <<>> /\ Top(t).at = "parse"
    BY <1>1, <1>3, <1>4, EmptySeq DEF OperationsNest, Top
  <1>6. asking[t] = None
    BY <1>5 DEF MonitorsIInv, AsksOwn
  <1>7. ~(t = Main /\ joining # {})
    BY <1>5 DEF MainJoins
  <1>8. QED
    BY <1>5, <1>6, <1>7 DEF WaitsFor, WantsLock, Goes, Runs

\* Objects and monitors correspond one to one, free monitors are nobody's, and every
\* thread has exactly the entries of the blocks it is in (MonitorsInv), whatever
\* objects come and go.
THEOREM MonitorsSafety == ObjSpec => []MonitorsInv
  <1>1. ObjIInv => MonitorsInv
    BY FreeUnowned DEF ObjIInv, MonitorsIInv, MonitorsInv
  <1>2. QED
    BY InitObjIInv, StepObjIInv, <1>1, PTL DEF ObjSpec

\* Two threads are never inside synchronized blocks of the same object (BlocksExclude).
THEOREM BlocksSafety == ObjSpec => []BlocksExclude
  <1>1. ObjIInv => BlocksExclude
    <2> SUFFICES ASSUME ObjIInv, ~mixed, NEW t \in Thread, NEW u \in Thread, NEW a \in Addr,
                        Inside(t, a), Inside(u, a)
                 PROVE  t = u
      BY DEF BlocksExclude
    <2>1. QED
      BY InsideOwns DEF ObjIInv
  <1>2. QED
    BY InitObjIInv, StepObjIInv, <1>1, PTL DEF ObjSpec

\* No two threads wait for each other because monitorExit uses the parser lock: it takes
\* nested blocks, a join inside a block, code that runs with the lock or a lock that was
\* kept (NoOtherDeadlock).
THEOREM DeadlockSafety == ObjSpec => []NoOtherDeadlock
  <1>1. ObjIInv => NoOtherDeadlock
    <2> SUFFICES ASSUME ObjIInv, NEW t \in Thread, NEW u \in Thread, t # u,
                        WaitsFor(t, u), WaitsFor(u, t),
                        spoilt = {},
                        \A w \in Thread : ~(Len(blocks[w]) > 1),
                        ~(joining # {} /\ blocks[Main] # <<>>),
                        ~ \E i \in Ids : Len(ops[i[1]]) >= i[2] /\ ops[i[1]][i[2]].op \in {"eval", "run"}
                 PROVE  FALSE
      BY DEF NoOtherDeadlock
    <2> USE DEF ObjIInv, IInv, LockInv, MonitorsIInv
    <2>1. owner # t /\ owner # u
      BY HolderGoesOn
    \* A thread in one block, on its way into it, has no monitor; nor has Main when it joins.
    <2>2. ASSUME NEW w \in Thread, NEW v \in Thread, v # w, WaitsFor(w, v), owner # v
          PROVE  \A m \in Mon : mowner[m] # w
      <3>1. w \notin raising /\ Cardinality(EntriesOf(w)) = 0
        <4>1. CASE asking[w] # None
          <5>1. w \notin raising /\ blocks[w] # <<>>
            BY <4>1 DEF AsksOwn
          <5>2. Len(blocks[w]) \in Nat /\ Len(blocks[w]) # 0
            BY <5>1, BlockTypes
          <5>3. \A k \in Nat : k # 0 /\ ~(k > 1) => k = 1
            OBVIOUS
          <5>4. Len(blocks[w]) = 1
            BY <5>2, <5>3
          <5>5. QED
            BY <4>1, <5>1, <5>4 DEF EntriesCounted
        <4>2. CASE asking[w] = None
          <5>1. w = Main /\ joining # {} /\ v \in joining
            BY <2>2, <4>2 DEF WaitsFor
          <5>2. w \notin raising /\ Len(blocks[w]) = 0
            BY <5>1, BlockTypes DEF MainJoins
          <5>3. QED
            BY <4>2, <5>2 DEF EntriesCounted
        <4>3. QED
          BY <4>1, <4>2
      <3>2. QED
        BY <3>1, EntriesOfOne
    <2>3. \/ asking[t] # None /\ mowner[asking[t]] = u
          \/ t = Main /\ u \in joining
      BY <2>1 DEF WaitsFor
    <2>4. \/ asking[u] # None /\ mowner[asking[u]] = t
          \/ u = Main /\ t \in joining
      BY <2>1 DEF WaitsFor
    <2>5. asking[t] \in Mon \cup {None} /\ asking[u] \in Mon \cup {None}
      BY DEF ObjTypeOK
    <2>6. Main \notin joining
      BY DEF TypeOK
    <2>7. QED
      BY <2>1, <2>2, <2>3, <2>4, <2>5, <2>6
  <1>2. QED
    BY InitObjIInv, StepObjIInv, <1>1, PTL DEF ObjSpec

\* What the parser lock protects stays protected when synchronized blocks use it as
\* well, and keep it when they fail (LockInv and ParserInv of the composition).
THEOREM BlocksLockSafety == ObjSpec => [](LockInv /\ ParserInv)
  <1>1. ObjIInv => LockInv /\ ParserInv
    BY DEF ObjIInv, IInv
  <1>2. QED
    BY InitObjIInv, StepObjIInv, <1>1, PTL DEF ObjSpec
=============================================================================
