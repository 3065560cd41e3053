------------------------- MODULE Interpreter_proofs -------------------------
(***************************************************************************)
(* The virtual machine on any program whose instructions have the operands *)
(* they need, whatever jumps it makes.                                     *)
(***************************************************************************)
EXTENDS Interpreter, TLAPS

\* A sequence cut to its first elements.
LEMMA CutSeq ==
    ASSUME NEW S, NEW s \in Seq(S), NEW n \in 0..Len(s)
    PROVE  /\ SubSeq(s, 1, n) \in Seq(S)
           /\ Len(SubSeq(s, 1, n)) = n
           /\ \A d \in 1..n : SubSeq(s, 1, n)[d] = s[d]
  <1>1. SubSeq(s, 1, n) \in Seq(S)
    OBVIOUS
  <1>2. Len(SubSeq(s, 1, n)) = n
    OBVIOUS
  <1>3. \A d \in 1..n : SubSeq(s, 1, n)[d] = s[d]
    OBVIOUS
  <1> QED BY <1>1, <1>2, <1>3

LEMMA AppendSeq ==
    ASSUME NEW S, NEW s \in Seq(S), NEW e \in S
    PROVE  Append(s, e) \in Seq(S)
  OBVIOUS

\* The operands of an instruction that is fetched.
LEMMA Operands ==
    ASSUME WellFormed, NEW o, Fetch(o)
    PROVE  /\ o \in {"B", "BT", "BF", "FOREACH"} => ir.l[1] \in Nat
           /\ o = "TRY" => /\ ir.l[1] \in Nat /\ ir.l[2] \in Nat
                           /\ Len(ir.l) = 3 => ir.l[3] \in Nat
           /\ o = "POPSCOPE" => ir.k[1] \in Nat /\ ir.k[2] \in Nat /\ ir.k[3] \in Nat
           /\ o \in {"MONITORENTER", "MONITOREXIT"} => ir.k[1] \in Monitors
  <1>1. /\ ir.l \in Seq(Nat) /\ ir.k \in Seq(Nat)
        /\ o \in {"B", "BT", "BF", "FOREACH"} => Len(ir.l) = 1
        /\ o = "TRY" => Len(ir.l) \in {2, 3}
        /\ o = "POPSCOPE" => Len(ir.k) = 3
        /\ o \in {"MONITORENTER", "MONITOREXIT"} => ir.k[1] \in Monitors
    BY DEF WellFormed, Fetch, ir
  <1> QED BY <1>1, SMTT(30)

LEMMA TopFrame ==
    ASSUME frames \in Seq(Frame), frames # <<>>
    PROVE  Len(frames) \in Nat /\ Len(frames) >= 1 /\ Top \in Frame
  BY DEF Top

\* A frame that enters another phase is still a frame.
LEMMA PhaseChange ==
    ASSUME NEW f \in Frame, NEW p \in Phase
    PROVE  [f EXCEPT !.phase = p] \in Frame /\ [f EXCEPT !.phase = p].phase = p
  <1>1. [f EXCEPT !.phase = p] \in Frame
    BY DEF Frame
  <1>2. [f EXCEPT !.phase = p].phase = p
    BY DEF Frame
  <1> QED BY <1>1, <1>2

LEMMA IntChange ==
    ASSUME NEW f \in Frame, NEW a \in Nat, NEW n \in Int
    PROVE  /\ [f EXCEPT !.phase = "int", !.savedpc = a, !.left = n] \in Frame
           /\ [f EXCEPT !.phase = "int", !.savedpc = a, !.left = n].phase = "int"
  <1>1. [f EXCEPT !.phase = "int", !.savedpc = a, !.left = n] \in Frame
    BY DEF Frame, Phase
  <1>2. [f EXCEPT !.phase = "int", !.savedpc = a, !.left = n].phase = "int"
    BY DEF Frame
  <1> QED BY <1>1, <1>2

-----------------------------------------------------------------------------
\* What a step does to the stack of frames: nothing, a new frame, a frame
\* less, or a frame on top that has advanced.
Same == frames' = frames
Deeper == \E f \in Frame : frames' = Append(frames, f)
Shallower == frames # <<>> /\ frames' = Pop
Advanced == /\ frames # <<>>
            /\ \E f \in Frame : /\ frames' = [frames EXCEPT ![Len(frames)] = f]
                                /\ Rank(f.phase) > Rank(Top.phase)

FramesMove == Same \/ Deeper \/ Shallower \/ Advanced

LEMMA MoveTyped ==
    ASSUME frames \in Seq(Frame), FramesMove
    PROVE  frames' \in Seq(Frame)
  <1>1. CASE Same
    BY <1>1 DEF Same
  <1>2. CASE Deeper
    BY <1>2 DEF Deeper
  <1>3. CASE Shallower
    <2>1. frames # <<>>
      BY <1>3 DEF Shallower
    <2>2. Len(frames) - 1 \in 0..Len(frames)
      BY <2>1, TopFrame
    <2> QED BY <1>3, <2>2, CutSeq DEF Shallower, Pop
  <1>4. CASE Advanced
    BY <1>4 DEF Advanced
  <1> QED BY <1>1, <1>2, <1>3, <1>4 DEF FramesMove

LEMMA MoveAdvances ==
    ASSUME frames \in Seq(Frame), FramesMove, NEW d \in 1..Len(frames),
           d <= Len(frames'), frames'[d] # frames[d]
    PROVE  d = Len(frames) /\ Rank(frames'[d].phase) > Rank(frames[d].phase)
  <1>1. CASE Same
    BY <1>1 DEF Same
  <1>2. CASE Deeper
    BY <1>2 DEF Deeper
  <1>3. CASE Shallower
    <2>1. frames # <<>>
      BY <1>3 DEF Shallower
    <2>2. Len(frames) - 1 \in 0..Len(frames) /\ Len(frames) \in Nat
      BY <2>1, TopFrame
    <2>3. /\ Len(frames') = Len(frames) - 1
          /\ \A e \in 1..(Len(frames) - 1) : frames'[e] = frames[e]
      BY <1>3, <2>2, CutSeq DEF Shallower, Pop
    <2> QED BY <2>2, <2>3
  <1>4. CASE Advanced
    <2>1. PICK f \in Frame : /\ frames' = [frames EXCEPT ![Len(frames)] = f]
                             /\ Rank(f.phase) > Rank(Top.phase)
      BY <1>4 DEF Advanced
    <2>2. d = Len(frames)
      BY <2>1
    <2>3. frames'[d] = f /\ frames[d] = Top
      BY <2>1, <2>2 DEF Top
    <2> QED BY <2>1, <2>2, <2>3
  <1> QED BY <1>1, <1>2, <1>3, <1>4 DEF FramesMove

\* Entering a later phase, and leaving, are such moves.
LEMMA EnterMoves ==
    ASSUME frames \in Seq(Frame), frames # <<>>, NEW p \in Phase, NEW a \in Nat,
           Enter(p, a), Rank(p) > Rank(Top.phase)
    PROVE  FramesMove /\ pc' \in Nat
  <1>1. Top \in Frame
    BY TopFrame
  <1>2. [Top EXCEPT !.phase = p] \in Frame /\ [Top EXCEPT !.phase = p].phase = p
    BY <1>1, PhaseChange
  <1>3. frames' = [frames EXCEPT ![Len(frames)] = [Top EXCEPT !.phase = p]]
    BY DEF Enter
  <1>4. Advanced
    BY <1>2, <1>3 DEF Advanced
  <1> QED BY <1>4 DEF FramesMove, Enter

LEMMA LeaveMoves ==
    ASSUME frames # <<>>, NEW a \in Nat, Leave(a)
    PROVE  FramesMove /\ pc' \in Nat
  BY DEF Leave, FramesMove, Shallower

LEMMA TopNats ==
    ASSUME frames \in Seq(Frame), frames # <<>>
    PROVE  /\ Top.catch \in Nat /\ Top.end \in Nat /\ Top.finally \in Nat
           /\ Top.savedpc \in Nat /\ Top.forDepth \in Nat
           /\ Top.scopeSP \in Int /\ Top.left \in Int /\ Top.phase \in Phase
  BY TopFrame DEF Frame

-----------------------------------------------------------------------------
\* Each step keeps the types and moves the frames.
Good == TypeOK' /\ FramesMove

LEMMA StartTypeOK == WellFormed /\ Start => TypeOK
  <1> SUFFICES ASSUME WellFormed, Start
               PROVE  TypeOK
    OBVIOUS
  <1>1. frames \in Seq(Frame) /\ forStack \in Seq(Iteration)
    BY DEF Start
  <1> QED BY <1>1 DEF Start, TypeOK, BaseScope

LEMMA WellFormedKept == WellFormed /\ UNCHANGED code => WellFormed'
  BY DEF WellFormed

LEMMA UntouchedFrames ==
    ASSUME TypeOK, UNCHANGED <<code, frames>>
    PROVE  WellFormed' /\ FramesMove /\ frames' \in Seq(Frame)
  BY WellFormedKept DEF TypeOK, FramesMove, Same

LEMMA JumpsGood == TypeOK /\ (opSAY \/ opB \/ opCATCH \/ opPUSHSCOPE \/ opTHROW) => Good
  <1> SUFFICES ASSUME TypeOK
               PROVE  opSAY \/ opB \/ opCATCH \/ opPUSHSCOPE \/ opTHROW => Good
    OBVIOUS
  <1> USE UntouchedFrames
  <1> USE DEF Good, TypeOK, Fetch, fixed, stacks, thrown, seen
  <1>1. CASE opSAY
    BY <1>1 DEF opSAY
  <1>2. CASE opB
    BY <1>2, Operands DEF opB
  <1>3. CASE opCATCH
    BY <1>3 DEF opCATCH
  <1>4. CASE opPUSHSCOPE
    BY <1>4 DEF opPUSHSCOPE
  <1>5. CASE opTHROW
    BY <1>5 DEF opTHROW
  <1> QED BY <1>1, <1>2, <1>3, <1>4, <1>5

LEMMA BranchGood == TypeOK /\ opBTorBF => Good
  <1> SUFFICES ASSUME TypeOK, opBTorBF
               PROVE  Good
    OBVIOUS
  <1>1. ir.l[1] \in Nat /\ result = "running" /\ flight = "none"
    BY Operands DEF TypeOK, opBTorBF, Fetch
  <1>2. PICK b \in BOOLEAN :
           Decide(b) /\ pc' = IF b = (ir.op = "BT") THEN ir.l[1] ELSE pc + 1
    BY DEF opBTorBF
  <1>3. pc' \in Nat
    BY <1>1, <1>2 DEF TypeOK
  <1>4. answers' \in Seq(BOOLEAN)
    BY <1>2 DEF TypeOK, Decide
  <1> QED BY <1>3, <1>4, UntouchedFrames
          DEF opBTorBF, Good, TypeOK, fixed, stacks, thrown

LEMMA PopscopeGood == TypeOK /\ opPOPSCOPE => Good
  <1> SUFFICES ASSUME TypeOK, opPOPSCOPE
               PROVE  Good
    OBVIOUS
  <1>1. ir.k[1] \in Nat /\ ir.k[2] \in Nat /\ ir.k[3] \in Nat
    BY Operands DEF TypeOK, opPOPSCOPE
  <1>2. Len(forStack) \in Nat
    BY DEF TypeOK
  <1>3. CASE scopeSP < ir.k[1]
    BY <1>1, <1>3, UntouchedFrames, SMTT(30)
    DEF opPOPSCOPE, Good, TypeOK, Fetch, fixed, seen
  <1>4. CASE scopeSP >= ir.k[1] /\ ir.k[3] > Len(forStack)
    BY <1>1, <1>4, UntouchedFrames, SMTT(30)
    DEF opPOPSCOPE, Crash, Good, TypeOK, Fetch, stacks, thrown, seen
  <1>5. CASE scopeSP >= ir.k[1] /\ ir.k[3] <= Len(forStack)
    <2>1. Len(forStack) - ir.k[3] \in 0..Len(forStack)
      BY <1>1, <1>2, <1>5
    <2>2. SubSeq(forStack, 1, Len(forStack) - ir.k[3]) \in Seq(Iteration)
      BY <2>1, CutSeq DEF TypeOK
    <2>3. /\ scopeSP' = scopeSP - ir.k[1] /\ pc' = pc + 1
          /\ forStack' = SubSeq(forStack, 1, Len(forStack) - ir.k[3])
          /\ UNCHANGED <<code, result, frames, held, answers>>
      BY <1>1, <1>2, <1>5, SMTT(30) DEF opPOPSCOPE, fixed, seen, TypeOK
    <2>4. \/ flight' = "int" /\ left' = ir.k[2]
          \/ UNCHANGED <<flight, left>>
      BY <1>1, <1>2, <1>5 DEF opPOPSCOPE, thrown, TypeOK
    <2>5. result = "running" /\ flight = "none"
      BY DEF opPOPSCOPE, Fetch
    <2>6. /\ scopeSP' \in Int /\ pc' \in Nat /\ left' \in Int
          /\ flight' \in {"none", "int"}
      BY <1>1, <2>3, <2>4, <2>5, SMTT(30) DEF TypeOK
    <2> QED BY <2>2, <2>3, <2>5, <2>6, UntouchedFrames DEF Good, TypeOK
  <1>6. scopeSP \in Int
    BY DEF TypeOK
  <1> QED BY <1>1, <1>2, <1>3, <1>4, <1>5, <1>6

LEMMA ForeachGood == TypeOK /\ opFOREACH => Good
  <1> SUFFICES ASSUME TypeOK, opFOREACH
               PROVE  Good
    OBVIOUS
  <1>1. ir.l[1] \in Nat
    BY Operands DEF TypeOK, opFOREACH
  <1>2. PICK b \in BOOLEAN :
           /\ Decide(b)
           /\ IF b THEN /\ forStack' = Append(forStack, [pc |-> pc + 1, end |-> ir.l[1]])
                        /\ pc' = pc + 1
                   ELSE pc' = ir.l[1] /\ UNCHANGED forStack
    BY DEF opFOREACH
  <1>3. answers' \in Seq(BOOLEAN)
    BY <1>2 DEF TypeOK, Decide
  <1>4. pc' \in Nat
    BY <1>1, <1>2 DEF TypeOK
  <1>5. [pc |-> pc + 1, end |-> ir.l[1]] \in Iteration
    BY <1>1 DEF TypeOK, Iteration
  <1>6. forStack' \in Seq(Iteration)
    <2>1. Append(forStack, [pc |-> pc + 1, end |-> ir.l[1]]) \in Seq(Iteration)
      BY <1>5, AppendSeq DEF TypeOK
    <2> QED BY <1>2, <2>1 DEF TypeOK
  <1> QED BY <1>3, <1>4, <1>6, UntouchedFrames
          DEF opFOREACH, Good, TypeOK, Fetch, fixed, thrown

LEMMA NextGood == TypeOK /\ opNEXT => Good
  <1> SUFFICES ASSUME TypeOK, opNEXT
               PROVE  Good
    OBVIOUS
  <1>1. CASE forStack = <<>>
    BY <1>1, UntouchedFrames
    DEF opNEXT, Crash, Good, TypeOK, Fetch, stacks, thrown, seen
  <1>2. CASE forStack # <<>>
    <2> DEFINE f == forStack[Len(forStack)]
    <2>1. Len(forStack) \in Nat /\ Len(forStack) >= 1
      BY <1>2 DEF TypeOK
    <2>2. f.pc \in Nat /\ f.end \in Nat
      <3>1. f \in Iteration
        BY <2>1 DEF TypeOK
      <3> QED BY <3>1 DEF Iteration
    <2>3. SubSeq(forStack, 1, Len(forStack) - 1) \in Seq(Iteration)
      <3>1. Len(forStack) - 1 \in 0..Len(forStack)
        BY <2>1
      <3> QED BY <3>1, CutSeq DEF TypeOK
    <2>4. PICK b \in BOOLEAN :
             /\ Decide(b)
             /\ IF b THEN pc' = f.pc /\ UNCHANGED forStack
                     ELSE /\ pc' = f.end
                          /\ forStack' = SubSeq(forStack, 1, Len(forStack) - 1)
      BY <1>2 DEF opNEXT
    <2>5. answers' \in Seq(BOOLEAN)
      BY <2>4 DEF TypeOK, Decide
    <2>6. pc' \in Nat /\ forStack' \in Seq(Iteration)
      BY <2>2, <2>3, <2>4 DEF TypeOK
    <2>7. UNCHANGED <<code, result, scopeSP, frames, flight, left, held>>
      BY <1>2 DEF opNEXT, fixed, thrown
    <2> QED BY <2>5, <2>6, <2>7, UntouchedFrames DEF Good, TypeOK
  <1> QED BY <1>1, <1>2

LEMMA MonitorsGood == TypeOK /\ (opMONITORENTER \/ opMONITOREXIT) => Good
  <1> SUFFICES ASSUME TypeOK
               PROVE  opMONITORENTER \/ opMONITOREXIT => Good
    OBVIOUS
  <1>1. CASE opMONITORENTER
    <2>1. ir.k[1] \in Monitors
      BY <1>1, Operands DEF TypeOK, opMONITORENTER
    <2> QED BY <1>1, <2>1, UntouchedFrames
            DEF opMONITORENTER, Good, TypeOK, Fetch, fixed, stacks, thrown
  <1>2. CASE opMONITOREXIT
    <2>1. ir.k[1] \in Monitors
      BY <1>2, Operands DEF TypeOK, opMONITOREXIT
    <2>2. held' \in [Monitors -> Nat]
      BY <1>2, <2>1 DEF opMONITOREXIT, TypeOK
    <2>3. /\ UNCHANGED <<code, result, scopeSP, forStack, frames, left, answers>>
          /\ pc' = pc + 1 /\ flight' \in {"none", "other"} /\ result = "running"
      BY <1>2 DEF opMONITOREXIT, Fetch, fixed, stacks
    <2> QED BY <2>2, <2>3, UntouchedFrames DEF Good, TypeOK
  <1> QED BY <1>1, <1>2

-----------------------------------------------------------------------------
\* What is left to show of a step that moves the frames.
LEMMA MovedGood ==
    ASSUME TypeOK, FramesMove, pc' \in Nat, UNCHANGED <<code, held, answers, result>>,
           scopeSP' \in Int, forStack' \in Seq(Iteration), left' \in Int,
           flight' \in {"none", "exception", "int", "other"},
           result = "running"
    PROVE  Good
  <1>1. frames' \in Seq(Frame)
    BY MoveTyped DEF TypeOK
  <1>2. WellFormed'
    BY WellFormedKept DEF TypeOK
  <1> QED BY <1>1, <1>2 DEF Good, TypeOK

LEMMA TryGood == TypeOK /\ dotry => Good
  <1> SUFFICES ASSUME TypeOK, dotry
               PROVE  Good
    OBVIOUS
  <1> DEFINE f == [catch |-> ir.l[1], end |-> ir.l[2],
                   finally |-> IF Len(ir.l) = 3 THEN ir.l[3] ELSE 0,
                   scopeSP |-> scopeSP, forDepth |-> Len(forStack),
                   phase |-> "try", savedpc |-> 0, left |-> 0]
  <1>1. f \in Frame
    <2>1. ir.l[1] \in Nat /\ ir.l[2] \in Nat /\ (Len(ir.l) = 3 => ir.l[3] \in Nat)
      BY Operands DEF TypeOK, dotry
    <2>2. Len(forStack) \in Nat /\ scopeSP \in Int
      BY DEF TypeOK
    <2> QED BY <2>1, <2>2 DEF Frame, Phase
  <1>2. FramesMove
    <2>1. frames' = Append(frames, f)
      BY DEF dotry
    <2> QED BY <1>1, <2>1 DEF FramesMove, Deeper
  <1> QED BY <1>2, MovedGood DEF dotry, Fetch, TypeOK, fixed, thrown, seen

\* The execute of the try block, the catch code or the finally code returns.
LEMMA ReturnsGood ==
    TypeOK /\ (EndTry \/ EndCatch \/ EndFinally \/ Rethrow \/ EndInt) => Good
  <1> SUFFICES ASSUME TypeOK, EndTry \/ EndCatch \/ EndFinally \/ Rethrow \/ EndInt
               PROVE  Good
    OBVIOUS
  <1>1. /\ frames # <<>> /\ frames \in Seq(Frame) /\ result = "running"
        /\ pc \in Nat /\ scopeSP \in Int /\ forStack \in Seq(Iteration)
        /\ left \in Int /\ flight = "none"
    BY DEF EndTry, EndCatch, EndFinally, Rethrow, EndInt, Returned, Fetch, TypeOK
  <1>2. UNCHANGED <<code, held, answers, result, scopeSP, forStack>>
    BY DEF EndTry, EndCatch, EndFinally, Rethrow, EndInt, fixed, seen
  <1>3. /\ Top.end \in Nat /\ Top.finally \in Nat /\ Top.savedpc \in Nat
        /\ Top.left \in Int
    BY <1>1, TopNats
  <1>4. FramesMove /\ pc' \in Nat
    <2>1. CASE EndTry
      <3>1. CASE Top.finally # 0
        <4>1. Enter("finally", Top.finally) /\ Rank("finally") > Rank(Top.phase)
          BY <2>1, <3>1 DEF EndTry, Rank
        <4> QED BY <1>1, <1>3, <4>1, EnterMoves DEF Phase
      <3>2. CASE Top.finally = 0
        BY <1>1, <1>3, <2>1, <3>2, LeaveMoves DEF EndTry
      <3> QED BY <3>1, <3>2
    <2>2. CASE EndCatch
      <3>1. Enter("after", Top.finally) /\ Rank("after") > Rank(Top.phase)
        BY <2>2 DEF EndCatch, Rank
      <3> QED BY <1>1, <1>3, <3>1, EnterMoves DEF Phase
    <2>3. CASE EndFinally
      BY <1>1, <1>3, <2>3, LeaveMoves DEF EndFinally
    <2>4. CASE Rethrow
      BY <1>1, <2>4, LeaveMoves DEF Rethrow
    <2>5. CASE EndInt
      BY <1>1, <1>3, <2>5, LeaveMoves DEF EndInt, Continued
    <2> QED BY <2>1, <2>2, <2>3, <2>4, <2>5
  <1>5. left' \in Int /\ flight' \in {"none", "exception", "int"}
    BY <1>1, <1>3
    DEF EndTry, EndCatch, EndFinally, Rethrow, EndInt, Continued, thrown
  <1> QED BY <1>1, <1>2, <1>4, <1>5, MovedGood

\* A C++ exception reaches dotry.
LEMMA RestoredTyped ==
    ASSUME TypeOK, frames # <<>>, Restored
    PROVE  scopeSP' \in Int /\ forStack' \in Seq(Iteration)
  <1>1. Top.forDepth \in Nat /\ Top.scopeSP \in Int
    BY TopNats DEF TypeOK
  <1>2. Len(forStack) > Top.forDepth
           => SubSeq(forStack, 1, Top.forDepth) \in Seq(Iteration)
    <2>1. Len(forStack) \in Nat
      BY DEF TypeOK
    <2>2. Len(forStack) > Top.forDepth => Top.forDepth \in 0..Len(forStack)
      BY <1>1, <2>1
    <2> QED BY <2>2, CutSeq DEF TypeOK
  <1> QED BY <1>1, <1>2 DEF Restored, TypeOK

LEMMA CatchesGood ==
    TypeOK /\ (CatchException \/ CatchInCatch \/ CatchInt \/ CatchOther \/ Propagate)
       => Good
  <1> SUFFICES ASSUME TypeOK, CatchException \/ CatchInCatch \/ CatchInt
                               \/ CatchOther \/ Propagate
               PROVE  Good
    OBVIOUS
  <1>1. /\ frames # <<>> /\ frames \in Seq(Frame) /\ result = "running"
        /\ pc \in Nat /\ scopeSP \in Int /\ forStack \in Seq(Iteration)
        /\ left \in Int /\ flight \in {"exception", "int", "other"}
    BY DEF CatchException, CatchInCatch, CatchInt, CatchOther, Propagate, InTry, TypeOK
  <1>2. UNCHANGED <<code, held, answers, result>>
    BY DEF CatchException, CatchInCatch, CatchInt, CatchOther, Propagate, fixed, seen
  <1>3. Top.catch \in Nat /\ Top.finally \in Nat
    BY <1>1, TopNats
  <1>4. FramesMove /\ pc' \in Nat
    <2>1. CASE CatchException
      <3>1. CASE Top.finally # 0
        <4>1. Enter("catch", Top.catch) /\ Rank("catch") > Rank(Top.phase)
          BY <2>1, <3>1 DEF CatchException, InTry, Rank
        <4> QED BY <1>1, <1>3, <4>1, EnterMoves DEF Phase
      <3>2. CASE Top.finally = 0
        BY <1>1, <1>3, <2>1, <3>2, LeaveMoves DEF CatchException
      <3> QED BY <3>1, <3>2
    <2>2. CASE CatchInCatch
      <3>1. Enter("raise", Top.finally) /\ Rank("raise") > Rank(Top.phase)
        BY <2>2 DEF CatchInCatch, Rank
      <3> QED BY <1>1, <1>3, <3>1, EnterMoves DEF Phase
    <2>3. CASE CatchInt
      <3>1. CASE Top.finally # 0
        <4> DEFINE f == [Top EXCEPT !.phase = "int", !.savedpc = pc, !.left = left]
        <4>1. f \in Frame /\ f.phase = "int"
          BY <1>1, TopFrame, IntChange
        <4>2. frames' = [frames EXCEPT ![Len(frames)] = f] /\ pc' = Top.finally
          BY <2>3, <3>1 DEF CatchInt
        <4>3. Rank("int") > Rank(Top.phase)
          BY <2>3 DEF CatchInt, InTry, Rank
        <4> HIDE DEF f
        <4> QED BY <1>1, <1>3, <4>1, <4>2, <4>3 DEF FramesMove, Advanced
      <3>2. CASE Top.finally = 0
        BY <1>1, <2>3, <3>2, LeaveMoves DEF CatchInt, Continued
      <3> QED BY <3>1, <3>2
    <2>4. CASE CatchOther
      BY <1>1, <2>4, LeaveMoves DEF CatchOther
    <2>5. CASE Propagate
      BY <1>1, <2>5, LeaveMoves DEF Propagate
    <2> QED BY <2>1, <2>2, <2>3, <2>4, <2>5
  <1>5. left' \in Int /\ flight' \in {"none", "exception", "int", "other"}
    BY <1>1 DEF CatchException, CatchInCatch, CatchInt, CatchOther, Propagate,
                Continued, thrown
  <1>6. scopeSP' \in Int /\ forStack' \in Seq(Iteration)
    <2>1. Restored \/ UNCHANGED <<scopeSP, forStack>>
      BY DEF CatchException, CatchInCatch, CatchInt, CatchOther, Propagate
    <2> QED BY <1>1, <2>1, RestoredTyped
  <1> QED BY <1>1, <1>2, <1>4, <1>5, <1>6, MovedGood

LEMMA EndsGood == TypeOK /\ (EndProgram \/ Uncaught) => Good
  <1> SUFFICES ASSUME TypeOK, EndProgram \/ Uncaught
               PROVE  Good
    OBVIOUS
  <1>1. UNCHANGED <<code, pc, scopeSP, forStack, frames, left, held, answers>>
    BY DEF EndProgram, Uncaught, stacks, thrown, seen
  <1>2. flight' = "none" /\ result' \in {"ended", "uncaught", "failed"}
    BY DEF EndProgram, Uncaught, Returned, Fetch, thrown
  <1> QED BY <1>1, <1>2, UntouchedFrames DEF Good, TypeOK

-----------------------------------------------------------------------------
LEMMA StepGood == TypeOK /\ Step => Good
  BY JumpsGood, BranchGood, PopscopeGood, ForeachGood, NextGood, MonitorsGood,
     TryGood, ReturnsGood, CatchesGood, EndsGood
  DEF Step

LEMMA StutterGood == TypeOK /\ UNCHANGED vars => Good
  <1> SUFFICES ASSUME TypeOK, UNCHANGED vars
               PROVE  Good
    OBVIOUS
  <1> QED BY UntouchedFrames DEF vars, Good, TypeOK

\* Type correctness: every state of the machine is one of its types, for
\* every program whose instructions have the operands they need (execute,
\* src/src/interpret.cc).
THEOREM TypeCorrect == WellFormed /\ MachineSpec => []TypeOK
  <1>1. TypeOK /\ [Step]_vars => TypeOK'
    BY StepGood, StutterGood DEF Good
  <1> QED BY StartTypeOK, <1>1, PTL DEF MachineSpec

\* An activation of dotry moves forward through its phases only, and the
\* ones below it do not move: catch code is entered at most once, and nothing
\* goes back to a try block (dotry, src/src/interpret.cc).
THEOREM PhasesMonotone == WellFormed /\ MachineSpec => PhasesAdvance
  <1> DEFINE A == \A d \in 1..Len(frames) :
                     d <= Len(frames') /\ frames'[d] # frames[d]
                        => /\ d = Len(frames)
                           /\ Rank(frames'[d].phase) > Rank(frames[d].phase)
  <1>1. TypeOK /\ [Step]_vars => A
    <2>1. TypeOK /\ [Step]_vars => frames \in Seq(Frame) /\ FramesMove
      BY StepGood, StutterGood DEF Good, TypeOK
    <2> QED BY <2>1, MoveAdvances
  <1>2. TypeOK /\ [Step]_vars => [A]_vars
    BY <1>1
  <1> HIDE DEF A
  <1>3. WellFormed /\ MachineSpec => [][A]_vars
    BY <1>2, TypeCorrect, PTL DEF MachineSpec
  <1> QED BY <1>3 DEF A, PhasesAdvance
=============================================================================
