---------------------------- MODULE Interpreter ----------------------------
(***************************************************************************)
(* The control part of the virtual machine of src/src/interpret.cc: the    *)
(* instruction loop execute, exception handlers (dotry), foreach loops,    *)
(* scopes and the monitors of synchronized blocks.                         *)
(*                                                                         *)
(* execute and dotry call each other: TRY runs dotry, and dotry runs       *)
(* execute for the try block, for the finally code and, when there is      *)
(* finally code, for the catch code.  "frames" holds the activations of    *)
(* dotry; its last element called the execute that is running, and its     *)
(* phase says for what.  A C++ exception in flight unwinds that stack: an  *)
(* Aikido exception, the int a POPSCOPE throws to leave handlers, or       *)
(* anything else.  Data is left out; a condition may turn out either way.  *)
(***************************************************************************)
EXTENDS Integers, Sequences

CONSTANT MaxTrue  \* bound: how many conditions, and foreach loops asked for
                  \* another element, turn out true

ASSUME MaxTrueAssumption == MaxTrue \in Nat

VARIABLES code,      \* the program, a sequence of instructions (Codegen)
          pc,
          scopeSP,
          forStack,
          frames,    \* the activations of dotry, the innermost last
          flight,    \* "none", or the C++ exception being thrown
          left,         \* the number an int in flight carries
          held,      \* held[m]: how often the thread has entered monitor m
          out,       \* the marks left so far
          answers,   \* how the conditions turned out so far
          result     \* "running", "ended", "uncaught" or "failed"

vars == <<code, pc, scopeSP, forStack, frames, flight, left, held, out, answers,
          result>>

fixed == <<code, result>>
stacks == <<scopeSP, forStack, frames>>
thrown == <<flight, left>>
seen == <<held, out, answers>>

Monitors == 1..4   \* bound: how deep synchronized blocks nest
BaseScope == 1     \* execute pushes the block itself as the first scope

\* What the execute called by a frame runs.
\*   try     the try block              finally  the finally code after it
\*   catch   the catch code             after    the finally code after that
\*   raise   the finally code after an exception in the catch code
\*   int     the finally code after a break, continue or return left the try
Phase == {"try", "finally", "catch", "after", "raise", "int"}

Frame == [catch : Nat, end : Nat, finally : Nat, scopeSP : Int, forDepth : Nat,
          phase : Phase, savedpc : Nat, left : Int]

\* A foreach loop: where its body starts, and where to go when it is over.
Iteration == [pc : Nat, end : Nat]

\* Every instruction has the operands its opcode needs.
WellFormed ==
    \A a \in DOMAIN code :
        LET c == code[a]
        IN  /\ c.l \in Seq(Nat) /\ c.k \in Seq(Nat)
            /\ c.op \in {"B", "BT", "BF", "FOREACH"} => Len(c.l) = 1
            /\ c.op = "TRY" => Len(c.l) \in {2, 3}
            /\ c.op = "POPSCOPE" => Len(c.k) = 3
            /\ c.op \in {"MONITORENTER", "MONITOREXIT"} =>
                 Len(c.k) = 1 /\ c.k[1] \in Monitors

TypeOK == /\ WellFormed
          /\ pc \in Nat
          /\ scopeSP \in Int
          /\ forStack \in Seq(Iteration)
          /\ frames \in Seq(Frame)
          /\ flight \in {"none", "exception", "int", "other"}
          /\ left \in Int
          /\ held \in [Monitors -> Nat]
          /\ answers \in Seq(BOOLEAN)
          /\ result \in {"running", "ended", "uncaught", "failed"}
          /\ flight # "none" => result = "running"

Start == /\ pc = 1
         /\ scopeSP = BaseScope
         /\ forStack = <<>>
         /\ frames = <<>>
         /\ flight = "none"
         /\ left = 0
         /\ held = [m \in Monitors |-> 0]
         /\ out = <<>>
         /\ answers = <<>>
         /\ result = "running"

-----------------------------------------------------------------------------
\* The instruction to execute is an o.
Fetch(o) == /\ result = "running"
            /\ flight = "none"
            /\ pc \in DOMAIN code
            /\ code[pc].op = o

ir == code[pc]

\* A condition turns out to be b.
Decide(b) == /\ b => Len(SelectSeq(answers, LAMBDA x : x)) < MaxTrue
             /\ answers' = Append(answers, b)

Top == frames[Len(frames)]
Pop == SubSeq(frames, 1, Len(frames) - 1)

\* The frame on top goes to phase p, whose code starts at a.
Enter(p, a) == /\ frames' = [frames EXCEPT ![Len(frames)] = [Top EXCEPT !.phase = p]]
               /\ pc' = a

\* The frame on top is over, and execution continues at a.
Leave(a) == /\ frames' = Pop
            /\ pc' = a

\* The top of an empty std::stack: undefined, in practice a dangling pointer.
Crash == /\ result' = "failed"
         /\ UNCHANGED <<code, pc, stacks, thrown, seen>>

-----------------------------------------------------------------------------
opSAY == /\ Fetch("SAY")
         /\ out' = Append(out, ir.mark)
         /\ pc' = pc + 1
         /\ UNCHANGED <<fixed, stacks, thrown, held, answers>>

opB == /\ Fetch("B")
       /\ pc' = ir.l[1]
       /\ UNCHANGED <<fixed, stacks, thrown, seen>>

\* BT branches when the condition is true, BF when it is false.
opBTorBF ==
    /\ Fetch("BT") \/ Fetch("BF")
    /\ \E b \in BOOLEAN :
          /\ Decide(b)
          /\ pc' = IF b = (ir.op = "BT") THEN ir.l[1] ELSE pc + 1
    /\ UNCHANGED <<fixed, stacks, thrown, held, out>>

opPUSHSCOPE == /\ Fetch("PUSHSCOPE")
               /\ scopeSP' = scopeSP + 1
               /\ pc' = pc + 1
               /\ UNCHANGED <<fixed, forStack, frames, thrown, seen>>

\* Leave scopes, foreach loops and, by throwing their number, handlers.
opPOPSCOPE ==
    /\ Fetch("POPSCOPE")
    /\ LET ns == ir.k[1]
           nt == ir.k[2]
           nf == ir.k[3]
       IN IF scopeSP < ns
          THEN /\ flight' = "other"
               /\ scopeSP' = scopeSP - ns
               /\ pc' = pc + 1
               /\ UNCHANGED <<fixed, forStack, frames, left, seen>>
          ELSE IF nf > Len(forStack)
          THEN Crash
          ELSE /\ scopeSP' = scopeSP - ns
               /\ forStack' = SubSeq(forStack, 1, Len(forStack) - nf)
               /\ pc' = pc + 1
               /\ IF nt > 0 THEN flight' = "int" /\ left' = nt
                            ELSE UNCHANGED <<thrown>>
               /\ UNCHANGED <<fixed, frames, seen>>

\* foreach pushes a loop and asks it for its first element.
opFOREACH ==
    /\ Fetch("FOREACH")
    /\ \E b \in BOOLEAN :
          /\ Decide(b)
          /\ IF b THEN /\ forStack' = Append(forStack, [pc |-> pc + 1, end |-> ir.l[1]])
                       /\ pc' = pc + 1
                  ELSE /\ pc' = ir.l[1]
                       /\ UNCHANGED forStack
    /\ UNCHANGED <<fixed, scopeSP, frames, thrown, held, out>>

\* The innermost loop goes on with its next element, or is over.
opNEXT ==
    /\ Fetch("NEXT")
    /\ IF forStack = <<>>
       THEN Crash
       ELSE LET f == forStack[Len(forStack)]
            IN  /\ \E b \in BOOLEAN :
                      /\ Decide(b)
                      /\ IF b THEN /\ pc' = f.pc
                                   /\ UNCHANGED forStack
                              ELSE /\ pc' = f.end
                                   /\ forStack' = SubSeq(forStack, 1, Len(forStack) - 1)
                /\ UNCHANGED <<fixed, scopeSP, frames, thrown, held, out>>

opMONITORENTER ==
    /\ Fetch("MONITORENTER")
    /\ held' = [held EXCEPT ![ir.k[1]] = @ + 1]
    /\ pc' = pc + 1
    /\ UNCHANGED <<fixed, stacks, thrown, out, answers>>

\* A mutant: nobody asks whether the thread has entered the monitor.
opMONITOREXIT_Unchecked ==
    /\ Fetch("MONITOREXIT")
    /\ held' = [held EXCEPT ![ir.k[1]] = @ - 1]
    /\ pc' = pc + 1
    /\ UNCHANGED <<fixed, stacks, thrown, out, answers>>

\* A monitor the thread has not entered throws "Not monitor owner".
opMONITOREXIT ==
    /\ Fetch("MONITOREXIT")
    /\ IF held[ir.k[1]] > 0
       THEN held' = [held EXCEPT ![ir.k[1]] = @ - 1] /\ UNCHANGED flight
       ELSE flight' = "other" /\ UNCHANGED held
    /\ pc' = pc + 1
    /\ UNCHANGED <<fixed, stacks, left, out, answers>>

-----------------------------------------------------------------------------
opTHROW ==
    /\ Fetch("THROW")
    /\ flight' = "exception"
    /\ pc' = pc + 1
    /\ UNCHANGED <<fixed, stacks, left, seen>>

\* Remember the two stacks and run the try block.
dotry ==
    /\ Fetch("TRY")
    /\ frames' = Append(frames,
         [catch |-> ir.l[1], end |-> ir.l[2],
          finally |-> IF Len(ir.l) = 3 THEN ir.l[3] ELSE 0,
          scopeSP |-> scopeSP, forDepth |-> Len(forStack),
          phase |-> "try", savedpc |-> 0, left |-> 0])
    /\ pc' = pc + 1
    /\ UNCHANGED <<fixed, scopeSP, forStack, thrown, seen>>

opCATCH == /\ Fetch("CATCH")
           /\ pc' = pc + 1
           /\ UNCHANGED <<fixed, stacks, thrown, seen>>

Returned == Fetch("END") \/ Fetch("RET")

\* The first execute returns: the program is over.
EndProgram ==
    /\ Returned
    /\ frames = <<>>
    /\ result' = "ended"
    /\ UNCHANGED <<code, pc, stacks, thrown, seen>>

\* The execute of the try block returns: the finally code is next.
EndTry ==
    /\ Returned
    /\ frames # <<>> /\ Top.phase = "try"
    /\ IF Top.finally # 0 THEN Enter("finally", Top.finally) ELSE Leave(Top.end)
    /\ UNCHANGED <<fixed, scopeSP, forStack, thrown, seen>>

\* The execute of the catch code returns: the finally code is next.
EndCatch ==
    /\ Returned
    /\ frames # <<>> /\ Top.phase = "catch"
    /\ Enter("after", Top.finally)
    /\ UNCHANGED <<fixed, scopeSP, forStack, thrown, seen>>

\* The finally code is over, and so is the try statement.
EndFinally ==
    /\ Returned
    /\ frames # <<>> /\ Top.phase \in {"finally", "after"}
    /\ Leave(Top.end)
    /\ UNCHANGED <<fixed, scopeSP, forStack, thrown, seen>>

\* The finally code is over: throw e;
Rethrow ==
    /\ Returned
    /\ frames # <<>> /\ Top.phase = "raise"
    /\ Leave(pc)
    /\ flight' = "exception"
    /\ UNCHANGED <<fixed, scopeSP, forStack, left, seen>>

\* One handler less to leave; then go on where the POPSCOPE was.
Continued(n, a) == /\ Leave(a)
                   /\ flight' = IF n > 1 THEN "int" ELSE "none"
                   /\ left' = n - 1

\* The finally code that a break, continue or return caused is over.
EndInt ==
    /\ Returned
    /\ frames # <<>> /\ Top.phase = "int"
    /\ Continued(Top.left, Top.savedpc)
    /\ UNCHANGED <<fixed, scopeSP, forStack, seen>>

-----------------------------------------------------------------------------
\* A mutant: the handlers also cover the finally code after the catch code.
InTry_After == frames # <<>> /\ Top.phase \in {"try", "finally", "after"}

\* C++ exceptions.  Only what the try block and the first finally code throw
\* is caught by the handlers of dotry; the catch code with finally code has a
\* handler of its own.
InTry == frames # <<>> /\ Top.phase \in {"try", "finally"}

Restored == /\ scopeSP' = Top.scopeSP
            /\ forStack' = IF Len(forStack) > Top.forDepth
                           THEN SubSeq(forStack, 1, Top.forDepth) ELSE forStack

\* A mutant: the foreach loops of the try block stay on the stack.
CatchException_KeepsLoops ==
    /\ flight = "exception" /\ result = "running"
    /\ InTry
    /\ flight' = "none"
    /\ scopeSP' = Top.scopeSP
    /\ IF Top.finally # 0 THEN Enter("catch", Top.catch) ELSE Leave(Top.catch)
    /\ UNCHANGED <<fixed, forStack, left, seen>>

\* catch (Exception e)
CatchException ==
    /\ flight = "exception" /\ result = "running"
    /\ InTry
    /\ flight' = "none"
    /\ Restored
    /\ IF Top.finally # 0 THEN Enter("catch", Top.catch) ELSE Leave(Top.catch)
    /\ UNCHANGED <<fixed, left, seen>>

\* An exception in the catch code: run the finally code, then rethrow.
CatchInCatch ==
    /\ flight = "exception" /\ result = "running"
    /\ frames # <<>> /\ Top.phase = "catch"
    /\ flight' = "none"
    /\ Enter("raise", Top.finally)
    /\ UNCHANGED <<fixed, scopeSP, forStack, left, seen>>

\* A mutant: the handler of the int forgets the finally code.
CatchInt_NoFinally ==
    /\ flight = "int" /\ result = "running"
    /\ InTry
    /\ Continued(left, pc)
    /\ UNCHANGED <<fixed, scopeSP, forStack, seen>>

\* catch (int i): a POPSCOPE leaves this handler.
CatchInt ==
    /\ flight = "int" /\ result = "running"
    /\ InTry
    /\ IF Top.finally # 0
       THEN /\ frames' = [frames EXCEPT ![Len(frames)] =
                            [Top EXCEPT !.phase = "int", !.savedpc = pc, !.left = left]]
            /\ pc' = Top.finally
            /\ flight' = "none"
            /\ UNCHANGED left
       ELSE Continued(left, pc)
    /\ UNCHANGED <<fixed, scopeSP, forStack, seen>>

\* catch (...): clean up and go on throwing.
CatchOther ==
    /\ flight = "other" /\ result = "running"
    /\ InTry
    /\ Restored
    /\ Leave(pc)
    /\ UNCHANGED <<fixed, thrown, seen>>

\* What is thrown elsewhere in dotry leaves it.
Propagate ==
    /\ flight # "none" /\ result = "running"
    /\ frames # <<>> /\ ~InTry
    /\ ~(flight = "exception" /\ Top.phase = "catch")
    /\ Leave(pc)
    /\ UNCHANGED <<fixed, scopeSP, forStack, thrown, seen>>

\* Nobody catches it.
Uncaught ==
    /\ flight # "none" /\ result = "running"
    /\ frames = <<>>
    /\ flight' = "none"
    /\ result' = IF flight = "exception" THEN "uncaught" ELSE "failed"
    /\ UNCHANGED <<code, pc, stacks, left, seen>>

-----------------------------------------------------------------------------
\* One instruction, or one step of the unwinding.
Step == \/ opSAY \/ opB \/ opBTorBF \/ opPUSHSCOPE \/ opPOPSCOPE \/ opFOREACH
        \/ opNEXT \/ opMONITORENTER \/ opMONITOREXIT \/ opTHROW \/ dotry \/ opCATCH
        \/ EndProgram \/ EndTry \/ EndCatch \/ EndFinally \/ Rethrow \/ EndInt
        \/ CatchException \/ CatchInCatch \/ CatchInt \/ CatchOther
        \/ Propagate \/ Uncaught

\* Any program, on a machine that is not part of a larger model.
MachineSpec == Start /\ [][Step]_vars

-----------------------------------------------------------------------------
Rank(p) == CASE p = "try" -> 1 [] p = "finally" -> 2 [] p = "catch" -> 3
             [] OTHER -> 4

\* However a try statement is left, its catch code is entered at most once
\* and its finally code at most twice: an activation of dotry only moves
\* forward through its phases, and only the innermost one moves.
PhasesAdvance ==
    [][\A d \in 1..Len(frames) :
          d <= Len(frames') /\ frames'[d] # frames[d]
             => /\ d = Len(frames)
                /\ Rank(frames'[d].phase) > Rank(frames[d].phase)]_vars
=============================================================================
