----------------------------- MODULE Coroutines -----------------------------
(***************************************************************************)
(* Functions that yield: callFunction, save_state, restore_state and       *)
(* invoke_coroutine of src/src/interpret.cc.  A yield is a C++ exception   *)
(* that the call of the function catches; the part of the machine's        *)
(* foreach and scope stacks that belongs to the function is moved into a   *)
(* closure, and a resume puts it back on top of whatever the stacks are    *)
(* then.  The activations of dotry are on the C++ stack and cannot be      *)
(* saved.                                                                  *)
(*                                                                         *)
(* A body is any sequence of blocks, foreach loops and try statements,     *)
(* properly nested.  "inside" is what the source says: the constructs the  *)
(* running statement of a function is in.                                  *)
(***************************************************************************)
EXTENDS Integers, Sequences, FiniteSets, SequencesExt

CONSTANTS Main,      \* the program that calls the functions
          Function,  \* functions that yield
          Methods,   \* those that are synchronized methods of one object
          Depth,     \* bound: constructs nested in one body
          Gentle     \* TRUE: a yield is inside no try and at most one foreach

ASSUME FunctionAssumption == Main \notin Function /\ Methods \subseteq Function
ASSUME DepthAssumption == Depth \in Nat /\ Gentle \in BOOLEAN

VARIABLES calls,       \* the activations, the running one last
          forStack,
          scopeStack,  \* up to scopeSP
          closure,     \* closure[f]: the state f is in, and its VMState
          held,        \* entries of the object's monitor
          inside       \* inside[f]: the constructs f is in

vars == <<calls, forStack, scopeStack, closure, held, inside>>

Body == {Main} \cup Function
Construct == {"block", "foreach", "try"}

\* The loops and scopes of f are told apart by their depth in its body.
Mark == Body \X (0..Depth)

New == [status |-> "new", loops |-> <<>>, scopes |-> <<>>]

\* A try statement that is executed: where it is in the body, and the sizes of
\* the stacks that dotry remembers.
Handler == [at : 1..Depth, loops : Nat, scopes : Nat]

\* dest: the call has a destination for what is yielded or returned.
\* loops, scopes: the sizes of the stacks when the activation began.
\* tries: its activations of dotry, the innermost last.
Activation == [who : Body, dest : BOOLEAN, loops : Nat, scopes : Nat, tries : Seq(Handler)]

TypeOK == /\ calls \in Seq(Activation) /\ calls # <<>> /\ calls[1].who = Main
          /\ forStack \in Seq(Mark)
          /\ scopeStack \in Seq(Mark)
          /\ closure \in [Function -> [status : {"new", "running", "suspended"},
                                       loops : Seq(Mark), scopes : Seq(Mark)]]
          /\ held \in 0..Len(calls)
          /\ inside \in [Body -> Seq(Construct)]
          /\ \A f \in Body : Len(inside[f]) <= Depth

Init == /\ calls = <<[who |-> Main, dest |-> TRUE, loops |-> 0, scopes |-> 0,
                       tries |-> <<>>]>>
        /\ forStack = <<>>
        /\ scopeStack = <<<<Main, 0>>>>
        /\ closure = [f \in Function |-> New]
        /\ held = 0
        /\ inside = [f \in Body |-> <<>>]

-----------------------------------------------------------------------------
me == Last(calls)
self == me.who
Here == Len(inside[self])
Cut(s, n) == SubSeq(s, 1, n)
Above(s, n) == SubSeq(s, n + 1, Len(s))

Begin(c) == /\ Here < Depth
            /\ inside' = [inside EXCEPT ![self] = Append(@, c)]
End(c) == /\ Here > 0
          /\ Last(inside[self]) = c
          /\ inside' = [inside EXCEPT ![self] = Front(@)]

\* PUSHSCOPE and POPSCOPE of one scope.
OpenBlock == /\ Begin("block")
             /\ scopeStack' = Append(scopeStack, <<self, Here + 1>>)
             /\ UNCHANGED <<calls, forStack, closure, held>>
CloseBlock == /\ End("block")
              /\ scopeStack' = Front(scopeStack)
              /\ UNCHANGED <<calls, forStack, closure, held>>

\* A loop goes on the stack; the last NEXT takes off what is on top.
Foreach == /\ Begin("foreach")
           /\ forStack' = Append(forStack, <<self, Here + 1>>)
           /\ UNCHANGED <<calls, scopeStack, closure, held>>
LastElement == /\ End("foreach")
               /\ forStack # <<>>
               /\ forStack' = Front(forStack)
               /\ UNCHANGED <<calls, scopeStack, closure, held>>

Try == /\ Begin("try")
       /\ calls' = [calls EXCEPT ![Len(calls)].tries = Append(@,
                       [at |-> Here + 1, loops |-> Len(forStack), scopes |-> Len(scopeStack)])]
       /\ UNCHANGED <<forStack, scopeStack, closure, held>>
EndTry == /\ End("try")
          /\ me.tries # <<>>
          /\ calls' = [calls EXCEPT ![Len(calls)].tries = Front(@)]
          /\ UNCHANGED <<forStack, scopeStack, closure, held>>

-----------------------------------------------------------------------------
Acquire(f) == held' = IF f \in Methods THEN held + 1 ELSE held
Release(f) == held' = IF f \in Methods THEN held - 1 ELSE held

\* callFunction: the activation, the function's own scope and its monitor.
CallFunction(f, dest) ==
    /\ closure[f].status = "new"
    /\ calls' = Append(calls, [who |-> f, dest |-> dest, loops |-> Len(forStack),
                               scopes |-> Len(scopeStack), tries |-> <<>>])
    /\ scopeStack' = Append(scopeStack, <<f, 0>>)
    /\ closure' = [closure EXCEPT ![f].status = "running"]
    /\ Acquire(f)
    /\ UNCHANGED <<forStack, inside>>

\* Where in f's body the constructs of kind c are that f is in.
At(f, c) == {d \in DOMAIN inside[f] : inside[f][d] = c}

\* RET: the generator's POPSCOPE takes off as many loops as the return is in;
\* callFunction and execute put scopeSP back.
Return ==
    /\ self # Main
    /\ Cardinality(At(self, "foreach")) <= Len(forStack)
    /\ forStack' = Cut(forStack, Len(forStack) - Cardinality(At(self, "foreach")))
    /\ scopeStack' = Cut(scopeStack, me.scopes)
    /\ calls' = Front(calls)
    /\ closure' = [closure EXCEPT ![self] = New]
    /\ inside' = [inside EXCEPT ![self] = <<>>]
    /\ Release(self)

-----------------------------------------------------------------------------
\* save_state takes the loops off one by one, from the top.
save_state(loops, scopes) == [status |-> "suspended", loops |-> Reverse(loops),
                              scopes |-> scopes]

\* The exception on its way to callFunction passes the activations of dotry
\* of this call, whose catch (...) deletes the loops begun in them.
Unwound == IF me.tries = <<>> THEN forStack ELSE Cut(forStack, me.tries[1].loops)

Allowed == Gentle => At(self, "try") = {} /\ Cardinality(At(self, "foreach")) <= 1

Suspended == /\ self # Main
             /\ me.dest
             /\ Allowed
             /\ closure' = [closure EXCEPT ![self] =
                   save_state(Above(Unwound, me.loops), Above(scopeStack, me.scopes))]

\* Mutants: the monitor is kept over the yield; the loops stay on the stack.
Yield_KeepsMonitor ==
    /\ Suspended
    /\ forStack' = Cut(Unwound, me.loops)
    /\ scopeStack' = Cut(scopeStack, me.scopes)
    /\ calls' = Front(calls)
    /\ UNCHANGED <<held, inside>>
Yield_LeavesLoops ==
    /\ Suspended
    /\ forStack' = Unwound
    /\ scopeStack' = Cut(scopeStack, me.scopes)
    /\ calls' = Front(calls)
    /\ Release(self)
    /\ UNCHANGED inside

\* YIELD, and the catch of YieldValue in callFunction and invoke_coroutine.
Yield ==
    /\ Suspended
    /\ forStack' = Cut(Unwound, me.loops)
    /\ scopeStack' = Cut(scopeStack, me.scopes)
    /\ calls' = Front(calls)
    /\ Release(self)
    /\ UNCHANGED inside

\* A mutant: the monitor is not taken again.
Resume_WithoutMonitor(f) ==
    /\ closure[f].status = "suspended"
    /\ calls' = Append(calls, [who |-> f, dest |-> TRUE, loops |-> Len(forStack),
                               scopes |-> Len(scopeStack), tries |-> <<>>])
    /\ forStack' = forStack \o closure[f].loops
    /\ scopeStack' = scopeStack \o closure[f].scopes
    /\ closure' = [closure EXCEPT ![f] = [New EXCEPT !.status = "running"]]
    /\ UNCHANGED <<held, inside>>

\* invoke_coroutine with restore_state.  A closure is resumed once.
Resume(f) ==
    /\ closure[f].status = "suspended"
    /\ calls' = Append(calls, [who |-> f, dest |-> TRUE, loops |-> Len(forStack),
                               scopes |-> Len(scopeStack), tries |-> <<>>])
    /\ forStack' = forStack \o closure[f].loops
    /\ scopeStack' = scopeStack \o closure[f].scopes
    /\ closure' = [closure EXCEPT ![f] = [New EXCEPT !.status = "running"]]
    /\ Acquire(f)
    /\ UNCHANGED inside

-----------------------------------------------------------------------------
\* An exception raised by the activation number n goes to the innermost
\* handler that is left; the activations above it give back their monitors.
Unwind(n) == \E k \in 1..n :
    /\ calls[k].tries # <<>>
    /\ \A j \in k + 1 .. n : calls[j].tries = <<>>
    /\ LET h    == Last(calls[k].tries)
           gone == {calls[j].who : j \in k + 1 .. Len(calls)}
       IN  /\ forStack' = Cut(forStack, h.loops)
           /\ scopeStack' = Cut(scopeStack, h.scopes)
           /\ calls' = [Cut(calls, k) EXCEPT ![k].tries = Front(@)]
           /\ held' = held - Cardinality(gone \cap Methods)
           /\ closure' = [g \in Function |-> IF g \in gone THEN New ELSE closure[g]]
           /\ inside' = [g \in Body |-> IF g \in gone THEN <<>>
                                        ELSE IF g = calls[k].who THEN Cut(inside[g], h.at - 1)
                                        ELSE inside[g]]

Throw == Unwind(Len(calls))

\* A yield of a call without a destination is an exception of its caller.
YieldNowhere == self # Main /\ ~me.dest /\ Allowed /\ Unwind(Len(calls) - 1)

Next == \/ OpenBlock \/ CloseBlock \/ Foreach \/ LastElement \/ Try \/ EndTry
        \/ \E f \in Function : \/ \E dest \in BOOLEAN : CallFunction(f, dest)
                               \/ Resume(f)
        \/ Return \/ Yield \/ Throw \/ YieldNowhere

Spec == Init /\ [][Next]_vars

-----------------------------------------------------------------------------
\* The places of a stack from begin on that belong to the activation number n.
Places(n, stack, begin, next) == begin + 1 .. (IF n = Len(calls) THEN Len(stack) ELSE next)
LoopsOf(n) == Places(n, forStack, calls[n].loops, calls[n + 1].loops)
ScopesOf(n) == Places(n, scopeStack, calls[n].scopes + 1, calls[n + 1].scopes)

\* At the places I of a stack are f's constructs of kind c, outermost first.
Lists(stack, I, f, c) ==
    /\ \A i \in I : stack[i][1] = f /\ stack[i][2] \in At(f, c)
    /\ \A i, j \in I : i < j => stack[i][2] < stack[j][2]
    /\ \A d \in At(f, c) : \E i \in I : stack[i][2] = d

\* "You can yield any value from a function and then resume the function
\* just after the yield point": whatever was called, yielded, raised and
\* resumed in between, in whatever order, every activation has on the
\* machine's stacks exactly the loops, scopes and handlers its source says it
\* is in, outermost first.
ResumesJustAfter ==
    \A n \in DOMAIN calls :
        LET f == calls[n].who
            tries == [i \in DOMAIN calls[n].tries |-> <<f, calls[n].tries[i].at>>]
        IN  /\ Lists(forStack, LoopsOf(n), f, "foreach")
            /\ scopeStack[calls[n].scopes + 1] = <<f, 0>>
            /\ Lists(scopeStack, ScopesOf(n), f, "block")
            /\ Lists(tries, DOMAIN tries, f, "try")

\* The object's monitor is entered once for each of its methods that is
\* running, and never for one that is suspended, also when an exception
\* leaves several of them at once.
MonitorsFollow == held = Cardinality({n \in DOMAIN calls : calls[n].who \in Methods})

\* The stacks that are kept, and who holds the monitor.
MonitorInv == TypeOK /\ MonitorsFollow
=============================================================================
