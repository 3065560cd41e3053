----------------------------- MODULE ParserLock -----------------------------
(***************************************************************************)
(* The monitor that serialises the parser and the code generator, and the  *)
(* operations that bring source text into a running program: execute,      *)
(* loadFile, getExpression, executePreload of src/src/parser.cc, eval and  *)
(* loadStream of src/src/native.cc, delegate and the constructor of a      *)
(* virtual machine of src/src/interpret.cc.                                *)
(*                                                                         *)
(* Every one of them parses under the lock and then runs what it parsed,   *)
(* some without the lock, some with it.  The code that runs may use any of *)
(* them again, so a thread has a stack of operations.  The parser's        *)
(* current input, currentContext, is a chain of Context objects that live  *)
(* on the C++ stacks of the operations.                                    *)
(*                                                                         *)
(* Some paths keep a lock they took, give back one they do not have, or    *)
(* leave a Context that is gone: "spoilt" records them, and the properties *)
(* say that nothing else goes wrong.                                       *)
(***************************************************************************)
EXTENDS Integers, Sequences, FiniteSets

CONSTANTS Thread,    \* threads of the program
          Main,      \* the thread that joins the others
          Used,      \* the operations the program uses
          None,      \* owner = 0, currentContext = NULL
          Depth,     \* bound: operations nested in one thread
          Total,     \* bound: operations at a time
          TotalAfter, \* bound: the same once something is spoilt
          MaxEntry,  \* bound: entries of the lock, leaked ones included
          MaxSpoilt  \* bound: kinds of paths that spoil something

ASSUME MainAssumption == Main \in Thread
ASSUME NoneAssumption == None \notin Thread /\ None \notin Thread \X Nat
ASSUME BoundAssumption == {Depth, Total, TotalAfter, MaxEntry, MaxSpoilt} \subseteq Nat

VARIABLES owner,           \* parserLock: who has it ...
          n,               \* ... and how often
          ops,             \* ops[t]: the operations t is in, innermost last
          raising,         \* the threads in which an exception is on its way
          joining,         \* the threads main waits for
          currentContext,
          currentScope,    \* the operation whose scope is parsed in, or None
          spoilt           \* which paths have spoilt what

vars == <<owner, n, ops, raising, joining, currentContext, currentScope, spoilt>>

\*  execute     Aikido::execute            expression  getExpression (string)
\*  load        loadFile, readFile         preload     preload
\*  stream      loadStream                 run         executePreload
\*  eval        eval                       delegate    VirtualMachine::delegate
Op == {"execute", "load", "preload", "stream", "eval", "expression", "run", "delegate"}

ASSUME UsedAssumption == Used \subseteq Op

\*  open   about to acquire the lock       code   what was parsed runs
\*  parse  parses, with the lock           close  about to acquire it again
\*  vm     about to make a machine
Place == {"open", "parse", "vm", "code", "close"}

\* The Context of the operation that is the d-th of t.
Id(t, d) == <<t, d>>
Ids == Thread \X (1..Depth)

Operation == [op : Op, at : Place, previous : Ids \cup {None},
              oldscope : Ids \cup {None}]

TypeOK == /\ owner \in Thread \cup {None}
          /\ n \in 0..MaxEntry
          /\ owner = None <=> n = 0
          /\ ops \in [Thread -> Seq(Operation)]
          /\ \A t \in Thread : Len(ops[t]) <= Depth
          /\ raising \subseteq Thread
          /\ joining \subseteq Thread \ {Main}
          /\ currentContext \in Ids \cup {None}
          /\ currentScope \in Ids \cup {None}
          /\ spoilt \subseteq {"kept", "overreleased", "context", "unlocked"}

Init == /\ owner = None
        /\ n = 0
        /\ ops = [t \in Thread |-> <<>>]
        /\ raising = {}
        /\ joining = {}
        /\ currentContext = None
        /\ currentScope = None
        /\ spoilt = {}

-----------------------------------------------------------------------------
\* The lock is a Monitor; its operations are atomic here.

Free(t) == owner \in {None, t}

Acquire(t) == /\ Free(t)
              /\ n < MaxEntry
              /\ owner' = t
              /\ n' = n + 1

\* A mutant: the last release leaves the owner.
Release_KeepsOwner(t) == /\ owner = t
                         /\ n' = n - 1
                         /\ owner' = t

Release(t) == /\ owner = t
              /\ n' = n - 1
              /\ owner' = IF n = 1 THEN None ELSE t

\* acquire and release with nothing that can block between them.
Visit(t) == Free(t) /\ UNCHANGED <<owner, n>>

-----------------------------------------------------------------------------
\* The operations of a thread.

Top(t) == ops[t][Len(ops[t])]
Mine(t) == Id(t, Len(ops[t]))
Below(t) == SubSeq(ops[t], 1, Len(ops[t]) - 1)

\* t is in operation o, at l, and no exception is on its way.
In(t, o, l) == /\ ops[t] # <<>>
               /\ Top(t).op = o
               /\ Top(t).at = l
               /\ t \notin raising

\* The code of t's innermost operation, or its program, runs.
Runs(t) == /\ t \notin raising
           /\ ~(t = Main /\ joining # {})
           /\ ops[t] # <<>> => Top(t).at = "code"

GoTo(t, l) == ops' = [ops EXCEPT ![t][Len(ops[t])].at = l]

Return(t) == ops' = [ops EXCEPT ![t] = Below(t)] /\ raising' = raising \ {t}
Throw(t) == ops' = [ops EXCEPT ![t] = Below(t)] /\ raising' = raising \cup {t}

Spoil(what) == /\ spoilt' = spoilt \cup {what}
               /\ Cardinality(spoilt') <= MaxSpoilt

-----------------------------------------------------------------------------
Running == Cardinality({i \in Ids : Len(ops[i[1]]) >= i[2]})

\* The program, or code under an operation, begins another one.
Begin(t, o) ==
    /\ Runs(t)
    /\ Len(ops[t]) < Depth
    /\ Running < IF spoilt = {} THEN Total ELSE TotalAfter
    /\ ops[t] # <<>> => Top(t).op # "preload"
    /\ ops' = [ops EXCEPT ![t] = Append(@,
                  [op |-> o, at |-> "open", previous |-> None, oldscope |-> None])]
    /\ UNCHANGED <<owner, n, raising, joining, currentContext, currentScope, spoilt>>

\* A new Context before p, parsing in the operation's own scope.
Push(t, p, l) ==
    /\ ops' = [ops EXCEPT ![t][Len(ops[t])] =
                  [@ EXCEPT !.at = l, !.previous = p,
                            !.oldscope = IF Top(t).op \in {"execute", "expression"}
                                         THEN currentScope ELSE None]]
    /\ currentContext' = Mine(t)
    /\ currentScope' = Mine(t)

\* A mutant: eval leaves out the lock.
Open_EvalUnlocked(t) ==
    /\ \E o \in Op \ {"run", "delegate"} : In(t, o, "open")
    /\ IF Top(t).op = "eval" THEN UNCHANGED <<owner, n>> ELSE Acquire(t)
    /\ Push(t, IF Top(t).op \in {"eval", "expression"} THEN None
               ELSE currentContext, "parse")
    /\ UNCHANGED <<raising, joining, spoilt>>

\* The lock is taken and the parser set up.  eval and getExpression begin
\* a chain of Contexts of their own, the others put theirs before the current one.
Open(t) ==
    /\ \E o \in Op \ {"run", "delegate"} : In(t, o, "open")
    /\ Acquire(t)
    /\ Push(t, IF Top(t).op \in {"eval", "expression"} THEN None
               ELSE currentContext, "parse")
    /\ UNCHANGED <<raising, joining, spoilt>>

\* loadFile and preload find no file, with the new class in scope already.
FileMissing(t) ==
    /\ In(t, "load", "open") \/ In(t, "preload", "open")
    /\ Visit(t)
    /\ currentScope' = Mine(t)
    /\ Return(t)
    /\ UNCHANGED <<joining, currentContext, spoilt>>

\* executePreload takes the lock, sets the context aside and makes a machine.
OpenRun(t) ==
    /\ In(t, "run", "open")
    /\ Acquire(t)
    /\ ops' = [ops EXCEPT ![t][Len(ops[t])] =
                  [@ EXCEPT !.at = "code", !.previous = currentContext]]
    /\ currentContext' = None
    /\ UNCHANGED <<raising, joining, currentScope, spoilt>>

\* delegate links its Context under the lock, and gives the lock back.
OpenDelegate(t) ==
    /\ In(t, "delegate", "open")
    /\ Visit(t)
    /\ ops' = [ops EXCEPT ![t][Len(ops[t])] =
                  [@ EXCEPT !.at = "code", !.previous = currentContext]]
    /\ currentContext' = Mine(t)
    /\ UNCHANGED <<raising, joining, currentScope, spoilt>>

\* A mutant: execute forgets to pop the Context when the text is in error.
ParseFails_KeepsContext(t) ==
    /\ \E o \in Op : In(t, o, "parse")
    /\ Release(t)
    /\ UNCHANGED currentContext
    /\ IF Top(t).op \in {"execute", "load", "preload"} THEN UNCHANGED spoilt
                                                       ELSE Spoil("context")
    /\ IF Top(t).op \in {"execute", "expression"}
       THEN currentScope' = Top(t).oldscope
       ELSE UNCHANGED currentScope
    /\ Throw(t)
    /\ UNCHANGED joining

\* The text is in error, and an exception leaves the parser.  eval,
\* getExpression and loadStream leave currentContext as it is, although their
\* Context goes away with them.
ParseFails(t) ==
    /\ \E o \in Op : In(t, o, "parse")
    /\ Release(t)
    /\ IF Top(t).op \in {"execute", "load", "preload"}
       THEN currentContext' = Top(t).previous /\ UNCHANGED spoilt
       ELSE UNCHANGED currentContext /\ Spoil("context")
    /\ IF Top(t).op \in {"execute", "expression"}
       THEN currentScope' = Top(t).oldscope
       ELSE UNCHANGED currentScope
    /\ Throw(t)
    /\ UNCHANGED joining

\* A mutant: execute keeps the lock while it makes its machine and runs.
Parsed_KeepsLock(t) ==
    /\ \E o \in Op : In(t, o, "parse")
    /\ IF Top(t).op \in {"eval", "execute"} THEN UNCHANGED <<owner, n>> ELSE Release(t)
    /\ currentContext' = Top(t).previous
    /\ ops' = [ops EXCEPT ![t][Len(ops[t])] =
                  [@ EXCEPT !.previous = None,
                            !.at = IF Top(t).op \in {"execute", "load"} THEN "vm" ELSE "code"]]
    /\ UNCHANGED <<raising, joining, currentScope, spoilt>>

\* The text is parsed and the code generated.  eval alone keeps the lock.
Parsed(t) ==
    /\ \E o \in Op : In(t, o, "parse")
    /\ IF Top(t).op = "eval" THEN UNCHANGED <<owner, n>> ELSE Release(t)
    /\ currentContext' = Top(t).previous
    /\ ops' = [ops EXCEPT ![t][Len(ops[t])] =
                  [@ EXCEPT !.previous = None,
                            !.at = IF Top(t).op \in {"execute", "load"} THEN "vm" ELSE "code"]]
    /\ UNCHANGED <<raising, joining, currentScope, spoilt>>

\* execute finds that the errors were counted, not thrown: nothing runs.
NothingToRun(t) ==
    /\ In(t, "execute", "parse")
    /\ Release(t)
    /\ currentContext' = Top(t).previous
    /\ currentScope' = Top(t).oldscope
    /\ Return(t)
    /\ UNCHANGED <<joining, spoilt>>

\* The constructor of a machine takes the lock for a moment.
MakeMachine(t) ==
    /\ \E o \in {"execute", "load"} : In(t, o, "vm")
    /\ Visit(t)
    /\ GoTo(t, "code")
    /\ UNCHANGED <<raising, joining, currentContext, currentScope, spoilt>>

-----------------------------------------------------------------------------
\* The code of an operation ends.

\* loadFile and loadStream have nothing left to do, however it ended; preload
\* has no code to run.
EndLoad(t) ==
    /\ ops[t] # <<>> /\ Top(t).at = "code" /\ Top(t).op \in {"load", "preload", "stream"}
    /\ ~(t = Main /\ joining # {})
    /\ ops' = [ops EXCEPT ![t] = Below(t)]
    /\ UNCHANGED <<owner, n, raising, joining, currentContext, currentScope, spoilt>>

\* A mutant: eval gives the lock back only when its code ends normally.
EndEval_NotWhenRaising(t) ==
    /\ ops[t] # <<>> /\ Top(t).at = "code" /\ Top(t).op = "eval"
    /\ ~(t = Main /\ joining # {})
    /\ IF owner = t /\ t \notin raising
       THEN Release(t) /\ UNCHANGED raising
       ELSE UNCHANGED <<owner, n>> /\ raising' = raising \cup {t}
    /\ ops' = [ops EXCEPT ![t] = Below(t)]
    /\ UNCHANGED <<joining, currentContext, currentScope, spoilt>>

\* eval gives the lock back, however its code ended.
EndEval(t) ==
    /\ ops[t] # <<>> /\ Top(t).at = "code" /\ Top(t).op = "eval"
    /\ ~(t = Main /\ joining # {})
    /\ IF owner = t
       THEN Release(t) /\ UNCHANGED raising
       ELSE UNCHANGED <<owner, n>> /\ raising' = raising \cup {t}
    /\ ops' = [ops EXCEPT ![t] = Below(t)]
    /\ UNCHANGED <<joining, currentContext, currentScope, spoilt>>

\* executePreload puts the context back and keeps the lock on every path.
EndRun(t) ==
    /\ ops[t] # <<>> /\ Top(t).at = "code" /\ Top(t).op = "run"
    /\ ~(t = Main /\ joining # {})
    /\ currentContext' = Top(t).previous
    /\ ops' = [ops EXCEPT ![t] = Below(t)]
    /\ Spoil("kept")
    /\ UNCHANGED <<owner, n, raising, joining, currentScope>>

\* execute and getExpression take the lock and restore the scope.  When the
\* code of execute has thrown, execute throws on without giving the lock back.
CloseExecute(t) ==
    /\ ops[t] # <<>> /\ Top(t).at = "code" /\ Top(t).op = "execute"
    /\ ~(t = Main /\ joining # {})
    /\ IF t \in raising THEN Acquire(t) /\ Spoil("kept")
                        ELSE Visit(t) /\ UNCHANGED spoilt
    /\ currentScope' = Top(t).oldscope
    /\ ops' = [ops EXCEPT ![t] = Below(t)]
    /\ UNCHANGED <<raising, joining, currentContext>>

CloseExpression(t) ==
    /\ In(t, "expression", "code")
    /\ ~(t = Main /\ joining # {})
    /\ Visit(t)
    /\ currentScope' = Top(t).oldscope
    /\ ops' = [ops EXCEPT ![t] = Below(t)]
    /\ UNCHANGED <<raising, joining, currentContext, spoilt>>

\* When its code has thrown, getExpression restores the scope without the
\* lock, and gives back an entry it does not have: one of an eval around it,
\* or nobody's, in which case release throws.
FailExpression(t) ==
    /\ ops[t] # <<>> /\ Top(t).at = "code" /\ Top(t).op = "expression"
    /\ t \in raising
    /\ currentScope' = Top(t).oldscope
    /\ ops' = [ops EXCEPT ![t] = Below(t)]
    /\ IF owner = t
       THEN Release(t) /\ Spoil("overreleased")
       ELSE UNCHANGED <<owner, n>> /\ Spoil("unlocked")
    /\ UNCHANGED <<raising, joining, currentContext>>

\* delegate unlinks its Context under the lock, by making the one it found
\* current again.  When others have begun or ended meanwhile that may be gone.
CloseDelegate(t) ==
    /\ ops[t] # <<>> /\ Top(t).at = "code" /\ Top(t).op = "delegate"
    /\ ~(t = Main /\ joining # {})
    /\ Visit(t)
    /\ currentContext' = Top(t).previous
    /\ ops' = [ops EXCEPT ![t] = Below(t)]
    /\ IF currentContext = Mine(t) THEN UNCHANGED spoilt ELSE Spoil("context")
    /\ UNCHANGED <<raising, joining, currentScope>>

-----------------------------------------------------------------------------
\* The program.

\* Code throws ...
Raise(t) == /\ Runs(t)
            /\ ops[t] # <<>>
            /\ raising' = raising \cup {t}
            /\ UNCHANGED <<owner, n, ops, joining, currentContext, currentScope, spoilt>>

\* ... and code around an operation, or the program, catches.
Catch(t) == /\ t \in raising
            /\ ops[t] # <<>> => Top(t).at = "code"
            /\ raising' = raising \ {t}
            /\ UNCHANGED <<owner, n, ops, joining, currentContext, currentScope, spoilt>>

\* Main joins a thread.
Join(u) == /\ Runs(Main)
           /\ u # Main
           /\ joining' = {u}
           /\ UNCHANGED <<owner, n, ops, raising, currentContext, currentScope, spoilt>>

Joined == /\ joining # {}
          /\ \A u \in joining : ops[u] = <<>>
          /\ joining' = {}
          /\ UNCHANGED <<owner, n, ops, raising, currentContext, currentScope, spoilt>>

-----------------------------------------------------------------------------
\* An operation goes on, or comes to its end.
Advance(t) == \/ Open(t) \/ FileMissing(t) \/ OpenRun(t) \/ OpenDelegate(t)
              \/ Parsed(t) \/ NothingToRun(t) \/ ParseFails(t)
              \/ MakeMachine(t)
              \/ EndLoad(t) \/ EndEval(t) \/ EndRun(t)
              \/ CloseExecute(t) \/ CloseExpression(t) \/ FailExpression(t)
              \/ CloseDelegate(t)

Next == \/ \E t \in Thread : \/ \E o \in Used : Begin(t, o)
                             \/ Advance(t)
                             \/ Raise(t) \/ Catch(t)
        \/ \E u \in Thread : Join(u)
        \/ Joined

Spec == Init /\ [][Next]_vars

-----------------------------------------------------------------------------
\* How many entries of the lock an operation has.
Entries(f) == IF \/ f.at = "parse"
                 \/ f.at = "code" /\ f.op \in {"eval", "run"}
              THEN 1 ELSE 0

Holders(t) == {d \in 1..Len(ops[t]) : Entries(ops[t][d]) = 1}

Held(t) == IF owner = t THEN n ELSE 0

\* A thread has exactly the entries of the operations it is in, whatever exceptions
\* leave them: it has more of them only after executePreload, or an execute whose
\* code throws, has kept the lock, and fewer only after a getExpression whose code
\* throws has given back an entry that is not its own.
LockBalanced ==
    \A t \in Thread :
        /\ "kept" \notin spoilt => Held(t) <= Cardinality(Holders(t))
        /\ "overreleased" \notin spoilt => Cardinality(Holders(t)) <= Held(t)

\* The code of an operation runs as long as there is another one on top of it; only
\* text is parsed, and only who has set a Context aside remembers one.
OperationsNest ==
    \A t \in Thread : \A d \in 1..Len(ops[t]) :
        /\ d < Len(ops[t]) => ops[t][d].at = "code"
        /\ ops[t][d].at = "parse" => ops[t][d].op \notin {"run", "delegate"}
        /\ ops[t][d].previous # None =>
              \/ ops[t][d].at = "parse"
              \/ ops[t][d].at = "code" /\ ops[t][d].op \in {"run", "delegate"}

\* Code of main runs while it joins a thread.
MainJoins == joining # {} => Main \notin raising /\ (ops[Main] # <<>> => Top(Main).at = "code")

\* What is known of the lock and of the operations of every thread.
LockInv == TypeOK /\ OperationsNest /\ MainJoins /\ LockBalanced

\* The operations there are, and those whose Contexts are in the chain.
Present == {i \in Ids : Len(ops[i[1]]) >= i[2]}
At(i) == ops[i[1]][i[2]]
Linked == {i \in Present : At(i).at = "parse" \/ (At(i).op = "delegate" /\ At(i).at = "code")}

Parses(t) == ops[t] # <<>> /\ Top(t).at = "parse"

\* currentContext, and everything the chain of Contexts leads back to, exists, and
\* nothing is led back to twice, unless a text in error has left a Context behind or
\* delegates overlap.
ContextsExist ==
    "context" \notin spoilt =>
        /\ currentContext \in Linked \cup {None}
        /\ \A i \in Present : At(i).previous # None =>
              /\ At(i).previous \in Linked \ {currentContext}
              /\ \A j \in Present : At(j).previous = At(i).previous => i = j
              /\ \A t \in Thread : Parses(t) => At(i).previous # Mine(t)

\* Whoever parses has the lock, and parses its own text in its own scope, whatever
\* the other threads load, evaluate or execute.
ParsesItsOwn ==
    \A t \in Thread : Parses(t) =>
        /\ owner = t
        /\ spoilt \cap {"unlocked", "overreleased"} = {} =>
              currentContext = Mine(t) /\ currentScope = Mine(t)

\* What the lock is for: the parser's state is its holder's.
ParserInv == ContextsExist /\ ParsesItsOwn

WantsLock(t) == /\ ops[t] # <<>>
                /\ \/ Top(t).at \in {"open", "vm"}
                   \/ Top(t).at = "code" /\ Top(t).op \in {"execute", "delegate"}

\* A thread that joins another one has the lock only when it runs code of eval
\* or of a preload, or has been left with it: loading and executing text never
\* makes a join wait for a thread that waits for the lock.
JoinsWithoutLock ==
    joining # {} /\ owner = Main =>
        \/ "kept" \in spoilt
        \/ \E d \in 1..Len(ops[Main]) : ops[Main][d].op \in {"eval", "run"}
=============================================================================
