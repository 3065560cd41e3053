------------------------------ MODULE MCCalls ------------------------------
(* A program for TLC: functions in functions, a class with a method that    *)
(* has a function of its own, and a class in a function that extends it.    *)
EXTENDS Calls

ProgramFunctions == {"f", "g", "m", "n", "own"}
ProgramClasses == {"A", "B", "K"}

\* function f () { function g () {...}  class B extends A { function own () } }
\* class A { function m () { function n () {...} }  class K {} }
ProgramParent == [f |-> "main", g |-> "f", A |-> "main", m |-> "A", n |-> "m",
                  K |-> "A", B |-> "f", own |-> "B"]
ProgramSuper == [A |-> "none", B |-> "A", K |-> "none"]
=============================================================================
