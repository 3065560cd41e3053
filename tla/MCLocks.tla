------------------------------- MODULE MCLocks -------------------------------
\* Instances of ParserLock and ObjectMonitors for TLC.
EXTENDS ObjectMonitors

\* Variables, addresses and monitors are used alike; the threads are not, as
\* one of them joins the other.
VarSymmetry == Permutations(Var) \cup Permutations(Addr)
=============================================================================
