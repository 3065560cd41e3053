----------------------------- MODULE MCThreads -----------------------------
(* Small instances of Threads for TLC. *)
EXTENDS Threads, TLC

\* Creators, children and ids are interchangeable.
MCSymmetry == Permutations(Creator) \cup Permutations(Child) \cup Permutations(Id)
=============================================================================
