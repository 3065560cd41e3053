----------------------------- MODULE MCJobQueue -----------------------------
(* Small instances of JobQueue for TLC. *)
EXTENDS JobQueue, TLC

\* Producers are interchangeable, and so are consumers.
MCSymmetry == Permutations(Producer) \cup Permutations(Consumer)
=============================================================================
