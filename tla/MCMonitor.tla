----------------------------- MODULE MCMonitor -----------------------------
(* Small instances of Monitor for TLC. *)
EXTENDS Monitor, TLC

\* The threads are interchangeable: nothing in Monitor names one.
MCSymmetry == Permutations(Thread)
=============================================================================
