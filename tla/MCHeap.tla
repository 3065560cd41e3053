------------------------------- MODULE MCHeap -------------------------------
(* Two threads and one shared variable.                                    *)
EXTENDS Heap

CONSTANTS t1, t2, shared
=============================================================================
