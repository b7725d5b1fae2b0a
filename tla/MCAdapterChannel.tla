-------------------------- MODULE MCAdapterChannel --------------------------
(* Two callers, and for the safety run two registers and two values: enough *)
(* for a torn request to differ from both of its halves and for a stale     *)
(* answer to differ from a fresh one.                                       *)
EXTENDS AdapterChannel, TLC

\* The callers are interchangeable.
Symmetry == Permutations(Threads)
=============================================================================
