---------------------------- MODULE MCV73Worker ----------------------------
(***************************************************************************)
(* Instances of V73Worker for TLC.                                         *)
(***************************************************************************)
EXTENDS V73Worker, TLC

CONSTANTS c1, c2, p1, p2

\* The two calls belong to two processes.
MCProcOf == [c \in Calls |-> IF c = c2 THEN p2 ELSE p1]
MCSymmetry ==
    Permutations(Artifacts) \cup Permutations(Specs) \cup Permutations(Jobs)
=============================================================================
