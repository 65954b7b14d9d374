---------------------------- MODULE MCMembership ----------------------------
(***************************************************************************)
(* An instance of Membership for TLC: two processes of one worker.         *)
(***************************************************************************)
EXTENDS Membership

CONSTANTS p1, p2

MCIdOf == [p \in Processes |-> CHOOSE i \in Ids : TRUE]
=============================================================================
