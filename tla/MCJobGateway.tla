---------------------------- MODULE MCJobGateway ----------------------------
(***************************************************************************)
(* Instances of JobGateway for TLC.                                        *)
(***************************************************************************)
EXTENDS JobGateway, TLC

CONSTANTS j1, j2, j3

MCDeadline == [j \in Jobs |-> MaxTime]
MCNoBadSpec == {}
MCBadSpec == {j3}

\* Gateways are interchangeable, and so are jobs when none has a bad spec.
MCSymmetry == Permutations(Gateways)
MCJobSymmetry == Permutations(Jobs)
=============================================================================
