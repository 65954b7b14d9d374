-------------------------- MODULE MCGrpcWorkerPool --------------------------
(***************************************************************************)
(* Instances of GrpcWorkerPool for TLC.                                    *)
(***************************************************************************)
EXTENDS GrpcWorkerPool, TLC

CONSTANTS t1, t2, t3, w1, w2, a1, a2, b1

\* a1 and b1 are successive incarnations of w1.
MCWorkerOf == [p \in Proxies |-> IF p = a2 THEN w2 ELSE w1]
MCKindSim == [t \in Tasks |-> "simulation"]
MCKindMixed == [t \in Tasks |-> IF t = t3 THEN "synthx_v73" ELSE "simulation"]
\* Without WORKER_CAPABILITIES every worker supports both kinds.
MCCapabilitiesDefault == [w \in WorkerIds |-> Kinds]

\* Anything ZooKeeper may hold, or both workers with w2 ready or draining.
MCAllSnapshots ==
    {s \in [up : SUBSET WorkerIds, drain : SUBSET WorkerIds] : s.drain \subseteq s.up}
MCBothSnapshots == {[up |-> WorkerIds, drain |-> d] : d \in SUBSET {w2}}

\* The pool is in service: what follows its stop is left to the other runs.
MCInService == ~stopping

\* Tasks of the same kind are interchangeable.
MCSymmetry == Permutations(Tasks)
MCSymmetry12 == Permutations({t1, t2})
=============================================================================
