--------------------------- MODULE RolloutProofs ----------------------------
(***************************************************************************)
(* The safety properties of Rollout for any number of releases and         *)
(* requests, from an inductive invariant that adds what each stage of a    *)
(* rollout may rely on.                                                    *)
(***************************************************************************)
EXTENDS Rollout, TLAPS

\* No handler is counted, or about to be, at the gate of s.
Quiet(s) == \A r \in Requests : at[s][r] \notin {"checked", "inside"}

\* A gate that is closed and empty stays so until its marker is removed.
Sealed(s) == marker[s] # 0 /\ Quiet(s)

\* Which files and names a rollout has at each stage, and what it holds shut.
Stages ==
    /\ d.pc \in {"transact", "drain", "quiesce", "fenceG"} => d.mine = {}
    /\ d.pc \in (Draining \ {"transact"}) \cup Installing => txn
    /\ d.pc \in {"poll", "fenceW", "pollW"} => marker["gateway"] # 0
    /\ d.pc \in {"fenceW", "pollW"} => Quiet("gateway")
    /\ d.pc \in Installing => Sealed("gateway") /\ Sealed("worker")
    /\ d.pc \in {"pins", "record"} => \A s \in Services : run[s] = d.target
    /\ d.pc = "record" => pins = d.target
    /\ d.pc \in Draining \cup Reopening => Consistent

\* Markers are nobody's, the operator's or this rollout's own; the reopening
\* removes the last ones before it drops transaction.json.
Markers ==
    /\ d.pc # "idle" => d.rel # Operator
    /\ d.pc # "idle" => \A s \in Services :
           marker[s] \in {0, Operator} \/ (marker[s] = d.rel /\ s \in d.mine)
    /\ d.pc \in {"openG", "openB", "finish"} => marker["worker"] \in {0, Operator}
    /\ d.pc \in {"openB", "finish"} => marker["gateway"] \in {0, Operator}
    /\ d.pc = "finish" => ~backend
    /\ d.pc # "idle" /\ ~txn => d.mine = {}

\* The worker is fenced, and its marker handled, only behind a sealed gateway;
\* what is not as recorded is behind two sealed gates.
Order ==
    /\ marker["worker"] \notin {0, Operator} => Sealed("gateway")
    /\ "worker" \in d.mine /\ d.pc \notin {"idle", "openG", "openB", "finish"}
           => Sealed("gateway")
    /\ ~Consistent => Sealed("gateway") /\ Sealed("worker")
    /\ \A r \in Requests : at["gateway"][r] \in {"sent", "checked", "refused"}
           => at["worker"][r] = "none"

IInv ==
    /\ TypeOK /\ Stages /\ Markers /\ Order
    /\ InterruptionVisible /\ AcceptedWorkServed

-----------------------------------------------------------------------------
(* The rollout process's own record                                        *)

Rollouts == [pc : {"idle"} \cup Draining \cup Installing \cup Reopening,
             rel : Releases, prev : Releases, target : Releases,
             mine : SUBSET Services, owns : BOOLEAN]

\* A rollout that is over.
LEMMA RestFields ==
    AtRest \in Rollouts /\ AtRest.pc = "idle" /\ AtRest.mine = {}
BY RolloutAssumption DEF AtRest, Rollouts, Releases

\* The exception handler of Deployment.run goes to the reopening from a drain, to
\* the rollback from an installation, or ends; it keeps what the rollout owns.
LEMMA HandlerFields ==
    ASSUME d \in Rollouts, d.pc # "idle"
    PROVE  /\ Handler \in Rollouts
           /\ \/ (d.pc \in Draining /\ Handler.pc = "owners")
              \/ (d.pc \in Installing /\ Handler.pc = "stopG")
              \/ Handler.pc = "idle"
           /\ Handler.pc # "idle" => Handler.mine = d.mine /\ Handler.rel = d.rel
<1>1. CASE d.pc \in Draining
  <2>1. Handler = [d EXCEPT !.pc = "owners"]  BY <1>1 DEF Handler
  <2>2. Handler \in Rollouts  BY <2>1 DEF Rollouts, Reopening
  <2>3. Handler.pc = "owners" /\ Handler.mine = d.mine /\ Handler.rel = d.rel
    BY <2>1 DEF Rollouts
  <2> QED BY <1>1, <2>2, <2>3
<1>2. CASE d.pc \notin Draining /\ d.pc \in Installing /\ d.target # d.prev
  <2>1. Handler = [d EXCEPT !.pc = "stopG", !.target = d.prev]  BY <1>2 DEF Handler
  <2> QED BY <1>2, <2>1 DEF Rollouts, Installing
<1>3. CASE d.pc \notin Draining /\ ~(d.pc \in Installing /\ d.target # d.prev)
  BY <1>3, RestFields DEF Handler
<1> QED BY <1>1, <1>2, <1>3

LEMMA StageType ==
    Stage \in {"draining", "installing", "rollback", "reopening", "crash"}
BY DEF Stage

-----------------------------------------------------------------------------
(* One lemma per step                                                      *)

\* Begin: only with everything as recorded, and so with nothing closed.
LEMMA BeginStep ==
    ASSUME IInv, NEW rel \in Releases, Begin(rel)
    PROVE  IInv'
<1> USE RolloutAssumption DEF IInv, Operator
<1> USE DEF Begin, MayBegin, At, fileVars
<1>0. d \in Rollouts  BY DEF TypeOK, Rollouts
<1>a. /\ d' \in Rollouts /\ d'.pc = "transact"
      /\ d'.rel = rel /\ d'.mine = {} /\ d'.owns = FALSE
  BY <1>0 DEF TypeOK, Rollouts, AtRest, Releases, Draining
<1>b. rel # 1  BY DEF TypeOK, Releases
<1>1. TypeOK'
  BY <1>a, <1>b, <1>0 DEF TypeOK, Rollouts, Services, Releases
<1>2. Stages'
  BY <1>a, <1>b, <1>0 DEF TypeOK, Stages, Markers, Order, Sealed, Quiet, Consistent,
     Services, Releases, InterruptionVisible, Draining, Installing, Reopening
<1>3. Markers'
  BY <1>a, <1>b, <1>0 DEF TypeOK, Stages, Markers, Services, Releases,
     InterruptionVisible, Draining, Installing, Reopening
<1>4. Order'
  BY <1>a, <1>b, <1>0 DEF TypeOK, Stages, Markers, Order, Sealed, Quiet, Consistent,
     Services, Releases, InterruptionVisible, Draining, Installing, Reopening
<1>5. InterruptionVisible'
  BY <1>a, <1>b, <1>0 DEF TypeOK, Stages, Markers, Consistent, Services, Releases,
     InterruptionVisible, Draining, Installing, Reopening
<1>6. AcceptedWorkServed'
  BY <1>a, <1>b, <1>0 DEF TypeOK, Stages, Order, Sealed, Quiet, AcceptedWorkServed,
     Services, Draining, Installing, Reopening
<1> QED BY <1>1, <1>2, <1>3, <1>4, <1>5, <1>6

\* begin_transaction.
LEMMA TransactStep ==
    ASSUME IInv, BeginTransaction
    PROVE  IInv'
<1> USE RolloutAssumption DEF IInv, Operator
<1> USE DEF BeginTransaction, At, Goto
<1>0. d \in Rollouts  BY DEF TypeOK, Rollouts
<1>a. d' \in Rollouts /\ d'.pc \in {"drain", "owners"} /\ d'.rel = d.rel /\ d'.mine = d.mine
  BY <1>0 DEF Rollouts, Draining, Reopening
<1>1. TypeOK'
  BY <1>a, <1>0 DEF TypeOK, Rollouts, Services, Releases
<1>2. Stages'
  BY <1>a, <1>0 DEF TypeOK, Stages, Markers, Order, Sealed, Quiet, Consistent, Services,
     Releases, InterruptionVisible, Draining, Installing, Reopening
<1>3. Markers'
  BY <1>a, <1>0 DEF TypeOK, Stages, Markers, Services, Releases, InterruptionVisible,
     Draining, Installing, Reopening
<1>4. Order'
  BY <1>a, <1>0 DEF TypeOK, Stages, Markers, Order, Sealed, Quiet, Consistent, Services,
     Releases, InterruptionVisible, Draining, Installing, Reopening
<1>5. InterruptionVisible'
  BY <1>a, <1>0 DEF TypeOK, Stages, Markers, Consistent, Services, Releases,
     InterruptionVisible, Draining, Installing, Reopening
<1>6. AcceptedWorkServed'
  BY <1>a, <1>0 DEF TypeOK, Stages, Order, Sealed, Quiet, AcceptedWorkServed, Services,
     Draining, Installing, Reopening
<1> QED BY <1>1, <1>2, <1>3, <1>4, <1>5, <1>6

\* begin_drain and the wait for the backend.
LEMMA DrainStep ==
    ASSUME IInv, BeginDrain \/ BackendIdle
    PROVE  IInv'
<1> USE RolloutAssumption DEF IInv, Operator
<1> USE DEF BeginDrain, BackendIdle, At, Goto, fileVars, idleGates
<1>0. d \in Rollouts  BY DEF TypeOK, Rollouts
<1>a. /\ d' \in Rollouts /\ d'.pc \in {"quiesce", "fenceG"}
      /\ d'.rel = d.rel /\ d'.mine = d.mine
  BY <1>0 DEF Rollouts, Draining
<1>1. TypeOK'
  BY <1>a, <1>0 DEF TypeOK, Rollouts, Services, Releases
<1>2. Stages'
  BY <1>a, <1>0 DEF TypeOK, Stages, Markers, Order, Sealed, Quiet, Consistent, Services,
     Releases, InterruptionVisible, Draining, Installing, Reopening
<1>3. Markers'
  BY <1>a, <1>0 DEF TypeOK, Stages, Markers, Services, Releases, InterruptionVisible,
     Draining, Installing, Reopening
<1>4. Order'
  BY <1>a, <1>0 DEF TypeOK, Stages, Markers, Order, Sealed, Quiet, Consistent, Services,
     Releases, InterruptionVisible, Draining, Installing, Reopening
<1>5. InterruptionVisible'
  BY <1>a, <1>0 DEF TypeOK, Stages, Markers, Consistent, Services, Releases,
     InterruptionVisible, Draining, Installing, Reopening
<1>6. AcceptedWorkServed'
  BY <1>a, <1>0 DEF TypeOK, Stages, Order, Sealed, Quiet, AcceptedWorkServed, Services,
     Draining, Installing, Reopening
<1> QED BY <1>1, <1>2, <1>3, <1>4, <1>5, <1>6

\* The fence of the gateway.
LEMMA FenceGatewayStep ==
    ASSUME IInv, Fence("gateway", "fenceG", "poll")
    PROVE  IInv'
<1> USE RolloutAssumption DEF IInv, Operator
<1> USE DEF Fence, At, fileVars
<1>0. d \in Rollouts  BY DEF TypeOK, Rollouts
<1>a. /\ d' \in Rollouts /\ d'.pc \in {"poll", "owners"}
      /\ d'.rel = d.rel /\ d'.mine = d.mine \cup {"gateway"}
  <2>1. PICK pc \in {"poll", "owners"} :
           d' = [d EXCEPT !.pc = pc, !.mine = @ \cup {"gateway"}]
    OBVIOUS
  <2>2. d.mine \cup {"gateway"} \in SUBSET Services  BY <1>0 DEF Rollouts, Services
  <2>3. pc \in Draining \cup Reopening  BY DEF Draining, Reopening
  <2> QED BY <1>0, <2>1, <2>2, <2>3 DEF Rollouts
<1>b. /\ d'.pc = "poll" => marker["gateway"] = 0 /\ marker' = [marker EXCEPT !["gateway"] = d.rel]
      /\ d'.pc = "owners" => marker["gateway"] # 0 /\ marker' = marker
  BY <1>0 DEF Rollouts
<1>1. TypeOK'
  BY <1>a, <1>b, <1>0 DEF TypeOK, Rollouts, Services, Releases
<1>2. Stages'
  BY <1>a, <1>b, <1>0 DEF TypeOK, Stages, Markers, Order, Sealed, Quiet, Consistent,
     Services, Releases, InterruptionVisible, Draining, Installing, Reopening
<1>3. Markers'
  BY <1>a, <1>b, <1>0 DEF TypeOK, Stages, Markers, Services, Releases,
     InterruptionVisible, Draining, Installing, Reopening
<1>4. Order'
  BY <1>a, <1>b, <1>0 DEF TypeOK, Stages, Markers, Order, Sealed, Quiet, Consistent,
     Services, Releases, InterruptionVisible, Draining, Installing, Reopening
<1>5. InterruptionVisible'
  BY <1>a, <1>b, <1>0 DEF TypeOK, Stages, Markers, Consistent, Services, Releases,
     InterruptionVisible, Draining, Installing, Reopening
<1>6. AcceptedWorkServed'
  BY <1>a, <1>b, <1>0 DEF TypeOK, Stages, Order, Sealed, Quiet, AcceptedWorkServed,
     Services, Draining, Installing, Reopening
<1> QED BY <1>1, <1>2, <1>3, <1>4, <1>5, <1>6

\* The fence of the worker, behind a sealed gateway.
LEMMA FenceWorkerStep ==
    ASSUME IInv, Fence("worker", "fenceW", "pollW")
    PROVE  IInv'
<1> USE RolloutAssumption DEF IInv, Operator
<1> USE DEF Fence, At, fileVars
<1>0. d \in Rollouts  BY DEF TypeOK, Rollouts
<1>a. /\ d' \in Rollouts /\ d'.pc \in {"pollW", "owners"}
      /\ d'.rel = d.rel /\ d'.mine = d.mine \cup {"worker"}
  <2>1. PICK pc \in {"pollW", "owners"} :
           d' = [d EXCEPT !.pc = pc, !.mine = @ \cup {"worker"}]
    OBVIOUS
  <2>2. d.mine \cup {"worker"} \in SUBSET Services  BY <1>0 DEF Rollouts, Services
  <2>3. pc \in Draining \cup Reopening  BY DEF Draining, Reopening
  <2> QED BY <1>0, <2>1, <2>2, <2>3 DEF Rollouts
<1>b. /\ d'.pc = "pollW" => marker["worker"] = 0 /\ marker' = [marker EXCEPT !["worker"] = d.rel]
      /\ d'.pc = "owners" => marker["worker"] # 0 /\ marker' = marker
  BY <1>0 DEF Rollouts
<1>1. TypeOK'
  BY <1>a, <1>b, <1>0 DEF TypeOK, Rollouts, Services, Releases
<1>2. Stages'
  BY <1>a, <1>b, <1>0 DEF TypeOK, Stages, Markers, Order, Sealed, Quiet, Consistent,
     Services, Releases, InterruptionVisible, Draining, Installing, Reopening
<1>3. Markers'
  BY <1>a, <1>b, <1>0 DEF TypeOK, Stages, Markers, Services, Releases,
     InterruptionVisible, Draining, Installing, Reopening
<1>4. Order'
  BY <1>a, <1>b, <1>0 DEF TypeOK, Stages, Markers, Order, Sealed, Quiet, Consistent,
     Services, Releases, InterruptionVisible, Draining, Installing, Reopening
<1>5. InterruptionVisible'
  BY <1>a, <1>b, <1>0 DEF TypeOK, Stages, Markers, Consistent, Services, Releases,
     InterruptionVisible, Draining, Installing, Reopening
<1>6. AcceptedWorkServed'
  BY <1>a, <1>b, <1>0 DEF TypeOK, Stages, Order, Sealed, Quiet, AcceptedWorkServed,
     Services, Draining, Installing, Reopening
<1> QED BY <1>1, <1>2, <1>3, <1>4, <1>5, <1>6

\* wait_idle: an acknowledged gate is sealed.
LEMMA PollStep ==
    ASSUME IInv, PollGateway \/ PollWorker
    PROVE  IInv'
<1> USE RolloutAssumption DEF IInv, Operator
<1> USE DEF PollGateway, PollWorker, At, Goto, fileVars, idleGates
<1>0. d \in Rollouts  BY DEF TypeOK, Rollouts
<1>a. d' \in Rollouts /\ d'.rel = d.rel /\ d'.mine = d.mine
  BY <1>0 DEF Rollouts, Draining, Installing
<1>b. \A s \in Services : Acknowledged(s) => Sealed(s)
  BY DEF Acknowledged, GateFree, Inside, Sealed, Quiet, TypeOK, Markers, Releases
<1>c. /\ d.pc = "poll" => d'.pc \in {"fenceW", "pollW"} /\ Sealed("gateway")
      /\ d.pc = "pollW" => d'.pc = "poll" \/ (d'.pc = "stopG" /\ Sealed("worker"))
      /\ d.pc \in {"poll", "pollW"}
  BY <1>0, <1>b DEF Rollouts, Services
<1>1. TypeOK'
  BY <1>a, <1>c, <1>0 DEF TypeOK, Rollouts, Services, Releases
<1>2. Stages'
  BY <1>a, <1>c, <1>0 DEF TypeOK, Stages, Markers, Order, Sealed, Quiet, Consistent,
     Services, Releases, InterruptionVisible, Draining, Installing, Reopening
<1>3. Markers'
  BY <1>a, <1>c, <1>0 DEF TypeOK, Stages, Markers, Services, Releases,
     InterruptionVisible, Draining, Installing, Reopening
<1>4. Order'
  BY <1>a, <1>c, <1>0 DEF TypeOK, Stages, Markers, Order, Sealed, Quiet, Consistent,
     Services, Releases, InterruptionVisible, Draining, Installing, Reopening
<1>5. InterruptionVisible'
  BY <1>a, <1>c, <1>0 DEF TypeOK, Stages, Markers, Consistent, Services, Releases,
     InterruptionVisible, Draining, Installing, Reopening
<1>6. AcceptedWorkServed'
  BY <1>a, <1>c, <1>0 DEF TypeOK, Stages, Order, Sealed, Quiet, AcceptedWorkServed,
     Services, Draining, Installing, Reopening
<1> QED BY <1>1, <1>2, <1>3, <1>4, <1>5, <1>6

\* The gateway is stopped behind its seal.
LEMMA StopGatewayStep ==
    ASSUME IInv, StopContainer("gateway", "stopG", "stopW")
    PROVE  IInv'
<1> USE RolloutAssumption DEF IInv, Operator
<1> USE DEF StopContainer, At, Goto, fileVars
<1>0. d \in Rollouts  BY DEF TypeOK, Rollouts
<1>a. d' \in Rollouts /\ d'.pc = "stopW" /\ d'.rel = d.rel /\ d'.mine = d.mine
  BY <1>0 DEF Rollouts, Installing
<1>1. TypeOK'
  BY <1>a, <1>0 DEF TypeOK, Rollouts, Services, Releases
<1>2. Stages'
  BY <1>a, <1>0 DEF TypeOK, Stages, Markers, Order, Sealed, Quiet, Consistent, Services,
     Releases, InterruptionVisible, Draining, Installing, Reopening
<1>3. Markers'
  BY <1>a, <1>0 DEF TypeOK, Stages, Markers, Services, Releases, InterruptionVisible,
     Draining, Installing, Reopening
<1>4. Order'
  BY <1>a, <1>0 DEF TypeOK, Stages, Markers, Order, Sealed, Quiet, Consistent, Services,
     Releases, InterruptionVisible, Draining, Installing, Reopening
<1>5. InterruptionVisible'
  BY <1>a, <1>0 DEF TypeOK, Stages, Markers, Consistent, Services, Releases,
     InterruptionVisible, Draining, Installing, Reopening
<1>6. AcceptedWorkServed'
  BY <1>a, <1>0 DEF TypeOK, Stages, Order, Sealed, Quiet, AcceptedWorkServed, Services,
     Draining, Installing, Reopening
<1> QED BY <1>1, <1>2, <1>3, <1>4, <1>5, <1>6

\* The worker is stopped behind its seal.
LEMMA StopWorkerStep ==
    ASSUME IInv, StopContainer("worker", "stopW", "start")
    PROVE  IInv'
<1> USE RolloutAssumption DEF IInv, Operator
<1> USE DEF StopContainer, At, Goto, fileVars
<1>0. d \in Rollouts  BY DEF TypeOK, Rollouts
<1>a. d' \in Rollouts /\ d'.pc = "start" /\ d'.rel = d.rel /\ d'.mine = d.mine
  BY <1>0 DEF Rollouts, Installing
<1>1. TypeOK'
  BY <1>a, <1>0 DEF TypeOK, Rollouts, Services, Releases
<1>2. Stages'
  BY <1>a, <1>0 DEF TypeOK, Stages, Markers, Order, Sealed, Quiet, Consistent, Services,
     Releases, InterruptionVisible, Draining, Installing, Reopening
<1>3. Markers'
  BY <1>a, <1>0 DEF TypeOK, Stages, Markers, Services, Releases, InterruptionVisible,
     Draining, Installing, Reopening
<1>4. Order'
  BY <1>a, <1>0 DEF TypeOK, Stages, Markers, Order, Sealed, Quiet, Consistent, Services,
     Releases, InterruptionVisible, Draining, Installing, Reopening
<1>5. InterruptionVisible'
  BY <1>a, <1>0 DEF TypeOK, Stages, Markers, Consistent, Services, Releases,
     InterruptionVisible, Draining, Installing, Reopening
<1>6. AcceptedWorkServed'
  BY <1>a, <1>0 DEF TypeOK, Stages, Order, Sealed, Quiet, AcceptedWorkServed, Services,
     Draining, Installing, Reopening
<1> QED BY <1>1, <1>2, <1>3, <1>4, <1>5, <1>6

\* Both containers come up.
LEMMA StartStep ==
    ASSUME IInv, Start
    PROVE  IInv'
<1> USE RolloutAssumption DEF IInv, Operator
<1> USE DEF Start, At, Goto, fileVars, idleGates
<1>0. d \in Rollouts  BY DEF TypeOK, Rollouts
<1>a. d' \in Rollouts /\ d'.pc = "health" /\ d'.rel = d.rel /\ d'.mine = d.mine
  BY <1>0 DEF Rollouts, Installing
<1>1. TypeOK'
  BY <1>a, <1>0 DEF TypeOK, Rollouts, Services, Releases
<1>2. Stages'
  BY <1>a, <1>0 DEF TypeOK, Stages, Markers, Order, Sealed, Quiet, Consistent, Services,
     Releases, InterruptionVisible, Draining, Installing, Reopening
<1>3. Markers'
  BY <1>a, <1>0 DEF TypeOK, Stages, Markers, Services, Releases, InterruptionVisible,
     Draining, Installing, Reopening
<1>4. Order'
  BY <1>a, <1>0 DEF TypeOK, Stages, Markers, Order, Sealed, Quiet, Consistent, Services,
     Releases, InterruptionVisible, Draining, Installing, Reopening
<1>5. InterruptionVisible'
  BY <1>a, <1>0 DEF TypeOK, Stages, Markers, Consistent, Services, Releases,
     InterruptionVisible, Draining, Installing, Reopening
<1>6. AcceptedWorkServed'
  BY <1>a, <1>0 DEF TypeOK, Stages, Order, Sealed, Quiet, AcceptedWorkServed, Services,
     Draining, Installing, Reopening
<1> QED BY <1>1, <1>2, <1>3, <1>4, <1>5, <1>6

\* The health check.
LEMMA HealthyStep ==
    ASSUME IInv, Healthy
    PROVE  IInv'
<1> USE RolloutAssumption DEF IInv, Operator
<1> USE DEF Healthy, At, Goto, fileVars, idleGates
<1>0. d \in Rollouts  BY DEF TypeOK, Rollouts
<1>a. /\ d' \in Rollouts /\ d'.pc = "pins"
      /\ d'.rel = d.rel /\ d'.mine = d.mine /\ d'.target = d.target
  BY <1>0 DEF Rollouts, Installing
<1>1. TypeOK'
  BY <1>a, <1>0 DEF TypeOK, Rollouts, Services, Releases
<1>2. Stages'
  BY <1>a, <1>0 DEF TypeOK, Stages, Markers, Order, Sealed, Quiet, Consistent, Services,
     Releases, InterruptionVisible, Draining, Installing, Reopening
<1>3. Markers'
  BY <1>a, <1>0 DEF TypeOK, Stages, Markers, Services, Releases, InterruptionVisible,
     Draining, Installing, Reopening
<1>4. Order'
  BY <1>a, <1>0 DEF TypeOK, Stages, Markers, Order, Sealed, Quiet, Consistent, Services,
     Releases, InterruptionVisible, Draining, Installing, Reopening
<1>5. InterruptionVisible'
  BY <1>a, <1>0 DEF TypeOK, Stages, Markers, Consistent, Services, Releases,
     InterruptionVisible, Draining, Installing, Reopening
<1>6. AcceptedWorkServed'
  BY <1>a, <1>0 DEF TypeOK, Stages, Order, Sealed, Quiet, AcceptedWorkServed, Services,
     Draining, Installing, Reopening
<1> QED BY <1>1, <1>2, <1>3, <1>4, <1>5, <1>6

\* The shared pins.
LEMMA RecordPinsStep ==
    ASSUME IInv, RecordPins
    PROVE  IInv'
<1> USE RolloutAssumption DEF IInv, Operator
<1> USE DEF RecordPins, At, Goto, idleGates
<1>0. d \in Rollouts  BY DEF TypeOK, Rollouts
<1>a. /\ d' \in Rollouts /\ d'.pc = "record"
      /\ d'.rel = d.rel /\ d'.mine = d.mine /\ d'.target = d.target
  BY <1>0 DEF Rollouts, Installing
<1>1. TypeOK'
  BY <1>a, <1>0 DEF TypeOK, Rollouts, Services, Releases
<1>2. Stages'
  BY <1>a, <1>0 DEF TypeOK, Stages, Markers, Order, Sealed, Quiet, Consistent, Services,
     Releases, InterruptionVisible, Draining, Installing, Reopening
<1>3. Markers'
  BY <1>a, <1>0 DEF TypeOK, Stages, Markers, Services, Releases, InterruptionVisible,
     Draining, Installing, Reopening
<1>4. Order'
  BY <1>a, <1>0 DEF TypeOK, Stages, Markers, Order, Sealed, Quiet, Consistent, Services,
     Releases, InterruptionVisible, Draining, Installing, Reopening
<1>5. InterruptionVisible'
  BY <1>a, <1>0 DEF TypeOK, Stages, Markers, Consistent, Services, Releases,
     InterruptionVisible, Draining, Installing, Reopening
<1>6. AcceptedWorkServed'
  BY <1>a, <1>0 DEF TypeOK, Stages, Order, Sealed, Quiet, AcceptedWorkServed, Services,
     Draining, Installing, Reopening
<1> QED BY <1>1, <1>2, <1>3, <1>4, <1>5, <1>6

\* current.json: from here on everything is as recorded.
LEMMA RecordCurrentStep ==
    ASSUME IInv, RecordCurrent
    PROVE  IInv'
<1> USE RolloutAssumption DEF IInv, Operator
<1> USE DEF RecordCurrent, At, Goto
<1>0. d \in Rollouts  BY DEF TypeOK, Rollouts
<1>a. /\ d' \in Rollouts /\ d'.pc \in {"owners", "stopG", "idle"}
      /\ d'.pc # "idle" => d'.rel = d.rel /\ d'.mine = d.mine
  BY <1>0, HandlerFields, RestFields DEF Rollouts, Draining, Installing, Reopening
<1>b. trouble' \subseteq {"draining", "installing", "rollback", "reopening", "crash"}
                            \cup Services
  BY StageType DEF TypeOK
<1>1. TypeOK'
  BY <1>a, <1>b, <1>0 DEF TypeOK, Rollouts, Services, Releases
<1>2. Stages'
  BY <1>a, <1>b, <1>0 DEF TypeOK, Stages, Markers, Order, Sealed, Quiet, Consistent,
     Services, Releases, InterruptionVisible, Draining, Installing, Reopening
<1>3. Markers'
  BY <1>a, <1>b, <1>0 DEF TypeOK, Stages, Markers, Services, Releases,
     InterruptionVisible, Draining, Installing, Reopening
<1>4. Order'
  BY <1>a, <1>b, <1>0 DEF TypeOK, Stages, Markers, Order, Sealed, Quiet, Consistent,
     Services, Releases, InterruptionVisible, Draining, Installing, Reopening
<1>5. InterruptionVisible'
  BY <1>a, <1>b, <1>0 DEF TypeOK, Stages, Markers, Consistent, Services, Releases,
     InterruptionVisible, Draining, Installing, Reopening
<1>6. AcceptedWorkServed'
  BY <1>a, <1>b, <1>0 DEF TypeOK, Stages, Order, Sealed, Quiet, AcceptedWorkServed,
     Services, Draining, Installing, Reopening
<1> QED BY <1>1, <1>2, <1>3, <1>4, <1>5, <1>6

\* The owner check of end_drain.
LEMMA OwnersStep ==
    ASSUME IInv, CheckOwners
    PROVE  IInv'
<1> USE RolloutAssumption DEF IInv, Operator
<1> USE DEF CheckOwners, At, Goto, fileVars
<1>0. d \in Rollouts  BY DEF TypeOK, Rollouts
<1>a. /\ d' \in Rollouts /\ d'.pc \in {"openW", "idle"}
      /\ d'.pc # "idle" => d'.rel = d.rel /\ d'.mine = d.mine
  BY <1>0, HandlerFields, RestFields DEF Rollouts, Draining, Installing, Reopening
<1>b. trouble' \subseteq {"draining", "installing", "rollback", "reopening", "crash"}
                            \cup Services
  BY StageType DEF TypeOK
<1>1. TypeOK'
  BY <1>a, <1>b, <1>0 DEF TypeOK, Rollouts, Services, Releases
<1>2. Stages'
  BY <1>a, <1>b, <1>0 DEF TypeOK, Stages, Markers, Order, Sealed, Quiet, Consistent,
     Services, Releases, InterruptionVisible, Draining, Installing, Reopening
<1>3. Markers'
  BY <1>a, <1>b, <1>0 DEF TypeOK, Stages, Markers, Services, Releases,
     InterruptionVisible, Draining, Installing, Reopening
<1>4. Order'
  BY <1>a, <1>b, <1>0 DEF TypeOK, Stages, Markers, Order, Sealed, Quiet, Consistent,
     Services, Releases, InterruptionVisible, Draining, Installing, Reopening
<1>5. InterruptionVisible'
  BY <1>a, <1>b, <1>0 DEF TypeOK, Stages, Markers, Consistent, Services, Releases,
     InterruptionVisible, Draining, Installing, Reopening
<1>6. AcceptedWorkServed'
  BY <1>a, <1>b, <1>0 DEF TypeOK, Stages, Order, Sealed, Quiet, AcceptedWorkServed,
     Services, Draining, Installing, Reopening
<1> QED BY <1>1, <1>2, <1>3, <1>4, <1>5, <1>6

\* The worker is opened behind a sealed gateway.
LEMMA OpenWorkerStep ==
    ASSUME IInv, Open("worker", "openW", "openG")
    PROVE  IInv'
<1> USE RolloutAssumption DEF IInv, Operator
<1> USE DEF Open, At, Goto, fileVars, idleGates
<1>0. d \in Rollouts  BY DEF TypeOK, Rollouts
<1>a. d' \in Rollouts /\ d'.pc = "openG" /\ d'.rel = d.rel /\ d'.mine = d.mine
  BY <1>0 DEF Rollouts, Reopening
<1>1. TypeOK'
  BY <1>a, <1>0 DEF TypeOK, Rollouts, Services, Releases
<1>2. Stages'
  BY <1>a, <1>0 DEF TypeOK, Stages, Markers, Order, Sealed, Quiet, Consistent, Services,
     Releases, InterruptionVisible, Draining, Installing, Reopening
<1>3. Markers'
  BY <1>a, <1>0 DEF TypeOK, Stages, Markers, Services, Releases, InterruptionVisible,
     Draining, Installing, Reopening
<1>4. Order'
  BY <1>a, <1>0 DEF TypeOK, Stages, Markers, Order, Sealed, Quiet, Consistent, Services,
     Releases, InterruptionVisible, Draining, Installing, Reopening
<1>5. InterruptionVisible'
  BY <1>a, <1>0 DEF TypeOK, Stages, Markers, Consistent, Services, Releases,
     InterruptionVisible, Draining, Installing, Reopening
<1>6. AcceptedWorkServed'
  BY <1>a, <1>0 DEF TypeOK, Stages, Order, Sealed, Quiet, AcceptedWorkServed, Services,
     Draining, Installing, Reopening
<1> QED BY <1>1, <1>2, <1>3, <1>4, <1>5, <1>6

\* The gateway is opened when the worker is.
LEMMA OpenGatewayStep ==
    ASSUME IInv, Open("gateway", "openG", "openB")
    PROVE  IInv'
<1> USE RolloutAssumption DEF IInv, Operator
<1> USE DEF Open, At, Goto, fileVars, idleGates
<1>0. d \in Rollouts  BY DEF TypeOK, Rollouts
<1>a. d' \in Rollouts /\ d'.pc = "openB" /\ d'.rel = d.rel /\ d'.mine = d.mine
  BY <1>0 DEF Rollouts, Reopening
<1>1. TypeOK'
  BY <1>a, <1>0 DEF TypeOK, Rollouts, Services, Releases
<1>2. Stages'
  BY <1>a, <1>0 DEF TypeOK, Stages, Markers, Order, Sealed, Quiet, Consistent, Services,
     Releases, InterruptionVisible, Draining, Installing, Reopening
<1>3. Markers'
  BY <1>a, <1>0 DEF TypeOK, Stages, Markers, Services, Releases, InterruptionVisible,
     Draining, Installing, Reopening
<1>4. Order'
  BY <1>a, <1>0 DEF TypeOK, Stages, Markers, Order, Sealed, Quiet, Consistent, Services,
     Releases, InterruptionVisible, Draining, Installing, Reopening
<1>5. InterruptionVisible'
  BY <1>a, <1>0 DEF TypeOK, Stages, Markers, Consistent, Services, Releases,
     InterruptionVisible, Draining, Installing, Reopening
<1>6. AcceptedWorkServed'
  BY <1>a, <1>0 DEF TypeOK, Stages, Order, Sealed, Quiet, AcceptedWorkServed, Services,
     Draining, Installing, Reopening
<1> QED BY <1>1, <1>2, <1>3, <1>4, <1>5, <1>6

\* The backend is opened last.
LEMMA OpenBackendStep ==
    ASSUME IInv, OpenBackend
    PROVE  IInv'
<1> USE RolloutAssumption DEF IInv, Operator
<1> USE DEF OpenBackend, At, Goto, fileVars, idleGates
<1>0. d \in Rollouts  BY DEF TypeOK, Rollouts
<1>a. /\ d' \in Rollouts /\ d'.pc \in {"finish", "idle"}
      /\ d'.pc # "idle" => d'.rel = d.rel /\ d'.mine = d.mine
  BY <1>0, RestFields DEF Rollouts, Reopening
<1>1. TypeOK'
  BY <1>a, <1>0 DEF TypeOK, Rollouts, Services, Releases
<1>2. Stages'
  BY <1>a, <1>0 DEF TypeOK, Stages, Markers, Order, Sealed, Quiet, Consistent, Services,
     Releases, InterruptionVisible, Draining, Installing, Reopening
<1>3. Markers'
  BY <1>a, <1>0 DEF TypeOK, Stages, Markers, Services, Releases, InterruptionVisible,
     Draining, Installing, Reopening
<1>4. Order'
  BY <1>a, <1>0 DEF TypeOK, Stages, Markers, Order, Sealed, Quiet, Consistent, Services,
     Releases, InterruptionVisible, Draining, Installing, Reopening
<1>5. InterruptionVisible'
  BY <1>a, <1>0 DEF TypeOK, Stages, Markers, Consistent, Services, Releases,
     InterruptionVisible, Draining, Installing, Reopening
<1>6. AcceptedWorkServed'
  BY <1>a, <1>0 DEF TypeOK, Stages, Order, Sealed, Quiet, AcceptedWorkServed, Services,
     Draining, Installing, Reopening
<1> QED BY <1>1, <1>2, <1>3, <1>4, <1>5, <1>6

\* transaction.json goes when everything is open.
LEMMA FinishStep ==
    ASSUME IInv, Finish
    PROVE  IInv'
<1> USE RolloutAssumption DEF IInv, Operator
<1> USE DEF Finish, At, idleGates
<1>0. d \in Rollouts  BY DEF TypeOK, Rollouts
<1>a. d' \in Rollouts /\ d'.pc = "idle" /\ d'.mine = {}
  BY RestFields
<1>1. TypeOK'
  BY <1>a, <1>0 DEF TypeOK, Rollouts, Services, Releases
<1>2. Stages'
  BY <1>a, <1>0 DEF TypeOK, Stages, Markers, Order, Sealed, Quiet, Consistent, Services,
     Releases, InterruptionVisible, Draining, Installing, Reopening
<1>3. Markers'
  BY <1>a, <1>0 DEF TypeOK, Stages, Markers, Services, Releases, InterruptionVisible,
     Draining, Installing, Reopening
<1>4. Order'
  BY <1>a, <1>0 DEF TypeOK, Stages, Markers, Order, Sealed, Quiet, Consistent, Services,
     Releases, InterruptionVisible, Draining, Installing, Reopening
<1>5. InterruptionVisible'
  BY <1>a, <1>0 DEF TypeOK, Stages, Markers, Consistent, Services, Releases,
     InterruptionVisible, Draining, Installing, Reopening
<1>6. AcceptedWorkServed'
  BY <1>a, <1>0 DEF TypeOK, Stages, Order, Sealed, Quiet, AcceptedWorkServed, Services,
     Draining, Installing, Reopening
<1> QED BY <1>1, <1>2, <1>3, <1>4, <1>5, <1>6

\* An exception anywhere.
LEMMA FailStep ==
    ASSUME IInv, Fail
    PROVE  IInv'
<1> USE RolloutAssumption DEF IInv, Operator
<1> USE DEF Fail, At, fileVars
<1>0. d \in Rollouts  BY DEF TypeOK, Rollouts
<1>a. /\ d' \in Rollouts
      /\ \/ (d.pc \in Draining /\ d'.pc = "owners")
         \/ (d.pc \in Installing /\ d'.pc = "stopG")
         \/ d'.pc = "idle"
      /\ d'.pc # "idle" => d'.rel = d.rel /\ d'.mine = d.mine
  BY <1>0, HandlerFields
<1>b. trouble' \subseteq {"draining", "installing", "rollback", "reopening", "crash"}
                            \cup Services
  BY StageType DEF TypeOK
<1>1. TypeOK'
  BY <1>a, <1>b, <1>0 DEF TypeOK, Rollouts, Services, Releases
<1>2. Stages'
  BY <1>a, <1>b, <1>0 DEF TypeOK, Stages, Markers, Order, Sealed, Quiet, Consistent,
     Services, Releases, InterruptionVisible, Draining, Installing, Reopening
<1>3. Markers'
  BY <1>a, <1>b, <1>0 DEF TypeOK, Stages, Markers, Services, Releases,
     InterruptionVisible, Draining, Installing, Reopening
<1>4. Order'
  BY <1>a, <1>b, <1>0 DEF TypeOK, Stages, Markers, Order, Sealed, Quiet, Consistent,
     Services, Releases, InterruptionVisible, Draining, Installing, Reopening
<1>5. InterruptionVisible'
  BY <1>a, <1>b, <1>0 DEF TypeOK, Stages, Markers, Consistent, Services, Releases,
     InterruptionVisible, Draining, Installing, Reopening
<1>6. AcceptedWorkServed'
  BY <1>a, <1>b, <1>0 DEF TypeOK, Stages, Order, Sealed, Quiet, AcceptedWorkServed,
     Services, Draining, Installing, Reopening
<1> QED BY <1>1, <1>2, <1>3, <1>4, <1>5, <1>6

\* Compose fails half way.
LEMMA StartFailsStep ==
    ASSUME IInv, StartFails
    PROVE  IInv'
<1> USE RolloutAssumption DEF IInv, Operator
<1> USE DEF StartFails, At, fileVars
<1>0. d \in Rollouts  BY DEF TypeOK, Rollouts
<1>a. /\ d' \in Rollouts
      /\ \/ (d.pc \in Draining /\ d'.pc = "owners")
         \/ (d.pc \in Installing /\ d'.pc = "stopG")
         \/ d'.pc = "idle"
      /\ d'.pc # "idle" => d'.rel = d.rel /\ d'.mine = d.mine
  BY <1>0, HandlerFields
<1>b. trouble' \subseteq {"draining", "installing", "rollback", "reopening", "crash"}
                            \cup Services
  BY StageType DEF TypeOK
<1>1. TypeOK'
  BY <1>a, <1>b, <1>0 DEF TypeOK, Rollouts, Services, Releases
<1>2. Stages'
  BY <1>a, <1>b, <1>0 DEF TypeOK, Stages, Markers, Order, Sealed, Quiet, Consistent,
     Services, Releases, InterruptionVisible, Draining, Installing, Reopening
<1>3. Markers'
  BY <1>a, <1>b, <1>0 DEF TypeOK, Stages, Markers, Services, Releases,
     InterruptionVisible, Draining, Installing, Reopening
<1>4. Order'
  BY <1>a, <1>b, <1>0 DEF TypeOK, Stages, Markers, Order, Sealed, Quiet, Consistent,
     Services, Releases, InterruptionVisible, Draining, Installing, Reopening
<1>5. InterruptionVisible'
  BY <1>a, <1>b, <1>0 DEF TypeOK, Stages, Markers, Consistent, Services, Releases,
     InterruptionVisible, Draining, Installing, Reopening
<1>6. AcceptedWorkServed'
  BY <1>a, <1>b, <1>0 DEF TypeOK, Stages, Order, Sealed, Quiet, AcceptedWorkServed,
     Services, Draining, Installing, Reopening
<1> QED BY <1>1, <1>2, <1>3, <1>4, <1>5, <1>6

\* The rollout is killed.
LEMMA CrashStep ==
    ASSUME IInv, Crash
    PROVE  IInv'
<1> USE RolloutAssumption DEF IInv, Operator
<1> USE DEF Crash, At, fileVars
<1>0. d \in Rollouts  BY DEF TypeOK, Rollouts
<1>a. d' \in Rollouts /\ d'.pc = "idle" /\ d'.mine = {}
  BY RestFields
<1>1. TypeOK'
  BY <1>a, <1>0 DEF TypeOK, Rollouts, Services, Releases
<1>2. Stages'
  BY <1>a, <1>0 DEF TypeOK, Stages, Markers, Order, Sealed, Quiet, Consistent, Services,
     Releases, InterruptionVisible, Draining, Installing, Reopening
<1>3. Markers'
  BY <1>a, <1>0 DEF TypeOK, Stages, Markers, Services, Releases, InterruptionVisible,
     Draining, Installing, Reopening
<1>4. Order'
  BY <1>a, <1>0 DEF TypeOK, Stages, Markers, Order, Sealed, Quiet, Consistent, Services,
     Releases, InterruptionVisible, Draining, Installing, Reopening
<1>5. InterruptionVisible'
  BY <1>a, <1>0 DEF TypeOK, Stages, Markers, Consistent, Services, Releases,
     InterruptionVisible, Draining, Installing, Reopening
<1>6. AcceptedWorkServed'
  BY <1>a, <1>0 DEF TypeOK, Stages, Order, Sealed, Quiet, AcceptedWorkServed, Services,
     Draining, Installing, Reopening
<1> QED BY <1>1, <1>2, <1>3, <1>4, <1>5, <1>6

\* The operator closes a service.
LEMMA OperatorStep ==
    ASSUME IInv, NEW s \in Services, OperatorFence(s)
    PROVE  IInv'
<1> USE RolloutAssumption DEF IInv, Operator
<1> USE DEF OperatorFence, fileVars, idleGates
<1>0. d \in Rollouts  BY DEF TypeOK, Rollouts
<1>1. TypeOK'
  BY <1>0 DEF TypeOK, Rollouts, Services, Releases
<1>2. Stages'
  BY <1>0 DEF TypeOK, Stages, Markers, Order, Sealed, Quiet, Consistent, Services,
     Releases, InterruptionVisible, Draining, Installing, Reopening
<1>3. Markers'
  BY <1>0 DEF TypeOK, Stages, Markers, Services, Releases, InterruptionVisible, Draining,
     Installing, Reopening
<1>4. Order'
  BY <1>0 DEF TypeOK, Stages, Markers, Order, Sealed, Quiet, Consistent, Services,
     Releases, InterruptionVisible, Draining, Installing, Reopening
<1>5. InterruptionVisible'
  BY <1>0 DEF TypeOK, Stages, Markers, Consistent, Services, Releases,
     InterruptionVisible, Draining, Installing, Reopening
<1>6. AcceptedWorkServed'
  BY <1>0 DEF TypeOK, Stages, Order, Sealed, Quiet, AcceptedWorkServed, Services,
     Draining, Installing, Reopening
<1> QED BY <1>1, <1>2, <1>3, <1>4, <1>5, <1>6

\* Where a request can be at a gate.
Places == {"none", "sent", "checked", "inside", "left", "refused"}

\* The handlers at the gates: a sealed gate lets nobody in, and a request is at
\* the worker only once the gateway has let it in.
LEMMA GatesStep ==
    ASSUME IInv, GateStep
    PROVE  IInv'
<1> USE DEF IInv, gateOnly, fileVars, Move
<1>1. PICK r \in Requests :
         Call(r) \/ \E s \in Services : Check(s, r) \/ Count(s, r) \/ Leave(s, r)
  BY DEF GateStep
<1>2. PICK s \in Services, to \in {"sent", "checked", "inside", "left", "refused"} :
        /\ at' = [at EXCEPT ![s][r] = to]
        /\ UNCHANGED gateOnly
        /\ \/ Call(r) /\ s = "worker" /\ to = "sent"
           \/ Check(s, r) /\ to \in {"checked", "refused"}
           \/ Count(s, r) /\ to = "inside"
           \/ Leave(s, r) /\ to = "left"
  <2>1. CASE Call(r)  BY <2>1 DEF Call, Services
  <2>2. CASE \E s \in Services : Check(s, r)
    <3>1. PICK s \in Services : Check(s, r)  BY <2>2
    <3>2. CASE run[s] # 0 /\ marker[s] = 0
      <4>1. at' = [at EXCEPT ![s][r] = "checked"]  BY <3>1, <3>2 DEF Check
      <4> QED BY <3>1, <4>1 DEF Check
    <3>3. CASE ~(run[s] # 0 /\ marker[s] = 0)
      <4>1. at' = [at EXCEPT ![s][r] = "refused"]  BY <3>1, <3>3 DEF Check
      <4> QED BY <3>1, <4>1 DEF Check
    <3> QED BY <3>2, <3>3
  <2>3. CASE \E s \in Services : Count(s, r)  BY <2>3 DEF Count
  <2>4. CASE \E s \in Services : Leave(s, r)  BY <2>4 DEF Leave
  <2> QED BY <1>1, <2>1, <2>2, <2>3, <2>4
<1>3. at \in [Services -> [Requests -> Places]]
  BY DEF TypeOK, Places
<1>4. \A x \in Services, q \in Requests : at'[x][q] = IF x = s /\ q = r THEN to ELSE at[x][q]
  BY <1>2, <1>3
<1>5. at' \in [Services -> [Requests -> Places]]
  BY <1>2, <1>3 DEF Places
<1>6. /\ to = "sent" => s = "worker" /\ at["gateway"][r] = "inside" /\ at[s][r] = "none"
      /\ to = "checked" => at[s][r] = "sent" /\ marker[s] = 0
      /\ to = "refused" => at[s][r] = "sent" /\ (marker[s] # 0 \/ run[s] = 0)
      /\ to = "inside" => at[s][r] = "checked"
      /\ to = "left" => at[s][r] = "inside"
  <2>1. CASE Call(r) /\ s = "worker" /\ to = "sent"  BY <2>1 DEF Call
  <2>2. CASE Check(s, r) /\ to \in {"checked", "refused"}
    <3>1. at'[s][r] = IF run[s] # 0 /\ marker[s] = 0 THEN "checked" ELSE "refused"
      BY <2>2, <1>3 DEF Check
    <3> QED BY <2>2, <3>1, <1>4 DEF Check
  <2>3. CASE Count(s, r) /\ to = "inside"  BY <2>3 DEF Count
  <2>4. CASE Leave(s, r) /\ to = "left"  BY <2>4 DEF Leave
  <2> QED BY <1>2, <2>1, <2>2, <2>3, <2>4
<1>7. \A x \in Services : Sealed(x) => Sealed(x)'
  BY <1>2, <1>4, <1>6 DEF Sealed, Quiet
<1>8. "gateway" \in Services /\ "worker" \in Services  BY DEF Services
<1>9. TypeOK'  BY <1>2, <1>5 DEF TypeOK, Places
<1>10. Stages'
  <2>1. Consistent' = Consistent  BY <1>2 DEF Consistent
  <2>2. d.pc \in {"fenceW", "pollW"} => Quiet("gateway")'
    BY <1>7, <1>8 DEF Stages, Sealed
  <2> QED BY <1>2, <1>7, <1>8, <2>1, <2>2 DEF Stages
<1>11. Markers'  BY <1>2 DEF Markers
<1>12. Order'
  <2>1. Consistent' = Consistent  BY <1>2 DEF Consistent
  <2>2. \A q \in Requests : at'["gateway"][q] \in {"sent", "checked", "refused"}
            => at'["worker"][q] = "none"
    BY <1>4, <1>6, <1>8 DEF Order
  <2> QED BY <1>2, <1>7, <1>8, <2>1, <2>2 DEF Order
<1>13. InterruptionVisible'  BY <1>2 DEF InterruptionVisible, Consistent
<1>14. AcceptedWorkServed'
  <2> SUFFICES ASSUME NEW q \in Requests, at'["gateway"][q] = "inside",
                      at'["worker"][q] = "refused"
               PROVE  marker'["worker"] = Operator
    BY DEF AcceptedWorkServed
  <2>1. CASE at["gateway"][q] = "inside" /\ at["worker"][q] = "refused"
    BY <2>1, <1>2 DEF AcceptedWorkServed
  <2>2. CASE at["gateway"][q] # "inside"
    \* The gateway has just let it in: it was not at the worker before.
    BY <2>2, <1>4, <1>6, <1>8 DEF Order
  <2>3. CASE at["gateway"][q] = "inside" /\ at["worker"][q] # "refused"
    \* The worker has just refused it: then it is fenced, and not by a rollout.
    <3>1. marker["worker"] # 0 \/ run["worker"] = 0  BY <2>3, <1>4, <1>6, <1>8
    <3>2. ~Sealed("gateway")  BY <2>3 DEF Sealed, Quiet
    <3>3. run["worker"] # 0
      BY <3>2, <1>8, RolloutAssumption DEF Order, Consistent, TypeOK, Releases
    <3> QED BY <3>1, <3>2, <3>3, <1>2 DEF Order
  <2> QED BY <2>1, <2>2, <2>3
<1> QED BY <1>9, <1>10, <1>11, <1>12, <1>13, <1>14

-----------------------------------------------------------------------------
(* The theorems                                                            *)

LEMMA InitIInv == Init => IInv
<1> USE RolloutAssumption DEF Init, Operator
<1>1. Init => TypeOK
  <2> SUFFICES ASSUME Init PROVE TypeOK  OBVIOUS
  <2>1. d \in Rollouts  BY RestFields
  <2>2. at \in [Services -> [Requests -> Places]]
    BY DEF Places
  <2>3. current \in Releases /\ pins \in Releases  BY DEF Releases
  <2>4. /\ /\ run \in [Services -> 0 .. LastRelease]
        /\ marker \in [Services -> 0 .. LastRelease]
        /\ trouble = {}
    OBVIOUS
  <2>5. txn \in BOOLEAN /\ backend \in BOOLEAN  OBVIOUS
  <2> HIDE DEF Init
  <2> QED BY <2>1, <2>2, <2>3, <2>4, <2>5 DEF TypeOK, Rollouts, Places
<1>2. Init => Consistent  BY DEF Consistent, Services
<1> QED
  BY <1>1, <1>2, RestFields DEF IInv, Stages, Markers, Order, InterruptionVisible,
     AcceptedWorkServed, Services, Draining, Installing, Reopening

LEMMA NextIInv == IInv /\ [Next]_vars => IInv'
<1> SUFFICES ASSUME IInv, [Next]_vars PROVE IInv'  OBVIOUS
<1>1. CASE GateStep  BY <1>1, GatesStep
<1>2. CASE \E rel \in Releases : Begin(rel)  BY <1>2, BeginStep
<1>3. CASE RolloutStep
  BY <1>3, TransactStep, DrainStep, FenceGatewayStep, FenceWorkerStep, PollStep,
     StopGatewayStep, StopWorkerStep, StartStep, HealthyStep, RecordPinsStep,
     RecordCurrentStep, OwnersStep, OpenWorkerStep, OpenGatewayStep, OpenBackendStep,
     FinishStep DEF RolloutStep
<1>4. CASE Fail \/ StartFails \/ Crash  BY <1>4, FailStep, StartFailsStep, CrashStep
<1>5. CASE \E s \in Services : OperatorFence(s)  BY <1>5, OperatorStep
<1>6. CASE UNCHANGED vars
  BY <1>6 DEF vars, IInv, TypeOK, Stages, Markers, Order, Sealed, Quiet, Consistent,
     InterruptionVisible, AcceptedWorkServed
<1> QED BY <1>1, <1>2, <1>3, <1>4, <1>5, <1>6 DEF Next

\* The invariant with what every stage of a rollout may rely on is inductive.
THEOREM InvariantHolds == Spec => []IInv
<1>1. Init => IInv  BY InitIInv
<1>2. IInv /\ [Next]_vars => IInv'  BY NextIInv
<1> QED BY <1>1, <1>2, PTL DEF Spec

\* Every variable keeps its type: current.json, the pins and the markers always
\* name a release.
THEOREM TypesHold == Spec => []TypeOK
<1>1. IInv => TypeOK  BY DEF IInv
<1> QED BY <1>1, InvariantHolds, PTL

\* A rollout that was interrupted or killed is told by transaction.json, or has
\* left nothing behind.
THEOREM InterruptionsAreVisible == Spec => []InterruptionVisible
<1>1. IInv => InterruptionVisible  BY DEF IInv
<1> QED BY <1>1, InvariantHolds, PTL

\* A service is open only with both containers on the recorded release, through
\* every failure, rollback, kill and operator.
THEOREM OpenMeansConsistent == Spec => []OpenOnlyConsistent
<1>1. IInv => OpenOnlyConsistent
  BY DEF IInv, Order, Sealed, OpenOnlyConsistent, Services
<1> QED BY <1>1, InvariantHolds, PTL

\* The drain order serves what the gateway accepted.
THEOREM AcceptedWorkIsServed == Spec => []AcceptedWorkServed
<1>1. IInv => AcceptedWorkServed  BY DEF IInv
<1> QED BY <1>1, InvariantHolds, PTL

\* No rollout step stops a container that is handling a request.
THEOREM NoWorkIsKilled == Spec => NoWorkKilled
<1> DEFINE Idle == \A s \in Services :
                     run'[s] = 0 => run[s] = 0 \/ (Inside(s) = {} /\ GateFree(s))
<1>1. IInv /\ [Next]_vars => [Idle]_vars
  <2> SUFFICES ASSUME IInv, [Next]_vars, NEW s \in Services, run'[s] = 0, run[s] # 0
               PROVE  Inside(s) = {} /\ GateFree(s)
    OBVIOUS
  <2>1. d.pc \in Installing
    <3>1. run' # run  OBVIOUS
    <3>2. ~(\E rel \in Releases : Begin(rel)) /\ ~GateStep /\ ~Crash /\ ~Fail
          /\ ~(\E x \in Services : OperatorFence(x)) /\ ~(UNCHANGED vars)
      BY <3>1 DEF Begin, GateStep, gateOnly, Call, Check, Count, Leave, Crash, Fail,
         OperatorFence, vars
    <3>3. CASE RolloutStep
      BY <3>1, <3>3 DEF RolloutStep, BeginTransaction, BeginDrain, BackendIdle, Fence,
         PollGateway, PollWorker, StopContainer, Start, Healthy, RecordPins, RecordCurrent,
         CheckOwners, Open, OpenBackend, Finish, At, Installing
    <3>4. CASE StartFails  BY <3>4 DEF StartFails, At, Installing
    <3> QED BY <3>2, <3>3, <3>4 DEF Next
  <2>2. Quiet(s)  BY <2>1 DEF IInv, Stages, Sealed, Services
  <2> QED BY <2>2 DEF Quiet, Inside, GateFree
<1> QED BY <1>1, InvariantHolds, PTL DEF Spec, NoWorkKilled

-----------------------------------------------------------------------------
(* Markers of others                                                       *)

\* Past end_drain's check, a marker under a name the rollout counts as its own is
\* gone, its own, or appeared after the check.
Checked ==
    d.pc \in {"openW", "openG"} =>
        \A s \in d.mine : marker[s] \in {0, d.rel} \/ s \in trouble

\* Only end_drain enters the reopening past its check, and it removes no marker
\* before the one it is at.
LEMMA CheckedNext == IInv /\ Checked /\ [Next]_vars => Checked'
<1> SUFFICES ASSUME IInv, Checked, [Next]_vars, d'.pc \in {"openW", "openG"}
             PROVE  \A s \in d'.mine : marker'[s] \in {0, d'.rel} \/ s \in trouble'
  BY DEF Checked
<1>0. d \in Rollouts /\ d.mine \subseteq Services
      /\ marker \in [Services -> 0 .. LastRelease]
  BY DEF IInv, TypeOK, Rollouts
<1>1. CASE CheckOwners
  <2>1. /\ \A s \in d.mine : marker[s] \in {0, d.rel}
        /\ d' = [d EXCEPT !.pc = "openW"] /\ UNCHANGED marker
    BY <1>1, RestFields DEF CheckOwners, Goto
  <2>2. d'.mine = d.mine /\ d'.rel = d.rel  BY <1>0, <2>1 DEF Rollouts
  <2> QED BY <2>1, <2>2
<1>2. CASE Open("worker", "openW", "openG")
  <2>1. /\ d.pc = "openW" /\ d' = [d EXCEPT !.pc = "openG"] /\ UNCHANGED trouble
        /\ marker' = marker \/ marker' = [marker EXCEPT !["worker"] = 0]
    BY <1>2 DEF Open, Goto, At, idleGates
  <2>2. d'.mine = d.mine /\ d'.rel = d.rel  BY <1>0, <2>1 DEF Rollouts
  <2>3. \A s \in d.mine : marker'[s] = marker[s] \/ marker'[s] = 0
    BY <1>0, <2>1 DEF Services
  <2> QED BY <2>1, <2>2, <2>3 DEF Checked
<1>3. ASSUME NEW s \in Services, OperatorFence(s)
      PROVE  \A x \in d'.mine : marker'[x] \in {0, d'.rel} \/ x \in trouble'
  <2>1. /\ UNCHANGED d /\ marker' = [marker EXCEPT ![s] = Operator]
        /\ trouble' = trouble \cup {s}
    BY <1>3 DEF OperatorFence
  <2> QED BY <1>0, <2>1 DEF Checked
<1>4. CASE GateStep \/ UNCHANGED vars
  <2>1. UNCHANGED <<d, marker, trouble>>
    BY <1>4 DEF GateStep, Call, Check, Count, Leave, gateOnly, vars
  <2> QED BY <2>1 DEF Checked
<1>5. ~(Fail \/ StartFails \/ Crash)
  <2>1. ASSUME d' = Handler, d.pc # "idle" PROVE FALSE
    BY <1>0, <2>1, HandlerFields
  <2> QED BY <1>0, <2>1, RestFields DEF Fail, StartFails, Crash, At
<1>6. ~(\E rel \in Releases : Begin(rel))
  BY DEF Begin, AtRest
<1>7. CASE RolloutStep /\ ~CheckOwners /\ ~Open("worker", "openW", "openG")
  <2>1. ASSUME NEW pc \in {"drain", "quiesce", "fenceG", "poll", "fenceW", "pollW", "owners",
                           "stopG", "stopW", "start", "health", "pins", "record", "openB",
                           "finish"},
               d'.pc = pc
        PROVE  FALSE
    BY <2>1
  <2>2. ASSUME d' = AtRest PROVE FALSE  BY <2>2, RestFields
  <2>3. ASSUME d' = Handler, d.pc # "idle" PROVE FALSE
    BY <1>0, <2>3, HandlerFields
  <2>4. ASSUME NEW pc, Goto(pc) PROVE d'.pc = pc  BY <1>0, <2>4 DEF Goto, Rollouts
  <2>5. ~BeginTransaction /\ ~BeginDrain /\ ~BackendIdle
    BY <1>0, <2>1, <2>4 DEF BeginTransaction, BeginDrain, BackendIdle, Rollouts
  <2>6. ~Fence("gateway", "fenceG", "poll") /\ ~Fence("worker", "fenceW", "pollW")
    BY <1>0, <2>1 DEF Fence, Rollouts
  <2>7. ~PollGateway /\ ~PollWorker
    BY <2>1, <2>4 DEF PollGateway, PollWorker
  <2>8. /\ ~StopContainer("gateway", "stopG", "stopW")
        /\ ~StopContainer("worker", "stopW", "start") /\ ~Start /\ ~Healthy
    BY <2>1, <2>4 DEF StopContainer, Start, Healthy
  <2>9. ~RecordPins /\ ~RecordCurrent
    BY <2>1, <2>3, <2>4 DEF RecordPins, RecordCurrent, At
  <2>10. ~Open("gateway", "openG", "openB") /\ ~OpenBackend /\ ~Finish
    BY <2>1, <2>2, <2>4 DEF Open, OpenBackend, Finish
  <2> QED BY <1>7, <2>5, <2>6, <2>7, <2>8, <2>9, <2>10 DEF RolloutStep
<1> QED BY <1>1, <1>2, <1>3, <1>4, <1>5, <1>6, <1>7 DEF Next

\* Whatever fails, is interrupted or overlaps with it: of the markers of others,
\* end_drain removes only one that appears between its check and its unlink, and
\* nothing else a rollout does removes or replaces one.
THEOREM ForeignMarkersStay == Spec => ForeignMarkersKept
<1> DEFINE Kept == \A s \in Services :
               marker[s] # 0 /\ marker'[s] \notin {marker[s], Operator} =>
                   marker'[s] = 0 /\ ~At("idle") /\ (marker[s] = d.rel \/ s \in trouble)
<1>1. Init => Checked  BY RestFields DEF Init, Checked
<1>2. IInv /\ Checked /\ [Next]_vars => Checked'  BY CheckedNext
<1>3. IInv /\ Checked /\ [Next]_vars => [Kept]_vars
  <2> SUFFICES ASSUME IInv, Checked, Next, NEW s \in Services,
                      marker[s] # 0, marker'[s] \notin {marker[s], Operator}
               PROVE  marker'[s] = 0 /\ ~At("idle") /\ (marker[s] = d.rel \/ s \in trouble)
    OBVIOUS
  <2>0. marker \in [Services -> 0 .. LastRelease]  BY DEF IInv, TypeOK
  <2>1. marker' # marker  OBVIOUS
  <2>2. ~(\E rel \in Releases : Begin(rel)) /\ ~GateStep /\ ~Crash /\ ~Fail /\ ~StartFails
    BY <2>1 DEF Begin, GateStep, gateOnly, Call, Check, Count, Leave, Crash, Fail, StartFails
  <2>3. ~(\E x \in Services : OperatorFence(x))
    BY <2>0 DEF OperatorFence
  <2>4. ASSUME NEW x \in Services, NEW pc, NEW next, Fence(x, pc, next) PROVE FALSE
    BY <2>0, <2>4 DEF Fence
  <2>5. PICK x \in Services, pc \in {"openW", "openG"} :
            At(pc) /\ x \in d.mine /\ marker' = [marker EXCEPT ![x] = 0]
    <3>1. RolloutStep  BY <2>2, <2>3 DEF Next
    <3>2. Open("worker", "openW", "openG") \/ Open("gateway", "openG", "openB")
      BY <2>1, <2>4, <3>1 DEF RolloutStep, BeginTransaction, BeginDrain, BackendIdle,
         PollGateway, PollWorker, StopContainer, Start, Healthy, RecordPins, RecordCurrent,
         CheckOwners, OpenBackend, Finish, Services
    <3> QED BY <2>1, <3>2 DEF Open, Services
  <2>6. x = s /\ marker'[s] = 0  BY <2>0, <2>5
  <2>7. marker[s] = d.rel \/ s \in trouble  BY <2>5, <2>6 DEF Checked, At
  <2> QED BY <2>5, <2>6, <2>7 DEF At
<1> QED BY <1>1, <1>2, <1>3, InvariantHolds, PTL DEF Spec, ForeignMarkersKept
=============================================================================
