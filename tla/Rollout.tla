------------------------------ MODULE Rollout -------------------------------
(***************************************************************************)
(* deploy/ci/deploy_platform.py (Deployment and Runtime: a rollout of the  *)
(* gateway and text-worker containers) together with the admission gate    *)
(* inside those containers, system/deployment.py.                          *)
(*                                                                         *)
(* Processes: one rollout at a time (flock on deploy.lock), which a signal *)
(* may interrupt at any call and which may be killed at any step; the      *)
(* request handlers of the gateway; the handlers of the text worker, which *)
(* the gateway calls; an operator with a maintenance marker of his own.    *)
(*                                                                         *)
(* Releases are numbered; release 1 is running at first, and rollout k     *)
(* installs release k and uses k as its platform_token.  0 stands for "no  *)
(* container", "no marker".  Marker 1 belongs to the operator.             *)
(***************************************************************************)
EXTENDS Naturals, FiniteSets

CONSTANTS
    LastRelease,   \* bound: releases 2 .. LastRelease are rolled out
    Requests       \* bound: requests that reach the gateway, one call each

ASSUME RolloutAssumption == LastRelease \in Nat \ {0}

Services == {"gateway", "worker"}
Releases == 1 .. LastRelease
Operator == 1

VARIABLES
    txn,        \* transaction.json exists
    current,    \* the release of current.json
    pins,       \* the release pinned in the shared dependency_images
    run,        \* the release each container runs
    marker,     \* owner of gateway-drain and worker-drain
    backend,    \* the product backend is drained (its protocol is external)
    d,          \* the rollout process
    trouble,    \* history: where the latest rollout failed, and the services fenced
                \* by somebody else after it had checked the owners
    at          \* at[s][r]: where request r is at the gate of service s

fileVars == <<txn, current, pins>>
vars == <<txn, current, pins, run, marker, backend, d, trouble, at>>

\* d.target is the release being installed: d.rel, or d.prev when rolling back.
\* d.mine is marker_names, d.owns the local variable "transaction".
AtRest == [pc |-> "idle", rel |-> 1, prev |-> 1, target |-> 1, mine |-> {},
           owns |-> FALSE]

Draining == {"transact", "drain", "quiesce", "fenceG", "poll", "fenceW", "pollW"}
Installing == {"stopG", "stopW", "start", "health", "pins", "record"}
Reopening == {"owners", "openW", "openG", "openB", "finish"}

TypeOK ==
    /\ txn \in BOOLEAN
    /\ current \in Releases /\ pins \in Releases
    /\ run \in [Services -> 0 .. LastRelease]
    /\ marker \in [Services -> 0 .. LastRelease]
    /\ backend \in BOOLEAN
    /\ d \in [pc : {"idle"} \cup Draining \cup Installing \cup Reopening,
              rel : Releases, prev : Releases, target : Releases,
              mine : SUBSET Services, owns : BOOLEAN]
    /\ trouble \subseteq {"draining", "installing", "rollback", "reopening", "crash"}
                            \cup Services
    /\ at \in [Services -> [Requests ->
                  {"none", "sent", "checked", "inside", "left", "refused"}]]

Init ==
    /\ txn = FALSE /\ current = 1 /\ pins = 1
    /\ run = [s \in Services |-> 1]
    /\ marker = [s \in Services |-> 0]
    /\ backend = FALSE
    /\ d = AtRest
    /\ trouble = {}
    /\ at = [s \in Services |-> [r \in Requests |->
                IF s = "gateway" THEN "sent" ELSE "none"]]

-----------------------------------------------------------------------------
(* DeploymentGate, and the handlers it counts                              *)

\* enter and snapshot hold the gate's lock; enter reads the marker first and
\* counts the handler afterwards.
GateFree(s) == \A r \in Requests : at[s][r] # "checked"
Inside(s) == {r \in Requests : at[s][r] = "inside"}

Move(s, r, to) == at' = [at EXCEPT ![s][r] = to]
gateOnly == <<fileVars, run, marker, backend, d, trouble>>

\* enter, first half: a marker of whatever owner refuses the request.
Check(s, r) ==
    /\ at[s][r] = "sent" /\ GateFree(s)
    /\ Move(s, r, IF run[s] # 0 /\ marker[s] = 0 THEN "checked" ELSE "refused")
    /\ UNCHANGED gateOnly

\* enter, second half: count the handler and let it run.
Count(s, r) ==
    /\ at[s][r] = "checked"
    /\ Move(s, r, "inside")
    /\ UNCHANGED gateOnly

\* A handler of the gateway calls the text worker.
Call(r) ==
    /\ at["gateway"][r] = "inside" /\ at["worker"][r] = "none"
    /\ Move("worker", r, "sent")
    /\ UNCHANGED gateOnly

\* The handler returns.  The gateway's may return before the worker's does: a
\* deadline or a disconnected caller does not stop the worker.
Leave(s, r) ==
    /\ at[s][r] = "inside"
    /\ Move(s, r, "left")
    /\ UNCHANGED gateOnly

GateStep ==
    \E r \in Requests : Call(r) \/ \E s \in Services : Check(s, r) \/ Count(s, r) \/ Leave(s, r)

\* A snapshot that does not take the gate's lock.
AcknowledgedMutant(s) == run[s] # 0 /\ marker[s] = d.rel /\ Inside(s) = {}
\* Runtime.acknowledged(snapshot()) is true: draining for this rollout, active 0.
\* (It raises on any other owner, which is a Fail below.)
Acknowledged(s) ==
    /\ run[s] # 0 /\ GateFree(s)
    /\ marker[s] = d.rel
    /\ Inside(s) = {}

-----------------------------------------------------------------------------
(* Deployment.run                                                          *)

At(pc) == d.pc = pc
Goto(pc) == d' = [d EXCEPT !.pc = pc]
idleGates == <<at, trouble>>

\* An exception after which admission is reopened whatever was done.
HandlerMutant ==
    IF d.pc \in Draining \cup Installing THEN [d EXCEPT !.pc = "owners"] ELSE AtRest
\* A run without a rollback.
HandlerGiveUpMutant == IF d.pc \in Draining THEN [d EXCEPT !.pc = "owners"] ELSE AtRest
\* Where an exception leads: while draining, straight to end_drain (the old
\* services still run); while installing, to the rollback; during the rollback
\* or the reopening, out of run with admission closed.
Handler ==
    IF d.pc \in Draining THEN [d EXCEPT !.pc = "owners"]
    ELSE IF d.pc \in Installing /\ d.target # d.prev
    THEN [d EXCEPT !.pc = "stopG", !.target = d.prev]
    ELSE AtRest

Stage ==
    IF d.pc \in Draining THEN "draining"
    ELSE IF d.pc \in Reopening THEN "reopening"
    ELSE IF d.target = d.prev THEN "rollback" ELSE "installing"

\* Runtime.__init__ refuses after an unfinished transaction, previous() when the
\* containers do not run the recorded images.
MayBegin == ~txn /\ \A s \in Services : run[s] = current

\* Up to the busy check nothing but the release's own directory is written.
Begin(rel) ==
    /\ At("idle") /\ rel > current /\ MayBegin
    /\ d' = [AtRest EXCEPT !.pc = "transact", !.rel = rel, !.prev = current,
                           !.target = rel]
    /\ trouble' = {}
    /\ UNCHANGED <<fileVars, run, marker, backend, at>>

\* begin_transaction; an interruption when it returns leaves the file to nobody.
BeginTransaction ==
    /\ At("transact")
    /\ txn' = TRUE
    /\ \/ d' = [d EXCEPT !.pc = "drain", !.owns = TRUE] /\ UNCHANGED trouble
       \/ Goto("owners") /\ trouble' = trouble \cup {"draining"}
    /\ UNCHANGED <<current, pins, run, marker, backend, at>>

\* begin_drain, and the backend's own wait_idle (external).
BeginDrain ==
    /\ At("drain") /\ backend' = TRUE /\ Goto("quiesce")
    /\ UNCHANGED <<fileVars, run, marker, idleGates>>

BackendIdle ==
    /\ At("quiesce") /\ Goto("fenceG")
    /\ UNCHANGED <<fileVars, run, marker, backend, idleGates>>

\* fence: own the name first, then publish the marker with an exclusive link,
\* which fails (FileExistsError) if there is one; d.mine remembers it either way.
Fence(s, pc, next) ==
    /\ At(pc)
    /\ \/ /\ marker[s] = 0
          /\ marker' = [marker EXCEPT ![s] = d.rel]
          /\ d' = [d EXCEPT !.pc = next, !.mine = @ \cup {s}]
          /\ UNCHANGED trouble
       \/ /\ marker[s] # 0
          /\ d' = [d EXCEPT !.pc = "owners", !.mine = @ \cup {s}]
          /\ trouble' = trouble \cup {"draining"}
          /\ UNCHANGED marker
    /\ UNCHANGED <<fileVars, run, backend, at>>

\* A wait_idle that fences both services before the gateway is idle.
PollGatewayMutant ==
    /\ At("poll")
    /\ Goto(IF "worker" \in d.mine THEN "pollW" ELSE "fenceW")
    /\ UNCHANGED <<fileVars, run, marker, backend, idleGates>>
\* wait_idle's loop: the worker is fenced only once the gateway is idle.
PollGateway ==
    /\ At("poll") /\ Acknowledged("gateway")
    /\ Goto(IF "worker" \in d.mine THEN "pollW" ELSE "fenceW")
    /\ UNCHANGED <<fileVars, run, marker, backend, idleGates>>

PollWorker ==
    /\ At("pollW")
    /\ Goto(IF Acknowledged("worker") THEN "stopG" ELSE "poll")
    /\ UNCHANGED <<fileVars, run, marker, backend, idleGates>>

\* stop, one service: whatever was running in the container is lost.
StopContainer(s, pc, next) ==
    /\ At(pc)
    /\ run' = [run EXCEPT ![s] = 0]
    /\ at' = [at EXCEPT ![s] = [r \in Requests |->
                 IF @[r] \in {"checked", "inside"} THEN "left" ELSE @[r]]]
    /\ Goto(next)
    /\ UNCHANGED <<fileVars, marker, backend, trouble>>

\* start: compose brings up both services (a failure after some is StartFails).
Start ==
    /\ At("start")
    /\ run' = [s \in Services |-> d.target]
    /\ Goto("health")
    /\ UNCHANGED <<fileVars, marker, backend, idleGates>>

\* healthy: both gates acknowledge, both containers run the release.  (That the
\* models answer is a choice: Fail.)
Healthy ==
    /\ At("health")
    /\ \A s \in Services : Acknowledged(s) /\ run[s] = d.target
    /\ Goto("pins")
    /\ UNCHANGED <<fileVars, run, marker, backend, idleGates>>

\* A restore that forgets the shared pins.
RecordPinsMutant ==
    /\ At("pins") /\ Goto("record")
    /\ pins' = IF d.target = d.prev THEN pins ELSE d.target
    /\ UNCHANGED <<txn, current, run, marker, backend, idleGates>>
\* record or restore: the shared pins first, then current.json.
RecordPins ==
    /\ At("pins") /\ pins' = d.target /\ Goto("record")
    /\ UNCHANGED <<txn, current, run, marker, backend, idleGates>>

\* An interruption when the call returns still finds resume_safe False.
RecordCurrent ==
    /\ At("record") /\ current' = d.target
    /\ \/ Goto("owners") /\ UNCHANGED trouble
       \/ d' = Handler /\ trouble' = trouble \cup {Stage}
    /\ UNCHANGED <<txn, pins, run, marker, backend, at>>

\* A reopening that does not look whose markers it removes.
CheckOwnersMutant ==
    /\ At("owners")
    /\ Goto("openW") /\ UNCHANGED trouble
    /\ UNCHANGED <<fileVars, run, marker, backend, at>>
\* end_drain: every marker must be this rollout's own, or nothing is opened.
CheckOwners ==
    /\ At("owners")
    /\ \/ /\ \A s \in d.mine : marker[s] \in {0, d.rel}
          /\ Goto("openW") /\ UNCHANGED trouble
       \/ /\ \E s \in d.mine : marker[s] \notin {0, d.rel}
          /\ d' = AtRest /\ trouble' = trouble \cup {"reopening"}
    /\ UNCHANGED <<fileVars, run, marker, backend, at>>

\* Unlink a marker of this rollout: worker-drain before gateway-drain.
Open(s, pc, next) ==
    /\ At(pc)
    /\ marker' = IF s \in d.mine THEN [marker EXCEPT ![s] = 0] ELSE marker
    /\ Goto(next)
    /\ UNCHANGED <<fileVars, run, backend, idleGates>>

OpenBackend ==
    /\ At("openB") /\ backend' = FALSE
    /\ IF d.owns THEN Goto("finish") ELSE d' = AtRest
    /\ UNCHANGED <<fileVars, run, marker, idleGates>>

Finish ==
    /\ At("finish") /\ txn' = FALSE /\ d' = AtRest
    /\ UNCHANGED <<current, pins, run, marker, backend, idleGates>>

-----------------------------------------------------------------------------
(* What goes wrong                                                         *)

\* A command fails, a check fails, a timeout or SIGTERM/SIGHUP.
Fail ==
    /\ ~At("idle")
    /\ d' = Handler
    /\ trouble' = trouble \cup {Stage}
    /\ UNCHANGED <<fileVars, run, marker, backend, at>>

\* Compose fails after it brought up some of the services.
StartFails ==
    /\ At("start")
    /\ \E s \in Services : run' = [run EXCEPT ![s] = d.target]
    /\ d' = Handler
    /\ trouble' = trouble \cup {Stage}
    /\ UNCHANGED <<fileVars, marker, backend, at>>

\* drain_timeout_seconds: wait_idle does not wait forever; nor does healthy.
TimesOut == d.pc \in {"poll", "pollW", "health"} /\ Fail

\* SIGKILL, or the host goes down and its containers come back as they were.
Crash ==
    /\ ~At("idle")
    /\ d' = AtRest
    /\ trouble' = trouble \cup {"crash"}
    /\ UNCHANGED <<fileVars, run, marker, backend, at>>

\* An operator puts a service into maintenance, replacing any marker.
OperatorFence(s) ==
    /\ marker[s] # Operator
    /\ marker' = [marker EXCEPT ![s] = Operator]
    /\ trouble' = IF d.pc \in {"openW", "openG"} THEN trouble \cup {s} ELSE trouble
    /\ UNCHANGED <<fileVars, run, backend, d, at>>

-----------------------------------------------------------------------------
RolloutStep ==
    \/ BeginTransaction
    \/ BeginDrain
    \/ BackendIdle
    \/ Fence("gateway", "fenceG", "poll")
    \/ PollGateway
    \/ Fence("worker", "fenceW", "pollW")
    \/ PollWorker
    \/ StopContainer("gateway", "stopG", "stopW")
    \/ StopContainer("worker", "stopW", "start")
    \/ Start
    \/ Healthy
    \/ RecordPins
    \/ RecordCurrent
    \/ CheckOwners
    \/ Open("worker", "openW", "openG")
    \/ Open("gateway", "openG", "openB")
    \/ OpenBackend
    \/ Finish

Next ==
    \/ GateStep
    \/ \E rel \in Releases : Begin(rel)
    \/ RolloutStep
    \/ Fail
    \/ StartFails
    \/ Crash
    \/ \E s \in Services : OperatorFence(s)

Spec == Init /\ [][Next]_vars

\* The rollout keeps running, and its waits are bounded by timeouts.  Nothing is
\* assumed of the handlers.
FairSpec == Spec /\ WF_vars(RolloutStep) /\ WF_vars(TimesOut)

-----------------------------------------------------------------------------
(* Safety                                                                  *)

\* Both containers run the recorded release, and the backend's pins name it.
Consistent == pins = current /\ \A s \in Services : run[s] = current

\* Wherever a rollout is interrupted or killed: unless transaction.json tells of
\* it (and so blocks the next rollout), everything is as recorded and nothing is
\* left closed by a rollout.
InterruptionVisible ==
    ~txn => /\ Consistent /\ ~backend
            /\ \A s \in Services : marker[s] \in {0, Operator}

\* "Admission remains closed": a service without a drain marker only ever serves
\* when both containers run the same, recorded release.
OpenOnlyConsistent == (\E s \in Services : marker[s] = 0) => Consistent

\* "Preserve dependencies for already accepted work: backend -> gateway ->
\* adapter": no request the gateway accepted is refused by the worker behind it,
\* unless the operator fenced the worker.
AcceptedWorkServed ==
    \A r \in Requests :
        at["gateway"][r] = "inside" /\ at["worker"][r] = "refused"
            => marker["worker"] = Operator

\* A rollout stops a container only when no request is being handled in it, not
\* even one that passed the marker check just before the marker appeared.
NoWorkKilled ==
    [][\A s \in Services : run'[s] = 0 => run[s] = 0 \/ (Inside(s) = {} /\ GateFree(s))]_vars

\* "Foreign markers are never removed", nor replaced: a rollout takes away its own
\* marker only, although it counts a name as its own before it has published the
\* marker, fails at any point and reopens after a failure.  The exception is one
\* that appears between end_drain's check of the owners and its unlink.
ForeignMarkersKept ==
    [][\A s \in Services :
         marker[s] # 0 /\ marker'[s] \notin {marker[s], Operator} =>
             marker'[s] = 0 /\ ~At("idle") /\ (marker[s] = d.rel \/ s \in trouble)]_vars

-----------------------------------------------------------------------------
(* Liveness, under FairSpec                                                *)

\* Admission is open again, on a recorded release.
Reopened == At("idle") /\ ~backend /\ Consistent /\ \A s \in Services : marker[s] = 0

\* A rollout always comes back to an open, consistent platform, also after a
\* failed drain or a failed installation: only a second failure, one during the
\* reopening itself, a kill or the operator can keep it closed.
ComesBack ==
    ~At("idle") ~> \/ Reopened
                   \/ trouble \cap {"rollback", "reopening", "crash"} # {}
                   \/ \E s \in Services : marker[s] = Operator
=============================================================================
