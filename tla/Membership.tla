----------------------------- MODULE Membership -----------------------------
(***************************************************************************)
(* Who is a worker, as ZooKeeper and the API process see it:               *)
(* system/zookeeper_registry.py (WorkerRegistry in every worker process,   *)
(* WorkerDiscovery in the API process), serve() of                         *)
(* system/grpc_worker_server.py, which drives the registry, and the        *)
(* membership of GrpcWorkerPool._update_workers, which discovery drives.   *)
(*                                                                         *)
(* Several processes may serve under one worker id, one after the other or *)
(* overlapping (a restart).  ZooKeeper and Kazoo are external: a session   *)
(* with its ephemeral nodes can expire at any time, a call can fail, an    *)
(* event can be delayed, and the service can go away for good.             *)
(*                                                                         *)
(* All calls of _ensure_registered run under WorkerRegistry._lock, so a    *)
(* process has at most one of them under way: reg[p].                      *)
(***************************************************************************)
EXTENDS Naturals, FiniteSets

CONSTANTS
    Ids,           \* worker ids
    Processes,     \* worker processes; one also stands for its address
    IdOf,          \* [Processes -> Ids]
    MaxFaults      \* bound: expired sessions, failed calls, lost events

ASSUME MembershipAssumption ==
    /\ IdOf \in [Processes -> Ids]
    /\ MaxFaults \in Nat

VARIABLES
    main,      \* the main thread of the process, in serve()
    publisher, \* its PublishDraining thread
    state,     \* WorkerRegistry._state
    registered,\* WorkerRegistry._registered_session (0: None)
    reg,       \* the _ensure_registered call under way
    wake,      \* processes whose WorkerRegistry._wakeup is set
    sess,      \* the session id of the process's Kazoo client (0: none)
    node,      \* ZooKeeper: the ephemeral node of each worker id
    faults, zkUp,
    linked,    \* the API process is connected to ZooKeeper
    wakeup,    \* WorkerDiscovery._wakeup
    watched,   \* WorkerDiscovery._watched_workers
    disc,      \* the discovery thread
    published, \* WorkerDiscovery._published_workers
    proxy,     \* GrpcWorkerPool._workers: address and routing state
    moved      \* history: ids whose address changed while they were published

procVars == <<main, publisher>>
regVars == <<state, registered, reg, wake>>
zkVars == <<sess, node, faults, zkUp>>
poolVars == <<watched, disc, published, proxy, moved>>
vars == <<main, publisher, state, registered, reg, wake, sess, node, faults, zkUp,
          linked, wakeup, watched, disc, published, proxy, moved>>

NoNode == [owner |-> "none", session |-> 0, addr |-> "none", state |-> "none"]
Absent == [addr |-> "none", state |-> "none"]
Info(i) == [addr |-> node[i].addr, state |-> node[i].state]
NoCall == [pc |-> "idle", session |-> 0, state |-> "none"]

Infos == [addr : Processes, state : {"READY", "DRAINING"}] \cup {Absent}
Sessions == 0 .. MaxFaults + 1      \* of one process, numbered as it opens them

\* serve(): "term" waits for the publisher and then for the server to stop,
\* "closing" is inside deregister, with WorkerRegistry._stop set.
MainStates == {"off", "serving", "term", "closing", "gone"}

TypeOK ==
    /\ main \in [Processes -> MainStates]
    /\ publisher \in [Processes -> {"none", "waiting", "writing", "done"}]
    /\ state \in [Processes -> {"READY", "DRAINING"}]
    /\ registered \in [Processes -> Sessions]
    /\ reg \in [Processes -> [pc : {"idle", "create", "get", "set"}, session : Sessions,
                              state : {"READY", "DRAINING", "none"}]]
    /\ wake \subseteq Processes
    /\ sess \in [Processes -> Sessions]
    /\ node \in [Ids -> [owner : Processes, session : Sessions, addr : Processes,
                         state : {"READY", "DRAINING"}] \cup {NoNode}]
    /\ faults \in 0 .. MaxFaults /\ zkUp \in BOOLEAN
    /\ linked \in BOOLEAN /\ wakeup \in BOOLEAN
    /\ watched \subseteq Ids
    /\ disc \in [pc : {"wait", "watch", "read"}, todo : SUBSET Ids,
                 found : [Ids -> Infos]]
    /\ published \in [Ids -> Infos] /\ proxy \in [Ids -> Infos]
    /\ moved \subseteq Ids

Running(p) == main[p] \notin {"off", "gone"}
Nobody == [i \in Ids |-> Absent]

\* A WorkerRegistry as its constructor leaves it.
RegistryInit ==
    /\ state = [p \in Processes |-> "READY"]
    /\ registered = [p \in Processes |-> 0]
    /\ reg = [p \in Processes |-> NoCall]
    /\ wake = {}

\* WorkerDiscovery's constructor: watches, a first refresh of an empty group.
DiscoveryInit ==
    /\ linked = TRUE /\ wakeup = FALSE /\ watched = {}
    /\ disc = [pc |-> "wait", todo |-> {}, found |-> Nobody]
    /\ published = Nobody /\ proxy = Nobody
    /\ moved = {}

Init ==
    /\ main = [p \in Processes |-> "off"]
    /\ publisher = [p \in Processes |-> "none"]
    /\ RegistryInit
    /\ sess = [p \in Processes |-> 0]
    /\ node = [i \in Ids |-> NoNode]
    /\ faults = 0 /\ zkUp = TRUE
    /\ DiscoveryInit

-----------------------------------------------------------------------------
(* ZooKeeper and Kazoo (external)                                          *)

Owner(n) == <<n.owner, n.session>>
Owned(p) == {i \in Ids : Owner(node[i]) = <<p, sess[p]>>}

\* Writing a node raises a watch event: for every created or deleted child, and
\* for a change of data where a DataWatch is installed.  A callback of discovery
\* only sets its _wakeup.
Write(i, new) ==
    /\ node' = [node EXCEPT ![i] = new]
    /\ wakeup' = (wakeup \/ (linked /\ (node[i] = NoNode \/ i \in watched)))

\* The ephemeral nodes of the process's session disappear.
DropSession(p) ==
    /\ node' = [i \in Ids |-> IF i \in Owned(p) THEN NoNode ELSE node[i]]
    /\ wakeup' = (wakeup \/ (linked /\ Owned(p) # {}))

\* A session expires, and Kazoo opens a new one: the state listener sets _wakeup.
SessionLost(p) ==
    /\ Running(p) /\ zkUp /\ faults < MaxFaults
    /\ faults' = faults + 1
    /\ DropSession(p)
    /\ sess' = [sess EXCEPT ![p] = @ + 1]
    /\ wake' = wake \cup {p}
    /\ UNCHANGED <<procVars, state, registered, reg, zkUp, linked, poolVars>>

\* The service is gone for good: every call blocks from now on.
ZooKeeperDown ==
    /\ zkUp /\ faults < MaxFaults
    /\ zkUp' = FALSE /\ faults' = MaxFaults
    /\ UNCHANGED <<procVars, regVars, sess, node, linked, wakeup, poolVars>>

-----------------------------------------------------------------------------
(* WorkerRegistry                                                          *)

EnsureMutant(p, st) == [pc |-> "create", session |-> sess[p], state |-> "READY"]
\* _ensure_registered starts: read the session id and build the data.
Ensure(p, st) == [pc |-> "create", session |-> sess[p], state |-> st]

Entry(p) == [owner |-> p, session |-> sess[p], addr |-> p, state |-> reg[p].state]

\* The call ends; a PublishDraining thread that made it ends as well.
EndCall(p) ==
    /\ reg' = [reg EXCEPT ![p] = NoCall]
    /\ publisher' = [publisher EXCEPT ![p] = IF @ = "writing" THEN "done" ELSE @]

Succeed(p) == EndCall(p) /\ registered' = [registered EXCEPT ![p] = reg[p].session]

\* register and the loop forget the session of a failed call, set_state does not.
FailCall(p) ==
    /\ EndCall(p)
    /\ registered' = IF publisher[p] = "writing" THEN registered
                     ELSE [registered EXCEPT ![p] = 0]

\* The worker starts: serve() opens a session and calls register.
StartWorker(p) ==
    /\ main[p] = "off" /\ zkUp
    /\ main' = [main EXCEPT ![p] = "serving"]
    /\ sess' = [sess EXCEPT ![p] = 1]
    /\ reg' = [reg EXCEPT ![p] = [pc |-> "create", session |-> 1, state |-> state[p]]]
    /\ wake' = wake \cup {p}
    /\ UNCHANGED <<publisher, state, registered, node, faults, zkUp, linked, wakeup, poolVars>>

\* A loop that believes the session id it recorded and only acts when woken up.
NeedsCallMutant(p) == p \in wake /\ registered[p] # sess[p]
\* One pass of _registration_loop: after a wakeup always, after its timeout if
\* the session has changed.
NeedsCall(p) == p \in wake \/ registered[p] # sess[p]

RegistrationLoop(p) ==
    /\ Running(p) /\ main[p] # "closing" /\ zkUp
    /\ reg[p].pc = "idle" /\ NeedsCall(p)
    /\ reg' = [reg EXCEPT ![p] = Ensure(p, state[p])]
    /\ wake' = wake \ {p}
    /\ UNCHANGED <<procVars, state, registered, zkVars, linked, wakeup, poolVars>>

\* create: under the session the client has by now.
Create(p) ==
    /\ reg[p].pc = "create" /\ zkUp
    /\ \/ /\ node[IdOf[p]] = NoNode
          /\ Write(IdOf[p], Entry(p))
          /\ Succeed(p)
       \/ /\ node[IdOf[p]] # NoNode
          /\ reg' = [reg EXCEPT ![p].pc = "get"]
          /\ UNCHANGED <<node, wakeup, publisher, registered>>
    /\ UNCHANGED <<main, state, wake, sess, faults, zkUp, linked, poolVars>>

\* An adoption of whatever node has the worker's name.
OwnsMutant(p, n) == TRUE
Owns(p, n) == Owner(n) = <<p, reg[p].session>>

\* NodeExistsError: look who owns it.  A node that is gone again, or another
\* session's, is a failed call.
Get(p) ==
    LET n == node[IdOf[p]]
    IN /\ reg[p].pc = "get" /\ zkUp
       /\ \/ n # NoNode /\ Owns(p, n) /\ n.addr = p /\ n.state = reg[p].state /\ Succeed(p)
          \/ /\ n # NoNode /\ Owns(p, n) /\ ~(n.addr = p /\ n.state = reg[p].state)
             /\ reg' = [reg EXCEPT ![p].pc = "set"]
             /\ UNCHANGED <<publisher, registered>>
          \/ (n = NoNode \/ ~Owns(p, n)) /\ FailCall(p)
       /\ UNCHANGED <<main, state, wake, zkVars, linked, wakeup, poolVars>>

\* set: of any version, and so of whatever node is there by now.
Set(p) ==
    LET n == node[IdOf[p]]
    IN /\ reg[p].pc = "set" /\ zkUp
       /\ \/ /\ n # NoNode
             /\ Write(IdOf[p], [n EXCEPT !.addr = p, !.state = reg[p].state])
             /\ Succeed(p)
          \/ /\ n = NoNode
             /\ FailCall(p)
             /\ UNCHANGED <<node, wakeup>>
       /\ UNCHANGED <<main, state, wake, sess, faults, zkUp, linked, poolVars>>

\* A call fails on a connection that is lost for a moment; when it is back the
\* state listener sets _wakeup.
CallLost(p) ==
    /\ reg[p].pc # "idle" /\ zkUp /\ faults < MaxFaults
    /\ faults' = faults + 1
    /\ FailCall(p)
    /\ wake' = wake \cup {p}
    /\ UNCHANGED <<main, state, sess, node, zkUp, linked, wakeup, poolVars>>

\* set_state("DRAINING") on the PublishDraining thread, once it has the lock; it
\* raises when the registry is closed.
SetState(p) ==
    /\ publisher[p] = "waiting" /\ reg[p].pc = "idle"
    /\ \/ /\ main[p] # "closing" /\ zkUp
          /\ publisher' = [publisher EXCEPT ![p] = "writing"]
          /\ state' = [state EXCEPT ![p] = "DRAINING"]
          /\ reg' = [reg EXCEPT ![p] = Ensure(p, "DRAINING")]
       \/ /\ main[p] = "closing"
          /\ publisher' = [publisher EXCEPT ![p] = "done"]
          /\ UNCHANGED <<state, reg>>
    /\ UNCHANGED <<main, registered, wake, zkVars, linked, wakeup, poolVars>>

RegistryStep(p) == RegistrationLoop(p) \/ Create(p) \/ Get(p) \/ Set(p) \/ SetState(p)

-----------------------------------------------------------------------------
(* serve()                                                                 *)

\* The process and its memory are gone.
Exit(p) ==
    /\ main' = [main EXCEPT ![p] = "gone"]
    /\ publisher' = [publisher EXCEPT ![p] = "none"]
    /\ state' = [state EXCEPT ![p] = "READY"]
    /\ registered' = [registered EXCEPT ![p] = 0]
    /\ reg' = [reg EXCEPT ![p] = NoCall]
    /\ wake' = wake \ {p}

\* SIGTERM: start the PublishDraining thread.
Terminate(p) ==
    /\ main[p] = "serving"
    /\ main' = [main EXCEPT ![p] = "term"]
    /\ publisher' = [publisher EXCEPT ![p] = "waiting"]
    /\ UNCHANGED <<regVars, zkVars, linked, wakeup, poolVars>>

\* publisher.join(timeout=2), server.stop(grace) and stopped.wait() have returned:
\* the publisher is done, or still waits for the lock or for ZooKeeper, and the
\* server's calls have ended or were cut off.  deregister sets _stop and _wakeup.
StopServer(p) ==
    /\ main[p] = "term"
    /\ main' = [main EXCEPT ![p] = "closing"]
    /\ wake' = wake \cup {p}
    /\ UNCHANGED <<publisher, state, registered, reg, zkVars, linked, wakeup, poolVars>>

\* The rest of deregister: closing the session removes its nodes and releases a
\* blocked call; with the main thread the process ends.
Deregister(p) ==
    /\ main[p] = "closing"
    /\ IF zkUp THEN DropSession(p) ELSE UNCHANGED <<node, wakeup>>
    /\ sess' = [sess EXCEPT ![p] = 0]
    /\ Exit(p)
    /\ UNCHANGED <<faults, zkUp, linked, poolVars>>

Shutdown(p) == StopServer(p) \/ Deregister(p)

\* The process is killed; its session expires some time later.
Kill(p) ==
    /\ Running(p) /\ faults < MaxFaults
    /\ faults' = faults + 1
    /\ Exit(p)
    /\ UNCHANGED <<sess, node, zkUp, linked, wakeup, poolVars>>

Forget(p) ==
    /\ main[p] = "gone" /\ sess[p] # 0 /\ zkUp
    /\ DropSession(p)
    /\ sess' = [sess EXCEPT ![p] = 0]
    /\ UNCHANGED <<procVars, regVars, faults, zkUp, linked, poolVars>>

-----------------------------------------------------------------------------
(* WorkerDiscovery                                                         *)

elsewhere == <<procVars, regVars, sess, node, zkUp>>

\* The API process loses its connection, and with it the events of that time;
\* when it is connected again it refreshes.
Disconnect ==
    /\ zkUp /\ linked /\ faults < MaxFaults
    /\ linked' = FALSE /\ faults' = faults + 1
    /\ UNCHANGED <<elsewhere, wakeup, poolVars>>

Reconnect ==
    /\ zkUp /\ ~linked
    /\ linked' = TRUE /\ wakeup' = TRUE
    /\ UNCHANGED <<elsewhere, faults, poolVars>>

online == zkUp /\ linked

\* _refresh_loop clears the wakeup first, then _refresh_workers reads the children.
Refresh ==
    /\ disc.pc = "wait" /\ wakeup /\ online
    /\ wakeup' = FALSE
    /\ disc' = [pc |-> "watch", todo |-> {i \in Ids : node[i] # NoNode}, found |-> Nobody]
    /\ UNCHANGED <<elsewhere, faults, linked, watched, published, proxy, moved>>

\* Install the watches that are missing; Kazoo calls each one at once.
WatchWorkers ==
    /\ disc.pc = "watch" /\ online
    /\ watched' = watched \cup disc.todo
    /\ wakeup' = (wakeup \/ ~(disc.todo \subseteq watched))
    /\ disc' = [disc EXCEPT !.pc = "read"]
    /\ UNCHANGED <<elsewhere, faults, linked, published, proxy, moved>>

\* _read_workers: one get; a node that disappeared is skipped.
ReadWorker(i) ==
    /\ disc.pc = "read" /\ online /\ i \in disc.todo
    /\ disc' = [disc EXCEPT !.todo = @ \ {i},
                            !.found[i] = IF node[i] = NoNode THEN Absent ELSE Info(i)]
    /\ UNCHANGED <<elsewhere, faults, linked, wakeup, watched, published, proxy, moved>>

\* A pool that forgets no worker.
UpdatedMutant(workers) ==
    [i \in Ids |-> IF workers[i] = Absent THEN proxy[i] ELSE workers[i]]
\* GrpcWorkerPool._update_workers: a new proxy for a new id, the new state for a
\* known one (which keeps its address), none for an id that is gone.
Updated(workers) ==
    [i \in Ids |-> IF workers[i] = Absent \/ proxy[i] = Absent THEN workers[i]
                   ELSE [proxy[i] EXCEPT !.state = workers[i].state]]

\* Publish a snapshot that differs from the last one.
Publish ==
    /\ disc.pc = "read" /\ disc.todo = {}
    /\ published' = disc.found
    /\ proxy' = IF disc.found = published THEN proxy ELSE Updated(disc.found)
    /\ moved' = {i \in Ids : /\ published[i] # Absent /\ disc.found[i] # Absent
                             /\ i \in moved \/ published[i].addr # disc.found[i].addr}
    /\ disc' = [disc EXCEPT !.pc = "wait", !.found = Nobody]
    /\ UNCHANGED <<elsewhere, faults, linked, wakeup, watched>>

\* A read fails: keep the last snapshot, try again a second later.
RefreshFails ==
    /\ disc.pc # "wait" /\ zkUp /\ ~linked
    /\ disc' = [pc |-> "wait", todo |-> {}, found |-> Nobody]
    /\ wakeup' = TRUE
    /\ UNCHANGED <<elsewhere, faults, linked, watched, published, proxy, moved>>

DiscoveryStep ==
    Refresh \/ WatchWorkers \/ (\E i \in Ids : ReadWorker(i)) \/ Publish

-----------------------------------------------------------------------------
Next ==
    \/ \E p \in Processes :
         \/ StartWorker(p) \/ RegistryStep(p) \/ CallLost(p) \/ SessionLost(p)
         \/ Terminate(p) \/ Shutdown(p) \/ Kill(p) \/ Forget(p)
    \/ ZooKeeperDown
    \/ Disconnect \/ Reconnect \/ DiscoveryStep \/ RefreshFails

Spec == Init /\ [][Next]_vars

\* The threads of both sides run, and serve() ends once it was told to: its waits
\* have timeouts.  ZooKeeper answers, delivers and expires as long as it is up.
\* Nobody has to start or to stop a worker.
FairSpec ==
    /\ Spec
    /\ \A p \in Processes : /\ WF_vars(RegistryStep(p)) /\ WF_vars(Forget(p))
                            /\ WF_vars(Shutdown(p))
    /\ WF_vars(Reconnect) /\ WF_vars(DiscoveryStep)

-----------------------------------------------------------------------------
(* Safety                                                                  *)

\* "Without overwriting or deleting another session's node": a process changes
\* the data of its own node only.  The exception is one whose session was
\* replaced between its get and its set, which checks no version.
OnlyOwnNodes ==
    [][\A i \in Ids :
         node[i] # NoNode /\ Owner(node'[i]) = Owner(node[i]) /\ node'[i] # node[i] =>
            \E p \in Processes :
               /\ reg[p].pc = "set" /\ IdOf[p] = i
               /\ Owner(node[i]) = <<p, sess[p]>> \/ sess[p] # reg[p].session]_vars

\* From set_state on (which is later than SIGTERM, if the publisher had to wait for
\* the lock) nothing a worker still writes says READY, although its node is created
\* again after every lost session and the recovery thread writes it as well as the
\* publisher.
DrainingSticks ==
    [][\A i \in Ids : node'[i] # node[i] /\ node'[i].state = "READY" =>
           state[node'[i].addr] = "READY"]_vars

-----------------------------------------------------------------------------
(* Liveness, under FairSpec                                                *)

Serving(i) == {p \in Processes : IdOf[p] = i /\ Running(p)}

\* Registration recovers from lost sessions, failed calls, a predecessor's node
\* and a session id that was stale when it was recorded: in the end the node of
\* an id is one of its running processes, with its current state, or there is
\* neither.  The exception is again a node with another process's data.
RegistrationRecovers ==
    \A i \in Ids :
        <>[](\/ ~zkUp \/ node[i].addr # node[i].owner
             \/ Serving(i) = {} /\ node[i] = NoNode
             \/ \E p \in Serving(i) : node[i] = [owner |-> p, session |-> sess[p],
                                                 addr |-> p, state |-> state[p]])

\* What the pool routes to is in the end what ZooKeeper holds: no event, refresh
\* or snapshot gets lost.  Only the address of a worker that came back elsewhere
\* before its absence was noticed stays the old one.
RoutingConverges ==
    \A i \in Ids :
        <>[](\/ ~zkUp
             \/ proxy[i].state = node[i].state
                /\ (proxy[i].addr = node[i].addr \/ i \in moved))
=============================================================================
