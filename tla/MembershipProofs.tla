-------------------------- MODULE MembershipProofs --------------------------
(***************************************************************************)
(* The safety properties of Membership, for any workers, processes, number *)
(* of faults and order of lost sessions, failed calls, restarts and        *)
(* events.                                                                 *)
(*                                                                         *)
(* Both are about one step, a write to a node, and need to know what the   *)
(* registry call making it found out in the steps before: CallOK relates   *)
(* the call to the process, its session and the node it has looked at.     *)
(***************************************************************************)
EXTENDS Membership, TLAPS

Nodes == [owner : Processes, session : Sessions, addr : Processes,
          state : {"READY", "DRAINING"}] \cup {NoNode}
Regs == [pc : {"idle", "create", "get", "set"}, session : Sessions,
         state : {"READY", "DRAINING", "none"}]
Discs == [pc : {"wait", "watch", "read"}, todo : SUBSET Ids, found : [Ids -> Infos]]

\* A call is made by a running process, for a session the process has or had, with
\* a state that is not out of date; the node it is about to set is its own as long
\* as the session has not been replaced.
CallOK(p) ==
    /\ sess[p] <= faults + 1
    /\ Running(p) => sess[p] # 0
    /\ publisher[p] # "none" => main[p] \in {"term", "closing"}
    /\ reg[p].pc # "idle" => /\ Running(p)
                             /\ reg[p].session <= sess[p]
                             /\ reg[p].state \in {state[p], "DRAINING"}
    /\ reg[p].pc = "set" /\ reg[p].session = sess[p] =>
          Owner(node[IdOf[p]]) = <<p, sess[p]>>

IInv == TypeOK /\ \A p \in Processes : CallOK(p)

LEMMA InitIInv == Init => IInv
<1> SUFFICES ASSUME Init PROVE IInv  OBVIOUS
<1> USE MembershipAssumption DEF Init, RegistryInit, DiscoveryInit
<1>1. Nobody \in [Ids -> Infos]  BY DEF Nobody, Infos
<1>2. reg \in [Processes -> Regs] /\ disc \in Discs
  BY <1>1 DEF NoCall, Regs, Sessions, Discs
<1>3. TypeOK
  <2>1. 0 \in Sessions /\ faults \in 0 .. MaxFaults  BY DEF Sessions
  <2> QED BY <1>1, <1>2, <2>1 DEF TypeOK, Regs, Discs, MainStates
<1>4. \A p \in Processes : CallOK(p)  BY DEF CallOK, Running, NoCall
<1> QED BY <1>3, <1>4 DEF IInv

-----------------------------------------------------------------------------
(* Discovery only reads nodes                                              *)

\* _update_workers makes a table of workers of one.
LEMMA UpdatedType ==
    ASSUME proxy \in [Ids -> Infos], NEW workers \in [Ids -> Infos]
    PROVE  Updated(workers) \in [Ids -> Infos]
<1>1. ASSUME NEW i \in Ids, workers[i] # Absent, proxy[i] # Absent
      PROVE  [proxy[i] EXCEPT !.state = workers[i].state] \in Infos
  BY <1>1 DEF Infos
<1> QED BY <1>1 DEF Updated

LEMMA DiscoveryTypes ==
    ASSUME TypeOK, DiscoveryStep \/ RefreshFails
    PROVE  TypeOK' /\ UNCHANGED <<elsewhere, faults>>
<1>0. disc \in Discs /\ published \in [Ids -> Infos] /\ proxy \in [Ids -> Infos]
      /\ Nobody \in [Ids -> Infos]
  BY DEF TypeOK, Discs, Nobody, Infos
<1>u. UNCHANGED <<elsewhere, faults, linked>>
  BY DEF DiscoveryStep, RefreshFails, Refresh, WatchWorkers, ReadWorker, Publish
<1>1. wakeup' \in BOOLEAN /\ watched' \subseteq Ids /\ moved' \subseteq Ids
  BY <1>0 DEF DiscoveryStep, RefreshFails, Refresh, WatchWorkers, ReadWorker, Publish,
              TypeOK, Discs
<1>2. published' \in [Ids -> Infos] /\ proxy' \in [Ids -> Infos]
  <2>1. CASE Publish
    <3>1. disc.found \in [Ids -> Infos]  BY <1>0 DEF Discs
    <3> QED BY <1>0, <2>1, <3>1, UpdatedType DEF Publish
  <2>2. CASE ~Publish
    BY <1>0, <2>2 DEF DiscoveryStep, RefreshFails, Refresh, WatchWorkers, ReadWorker
  <2> QED BY <2>1, <2>2
<1>3. disc' \in Discs
  <2>1. CASE Refresh \/ RefreshFails
    BY <1>0, <2>1 DEF Refresh, RefreshFails, Discs
  <2>2. CASE WatchWorkers \/ Publish
    BY <1>0, <2>2 DEF WatchWorkers, Publish, Discs
  <2>3. ASSUME NEW i \in Ids, ReadWorker(i) PROVE disc' \in Discs
    <3>1. (IF node[i] = NoNode THEN Absent ELSE Info(i)) \in Infos
      BY DEF TypeOK, Info, Infos
    <3>2. PICK x \in Infos : disc' = [disc EXCEPT !.todo = @ \ {i}, !.found[i] = x]
      BY <2>3, <3>1 DEF ReadWorker
    <3> QED BY <1>0, <3>2 DEF Discs
  <2> QED BY <2>1, <2>2, <2>3 DEF DiscoveryStep
<1> QED BY <1>u, <1>1, <1>2, <1>3 DEF TypeOK, Discs, elsewhere, procVars, regVars

LEMMA DiscoverySteps ==
    ASSUME IInv, DiscoveryStep \/ RefreshFails \/ Disconnect \/ Reconnect \/ ZooKeeperDown
    PROVE  IInv'
<1> USE MembershipAssumption DEF IInv
<1>1. CASE DiscoveryStep \/ RefreshFails
  <2>1. TypeOK' /\ UNCHANGED <<main, publisher, state, reg, sess, node, faults>>
    BY <1>1, DiscoveryTypes DEF elsewhere, procVars, regVars
  <2> QED BY <2>1 DEF CallOK, Running
<1>2. CASE Disconnect \/ Reconnect \/ ZooKeeperDown
  <2>0. /\ UNCHANGED <<main, publisher, state, registered, reg, wake, sess, node, poolVars>>
        /\ zkUp' \in BOOLEAN /\ linked' \in BOOLEAN /\ wakeup' \in BOOLEAN
    BY <1>2 DEF Disconnect, Reconnect, ZooKeeperDown, elsewhere, procVars, regVars, TypeOK
  <2>f. faults' = faults \/ (faults < MaxFaults /\ faults' \in {faults + 1, MaxFaults})
    BY <1>2 DEF Disconnect, Reconnect, ZooKeeperDown
  <2>1. /\ UNCHANGED <<main, publisher, state, registered, reg, wake, sess, node, poolVars>>
        /\ faults' \in 0 .. MaxFaults /\ faults <= faults'
        /\ zkUp' \in BOOLEAN /\ linked' \in BOOLEAN /\ wakeup' \in BOOLEAN
    BY <2>0, <2>f DEF TypeOK
  <2>2. TypeOK'  BY <2>1 DEF TypeOK, poolVars
  <2>3. ASSUME NEW p \in Processes PROVE CallOK(p)'
    <3>1. CallOK(p) /\ sess[p] \in Nat /\ faults \in Nat /\ faults' \in Nat
      BY <2>1 DEF TypeOK, Sessions
    <3>2. sess[p] <= faults' + 1  BY <2>1, <3>1 DEF CallOK
    <3> QED BY <2>1, <3>1, <3>2 DEF CallOK, Running
  <2> QED BY <2>2, <2>3
<1> QED BY <1>1, <1>2

-----------------------------------------------------------------------------
(* Worker processes                                                        *)

\* A step of process p that keeps the nodes of the others.
LEMMA ProcessStep ==
    ASSUME IInv, NEW p \in Processes,
           \A q \in Processes \ {p} :
               /\ main'[q] = main[q] /\ publisher'[q] = publisher[q] /\ state'[q] = state[q]
               /\ reg'[q] = reg[q] /\ sess'[q] = sess[q],
           main' \in [Processes -> MainStates],
           publisher' \in [Processes -> {"none", "waiting", "writing", "done"}],
           state' \in [Processes -> {"READY", "DRAINING"}],
           registered' \in [Processes -> Sessions],
           reg' \in [Processes -> Regs],
           wake' \subseteq Processes,
           sess' \in [Processes -> Sessions],
           node' \in [Ids -> Nodes],
           faults' \in 0 .. MaxFaults, faults <= faults',
           zkUp' \in BOOLEAN, wakeup' \in BOOLEAN, UNCHANGED <<linked, poolVars>>,
           \A i \in Ids, q \in Processes \ {p} :
               Owner(node[i]) = <<q, sess[q]>> /\ sess[q] # 0 =>
                   Owner(node'[i]) = Owner(node[i]),
           CallOK(p)'
    PROVE  IInv'
<1> USE MembershipAssumption
<1>1. TypeOK'  BY DEF IInv, TypeOK, Nodes, Regs, poolVars
<1>2. ASSUME NEW q \in Processes \ {p} PROVE CallOK(q)'
  <2>1. CallOK(q) /\ sess[q] \in Nat /\ faults \in Nat /\ faults' \in Nat
        /\ IdOf[q] \in Ids
    BY DEF IInv, TypeOK, Sessions
  <2>2. sess[q] <= faults' + 1  BY <2>1 DEF CallOK
  <2>3. reg[q].pc = "set" /\ reg[q].session = sess[q] =>
          Owner(node'[IdOf[q]]) = <<q, sess[q]>>
    BY <2>1 DEF CallOK
  <2> QED BY <2>1, <2>2, <2>3 DEF CallOK, Running, Owner
<1> QED BY <1>1, <1>2 DEF IInv

\* A step of p that has nothing to do with ZooKeeper's state.
LEMMA LocalStep ==
    ASSUME IInv, NEW p \in Processes,
           \A q \in Processes \ {p} :
               /\ main'[q] = main[q] /\ publisher'[q] = publisher[q] /\ state'[q] = state[q]
               /\ reg'[q] = reg[q],
           main' \in [Processes -> MainStates],
           publisher' \in [Processes -> {"none", "waiting", "writing", "done"}],
           state' \in [Processes -> {"READY", "DRAINING"}],
           registered' \in [Processes -> Sessions],
           reg' \in [Processes -> Regs],
           wake' \subseteq Processes,
           faults' = faults \/ (faults < MaxFaults /\ faults' = faults + 1),
           UNCHANGED <<sess, node, zkUp, wakeup, linked, poolVars>>,
           CallOK(p)'
    PROVE  IInv'
<1>1. faults' \in 0 .. MaxFaults /\ faults <= faults'
  BY MembershipAssumption DEF IInv, TypeOK
<1>2. /\ sess' \in [Processes -> Sessions] /\ node' \in [Ids -> Nodes]
      /\ zkUp' \in BOOLEAN /\ wakeup' \in BOOLEAN
  BY DEF IInv, TypeOK, Nodes
<1> QED BY <1>1, <1>2, ProcessStep

\* What is known of process p before its step.
LEMMA ProcessFacts ==
    ASSUME IInv, NEW p \in Processes
    PROVE  /\ CallOK(p) /\ IdOf[p] \in Ids /\ reg[p] \in Regs
           /\ sess[p] \in Nat /\ sess[p] \in Sessions /\ faults \in Nat
           /\ main \in [Processes -> MainStates]
           /\ publisher \in [Processes -> {"none", "waiting", "writing", "done"}]
           /\ state \in [Processes -> {"READY", "DRAINING"}]
           /\ registered \in [Processes -> Sessions] /\ sess \in [Processes -> Sessions]
           /\ reg \in [Processes -> Regs] /\ wake \subseteq Processes
           /\ node \in [Ids -> Nodes]
BY MembershipAssumption DEF IInv, TypeOK, Regs, Nodes, Sessions

\* The end of a call, with whatever session it leaves behind.
LEMMA EndTypes ==
    ASSUME IInv, NEW p \in Processes, Succeed(p) \/ FailCall(p)
    PROVE  /\ registered' \in [Processes -> Sessions]
           /\ reg' \in [Processes -> Regs] /\ reg'[p].pc = "idle"
           /\ publisher' \in [Processes -> {"none", "waiting", "writing", "done"}]
           /\ publisher'[p] # "none" => publisher[p] # "none"
           /\ \A q \in Processes \ {p} : reg'[q] = reg[q] /\ publisher'[q] = publisher[q]
<1>0. /\ reg[p].session \in Sessions /\ 0 \in Sessions /\ NoCall \in Regs
      /\ NoCall.pc = "idle"
  BY ProcessFacts, MembershipAssumption DEF Regs, Sessions, NoCall
<1>1. EndCall(p) /\ registered' \in [Processes -> Sessions]
  BY <1>0, ProcessFacts DEF Succeed, FailCall
<1>2. /\ reg' = [reg EXCEPT ![p] = NoCall]
      /\ publisher' = [publisher EXCEPT ![p] =
                          IF publisher[p] = "writing" THEN "done" ELSE publisher[p]]
  BY <1>1 DEF EndCall
<1> QED BY <1>0, <1>1, <1>2, ProcessFacts

\* A call that ends leaves a process in order.
LEMMA IdleOK ==
    ASSUME IInv, NEW p \in Processes, Succeed(p) \/ FailCall(p),
           UNCHANGED <<main, state, sess>>,
           faults' = faults \/ (faults < MaxFaults /\ faults' = faults + 1)
    PROVE  CallOK(p)'
<1>1. /\ CallOK(p) /\ sess[p] \in Nat /\ faults \in Nat
      /\ reg'[p].pc = "idle" /\ (publisher'[p] # "none" => publisher[p] # "none")
  BY ProcessFacts, EndTypes
<1>2. sess[p] <= faults' + 1  BY <1>1 DEF CallOK
<1> QED BY <1>1, <1>2 DEF CallOK, Running

\* SIGTERM.
LEMMA TerminateStep == ASSUME IInv, NEW p \in Processes, Terminate(p) PROVE IInv'
<1>1. /\ main[p] = "serving" /\ main' = [main EXCEPT ![p] = "term"]
      /\ publisher' = [publisher EXCEPT ![p] = "waiting"]
      /\ UNCHANGED <<state, registered, reg, wake, sess, node, faults, zkUp, linked, wakeup,
                     poolVars>>
  BY DEF Terminate, regVars, zkVars
<1>2. CallOK(p)'  BY <1>1, ProcessFacts DEF CallOK, Running
<1> QED BY <1>1, <1>2, ProcessFacts, LocalStep DEF MainStates

\* A call begins: for the session the client has now, with the current state.
LEMMA BeginStep ==
    ASSUME IInv, NEW p \in Processes, main[p] # "closing",
           RegistrationLoop(p) \/ SetState(p)
    PROVE  IInv'
<1>1. PICK st \in {"READY", "DRAINING"} :
        /\ reg' = [reg EXCEPT ![p] = Ensure(p, st)]
        /\ state' = [state EXCEPT ![p] = st]
    <2>1. CASE RegistrationLoop(p)
      <3>1. state' = [state EXCEPT ![p] = state[p]]
        BY <2>1, ProcessFacts DEF RegistrationLoop
      <3> QED BY <2>1, <3>1, ProcessFacts DEF RegistrationLoop
    <2>2. CASE SetState(p)  BY <2>2 DEF SetState
    <2> QED BY <2>1, <2>2
<1>2. /\ \A q \in Processes \ {p} : publisher'[q] = publisher[q]
      /\ publisher' \in [Processes -> {"none", "waiting", "writing", "done"}]
      /\ wake' \subseteq Processes
      /\ UNCHANGED <<main, registered, sess, node, faults, zkUp, linked, wakeup, poolVars>>
  BY ProcessFacts DEF RegistrationLoop, SetState, procVars, zkVars, CallOK, Running
<1>3. Ensure(p, st) \in Regs /\ Ensure(p, st).pc = "create"
      /\ Ensure(p, st).session = sess[p] /\ Ensure(p, st).state = st
  BY ProcessFacts DEF Ensure, Regs
<1>4. /\ reg' \in [Processes -> Regs] /\ state' \in [Processes -> {"READY", "DRAINING"}]
      /\ reg'[p].pc = "create" /\ reg'[p].session = sess[p] /\ reg'[p].state = st
      /\ state'[p] = st
      /\ \A q \in Processes \ {p} : reg'[q] = reg[q] /\ state'[q] = state[q]
  BY <1>1, <1>3, ProcessFacts
<1>5. Running(p) /\ UNCHANGED main
  BY <1>2, ProcessFacts DEF RegistrationLoop, SetState, CallOK, Running, procVars
<1>6. publisher'[p] # "none" => publisher[p] # "none"
  BY ProcessFacts DEF RegistrationLoop, SetState, procVars
<1>7. CallOK(p)'  BY <1>2, <1>4, <1>5, <1>6, ProcessFacts DEF CallOK, Running
<1> QED BY <1>2, <1>4, <1>5, <1>7, ProcessFacts, LocalStep

\* set_state on a registry that is closed raises, and the publisher ends.
LEMMA ClosedStep ==
    ASSUME IInv, NEW p \in Processes, main[p] = "closing",
           RegistrationLoop(p) \/ SetState(p)
    PROVE  IInv'
<1>1. /\ publisher[p] = "waiting" /\ publisher' = [publisher EXCEPT ![p] = "done"]
      /\ UNCHANGED <<main, state, registered, reg, wake, sess, node, faults, zkUp, linked,
                     wakeup, poolVars>>
  BY DEF RegistrationLoop, SetState, zkVars
<1>2. CallOK(p)'  BY <1>1, ProcessFacts DEF CallOK, Running
<1> QED BY <1>1, <1>2, ProcessFacts, LocalStep

\* The server has stopped, deregister begins.
LEMMA StopServerStep == ASSUME IInv, NEW p \in Processes, StopServer(p) PROVE IInv'
<1>1. /\ main[p] = "term" /\ main' = [main EXCEPT ![p] = "closing"]
      /\ wake' = wake \cup {p}
      /\ UNCHANGED <<publisher, state, registered, reg, sess, node, faults, zkUp, linked,
                     wakeup, poolVars>>
  BY DEF StopServer, zkVars
<1>2. main' \in [Processes -> MainStates]  BY <1>1, ProcessFacts DEF MainStates
<1>3. CallOK(p)'  BY <1>1, ProcessFacts DEF CallOK, Running
<1> QED BY <1>1, <1>2, <1>3, ProcessFacts, LocalStep

\* get: the node is this session's, or the call fails.
LEMMA GetStep == ASSUME IInv, NEW p \in Processes, Get(p) PROVE IInv'
<1>1. UNCHANGED <<main, state, wake, sess, node, faults, zkUp, linked, wakeup, poolVars>>
  BY DEF Get, zkVars
<1>2. CASE Succeed(p) \/ FailCall(p)
  <2>1. CallOK(p)'  BY <1>1, <1>2, IdleOK
  <2> QED BY <1>1, <1>2, <2>1, EndTypes, ProcessFacts, LocalStep
<1>3. CASE ~(Succeed(p) \/ FailCall(p))
  <2>1. /\ reg' = [reg EXCEPT ![p].pc = "set"] /\ reg[p].pc = "get"
        /\ Owns(p, node[IdOf[p]]) /\ UNCHANGED <<publisher, registered>>
    BY <1>3 DEF Get
  <2>2. /\ reg'[p] = [reg[p] EXCEPT !.pc = "set"]
        /\ \A q \in Processes \ {p} : reg'[q] = reg[q]
        /\ DOMAIN reg' = Processes
    BY <2>1, ProcessFacts
  <2>3. /\ reg'[p] \in Regs /\ reg'[p].pc = "set" /\ reg'[p].session = reg[p].session
        /\ reg'[p].state = reg[p].state
    BY <2>2, ProcessFacts DEF Regs
  <2>4. reg' \in [Processes -> Regs]
    BY <2>1, <2>3, ProcessFacts
  <2>5. CallOK(p)'
    BY <1>1, <2>1, <2>3, ProcessFacts DEF CallOK, Running, Owns, Owner
  <2> QED BY <1>1, <2>1, <2>2, <2>4, <2>5, ProcessFacts, LocalStep
<1> QED BY <1>2, <1>3

LEMMA CallLostStep == ASSUME IInv, NEW p \in Processes, CallLost(p) PROVE IInv'
<1>1. /\ FailCall(p) /\ wake' = wake \cup {p}
      /\ faults < MaxFaults /\ faults' = faults + 1
      /\ UNCHANGED <<main, state, sess, node, zkUp, linked, wakeup, poolVars>>
  BY DEF CallLost
<1>2. CallOK(p)'  BY <1>1, IdleOK
<1> QED BY <1>1, <1>2, EndTypes, ProcessFacts, LocalStep

\* The process starts with its first session.
LEMMA StartStep == ASSUME IInv, NEW p \in Processes, StartWorker(p) PROVE IInv'
<1> DEFINE r == [pc |-> "create", session |-> 1, state |-> state[p]]
<1>1. /\ main[p] = "off" /\ main' = [main EXCEPT ![p] = "serving"]
      /\ sess' = [sess EXCEPT ![p] = 1] /\ reg' = [reg EXCEPT ![p] = r]
      /\ wake' = wake \cup {p}
      /\ UNCHANGED <<publisher, state, registered, node, faults, zkUp, linked, wakeup,
                     poolVars>>
  BY DEF StartWorker
<1>2. 1 \in Sessions  BY MembershipAssumption DEF Sessions
<1>3. r \in Regs /\ r.pc = "create" /\ r.session = 1 /\ r.state = state[p]
  BY <1>2, ProcessFacts DEF Regs
<1> HIDE DEF r
<1>4. /\ reg' \in [Processes -> Regs] /\ sess' \in [Processes -> Sessions]
      /\ reg'[p] = r /\ sess'[p] = 1 /\ main'[p] = "serving"
      /\ main' \in [Processes -> MainStates]
      /\ wake' \subseteq Processes
      /\ \A q \in Processes \ {p} : /\ reg'[q] = reg[q] /\ sess'[q] = sess[q]
                                    /\ main'[q] = main[q]
  BY <1>1, <1>2, <1>3, ProcessFacts DEF MainStates
<1>5. publisher[p] = "none"  BY <1>1, ProcessFacts DEF CallOK
<1>6. CallOK(p)'
  BY <1>1, <1>3, <1>4, <1>5, ProcessFacts DEF CallOK, Running
<1>7. /\ faults' \in 0 .. MaxFaults /\ faults <= faults' /\ zkUp' \in BOOLEAN
      /\ wakeup' \in BOOLEAN /\ node' \in [Ids -> Nodes]
  BY <1>1, ProcessFacts DEF IInv, TypeOK
<1> QED BY <1>1, <1>4, <1>6, <1>7, ProcessFacts, ProcessStep

-----------------------------------------------------------------------------
(* Steps that write nodes                                                  *)

LEMMA WriteTypes ==
    ASSUME IInv, NEW i \in Ids, NEW new \in Nodes, Write(i, new)
    PROVE  /\ node' \in [Ids -> Nodes] /\ wakeup' \in BOOLEAN
           /\ node'[i] = new /\ \A k \in Ids \ {i} : node'[k] = node[k]
<1>1. node \in [Ids -> Nodes] /\ wakeup \in BOOLEAN  BY DEF IInv, TypeOK, Nodes
<1> QED BY <1>1 DEF Write

\* The nodes that disappear with a session are that session's.
LEMMA DropTypes ==
    ASSUME IInv, NEW p \in Processes, DropSession(p)
    PROVE  /\ node' \in [Ids -> Nodes] /\ wakeup' \in BOOLEAN
           /\ \A i \in Ids : \/ node'[i] = node[i]
                             \/ node'[i] = NoNode /\ Owner(node[i]) = <<p, sess[p]>>
           /\ \A i \in Ids, q \in Processes \ {p} :
                 Owner(node[i]) = <<q, sess[q]>> /\ sess[q] # 0 =>
                     Owner(node'[i]) = Owner(node[i])
<1>1. node \in [Ids -> Nodes] /\ wakeup \in BOOLEAN  BY DEF IInv, TypeOK, Nodes
<1>2. NoNode \in Nodes  BY DEF Nodes
<1>3. /\ node' = [i \in Ids |-> IF i \in Owned(p) THEN NoNode ELSE node[i]]
      /\ wakeup' \in BOOLEAN
  BY <1>1 DEF DropSession
<1>4. \A i \in Ids : \/ node'[i] = node[i]
                     \/ node'[i] = NoNode /\ Owner(node[i]) = <<p, sess[p]>>
  BY <1>3 DEF Owned
<1>5. node' \in [Ids -> Nodes]  BY <1>1, <1>2, <1>3
<1>6. ASSUME NEW i \in Ids, NEW q \in Processes \ {p},
             Owner(node[i]) = <<q, sess[q]>>
      PROVE  Owner(node'[i]) = Owner(node[i])
  BY <1>4, <1>6
<1> QED BY <1>3, <1>4, <1>5, <1>6

\* create, of a node that does not exist.
LEMMA CreateStep == ASSUME IInv, NEW p \in Processes, Create(p) PROVE IInv'
<1>1. /\ reg[p].pc = "create"
      /\ UNCHANGED <<main, state, wake, sess, faults, zkUp, linked, poolVars>>
  BY DEF Create
<1>2. CASE node[IdOf[p]] = NoNode /\ Write(IdOf[p], Entry(p)) /\ Succeed(p)
  <2>1. Entry(p) \in Nodes
    BY <1>1, ProcessFacts DEF Entry, Nodes, CallOK
  <2>2. /\ node' \in [Ids -> Nodes] /\ wakeup' \in BOOLEAN
        /\ \A i \in Ids \ {IdOf[p]} : node'[i] = node[i]
    BY <1>2, <2>1, ProcessFacts, WriteTypes
  <2>3. ASSUME NEW i \in Ids, NEW q \in Processes \ {p},
               Owner(node[i]) = <<q, sess[q]>>, sess[q] # 0
        PROVE  Owner(node'[i]) = Owner(node[i])
    <3>1. i # IdOf[p]  BY <1>2, <2>3 DEF Owner, NoNode
    <3> QED BY <2>2, <3>1
  <2>4. CallOK(p)'  BY <1>1, <1>2, IdleOK
  <2>5. faults' \in 0 .. MaxFaults /\ faults <= faults' /\ zkUp' \in BOOLEAN
    BY <1>1 DEF IInv, TypeOK
  <2> QED BY <1>1, <1>2, <2>2, <2>3, <2>4, <2>5, EndTypes, ProcessFacts, ProcessStep
<1>3. CASE /\ reg' = [reg EXCEPT ![p].pc = "get"]
           /\ UNCHANGED <<node, wakeup, publisher, registered>>
  <2>1. /\ reg'[p] = [reg[p] EXCEPT !.pc = "get"]
        /\ \A q \in Processes \ {p} : reg'[q] = reg[q]
    BY <1>3, ProcessFacts
  <2>2. /\ reg'[p] \in Regs /\ reg'[p].pc = "get" /\ reg'[p].session = reg[p].session
        /\ reg'[p].state = reg[p].state
    BY <2>1, ProcessFacts DEF Regs
  <2>3. reg' \in [Processes -> Regs]  BY <1>3, <2>2, ProcessFacts
  <2>4. CallOK(p)'  BY <1>1, <1>3, <2>2, ProcessFacts DEF CallOK, Running
  <2> QED BY <1>1, <1>3, <2>1, <2>3, <2>4, ProcessFacts, LocalStep
<1> QED BY <1>2, <1>3 DEF Create

\* The node that set leaves: the owner stays.
SetTo(n, p) == [n EXCEPT !.addr = p, !.state = reg[p].state]

LEMMA SetNode ==
    ASSUME IInv, NEW p \in Processes, reg[p].pc # "idle", NEW n \in Nodes, n # NoNode
    PROVE  /\ SetTo(n, p) \in Nodes /\ Owner(SetTo(n, p)) = Owner(n)
           /\ SetTo(n, p).addr = p /\ SetTo(n, p).state = reg[p].state
<1> DEFINE new == SetTo(n, p)
<1>1. n \in [owner : Processes, session : Sessions, addr : Processes,
             state : {"READY", "DRAINING"}]
  BY DEF Nodes
<1>2. reg[p].state \in {"READY", "DRAINING"}  BY ProcessFacts DEF CallOK
<1>3. /\ new \in [owner : Processes, session : Sessions, addr : Processes,
                  state : {"READY", "DRAINING"}]
      /\ new.owner = n.owner /\ new.session = n.session
      /\ new.addr = p /\ new.state = reg[p].state
  BY <1>1, <1>2 DEF SetTo
<1> QED BY <1>3 DEF Nodes, Owner

\* set, of whatever node is there: its owner stays.
LEMMA SetStep == ASSUME IInv, NEW p \in Processes, Set(p) PROVE IInv'
<1> DEFINE n == node[IdOf[p]]
           new == SetTo(n, p)
<1>1. /\ reg[p].pc = "set"
      /\ UNCHANGED <<main, state, wake, sess, faults, zkUp, linked, poolVars>>
  BY DEF Set
<1>2. CASE n # NoNode /\ Write(IdOf[p], new) /\ Succeed(p)
  <2>1. new \in Nodes /\ Owner(new) = Owner(n)
    <3>1. n \in Nodes /\ n # NoNode /\ reg[p].pc # "idle"  BY <1>1, <1>2, ProcessFacts
    <3> QED BY <3>1, SetNode
  <2> HIDE DEF new
  <2>2. /\ node' \in [Ids -> Nodes] /\ wakeup' \in BOOLEAN /\ node'[IdOf[p]] = new
        /\ \A i \in Ids \ {IdOf[p]} : node'[i] = node[i]
    BY <1>2, <2>1, ProcessFacts, WriteTypes
  <2>3. \A i \in Ids : Owner(node'[i]) = Owner(node[i])  BY <2>1, <2>2
  <2>4. CallOK(p)'  BY <1>1, <1>2, IdleOK
  <2>5. faults' \in 0 .. MaxFaults /\ faults <= faults' /\ zkUp' \in BOOLEAN
    BY <1>1 DEF IInv, TypeOK
  <2> QED BY <1>1, <1>2, <2>2, <2>3, <2>4, <2>5, EndTypes, ProcessFacts, ProcessStep
<1>3. CASE FailCall(p) /\ UNCHANGED <<node, wakeup>>
  <2>1. CallOK(p)'  BY <1>1, <1>3, IdleOK
  <2> QED BY <1>1, <1>3, <2>1, EndTypes, ProcessFacts, LocalStep
<1> QED BY <1>2, <1>3 DEF Set, SetTo

\* A call under way keeps the session it started with, which is now an old one.
LEMMA SessionLostStep == ASSUME IInv, NEW p \in Processes, SessionLost(p) PROVE IInv'
<1>1. /\ Running(p) /\ DropSession(p)
      /\ faults < MaxFaults /\ faults' = faults + 1
      /\ sess' = [sess EXCEPT ![p] = sess[p] + 1] /\ wake' = wake \cup {p}
      /\ UNCHANGED <<main, publisher, state, registered, reg, zkUp, linked, poolVars>>
  BY DEF SessionLost, procVars
<1>2. sess[p] + 1 \in Sessions /\ sess[p] + 1 <= faults' + 1 /\ sess[p] + 1 # 0
  BY <1>1, ProcessFacts, MembershipAssumption DEF CallOK, Sessions
<1>3. /\ sess' \in [Processes -> Sessions] /\ sess'[p] = sess[p] + 1
      /\ \A q \in Processes \ {p} : sess'[q] = sess[q]
  BY <1>1, <1>2, ProcessFacts
<1>4. reg[p].pc # "idle" => reg[p].session <= sess'[p] /\ reg[p].session # sess'[p]
  <2>1. reg[p].session \in Nat
    BY ProcessFacts, MembershipAssumption DEF Regs, Sessions
  <2> QED BY <1>3, <2>1, ProcessFacts DEF CallOK
<1>5. CallOK(p)'  BY <1>1, <1>2, <1>3, <1>4, ProcessFacts DEF CallOK, Running
<1>6. faults' \in 0 .. MaxFaults /\ faults <= faults' /\ zkUp' \in BOOLEAN
  BY <1>1, MembershipAssumption DEF IInv, TypeOK
<1> QED BY <1>1, <1>3, <1>5, <1>6, DropTypes, ProcessFacts, ProcessStep

\* The memory of a process that is gone.
LEMMA ExitTypes ==
    ASSUME IInv, NEW p \in Processes, Exit(p)
    PROVE  /\ main' \in [Processes -> MainStates]
           /\ publisher' \in [Processes -> {"none", "waiting", "writing", "done"}]
           /\ state' \in [Processes -> {"READY", "DRAINING"}]
           /\ registered' \in [Processes -> Sessions]
           /\ reg' \in [Processes -> Regs] /\ wake' \subseteq Processes
           /\ main'[p] = "gone" /\ publisher'[p] = "none" /\ reg'[p].pc = "idle"
           /\ \A q \in Processes \ {p} :
                 /\ main'[q] = main[q] /\ publisher'[q] = publisher[q]
                 /\ state'[q] = state[q] /\ reg'[q] = reg[q]
<1>1. NoCall \in Regs /\ NoCall.pc = "idle" /\ 0 \in Sessions
  BY MembershipAssumption DEF NoCall, Regs, Sessions
<1> QED BY <1>1, ProcessFacts DEF Exit, MainStates

LEMMA GoneSteps ==
    ASSUME IInv, NEW p \in Processes, Deregister(p) \/ Kill(p) \/ Forget(p) PROVE IInv'
<1>0. /\ 0 \in Sessions /\ zkUp \in BOOLEAN /\ wakeup \in BOOLEAN
      /\ faults \in 0 .. MaxFaults
  BY MembershipAssumption DEF IInv, TypeOK, Sessions
<1>1. CASE Deregister(p)
  <2>1. /\ Exit(p) /\ sess' = [sess EXCEPT ![p] = 0]
        /\ DropSession(p) \/ UNCHANGED <<node, wakeup>>
        /\ UNCHANGED <<faults, zkUp, linked, poolVars>>
    BY <1>1 DEF Deregister
  <2>2. /\ sess' \in [Processes -> Sessions] /\ sess'[p] = 0
        /\ \A q \in Processes \ {p} : sess'[q] = sess[q]
    BY <1>0, <2>1, ProcessFacts
  <2>3. CallOK(p)'  BY <2>1, <2>2, ExitTypes, ProcessFacts DEF CallOK, Running
  <2>4. /\ node' \in [Ids -> Nodes] /\ wakeup' \in BOOLEAN
        /\ \A i \in Ids, q \in Processes \ {p} :
              Owner(node[i]) = <<q, sess[q]>> /\ sess[q] # 0 =>
                  Owner(node'[i]) = Owner(node[i])
    BY <1>0, <2>1, DropTypes, ProcessFacts
  <2>5. faults' \in 0 .. MaxFaults /\ faults <= faults' /\ zkUp' \in BOOLEAN
    BY <1>0, <2>1
  <2> QED BY <2>1, <2>2, <2>3, <2>4, <2>5, ExitTypes, ProcessStep
<1>2. CASE Kill(p)
  <2>1. /\ Exit(p) /\ faults < MaxFaults /\ faults' = faults + 1
        /\ UNCHANGED <<sess, node, zkUp, linked, wakeup, poolVars>>
    BY <1>2 DEF Kill
  <2>2. sess[p] <= faults' + 1  BY <2>1, ProcessFacts DEF CallOK
  <2>3. CallOK(p)'  BY <2>1, <2>2, ExitTypes DEF CallOK, Running
  <2> QED BY <2>1, <2>3, ExitTypes, LocalStep
<1>3. CASE Forget(p)
  <2>1. /\ main[p] = "gone" /\ DropSession(p) /\ sess' = [sess EXCEPT ![p] = 0]
        /\ UNCHANGED <<main, publisher, state, registered, reg, wake, faults, zkUp, linked,
                       poolVars>>
    BY <1>3 DEF Forget, procVars, regVars
  <2>2. /\ sess' \in [Processes -> Sessions] /\ sess'[p] = 0
        /\ \A q \in Processes \ {p} : sess'[q] = sess[q]
    BY <1>0, <2>1, ProcessFacts
  <2>3. CallOK(p)'  BY <2>1, <2>2, ProcessFacts DEF CallOK, Running
  <2>4. faults' \in 0 .. MaxFaults /\ faults <= faults' /\ zkUp' \in BOOLEAN
    BY <1>0, <2>1
  <2> QED BY <2>1, <2>2, <2>3, <2>4, DropTypes, ProcessFacts, ProcessStep
<1> QED BY <1>1, <1>2, <1>3

LEMMA NextIInv == IInv /\ [Next]_vars => IInv'
<1> SUFFICES ASSUME IInv, [Next]_vars PROVE IInv'  OBVIOUS
<1>1. ASSUME NEW p \in Processes, RegistryStep(p) \/ CallLost(p)
      PROVE  IInv'
  BY <1>1, BeginStep, ClosedStep, CreateStep, GetStep, SetStep, CallLostStep DEF RegistryStep
<1>2. ASSUME NEW p \in Processes,
             \/ StartWorker(p) \/ SessionLost(p) \/ Terminate(p)
             \/ Shutdown(p) \/ Kill(p) \/ Forget(p)
      PROVE  IInv'
  BY <1>2, StartStep, SessionLostStep, TerminateStep, StopServerStep, GoneSteps DEF Shutdown
<1>3. CASE DiscoveryStep \/ RefreshFails \/ Disconnect \/ Reconnect \/ ZooKeeperDown
  BY <1>3, DiscoverySteps
<1>4. CASE UNCHANGED vars
  BY <1>4 DEF vars, IInv, TypeOK, CallOK, Running
<1> QED BY <1>1, <1>2, <1>3, <1>4 DEF Next

\* The registry of the model, as the code of _ensure_registered and its callers
\* drive it, satisfies the inductive invariant in every reachable state.
THEOREM InvariantHolds == Spec => []IInv
BY InitIInv, NextIInv, PTL DEF Spec

\* Every process, session, node and table of workers stays what TypeOK says, for
\* any number of workers and faults: sessions are not numbered past the bound.
THEOREM TypeCorrect == Spec => []TypeOK
<1>1. IInv => TypeOK  BY DEF IInv
<1> QED BY <1>1, InvariantHolds, PTL

-----------------------------------------------------------------------------
(* What a step may do to a node                                            *)

\* The nodes of session s of process p are dropped, or p creates a node where
\* there is none, or it sets the data of the one that is there.
Dropped(i, p) == sess[p] # 0 /\ Owner(node[i]) = <<p, sess[p]>> /\ node'[i] = NoNode
Created(i, p) == node[i] = NoNode /\ node'[i] = Entry(p)
Rewritten(i, p) ==
    /\ reg[p].pc = "set" /\ node[i] # NoNode
    /\ node'[i] = SetTo(node[i], p)

LEMMA NodeSteps ==
    ASSUME IInv, Next, NEW i \in Ids, node'[i] # node[i]
    PROVE  \E p \in Processes :
              \/ Dropped(i, p)
              \/ IdOf[p] = i /\ reg[p].pc # "idle" /\ (Created(i, p) \/ Rewritten(i, p))
<1>1. ASSUME NEW p \in Processes, Create(p)
      PROVE  IdOf[p] = i /\ reg[p].pc # "idle" /\ Created(i, p)
  <2>1. node[IdOf[p]] = NoNode /\ Write(IdOf[p], Entry(p)) /\ reg[p].pc = "create"
    BY <1>1 DEF Create
  <2>2. node' = [node EXCEPT ![IdOf[p]] = Entry(p)]  BY <2>1 DEF Write
  <2> QED BY <2>1, <2>2, ProcessFacts DEF Created
<1>2. ASSUME NEW p \in Processes, Set(p)
      PROVE  IdOf[p] = i /\ reg[p].pc # "idle" /\ Rewritten(i, p)
  <2>1. /\ node[IdOf[p]] # NoNode /\ reg[p].pc = "set"
        /\ Write(IdOf[p], SetTo(node[IdOf[p]], p))
    BY <1>2 DEF Set, SetTo
  <2>2. node' = [node EXCEPT ![IdOf[p]] = SetTo(node[IdOf[p]], p)]
    BY <2>1 DEF Write
  <2> QED BY <2>1, <2>2, ProcessFacts DEF Rewritten
<1>3. ASSUME NEW p \in Processes, SessionLost(p) \/ Deregister(p) \/ Forget(p)
      PROVE  Dropped(i, p)
  <2>1. DropSession(p)  BY <1>3 DEF SessionLost, Deregister, Forget
  <2>2. sess[p] # 0
    BY <1>3, ProcessFacts DEF SessionLost, Deregister, Forget, CallOK, Running
  <2> QED BY <2>1, <2>2, DropTypes DEF Dropped
<1>4. ASSUME NEW p \in Processes,
             \/ StartWorker(p) \/ RegistrationLoop(p) \/ Get(p) \/ SetState(p)
             \/ CallLost(p) \/ Terminate(p) \/ StopServer(p) \/ Kill(p)
      PROVE  FALSE
  BY <1>4 DEF StartWorker, RegistrationLoop, Get, SetState, CallLost, Terminate, StopServer,
              Kill, zkVars
<1>5. ~(DiscoveryStep \/ RefreshFails \/ Disconnect \/ Reconnect \/ ZooKeeperDown)
  BY DEF DiscoveryStep, Refresh, WatchWorkers, ReadWorker, Publish, RefreshFails,
         Disconnect, Reconnect, ZooKeeperDown, elsewhere
<1> QED BY <1>1, <1>2, <1>3, <1>4, <1>5 DEF Next, RegistryStep, Shutdown

\* set_state("DRAINING") is final: neither the registration loop, which creates the
\* node again after every lost session, nor a call that started before SIGTERM and
\* finishes after it writes READY for a worker that is to drain.
THEOREM DrainingIsFinal == Spec => DrainingSticks
<1> DEFINE Sticks(i) == node'[i] # node[i] /\ node'[i].state = "READY" =>
                           state[node'[i].addr] = "READY"
<1>1. ASSUME IInv, Next, NEW i \in Ids, node'[i] # node[i], node'[i].state = "READY"
      PROVE  state[node'[i].addr] = "READY"
  <2>1. PICK p \in Processes :
            \/ Dropped(i, p)
            \/ IdOf[p] = i /\ reg[p].pc # "idle" /\ (Created(i, p) \/ Rewritten(i, p))
    BY <1>1, NodeSteps
  <2>2. ~Dropped(i, p)  BY <1>1 DEF Dropped, NoNode
  <2>3. node'[i].addr = p /\ node'[i].state = reg[p].state
    <3>1. CASE Created(i, p)  BY <3>1 DEF Created, Entry
    <3>2. CASE Rewritten(i, p)
      <4>1. node[i] \in Nodes  BY <1>1, ProcessFacts
      <4> QED BY <1>1, <2>1, <2>2, <3>2, <4>1, SetNode DEF Rewritten
    <3> QED BY <2>1, <2>2, <3>1, <3>2
  <2>4. reg[p].state \in {state[p], "DRAINING"}
    BY <1>1, <2>1, <2>2, ProcessFacts DEF CallOK
  <2> QED BY <1>1, <2>3, <2>4
<1>2. IInv /\ [Next]_vars => [\A i \in Ids : Sticks(i)]_vars  BY <1>1
<1> QED BY <1>2, InvariantHolds, PTL DEF Spec, DrainingSticks

\* A process changes the data of its own ephemeral node only, however many sessions
\* it loses and however it overlaps with another process of its id; the exception is
\* a session replaced between the get and the set of one _ensure_registered.
THEOREM NodesOfOthersKept == Spec => OnlyOwnNodes
<1> DEFINE Setter(i, p) ==
               /\ reg[p].pc = "set" /\ IdOf[p] = i
               /\ Owner(node[i]) = <<p, sess[p]>> \/ sess[p] # reg[p].session
           Kept(i) == node[i] # NoNode /\ Owner(node'[i]) = Owner(node[i])
                        /\ node'[i] # node[i] => \E p \in Processes : Setter(i, p)
<1>1. ASSUME IInv, Next, NEW i \in Ids, node[i] # NoNode,
             Owner(node'[i]) = Owner(node[i]), node'[i] # node[i]
      PROVE  \E p \in Processes : Setter(i, p)
  <2>1. PICK p \in Processes :
            \/ Dropped(i, p)
            \/ IdOf[p] = i /\ reg[p].pc # "idle" /\ (Created(i, p) \/ Rewritten(i, p))
    BY <1>1, NodeSteps
  <2>2. ~Dropped(i, p)
    <3>1. Owner(NoNode) = <<"none", 0>>  BY DEF Owner, NoNode
    <3> QED BY <1>1, <3>1 DEF Dropped
  <2>3. Rewritten(i, p) /\ IdOf[p] = i  BY <1>1, <2>1, <2>2 DEF Created
  <2>4. Setter(i, p)  BY <1>1, <2>3, ProcessFacts DEF Rewritten, CallOK
  <2> QED BY <2>4
<1>2. IInv /\ [Next]_vars => [\A i \in Ids : Kept(i)]_vars  BY <1>1
<1> QED BY <1>2, InvariantHolds, PTL DEF Spec, OnlyOwnNodes
=============================================================================
