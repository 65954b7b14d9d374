--------------------------- MODULE GrpcWorkerPool ---------------------------
(***************************************************************************)
(* system/grpc_worker_pool.py: the API process's pool of client-side       *)
(* proxies (GrpcWorker), one per remote worker.                            *)
(*                                                                         *)
(* Threads of the API process that touch the pool:                         *)
(*   - the scheduler thread, which calls GrpcWorkerPool.submit;            *)
(*   - one dispatch thread per proxy (GrpcWorker._loop);                   *)
(*   - the discovery thread, which calls _update_workers and then stops    *)
(*     the removed proxies;                                                *)
(*   - the thread that shuts the process down (GrpcWorkerPool.stop);       *)
(*   - request handlers, which give up on a task at its deadline.          *)
(*                                                                         *)
(* A step is what a thread does under one acquisition of a lock, or        *)
(* between two points where other threads can change what it reads next.   *)
(* Each proxy has its own lock, so try_submit is one step; the pool lock   *)
(* is held across several steps only by the fallback loop of               *)
(* _submit_compatible.                                                     *)
(*                                                                         *)
(* A proxy is an incarnation: a worker that leaves and comes back gets a   *)
(* new GrpcWorker, so several members of Proxies may stand for the same    *)
(* worker id.  A batch is a set of tasks.                                  *)
(***************************************************************************)
EXTENDS Task, Naturals, Sequences, FiniteSets

CONSTANTS
    Tasks,          \* requests
    WorkerIds,      \* ids registered in ZooKeeper
    Proxies,        \* GrpcWorker objects, existing or still to be created
    Discovery,      \* the thread that calls _update_workers
    Shutdown,       \* the thread that calls GrpcWorkerPool.stop
    NoTask, NoProxy, \* "None"
    Kinds,          \* values of input_data["kind"]
    NonRetryKinds,  \* the synthx_* kinds, never handed off inside the pool
    Kind,           \* [Tasks -> Kinds]
    WorkerOf,       \* [Proxies -> WorkerIds], GrpcWorker.worker_id
    Capabilities,   \* [WorkerIds -> SUBSET Kinds], WORKER_CAPABILITIES
    BatchSize,      \* largest batch the scheduler submits
    Snapshots,      \* memberships discovery may publish: who is up, who drains
    MaxUpdates      \* bound: membership snapshots published in a behaviour

Stoppers == {Discovery, Shutdown}
Threads == Proxies \cup Stoppers

ASSUME PoolAssumption ==
    /\ Discovery # Shutdown
    /\ Proxies \cap Stoppers = {}
    /\ NoTask \notin Tasks
    /\ NoProxy \notin Proxies
    /\ NonRetryKinds \subseteq Kinds
    /\ Kind \in [Tasks -> Kinds]
    /\ WorkerOf \in [Proxies -> WorkerIds]
    /\ Capabilities \in [WorkerIds -> SUBSET Kinds]
    /\ BatchSize \in Nat
    /\ Snapshots \subseteq [up : SUBSET WorkerIds, drain : SUBSET WorkerIds]
    /\ MaxUpdates \in Nat

\* GrpcWorker.try_submit accepts below two outstanding batches.
MaxOutstanding == 2

VARIABLES
    task,       \* [Tasks -> TaskRecord]
    expired,    \* tasks whose deadline has passed
    fresh,      \* tasks not yet passed to GrpcWorkerPool.submit
    members,    \* GrpcWorkerPool._workers
    stopping,   \* GrpcWorkerPool._stopping
    routing,    \* GrpcWorker._routing_state
    stop,       \* GrpcWorker._stop and _retry_on_stop: "running", "retire"
                \* (stopped with handoff) or "shutdown" (stopped without)
    closed,     \* proxies whose channel is closed
    queue,      \* GrpcWorker._batch_queue
    pc,         \* where a dispatch or stopping thread is
    batch,      \* the tasks that thread still has to settle
    allow,      \* the retry_allowed argument of its _finish_or_retry calls
    handoff,    \* its try_resubmit call: the task and the proxies left to try
    victim,     \* the proxy a stopping thread is stopping
    retire,     \* proxies a stopping thread has still to stop
    sched,      \* the scheduler thread inside GrpcWorkerPool.submit
    sent,       \* history: the workers a task was sent to, in order
    omitted,    \* tasks a reply left out (and that no code settles)
    updates     \* snapshots published so far

poolVars == <<members, stopping, routing, stop, closed, updates>>
threadVars == <<pc, batch, allow, handoff, victim, retire>>
taskVars == <<task, sent, omitted>>
clientVars == <<expired, fresh>>
vars == <<task, expired, fresh, members, stopping, routing, stop, closed,
          queue, pc, batch, allow, handoff, victim, retire, sched, sent,
          omitted, updates>>

-----------------------------------------------------------------------------
(* Type correctness                                                        *)

ProxyPC == {"idle", "start", "send", "rpc", "settle", "reserve", "try"}
StopperPC == {"idle", "settle", "reserve", "try"}

Handoffs == [task : Tasks \cup {NoTask}, idle : SUBSET Proxies,
             busy : SUBSET Proxies]
NoHandoff == [task |-> NoTask, idle |-> {}, busy |-> {}]

SchedStates == [pc : {"idle", "select", "submit", "relock", "fallback"},
                batch : SUBSET Tasks, group : SUBSET Tasks,
                target : Proxies \cup {NoProxy}, untried : SUBSET Proxies]
SchedIdle == [pc |-> "idle", batch |-> {}, group |-> {}, target |-> NoProxy,
              untried |-> {}]

TypeOK ==
    /\ task \in [Tasks -> TaskRecord]
    /\ expired \subseteq Tasks
    /\ fresh \subseteq Tasks
    /\ members \subseteq Proxies
    /\ stopping \in BOOLEAN
    /\ routing \in [Proxies -> {"READY", "DRAINING"}]
    /\ stop \in [Proxies -> {"running", "retire", "shutdown"}]
    /\ closed \subseteq Proxies
    /\ queue \in [Proxies -> Seq(SUBSET Tasks)]
    /\ pc \in [Threads -> ProxyPC]
    /\ \A th \in Stoppers : pc[th] \in StopperPC
    /\ batch \in [Threads -> SUBSET Tasks]
    /\ allow \in [Threads -> BOOLEAN]
    /\ handoff \in [Threads -> Handoffs]
    /\ victim \in [Stoppers -> Proxies \cup {NoProxy}]
    /\ retire \in [Stoppers -> SUBSET Proxies]
    /\ sched \in SchedStates
    /\ sent \in [Tasks -> Seq(WorkerIds)]
    /\ omitted \subseteq Tasks
    /\ updates \in Nat

\* A GrpcWorker as its constructor leaves it.
NewProxies ==
    /\ routing = [p \in Proxies |-> "READY"]
    /\ stop = [p \in Proxies |-> "running"]
    /\ closed = {}
    /\ queue = [p \in Proxies |-> <<>>]
    /\ pc = [th \in Threads |-> "idle"]
    /\ batch = [th \in Threads |-> {}]

Init ==
    /\ NewProxies
    /\ task = [t \in Tasks |-> NewTask]
    /\ expired = {}
    /\ fresh = Tasks
    /\ members = {}
    /\ stopping = FALSE
    /\ allow = [th \in Threads |-> FALSE]
    /\ handoff = [th \in Threads |-> NoHandoff]
    /\ victim = [th \in Stoppers |-> NoProxy]
    /\ retire = [th \in Stoppers |-> {}]
    /\ sched = SchedIdle
    /\ sent = [t \in Tasks |-> <<>>]
    /\ omitted = {}
    /\ updates = 0

-----------------------------------------------------------------------------
(* GrpcWorker: admission                                                   *)

\* GrpcWorker._processing is set while the dispatch thread has a batch.
Processing(p) == pc[p] # "idle"
Outstanding(p) == (IF Processing(p) THEN 1 ELSE 0) + Len(queue[p])
Busy(p) == Processing(p) \/ queue[p] # <<>>

\* is_ready that looks at the routing state only.
IsReadyMutant(p) == routing[p] = "READY"
IsReady(p) == stop[p] = "running" /\ routing[p] = "READY"

\* try_submit that does not count the batch being processed.
AcceptsMutant(p) == IsReady(p) /\ Len(queue[p]) < MaxOutstanding
\* try_submit: refuse when stopped, draining or at capacity.
Accepts(p) == IsReady(p) /\ Outstanding(p) < MaxOutstanding

Enqueue(p, tasks) == queue' = [queue EXCEPT ![p] = Append(@, tasks)]

\* mark_failed on every task of a set.
FailAll(tasks, code) ==
    [t \in Tasks |-> IF t \in tasks THEN MarkFailed(task[t], code) ELSE task[t]]

Supports(p, t) == Kind[t] \in Capabilities[WorkerOf[p]]

\* Only the scheduler's fallback loop keeps the pool lock between steps.
PoolLockFree == sched.pc # "fallback"

-----------------------------------------------------------------------------
(* GrpcWorkerPool.submit, on the scheduler thread                          *)

PoolSubmit(tasks) ==
    /\ sched.pc = "idle"
    /\ tasks # {}
    /\ Cardinality(tasks) <= BatchSize
    /\ fresh' = fresh \ tasks
    /\ sched' = [sched EXCEPT !.pc = "select", !.batch = tasks]
    /\ UNCHANGED <<poolVars, threadVars, taskVars, queue, expired>>

\* The scheduler is done with the group g; the next group, or return.
GroupDone(g) ==
    sched' = IF sched.batch = g THEN SchedIdle
             ELSE [SchedIdle EXCEPT !.pc = "select", !.batch = sched.batch \ g]

GroupOf(k) == {t \in sched.batch : Kind[t] = k}
ReadyFor(g) == {p \in members : IsReady(p) /\ \A t \in g : Supports(p, t)}

\* _submit_compatible up to the release of the pool lock: an idle proxy if
\* there is one (the round-robin index picks which), else any ready proxy.
Select(k) ==
    LET g == GroupOf(k)
        idle == {p \in ReadyFor(g) : ~Busy(p)}
    IN /\ sched.pc = "select"
       /\ g # {}
       /\ \/ /\ ReadyFor(g) = {}
             /\ task' = FailAll(g, "overloaded")
             /\ GroupDone(g)
          \/ /\ \E p \in IF idle # {} THEN idle ELSE ReadyFor(g) :
                    sched' = [sched EXCEPT !.pc = "submit", !.group = g,
                                           !.target = p]
             /\ UNCHANGED task
       /\ UNCHANGED <<poolVars, threadVars, clientVars, queue, sent, omitted>>

\* try_submit on the chosen proxy, after the pool lock was released.
SubmitChosen ==
    /\ sched.pc = "submit"
    /\ \/ /\ Accepts(sched.target)
          /\ Enqueue(sched.target, sched.group)
          /\ GroupDone(sched.group)
       \/ /\ ~Accepts(sched.target)
          /\ sched' = [sched EXCEPT !.pc = "relock"]
          /\ UNCHANGED queue
    /\ UNCHANGED <<poolVars, threadVars, taskVars, clientVars>>

\* The chosen proxy refused: take the pool lock and try the others.
Relock ==
    /\ sched.pc = "relock"
    /\ sched' = [sched EXCEPT !.pc = "fallback",
                              !.untried = members \ {sched.target}]
    /\ UNCHANGED <<poolVars, threadVars, taskVars, clientVars, queue>>

FallbackTry(p) ==
    /\ sched.pc = "fallback"
    /\ p \in sched.untried
    /\ \/ /\ Accepts(p) /\ \A t \in sched.group : Supports(p, t)
          /\ Enqueue(p, sched.group)
          /\ GroupDone(sched.group)
       \/ /\ ~(Accepts(p) /\ \A t \in sched.group : Supports(p, t))
          /\ sched' = [sched EXCEPT !.untried = @ \ {p}]
          /\ UNCHANGED queue
    /\ UNCHANGED <<poolVars, threadVars, taskVars, clientVars>>

FallbackFail ==
    /\ sched.pc = "fallback"
    /\ sched.untried = {}
    /\ task' = FailAll(sched.group, "overloaded")
    /\ GroupDone(sched.group)
    /\ UNCHANGED <<poolVars, threadVars, clientVars, queue, sent, omitted>>

-----------------------------------------------------------------------------
(* GrpcWorker._loop and _process, on the dispatch thread of proxy p        *)

\* The thread returns to its loop: _processing becomes False.
Idle(p) ==
    /\ pc' = [pc EXCEPT ![p] = "idle"]
    /\ batch' = [batch EXCEPT ![p] = {}]

\* Pop a batch and keep the tasks that are neither terminal nor expired.
Pop(p) ==
    LET popped == Head(queue[p])
        active == {t \in popped : ~Terminal(task[t]) /\ t \notin expired}
    IN /\ pc[p] = "idle"
       /\ stop[p] = "running"
       /\ queue[p] # <<>>
       /\ queue' = [queue EXCEPT ![p] = Tail(@)]
       /\ task' = FailAll(popped \cap expired, "deadline_exceeded")
       /\ pc' = [pc EXCEPT ![p] = IF active = {} THEN "idle" ELSE "start"]
       /\ batch' = [batch EXCEPT ![p] = active]
       /\ UNCHANGED <<poolVars, clientVars, allow, handoff, victim, retire,
                      sched, sent, omitted>>

\* Hand every task of the batch to _finish_or_retry.
SettleBatch(p, retryAllowed) ==
    /\ pc' = [pc EXCEPT ![p] = "settle"]
    /\ allow' = [allow EXCEPT ![p] = retryAllowed]
    /\ UNCHANGED batch

\* The stop check, then mark_processing.
Start(p) ==
    /\ pc[p] = "start"
    /\ \/ /\ stop[p] # "running"
          /\ SettleBatch(p, stop[p] = "retire")
          /\ UNCHANGED task
       \/ /\ stop[p] = "running"
          /\ task' = [t \in Tasks |-> IF t \in batch[p]
                                      THEN MarkProcessing(task[t]) ELSE task[t]]
          /\ pc' = [pc EXCEPT ![p] = "send"]
          /\ UNCHANGED <<batch, allow>>
    /\ UNCHANGED <<poolVars, clientVars, queue, handoff, victim, retire, sched,
                   sent, omitted>>

\* Issue the RPC with timeout max(remaining): refused when every budget is
\* used up, a local ValueError when the channel has been closed meanwhile.
Send(p) ==
    /\ pc[p] = "send"
    /\ \/ /\ batch[p] \subseteq expired
          /\ task' = FailAll(batch[p], "deadline_exceeded")
          /\ Idle(p)
          /\ UNCHANGED <<allow, sent>>
       \/ /\ ~(batch[p] \subseteq expired)
          /\ p \in closed
          /\ SettleBatch(p, stop[p] = "retire")
          /\ UNCHANGED <<task, sent>>
       \/ /\ ~(batch[p] \subseteq expired)
          /\ p \notin closed
          /\ sent' = [t \in Tasks |-> IF t \in batch[p]
                                      THEN Append(sent[t], WorkerOf[p])
                                      ELSE sent[t]]
          /\ pc' = [pc EXCEPT ![p] = "rpc"]
          /\ UNCHANGED <<task, batch, allow>>
    /\ UNCHANGED <<poolVars, clientVars, queue, handoff, victim, retire, sched,
                   omitted>>

Results == {"done", "worker_error", "overloaded", "deadline_exceeded", "omitted"}

\* What becomes of a task for which the reply holds result r.
ApplyResult(tk, r, kind) ==
    CASE r = "done" -> MarkDone(tk)
      [] r = "omitted" -> IF kind \in NonRetryKinds
                          THEN MarkFailed(tk, "transport_error") ELSE tk
      [] OTHER -> MarkFailed(tk, r)

\* The worker answers.  The simulation reports a deadline only after the budget
\* it was given, and so the client's own deadline, has run out; the text worker
\* turns any timeout of its service into one, and passes on its "overloaded".
RpcReply(p) ==
    /\ pc[p] = "rpc"
    /\ \E r \in [batch[p] -> Results] :
         /\ \A t \in batch[p] :
               /\ r[t] = "deadline_exceeded" =>
                     t \in expired \/ Kind[t] \in NonRetryKinds
               /\ r[t] = "overloaded" => Kind[t] \in NonRetryKinds
         /\ task' = [t \in Tasks |-> IF t \in batch[p]
                                     THEN ApplyResult(task[t], r[t], Kind[t])
                                     ELSE task[t]]
         /\ omitted' = omitted \cup
               {t \in batch[p] : r[t] = "omitted" /\ Kind[t] \notin NonRetryKinds}
    /\ Idle(p)
    /\ UNCHANGED <<poolVars, clientVars, queue, allow, handoff, victim, retire,
                   sched, sent>>

\* A timeout of min(remaining): it may strike before a later deadline.
RpcTimedOutMutant(p) == batch[p] \cap expired # {}
\* The RPC timeout is the largest remaining budget of the batch.
RpcTimedOut(p) == batch[p] \subseteq expired

\* grpc.StatusCode.DEADLINE_EXCEEDED
RpcDeadline(p) ==
    /\ pc[p] = "rpc"
    /\ RpcTimedOut(p)
    /\ task' = FailAll(batch[p], "deadline_exceeded")
    /\ Idle(p)
    /\ UNCHANGED <<poolVars, clientVars, queue, allow, handoff, victim, retire,
                   sched, sent, omitted>>

RpcCodes == {"UNAVAILABLE", "CANCELLED", "OTHER"}

\* retry_allowed in the handler of grpc.RpcError.
RetryAllowed(p, code) ==
    \/ code = "UNAVAILABLE" /\ stop[p] \in {"running", "retire"}
    \/ code = "CANCELLED" /\ stop[p] = "retire"

\* The RPC ends with another status.
RpcError(p, code) ==
    /\ pc[p] = "rpc"
    /\ SettleBatch(p, RetryAllowed(p, code))
    /\ UNCHANGED <<poolVars, clientVars, taskVars, queue, handoff, victim,
                   retire, sched>>

-----------------------------------------------------------------------------
(* _finish_or_retry and try_resubmit, on any thread that settles tasks     *)

\* The worker that failed: try_resubmit looks for a different one.
FailedWorker(th) ==
    IF th \in Proxies THEN WorkerOf[th] ELSE WorkerOf[victim[th]]

\* try_resubmit that may pick the failed worker's own new incarnation.
CandidatesMutant(th, t) == {p \in members : IsReady(p) /\ Supports(p, t)}
Candidates(th, t) ==
    {p \in members : /\ WorkerOf[p] # FailedWorker(th)
                     /\ IsReady(p)
                     /\ Supports(p, t)}

\* Only these kinds may be handed to another worker.
HandoffKindMutant(t) == TRUE
HandoffKind(t) == Kind[t] \notin NonRetryKinds

\* _finish_or_retry that reports a failed handoff as if never attempted.
FailedFinallyMutant(t) == task' = [task EXCEPT ![t] = MarkFailed(@, "overloaded")]
\* The last line of _finish_or_retry: mark_failed without a code.
FailedFinally(t) == task' = [task EXCEPT ![t] = MarkFailed(@, "none")]

\* Thread th is done with task t; the next task of its batch, or its loop.
Settled(th, t) ==
    /\ batch' = [batch EXCEPT ![th] = @ \ {t}]
    /\ pc' = [pc EXCEPT ![th] = IF batch[th] = {t} THEN "idle" ELSE "settle"]
    /\ handoff' = [handoff EXCEPT ![th] = NoHandoff]

\* The exits of _finish_or_retry that need no other worker, in code order.
FinishDirectly(th, t) ==
    /\ \/ /\ Terminal(task[t])
          /\ UNCHANGED task
       \/ /\ ~Terminal(task[t])
          /\ t \in expired
          /\ task' = [task EXCEPT ![t] = MarkFailed(@, "deadline_exceeded")]
       \/ /\ ~Terminal(task[t])
          /\ t \notin expired
          /\ ~HandoffKind(t)
          /\ task' = [task EXCEPT ![t] = MarkFailed(@, "transport_error")]
       \/ /\ ~Terminal(task[t])
          /\ t \notin expired
          /\ HandoffKind(t)
          /\ ~allow[th]
          /\ FailedFinally(t)
    /\ Settled(th, t)

\* try_resubmit under the pool lock: snapshot the candidates, or give up.
FindCandidates(th, t) ==
    /\ ~Terminal(task[t])
    /\ t \notin expired
    /\ HandoffKind(t)
    /\ allow[th]
    /\ PoolLockFree
    /\ \/ /\ stopping \/ Candidates(th, t) = {}
          /\ FailedFinally(t)
          /\ Settled(th, t)
       \/ /\ ~stopping /\ Candidates(th, t) # {}
          /\ pc' = [pc EXCEPT ![th] = "reserve"]
          /\ handoff' = [handoff EXCEPT ![th] =
                [task |-> t, idle |-> Candidates(th, t), busy |-> {}]]
          /\ UNCHANGED <<task, batch>>

Settle(th) ==
    /\ pc[th] = "settle"
    /\ \E t \in batch[th] : FinishDirectly(th, t) \/ FindCandidates(th, t)
    /\ UNCHANGED <<poolVars, clientVars, queue, allow, victim, retire, sched,
                   sent, omitted>>

\* try_reserve_retry, then split the candidates into idle and busy ones.
Reserve(th) ==
    LET t == handoff[th].task
        cand == handoff[th].idle
    IN /\ pc[th] = "reserve"
       /\ \/ /\ CanReserve(task[t], t \in expired)
             /\ task' = [task EXCEPT ![t] = ReserveRetry(@)]
             /\ pc' = [pc EXCEPT ![th] = "try"]
             /\ handoff' = [handoff EXCEPT
                     ![th].idle = {p \in cand : ~Busy(p)},
                     ![th].busy = {p \in cand : Busy(p)}]
             /\ UNCHANGED batch
          \/ /\ ~CanReserve(task[t], t \in expired)
             /\ FailedFinally(t)
             /\ Settled(th, t)
       /\ UNCHANGED <<poolVars, clientVars, queue, allow, victim, retire, sched,
                      sent, omitted>>

\* try_submit([task]) on the next candidate, idle ones first.  Nothing is
\* locked between the snapshot and this call, so the candidate may have been
\* retired or filled meanwhile.  When none accepts, the task fails.
TryNext(th) ==
    LET h == handoff[th]
        t == h.task
    IN /\ pc[th] = "try"
       /\ \/ /\ h.idle \cup h.busy = {}
             /\ FailedFinally(t)
             /\ Settled(th, t)
             /\ UNCHANGED queue
          \/ \E p \in IF h.idle # {} THEN h.idle ELSE h.busy :
               \/ /\ Accepts(p)
                  /\ Enqueue(p, {t})
                  /\ Settled(th, t)
                  /\ UNCHANGED task
               \/ /\ ~Accepts(p)
                  /\ handoff' = [handoff EXCEPT ![th].idle = @ \ {p},
                                                ![th].busy = @ \ {p}]
                  /\ UNCHANGED <<task, queue, pc, batch>>
       /\ UNCHANGED <<poolVars, clientVars, allow, victim, retire, sched, sent,
                      omitted>>

-----------------------------------------------------------------------------
(* Membership and shutdown                                                 *)

\* begin_stop that loses the flag update (the proxy keeps accepting work).
BeginStopMutant(gone, how) == stop' = stop
\* begin_stop on every proxy of a set, under the pool lock.
BeginStop(gone, how) ==
    stop' = [p \in Proxies |-> IF p \in gone /\ stop[p] = "running"
                               THEN how ELSE stop[p]]

Draining == {WorkerOf[p] : p \in {q \in members : routing[q] = "DRAINING"}}
Present == {WorkerOf[p] : p \in members}
\* Proxies not created yet: a member leaves the pool only by being stopped.
Unborn == {p \in Proxies \ members : stop[p] = "running"}

\* _update_workers with a new snapshot: create proxies for the workers that
\* joined, set every routing state, stop the proxies of those that left.
UpdateWorkers(up, drain) ==
    LET gone == {p \in members : WorkerOf[p] \notin up}
    IN /\ pc[Discovery] = "idle"
       /\ retire[Discovery] = {}
       /\ updates < MaxUpdates
       /\ ~stopping
       /\ PoolLockFree
       /\ <<up, drain>> # <<Present, Draining>>
       /\ \E new \in SUBSET Unborn :
            /\ {WorkerOf[p] : p \in new} = up \ Present
            /\ \A p, q \in new : WorkerOf[p] = WorkerOf[q] => p = q
            /\ members' = (members \ gone) \cup new
       /\ routing' = [p \in Proxies |->
                        IF p \notin members' THEN routing[p]
                        ELSE IF WorkerOf[p] \in drain THEN "DRAINING"
                        ELSE "READY"]
       /\ BeginStop(gone, "retire")
       /\ retire' = [retire EXCEPT ![Discovery] = gone]
       /\ updates' = updates + 1
       /\ UNCHANGED <<clientVars, taskVars, stopping, closed, queue, pc, batch,
                      allow, handoff, victim, sched>>

\* GrpcWorkerPool.stop under the pool lock.
PoolStop ==
    /\ ~stopping
    /\ PoolLockFree
    /\ stopping' = TRUE
    /\ members' = {}
    /\ BeginStop(members, "shutdown")
    /\ retire' = [retire EXCEPT ![Shutdown] = members]
    /\ UNCHANGED <<clientVars, taskVars, routing, closed, queue, pc, batch,
                   allow, handoff, victim, sched, updates>>

\* A stop that forgets the batches still queued.
DrainedMutant(p) == {}
Drained(p) == UNION {queue[p][i] : i \in 1 .. Len(queue[p])}

\* A stop that settles the queued batches but leaves them in the queue.
StopProxyMutant(th, p) ==
    /\ pc[th] = "idle"
    /\ p \in retire[th]
    /\ retire' = [retire EXCEPT ![th] = @ \ {p}]
    /\ closed' = closed \cup {p}
    /\ batch' = [batch EXCEPT ![th] = Drained(p)]
    /\ pc' = [pc EXCEPT ![th] = IF Drained(p) = {} THEN "idle" ELSE "settle"]
    /\ allow' = [allow EXCEPT ![th] = (stop[p] = "retire")]
    /\ victim' = [victim EXCEPT ![th] = p]
    /\ UNCHANGED <<clientVars, queue, taskVars, members, stopping, routing, stop,
                   handoff, sched, updates>>

\* GrpcWorker.stop: drain the queue, close the channel, settle what was
\* queued.  The join on the dispatch thread times out, so it orders nothing.
StopProxy(th, p) ==
    /\ pc[th] = "idle"
    /\ p \in retire[th]
    /\ retire' = [retire EXCEPT ![th] = @ \ {p}]
    /\ queue' = [queue EXCEPT ![p] = <<>>]
    /\ closed' = closed \cup {p}
    /\ batch' = [batch EXCEPT ![th] = Drained(p)]
    /\ pc' = [pc EXCEPT ![th] = IF Drained(p) = {} THEN "idle" ELSE "settle"]
    /\ allow' = [allow EXCEPT ![th] = (stop[p] = "retire")]
    /\ victim' = [victim EXCEPT ![th] = p]
    /\ UNCHANGED <<clientVars, taskVars, members, stopping, routing, stop,
                   handoff, sched, updates>>

-----------------------------------------------------------------------------
(* The request's own clock and handler                                     *)

Expire(t) ==
    /\ t \notin expired
    /\ expired' = expired \cup {t}
    /\ UNCHANGED <<poolVars, threadVars, taskVars, fresh, queue, sched>>

\* predict, text_task and JobGateway.poll give up on a task at its deadline.
ApiDeadline(t) ==
    /\ t \in expired
    /\ ~Terminal(task[t])
    /\ task' = [task EXCEPT ![t] = MarkFailed(@, "deadline_exceeded")]
    /\ UNCHANGED <<poolVars, threadVars, clientVars, queue, sched, sent, omitted>>

\* A text caller disconnects, or a durable job loses its lease.
Abandon(t) ==
    /\ Kind[t] \in NonRetryKinds
    /\ ~Terminal(task[t])
    /\ task' = [task EXCEPT ![t] = MarkFailed(@, "cancelled")]
    /\ UNCHANGED <<poolVars, threadVars, clientVars, queue, sched, sent, omitted>>

-----------------------------------------------------------------------------
SchedulerStep ==
    \/ \E k \in Kinds : Select(k)
    \/ SubmitChosen
    \/ Relock
    \/ \E p \in Proxies : FallbackTry(p)
    \/ FallbackFail

\* Steps a dispatch thread takes by itself: all but how an RPC ends early.
DispatchStep(p) == Pop(p) \/ Start(p) \/ Send(p) \/ RpcDeadline(p)

RpcEnds(p) == RpcReply(p) \/ \E code \in RpcCodes : RpcError(p, code)

SettleStep(th) == Settle(th) \/ Reserve(th) \/ TryNext(th)

\* After shutdown nothing more need happen.
Terminated ==
    /\ stopping
    /\ fresh = {} /\ sched.pc = "idle"
    /\ \A th \in Threads : pc[th] = "idle"
    /\ \A th \in Stoppers : retire[th] = {}
    /\ UNCHANGED vars

Next ==
    \/ \E tasks \in SUBSET fresh : PoolSubmit(tasks)
    \/ SchedulerStep
    \/ \E p \in Proxies : DispatchStep(p)
    \/ \E p \in Proxies : RpcEnds(p)
    \/ \E th \in Threads : SettleStep(th)
    \/ \E s \in Snapshots : UpdateWorkers(s.up, s.drain)
    \/ PoolStop
    \/ \E th \in Stoppers, p \in Proxies : StopProxy(th, p)
    \/ \E t \in Tasks : Expire(t)
    \/ \E t \in Tasks : ApiDeadline(t)
    \/ \E t \in Tasks : Abandon(t)
    \/ Terminated

Spec == Init /\ [][Next]_vars

\* The API process's threads keep running and time passes.  Nothing is
\* assumed of the remote workers: an RPC need only end at its deadline.
Fairness ==
    /\ WF_vars(SchedulerStep)
    /\ \A p \in Proxies : WF_vars(DispatchStep(p))
    /\ \A th \in Threads : WF_vars(SettleStep(th))
    /\ \A th \in Stoppers : WF_vars(\E p \in Proxies : StopProxy(th, p))
    /\ \A t \in Tasks : WF_vars(Expire(t))

FairSpec == Spec /\ Fairness

-----------------------------------------------------------------------------
(* Safety                                                                  *)

QueuedAt(p) == {queue[p][i] : i \in 1 .. Len(queue[p])}

\* try_submit's promise "accept a batch only when running and below two
\* outstanding batches" holds whoever submits: scheduler, fallback, handoff.
CapacityBound == \A p \in Proxies : Outstanding(p) <= MaxOutstanding

\* The places a task can be: still with the client, with the scheduler, in
\* the i-th batch queued at a proxy, or in the hands of a thread.
Holders(t) ==
    {<<"client">> : x \in IF t \in fresh THEN {1} ELSE {}}
    \cup {<<"scheduler">> : x \in IF t \in sched.batch THEN {1} ELSE {}}
    \cup {<<"thread", th>> : th \in {h \in Threads : t \in batch[h]}}
    \cup UNION {{<<"queue", p, i>> :
                    i \in {j \in 1 .. Len(queue[p]) : t \in queue[p][j]}} :
                p \in Proxies}

\* A task is never in two places at once: no handoff, retirement or fallback
\* leaves a copy behind that would be executed or settled a second time.
SingleOwner == \A t \in Tasks : Cardinality(Holders(t)) <= 1

\* Every task that is not settled is with a thread that will settle it: in
\* particular nothing sits in the queue of a proxy that nobody will stop.
\* The one exception is a task its worker's reply left out.
NoStranded ==
    \A t \in Tasks :
       \/ Terminal(task[t])
       \/ t \in omitted
       \/ t \in fresh \cup sched.batch
       \/ \E th \in Threads : t \in batch[th]
       \/ \E p \in members \cup retire[Discovery] \cup retire[Shutdown] :
             \E b \in QueuedAt(p) : t \in b

\* A task is sent at most twice, the second time only after reserving its
\* single retry and to a different worker; a synthx task is sent once at most.
HandoffOnce ==
    \A t \in Tasks :
       /\ Len(sent[t]) <= 1 + task[t].retry_count
       /\ task[t].retry_count <= 1
       /\ \A i, j \in 1 .. Len(sent[t]) : sent[t][i] = sent[t][j] => i = j
       /\ Kind[t] \in NonRetryKinds => Len(sent[t]) <= 1

\* For a /predict request "overloaded" (HTTP 503) means that the pool turned it
\* away: no worker ever saw it and it never used its retry.
OverloadedNeverSent ==
    \A t \in Tasks :
        Kind[t] \notin NonRetryKinds /\ task[t].error_code = "overloaded"
            => sent[t] = <<>> /\ task[t].retry_count = 0

\* "deadline_exceeded" (HTTP 504) is reported for a /predict request only when
\* its own deadline has passed, even if it shared an RPC with other deadlines.
DeadlineHonest ==
    \A t \in Tasks :
        Kind[t] \notin NonRetryKinds /\ task[t].error_code = "deadline_exceeded"
            => t \in expired

\* To the scheduler and the request handlers the pool is a batch handler.
Handler == INSTANCE BatchHandler WITH handed <- Tasks \ fresh

\* Whatever its threads do, the pool writes only tasks that were submitted to it,
\* and a late reply, a handoff, a retirement or the handler's own deadline never
\* overwrites the first outcome of a task: it implements BatchHandler.
ImplementsBatchHandler == Handler!Spec

\* A proxy outside the membership never receives another batch, although
\* submitters hold stale references to it ("reject new submissions before the
\* pool releases its membership lock").
QuietAfterRemoval ==
    [][\A p \in Proxies \ members : Len(queue'[p]) <= Len(queue[p])]_vars

-----------------------------------------------------------------------------
(* Liveness, under FairSpec                                                *)

\* Every task given to the pool is settled by the pool itself, without help
\* from the request handler, unless the worker's reply left it out.
EverySubmittedSettles ==
    \A t \in Tasks :
        t \notin fresh ~> (Terminal(task[t]) \/ t \in omitted)

\* After GrpcWorkerPool.stop every thread comes to rest with empty queues.
StopQuiesces ==
    stopping ~> (/\ \A th \in Threads : pc[th] = "idle"
                 /\ \A p \in Proxies : queue[p] = <<>>)
=============================================================================
