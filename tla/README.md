# A TLA+ model of the latency-aware inference system

This directory models the concurrent core of the repository in TLA+, checks it
with TLC and proves its safety properties with TLAPS. `PROJECT.json` holds the machine
readable side: components, runs, the definition-to-source map, the hazards each
property is for, the mutants that show each property can fail, and the theorems.

## 1. The system and its parts

An HTTP API accepts inference requests, a scheduler thread batches them, and a
pool of gRPC proxies sends the batches to remote worker processes found through
ZooKeeper. A second path, durable jobs, is driven by rows of a SQL table that
several API processes share.

| Part | State it keeps | Operations | What it must get right |
|---|---|---|---|
| Task (`system/task.py`) | status, error code, retry count, deadline | `mark_processing`, `mark_done`, `mark_failed`, `try_reserve_retry` | the first terminal outcome is final; one retry at most |
| gRPC worker pool (`grpc_worker_pool.py`) | membership, routing state, per-proxy queue, stop flags, channel | `submit`, `try_submit`, `_loop`, `_process`, `_finish_or_retry`, `try_resubmit`, `_update_workers`, `stop` | every accepted task is settled exactly once, never duplicated, never stranded in a proxy nobody serves; capacity; deadlines |
| Job store (`job_store.py`) | `synthx.inference_jobs` rows | `claim`, `renew`, `complete`, `defer`, `expire_deadlines` | each statement guards itself: fencing by attempt, lease and deadline |
| Job gateway (`job_gateway.py`) | `_active`, the tasks it enqueued | `poll`, `submit`, `_enqueue`, `stop` | live leases respected, results not dropped, jobs always end |
| Scheduler and queue (`scheduler.py`, `queue.py`) | bounded FIFO, latency-aware buffer, the configured strategy | `put`, `get`, `drain`, `next_batch`, `_loop` | no task lost or reordered, none left behind by a strategy switch |
| V7.3 worker (`worker_v73.py`) | `state.json` per job, job and execution locks, output directory | `process`, `_execute`, `_call_daemon`, `_recover_response`, `_upload_result` | the model runs at most once per job, across crashes; publish only after every upload |
| Registry and discovery (`zookeeper_registry.py`) | session, registration, last snapshot, watches | `register`, `_registration_loop`, `set_state`, `_refresh_workers` | registration is restored; discovery converges to ZooKeeper |
| Worker server (`grpc_worker_server.py`), text worker (`worker_text.py`) | simulation settings, one slot | `ProcessBatch`, `UpdateConfig`, drain on SIGTERM | drain before stop; replies cover the batch |
| API server (`api_server.py`) | the request's task | `predict`, `text_task`, `/jobs`, configuration | gives up at the deadline, reports honest codes |
| In-process pool (`worker.py`) | per-worker queue | `submit`, `_loop` | the fallback without gRPC |
| Deployment gate and rollout (`deployment.py`, `deploy/ci/deploy_platform.py`) | drain marker, in-flight count, recorded release | `enter`, `leave`, rollout and rollback | admission reopens only on a healthy recorded release |

Interactions. The API puts a task in the queue; the scheduler thread takes it and
calls `GrpcWorkerPool.submit`, which appends a batch to one proxy's queue; the
proxy's dispatch thread sends it. The discovery thread changes the membership
under the pool lock and afterwards stops the proxies it removed, on its own
thread, handing their queued tasks to other proxies. The request handler polls
the shared task object and fails it at the deadline. A job gateway puts tasks in
the same queue, polls them and writes their outcome to SQL.

What is hard here is that almost nothing is done under one lock. A proxy chosen
under the pool lock is used after the lock is gone; a handoff walks a candidate
list that is already stale; a stopping thread drains a queue whose dispatch
thread holds the batch it just popped; an RPC may end by reply, by deadline, by
the channel closing under it or by the worker dying; a gateway may lose the
answer of a statement that committed, or die between two statements. The list,
with source lines and the properties that watch each, is `hazards` in
`PROJECT.json`.

## 2. Modules

| Module | Contents |
|---|---|
| `Task` | `task.py` as functions on a record, shared by the other modules |
| `BatchHandler` | abstract specification: what the scheduler and the callers rely on when a batch is passed to a pool |
| `Scheduler` | the task queue, its producers, the three strategies and live reconfiguration |
| `Serving` | the path of a request through the API process: handlers, `Scheduler`, either pool, shutdown; implements `BatchHandler` |
| `GrpcWorkerPool` | the pool, its proxies and every thread that touches them; implements `BatchHandler` |
| `Membership` | registration in ZooKeeper, discovery, and the membership of the pool that it drives; start and shutdown of a worker process |
| `WorkerServer` | `ProcessBatch` behind the gate, the simulated batch, the text worker and its slot |
| `V73Worker` | calls of the V7.3 worker over flocks, `state.json`, the output directory and the daemon |
| `JobStore` | the SQL statements as guard and row update |
| `JobGateway` | several gateways over one table, with a clock, SQL outages and crashes; extends `JobStore` |
| `Rollout` | a rollout of gateway and text worker, its rollback, and the admission gates inside the containers |
| `MCGrpcWorkerPool`, `MCJobGateway`, `MCV73Worker`, `MCMembership` | constants for TLC; `Scheduler`, `Serving` and `Rollout` need none |
| `JobGatewayProofs`, `V73WorkerProofs`, `RolloutProofs`, `WorkerServerProofs`, `SchedulerProofs`, `GrpcWorkerPoolProofs`, `ServingProofs`, `MembershipProofs` | theorems |

How they fit together. `Serving` is the composition: it takes the scheduler's steps
from `Scheduler` and hands batches to the in-process pool, modelled in full, or to
anything that satisfies `BatchHandler`. The theorem `PoolImplementsBatchHandler`
(and the `pool_handoff` run, on a small instance) shows that `GrpcWorkerPool` does
satisfy it (with `handed` as the tasks that are no longer fresh), so what `Serving`
shows holds for the remote pool too. `Membership`
produces the snapshots that `GrpcWorkerPool!UpdateWorkers` takes, and ends at the
same method, of which it keeps only the address and routing state. `WorkerServer`
and `V73Worker` produce the replies `GrpcWorkerPool!RpcReply` allows.
`WorkerServer`'s gate count is what `Rollout` reads.

A definition whose name ends in `Mutant` stands before the definition it would
replace and is that definition with one plausible mistake; no specification uses
it. `PROJECT.json` pairs each property with the mutant that breaks it.

### GrpcWorkerPool

A member of `Proxies` is one `GrpcWorker` object. A worker that leaves and comes
back gets a new one, so `WorkerOf` need not be injective. `stop[p]` joins `_stop`
and `_retry_on_stop`: running, stopped with handoff ("retire", by discovery) or
without ("shutdown"). `queue`, `members`, `stopping`, `routing` and `closed` are
the fields of the same names. Threads have a program counter `pc`: the dispatch
thread of a proxy goes idle, start (after the pop), send (after the stop check),
rpc; any thread that settles a batch goes settle, reserve, try, which are
`_finish_or_retry`, `try_reserve_retry` and the `try_submit` loop of
`try_resubmit`. The scheduler thread has its own record `sched`: it selects under
the pool lock, submits without it, and takes it again for the fallback loop, which
is the only place where the lock is held across several steps (`PoolLockFree`).

Steps are as long as the code is atomic for the others: one lock acquisition, or
the code between two points at which another thread could change what is read
next. Merged on purpose: `_loop`'s pop and the filter on terminal and expired
tasks (the tasks are in nobody else's reach); the drain of the queue and the
channel's close in `GrpcWorker.stop`. Not modelled as ordering: the bounded
`join` in `stop`, which times out.

The data are abstract. A batch is a set of tasks, a deadline is membership in
`expired`, the round-robin index is a free choice among the candidates (idle ones
first, as in the code), and a reply is any function from the batch to results that
the workers of this repository can send: a simulation worker reports a deadline
only after the client's own has passed, and only a text worker passes on
"overloaded". A reply may leave tasks out (`_process_batch` returns early when
the call is no longer active); the pool fails such a task for the synthx kinds
only and otherwise leaves it to the request handler, which is what `omitted`
records. A batch whose kind is not a string is not modelled: no caller builds one.

### BatchHandler, Scheduler and Serving

`BatchHandler` has three actions. `Submit` hands a set of tasks over, each at most
once. `Work` lets the pool apply one method of `Task` to any of the tasks it was
handed. `GiveUp` is the caller's own `mark_failed`. That first outcomes are final
and that nobody touches a task before its hand-over are consequences an
implementation must show, since its own steps must be steps of these.

In `Scheduler` tasks are numbered by `creation_time`. A task is constructed
(`Create`) before it is queued (`Put`), so two producers can queue in the other
order. `get`, each item of `drain`, the reading of `old`, the reading of `fresh`
and the hand-over are steps of their own; `batch_size` and the strategy may change
between any two of them. Ages are read from a clock that moves: `stale` is the set
of tasks past the threshold, it grows in the order of creation, and each of the
two list comprehensions may find some more tasks past the threshold than the one
before. A task that crosses the threshold between the two is in neither list.
`skips` counts, as a history, the ticks in which a younger buffered task went
first.

In `Serving` the variables of `Scheduler` appear under the same names. `kind` says
which endpoint built the task, `answer` what its caller was told. `remote` is
`USE_GRPC`; text tasks and jobs need it. Jobs are represented by their task only;
their rows are `JobGateway`'s matter. The in-process workers are modelled step by
step (`wake`, pop, process); an event that is set just before the queue is drained
causes an empty round and nothing else, so the event itself is not a variable.

Shutdown follows lifespan's `finally` (`api_server.py:109-115`). The web server
finishes its open requests first (`RequestsServed`). `StopGateway` is
`JobGateway.stop`: it sets the flag and waits five seconds at most, so the gateway's
thread may still be in a poll, building and queueing a task, when `StopScheduler`
and `StopWorkers` run. `GatewayExits` is that thread leaving its loop. A job task
that is not settled by then is polled by nobody; its row keeps its lease, and
`JobGateway` shows what becomes of it. `answer` of a job task is what a poll saw.

### Membership

Each member of `Processes` is one worker process, and stands for its address as
well; `IdOf` gives several processes one worker id. `reg[p]` is the call of
`_ensure_registered` under way, which runs under the registry's lock: read the
session id and the state, create, on NodeExistsError get and compare the owner,
set. The session id may be stale by the time `create` runs; the node then belongs
to the session the client has by that time. Kazoo's session ids are numbered per
process; `node[i]` records the owner, its session and the data.

ZooKeeper is external: a session may expire (Kazoo opens another one), a call may
fail, the API process may be cut off and lose the events of that time, a killed
process's session expires later, and the service may go away for good. All of
these but the late expiry count as faults. `DataWatch` objects stay installed when
their node is deleted and created again, which is what `_watched_workers` relies
on.

`main[p]` is the main thread in `serve()`. After SIGTERM it starts the publisher and
joins it for two seconds at most, so `StopServer` (the end of the join, `server.stop`,
the health server, and the flag `deregister` sets first) may come before or after
`SetState`, and while the recovery loop is inside a registry call. From then on a
publisher that gets the lock finds the registry closed and raises. `Deregister` is
`zk.stop` and `zk.close`, which drop the session and end the process.

### WorkerServer

A call goes through the gate, then the simulation (admit, simulate, finish) or the
loop over the backend (next, service), and leaves the gate. The simulation reads
the deadlines of a batch three times and looks at the caller in each turn of its
loop. For the text worker the payload checks are one choice, and the service call
ends with any of its outcomes while the slot is held.

### Rollout

`d` is the rollout process with its program counter; the phases `Draining`,
`Installing` and `Reopening` decide where an exception leads (`Handler`), which is
the nested `try` of `Deployment.run`. `Fail` may happen at every step: a command
fails, a check fails or SIGTERM arrives. For the calls whose effect is a single
write, the interruption between the write and the assignment that follows it is
modelled too (`BeginTransaction`, `RecordCurrent`). `Crash` is SIGKILL. The files
are replaced atomically (`atomic_json`), markers are published by an exclusive
link, both one step. `trouble` remembers the phases in which the current rollout
failed, and the services an operator fenced between the check of `end_drain` and its
unlink.

Requests pass the gate in two steps, check and count, under the gate's lock, which
is why `Acknowledged` needs `GateFree`. Requests of the gateway call the worker and
may leave before it does. An operator may place his own marker at any time. The
product backend's drain protocol, which this repository calls but does not contain,
is the flag `backend`. Checks of archive, compose layout, environment digests and
model transport decide only whether a step fails, and so are part of `Fail`.

### JobStore and JobGateway

`attempt_id`, a fresh UUID per claim, is represented by the row's `attempts`
counter, which every claim increments. NULL leases are 0. A task is identified by
(gateway, job, attempt); the queue, scheduler and pool below the gateway are one
action, `TaskEnds`, that ends a live task done, with a retryable code or with a
final one, at any moment. That is every behaviour the pool can show a gateway,
including never ending a task.

`poll` and `submit` exclude each other by the gateway's lock, so a gateway has one
program counter: review (over a copy of `_active`), claim, enqueue, idle. Each SQL
statement is one step. `ReviewEnded` and `ReviewRenew` take `answered`: when it is
false the statement committed and its answer was lost, and the exception leaves
`poll` with `_active` unchanged. `SqlFails` is a statement that failed before
committing (or a claim whose answer was lost, which leaves the row claimed and
nobody aware of it). `Crash` covers both a crash and `stop`, whose comment says it
leaves accepted leases in SQL. `FOR UPDATE SKIP LOCKED` passes over rows that
another gateway is updating, so a claim may take any due job.

One clock serves the database and the gateways: clock skew between the database's
`now()` and a gateway's monotonic clock is not modelled. Deadlines are measured
by the gateway from the remaining time the claim returned, which is the same
instant under one clock.

### V73Worker

A call has two threads, as in the code. `handler` is the RPC thread in `process`
(lock, inspect, model, wait), `collector` the daemon thread that runs `_execute`
(claim, download, check, connect, send, read, record, verify, upload, fail). `mem`
is the `state` dictionary the collector carries, `disk` is `state.json`; every
`_write_json` replaces the file atomically and is one step. A call is a slot of a
process that is used again once both its threads are gone, so there is no bound
on the number of calls.

`_safe_path` runs before every use of a local path, so a call may be refused with
`invalid_artifacts` at each of these places (`PathErrors`; an `OSError` becomes
`worker_error`). Nothing is recorded and the job stays as it was. The one refusal
that depends on modelled state is the output directory: it may be "linked" when the
job's first call comes, and is then refused by every call.

The locks are flocks without waiting: a second call is refused with
`already_running` or `worker_busy`. They belong to the call (each `os.open` is its
own lock owner), are closed by the collector, and vanish with the process.
`Finish` closes both and sets `done` in one step; a call that came between the two
closes would see only a refusal more.

`Crash` kills a process with all its threads. Files, the daemon and its running
request stay. A deadline that passes and a client that hangs up are one event,
`Cancel`, since `_check_active` treats them alike.

The daemon is not part of the repository. It is modelled by what the worker may
meet: it creates the output directory, ends with a completed, an empty or an
invalid output or fails, answers, and may die or lose its answer at any point.
The checks of `_upload_result` and `_verify_manifest` on files, hashes and paths
are abstracted to their verdict: an output is "completed" when they accept it and
"invalid" when `result.json` says completed but they do not. An output directory
that exists before the job's first call is "partial", whatever is in it: without a
recorded run `_recover_response` does not read it. Also abstracted: which fields
of a payload are wrong, the S3 client, sizes and digests. `runs`, the requests
that reached the daemon, is a history variable.

## 3. Runs

All runs are small instances; `properties` of each are in its `.cfg`.

| Run | Instance | Shows |
|---|---|---|
| `pool_handoff` | 2 requests, 2 workers, batches of up to 2, 2 membership changes of any kind, shutdown | single ownership, nothing stranded, honest deadlines, the batch handler's contract, removed proxies stay quiet |
| `pool_capacity` | 2 simulation requests and a synthx one, batches of 1, 2 workers that take both kinds, 1 snapshot, pool in service | two outstanding batches at most; 503 only for requests no worker saw; a synthx request is sent once |
| `pool_liveness` | 1 request, 2 workers, one of them with two incarnations, 4 membership changes | every submitted request is settled; shutdown quiesces; the retry goes to another worker even if the failed one rejoins |
| `job_lease` | 1 job, 2 gateways, lease 2, deadline 4 | fencing, final outcomes, leases respected, results kept, live tasks tracked |
| `job_liveness` | 3 jobs, one with a bad fingerprint, 1 gateway with one slot, lease 1, deadline 2 | `_active` stays within `max_inflight`; every job ends |
| `job_orphan_task` | 1 gateway with two slots | expected violation, see section 5 |
| `v73_retry` | 1 job, 2 specs, 2 calls in 2 processes, 2 artifacts | the model runs once and never into a linked directory; complete results; true replies; nothing recorded is taken back; every RPC returns |
| `scheduler` | 4 tasks, queue of 2, batch sizes 1 and 2, all three strategies | no task lost, doubled or overtaken twice; queued and buffered tasks are served |
| `scheduler_switch` | 3 tasks, fifo and latency_aware | expected violation, see section 5 |
| `serving` | 2 tasks of any kind, jobs included, queue of 1, 2 in-process workers or a remote pool | answers stay true; the batch handler's contract; every `/predict` and `/text/tasks` request is answered |
| `worker_lifecycle` | 2 processes under one worker id, 1 fault | registration and routing recover; DRAINING sticks; foreign nodes are left alone |
| `rollout` | releases 1 to 3, 2 requests | admission opens on a consistent release only; an unfinished rollout is visible; accepted work is served and not killed; a failed rollout comes back; the operator's markers stay |

Why these bounds. The capacity limit of a proxy is 2 batches, so 3 requests on two
proxies reach refusal, a fallback that accepts, a handoff that accepts, a handoff
that meets a full candidate, and one that fills the proxy the scheduler has just
chosen. That needs both workers to take both kinds; so that it stays small,
`pool_capacity` follows the pool only until `stop` is called (`MCInService`). Shutdown
is the matter of the other two pool runs. A second
membership change is what lets a worker be drained and then removed, or removed
while its replacement joins; rejoining under the same id needs leave, handoff and
return, hence 4 there. A lease of 2 with a renewal interval of 1 and a deadline of
4 allows a lease to be renewed, to run out, to be taken over and to run out again
before the deadline. `MaxAttempts` is at least the number of claims that fit before
the deadline, so that bound never cuts a behaviour off (a lease and a retry delay
both last at least one tick, which leaves at most one claim per tick).
`job_liveness` needs jobs beyond its slot; one gateway is enough there, because
what another gateway can do to its rows, an expired or lost claim, it meets by
itself. `MaxTime` stops the clock at the deadline; nothing the gateways do depends
on later times, because at the deadline every row is overdue. `V73Worker` needs no
bound: slots are reused and a job has one run, so its state space is finite. Two
calls in two processes are a collector left behind and its competitor; two specs
show conflicts; two artifacts let one upload of two be missing. The execution lock
between different jobs needs two jobs; that is left to the theorem `Exclusive`.

`scheduler` has `BufferFactor` 2 where the code has 4: with four tasks a factor of 4
would never fill the buffer, and the cap is only interesting when it binds. Four
tasks fill queue and buffer at the same time, and leave room for an old, a crossing
and a fresh task in one tick. `serving` needs two requests to share a batch or to
wait for each other. `worker_lifecycle` allows one fault, in addition to any number
of orderly shutdowns and delays: every hazard listed for it takes a single fault
and an unlucky order. Two processes are a worker and its successor, or a rival of
the same name. `rollout` has two rollouts, so that the second starts from whatever
the first left, and two requests, so that one can be inside while another is at the
check.

Symmetry is used only in runs without liveness properties: tasks of one kind,
gateways, jobs without a bad fingerprint, specs and artifacts are interchangeable.
Deadlock is checked everywhere but in `serving`, `worker_lifecycle` and `rollout`,
which end when the process is shut down, the workers are gone or the last release is
out. The pool may stop after shutdown, which the
explicit `Terminated` step stands for; the gateways never stop polling, and a
V7.3 worker can always get another call.

### Fairness

`GrpcWorkerPool!Fairness` says that the threads of the API process run: weak
fairness of the scheduler thread, each dispatch thread, each settling thread, each
stopping thread, and of the passing of a deadline. Nothing is assumed of workers
or the network: an RPC need only end at its deadline, which gRPC enforces in the
client. New submissions, membership changes, the request handler's own timeout and
shutdown are not fair. In particular `EverySubmittedSettles` does not rely on the
handler.

`JobGateway!Fairness` says that time passes and that some gateway's polling thread
succeeds with its first statement again and again (strong fairness, because SQL
outages and crashes keep interrupting it) and then continues. Tasks need not end.

`V73Worker!FairSpec` says that RPC threads run and that a call's deadline passes
(or its client goes away). Nothing is assumed of collectors, storage or the
daemon, whose answer `_call_daemon` reads without a timeout.

`Scheduler!FairSpec` says that the scheduler thread runs; nobody has to reconfigure
or stop. `Serving!FairSpec` says that the event loop runs the handlers of `/predict`
and `/text/tasks` and that deadlines pass. It assumes nothing of the scheduler, the
workers, either pool or the job gateway, which is stopped first and whose poll may
fail for as long as SQL is away: `EveryRequestAnswered` is about requests, not jobs. `Membership!FairSpec` says
that the threads of worker and API processes run, that ZooKeeper answers as long as
it is up, expires dead sessions and is reached again after a disconnect. That a
worker's shutdown ends is no property here: the waits of `serve()` have timeouts, and
a model would only repeat that. `Rollout!FairSpec` says that the
rollout runs and that its waits time out; handlers need never return.

## 4. Proofs

`JobGatewayProofs` is checked by TLAPS for any set of gateways, any finite set of
jobs and any values of the timing constants that satisfy `GatewayAssumption`: a
renewal interval below the lease, a positive retry delay, at least one slot.
`MaxTime` and `MaxAttempts` are arbitrary, so the theorems bound nothing that the
code does not bound.

- `TypeCorrect`: type correctness. The inductive invariant `TypeInv` adds
  `ThreadOK`: the jobs under review are tracked, poll has a slot left whenever it
  claims (else `slots - 1` is not a natural number), and a thread about to enqueue
  has a real claim.
- `Fencing`, `Final`, `LeaseRespected`: all three follow from one lemma,
  `RowSteps`. It says that every step of the system changes a row in one of four
  ways (`RowStep`): not at all, expiry of an overdue row, a claim of a claimable
  row, or a statement of a gateway that holds the attempt with a live lease. The first
  two are then arguments about single row updates. `LeaseRespected` also names the
  writer: the step is a statement (`WritesFor`) of the gateway that tracks or has just
  claimed the row's attempt, for that attempt, so a gateway that lost the lease
  changes nothing while the holder is alive.
- `ResultKept`: a finished result whose lease is live stays tracked. The property
  is not inductive. `OwnInv` strengthens it to live tasks (`HolderTracks`) and adds
  `AttemptsOrdered`: a gateway's tasks are of attempts already claimed, and older
  than the attempt it is about to enqueue. The key lemma, `HeldBefore`, says that a
  lease once lost is never regained: an attempt that holds its lease after a step,
  and existed before it, held it before.
- `OneSlotTracked`: with `max_inflight = 1` every live task is tracked. The
  invariant adds `SlotFree`: a gateway between claim and enqueue tracks nothing.
  The assumption is needed, as section 5 shows.
- `NeverOverInflight`: `_active` stays within `max_inflight`, for every value of it.
  The bound alone is not inductive, because poll counts its free slots once and
  claims them one by one. `SlotsFit` is: the tracked jobs, the slots poll may still
  fill and the claim a thread is about to enqueue fit together.

`V73WorkerProofs` holds for any jobs, specs, artifacts, processes and calls, any
assignment of calls to processes, and rests on `V73Assumption` (distinct special
values) alone.

- `TypeCorrect`: `TypeInv` adds `ReqOK`, that a call past validation has a job and
  a spec.
- `StartedOnce`, `Exclusive`, `CopiesFresh`, `Remembered`: one inductive invariant,
  `OnceInv`. None of the four is inductive alone. `CallOK` ties a call's place to
  the flocks it holds; `CopyOK` says what a copy of `state.json` may lack: it is
  not older than the file, and as long as it has no response nobody has started
  the model, except this call between send and answer; `JobOK` says that a run
  leaves `running` or a response in the file. The exclusion of the job's flock
  then gives `StepOK`: a step of one call leaves every other call in order. `LinkInv`
  adds that no call holds a copy while the output directory is a link.
- `ResultsComplete`: `PubInv` on top of `OnceInv`. A copy without a response goes
  with a directory that does not exist, so whatever `_recover_response` finds
  later was written by the recorded run (`JobPub`, `CopyPub`), and an uploader's
  files are the completed ones, which the daemon never rewrites.
- `RepliesStayTrue`: `ReplyInv` on top of both. A reply speaks of a file that later
  calls rewrite; `Told` says what each reply needs of the file and of the runs, and
  `NothingForgotten` keeps it true from then on. `ReplyInv` asks the same of what
  the collector ended with, since the RPC thread passes that on later. The property
  says nothing of `invalid_artifacts`, which is the recorded verdict on a bad output
  and also the unrecorded refusal of a local path.

`RolloutProofs` holds for any number of releases and any set of requests, from
`RolloutAssumption` (there is a first release).

- `TypesHold`, `InterruptionsAreVisible`, `OpenMeansConsistent`,
  `AcceptedWorkIsServed`, `NoWorkIsKilled`: one inductive invariant, `IInv`. The
  properties say what holds when no transaction is recorded or when a service is
  open; to be inductive they need what holds in between. `Stages` says for each
  phase which of containers, pins and record already name the target; `Markers`
  says that after the fences every marker is this rollout's or the operator's, and
  which markers the phases of the reopening have removed; `Order` says that once
  the worker is fenced the gateway is idle.
- `NoWorkIsKilled` then follows from `Order` and from `Acknowledged`, which looks
  at the gate under its lock.
- `ForeignMarkersStay`: on top of `IInv`, `Checked` carries what `CheckOwners` found
  to the two unlinks: a marker still there is this rollout's, or the operator placed
  it since the check.

`WorkerServerProofs` holds for any calls, tasks and batches and assumes nothing.

- `RepliesAreComplete`, `SlotNeverLeaks`, `GateCountsCalls`: the invariant ties the
  results of a call to its remaining tasks (together they are the batch, without
  overlap), and the slot to the place of the call that holds it.

`SchedulerProofs` holds for any number of tasks, any bounds of queue and buffer, any
batch sizes and any of the three strategies (`SchedulerAssumption`).

- `TypeCorrect`, `NothingLostOrDuplicated`, `OvertakenAtMostOnce`: one inductive
  invariant, `IInv`. `OnePlace` counts places, which is awkward to carry through a
  step; `Whereabouts` says the same without counting: the places are disjoint, the
  queue holds no task twice, every task is somewhere. `Batches` says which pc has a
  batch or an `old` list. `Ages` says that the tasks past the threshold are the
  oldest ones, so a task can be passed over only in the tick in which it crosses
  the threshold. The lemmas `Popped` and `Pushed` describe `get` and `put` on
  sequences without repetition.

`GrpcWorkerPoolProofs` holds for any tasks, workers, incarnations and membership
snapshots, from `PoolAssumption` (special values are distinct, kinds and
capabilities are typed). The invariant comes in layers, each proved from the ones
below it:

- `Places`: `TypeOK`, `Holding` (what a thread of a given pc has in its hands) and
  `Owner` (nobody else has it). It gives `NoTaskInTwoPlaces`.
- `References`: a proxy that some submitter still refers to is a member, or it has
  been told to stop and refuses. With the lemma `Admission`, that a queue grows only
  through `try_submit`, it gives `NeverOverCapacity` and `NoBatchAfterRemoval`. This
  is where the code uses a candidate list after the pool lock is gone.
- `NextWrites`: every step writes a task in one of the ways of `Written`, a method
  of `Task` applied to a task in the writer's hands. From it follow
  `DeadlinesAreHonest` and the refinement `PoolImplementsBatchHandler`.
- `Safe`: a task that is not settled is still with the caller or the scheduler, in
  the hands of a thread, queued at a member or at a proxy some thread is about to
  stop and drain, or a reply left it out. `NoStranded` says this of every task.
- `Sends`: how often and where a task was sent, given who has it: a task on its way
  to a worker was sent as often as it was handed off and never to that worker. It
  gives `AtMostOneHandoff`, also when the failed worker rejoins in a new proxy.
- `TurnedAway`: a request refused with "overloaded" is in nobody's hands. It gives
  `TurnedAwayUnsent`; without it a later step might still send the task.

`ServingProofs` holds for any number of tasks and workers, with either pool
(`ServingAssumption`, which contains `SchedulerAssumption`).

- The invariant of the scheduler is not proved again. `SP` is `SchedulerProofs`
  instantiated with the variables of `Serving`; `SameSteps` and `SchedulerNext` say
  that each step of `Serving` is a step of the scheduler or leaves its variables
  alone.
- `AnswersStayTrue`, `ServingImplementsBatchHandler`: `IInv` adds `TypeOK`,
  `NoEarlyAnswer` (nobody is answered before the task exists) and `AnswersHold`
  itself. That a batch about to be handed over was not handed over before is what
  the refinement needs of `SP!IInv`.

`MembershipProofs` holds for any worker ids and processes, any assignment of ids to
processes and any number of faults (`MembershipAssumption`).

- `DrainingIsFinal`, `NodesOfOthersKept`, `TypeCorrect`: both action properties are
  about a single write, and are true because of what the registry call found out
  some steps earlier. `CallOK` carries that: a call belongs to a running process, its
  session is one the process has or had, its state is the current one or DRAINING,
  and the node it is about to set is its own unless the session was replaced
  meanwhile. `NodeSteps` then lists the three things a step can do to a node: drop
  it with its session, create it, or set its data.

Every safety property that a passing run checks is proved for all values of the
constants, with one restriction: `LiveTaskTracked` is proved (and true) for one slot
only. `TypeOK` of the proved modules is part of their theorems. No run checks
`WorkerServer`; the theorems do.

Only model-checked: the liveness properties (`EverySubmittedSettles`,
`StopQuiesces`, `EveryJobEnds`, `EveryCallReturns`, `Served`,
`EveryRequestAnswered`, `RegistrationRecovers`, `RoutingConverges`,
`ComesBack`), because the prover does not handle fairness or ENABLED, and the two
expected violations, which are counterexamples.

## 5. Findings and known limits

`job_orphan_task` (`LiveTaskTracked` with `MaxInflight = 2`). The comment at
`system/job_gateway.py:103` says why poll fails the task of a lost lease: "Prevent
a task waiting in the queue from executing a lost lease." Poll does so through
`_active`. If a lease runs out while polls fail (a SQL outage longer than
`lease_seconds - renew_interval`), `submit`, or the claim loop of the poll that
follows, can claim the same job for the same gateway and overwrite its
`_active` entry. The earlier task is then live and untracked, and nothing fails it
before its own deadline. Rows are not affected: completion is fenced by the
attempt. With the default `SYNTHX_JOBS_MAX_INFLIGHT=1` this cannot happen, which
`OneSlotTracked` proves.

`scheduler_switch` (`NoStarvation`). The docstring of `Scheduler` says that
reconfiguration "takes effect immediately", and that of `LatencyAwareScheduler` that
its buffer avoids starvation. Tasks in that buffer are out of reach of the other
strategies: after a switch away from `latency_aware` they are never dispatched,
while newer requests are, until the strategy is switched back. The callers of
requests time out (`EveryRequestAnswered` holds); a job's task is failed by the
gateway's poll at the job's deadline.

Limits of the code that the properties state as exceptions:

- `_ensure_registered` calls `set` without a version after `get`. If the session is
  replaced in between and another process has taken the id, its node is
  overwritten. `OnlyOwnNodes` and `RegistrationRecovers` allow exactly that case.
- A worker that comes back under its id with another address, before discovery has
  seen it absent, keeps its old proxy (`grpc_worker_pool.py:449`).
  `RoutingConverges` allows the old address for such ids (`moved`), nothing else.
- A rollout interrupted just when `begin_transaction` returns leaves
  `transaction.json` to nobody: admission is open and consistent, and the next
  rollout is refused until an operator removes the file. `ComesBack` does not
  require the file to be gone.
- `end_drain` reads the owners of its markers first and unlinks them afterwards; an
  operator's marker placed in between is removed. `docs/Inference_CICD.md:107` says
  "foreign markers are never removed"; `ForeignMarkersKept` states that with this
  one window as its exception.
- `invalid_artifacts` does not tell a caller whether a run had a bad output or a local
  path was refused before any run. `RepliesTrue` leaves that code out.

Seen while reading and not modelled: `healthy` catches `DeployError` in its polling
loop, so an interruption during the health check only shortens one turn of it; and
`/config/failure_rate` calls `push_config`, which the in-process pool does not have.

## 6. Not modelled

`PROJECT.json` lists every component. Outside the models for good: Prometheus
collectors, the plots and load generators under `experiments/`, dashboards,
generated protobuf code, and the host preparation and CI scripts (one-shot I/O).
The programs under `experiments/` drive the system from outside and aggregate what
they measured; they hold none of its state, so there is nothing of it to check there.
Inside the modelled components: timestamps, result values, error texts, response
bodies (the status codes of `/predict` and `/text/tasks` are modelled), parsing of
`STATIC_WORKERS` and `WORKER_CAPABILITIES`, `UpdateConfig` pushes.

## 7. Plan

Done: every component that carries control of the running system, the rollout, and
theorems for all safety properties and both refinements of `BatchHandler`. Left, in
this order:

1. An abstract specification of a durable job that `JobGateway` implements, with the
   refinement proved from `RowSteps`.
2. Theorems that join `WorkerServer`'s and `V73Worker`'s replies to those
   `GrpcWorkerPool!RpcReply` allows.
3. `UpdateConfig` pushes, if they ever carry more than the simulation's numbers.
