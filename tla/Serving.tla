------------------------------ MODULE Serving -------------------------------
(***************************************************************************)
(* The serving path of the API process, from a request to its answer:      *)
(* system/api_server.py (/predict, /text/tasks and lifespan), the          *)
(* Scheduler, and the pool behind it, which is either the in-process       *)
(* WorkerPool of system/worker.py or, with USE_GRPC, a GrpcWorkerPool.     *)
(*                                                                         *)
(* The scheduler's steps are those of module Scheduler.  The GrpcWorkerPool *)
(* is represented by what BatchHandler allows a pool to do; that the real  *)
(* one does no more is checked in GrpcWorkerPool.                          *)
(*                                                                         *)
(* Threads: the event loop, which runs every request handler; the job      *)
(* gateway's thread; the scheduler thread; one thread per local Worker.    *)
(***************************************************************************)
EXTENDS Task, Sequences, FiniteSets

CONSTANTS
    NumTasks, Strategies, BatchSizes, MaxQueue, BufferFactor,
    Workers,       \* local Worker threads, config.num_workers of them
    PoolCodes      \* error codes the remote pool reports

ASSUME ServingAssumption ==
    /\ NumTasks \in Nat
    /\ Strategies \subseteq {"fifo", "batching", "latency_aware"}
    /\ Strategies # {}
    /\ BatchSizes \subseteq Nat \ {0} /\ 1 \in BatchSizes
    /\ MaxQueue \in Nat \ {0}
    /\ BufferFactor \in Nat \ {0}
    /\ Workers # {} /\ PoolCodes \subseteq ErrorCodes

VARIABLES
    created, making, refused, queue, strategy, batchSize, up, buffer, stale,
    sched, handed, skips,   \* of Scheduler
    remote,     \* USE_GRPC and JOBS_ENABLED: fixed when the process starts
    kind,       \* which endpoint constructed the task ("none" before)
    expired,    \* tasks past their deadline
    task,       \* [Tasks -> TaskRecord]
    answer,     \* what the task's caller was told
    wpc, wq, cur, \* per Worker: its thread, _batch_queue and current batch
    down,       \* Worker._stop of every worker
    gateway     \* the job gateway's thread: "on", "stopping" (told to leave its
                \* loop, maybe still in a poll) or "off" (also without jobs)

Sch == INSTANCE Scheduler

Tasks == Sch!Tasks
schedulerVars == <<created, making, refused, queue, strategy, batchSize, up, buffer,
                   stale, sched, handed, skips>>
workerVars == <<wpc, wq, cur>>
servingVars == <<remote, kind, expired, task, answer, workerVars, down, gateway>>
vars == <<schedulerVars, servingVars>>

Answers == {"none", "200", "499", "500", "502", "503", "504"}

TypeOK ==
    /\ Sch!TypeOK
    /\ remote \in BOOLEAN
    /\ kind \in [Tasks -> {"none", "predict", "text", "job"}]
    /\ \A t \in Tasks : kind[t] = "none" <=> t > created
    /\ expired \subseteq Sch!Created
    /\ task \in [Tasks -> TaskRecord]
    /\ answer \in [Tasks -> Answers]
    /\ wpc \in [Workers -> {"top", "drain", "work", "exited"}]
    /\ wq \in [Workers -> Seq(SUBSET handed)]
    /\ cur \in [Workers -> SUBSET handed]
    /\ down \in BOOLEAN
    /\ gateway \in {"on", "stopping", "off"}

\* WorkerPool.start: every Worker waits for work.
NewWorkers ==
    /\ wpc = [w \in Workers |-> "top"]
    /\ wq = [w \in Workers |-> <<>>]
    /\ cur = [w \in Workers |-> {}]
    /\ down = FALSE

\* lifespan, up to its yield: with durable jobs the batch size starts at 1.
Init ==
    /\ Sch!Init
    /\ remote \in BOOLEAN
    /\ remote => batchSize = 1
    /\ kind = [t \in Tasks |-> "none"]
    /\ expired = {}
    /\ task = [t \in Tasks |-> NewTask]
    /\ answer = [t \in Tasks |-> "none"]
    /\ NewWorkers
    /\ gateway = IF remote THEN "on" ELSE "off"

-----------------------------------------------------------------------------
(* Requests                                                                *)

\* require_jobs_auth: text tasks and jobs need JOBS_ENABLED.
Permitted(k) == k # "predict" => remote

\* The server serves requests until lifespan goes on after its yield.
ServerOpen == up /\ (remote => gateway = "on")

\* The gateway's thread may still be in the middle of a poll then.
Alive(k) == IF k = "job" THEN gateway # "off" ELSE ServerOpen

\* predict, text_task (after its checks of the body) or JobGateway constructs
\* the task.
Construct(p, k) ==
    /\ (p = "gateway") = (k = "job")
    /\ Permitted(k) /\ Alive(k)
    /\ Sch!Create(p)
    /\ kind' = [kind EXCEPT ![created + 1] = k]
    /\ UNCHANGED <<remote, expired, task, answer, workerVars, down, gateway>>

\* A full queue is answered at once: 503, or the job's lease is released.
Enqueue(p) ==
    /\ Sch!Put(p)
    /\ answer' = IF refused' = refused THEN answer
                 ELSE [answer EXCEPT ![making[p]] = "503"]
    /\ UNCHANGED <<remote, kind, expired, task, workerVars, down, gateway>>

Expire(t) ==
    /\ t \in Sch!Created \ expired
    /\ expired' = expired \cup {t}
    /\ UNCHANGED <<schedulerVars, remote, kind, task, answer, workerVars, down, gateway>>

\* The caller polls its task: queued, and not answered yet.  A job's caller is
\* the gateway, while its thread runs.
Waiting(t) ==
    /\ kind[t] # "none" /\ answer[t] = "none"
    /\ kind[t] = "job" => gateway # "off"
    /\ \A p \in Sch!Producers : making[p] # t

\* The statuses the handlers make of an error_code; "502" stands for what
\* text_task makes of a worker's own codes (422, 502 or 503).
PredictStatus(code) ==
    CASE code = "deadline_exceeded" -> "504"
      [] code = "overloaded" -> "503"
      [] OTHER -> "500"

TextStatus(code) ==
    CASE code = "deadline_exceeded" -> "504"
      [] code \in {"overloaded", "transport_error"} -> "503"
      [] code = "cancelled" -> "499"
      [] OTHER -> "502"

HttpStatus(k, tk) ==
    IF tk.status = "done" THEN "200"
    ELSE IF k = "predict" THEN PredictStatus(tk.error_code)
    ELSE TextStatus(tk.error_code)

\* A handler that answers a timeout without settling the task.
SettledMutant(t) == task[t]
\* The caller fails an expired task itself, a no-op if a worker was faster.
Settled(t) ==
    IF t \in expired THEN MarkFailed(task[t], "deadline_exceeded") ELSE task[t]

\* A handler that waits for the workers only.
PollEndsMutant(t) == Terminal(task[t])
PollEnds(t) == Terminal(task[t]) \/ t \in expired

\* The polling loop of predict, text_task or the gateway ends.  (A task that is
\* neither terminal nor expired after it gets predict's last 504.)
Answer(t) ==
    /\ Waiting(t) /\ PollEnds(t)
    /\ task' = [task EXCEPT ![t] = Settled(t)]
    /\ answer' = [answer EXCEPT ![t] =
                     IF Terminal(Settled(t)) THEN HttpStatus(kind[t], Settled(t))
                     ELSE "504"]
    /\ UNCHANGED <<schedulerVars, remote, kind, expired, workerVars, down, gateway>>

\* A text caller disconnects, or the gateway loses the job's lease; the task
\* may have been settled since the caller last looked.
Abandon(t) ==
    /\ Waiting(t) /\ kind[t] # "predict"
    /\ task' = [task EXCEPT ![t] = MarkFailed(@, "cancelled")]
    /\ answer' = [answer EXCEPT ![t] = "499"]
    /\ UNCHANGED <<schedulerVars, remote, kind, expired, workerVars, down, gateway>>

-----------------------------------------------------------------------------
(* The scheduler thread calls the pool                                     *)

\* Worker.busy: queued work only, not the batch being processed.
BusyWorker(w) == wq[w] # <<>>

\* Worker.submit
SubmitTo(w, batch) == wq' = [wq EXCEPT ![w] = Append(@, batch)]

\* WorkerPool.submit: round-robin over the workers with an empty queue, or over
\* all of them; which one depends on the index.
WorkerPoolSubmit(batch) ==
    LET idle == {w \in Workers : ~BusyWorker(w)}
    IN \E w \in IF idle # {} THEN idle ELSE Workers : SubmitTo(w, batch)

Dispatch ==
    /\ Sch!Hand
    /\ IF remote THEN UNCHANGED wq ELSE WorkerPoolSubmit(sched.batch)
    /\ UNCHANGED <<remote, kind, expired, task, answer, wpc, cur, down, gateway>>

SchedulerStep ==
    \/ Sch!AssembleStep /\ UNCHANGED servingVars
    \/ Dispatch

\* POST /config/scheduler and /config/batch_size
Reconfigure ==
    /\ ServerOpen
    /\ \/ \E s \in Strategies : Sch!SetScheduler(s)
       \/ \E n \in BatchSizes : Sch!SetBatchSize(n)
    /\ UNCHANGED servingVars

-----------------------------------------------------------------------------
(* Worker._loop and Worker._process                                        *)

workerOnly == <<schedulerVars, remote, kind, expired, answer, down, gateway>>

\* Top of the loop: leave when stopped, else wait for work; a wait that times
\* out with nothing queued goes around.
Wake(w) ==
    /\ wpc[w] = "top"
    /\ wq[w] # <<>> \/ down
    /\ wpc' = [wpc EXCEPT ![w] = IF down THEN "exited" ELSE "drain"]
    /\ UNCHANGED <<workerOnly, task, wq, cur>>

\* Pop a batch and mark its tasks as processing.
PopBatch(w) ==
    /\ wpc[w] = "drain" /\ wq[w] # <<>>
    /\ cur' = [cur EXCEPT ![w] = Head(wq[w])]
    /\ wq' = [wq EXCEPT ![w] = Tail(@)]
    /\ task' = [t \in Tasks |-> IF t \in Head(wq[w]) THEN MarkProcessing(task[t])
                                ELSE task[t]]
    /\ wpc' = [wpc EXCEPT ![w] = "work"]
    /\ UNCHANGED workerOnly

NothingQueued(w) ==
    /\ wpc[w] = "drain" /\ wq[w] = <<>>
    /\ wpc' = [wpc EXCEPT ![w] = "top"]
    /\ UNCHANGED <<workerOnly, task, wq, cur>>

\* Failure injection fails the whole batch, a bad input its own task.
Process(w) ==
    /\ wpc[w] = "work"
    /\ \E bad \in SUBSET cur[w] :
          task' = [t \in Tasks |-> IF t \in bad THEN MarkFailed(task[t], "none")
                                   ELSE IF t \in cur[w] THEN MarkDone(task[t])
                                   ELSE task[t]]
    /\ cur' = [cur EXCEPT ![w] = {}]
    /\ wpc' = [wpc EXCEPT ![w] = "drain"]
    /\ UNCHANGED <<workerOnly, wq>>

WorkerStep(w) ==
    ~remote /\ (Wake(w) \/ PopBatch(w) \/ NothingQueued(w) \/ Process(w))

\* What BatchHandler says of a GrpcWorkerPool ("processing" is not observed).
PoolStep(t) ==
    /\ remote /\ t \in handed
    /\ \E tk \in {MarkDone(task[t])} \cup {MarkFailed(task[t], c) : c \in PoolCodes} :
          task' = [task EXCEPT ![t] = tk]
    /\ UNCHANGED <<workerOnly, workerVars>>

-----------------------------------------------------------------------------
(* lifespan, after its yield: the server completes every open request first, *)
(* then the job gateway is stopped, the scheduler, and after it the workers. *)

\* The server has answered every request it accepted.
RequestsServed == \A t \in Sch!Created : answer[t] # "none" \/ kind[t] = "job"

\* JobGateway.stop sets _stop and waits for its thread, five seconds at most.
StopGateway ==
    /\ RequestsServed /\ gateway = "on" /\ gateway' = "stopping"
    /\ UNCHANGED <<schedulerVars, remote, kind, expired, task, answer, workerVars, down>>

\* The gateway's thread leaves its loop after the poll it was in: jobs that are
\* not settled by then keep their lease in SQL and nobody polls their tasks.
GatewayExits ==
    /\ gateway = "stopping" /\ making["gateway"] = 0 /\ gateway' = "off"
    /\ UNCHANGED <<schedulerVars, remote, kind, expired, task, answer, workerVars, down>>

\* Scheduler.stop, after the gateway's thread ended or the wait for it timed out.
StopScheduler ==
    /\ RequestsServed /\ gateway # "on"
    /\ Sch!Stop
    /\ UNCHANGED servingVars

StopWorkers ==
    /\ ~up /\ ~down /\ down' = TRUE
    /\ UNCHANGED <<schedulerVars, remote, kind, expired, task, answer, workerVars, gateway>>

-----------------------------------------------------------------------------
Next ==
    \/ \E p \in Sch!Producers, k \in {"predict", "text", "job"} : Construct(p, k)
    \/ \E p \in Sch!Producers : Enqueue(p)
    \/ \E t \in Tasks : Expire(t) \/ Answer(t) \/ Abandon(t) \/ PoolStep(t)
    \/ SchedulerStep
    \/ Reconfigure
    \/ \E w \in Workers : WorkerStep(w)
    \/ StopGateway \/ GatewayExits
    \/ StopScheduler
    \/ StopWorkers

Spec == Init /\ [][Next]_vars

\* The event loop runs every request handler on, and time passes.  Nothing is
\* assumed of the scheduler, the workers, the remote pool, reconfiguration or
\* shutdown, nor of the job gateway's poll, which SQL may hold up or the
\* shutdown end.
FairSpec ==
    /\ Spec
    /\ WF_vars(Enqueue("loop"))
    /\ \A t \in Tasks : /\ WF_vars(kind[t] # "job" /\ Answer(t))
                        /\ WF_vars(Expire(t))

-----------------------------------------------------------------------------
(* Correctness                                                             *)

Handler == INSTANCE BatchHandler

\* The scheduler and the callers keep to the contract of the batch handler with
\* either pool: a task is handed over once, written by a worker only after that,
\* and its first outcome is its last.
ImplementsBatchHandler == Handler!Spec

\* What a caller was told stays true: the status is the one the task's outcome
\* still implies, however late a worker reports.
AnswersHold ==
    \A t \in Tasks \ refused :
        answer[t] \notin {"none", "499"} =>
            Terminal(task[t]) /\ answer[t] = HttpStatus(kind[t], task[t])

\* Every request of /predict and /text/tasks is answered, even if its task is
\* stranded in the latency-aware buffer, stuck in the pool, or its worker never
\* reports, and the shutdown that waits for it does not cut it short.  Under
\* FairSpec.  (What becomes of jobs is the matter of JobGateway.)
EveryRequestAnswered ==
    \A t \in Tasks : kind[t] \in {"predict", "text"} ~> answer[t] # "none"
=============================================================================
