---------------------------- MODULE BatchHandler ----------------------------
(***************************************************************************)
(* What the scheduler and the request handlers rely on when a batch is     *)
(* passed to the batch_handler (system/scheduler.py, Scheduler._handler),  *)
(* whichever pool is behind it: the in-process WorkerPool (worker.py) or   *)
(* the GrpcWorkerPool.                                                     *)
(*                                                                         *)
(*   - a task is handed over once;                                         *)
(*   - the pool writes only tasks that were handed to it, and only with    *)
(*     the methods of Task, so the first outcome of a task is its last;    *)
(*   - the only other writer is the task's own caller, who may give up on  *)
(*     it at any time, before or after the hand-over.                      *)
(*                                                                         *)
(* GrpcWorkerPool and Serving are both checked to implement Spec.          *)
(***************************************************************************)
EXTENDS Task

CONSTANT Tasks

VARIABLES task,    \* [Tasks -> TaskRecord]
          handed   \* tasks passed to the pool's submit

Init ==
    /\ task = [t \in Tasks |-> NewTask]
    /\ handed = {}

Submit(batch) ==
    /\ batch \subseteq Tasks \ handed
    /\ handed' = handed \cup batch
    /\ UNCHANGED task

\* What one method call of the pool may make of a task it holds.
Outcomes(tk) ==
    IF Terminal(tk) THEN {tk}
    ELSE {tk, MarkProcessing(tk), MarkDone(tk)}
         \cup {MarkFailed(tk, code) : code \in ErrorCodes}
         \cup {ReserveRetry(tk) : x \in {r \in {0} : tk.retry_count = r}}

Work ==
    /\ \A t \in handed : task'[t] \in Outcomes(task[t])
    /\ \A t \in Tasks \ handed : task'[t] = task[t]
    /\ UNCHANGED handed

GiveUp(t) ==
    /\ \E code \in {"deadline_exceeded", "cancelled"} :
          task' = [task EXCEPT ![t] = MarkFailed(@, code)]
    /\ UNCHANGED handed

Next ==
    \/ \E batch \in SUBSET (Tasks \ handed) : Submit(batch)
    \/ Work
    \/ \E t \in Tasks : GiveUp(t)

Spec == Init /\ [][Next]_<<task, handed>>
=============================================================================
