-------------------------------- MODULE Task --------------------------------
(***************************************************************************)
(* system/task.py: one inference request.  A task is a record of the three *)
(* fields that other threads decide on: its status, its error_code and the *)
(* number of retries it has reserved.  Each operator below is the body of  *)
(* one method; every method runs under the task's own lock, so it is one   *)
(* function from the old record to the new one.  Result, error text and    *)
(* timestamps are left out.  The deadline is not in the record: the        *)
(* specifications keep the set of tasks whose deadline has passed.         *)
(***************************************************************************)
EXTENDS Naturals

Status == {"pending", "processing", "done", "failed"}

\* error_code values written by the API process.  "worker_error" stands for
\* every code a worker reports for a single task other than its deadline, and
\* "none" for a failure without a code.
ErrorCodes == {"none", "deadline_exceeded", "overloaded", "transport_error",
               "cancelled", "worker_error"}

TaskRecord == [status : Status, error_code : ErrorCodes, retry_count : 0 .. 1]

NewTask == [status |-> "pending", error_code |-> "none", retry_count |-> 0]

Terminal(tk) == tk.status \in {"done", "failed"}

MarkProcessing(tk) ==
    IF Terminal(tk) THEN tk ELSE [tk EXCEPT !.status = "processing"]

MarkDone(tk) ==
    IF Terminal(tk) THEN tk ELSE [tk EXCEPT !.status = "done"]

\* mark_failed without the terminal check.
MarkFailedMutant(tk, code) ==
    [tk EXCEPT !.status = "failed", !.error_code = code]
MarkFailed(tk, code) ==
    IF Terminal(tk) THEN tk
    ELSE [tk EXCEPT !.status = "failed", !.error_code = code]

\* try_reserve_retry answers CanReserve and, when it may, consumes the retry.
CanReserve(tk, isExpired) ==
    /\ ~Terminal(tk)
    /\ ~isExpired
    /\ tk.retry_count < 1

ReserveRetry(tk) == [tk EXCEPT !.retry_count = @ + 1]
=============================================================================
