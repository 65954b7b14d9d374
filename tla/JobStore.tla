------------------------------ MODULE JobStore ------------------------------
(***************************************************************************)
(* system/job_store.py: the SQL statements on one row of                   *)
(* synthx.inference_jobs.  Each statement is a single atomic UPDATE, so it *)
(* is a guard (its WHERE clause) and a function from the old row to the    *)
(* new one; a statement whose guard is false changes nothing and reports a *)
(* row count of 0.  Time is the database's now().                          *)
(*                                                                         *)
(* attempt_id is a fresh UUID at every claim.  The row's attempts counter  *)
(* grows by one at every claim, so it identifies an attempt of a job as    *)
(* well as the UUID does, and the model uses it for both.                  *)
(***************************************************************************)
EXTENDS Naturals

RowStatus == {"queued", "running", "succeeded", "failed"}

\* lease = 0 is SQL's NULL.  result is the attempt whose result the row
\* holds, 0 for none; updated is updated_at.
Rows == [status : RowStatus, attempts : Nat, lease : Nat, next : Nat,
         result : Nat, updated : Nat]

NewRow == [status |-> "queued", attempts |-> 0, lease |-> 0, next |-> 0,
           result |-> 0, updated |-> 0]

RowTerminal(r) == r.status \in {"succeeded", "failed"}

\* LEAST(now() + lease_seconds, deadline_at)
LeaseUntil(now, lease, deadline) ==
    IF now + lease <= deadline THEN now + lease ELSE deadline

Claimable(r, now, deadline) ==
    /\ deadline > now
    /\ \/ r.status = "queued" /\ r.next <= now
       \/ r.status = "running" /\ r.lease <= now

ClaimRow(r, now, lease, deadline) ==
    [r EXCEPT !.status = "running", !.attempts = @ + 1,
              !.lease = LeaseUntil(now, lease, deadline), !.updated = now]

\* Fencing without the attempt id.
HoldsMutant(r, attempt, now, deadline) ==
    r.status = "running" /\ r.lease > now /\ deadline > now
\* The WHERE clause shared by renew, complete and defer: the caller's attempt
\* is the current one and its lease and the deadline are still ahead.
Holds(r, attempt, now, deadline) ==
    /\ r.attempts = attempt
    /\ r.status = "running"
    /\ r.lease > now
    /\ deadline > now

RenewRow(r, now, lease, deadline) ==
    [r EXCEPT !.lease = LeaseUntil(now, lease, deadline), !.updated = now]

\* complete, with the result of an attempt or with an error
SucceedRow(r, attempt, now) ==
    [r EXCEPT !.status = "succeeded", !.result = attempt, !.lease = 0,
              !.updated = now]

FailRow(r, now) ==
    [r EXCEPT !.status = "failed", !.lease = 0, !.updated = now]

DeferRow(r, now, retry) ==
    [r EXCEPT !.status = "queued", !.lease = 0, !.next = now + retry,
              !.updated = now]

\* An expiry statement that leaves running rows to their owner.
OverdueQueuedMutant(r, now, deadline) == r.status = "queued" /\ deadline <= now
\* An expiry statement that also rewrites finished rows.
OverdueMutant(r, now, deadline) == deadline <= now
Overdue(r, now, deadline) ==
    r.status \in {"queued", "running"} /\ deadline <= now
=============================================================================
