----------------------------- MODULE JobGateway -----------------------------
(***************************************************************************)
(* system/job_gateway.py: several API processes dispatch durable jobs from *)
(* the shared SQL table.  Within a gateway, poll and submit exclude each   *)
(* other (the RLock); between gateways only the database synchronises.     *)
(* Every SQL statement is one step, so time, workers, other gateways,      *)
(* crashes and SQL outages come between any two statements.                *)
(*                                                                         *)
(* An in-memory task (one leased attempt) is identified by its job and its *)
(* attempt.  The queue, the scheduler and the pool below it are abstracted *)
(* to TaskEnds: a live task ends once, done or failed with some code.      *)
(***************************************************************************)
EXTENDS JobStore, Naturals, FiniteSets

CONSTANTS
    Jobs, Gateways,
    NoJob,
    BadSpec,        \* jobs whose spec does not match spec_sha256
    Deadline,       \* [Jobs -> Nat], deadline_at
    LeaseSeconds, RenewInterval, RetrySeconds, MaxInflight,
    MaxTime,        \* bound: the clock stops here
    MaxAttempts     \* bound: claims of one job

ASSUME GatewayAssumption ==
    /\ IsFiniteSet(Jobs)
    /\ NoJob \notin Jobs
    /\ BadSpec \subseteq Jobs
    /\ Deadline \in [Jobs -> Nat]
    /\ LeaseSeconds \in Nat /\ RenewInterval \in Nat
    /\ RenewInterval < LeaseSeconds
    /\ RetrySeconds \in Nat \ {0}
    /\ MaxInflight \in Nat \ {0}
    /\ MaxTime \in Nat
    /\ MaxAttempts \in Nat

VARIABLES
    now,        \* the clock, common to the database and the gateways
    row,        \* [Jobs -> Rows], synthx.inference_jobs
    tasks,      \* a gateway's in-memory task for an attempt of a job
    active,     \* JobGateway._active: the attempt tracked, 0 for none
    renewed,    \* when that attempt was last renewed
    pc,         \* where the thread holding the gateway's lock is
    review,     \* jobs poll has still to look at
    slots,      \* claims poll or submit may still make
    claimed     \* the job claimed but not yet enqueued

vars == <<now, row, tasks, active, renewed, pc, review, slots, claimed>>

Attempts == 1 .. MaxAttempts

\* "live" is pending or processing; a failed task's error_code is in
\* RETRYABLE_ERRORS or final.
TaskStates == {"none", "live", "done", "retryable", "final"}
NoClaim == [job |-> NoJob, attempt |-> 0]

TypeOK ==
    /\ now \in Nat
    /\ row \in [Jobs -> Rows]
    /\ tasks \in [Gateways -> [Jobs -> [Attempts -> TaskStates]]]
    /\ active \in [Gateways -> [Jobs -> 0 .. MaxAttempts]]
    /\ renewed \in [Gateways -> [Jobs -> Nat]]
    /\ pc \in [Gateways -> {"idle", "review", "claim", "enqueue"}]
    /\ review \in [Gateways -> SUBSET Jobs]
    /\ slots \in [Gateways -> Nat]
    /\ claimed \in [Gateways -> [job : Jobs \cup {NoJob}, attempt : 0 .. MaxAttempts]]

NoTasks == [j \in Jobs |-> [a \in Attempts |-> "none"]]
NoneTracked == [j \in Jobs |-> 0]

Init ==
    /\ now = 0
    /\ row = [j \in Jobs |-> NewRow]
    /\ tasks = [g \in Gateways |-> NoTasks]
    /\ active = [g \in Gateways |-> NoneTracked]
    /\ renewed = [g \in Gateways |-> NoneTracked]
    /\ pc = [g \in Gateways |-> "idle"]
    /\ review = [g \in Gateways |-> {}]
    /\ slots = [g \in Gateways |-> 0]
    /\ claimed = [g \in Gateways |-> NoClaim]

-----------------------------------------------------------------------------
Tracked(g) == {j \in Jobs : active[g][j] # 0}
\* A poll that does not count the tasks already tracked.
FreeMutant(g) == MaxInflight
Free(g) == IF Cardinality(Tracked(g)) < MaxInflight
           THEN MaxInflight - Cardinality(Tracked(g)) ELSE 0

TaskOf(g, j) == tasks[g][j][active[g][j]]

Untrack(g, j) == active' = [active EXCEPT ![g][j] = 0]

\* Losing the lease without failing the task.
LoseLeaseMutant(g, j) == Untrack(g, j) /\ UNCHANGED tasks
\* mark_failed(..., "lease_lost") and forget the task.
LoseLease(g, j) ==
    /\ tasks' = [tasks EXCEPT ![g][j][active[g][j]] = "final"]
    /\ Untrack(g, j)

\* poll has looked at job j: the next one, or the claims.
Reviewed(g, j) ==
    /\ review' = [review EXCEPT ![g] = @ \ {j}]
    /\ UNCHANGED <<pc, slots, claimed>>

\* An exception leaves poll or submit: the lock is released, and the next
\* poll starts from what _active and SQL hold.
GiveUp(g) ==
    /\ pc' = [pc EXCEPT ![g] = "idle"]
    /\ review' = [review EXCEPT ![g] = {}]
    /\ slots' = [slots EXCEPT ![g] = 0]
    /\ claimed' = [claimed EXCEPT ![g] = NoClaim]

-----------------------------------------------------------------------------
(* poll                                                                    *)

ExpireDeadlines ==
    row' = [j \in Jobs |-> IF Overdue(row[j], now, Deadline[j])
                           THEN FailRow(row[j], now) ELSE row[j]]

\* poll begins: expire_deadlines, then go over a copy of _active.
PollStart(g) ==
    /\ pc[g] = "idle"
    /\ ExpireDeadlines
    /\ pc' = [pc EXCEPT ![g] = "review"]
    /\ review' = [review EXCEPT ![g] = Tracked(g)]
    /\ UNCHANGED <<now, tasks, active, renewed, slots, claimed>>

\* The tracked task as poll sees it: one past its deadline is failed first.
Seen(g, j) ==
    IF TaskOf(g, j) = "live" /\ now >= Deadline[j] THEN "final" ELSE TaskOf(g, j)

\* How poll writes an ended task back: a statement guarded by Holds.
WriteBack(r, a, st) ==
    CASE st = "done" -> SucceedRow(r, a, now)
      [] st = "retryable" -> DeferRow(r, now, RetrySeconds)
      [] OTHER -> FailRow(r, now)

\* An ended task: write it back, then forget it whatever the row count.  When
\* the answer is lost (an exception after the commit) it stays tracked.
ReviewEnded(g, j, answered) ==
    LET a == active[g][j]
        st == Seen(g, j)
    IN /\ pc[g] = "review"
       /\ j \in review[g]
       /\ st # "live"
       /\ tasks' = [tasks EXCEPT ![g][j][a] = st]
       /\ row' = [row EXCEPT ![j] = IF Holds(@, a, now, Deadline[j])
                                    THEN WriteBack(@, a, st) ELSE @]
       /\ \/ answered /\ Untrack(g, j) /\ Reviewed(g, j)
          \/ ~answered /\ GiveUp(g) /\ UNCHANGED active
       /\ UNCHANGED <<now, renewed>>

RenewalDue(g, j) == now - renewed[g][j] >= RenewInterval

\* A live task whose renewal is not due is left alone.
ReviewNotDue(g, j) ==
    /\ pc[g] = "review"
    /\ j \in review[g]
    /\ Seen(g, j) = "live"
    /\ ~RenewalDue(g, j)
    /\ Reviewed(g, j)
    /\ UNCHANGED <<now, row, tasks, active, renewed>>

\* A live task whose renewal is due: extend its lease, or fail it when the
\* lease is lost.
ReviewRenew(g, j, answered) ==
    LET a == active[g][j]
        held == Holds(row[j], a, now, Deadline[j])
    IN /\ pc[g] = "review"
       /\ j \in review[g]
       /\ Seen(g, j) = "live"
       /\ RenewalDue(g, j)
       /\ row' = [row EXCEPT ![j] =
                    IF held THEN RenewRow(@, now, LeaseSeconds, Deadline[j]) ELSE @]
       /\ \/ /\ answered /\ held
             /\ renewed' = [renewed EXCEPT ![g][j] = now]
             /\ Reviewed(g, j)
             /\ UNCHANGED <<tasks, active>>
          \/ /\ answered /\ ~held
             /\ LoseLease(g, j)
             /\ Reviewed(g, j)
             /\ UNCHANGED renewed
          \/ /\ ~answered
             /\ GiveUp(g)
             /\ UNCHANGED <<tasks, active, renewed>>
       /\ UNCHANGED now

\* All of _active was looked at: the free slots are counted once.
ReviewDone(g) ==
    /\ pc[g] = "review"
    /\ review[g] = {}
    /\ pc' = [pc EXCEPT ![g] = IF Free(g) = 0 THEN "idle" ELSE "claim"]
    /\ slots' = [slots EXCEPT ![g] = Free(g)]
    /\ UNCHANGED <<now, row, tasks, active, renewed, review, claimed>>

\* claim for any due job.  FOR UPDATE SKIP LOCKED passes over rows that other
\* gateways are updating, so the order of next_attempt_at decides nothing.
Claim(g, j) ==
    /\ pc[g] = "claim"
    /\ Claimable(row[j], now, Deadline[j])
    /\ row[j].attempts < MaxAttempts
    /\ row' = [row EXCEPT ![j] = ClaimRow(@, now, LeaseSeconds, Deadline[j])]
    /\ pc' = [pc EXCEPT ![g] = "enqueue"]
    /\ claimed' = [claimed EXCEPT ![g] = [job |-> j, attempt |-> row[j].attempts + 1]]
    /\ slots' = [slots EXCEPT ![g] = @ - 1]
    /\ UNCHANGED <<now, tasks, active, renewed, review>>

\* Nothing is due: poll ends.
ClaimNone(g) ==
    /\ pc[g] = "claim"
    /\ \A j \in Jobs : ~Claimable(row[j], now, Deadline[j])
    /\ GiveUp(g)
    /\ UNCHANGED <<now, row, tasks, active, renewed>>

-----------------------------------------------------------------------------
(* submit and _enqueue                                                     *)

\* submit(job_id): claim that very job when there is room.  Without room, or
\* when the job is not due, submit only reads the row.
Submit(g, j) ==
    /\ pc[g] = "idle"
    /\ Cardinality(Tracked(g)) < MaxInflight
    /\ Claimable(row[j], now, Deadline[j])
    /\ row[j].attempts < MaxAttempts
    /\ row' = [row EXCEPT ![j] = ClaimRow(@, now, LeaseSeconds, Deadline[j])]
    /\ pc' = [pc EXCEPT ![g] = "enqueue"]
    /\ claimed' = [claimed EXCEPT ![g] = [job |-> j, attempt |-> row[j].attempts + 1]]
    /\ UNCHANGED <<now, tasks, active, renewed, review, slots>>

\* _enqueue returns: the next claim while poll has slots left.
Enqueued(g) ==
    /\ pc' = [pc EXCEPT ![g] = IF slots[g] = 0 THEN "idle" ELSE "claim"]
    /\ claimed' = [claimed EXCEPT ![g] = NoClaim]
    /\ UNCHANGED <<now, review, slots>>

\* The task enters the queue and _active, whatever _active held for the job.
EnqueueTask(g) ==
    LET j == claimed[g].job
        a == claimed[g].attempt
    IN /\ pc[g] = "enqueue"
       /\ j \notin BadSpec
       /\ tasks' = [tasks EXCEPT ![g][j][a] = "live"]
       /\ active' = [active EXCEPT ![g][j] = a]
       /\ renewed' = [renewed EXCEPT ![g][j] = now]
       /\ Enqueued(g)
       /\ UNCHANGED row

\* The spec does not match its fingerprint (the job fails) or the task queue
\* is full (the job is deferred): the claim is undone in SQL if still held.
EnqueueRefused(g) ==
    LET j == claimed[g].job
        a == claimed[g].attempt
    IN /\ pc[g] = "enqueue"
       /\ row' = [row EXCEPT ![j] =
                    IF Holds(@, a, now, Deadline[j])
                    THEN WriteBack(@, a, IF j \in BadSpec THEN "final" ELSE "retryable")
                    ELSE @]
       /\ Enqueued(g)
       /\ UNCHANGED <<tasks, active, renewed>>

-----------------------------------------------------------------------------
(* The environment                                                         *)

\* The pool settles a task: done, or failed with some code.
TaskEnds(g, j, a) ==
    /\ tasks[g][j][a] = "live"
    /\ \E st \in {"done", "retryable", "final"} :
          tasks' = [tasks EXCEPT ![g][j][a] = st]
    /\ UNCHANGED <<now, row, active, renewed, pc, review, slots, claimed>>

\* An exception handler that clears _active.
SqlFailsMutant(g) ==
    /\ pc[g] # "idle"
    /\ GiveUp(g)
    /\ active' = [active EXCEPT ![g] = NoneTracked]
    /\ UNCHANGED <<now, row, tasks, renewed>>
\* A statement fails before it commits, or its answer to claim is lost.
SqlFails(g) ==
    /\ pc[g] # "idle"
    /\ GiveUp(g)
    /\ UNCHANGED <<now, row, tasks, active, renewed>>

\* The process dies, or is stopped ("leave accepted leases in SQL"), and
\* another one starts in its place.
Crash(g) ==
    /\ tasks' = [tasks EXCEPT ![g] = NoTasks]
    /\ active' = [active EXCEPT ![g] = NoneTracked]
    /\ renewed' = [renewed EXCEPT ![g] = NoneTracked]
    /\ GiveUp(g)
    /\ UNCHANGED <<now, row>>

Tick ==
    /\ now < MaxTime
    /\ now' = now + 1
    /\ UNCHANGED <<row, tasks, active, renewed, pc, review, slots, claimed>>

-----------------------------------------------------------------------------
Review(g) ==
    \/ \E j \in Jobs, answered \in BOOLEAN :
          ReviewEnded(g, j, answered) \/ ReviewRenew(g, j, answered)
    \/ \E j \in Jobs : ReviewNotDue(g, j)
    \/ ReviewDone(g)

Admit(g) ==
    \/ \E j \in Jobs : Claim(g, j)
    \/ ClaimNone(g)
    \/ EnqueueTask(g)
    \/ EnqueueRefused(g)

Next ==
    \/ \E g \in Gateways : PollStart(g) \/ Review(g) \/ Admit(g)
    \/ \E g \in Gateways, j \in Jobs : Submit(g, j)
    \/ \E g \in Gateways, j \in Jobs, a \in Attempts : TaskEnds(g, j, a)
    \/ \E g \in Gateways : SqlFails(g) \/ Crash(g)
    \/ Tick

Spec == Init /\ [][Next]_vars

\* Time passes, and the polling thread of some gateway keeps getting through
\* its first statement: SQL outages and crashes end.
Fairness ==
    /\ WF_vars(Tick)
    /\ \E g \in Gateways : SF_vars(PollStart(g)) /\ WF_vars(Review(g) \/ Admit(g))

FairSpec == Spec /\ Fairness

-----------------------------------------------------------------------------
(* Safety                                                                  *)

\* Completion fencing: a succeeded row holds the result of its latest
\* attempt; an attempt that lost its lease never publishes over its successor.
\* It was written before the job's deadline.
SuccessFenced ==
    \A j \in Jobs : row[j].status = "succeeded" =>
        /\ row[j].result = row[j].attempts
        /\ row[j].updated < Deadline[j]

\* The row is the authority: the outcome of a finished job never changes,
\* whatever late attempts, recovered gateways or expiry statements do.
OutcomeFinal == [][\A j \in Jobs : RowTerminal(row[j]) => row'[j] = row[j]]_vars

\* Gateway g itself executes a statement on the row of job j, for the attempt a
\* that it tracks or has just claimed.
WritesFor(g, j, a) ==
    \/ /\ active[g][j] = a
       /\ \E answered \in BOOLEAN : ReviewEnded(g, j, answered) \/ ReviewRenew(g, j, answered)
    \/ /\ claimed[g] = [job |-> j, attempt |-> a]
       /\ EnqueueRefused(g)

\* "A live lease is never eligible": before the lease or the deadline runs out,
\* no other attempt takes the job over, and whatever changes the row is a
\* statement of the gateway that holds the attempt, for that attempt.  A gateway
\* that lost the lease changes nothing, though the holder is alive and tracks the
\* job at that moment.
LiveLeaseKept ==
    [][\A j \in Jobs :
         Holds(row[j], row[j].attempts, now, Deadline[j]) /\ row'[j] # row[j] =>
            /\ row'[j].attempts = row[j].attempts
            /\ \E g \in Gateways : WritesFor(g, j, row[j].attempts)]_vars

\* "No task/result is discarded if SQL is temporarily unavailable": while its
\* lease is live, a result computed for the current attempt stays tracked by
\* its gateway until the row holds it.
ResultNotDiscarded ==
    \A g \in Gateways, j \in Jobs, a \in Attempts :
        tasks[g][j][a] = "done" /\ Holds(row[j], a, now, Deadline[j])
            => active[g][j] = a

\* _active never exceeds max_inflight, though poll counts its free slots only
\* once and submit claims in between polls.
InflightBound == \A g \in Gateways : Cardinality(Tracked(g)) <= MaxInflight

\* "Prevent a task waiting in the queue from executing a lost lease": a live
\* task is always tracked, so that the poll which finds its lease lost can
\* fail it.
LiveTaskTracked ==
    \A g \in Gateways, j \in Jobs, a \in Attempts :
        tasks[g][j][a] = "live" => active[g][j] = a

-----------------------------------------------------------------------------
(* Liveness, under FairSpec                                                *)

\* Every job ends: at the latest an expiry statement fails it.
EveryJobEnds == \A j \in Jobs : <>RowTerminal(row[j])
=============================================================================
