-------------------------- MODULE JobGatewayProofs --------------------------
(***************************************************************************)
(* Proofs about JobGateway, for any jobs, gateways, leases and intervals.  *)
(***************************************************************************)
EXTENDS JobGateway, FiniteSetTheorems, TLAPS

\* The thread inside a gateway has what its next statement needs.
ThreadOK ==
    \A g \in Gateways :
        /\ review[g] \subseteq Tracked(g)
        /\ pc[g] = "claim" => slots[g] > 0
        /\ pc[g] = "enqueue" => /\ claimed[g].job \in Jobs
                                /\ claimed[g].attempt \in Attempts

TypeInv == TypeOK /\ ThreadOK

\* The number of free slots is a natural number, because Jobs is finite.
LEMMA FreeType == ASSUME TypeOK, NEW g \in Gateways PROVE Free(g) \in Nat
<1>1. IsFiniteSet(Tracked(g))
  BY FS_Subset, GatewayAssumption DEF Tracked
<1>2. Cardinality(Tracked(g)) \in Nat
  BY <1>1, FS_CardinalityType
<1>. QED
  BY <1>2, GatewayAssumption DEF Free

\* Every statement of JobStore maps a row to a row.
LEMMA RowTypes ==
    ASSUME NEW r \in Rows, NEW t \in Nat, NEW d \in Nat, NEW a \in Nat,
           NEW l \in Nat
    PROVE  /\ ClaimRow(r, t, l, d) \in Rows
           /\ RenewRow(r, t, l, d) \in Rows
           /\ SucceedRow(r, a, t) \in Rows
           /\ FailRow(r, t) \in Rows
           /\ DeferRow(r, t, l) \in Rows
<1>0. LeaseUntil(t, l, d) \in Nat
  BY DEF LeaseUntil
<1>1. ClaimRow(r, t, l, d) \in Rows
  <2>1. r.attempts + 1 \in Nat
    BY DEF Rows
  <2>. DEFINE n == r.attempts + 1
              u == LeaseUntil(t, l, d)
  <2>2. [r EXCEPT !.status = "running", !.attempts = n, !.lease = u, !.updated = t] \in Rows
    <3>. HIDE DEF n, u
    <3>1. n \in Nat /\ u \in Nat
      BY <1>0, <2>1 DEF n, u
    <3>. QED
      BY <3>1 DEF Rows, RowStatus
  <2>. QED
    BY <2>2 DEF ClaimRow
<1>2. RenewRow(r, t, l, d) \in Rows
  BY <1>0 DEF Rows, RowStatus, RenewRow
<1>3. SucceedRow(r, a, t) \in Rows
  BY DEF Rows, RowStatus, SucceedRow
<1>4. FailRow(r, t) \in Rows
  BY DEF Rows, RowStatus, FailRow
<1>5. DeferRow(r, t, l) \in Rows
  <2>. DEFINE n == t + l
  <2>1. n \in Nat
    OBVIOUS
  <2>2. [r EXCEPT !.status = "queued", !.lease = 0, !.next = n, !.updated = t] \in Rows
    <3>. HIDE DEF n
    <3>. QED
      BY <2>1 DEF Rows, RowStatus
  <2>. QED
    BY <2>2 DEF DeferRow
<1>. QED
  BY <1>1, <1>2, <1>3, <1>4, <1>5

\* Writing an ended attempt back gives a row.
LEMMA WriteBackType ==
    ASSUME TypeOK, NEW r \in Rows, NEW a \in Nat, NEW st
    PROVE  WriteBack(r, a, st) \in Rows
  BY RowTypes, GatewayAssumption DEF WriteBack, TypeOK

\* Initially, values have their types.
LEMMA TypeInit == Init => TypeInv
  BY GatewayAssumption
     DEF Init, TypeInv, TypeOK, ThreadOK, NewRow, Rows, RowStatus, NoTasks,
         NoneTracked, NoClaim, TaskStates, Tracked

\* Every action keeps the types.
LEMMA TypeNext == TypeInv /\ [Next]_vars => TypeInv'
<1>. SUFFICES ASSUME TypeInv, [Next]_vars PROVE TypeInv'
  OBVIOUS
<1>. USE GatewayAssumption DEF TypeInv
<1>1. ASSUME NEW g \in Gateways, PollStart(g) PROVE TypeInv'
  <2>1. row' \in [Jobs -> Rows]
    BY <1>1, RowTypes DEF PollStart, ExpireDeadlines, TypeOK
  <2>. QED
    BY <1>1, <2>1 DEF PollStart, TypeOK, ThreadOK, Tracked
<1>2. ASSUME NEW g \in Gateways, NEW j \in Jobs, NEW b \in BOOLEAN,
             ReviewEnded(g, j, b)
      PROVE  TypeInv'
  <2>1. active[g][j] \in Attempts
    BY <1>2 DEF ReviewEnded, TypeOK, ThreadOK, Tracked, Attempts
  <2>2. Seen(g, j) \in TaskStates
    BY <2>1 DEF Seen, TaskOf, TypeOK, TaskStates
  <2>3. row' \in [Jobs -> Rows]
    BY <1>2, <2>1, WriteBackType DEF ReviewEnded, TypeOK, Attempts
  <2>4. tasks' \in [Gateways -> [Jobs -> [Attempts -> TaskStates]]]
    BY <1>2, <2>1, <2>2 DEF ReviewEnded, TypeOK
  <2>5. CASE Untrack(g, j) /\ Reviewed(g, j)
    BY <1>2, <2>3, <2>4, <2>5
       DEF ReviewEnded, TypeOK, ThreadOK, Untrack, Reviewed, Tracked
  <2>6. CASE GiveUp(g) /\ UNCHANGED active
    BY <1>2, <2>3, <2>4, <2>6
       DEF ReviewEnded, TypeOK, ThreadOK, GiveUp, NoClaim, Tracked
  <2>. QED
    BY <1>2, <2>5, <2>6 DEF ReviewEnded
<1>3. ASSUME NEW g \in Gateways, NEW j \in Jobs, NEW b \in BOOLEAN,
             ReviewRenew(g, j, b)
      PROVE  TypeInv'
  <2>1. active[g][j] \in Attempts
    BY <1>3 DEF ReviewRenew, TypeOK, ThreadOK, Tracked, Attempts
  <2>2. row' \in [Jobs -> Rows]
    BY <1>3, RowTypes DEF ReviewRenew, TypeOK
  <2>3. CASE UNCHANGED <<tasks, active>> /\ Reviewed(g, j) /\ renewed' = [renewed EXCEPT ![g][j] = now]
    BY <1>3, <2>2, <2>3 DEF ReviewRenew, TypeOK, ThreadOK, Reviewed, Tracked
  <2>4. CASE LoseLease(g, j) /\ Reviewed(g, j) /\ UNCHANGED renewed
    <3>1. tasks' \in [Gateways -> [Jobs -> [Attempts -> TaskStates]]]
      BY <2>1, <2>4 DEF LoseLease, TypeOK, TaskStates
    <3>. QED
      BY <1>3, <2>2, <2>4, <3>1
         DEF ReviewRenew, LoseLease, TypeOK, ThreadOK, Untrack, Reviewed, Tracked
  <2>5. CASE GiveUp(g) /\ UNCHANGED <<tasks, active, renewed>>
    BY <1>3, <2>2, <2>5 DEF ReviewRenew, TypeOK, ThreadOK, GiveUp, NoClaim, Tracked
  <2>. QED
    BY <1>3, <2>3, <2>4, <2>5 DEF ReviewRenew
<1>4. ASSUME NEW g \in Gateways, NEW j \in Jobs, ReviewNotDue(g, j) PROVE TypeInv'
  BY <1>4 DEF ReviewNotDue, Reviewed, TypeOK, ThreadOK, Tracked
<1>5. ASSUME NEW g \in Gateways, ReviewDone(g) PROVE TypeInv'
  BY <1>5, FreeType DEF ReviewDone, TypeOK, ThreadOK, Tracked
<1>6. ASSUME NEW g \in Gateways, NEW j \in Jobs, Claim(g, j) PROVE TypeInv'
  <2>1. row' \in [Jobs -> Rows]
    BY <1>6, RowTypes DEF Claim, TypeOK
  <2>2. row[j].attempts + 1 \in Attempts
    BY <1>6 DEF Claim, TypeOK, Rows, Attempts
  <2>. QED
    BY <1>6, <2>1, <2>2 DEF Claim, TypeOK, ThreadOK, Tracked, Attempts
<1>7. ASSUME NEW g \in Gateways, ClaimNone(g) PROVE TypeInv'
  BY <1>7 DEF ClaimNone, GiveUp, NoClaim, TypeOK, ThreadOK, Tracked
<1>8. ASSUME NEW g \in Gateways, EnqueueTask(g) PROVE TypeInv'
  <2>1. tasks' \in [Gateways -> [Jobs -> [Attempts -> TaskStates]]]
    BY <1>8 DEF EnqueueTask, TypeOK, ThreadOK, TaskStates
  <2>2. /\ active' \in [Gateways -> [Jobs -> Nat]]
        /\ \A h \in Gateways : Tracked(h) \subseteq Tracked(h)'
    BY <1>8 DEF EnqueueTask, TypeOK, ThreadOK, Attempts, Tracked
  <2>. QED
    BY <1>8, <2>1, <2>2, SMTT(30)
       DEF EnqueueTask, Enqueued, NoClaim, TypeOK, ThreadOK, Attempts
<1>9. ASSUME NEW g \in Gateways, EnqueueRefused(g) PROVE TypeInv'
  <2>1. row' \in [Jobs -> Rows]
    BY <1>9, WriteBackType DEF EnqueueRefused, TypeOK, ThreadOK, Attempts
  <2>. QED
    BY <1>9, <2>1 DEF EnqueueRefused, Enqueued, NoClaim, TypeOK, ThreadOK, Tracked
<1>10. ASSUME NEW g \in Gateways, NEW j \in Jobs, Submit(g, j) PROVE TypeInv'
  <2>1. row' \in [Jobs -> Rows]
    BY <1>10, RowTypes DEF Submit, TypeOK
  <2>2. row[j].attempts + 1 \in Attempts
    BY <1>10 DEF Submit, TypeOK, Rows, Attempts
  <2>. QED
    BY <1>10, <2>1, <2>2 DEF Submit, TypeOK, ThreadOK, Tracked, Attempts
<1>11. ASSUME NEW g \in Gateways, NEW j \in Jobs, NEW a \in Attempts,
              TaskEnds(g, j, a)
       PROVE  TypeInv'
  BY <1>11 DEF TaskEnds, TypeOK, ThreadOK, Tracked, TaskStates
<1>12. ASSUME NEW g \in Gateways, SqlFails(g) PROVE TypeInv'
  BY <1>12 DEF SqlFails, GiveUp, NoClaim, TypeOK, ThreadOK, Tracked
<1>13. ASSUME NEW g \in Gateways, Crash(g) PROVE TypeInv'
  BY <1>13 DEF Crash, GiveUp, NoClaim, NoTasks, NoneTracked, TypeOK, ThreadOK,
               Tracked, TaskStates
<1>14. CASE Tick
  BY <1>14 DEF Tick, TypeOK, ThreadOK, Tracked
<1>15. CASE UNCHANGED vars
  BY <1>15 DEF vars, TypeOK, ThreadOK, Tracked
<1>. QED
  BY <1>1, <1>2, <1>3, <1>4, <1>5, <1>6, <1>7, <1>8, <1>9, <1>10, <1>11, <1>12,
     <1>13, <1>14, <1>15
     DEF Next, Review, Admit

\* Type correctness, together with what the gateway's thread needs: there is a
\* free slot for every claim of poll, and a task for every entry it reviews.
THEOREM TypeCorrect == Spec => []TypeOK
<1>1. Spec => []TypeInv
  BY TypeInit, TypeNext, PTL DEF Spec
<1>2. TypeInv => TypeOK
  BY DEF TypeInv
<1>. QED
  BY <1>1, <1>2, PTL

-----------------------------------------------------------------------------
(* What a step may do to a row                                             *)

\* An expiry, a claim, or a statement of the gateway that holds the attempt.
RowStep(j) ==
    \/ row'[j] = row[j]
    \/ /\ Overdue(row[j], now, Deadline[j])
       /\ row'[j] = FailRow(row[j], now)
    \/ /\ Claimable(row[j], now, Deadline[j])
       /\ row'[j] = ClaimRow(row[j], now, LeaseSeconds, Deadline[j])
    \/ \E g \in Gateways, a \in Attempts :
          /\ Holds(row[j], a, now, Deadline[j])
          /\ WritesFor(g, j, a)
          /\ row'[j] \in {RenewRow(row[j], now, LeaseSeconds, Deadline[j]),
                          SucceedRow(row[j], a, now),
                          DeferRow(row[j], now, RetrySeconds),
                          FailRow(row[j], now)}

\* WriteBack is one of the three statements that end an attempt.
LEMMA WriteBackCases ==
    ASSUME NEW r, NEW a, NEW st
    PROVE  WriteBack(r, a, st) \in {SucceedRow(r, a, now),
                                    DeferRow(r, now, RetrySeconds), FailRow(r, now)}
  BY DEF WriteBack

\* Every step changes every row in one of the ways of RowStep.
LEMMA RowSteps ==
    ASSUME TypeInv, [Next]_vars, NEW j \in Jobs
    PROVE  RowStep(j)
<1>. USE DEF TypeInv
<1>1. ASSUME NEW g \in Gateways, PollStart(g) PROVE RowStep(j)
  BY <1>1 DEF PollStart, ExpireDeadlines, RowStep
<1>2. ASSUME NEW g \in Gateways, NEW k \in Jobs, NEW b \in BOOLEAN,
             ReviewEnded(g, k, b)
      PROVE  RowStep(j)
  <2>1. active[g][k] \in Attempts
    BY <1>2 DEF ReviewEnded, TypeOK, ThreadOK, Tracked, Attempts
  <2>2. row'[j] = IF j = k /\ Holds(row[k], active[g][k], now, Deadline[k])
                  THEN WriteBack(row[k], active[g][k], Seen(g, k)) ELSE row[j]
    BY <1>2 DEF ReviewEnded, TypeOK
  <2>3. WritesFor(g, k, active[g][k])
    BY <1>2 DEF WritesFor
  <2>. QED
    BY <2>1, <2>2, <2>3, WriteBackCases DEF RowStep
<1>3. ASSUME NEW g \in Gateways, NEW k \in Jobs, NEW b \in BOOLEAN,
             ReviewRenew(g, k, b)
      PROVE  RowStep(j)
  <2>1. active[g][k] \in Attempts
    BY <1>3 DEF ReviewRenew, TypeOK, ThreadOK, Tracked, Attempts
  <2>2. row'[j] = IF j = k /\ Holds(row[k], active[g][k], now, Deadline[k])
                  THEN RenewRow(row[k], now, LeaseSeconds, Deadline[k]) ELSE row[j]
    BY <1>3 DEF ReviewRenew, TypeOK
  <2>3. WritesFor(g, k, active[g][k])
    BY <1>3 DEF WritesFor
  <2>. QED
    BY <2>1, <2>2, <2>3 DEF RowStep
<1>4. ASSUME NEW g \in Gateways, NEW k \in Jobs, Claim(g, k) \/ Submit(g, k)
      PROVE  RowStep(j)
  BY <1>4 DEF Claim, Submit, RowStep, TypeOK
<1>5. ASSUME NEW g \in Gateways, EnqueueRefused(g) PROVE RowStep(j)
  <2>. DEFINE k == claimed[g].job
              a == claimed[g].attempt
              st == IF k \in BadSpec THEN "final" ELSE "retryable"
  <2>1. k \in Jobs /\ a \in Attempts
    BY <1>5 DEF EnqueueRefused, ThreadOK
  <2>2. row'[j] = IF j = k /\ Holds(row[k], a, now, Deadline[k])
                  THEN WriteBack(row[k], a, st) ELSE row[j]
    BY <1>5, <2>1 DEF EnqueueRefused, TypeOK
  <2>3. WritesFor(g, k, a)
    <3>1. claimed[g] = [job |-> k, attempt |-> a]
      BY DEF TypeOK
    <3>. QED
      BY <1>5, <3>1 DEF WritesFor
  <2>. QED
    BY <2>1, <2>2, <2>3, WriteBackCases DEF RowStep
<1>6. ASSUME row' = row PROVE RowStep(j)
  BY <1>6 DEF RowStep
<1>. QED
  BY <1>1, <1>2, <1>3, <1>4, <1>5, <1>6
     DEF Next, Review, Admit, ReviewNotDue, ReviewDone, ClaimNone, EnqueueTask,
         TaskEnds, SqlFails, Crash, Tick, vars

\* Completion fencing: only the latest attempt's result is ever published, and
\* only before the deadline.  SuccessFenced is inductive by itself once rows
\* change only as RowStep says.
THEOREM Fencing == Spec => []SuccessFenced
<1>1. Init => SuccessFenced
  BY DEF Init, SuccessFenced, NewRow
<1>2. TypeInv /\ SuccessFenced /\ [Next]_vars => SuccessFenced'
  <2>. SUFFICES ASSUME TypeInv, SuccessFenced, [Next]_vars, NEW j \in Jobs,
                       row'[j].status = "succeeded"
                PROVE  /\ row'[j].result = row'[j].attempts
                       /\ row'[j].updated < Deadline[j]
    BY DEF SuccessFenced
  <2>1. RowStep(j)
    BY RowSteps
  <2>2. row[j] \in Rows
    BY DEF TypeInv, TypeOK
  <2>3. CASE row'[j] = row[j]
    BY <2>3 DEF SuccessFenced
  <2>4. CASE row'[j] # row[j]
    <3>1. PICK a \in Attempts : /\ Holds(row[j], a, now, Deadline[j])
                                /\ row'[j] = SucceedRow(row[j], a, now)
      <4>1. /\ row'[j] # FailRow(row[j], now)
            /\ row'[j] # DeferRow(row[j], now, RetrySeconds)
            /\ row'[j] # ClaimRow(row[j], now, LeaseSeconds, Deadline[j])
        BY <2>2 DEF FailRow, ClaimRow, DeferRow, Rows
      <4>2. ASSUME Holds(row[j], row[j].attempts, now, Deadline[j])
            PROVE  row'[j] # RenewRow(row[j], now, LeaseSeconds, Deadline[j])
        BY <2>2, <4>2 DEF RenewRow, Holds, Rows
      <4>. QED
        BY <2>1, <2>4, <4>1, <4>2 DEF RowStep, Holds
    <3>. QED
      BY <2>2, <3>1 DEF Holds, SucceedRow, Rows
  <2>. QED
    BY <2>3, <2>4
<1>. QED
  BY <1>1, <1>2, TypeInit, TypeNext, PTL DEF Spec

\* A finished row is never written again.
THEOREM Final == Spec => OutcomeFinal
<1>1. TypeInv /\ [Next]_vars =>
          [\A j \in Jobs : RowTerminal(row[j]) => row'[j] = row[j]]_vars
  <2>. SUFFICES ASSUME TypeInv, [Next]_vars, NEW j \in Jobs, RowTerminal(row[j])
                PROVE  row'[j] = row[j]
    OBVIOUS
  <2>1. RowStep(j)
    BY RowSteps
  <2>. QED
    BY <2>1 DEF RowStep, RowTerminal, Overdue, Claimable, Holds
<1>. QED
  BY <1>1, TypeInit, TypeNext, PTL DEF Spec, OutcomeFinal

\* While a lease is live, no other attempt takes the job over, and every step that
\* changes the row is a statement that the gateway holding the attempt executes
\* for it.
THEOREM LeaseRespected == Spec => LiveLeaseKept
<1>1. TypeInv /\ [Next]_vars =>
         [\A j \in Jobs :
            Holds(row[j], row[j].attempts, now, Deadline[j]) /\ row'[j] # row[j] =>
              /\ row'[j].attempts = row[j].attempts
              /\ \E g \in Gateways : WritesFor(g, j, row[j].attempts)]_vars
  <2>. SUFFICES ASSUME TypeInv, [Next]_vars, NEW j \in Jobs,
                       Holds(row[j], row[j].attempts, now, Deadline[j]),
                       row'[j] # row[j]
                PROVE  /\ row'[j].attempts = row[j].attempts
                       /\ \E g \in Gateways : WritesFor(g, j, row[j].attempts)
    OBVIOUS
  <2>0. /\ row[j] \in Rows
        /\ now \in Nat
        /\ Deadline[j] \in Nat
    BY GatewayAssumption DEF TypeInv, TypeOK
  <2>1. RowStep(j)
    BY RowSteps
  <2>2. ~Overdue(row[j], now, Deadline[j]) /\ ~Claimable(row[j], now, Deadline[j])
    BY <2>0 DEF Overdue, Claimable, Holds, Rows
  <2>3. PICK g \in Gateways, a \in Attempts :
          /\ Holds(row[j], a, now, Deadline[j])
          /\ WritesFor(g, j, a)
          /\ row'[j] \in {RenewRow(row[j], now, LeaseSeconds, Deadline[j]),
                          SucceedRow(row[j], a, now),
                          DeferRow(row[j], now, RetrySeconds),
                          FailRow(row[j], now)}
    BY <2>1, <2>2 DEF RowStep
  <2>4. row'[j].attempts = row[j].attempts
    BY <2>0, <2>3 DEF RenewRow, SucceedRow, DeferRow, FailRow, Rows
  <2>5. WritesFor(g, j, row[j].attempts)
    BY <2>3 DEF Holds
  <2>. QED
    BY <2>4, <2>5
<1>. QED
  BY <1>1, TypeInit, TypeNext, PTL DEF Spec, LiveLeaseKept

-----------------------------------------------------------------------------
(* Results are not discarded                                               *)

\* A gateway's tasks belong to attempts already claimed, and while it is about
\* to enqueue an attempt, all its other tasks of that job are older.
AttemptsOrdered ==
    \A g \in Gateways, j \in Jobs, a \in Attempts :
        /\ tasks[g][j][a] # "none" => a <= row[j].attempts
        /\ pc[g] = "enqueue" /\ claimed[g].job = j =>
              /\ claimed[g].attempt <= row[j].attempts
              /\ tasks[g][j][a] # "none" => a < claimed[g].attempt

\* ResultNotDiscarded, for tasks that are still running as well.
HolderTracks ==
    \A g \in Gateways, j \in Jobs, a \in Attempts :
        tasks[g][j][a] \in {"live", "done"} /\ Holds(row[j], a, now, Deadline[j])
            => active[g][j] = a

OwnInv == TypeInv /\ AttemptsOrdered /\ HolderTracks

\* A claim adds one to the attempt counter of a row.
LEMMA ClaimAttempts ==
    ASSUME NEW r \in Rows, NEW t \in Nat, NEW l \in Nat, NEW d \in Nat
    PROVE  ClaimRow(r, t, l, d).attempts = r.attempts + 1
<1>. DEFINE n == r.attempts + 1
            u == LeaseUntil(t, l, d)
<1>1. ClaimRow(r, t, l, d) =
          [r EXCEPT !.status = "running", !.attempts = n, !.lease = u, !.updated = t]
  BY DEF ClaimRow
<1>. HIDE DEF n, u
<1>2. ClaimRow(r, t, l, d).attempts = n
  BY <1>1 DEF Rows
<1>. QED
  BY <1>2 DEF n

\* The clock moves only at a Tick.
LEMMA ClockSteps ==
    ASSUME TypeInv, [Next]_vars
    PROVE  now' = now \/ now' = now + 1
<1>1. ASSUME NEW g \in Gateways, Review(g) PROVE now' = now
  BY <1>1 DEF Review, ReviewEnded, ReviewRenew, ReviewNotDue, ReviewDone
<1>2. ASSUME NEW g \in Gateways, Admit(g) PROVE now' = now
  BY <1>2 DEF Admit, Claim, ClaimNone, EnqueueTask, EnqueueRefused, Enqueued
<1>3. ASSUME NEW g \in Gateways, NEW j \in Jobs, Submit(g, j) PROVE now' = now
  BY <1>3 DEF Submit
<1>4. ASSUME NEW g \in Gateways, NEW j \in Jobs, NEW a \in Attempts, TaskEnds(g, j, a)
      PROVE  now' = now
  BY <1>4 DEF TaskEnds
<1>5. ASSUME NEW g \in Gateways, PollStart(g) \/ SqlFails(g) \/ Crash(g)
      PROVE  now' = now
  BY <1>5 DEF PollStart, SqlFails, Crash
<1>6. CASE Tick
  BY <1>6 DEF Tick
<1>7. CASE UNCHANGED vars
  BY <1>7 DEF vars
<1>. QED
  BY <1>1, <1>2, <1>3, <1>4, <1>5, <1>6, <1>7 DEF Next

\* The attempt counter of a row never decreases, and time never goes back.
LEMMA Monotone ==
    ASSUME TypeInv, [Next]_vars, NEW j \in Jobs
    PROVE  row[j].attempts <= row'[j].attempts /\ now <= now'
<1>1. /\ row[j] \in Rows /\ row[j].attempts \in Nat /\ now \in Nat
      /\ Deadline[j] \in Nat /\ LeaseSeconds \in Nat /\ RetrySeconds \in Nat
  BY GatewayAssumption DEF TypeInv, TypeOK, Rows
<1>2. RowStep(j)
  BY RowSteps
<1>3. row'[j].attempts \in {row[j].attempts, row[j].attempts + 1}
  <2>1. /\ FailRow(row[j], now).attempts = row[j].attempts
        /\ RenewRow(row[j], now, LeaseSeconds, Deadline[j]).attempts = row[j].attempts
        /\ DeferRow(row[j], now, RetrySeconds).attempts = row[j].attempts
        /\ \A a \in Attempts : SucceedRow(row[j], a, now).attempts = row[j].attempts
    BY <1>1 DEF FailRow, RenewRow, DeferRow, SucceedRow, Rows
  <2>2. ClaimRow(row[j], now, LeaseSeconds, Deadline[j]).attempts = row[j].attempts + 1
    BY <1>1, ClaimAttempts
  <2>. QED
    <3>1. CASE row'[j] = row[j]  BY <3>1
    <3>2. CASE row'[j] = FailRow(row[j], now)  BY <2>1, <3>2
    <3>3. CASE row'[j] = ClaimRow(row[j], now, LeaseSeconds, Deadline[j])  BY <2>2, <3>3
    <3>4. CASE row'[j] = RenewRow(row[j], now, LeaseSeconds, Deadline[j])  BY <2>1, <3>4
    <3>5. CASE row'[j] = DeferRow(row[j], now, RetrySeconds)  BY <2>1, <3>5
    <3>6. CASE \E a \in Attempts : row'[j] = SucceedRow(row[j], a, now)  BY <2>1, <3>6
    <3>. QED
      BY <1>2, <3>1, <3>2, <3>3, <3>4, <3>5, <3>6 DEF RowStep
<1>4. now' = now \/ now' = now + 1
  BY ClockSteps
<1>. QED
  BY <1>1, <1>3, <1>4

\* An attempt claimed before the step that holds its lease after it held it
\* before: a lease once lost is never regained.
LEMMA HeldBefore ==
    ASSUME TypeInv, TypeInv', [Next]_vars, NEW j \in Jobs, NEW a \in Attempts,
           a <= row[j].attempts, Holds(row'[j], a, now', Deadline[j])
    PROVE  Holds(row[j], a, now, Deadline[j])
<1>1. /\ row[j] \in Rows /\ row'[j] \in Rows
      /\ now \in Nat /\ now' \in Nat /\ Deadline[j] \in Nat /\ a \in Nat
  BY GatewayAssumption DEF TypeInv, TypeOK, Attempts
<1>2. RowStep(j) /\ now <= now'
  BY RowSteps, Monotone
<1>3. CASE row'[j] = row[j]
  BY <1>1, <1>2, <1>3 DEF Holds, Rows
<1>4. CASE row'[j] = ClaimRow(row[j], now, LeaseSeconds, Deadline[j])
  BY <1>1, <1>4 DEF ClaimRow, Holds, Rows
<1>5. CASE \E b \in Attempts :
             /\ Holds(row[j], b, now, Deadline[j])
             /\ row'[j] = RenewRow(row[j], now, LeaseSeconds, Deadline[j])
  BY <1>1, <1>5 DEF RenewRow, Holds, Rows
<1>6. row'[j].status = "running"
  BY DEF Holds
<1>7. /\ row'[j] # FailRow(row[j], now)
      /\ row'[j] # DeferRow(row[j], now, RetrySeconds)
      /\ \A b : row'[j] # SucceedRow(row[j], b, now)
  BY <1>1, <1>6 DEF FailRow, DeferRow, SucceedRow, Rows
<1>. QED
  BY <1>2, <1>3, <1>4, <1>5, <1>7 DEF RowStep

\* Nothing is claimed and no task exists when the gateways start.
LEMMA OwnInit == Init => OwnInv
  BY TypeInit DEF Init, OwnInv, AttemptsOrdered, HolderTracks, NoTasks, NewRow

\* Claims stay ordered: a claim takes the next attempt number.
LEMMA OrderedNext == OwnInv /\ [Next]_vars => AttemptsOrdered'
<1>. SUFFICES ASSUME OwnInv, [Next]_vars PROVE AttemptsOrdered'
  OBVIOUS
<1>0. TypeInv /\ TypeInv' /\ AttemptsOrdered
  BY TypeNext DEF OwnInv
<1>1. \A j \in Jobs : /\ row[j].attempts \in Nat
                      /\ row'[j].attempts \in Nat
                      /\ row[j].attempts <= row'[j].attempts
  BY <1>0, Monotone DEF TypeInv, TypeOK, Rows
<1>2. \A g \in Gateways : claimed[g].attempt \in Nat
  BY <1>0 DEF TypeInv, TypeOK
<1>3. ASSUME NEW g \in Gateways, NEW j \in Jobs, NEW a \in Attempts,
             tasks[g][j][a] # "none"
      PROVE  a <= row'[j].attempts
  <2>1. a <= row[j].attempts
    BY <1>0, <1>3 DEF AttemptsOrdered
  <2>. QED
    BY <1>1, <2>1 DEF Attempts
<1>4. ASSUME NEW g \in Gateways, NEW j \in Jobs, NEW a \in Attempts,
             pc[g] = "enqueue", claimed[g].job = j
      PROVE  /\ claimed[g].attempt <= row'[j].attempts
             /\ tasks[g][j][a] # "none" => a < claimed[g].attempt
  <2>1. /\ claimed[g].attempt <= row[j].attempts
        /\ tasks[g][j][a] # "none" => a < claimed[g].attempt
    BY <1>0, <1>4 DEF AttemptsOrdered
  <2>. QED
    BY <1>1, <1>2, <2>1
\* No task appears and no job is claimed.
<1>5. ASSUME \A g \in Gateways, j \in Jobs, a \in Attempts :
                 tasks'[g][j][a] # "none" => tasks[g][j][a] # "none",
             \A g \in Gateways : pc'[g] = "enqueue" =>
                 pc[g] = "enqueue" /\ claimed'[g] = claimed[g]
      PROVE  AttemptsOrdered'
  BY <1>3, <1>4, <1>5 DEF AttemptsOrdered
<1>6. ASSUME NEW h \in Gateways, NEW k \in Jobs, NEW b \in BOOLEAN,
             ReviewEnded(h, k, b)
      PROVE  AttemptsOrdered'
  <2>1. \A g \in Gateways, j \in Jobs, a \in Attempts :
            tasks'[g][j][a] # "none" => tasks[g][j][a] # "none"
    BY <1>0, <1>6 DEF ReviewEnded, Seen, TaskOf, TypeInv, TypeOK
  <2>2. \A g \in Gateways : pc'[g] = "enqueue" =>
            pc[g] = "enqueue" /\ claimed'[g] = claimed[g]
    BY <1>0, <1>6 DEF ReviewEnded, Reviewed, GiveUp, TypeInv, TypeOK
  <2>. QED
    BY <1>5, <2>1, <2>2
<1>7. ASSUME NEW h \in Gateways, NEW k \in Jobs, NEW b \in BOOLEAN,
             ReviewRenew(h, k, b)
      PROVE  AttemptsOrdered'
  <2>1. tasks[h][k][active[h][k]] = "live"
    BY <1>7 DEF ReviewRenew, Seen, TaskOf
  <2>2. tasks' = tasks \/ tasks' = [tasks EXCEPT ![h][k][active[h][k]] = "final"]
    BY <1>7 DEF ReviewRenew, LoseLease
  <2>3. \A g \in Gateways, j \in Jobs, a \in Attempts :
            tasks'[g][j][a] # "none" => tasks[g][j][a] # "none"
    <3>. SUFFICES ASSUME NEW g \in Gateways, NEW j \in Jobs, NEW a \in Attempts,
                         tasks[g][j][a] = "none"
                  PROVE  tasks'[g][j][a] = "none"
      OBVIOUS
    <3>1. CASE tasks' = tasks
      BY <3>1
    <3>2. CASE tasks' = [tasks EXCEPT ![h][k][active[h][k]] = "final"]
      <4>1. ~(g = h /\ j = k /\ a = active[h][k])
        BY <2>1
      <4>. QED
        BY <1>0, <3>2, <4>1 DEF TypeInv, TypeOK
    <3>. QED
      BY <2>2, <3>1, <3>2
  <2>4. \A g \in Gateways : pc'[g] = "enqueue" =>
            pc[g] = "enqueue" /\ claimed'[g] = claimed[g]
    BY <1>0, <1>7 DEF ReviewRenew, Reviewed, GiveUp, TypeInv, TypeOK
  <2>. QED
    BY <1>5, <2>3, <2>4
<1>8. ASSUME NEW h \in Gateways, NEW k \in Jobs, Claim(h, k) \/ Submit(h, k)
      PROVE  AttemptsOrdered'
  <2>1. row'[k] = ClaimRow(row[k], now, LeaseSeconds, Deadline[k])
    BY <1>0, <1>8 DEF Claim, Submit, TypeInv, TypeOK
  <2>2. row'[k].attempts = row[k].attempts + 1
    <3>1. /\ row[k] \in Rows /\ now \in Nat
          /\ LeaseSeconds \in Nat /\ Deadline[k] \in Nat
      BY <1>0, GatewayAssumption DEF TypeInv, TypeOK
    <3>. QED
      BY <2>1, <3>1, ClaimAttempts
  <2>3. /\ tasks' = tasks
        /\ \A g \in Gateways : g # h =>
              pc'[g] = pc[g] /\ claimed'[g] = claimed[g]
        /\ claimed'[h] = [job |-> k, attempt |-> row[k].attempts + 1]
    BY <1>0, <1>8 DEF Claim, Submit, TypeInv, TypeOK
  <2>4. ASSUME NEW g \in Gateways, NEW j \in Jobs, NEW a \in Attempts,
               pc'[g] = "enqueue", claimed'[g].job = j
        PROVE  /\ claimed'[g].attempt <= row'[j].attempts
               /\ tasks'[g][j][a] # "none" => a < claimed'[g].attempt
    <3>1. CASE g = h
      <4>1. j = k /\ claimed'[g].attempt = row[k].attempts + 1
        BY <2>3, <2>4, <3>1
      <4>2. tasks[g][j][a] # "none" => a <= row[k].attempts
        BY <1>0, <4>1 DEF AttemptsOrdered
      <4>. QED
        BY <1>1, <2>2, <2>3, <4>1, <4>2 DEF Attempts
    <3>2. CASE g # h
      BY <1>4, <2>3, <2>4, <3>2
    <3>. QED
      BY <3>1, <3>2
  <2>. QED
    BY <1>3, <2>3, <2>4 DEF AttemptsOrdered
<1>9. ASSUME NEW h \in Gateways, EnqueueTask(h) PROVE AttemptsOrdered'
  BY <1>0, <1>9 DEF EnqueueTask, Enqueued, AttemptsOrdered, TypeInv, TypeOK, ThreadOK
<1>10. ASSUME NEW g \in Gateways, NEW j \in Jobs, NEW a \in Attempts,
              TaskEnds(g, j, a)
       PROVE  AttemptsOrdered'
  BY <1>0, <1>10 DEF TaskEnds, AttemptsOrdered, TypeInv, TypeOK
<1>11. ASSUME NEW g \in Gateways, Crash(g) PROVE AttemptsOrdered'
  BY <1>0, <1>11 DEF Crash, GiveUp, NoTasks, AttemptsOrdered, TypeInv, TypeOK
<1>12. ASSUME NEW h \in Gateways,
              \/ PollStart(h) \/ ReviewDone(h) \/ ClaimNone(h) \/ EnqueueRefused(h)
              \/ SqlFails(h) \/ \E j \in Jobs : ReviewNotDue(h, j)
       PROVE  AttemptsOrdered'
  <2>1. tasks' = tasks
    BY <1>12 DEF PollStart, ReviewDone, ClaimNone, EnqueueRefused, SqlFails, ReviewNotDue
  <2>2. \A g \in Gateways : pc'[g] = "enqueue" =>
            pc[g] = "enqueue" /\ claimed'[g] = claimed[g]
    BY <1>0, <1>12
       DEF PollStart, ReviewDone, ClaimNone, EnqueueRefused, Enqueued, SqlFails,
           ReviewNotDue, Reviewed, GiveUp, TypeInv, TypeOK
  <2>. QED
    BY <1>5, <2>1, <2>2
<1>13. CASE Tick \/ UNCHANGED vars
  BY <1>5, <1>13 DEF Tick, vars
<1>. QED
  BY <1>6, <1>7, <1>8, <1>9, <1>10, <1>11, <1>12, <1>13 DEF Next, Review, Admit

\* A gateway forgets an attempt only when the attempt no longer holds its lease.
LEMMA TracksNext == OwnInv /\ [Next]_vars => HolderTracks'
<1>. DEFINE Kept(st) == st \in {"live", "done"}
            Holding(j, a) == Holds(row[j], a, now, Deadline[j])
            HoldingNext(j, a) == Holds(row'[j], a, now', Deadline[j])
<1>. SUFFICES ASSUME OwnInv, [Next]_vars PROVE HolderTracks'
  OBVIOUS
<1>0. TypeInv /\ TypeInv' /\ AttemptsOrdered /\ HolderTracks
  BY TypeNext DEF OwnInv
\* A task kept from before the step was tracked before it.
<1>1. ASSUME NEW g \in Gateways, NEW j \in Jobs, NEW a \in Attempts,
             Kept(tasks[g][j][a]), HoldingNext(j, a)
      PROVE  Holding(j, a) /\ active[g][j] = a
  <2>1. a <= row[j].attempts
    BY <1>0, <1>1 DEF AttemptsOrdered
  <2>2. Holding(j, a)
    BY <1>0, <1>1, <2>1, HeldBefore
  <2>. QED
    BY <1>0, <1>1, <2>2 DEF HolderTracks
<1>. HIDE DEF Holding, HoldingNext
<1>2. ASSUME \A g \in Gateways, j \in Jobs, a \in Attempts :
                 Kept(tasks'[g][j][a]) =>
                     Kept(tasks[g][j][a]) /\ active'[g][j] = active[g][j]
      PROVE  HolderTracks'
  BY <1>1, <1>2 DEF HolderTracks, HoldingNext
<1>3. ASSUME NEW h \in Gateways, NEW k \in Jobs, NEW b \in BOOLEAN,
             ReviewEnded(h, k, b)
      PROVE  HolderTracks'
  <2>. DEFINE c == active[h][k]
              st == Seen(h, k)
  <2>1. /\ st # "live" /\ (st = "done" => tasks[h][k][c] = "done")
        /\ tasks' = [tasks EXCEPT ![h][k][c] = st]
        /\ row' = [row EXCEPT ![k] = IF Holds(@, c, now, Deadline[k])
                                     THEN WriteBack(@, c, st) ELSE @]
        /\ active' = active \/ active' = [active EXCEPT ![h][k] = 0]
    BY <1>3 DEF ReviewEnded, Untrack, Seen, TaskOf
  <2>. HIDE DEF c, st
  <2>. SUFFICES ASSUME NEW g \in Gateways, NEW j \in Jobs, NEW a \in Attempts,
                       Kept(tasks'[g][j][a]), HoldingNext(j, a)
                PROVE  active'[g][j] = a
    BY DEF HolderTracks, HoldingNext
  <2>2. CASE g = h /\ j = k /\ a = c
    <3>1. tasks'[h][k][c] = st
      BY <1>0, <2>1, <2>2 DEF TypeInv, TypeOK
    <3>2. st = "done" /\ Kept(tasks[h][k][c])
      BY <2>1, <2>2, <3>1
    <3>3. Holding(k, c)
      BY <1>1, <2>2, <3>2
    <3>4. row'[k] = WriteBack(row[k], c, "done")
      BY <1>0, <2>1, <3>2, <3>3 DEF Holding, TypeInv, TypeOK
    <3>5. row'[k].status = "succeeded"
      BY <1>0, <3>4 DEF WriteBack, SucceedRow, TypeInv, TypeOK, Rows
    <3>. QED
      BY <2>2, <3>5 DEF HoldingNext, Holds
  <2>3. CASE ~(g = h /\ j = k /\ a = c)
    <3>1. tasks'[g][j][a] = tasks[g][j][a]
      BY <1>0, <2>1, <2>3 DEF TypeInv, TypeOK
    <3>2. active[g][j] = a
      BY <1>1, <3>1
    <3>3. ~(g = h /\ j = k)
      BY <2>3, <3>2 DEF c
    <3>. QED
      BY <1>0, <2>1, <3>2, <3>3 DEF TypeInv, TypeOK
  <2>. QED
    BY <2>2, <2>3
<1>4. ASSUME NEW h \in Gateways, NEW k \in Jobs, NEW b \in BOOLEAN,
             ReviewRenew(h, k, b)
      PROVE  HolderTracks'
  <2>. DEFINE c == active[h][k]
  <2>1. CASE tasks' = tasks /\ active' = active
    BY <1>2, <2>1
  <2>2. CASE LoseLease(h, k)
    <3>1. /\ tasks' = [tasks EXCEPT ![h][k][c] = "final"]
          /\ active' = [active EXCEPT ![h][k] = 0]
      BY <2>2 DEF LoseLease, Untrack
    <3>. SUFFICES ASSUME NEW g \in Gateways, NEW j \in Jobs, NEW a \in Attempts,
                         Kept(tasks'[g][j][a]), HoldingNext(j, a)
                  PROVE  active'[g][j] = a
      BY DEF HolderTracks, HoldingNext
    <3>. HIDE DEF c
    <3>2. ~(g = h /\ j = k /\ a = c)
      BY <1>0, <3>1 DEF TypeInv, TypeOK
    <3>3. tasks'[g][j][a] = tasks[g][j][a]
      BY <1>0, <3>1, <3>2 DEF TypeInv, TypeOK
    <3>4. active[g][j] = a
      BY <1>1, <3>3
    <3>5. ~(g = h /\ j = k)
      BY <3>2, <3>4 DEF c
    <3>. QED
      BY <1>0, <3>1, <3>4, <3>5 DEF TypeInv, TypeOK
  <2>. QED
    BY <1>4, <2>1, <2>2 DEF ReviewRenew
<1>5. ASSUME NEW h \in Gateways, EnqueueTask(h) PROVE HolderTracks'
  <2>. DEFINE k == claimed[h].job
              c == claimed[h].attempt
  <2>1. /\ pc[h] = "enqueue" /\ row' = row
        /\ tasks' = [tasks EXCEPT ![h][k][c] = "live"]
        /\ active' = [active EXCEPT ![h][k] = c]
    BY <1>5 DEF EnqueueTask
  <2>2. k \in Jobs /\ c \in Attempts
    BY <1>0, <2>1 DEF TypeInv, ThreadOK
  <2>3. /\ c <= row[k].attempts
        /\ \A a \in Attempts : tasks[h][k][a] # "none" => a < c
    BY <1>0, <2>1, <2>2 DEF AttemptsOrdered
  <2>. HIDE DEF k, c
  <2>. SUFFICES ASSUME NEW g \in Gateways, NEW j \in Jobs, NEW a \in Attempts,
                       Kept(tasks'[g][j][a]), HoldingNext(j, a)
                PROVE  active'[g][j] = a
    BY DEF HolderTracks, HoldingNext
  <2>4. CASE ~(g = h /\ j = k)
    <3>1. tasks'[g][j][a] = tasks[g][j][a] /\ active'[g][j] = active[g][j]
      BY <1>0, <2>1, <2>4 DEF TypeInv, TypeOK
    <3>. QED
      BY <1>1, <3>1
  <2>5. CASE g = h /\ j = k /\ a = c
    BY <1>0, <2>1, <2>5 DEF TypeInv, TypeOK
  <2>6. CASE g = h /\ j = k /\ a # c
    <3>1. tasks[h][k][a] # "none"
      BY <1>0, <2>1, <2>2, <2>6 DEF TypeInv, TypeOK
    <3>2. row[k].attempts = a
      BY <2>1, <2>6 DEF HoldingNext, Holds
    <3>. QED
      BY <2>2, <2>3, <3>1, <3>2 DEF Attempts
  <2>. QED
    BY <2>4, <2>5, <2>6
<1>6. ASSUME NEW h \in Gateways, NEW k \in Jobs, NEW c \in Attempts,
             TaskEnds(h, k, c)
      PROVE  HolderTracks'
  <2>1. \A g \in Gateways, j \in Jobs, a \in Attempts :
            Kept(tasks'[g][j][a]) => Kept(tasks[g][j][a])
    BY <1>0, <1>6 DEF TaskEnds, TypeInv, TypeOK
  <2>2. active' = active
    BY <1>6 DEF TaskEnds
  <2>. QED
    BY <1>2, <2>1, <2>2
<1>7. ASSUME NEW h \in Gateways, Crash(h) PROVE HolderTracks'
  <2>1. \A g \in Gateways, j \in Jobs, a \in Attempts :
            IF g = h THEN tasks'[g][j][a] = "none"
            ELSE tasks'[g][j][a] = tasks[g][j][a] /\ active'[g][j] = active[g][j]
    BY <1>0, <1>7 DEF Crash, NoTasks, TypeInv, TypeOK
  <2>. QED
    BY <1>2, <2>1
<1>8. ASSUME NEW h \in Gateways,
             \/ PollStart(h) \/ ReviewDone(h) \/ ClaimNone(h) \/ EnqueueRefused(h)
             \/ SqlFails(h)
             \/ \E j \in Jobs : ReviewNotDue(h, j) \/ Claim(h, j) \/ Submit(h, j)
      PROVE  HolderTracks'
  <2>1. tasks' = tasks /\ active' = active
    BY <1>8 DEF PollStart, ReviewDone, ClaimNone, EnqueueRefused, SqlFails,
                ReviewNotDue, Claim, Submit
  <2>. QED
    BY <1>2, <2>1
<1>9. CASE Tick \/ UNCHANGED vars
  BY <1>2, <1>9 DEF Tick, vars
<1>. QED
  BY <1>3, <1>4, <1>5, <1>6, <1>7, <1>8, <1>9 DEF Next, Review, Admit

\* While its lease is live, a result computed for the current attempt stays
\* tracked by the gateway that computed it until the row holds it: no
\* interleaving of polls, submits, SQL failures, crashes and other gateways
\* makes job_gateway.py drop it from _active.
THEOREM ResultKept == Spec => []ResultNotDiscarded
<1>1. OwnInv /\ [Next]_vars => OwnInv'
  BY TypeNext, OrderedNext, TracksNext DEF OwnInv
<1>2. OwnInv => ResultNotDiscarded
  BY DEF OwnInv, HolderTracks, ResultNotDiscarded
<1>. QED
  BY <1>1, <1>2, OwnInit, PTL DEF Spec

-----------------------------------------------------------------------------
(* No orphans with one slot                                                *)

\* With a single slot, a gateway claims only while it tracks nothing.
SlotFree ==
    \A g \in Gateways :
        /\ slots[g] = IF pc[g] = "claim" THEN 1 ELSE 0
        /\ pc[g] \in {"claim", "enqueue"} => Tracked(g) = {}

OneSlotInv == TypeInv /\ SlotFree /\ LiveTaskTracked

\* Below one tracked task there is none.
LEMMA NothingTracked ==
    ASSUME NEW g \in Gateways, Cardinality(Tracked(g)) < 1
    PROVE  Tracked(g) = {} /\ Cardinality(Tracked(g)) = 0
<1>1. IsFiniteSet(Tracked(g))
  BY FS_Subset, GatewayAssumption DEF Tracked
<1>2. Cardinality(Tracked(g)) \in Nat
  BY <1>1, FS_CardinalityType
<1>3. Cardinality(Tracked(g)) = 0
  BY <1>2
<1>. QED
  BY <1>1, <1>3, FS_EmptySet

\* The gateways start with nothing tracked and no slot counted.
LEMMA OneSlotInit == Init => OneSlotInv
  BY TypeInit DEF Init, OneSlotInv, SlotFree, LiveTaskTracked, NoTasks

\* poll and submit claim only after finding _active empty, and no step in
\* between fills it.
LEMMA SlotFreeNext ==
    ASSUME MaxInflight = 1, OneSlotInv, [Next]_vars
    PROVE  SlotFree'
<1>0. TypeInv /\ SlotFree
  BY DEF OneSlotInv
<1>. DEFINE Ok(g) == /\ slots'[g] = IF pc'[g] = "claim" THEN 1 ELSE 0
                     /\ pc'[g] \in {"claim", "enqueue"} => Tracked(g)' = {}
<1>1. ASSUME NEW g \in Gateways, slots'[g] = slots[g], pc'[g] = pc[g],
             active'[g] = active[g]
      PROVE  Ok(g)
  BY <1>0, <1>1 DEF SlotFree, Tracked
\* A step of gateway h leaves the other gateways' memory alone.
<1>2. ASSUME NEW h \in Gateways,
             \A g \in Gateways \ {h} :
                 slots'[g] = slots[g] /\ pc'[g] = pc[g] /\ active'[g] = active[g],
             Ok(h)
      PROVE  SlotFree'
  BY <1>1, <1>2 DEF SlotFree
<1>. HIDE DEF Ok
<1>3. ASSUME NEW h \in Gateways, slots'[h] = 0, pc'[h] \in {"idle", "review"}
      PROVE  Ok(h)
  BY <1>3 DEF Ok
<1>4. ASSUME NEW h \in Gateways, PollStart(h) PROVE SlotFree'
  <2>1. slots'[h] = 0 /\ pc'[h] = "review"
    BY <1>0, <1>4 DEF PollStart, SlotFree, TypeInv, TypeOK
  <2>. QED
    BY <1>0, <1>2, <1>3, <1>4, <2>1 DEF PollStart, TypeInv, TypeOK
<1>5. ASSUME NEW h \in Gateways, NEW k \in Jobs, NEW b \in BOOLEAN,
             \/ ReviewEnded(h, k, b) \/ ReviewRenew(h, k, b) \/ ReviewNotDue(h, k)
      PROVE  SlotFree'
  <2>1. \/ UNCHANGED <<pc, slots>> /\ pc[h] = "review"
        \/ GiveUp(h)
    BY <1>5 DEF ReviewEnded, ReviewRenew, ReviewNotDue, Reviewed
  <2>2. \A g \in Gateways \ {h} : active'[g] = active[g]
    BY <1>0, <1>5
       DEF ReviewEnded, ReviewRenew, ReviewNotDue, LoseLease, Untrack, TypeInv, TypeOK
  <2>3. slots'[h] = 0 /\ pc'[h] \in {"idle", "review"}
    BY <1>0, <2>1 DEF GiveUp, SlotFree, TypeInv, TypeOK
  <2>4. \A g \in Gateways \ {h} : slots'[g] = slots[g] /\ pc'[g] = pc[g]
    BY <1>0, <2>1 DEF GiveUp, TypeInv, TypeOK
  <2>. QED
    BY <1>2, <1>3, <2>2, <2>3, <2>4
<1>6. ASSUME NEW h \in Gateways, ReviewDone(h) PROVE SlotFree'
  <2>1. CASE Free(h) = 0
    BY <1>0, <1>2, <1>3, <1>6, <2>1 DEF ReviewDone, TypeInv, TypeOK
  <2>2. CASE Free(h) # 0
    <3>1. Cardinality(Tracked(h)) < 1
      BY <2>2 DEF Free
    <3>2. Tracked(h) = {} /\ Free(h) = 1
      BY <3>1, NothingTracked DEF Free
    <3>3. /\ slots'[h] = 1 /\ pc'[h] = "claim" /\ active' = active
          /\ \A g \in Gateways \ {h} : slots'[g] = slots[g] /\ pc'[g] = pc[g]
      BY <1>0, <1>6, <3>2 DEF ReviewDone, TypeInv, TypeOK
    <3>4. Ok(h)
      BY <3>2, <3>3 DEF Ok, Tracked
    <3>. QED
      BY <1>2, <3>3, <3>4
  <2>. QED
    BY <2>1, <2>2
<1>7. ASSUME NEW h \in Gateways, NEW k \in Jobs, Claim(h, k) \/ Submit(h, k)
      PROVE  SlotFree'
  <2>1. /\ slots'[h] = 0 /\ pc'[h] = "enqueue" /\ active' = active
        /\ \A g \in Gateways \ {h} : slots'[g] = slots[g] /\ pc'[g] = pc[g]
    BY <1>0, <1>7 DEF Claim, Submit, SlotFree, TypeInv, TypeOK
  <2>2. Tracked(h) = {}
    BY <1>0, <1>7, NothingTracked DEF Claim, Submit, SlotFree
  <2>3. Ok(h)
    BY <2>1, <2>2 DEF Ok, Tracked
  <2>. QED
    BY <1>2, <2>1, <2>3
<1>8. ASSUME NEW h \in Gateways, EnqueueTask(h) \/ EnqueueRefused(h)
      PROVE  SlotFree'
  <2>1. slots'[h] = 0 /\ pc'[h] = "idle"
    BY <1>0, <1>8
       DEF EnqueueTask, EnqueueRefused, Enqueued, SlotFree, TypeInv, TypeOK
  <2>2. \A g \in Gateways \ {h} :
            slots'[g] = slots[g] /\ pc'[g] = pc[g] /\ active'[g] = active[g]
    BY <1>0, <1>8 DEF EnqueueTask, EnqueueRefused, Enqueued, TypeInv, TypeOK
  <2>. QED
    BY <1>2, <1>3, <2>1, <2>2
<1>9. ASSUME NEW h \in Gateways, ClaimNone(h) \/ SqlFails(h) \/ Crash(h)
      PROVE  SlotFree'
  <2>1. slots'[h] = 0 /\ pc'[h] = "idle"
    BY <1>0, <1>9 DEF ClaimNone, SqlFails, Crash, GiveUp, TypeInv, TypeOK
  <2>2. \A g \in Gateways \ {h} :
            slots'[g] = slots[g] /\ pc'[g] = pc[g] /\ active'[g] = active[g]
    BY <1>0, <1>9 DEF ClaimNone, SqlFails, Crash, GiveUp, TypeInv, TypeOK
  <2>. QED
    BY <1>2, <1>3, <2>1, <2>2
<1>10. ASSUME UNCHANGED <<slots, pc, active>> PROVE SlotFree'
  BY <1>1, <1>10 DEF SlotFree, Ok
<1>11. ASSUME NEW g \in Gateways, NEW j \in Jobs, NEW a \in Attempts,
              TaskEnds(g, j, a)
       PROVE  SlotFree'
  BY <1>10, <1>11 DEF TaskEnds
<1>12. CASE Tick \/ UNCHANGED vars
  BY <1>10, <1>12 DEF Tick, vars
<1>. QED
  BY <1>4, <1>5, <1>6, <1>7, <1>8, <1>9, <1>11, <1>12 DEF Next, Review, Admit

\* A task is forgotten only together with its end, and a new one never takes
\* the place of a live one.
LEMMA LiveTrackedNext ==
    ASSUME MaxInflight = 1, OneSlotInv, [Next]_vars
    PROVE  LiveTaskTracked'
<1>0. TypeInv /\ SlotFree /\ LiveTaskTracked
  BY DEF OneSlotInv
<1>1. ASSUME \A g \in Gateways, j \in Jobs, a \in Attempts :
                 tasks'[g][j][a] = "live" =>
                     tasks[g][j][a] = "live" /\ active'[g][j] = active[g][j]
      PROVE  LiveTaskTracked'
  BY <1>0, <1>1 DEF LiveTaskTracked
\* The tracked task ends and is forgotten, or only ends.
<1>2. ASSUME NEW h \in Gateways, NEW k \in Jobs, NEW st, st # "live",
             tasks' = [tasks EXCEPT ![h][k][active[h][k]] = st],
             active' = active \/ active' = [active EXCEPT ![h][k] = 0]
      PROVE  LiveTaskTracked'
  <2>. SUFFICES ASSUME NEW g \in Gateways, NEW j \in Jobs, NEW a \in Attempts,
                       tasks'[g][j][a] = "live"
                PROVE  active'[g][j] = a
    BY DEF LiveTaskTracked
  <2>. DEFINE c == active[h][k]
  <2>1. tasks' = [tasks EXCEPT ![h][k][c] = st]
    BY <1>2
  <2>. HIDE DEF c
  <2>2. ~(g = h /\ j = k /\ a = c)
    BY <1>0, <1>2, <2>1 DEF TypeInv, TypeOK
  <2>3. tasks[g][j][a] = "live"
    BY <1>0, <2>1, <2>2 DEF TypeInv, TypeOK
  <2>4. active[g][j] = a
    BY <1>0, <2>3 DEF LiveTaskTracked
  <2>5. ~(g = h /\ j = k)
    BY <2>2, <2>4 DEF c
  <2>. QED
    BY <1>0, <1>2, <2>4, <2>5 DEF TypeInv, TypeOK
<1>3. ASSUME NEW h \in Gateways, NEW k \in Jobs, NEW b \in BOOLEAN,
             ReviewEnded(h, k, b)
      PROVE  LiveTaskTracked'
  <2>1. /\ Seen(h, k) # "live"
        /\ tasks' = [tasks EXCEPT ![h][k][active[h][k]] = Seen(h, k)]
        /\ active' = active \/ active' = [active EXCEPT ![h][k] = 0]
    BY <1>3 DEF ReviewEnded, Untrack
  <2>. QED
    BY <1>2, <2>1
<1>4. ASSUME NEW h \in Gateways, NEW k \in Jobs, NEW b \in BOOLEAN,
             ReviewRenew(h, k, b)
      PROVE  LiveTaskTracked'
  <2>1. CASE tasks' = tasks /\ active' = active
    BY <1>1, <2>1
  <2>2. CASE LoseLease(h, k)
    BY <1>2, <2>2 DEF LoseLease, Untrack
  <2>. QED
    BY <1>4, <2>1, <2>2 DEF ReviewRenew
\* The gateway tracked nothing, so it has no other live task.
<1>5. ASSUME NEW h \in Gateways, EnqueueTask(h) PROVE LiveTaskTracked'
  <2>. DEFINE k == claimed[h].job
              c == claimed[h].attempt
  <2>1. /\ pc[h] = "enqueue"
        /\ tasks' = [tasks EXCEPT ![h][k][c] = "live"]
        /\ active' = [active EXCEPT ![h][k] = c]
    BY <1>5 DEF EnqueueTask
  <2>2. k \in Jobs /\ c \in Attempts
    BY <1>0, <2>1 DEF TypeInv, ThreadOK
  <2>3. \A j \in Jobs : active[h][j] = 0
    BY <1>0, <2>1 DEF SlotFree, Tracked
  <2>4. \A j \in Jobs, a \in Attempts : tasks[h][j][a] # "live"
    BY <1>0, <2>3 DEF LiveTaskTracked, Attempts
  <2>. HIDE DEF k, c
  <2>. QED
    BY <1>0, <2>1, <2>2, <2>4 DEF LiveTaskTracked, TypeInv, TypeOK
<1>6. ASSUME NEW h \in Gateways, NEW k \in Jobs, NEW c \in Attempts,
             TaskEnds(h, k, c)
      PROVE  LiveTaskTracked'
  BY <1>0, <1>1, <1>6 DEF TaskEnds, TypeInv, TypeOK
<1>7. ASSUME NEW h \in Gateways, Crash(h) PROVE LiveTaskTracked'
  <2>1. \A g \in Gateways, j \in Jobs, a \in Attempts :
            IF g = h THEN tasks'[g][j][a] = "none"
            ELSE tasks'[g][j][a] = tasks[g][j][a] /\ active'[g][j] = active[g][j]
    BY <1>0, <1>7 DEF Crash, NoTasks, TypeInv, TypeOK
  <2>. QED
    BY <1>1, <2>1
<1>8. ASSUME NEW h \in Gateways,
             \/ PollStart(h) \/ ReviewDone(h) \/ ClaimNone(h) \/ EnqueueRefused(h)
             \/ SqlFails(h)
             \/ \E j \in Jobs : ReviewNotDue(h, j) \/ Claim(h, j) \/ Submit(h, j)
      PROVE  LiveTaskTracked'
  <2>1. tasks' = tasks /\ active' = active
    BY <1>8 DEF PollStart, ReviewDone, ClaimNone, EnqueueRefused, SqlFails,
                ReviewNotDue, Claim, Submit
  <2>. QED
    BY <1>1, <2>1
<1>9. CASE Tick \/ UNCHANGED vars
  BY <1>1, <1>9 DEF Tick, vars
<1>. QED
  BY <1>3, <1>4, <1>5, <1>6, <1>7, <1>8, <1>9 DEF Next, Review, Admit

\* With max_inflight = 1 every live task is tracked, so the poll that finds a
\* lease lost always fails the task that lost it.  With more slots it is not
\* so: see the run job_orphan_task.
THEOREM OneSlotTracked ==
    ASSUME MaxInflight = 1
    PROVE  Spec => []LiveTaskTracked
<1>1. OneSlotInv /\ [Next]_vars => OneSlotInv'
  BY TypeNext, SlotFreeNext, LiveTrackedNext DEF OneSlotInv
<1>2. OneSlotInv => LiveTaskTracked
  BY DEF OneSlotInv
<1>. QED
  BY <1>1, <1>2, OneSlotInit, PTL DEF Spec

-----------------------------------------------------------------------------
(* max_inflight                                                            *)

\* The tasks tracked, the claims still allowed and the claim in hand fit in
\* max_inflight together; outside the claims no slot is counted.
Pending(g) == IF pc[g] = "enqueue" THEN 1 ELSE 0

SlotsFit ==
    \A g \in Gateways :
        /\ Cardinality(Tracked(g)) + slots[g] + Pending(g) <= MaxInflight
        /\ pc[g] \in {"idle", "review"} => slots[g] = 0

\* _active is a finite map.
LEMMA TrackedFinite ==
    ASSUME NEW g \in Gateways
    PROVE  IsFiniteSet(Tracked(g)) /\ Cardinality(Tracked(g)) \in Nat
<1>1. IsFiniteSet(Tracked(g))
  BY FS_Subset, GatewayAssumption DEF Tracked
<1>. QED
  BY <1>1, FS_CardinalityType

\* Forgetting tasks frees slots; tracking one more task takes one at most.
LEMMA TrackedCount ==
    ASSUME NEW S \in SUBSET Jobs, NEW T \in SUBSET Jobs, NEW j
    PROVE  /\ Cardinality(S) \in Nat /\ Cardinality(T) \in Nat
           /\ T \subseteq S => Cardinality(T) <= Cardinality(S)
           /\ T \subseteq S \cup {j} => Cardinality(T) <= Cardinality(S) + 1
<1>1. IsFiniteSet(S) /\ IsFiniteSet(T) /\ IsFiniteSet(S \cup {j})
  BY FS_Subset, FS_AddElement, GatewayAssumption
<1>2. /\ Cardinality(S) \in Nat /\ Cardinality(T) \in Nat
      /\ Cardinality(S \cup {j}) \in Nat
  BY <1>1, FS_CardinalityType
<1>3. Cardinality(S \cup {j}) <= Cardinality(S) + 1
  BY <1>1, <1>2, FS_AddElement
<1>4. T \subseteq S => Cardinality(T) <= Cardinality(S)
  BY <1>1, FS_Subset
<1>5. T \subseteq S \cup {j} => Cardinality(T) <= Cardinality(S \cup {j})
  BY <1>1, FS_Subset
<1>. QED
  BY <1>2, <1>3, <1>4, <1>5

\* The gateways start with all slots free.
LEMMA SlotsInit == Init => SlotsFit
<1>. SUFFICES ASSUME Init, NEW g \in Gateways
              PROVE  Cardinality(Tracked(g)) + slots[g] + Pending(g) <= MaxInflight
                     /\ slots[g] = 0
  BY DEF SlotsFit
<1>1. Tracked(g) = {} /\ slots[g] = 0 /\ Pending(g) = 0
  BY DEF Init, Tracked, NoneTracked, Pending
<1>. QED
  BY <1>1, FS_EmptySet, GatewayAssumption

\* poll counts its free slots once, and submit looks before it claims: neither
\* takes a slot that the other has counted, because both hold the lock.
LEMMA SlotsNext == TypeInv /\ SlotsFit /\ [Next]_vars => SlotsFit'
<1>. SUFFICES ASSUME TypeInv, SlotsFit, [Next]_vars PROVE SlotsFit'
  OBVIOUS
<1>. DEFINE Fit(g) == /\ Cardinality(Tracked(g)') + slots'[g] + Pending(g)' <= MaxInflight
                      /\ pc'[g] \in {"idle", "review"} => slots'[g] = 0
<1>t. \A g \in Gateways : /\ slots[g] \in Nat /\ Cardinality(Tracked(g)) \in Nat
                          /\ Pending(g) \in {0, 1} /\ MaxInflight \in Nat
  BY TrackedFinite, GatewayAssumption DEF TypeInv, TypeOK, Pending
<1>1. ASSUME NEW g \in Gateways, slots'[g] = slots[g], pc'[g] = pc[g],
             active'[g] = active[g]
      PROVE  Fit(g)
  <2>1. Tracked(g)' = Tracked(g) /\ Pending(g)' = Pending(g)
    BY <1>1 DEF Tracked, Pending
  <2>. QED
    BY <1>1, <2>1 DEF SlotsFit
\* A step of gateway h leaves the other gateways' memory alone.
<1>2. ASSUME NEW h \in Gateways,
             \A g \in Gateways \ {h} :
                 slots'[g] = slots[g] /\ pc'[g] = pc[g] /\ active'[g] = active[g],
             Fit(h)
      PROVE  SlotsFit'
  BY <1>1, <1>2 DEF SlotsFit
\* Outside the claims only the tracked tasks count, and they become fewer.
<1>3. ASSUME NEW h \in Gateways, slots'[h] = 0, pc'[h] \in {"idle", "review"},
             Tracked(h)' \subseteq Tracked(h)
      PROVE  Fit(h)
  <2>1. Tracked(h) \in SUBSET Jobs /\ Tracked(h)' \in SUBSET Jobs /\ Pending(h)' = 0
    BY <1>3 DEF Tracked, Pending
  <2>2. /\ Cardinality(Tracked(h)') \in Nat
        /\ Cardinality(Tracked(h)') <= Cardinality(Tracked(h))
    BY <1>3, <2>1, TrackedCount
  <2>3. Cardinality(Tracked(h)) <= MaxInflight
    BY <1>t DEF SlotsFit
  <2>. QED
    BY <1>3, <1>t, <2>1, <2>2, <2>3
<1>4. ASSUME NEW h \in Gateways, PollStart(h) PROVE SlotsFit'
  <2>1. slots'[h] = 0 /\ pc'[h] = "review" /\ active' = active /\ slots' = slots
    BY <1>4 DEF PollStart, SlotsFit, TypeInv, TypeOK
  <2>2. \A g \in Gateways \ {h} : pc'[g] = pc[g]
    BY <1>4 DEF PollStart, TypeInv, TypeOK
  <2>3. Tracked(h)' \subseteq Tracked(h)
    BY <2>1 DEF Tracked
  <2>4. Fit(h)
    BY <1>3, <2>1, <2>3
  <2>. HIDE DEF Fit
  <2>. QED
    BY <1>2, <2>1, <2>2, <2>4
<1>5. ASSUME NEW h \in Gateways, NEW k \in Jobs, NEW b \in BOOLEAN,
             \/ ReviewEnded(h, k, b) \/ ReviewRenew(h, k, b) \/ ReviewNotDue(h, k)
      PROVE  SlotsFit'
  <2>1. \/ UNCHANGED <<pc, slots>> /\ pc[h] = "review"
        \/ GiveUp(h)
    BY <1>5 DEF ReviewEnded, ReviewRenew, ReviewNotDue, Reviewed
  <2>2. active' = active \/ active' = [active EXCEPT ![h][k] = 0]
    BY <1>5 DEF ReviewEnded, ReviewRenew, ReviewNotDue, LoseLease, Untrack
  <2>3. slots'[h] = 0 /\ pc'[h] \in {"idle", "review"}
    BY <2>1 DEF GiveUp, SlotsFit, TypeInv, TypeOK
  <2>4. \A g \in Gateways \ {h} : slots'[g] = slots[g] /\ pc'[g] = pc[g]
    BY <2>1 DEF GiveUp, TypeInv, TypeOK
  <2>5. \A g \in Gateways \ {h} : active'[g] = active[g]
    BY <2>2 DEF TypeInv, TypeOK
  <2>6. Tracked(h)' \subseteq Tracked(h)
    BY <2>2 DEF Tracked, TypeInv, TypeOK
  <2>7. Fit(h)
    BY <1>3, <2>3, <2>6
  <2>. HIDE DEF Fit
  <2>. QED
    BY <1>2, <2>4, <2>5, <2>7
<1>6. ASSUME NEW h \in Gateways, ReviewDone(h) PROVE SlotsFit'
  <2>1. /\ slots'[h] = Free(h) /\ pc'[h] = (IF Free(h) = 0 THEN "idle" ELSE "claim")
        /\ active' = active
        /\ \A g \in Gateways \ {h} : slots'[g] = slots[g] /\ pc'[g] = pc[g]
    BY <1>6 DEF ReviewDone, TypeInv, TypeOK
  <2>2. Tracked(h)' = Tracked(h) /\ Pending(h)' = 0
    BY <2>1 DEF Tracked, Pending
  <2>3. Free(h) \in Nat
    BY FreeType DEF TypeInv
  <2>4. Cardinality(Tracked(h)) <= MaxInflight
    BY <1>t DEF SlotsFit
  <2>5. Cardinality(Tracked(h)) + Free(h) <= MaxInflight
    BY <1>t, <2>4 DEF Free
  <2>6. Fit(h)
    BY <1>t, <2>1, <2>2, <2>3, <2>5
  <2>. HIDE DEF Fit
  <2>. QED
    BY <1>2, <2>1, <2>6
<1>7. ASSUME NEW h \in Gateways, NEW k \in Jobs, Claim(h, k) \/ Submit(h, k)
      PROVE  SlotsFit'
  <2>1. /\ pc'[h] = "enqueue" /\ active' = active
        /\ \A g \in Gateways \ {h} : slots'[g] = slots[g] /\ pc'[g] = pc[g]
    BY <1>7 DEF Claim, Submit, TypeInv, TypeOK
  <2>2. Tracked(h)' = Tracked(h) /\ Pending(h)' = 1
    BY <2>1 DEF Tracked, Pending
  <2>3. CASE Claim(h, k)
    <3>1. pc[h] = "claim" /\ slots'[h] = slots[h] - 1 /\ slots[h] > 0
      BY <2>3 DEF Claim, TypeInv, TypeOK, ThreadOK
    <3>2. Cardinality(Tracked(h)) + slots[h] <= MaxInflight
      BY <1>t, <3>1 DEF SlotsFit, Pending
    <3>3. Fit(h)
      BY <1>t, <2>1, <2>2, <3>1, <3>2
    <3>. HIDE DEF Fit
    <3>. QED
      BY <1>2, <2>1, <3>3
  <2>4. CASE Submit(h, k)
    <3>1. slots'[h] = 0 /\ Cardinality(Tracked(h)) < MaxInflight
      BY <2>4 DEF Submit, SlotsFit
    <3>2. Fit(h)
      BY <1>t, <2>1, <2>2, <3>1
    <3>. HIDE DEF Fit
    <3>. QED
      BY <1>2, <2>1, <3>2
  <2>. QED
    BY <1>7, <2>3, <2>4
<1>8. ASSUME NEW h \in Gateways, EnqueueTask(h) \/ EnqueueRefused(h)
      PROVE  SlotsFit'
  <2>1. /\ pc[h] = "enqueue" /\ slots' = slots
        /\ pc'[h] = (IF slots[h] = 0 THEN "idle" ELSE "claim")
        /\ \A g \in Gateways \ {h} : pc'[g] = pc[g]
    BY <1>8 DEF EnqueueTask, EnqueueRefused, Enqueued, TypeInv, TypeOK
  <2>2. claimed[h].job \in Jobs
    BY <2>1 DEF TypeInv, ThreadOK
  <2>3. /\ active' = active
           \/ active' = [active EXCEPT ![h][claimed[h].job] = claimed[h].attempt]
    BY <1>8 DEF EnqueueTask, EnqueueRefused
  <2>4. /\ \A g \in Gateways \ {h} : active'[g] = active[g]
        /\ Tracked(h)' \subseteq Tracked(h) \cup {claimed[h].job}
    BY <2>3 DEF Tracked, TypeInv, TypeOK
  <2>5. Tracked(h) \in SUBSET Jobs /\ Tracked(h)' \in SUBSET Jobs /\ Pending(h)' = 0
    BY <2>1 DEF Tracked, Pending
  <2>6. /\ Cardinality(Tracked(h)') \in Nat
        /\ Cardinality(Tracked(h)') <= Cardinality(Tracked(h)) + 1
    BY <2>2, <2>4, <2>5, TrackedCount
  <2>7. Cardinality(Tracked(h)) + slots[h] + 1 <= MaxInflight
    BY <1>t, <2>1 DEF SlotsFit, Pending
  <2>8. Fit(h)
    BY <1>t, <2>1, <2>5, <2>6, <2>7
  <2>. HIDE DEF Fit
  <2>. QED
    BY <1>2, <2>1, <2>4, <2>8
<1>9. ASSUME NEW h \in Gateways, ClaimNone(h) \/ SqlFails(h) \/ Crash(h)
      PROVE  SlotsFit'
  <2>1. slots'[h] = 0 /\ pc'[h] = "idle"
    BY <1>9 DEF ClaimNone, SqlFails, Crash, GiveUp, TypeInv, TypeOK
  <2>2. \A g \in Gateways \ {h} :
            slots'[g] = slots[g] /\ pc'[g] = pc[g] /\ active'[g] = active[g]
    BY <1>9 DEF ClaimNone, SqlFails, Crash, GiveUp, TypeInv, TypeOK
  <2>3. active'[h] = active[h] \/ active'[h] = NoneTracked
    BY <1>9 DEF ClaimNone, SqlFails, Crash, TypeInv, TypeOK
  <2>4. Tracked(h)' \subseteq Tracked(h)
    BY <2>3 DEF Tracked, NoneTracked
  <2>5. Fit(h)
    BY <1>3, <2>1, <2>4
  <2>. HIDE DEF Fit
  <2>. QED
    BY <1>2, <2>2, <2>5
<1>10. ASSUME UNCHANGED <<slots, pc, active>> PROVE SlotsFit'
  BY <1>1, <1>10 DEF SlotsFit
<1>11. ASSUME NEW g \in Gateways, NEW j \in Jobs, NEW a \in Attempts,
              TaskEnds(g, j, a)
       PROVE  SlotsFit'
  BY <1>10, <1>11 DEF TaskEnds
<1>12. CASE Tick \/ UNCHANGED vars
  BY <1>10, <1>12 DEF Tick, vars
<1>. QED
  BY <1>4, <1>5, <1>6, <1>7, <1>8, <1>9, <1>11, <1>12 DEF Next, Review, Admit

\* JobGateway._active never holds more than max_inflight tasks, whatever order
\* poll and submit come in, and whichever statements fail.
THEOREM NeverOverInflight == Spec => []InflightBound
<1>1. TypeInv /\ SlotsFit => InflightBound
  <2>. SUFFICES ASSUME TypeInv, SlotsFit, NEW g \in Gateways
                PROVE  Cardinality(Tracked(g)) <= MaxInflight
    BY DEF InflightBound
  <2>1. /\ slots[g] \in Nat /\ Cardinality(Tracked(g)) \in Nat
        /\ Pending(g) \in {0, 1} /\ MaxInflight \in Nat
    BY TrackedFinite, GatewayAssumption DEF TypeInv, TypeOK, Pending
  <2>. QED
    BY <2>1 DEF SlotsFit
<1>. QED
  BY <1>1, TypeInit, TypeNext, SlotsInit, SlotsNext, PTL DEF Spec
=============================================================================
