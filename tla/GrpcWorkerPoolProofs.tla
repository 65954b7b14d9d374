------------------------ MODULE GrpcWorkerPoolProofs ------------------------
(***************************************************************************)
(* The safety properties of GrpcWorkerPool for any tasks, workers, proxies *)
(* and membership snapshots.                                               *)
(*                                                                         *)
(* The inductive invariant is built in layers, each proved on top of the   *)
(* ones before it.  Places says where a task is (Holding what a thread of  *)
(* a given pc has, Owner that nobody else has it); References that a stale *)
(* reference to a proxy is one that refuses work; Sends how often and      *)
(* where a task was sent, given who has it now; TurnedAway that a request  *)
(* refused by the pool is in nobody's hands.                               *)
(***************************************************************************)
EXTENDS GrpcWorkerPool, SequenceTheorems, FiniteSetTheorems, TLAPS

\* Task t is in the i-th batch queued at proxy p.
Queued(p, i, t) == i \in 1 .. Len(queue[p]) /\ t \in queue[p][i]

\* What a thread of a given pc has in its hands.
Holding ==
    /\ sched.pc = "idle" => sched.batch = {}
    /\ sched.group \subseteq sched.batch
    /\ sched.pc \in {"submit", "relock", "fallback"} => sched.target \in Proxies
    /\ \A th \in Threads : pc[th] = "idle" => batch[th] = {}
    /\ \A th \in Threads : pc[th] \in {"reserve", "try"} => handoff[th].task \in batch[th]

\* No task is in two places.
Owner ==
    \A t \in Tasks :
       /\ t \in fresh => t \notin sched.batch
       /\ \A th \in Threads : t \in batch[th] => t \notin fresh \cup sched.batch
       /\ \A th, th2 \in Threads : t \in batch[th] /\ t \in batch[th2] => th = th2
       /\ \A p \in Proxies, i \in Nat : Queued(p, i, t) =>
             t \notin fresh \cup sched.batch /\ \A th \in Threads : t \notin batch[th]
       /\ \A p, q \in Proxies, i, j \in Nat :
             Queued(p, i, t) /\ Queued(q, j, t) => p = q /\ i = j

\* A proxy that a submitter may still refer to is a member or accepts nothing.
Known(p) == p \in members \/ stop[p] # "running"

References ==
    /\ sched.pc = "submit" => Known(sched.target)
    /\ \A p \in sched.untried : Known(p)
    /\ \A th \in Threads : \A p \in handoff[th].idle \cup handoff[th].busy : Known(p)
    /\ ~stopping => retire[Shutdown] = {}
    /\ stopping => members = {}

\* A task on its way to the worker of p was sent as often as it was handed off,
\* and never to that worker.
OnTheWay(t, p) ==
    /\ Len(sent[t]) <= task[t].retry_count
    /\ \A i \in 1 .. Len(sent[t]) : sent[t][i] # WorkerOf[p]

\* How often and where a task was sent, given who holds it.
TaskSends(t) ==
    /\ Len(sent[t]) <= 1 + task[t].retry_count
    /\ \A i, j \in 1 .. Len(sent[t]) : sent[t][i] = sent[t][j] => i = j
    /\ Kind[t] \in NonRetryKinds => task[t].retry_count = 0
    /\ t \in fresh \cup sched.batch => sent[t] = <<>> /\ task[t].retry_count = 0
    /\ \A p \in Proxies, i \in Nat : Queued(p, i, t) => OnTheWay(t, p)

\* Task t was sent only to the worker whose failure thread th is settling.
SentToFailed(t, th) == \A i \in 1 .. Len(sent[t]) : sent[t][i] = FailedWorker(th)

ThreadSends(th) ==
    /\ th \in Proxies /\ pc[th] \in {"start", "send"} => \A t \in batch[th] : OnTheWay(t, th)
    /\ pc[th] \in {"rpc", "settle", "reserve", "try"} =>
          \A t \in batch[th] : task[t].retry_count = 0 => SentToFailed(t, th)
    /\ pc[th] \in {"reserve", "try"} =>
          /\ HandoffKind(handoff[th].task)
          /\ \A p \in handoff[th].idle \cup handoff[th].busy : WorkerOf[p] # FailedWorker(th)
    /\ pc[th] = "try" =>
          \A t : t = handoff[th].task =>
             Len(sent[t]) <= task[t].retry_count /\ SentToFailed(t, th)

Sends == (\A t \in Tasks : TaskSends(t)) /\ (\A th \in Threads : ThreadSends(th))

\* Somebody has task t.
Held(t) ==
    \/ t \in fresh \cup sched.batch
    \/ \E th \in Threads : t \in batch[th]
    \/ \E p \in Proxies, i \in Nat : Queued(p, i, t)

\* A /predict request the pool turned away is in nobody's hands.
TurnedAway ==
    \A t \in Tasks :
       Kind[t] \notin NonRetryKinds /\ task[t].error_code = "overloaded"
          => sent[t] = <<>> /\ task[t].retry_count = 0 /\ ~Held(t)

Places == TypeOK /\ Holding /\ Owner

-----------------------------------------------------------------------------
(* Task records                                                            *)

\* mark_failed, mark_done and mark_processing keep the first outcome of a task and
\* never touch its retry count.
LEMMA MarkFacts ==
    ASSUME NEW tk \in TaskRecord, NEW code \in ErrorCodes
    PROVE  /\ MarkFailed(tk, code) \in TaskRecord /\ Terminal(MarkFailed(tk, code))
           /\ MarkFailed(tk, code).retry_count = tk.retry_count
           /\ MarkFailed(tk, code).error_code \in {tk.error_code, code}
           /\ MarkDone(tk) \in TaskRecord /\ Terminal(MarkDone(tk))
           /\ MarkDone(tk).retry_count = tk.retry_count
           /\ MarkDone(tk).error_code = tk.error_code
           /\ MarkProcessing(tk) \in TaskRecord
           /\ MarkProcessing(tk).retry_count = tk.retry_count
           /\ MarkProcessing(tk).error_code = tk.error_code
           /\ Terminal(MarkProcessing(tk)) <=> Terminal(tk)
           /\ Terminal(tk) => /\ MarkFailed(tk, code) = tk
                              /\ MarkDone(tk) = tk /\ MarkProcessing(tk) = tk
BY DEF TaskRecord, Status, ErrorCodes, MarkFailed, MarkDone, MarkProcessing, Terminal

LEMMA ReserveFacts ==
    ASSUME NEW tk \in TaskRecord, NEW late \in BOOLEAN, CanReserve(tk, late)
    PROVE  /\ ReserveRetry(tk) \in TaskRecord
           /\ tk.retry_count = 0 /\ ReserveRetry(tk).retry_count = 1
           /\ ReserveRetry(tk).error_code = tk.error_code
           /\ ~Terminal(tk) /\ ~Terminal(ReserveRetry(tk))
BY DEF TaskRecord, Status, ErrorCodes, CanReserve, ReserveRetry, Terminal

\* What a reply makes of one task.
LEMMA ReplyFacts ==
    ASSUME NEW tk \in TaskRecord, NEW r \in Results, NEW k
    PROVE  LET new == ApplyResult(tk, r, k)
           IN /\ new \in TaskRecord /\ new.retry_count = tk.retry_count
              /\ Terminal(tk) => new = tk
              /\ Terminal(new) \/ (r = "omitted" /\ k \notin NonRetryKinds)
              /\ \/ new.error_code = tk.error_code
                 \/ new.error_code = r /\ r \in {"worker_error", "overloaded", "deadline_exceeded"}
                 \/ new.error_code = "transport_error"
<1>1. CASE r = "done"
  <2>1. ApplyResult(tk, r, k) = MarkDone(tk)  BY <1>1 DEF ApplyResult
  <2>2. "none" \in ErrorCodes  BY DEF ErrorCodes
  <2> QED BY <2>1, <2>2, MarkFacts
<1>2. CASE r = "omitted"
  <2>1. ApplyResult(tk, r, k) =
          IF k \in NonRetryKinds THEN MarkFailed(tk, "transport_error") ELSE tk
    BY <1>2 DEF ApplyResult
  <2>2. "transport_error" \in ErrorCodes  BY DEF ErrorCodes
  <2> QED BY <1>2, <2>1, <2>2, MarkFacts
<1>3. CASE r \in {"worker_error", "overloaded", "deadline_exceeded"}
  <2>1. ApplyResult(tk, r, k) = MarkFailed(tk, r)  BY <1>3 DEF ApplyResult
  <2>2. r \in ErrorCodes  BY <1>3 DEF ErrorCodes
  <2> QED BY <1>3, <2>1, <2>2, MarkFacts
<1> QED BY <1>1, <1>2, <1>3 DEF Results

\* mark_failed on a set of tasks.
LEMMA FailAllFacts ==
    ASSUME task \in [Tasks -> TaskRecord], NEW S, NEW code \in ErrorCodes
    PROVE  /\ FailAll(S, code) \in [Tasks -> TaskRecord]
           /\ \A t \in Tasks : FailAll(S, code)[t] =
                 IF t \in S THEN MarkFailed(task[t], code) ELSE task[t]
           /\ \A t \in S \cap Tasks : Terminal(FailAll(S, code)[t])
BY MarkFacts DEF FailAll

-----------------------------------------------------------------------------
(* Queues                                                                  *)

\* A batch appended to a queue is its last one.
LEMMA Enqueued ==
    ASSUME queue \in [Proxies -> Seq(SUBSET Tasks)], NEW p \in Proxies,
           NEW b \in SUBSET Tasks, Enqueue(p, b)
    PROVE  /\ queue' \in [Proxies -> Seq(SUBSET Tasks)]
           /\ \A q \in Proxies : q # p => queue'[q] = queue[q]
           /\ Len(queue[p]) \in Nat /\ Len(queue'[p]) = Len(queue[p]) + 1
           /\ \A q \in Proxies, i \in Nat, t \in Tasks :
                 Queued(q, i, t)' <=>
                    Queued(q, i, t) \/ (q = p /\ i = Len(queue[p]) + 1 /\ t \in b)
<1>1. queue[p] \in Seq(SUBSET Tasks) /\ queue'[p] = Append(queue[p], b)
  BY DEF Enqueue
<1>2. /\ Append(queue[p], b) \in Seq(SUBSET Tasks)
      /\ Len(Append(queue[p], b)) = Len(queue[p]) + 1
      /\ \A i \in 1 .. Len(queue[p]) : Append(queue[p], b)[i] = queue[p][i]
      /\ Append(queue[p], b)[Len(queue[p]) + 1] = b
  BY <1>1, AppendProperties
<1>3. Len(queue[p]) \in Nat  BY <1>1, LenProperties
<1>4. \A q \in Proxies : q # p => queue'[q] = queue[q]  BY DEF Enqueue
<1>5. queue' \in [Proxies -> Seq(SUBSET Tasks)]  BY <1>1, <1>2 DEF Enqueue
<1>6. \A i \in Nat, t \in Tasks :
         Queued(p, i, t)' <=> Queued(p, i, t) \/ (i = Len(queue[p]) + 1 /\ t \in b)
  BY <1>1, <1>2, <1>3 DEF Queued
<1>7. \A q \in Proxies, i \in Nat, t \in Tasks :
         q # p => (Queued(q, i, t)' <=> Queued(q, i, t))
  BY <1>4 DEF Queued
<1> QED BY <1>1, <1>2, <1>3, <1>4, <1>5, <1>6, <1>7

\* A popped batch was the first; the others move up.
LEMMA Dequeued ==
    ASSUME queue \in [Proxies -> Seq(SUBSET Tasks)], NEW p \in Proxies,
           queue[p] # <<>>, queue' = [queue EXCEPT ![p] = Tail(@)]
    PROVE  /\ queue' \in [Proxies -> Seq(SUBSET Tasks)]
           /\ Head(queue[p]) \in SUBSET Tasks
           /\ \A t : t \in Head(queue[p]) <=> Queued(p, 1, t)
           /\ \A q \in Proxies : q # p => queue'[q] = queue[q]
           /\ Len(queue[p]) \in Nat /\ Len(queue'[p]) = Len(queue[p]) - 1
           /\ \A q \in Proxies, i \in Nat, t \in Tasks :
                 Queued(q, i, t)' <=> IF q = p THEN i # 0 /\ Queued(p, i + 1, t)
                                      ELSE Queued(q, i, t)
<1>1. queue[p] \in Seq(SUBSET Tasks) /\ queue'[p] = Tail(queue[p])  OBVIOUS
<1>2. /\ Head(queue[p]) \in SUBSET Tasks
      /\ Tail(queue[p]) \in Seq(SUBSET Tasks)
      /\ Len(Tail(queue[p])) = Len(queue[p]) - 1
      /\ \A i \in 1 .. Len(Tail(queue[p])) : Tail(queue[p])[i] = queue[p][i + 1]
  BY <1>1, HeadTailProperties
<1>3. Len(queue[p]) \in Nat /\ Len(queue[p]) >= 1 /\ Head(queue[p]) = queue[p][1]
  BY <1>1, EmptySeq
<1>4. \A q \in Proxies : q # p => queue'[q] = queue[q]  OBVIOUS
<1>5. queue' \in [Proxies -> Seq(SUBSET Tasks)]  BY <1>1, <1>2
<1>6. \A t : t \in Head(queue[p]) <=> Queued(p, 1, t)  BY <1>3 DEF Queued
<1>7. \A i \in Nat, t \in Tasks : Queued(p, i, t)' <=> i # 0 /\ Queued(p, i + 1, t)
  BY <1>1, <1>2, <1>3 DEF Queued
<1>8. \A q \in Proxies, i \in Nat, t \in Tasks :
         q # p => (Queued(q, i, t)' <=> Queued(q, i, t))
  BY <1>4 DEF Queued
<1> QED BY <1>1, <1>2, <1>3, <1>4, <1>5, <1>6, <1>7, <1>8

\* A drained queue is empty, and every task that was in it is drained.
LEMMA Emptied ==
    ASSUME queue \in [Proxies -> Seq(SUBSET Tasks)], NEW p \in Proxies,
           queue' = [queue EXCEPT ![p] = <<>>]
    PROVE  /\ queue' \in [Proxies -> Seq(SUBSET Tasks)]
           /\ \A q \in Proxies : q # p => queue'[q] = queue[q]
           /\ Len(queue[p]) \in Nat /\ Len(queue'[p]) = 0
           /\ Drained(p) \in SUBSET Tasks
           /\ \A t : t \in Drained(p) <=> \E i \in Nat : Queued(p, i, t)
           /\ \A q \in Proxies, i \in Nat, t \in Tasks :
                 Queued(q, i, t)' <=> q # p /\ Queued(q, i, t)
<1>1. queue[p] \in Seq(SUBSET Tasks) /\ queue'[p] = <<>>  OBVIOUS
<1>2. Len(queue[p]) \in Nat  BY <1>1, LenProperties
<1>3. <<>> \in Seq(SUBSET Tasks) /\ Len(<<>>) = 0  BY EmptySeq
<1>4. queue' \in [Proxies -> Seq(SUBSET Tasks)]  BY <1>1, <1>3
<1>5. \A q \in Proxies : q # p => queue'[q] = queue[q]  OBVIOUS
<1>6. \A i \in 1 .. Len(queue[p]) : queue[p][i] \in SUBSET Tasks
  BY <1>1, ElementOfSeq
<1>7. \A t : t \in Drained(p) <=> \E i \in Nat : Queued(p, i, t)
  BY <1>2 DEF Drained, Queued
<1>8. Drained(p) \in SUBSET Tasks  BY <1>6 DEF Drained
<1>9. \A q \in Proxies, i \in Nat, t \in Tasks :
         Queued(q, i, t)' <=> q # p /\ Queued(q, i, t)
  BY <1>1, <1>3, <1>5 DEF Queued
<1> QED BY <1>1, <1>2, <1>3, <1>4, <1>5, <1>7, <1>8, <1>9

\* Only tasks are queued.
LEMMA QueuedTasks ==
    ASSUME queue \in [Proxies -> Seq(SUBSET Tasks)]
    PROVE  \A p \in Proxies, i \in Nat : \A t : Queued(p, i, t) => t \in Tasks
BY ElementOfSeq DEF Queued

-----------------------------------------------------------------------------
(* The scheduler's and the settling threads' own records                   *)

\* The scheduler has dealt with a group.
LEMMA GroupDoneFacts ==
    ASSUME sched \in SchedStates, NEW g, GroupDone(g), g \subseteq sched.batch
    PROVE  /\ sched' \in SchedStates /\ sched'.pc \in {"idle", "select"}
           /\ sched'.batch = sched.batch \ g
           /\ sched'.pc = "idle" => sched'.batch = {}
           /\ sched'.group = {} /\ sched'.untried = {}
<1>1. CASE sched.batch = g
  BY <1>1 DEF GroupDone, SchedIdle, SchedStates
<1>2. CASE sched.batch # g
  BY <1>2 DEF GroupDone, SchedIdle, SchedStates
<1> QED BY <1>1, <1>2

\* A thread has dealt with a task.
LEMMA SettledFacts ==
    ASSUME batch \in [Threads -> SUBSET Tasks], pc \in [Threads -> ProxyPC],
           handoff \in [Threads -> Handoffs],
           NEW th \in Threads, NEW t, Settled(th, t)
    PROVE  /\ batch' \in [Threads -> SUBSET Tasks] /\ pc' \in [Threads -> ProxyPC]
           /\ handoff' \in [Threads -> Handoffs]
           /\ pc'[th] \in {"idle", "settle"}
           /\ batch'[th] = batch[th] \ {t}
           /\ pc'[th] = "idle" => batch'[th] = {}
           /\ handoff'[th].idle = {} /\ handoff'[th].busy = {}
           /\ \A h \in Threads : h # th => /\ batch'[h] = batch[h] /\ pc'[h] = pc[h]
                                            /\ handoff'[h] = handoff[h]
<1>1. NoHandoff \in Handoffs  BY DEF NoHandoff, Handoffs
<1>2. batch' \in [Threads -> SUBSET Tasks] /\ batch'[th] = batch[th] \ {t}
  BY DEF Settled
<1>3. /\ pc' \in [Threads -> ProxyPC] /\ pc'[th] \in {"idle", "settle"}
      /\ pc'[th] = "idle" => batch[th] = {t}
  BY DEF Settled, ProxyPC
<1>4. /\ handoff' \in [Threads -> Handoffs] /\ handoff'[th] = NoHandoff
  BY <1>1 DEF Settled
<1>5. \A h \in Threads : h # th => /\ batch'[h] = batch[h] /\ pc'[h] = pc[h]
                                   /\ handoff'[h] = handoff[h]
  BY DEF Settled
<1> QED BY <1>2, <1>3, <1>4, <1>5 DEF NoHandoff

\* A handoff whose candidates are replaced, or that has one candidate less.
LEMMA SplitFacts ==
    ASSUME handoff \in [Threads -> Handoffs], NEW th \in Threads,
           NEW I \in SUBSET Proxies, NEW B \in SUBSET Proxies,
           handoff' = [handoff EXCEPT ![th].idle = I, ![th].busy = B]
    PROVE  /\ handoff' \in [Threads -> Handoffs]
           /\ handoff'[th].task = handoff[th].task
           /\ handoff'[th].idle = I /\ handoff'[th].busy = B
           /\ \A h \in Threads : h # th => handoff'[h] = handoff[h]
<1>1. handoff[th] \in Handoffs  OBVIOUS
<1>2. handoff'[th] = [[handoff[th] EXCEPT !.idle = I] EXCEPT !.busy = B]  OBVIOUS
<1>3. /\ handoff'[th] \in Handoffs /\ handoff'[th].task = handoff[th].task
      /\ handoff'[th].idle = I /\ handoff'[th].busy = B
  BY <1>1, <1>2 DEF Handoffs
<1>4. \A h \in Threads : h # th => handoff'[h] = handoff[h]  OBVIOUS
<1>5. handoff' \in [Threads -> Handoffs]  BY <1>3, <1>4
<1> QED BY <1>3, <1>4, <1>5

LEMMA RefusedFacts ==
    ASSUME handoff \in [Threads -> Handoffs], NEW th \in Threads, NEW p,
           handoff' = [handoff EXCEPT ![th].idle = @ \ {p}, ![th].busy = @ \ {p}]
    PROVE  /\ handoff' \in [Threads -> Handoffs]
           /\ handoff'[th].task = handoff[th].task
           /\ handoff'[th].idle = handoff[th].idle \ {p}
           /\ handoff'[th].busy = handoff[th].busy \ {p}
           /\ \A h \in Threads : h # th => handoff'[h] = handoff[h]
<1>1. handoff[th] \in Handoffs  OBVIOUS
<1>2. handoff'[th] = [[handoff[th] EXCEPT !.idle = @ \ {p}] EXCEPT !.busy = @ \ {p}]
  OBVIOUS
<1>3. /\ handoff'[th] \in Handoffs /\ handoff'[th].task = handoff[th].task
      /\ handoff'[th].idle = handoff[th].idle \ {p}
      /\ handoff'[th].busy = handoff[th].busy \ {p}
  BY <1>1, <1>2 DEF Handoffs
<1>4. \A h \in Threads : h # th => handoff'[h] = handoff[h]  OBVIOUS
<1>5. handoff' \in [Threads -> Handoffs]  BY <1>3, <1>4
<1> QED BY <1>3, <1>4, <1>5

LEMMA CodesKnown ==
    {"none", "deadline_exceeded", "overloaded", "transport_error", "cancelled"}
       \subseteq ErrorCodes
BY DEF ErrorCodes

-----------------------------------------------------------------------------
(* Type correctness                                                        *)

LEMMA InitTypes == Init => TypeOK
<1> SUFFICES ASSUME Init PROVE TypeOK  OBVIOUS
<1>1. NewTask \in TaskRecord  BY DEF NewTask, TaskRecord, Status, ErrorCodes
<1>2. NoHandoff \in Handoffs /\ SchedIdle \in SchedStates
  BY DEF NoHandoff, Handoffs, SchedIdle, SchedStates
<1>3. Stoppers \subseteq Threads /\ Proxies \subseteq Threads  BY DEF Threads
<1>4. <<>> \in Seq(SUBSET Tasks) /\ <<>> \in Seq(WorkerIds)  BY EmptySeq
<1> QED BY <1>1, <1>2, <1>3, <1>4 DEF Init, NewProxies, TypeOK, ProxyPC, StopperPC

\* GrpcWorkerPool.submit.
LEMMA SubmitTypes ==
    ASSUME TypeOK, Holding, (\E S \in SUBSET fresh : PoolSubmit(S)) \/ SchedulerStep
    PROVE  TypeOK'
<1> USE DEF poolVars, threadVars, taskVars, clientVars
<1>0. sched \in SchedStates /\ sched.batch \in SUBSET Tasks /\ sched.group \in SUBSET Tasks
  BY DEF TypeOK, SchedStates
<1>1. CASE \E S \in SUBSET fresh : PoolSubmit(S)
  <2>1. fresh' \subseteq Tasks /\ sched' \in SchedStates
    BY <1>0, <1>1 DEF TypeOK, PoolSubmit, SchedStates
  <2> QED BY <1>1, <2>1 DEF TypeOK, PoolSubmit
<1>2. CASE \E k \in Kinds : Select(k)
  <2>1. PICK k \in Kinds : Select(k)  BY <1>2
  <2>2. GroupOf(k) \subseteq sched.batch  BY DEF GroupOf
  <2>3. CASE task' = FailAll(GroupOf(k), "overloaded") /\ GroupDone(GroupOf(k))
    BY <1>0, <2>1, <2>2, <2>3, GroupDoneFacts, FailAllFacts, CodesKnown DEF TypeOK, Select
  <2>4. CASE UNCHANGED task /\ \E p \in members :
               sched' = [sched EXCEPT !.pc = "submit", !.group = GroupOf(k), !.target = p]
    <3>1. sched' \in SchedStates  BY <1>0, <2>2, <2>4 DEF TypeOK, SchedStates
    <3> QED BY <2>1, <2>4, <3>1 DEF TypeOK, Select
  <2> QED BY <2>1, <2>3, <2>4 DEF Select, ReadyFor
<1>3. CASE SubmitChosen
  <2>1. CASE Enqueue(sched.target, sched.group) /\ GroupDone(sched.group)
    BY <1>0, <1>3, <2>1, GroupDoneFacts, Enqueued DEF TypeOK, SubmitChosen, Holding
  <2>2. CASE sched' = [sched EXCEPT !.pc = "relock"] /\ UNCHANGED queue
    <3>1. sched' \in SchedStates  BY <1>0, <2>2 DEF SchedStates
    <3> QED BY <1>3, <2>2, <3>1 DEF TypeOK, SubmitChosen
  <2> QED BY <1>3, <2>1, <2>2 DEF SubmitChosen
<1>4. CASE Relock
  <2>1. sched' \in SchedStates  BY <1>0, <1>4 DEF Relock, TypeOK, SchedStates
  <2> QED BY <1>4, <2>1 DEF TypeOK, Relock
<1>5. CASE \E p \in Proxies : FallbackTry(p)
  <2>1. PICK p \in Proxies : FallbackTry(p)  BY <1>5
  <2>2. CASE Enqueue(p, sched.group) /\ GroupDone(sched.group)
    BY <1>0, <2>1, <2>2, GroupDoneFacts, Enqueued DEF TypeOK, FallbackTry, Holding
  <2>3. CASE sched' = [sched EXCEPT !.untried = @ \ {p}] /\ UNCHANGED queue
    <3>1. sched' \in SchedStates  BY <1>0, <2>3 DEF SchedStates
    <3> QED BY <2>1, <2>3, <3>1 DEF TypeOK, FallbackTry
  <2> QED BY <2>1, <2>2, <2>3 DEF FallbackTry
<1>6. CASE FallbackFail
  BY <1>0, <1>6, GroupDoneFacts, FailAllFacts, CodesKnown DEF TypeOK, FallbackFail, Holding
<1> QED BY <1>1, <1>2, <1>3, <1>4, <1>5, <1>6 DEF SchedulerStep

\* GrpcWorker._loop and _process.
LEMMA DispatchTypes ==
    ASSUME TypeOK, NEW p \in Proxies, DispatchStep(p) \/ RpcEnds(p)
    PROVE  TypeOK'
<1> USE DEF poolVars, threadVars, taskVars, clientVars
<1>0. p \in Threads /\ p \notin Stoppers  BY PoolAssumption DEF Threads
<1>i. ASSUME Idle(p)
      PROVE  /\ pc' \in [Threads -> ProxyPC] /\ batch' \in [Threads -> SUBSET Tasks]
             /\ \A th \in Stoppers : pc'[th] \in StopperPC
  BY <1>0, <1>i DEF Idle, TypeOK, ProxyPC, Threads
<1>s. ASSUME NEW x \in BOOLEAN, SettleBatch(p, x)
      PROVE  /\ pc' \in [Threads -> ProxyPC] /\ batch' \in [Threads -> SUBSET Tasks]
             /\ \A th \in Stoppers : pc'[th] \in StopperPC
             /\ allow' \in [Threads -> BOOLEAN]
  BY <1>0, <1>s DEF SettleBatch, TypeOK, ProxyPC, Threads
<1>1. CASE Pop(p)
  <2> DEFINE popped == Head(queue[p])
             active == {t \in popped : ~Terminal(task[t]) /\ t \notin expired}
  <2>1. queue' \in [Proxies -> Seq(SUBSET Tasks)] /\ popped \in SUBSET Tasks
    BY <1>1, Dequeued DEF Pop, TypeOK
  <2>2. task' \in [Tasks -> TaskRecord]
    BY <1>1, FailAllFacts, CodesKnown DEF Pop, TypeOK
  <2>3. /\ pc' = [pc EXCEPT ![p] = IF active = {} THEN "idle" ELSE "start"]
        /\ batch' = [batch EXCEPT ![p] = active]
    BY <1>1 DEF Pop
  <2>4. active \in SUBSET Tasks  BY <2>1
  <2> HIDE DEF active
  <2>5. /\ pc' \in [Threads -> ProxyPC] /\ batch' \in [Threads -> SUBSET Tasks]
        /\ \A th \in Stoppers : pc'[th] \in StopperPC
    BY <1>0, <2>3, <2>4 DEF TypeOK, ProxyPC, Threads
  <2> QED BY <1>1, <2>1, <2>2, <2>5 DEF Pop, TypeOK
<1>2. CASE Start(p)
  <2>1. CASE SettleBatch(p, stop[p] = "retire") /\ UNCHANGED task
    <3>1. (stop[p] = "retire") \in BOOLEAN  OBVIOUS
    <3> QED BY <1>2, <1>s, <2>1, <3>1 DEF Start, TypeOK
  <2>2. CASE /\ task' = [t \in Tasks |-> IF t \in batch[p] THEN MarkProcessing(task[t]) ELSE task[t]]
             /\ pc' = [pc EXCEPT ![p] = "send"]
             /\ UNCHANGED <<batch, allow>>
    <3>1. task' \in [Tasks -> TaskRecord]  BY <2>2, MarkFacts, CodesKnown DEF TypeOK
    <3>2. pc' \in [Threads -> ProxyPC] /\ \A th \in Stoppers : pc'[th] \in StopperPC
      BY <1>0, <2>2 DEF TypeOK, ProxyPC, Threads
    <3> QED BY <1>2, <2>2, <3>1, <3>2 DEF Start, TypeOK
  <2> QED BY <1>2, <2>1, <2>2 DEF Start
<1>3. CASE Send(p)
  <2>1. CASE /\ task' = FailAll(batch[p], "deadline_exceeded") /\ Idle(p)
             /\ UNCHANGED <<allow, sent>>
    BY <1>3, <1>i, <2>1, FailAllFacts, CodesKnown DEF Send, TypeOK
  <2>2. CASE SettleBatch(p, stop[p] = "retire") /\ UNCHANGED <<task, sent>>
    <3>1. (stop[p] = "retire") \in BOOLEAN  OBVIOUS
    <3> QED BY <1>3, <1>s, <2>2, <3>1 DEF Send, TypeOK
  <2>3. CASE /\ sent' = [t \in Tasks |-> IF t \in batch[p] THEN Append(sent[t], WorkerOf[p])
                                          ELSE sent[t]]
             /\ pc' = [pc EXCEPT ![p] = "rpc"] /\ UNCHANGED <<task, batch, allow>>
    <3>1. WorkerOf[p] \in WorkerIds  BY PoolAssumption
    <3>2. sent' \in [Tasks -> Seq(WorkerIds)]  BY <2>3, <3>1, AppendProperties DEF TypeOK
    <3>3. pc' \in [Threads -> ProxyPC] /\ \A th \in Stoppers : pc'[th] \in StopperPC
      BY <1>0, <2>3 DEF TypeOK, ProxyPC, Threads
    <3> QED BY <1>3, <2>3, <3>2, <3>3 DEF Send, TypeOK
  <2> QED BY <1>3, <2>1, <2>2, <2>3 DEF Send
<1>4. CASE RpcDeadline(p)
  BY <1>4, <1>i, FailAllFacts, CodesKnown DEF RpcDeadline, TypeOK
<1>5. CASE RpcReply(p)
  <2>1. PICK r \in [batch[p] -> Results] :
          /\ task' = [t \in Tasks |-> IF t \in batch[p] THEN ApplyResult(task[t], r[t], Kind[t])
                                       ELSE task[t]]
          /\ omitted' = omitted \cup
                {t \in batch[p] : r[t] = "omitted" /\ Kind[t] \notin NonRetryKinds}
    BY <1>5 DEF RpcReply
  <2>2. task' \in [Tasks -> TaskRecord]  BY <2>1, ReplyFacts DEF TypeOK
  <2>3. omitted' \subseteq Tasks  BY <1>0, <2>1 DEF TypeOK
  <2> QED BY <1>5, <1>i, <2>2, <2>3 DEF RpcReply, TypeOK
<1>6. CASE \E code \in RpcCodes : RpcError(p, code)
  <2>1. PICK code \in RpcCodes : RpcError(p, code)  BY <1>6
  <2>2. RetryAllowed(p, code) \in BOOLEAN  BY DEF RetryAllowed
  <2> QED BY <1>s, <2>1, <2>2 DEF RpcError, TypeOK
<1> QED BY <1>1, <1>2, <1>3, <1>4, <1>5, <1>6 DEF DispatchStep, RpcEnds

\* A thread keeps a pc of its own kind when it is idle, settling or handing off.
LEMMA StopperKeeps ==
    ASSUME TypeOK, NEW th \in Threads, pc'[th] \in StopperPC,
           \A h \in Threads : h # th => pc'[h] = pc[h]
    PROVE  \A h \in Stoppers : pc'[h] \in StopperPC
BY DEF TypeOK, Threads

\* The candidates of a handoff are members.
LEMMA CandidateTypes ==
    ASSUME TypeOK, NEW th, NEW t PROVE Candidates(th, t) \in SUBSET Proxies
BY DEF TypeOK, Candidates

\* _finish_or_retry and try_resubmit.
LEMMA SettleTypes ==
    ASSUME TypeOK, Holding, NEW th \in Threads, SettleStep(th)
    PROVE  TypeOK'
<1> USE DEF poolVars, threadVars, taskVars, clientVars
<1>f. ASSUME NEW t \in Tasks, NEW code \in ErrorCodes,
             task' = [task EXCEPT ![t] = MarkFailed(@, code)]
      PROVE  task' \in [Tasks -> TaskRecord]
  BY <1>f, MarkFacts DEF TypeOK
<1>d. ASSUME NEW t, Settled(th, t)
      PROVE  /\ batch' \in [Threads -> SUBSET Tasks] /\ pc' \in [Threads -> ProxyPC]
             /\ handoff' \in [Threads -> Handoffs]
             /\ \A h \in Stoppers : pc'[h] \in StopperPC
  <2>1. /\ batch' \in [Threads -> SUBSET Tasks] /\ pc' \in [Threads -> ProxyPC]
        /\ handoff' \in [Threads -> Handoffs] /\ pc'[th] \in {"idle", "settle"}
        /\ \A h \in Threads : h # th => pc'[h] = pc[h]
    BY <1>d, SettledFacts DEF TypeOK
  <2>2. pc'[th] \in StopperPC  BY <2>1 DEF StopperPC
  <2>3. \A h \in Stoppers : pc'[h] \in StopperPC  BY <2>1, <2>2, StopperKeeps
  <2> QED BY <2>1, <2>3
<1>1. CASE Settle(th)
  <2>1. PICK t \in batch[th] : FinishDirectly(th, t) \/ FindCandidates(th, t)
    BY <1>1 DEF Settle
  <2>2. t \in Tasks  BY <2>1 DEF TypeOK
  <2>3. CASE FinishDirectly(th, t)
    <3>1. task' \in [Tasks -> TaskRecord]
      BY <1>f, <2>2, <2>3, CodesKnown DEF FinishDirectly, FailedFinally, TypeOK
    <3> QED BY <1>1, <1>d, <2>3, <3>1 DEF Settle, FinishDirectly, TypeOK
  <2>4. CASE FailedFinally(t) /\ Settled(th, t)
    <3>1. task' \in [Tasks -> TaskRecord]
      BY <1>f, <2>2, <2>4, CodesKnown DEF FailedFinally
    <3> QED BY <1>1, <1>d, <2>4, <3>1 DEF Settle, TypeOK
  <2>5. CASE /\ pc' = [pc EXCEPT ![th] = "reserve"]
             /\ handoff' = [handoff EXCEPT ![th] =
                   [task |-> t, idle |-> Candidates(th, t), busy |-> {}]]
             /\ UNCHANGED <<task, batch>>
    <3>1. [task |-> t, idle |-> Candidates(th, t), busy |-> {}] \in Handoffs
      BY <2>2, CandidateTypes DEF Handoffs
    <3>2. pc' \in [Threads -> ProxyPC] /\ handoff' \in [Threads -> Handoffs]
      BY <2>5, <3>1 DEF TypeOK, ProxyPC
    <3>3. \A h \in Stoppers : pc'[h] \in StopperPC
      BY <2>5, StopperKeeps DEF TypeOK, StopperPC
    <3> QED BY <1>1, <2>5, <3>2, <3>3 DEF Settle, TypeOK
  <2> QED BY <2>1, <2>3, <2>4, <2>5 DEF FindCandidates
<1>2. CASE Reserve(th)
  <2> DEFINE t == handoff[th].task
             cand == handoff[th].idle
  <2>0. t \in Tasks /\ cand \in SUBSET Proxies
    BY <1>2 DEF Reserve, TypeOK, Holding, Handoffs
  <2>1. CASE /\ CanReserve(task[t], t \in expired)
             /\ task' = [task EXCEPT ![t] = ReserveRetry(@)]
             /\ pc' = [pc EXCEPT ![th] = "try"]
             /\ handoff' = [handoff EXCEPT ![th].idle = {p \in cand : ~Busy(p)},
                                           ![th].busy = {p \in cand : Busy(p)}]
             /\ UNCHANGED batch
    <3>1. task' \in [Tasks -> TaskRecord]
      <4>1. (t \in expired) \in BOOLEAN  OBVIOUS
      <4> QED BY <2>0, <2>1, <4>1, ReserveFacts DEF TypeOK
    <3>2. pc' \in [Threads -> ProxyPC] /\ handoff' \in [Threads -> Handoffs]
      <4>1. {p \in cand : ~Busy(p)} \in SUBSET Proxies /\ {p \in cand : Busy(p)} \in SUBSET Proxies
        BY <2>0
      <4>2. handoff' \in [Threads -> Handoffs]  BY <2>1, <4>1, SplitFacts DEF TypeOK
      <4> QED BY <2>1, <4>2 DEF TypeOK, ProxyPC
    <3>3. \A h \in Stoppers : pc'[h] \in StopperPC
      BY <2>1, StopperKeeps DEF TypeOK, StopperPC
    <3> QED BY <1>2, <2>1, <3>1, <3>2, <3>3 DEF Reserve, TypeOK
  <2>2. CASE FailedFinally(t) /\ Settled(th, t)
    <3>1. task' \in [Tasks -> TaskRecord]
      BY <1>f, <2>0, <2>2, CodesKnown DEF FailedFinally
    <3> QED BY <1>2, <1>d, <2>2, <3>1 DEF Reserve, TypeOK
  <2> QED BY <1>2, <2>1, <2>2 DEF Reserve
<1>3. CASE TryNext(th)
  <2> DEFINE h == handoff[th]
  <2>0. h.task \in Tasks /\ h.idle \cup h.busy \in SUBSET Proxies
    BY <1>3 DEF TryNext, TypeOK, Holding, Handoffs
  <2>1. CASE FailedFinally(h.task) /\ Settled(th, h.task) /\ UNCHANGED queue
    <3>1. task' \in [Tasks -> TaskRecord]
      BY <1>f, <2>0, <2>1, CodesKnown DEF FailedFinally
    <3> QED BY <1>3, <1>d, <2>1, <3>1 DEF TryNext, TypeOK
  <2>2. ASSUME NEW p \in h.idle \cup h.busy,
               Enqueue(p, {h.task}), Settled(th, h.task), UNCHANGED task
        PROVE  TypeOK'
    <3>1. queue' \in [Proxies -> Seq(SUBSET Tasks)]
      BY <2>0, <2>2, Enqueued DEF TypeOK
    <3> QED BY <1>3, <1>d, <2>2, <3>1 DEF TryNext, TypeOK
  <2>3. ASSUME NEW p \in h.idle \cup h.busy,
               handoff' = [handoff EXCEPT ![th].idle = @ \ {p}, ![th].busy = @ \ {p}],
               UNCHANGED <<task, queue, pc, batch>>
        PROVE  TypeOK'
    <3>1. handoff' \in [Threads -> Handoffs]  BY <2>3, RefusedFacts DEF TypeOK
    <3> QED BY <1>3, <2>3, <3>1 DEF TryNext, TypeOK
  <2> QED BY <1>3, <2>1, <2>2, <2>3 DEF TryNext
<1> QED BY <1>1, <1>2, <1>3 DEF SettleStep

\* Membership, shutdown, the clock and the request handlers.
LEMMA OtherTypes ==
    ASSUME TypeOK,
           \/ \E s \in Snapshots : UpdateWorkers(s.up, s.drain)
           \/ PoolStop
           \/ \E th \in Stoppers, p \in Proxies : StopProxy(th, p)
           \/ \E t \in Tasks : Expire(t) \/ ApiDeadline(t) \/ Abandon(t)
    PROVE  TypeOK'
<1> USE DEF poolVars, threadVars, taskVars, clientVars
<1>1. CASE \E s \in Snapshots : UpdateWorkers(s.up, s.drain)
  <2>1. PICK s \in Snapshots : UpdateWorkers(s.up, s.drain)  BY <1>1
  <2>2. members' \subseteq Proxies  BY <2>1 DEF UpdateWorkers, Unborn, TypeOK
  <2>3. routing' \in [Proxies -> {"READY", "DRAINING"}]  BY <2>1 DEF UpdateWorkers, TypeOK
  <2>4. stop' \in [Proxies -> {"running", "retire", "shutdown"}]
    BY <2>1 DEF UpdateWorkers, BeginStop, TypeOK
  <2>5. retire' \in [Stoppers -> SUBSET Proxies] /\ updates' \in Nat
    <3>1. {p \in members : WorkerOf[p] \notin s.up} \in SUBSET Proxies  BY DEF TypeOK
    <3>2. retire' = [retire EXCEPT ![Discovery] = {p \in members : WorkerOf[p] \notin s.up}]
      BY <2>1 DEF UpdateWorkers
    <3>3. retire' \in [Stoppers -> SUBSET Proxies]  BY <3>1, <3>2 DEF TypeOK
    <3>4. updates' \in Nat  BY <2>1 DEF UpdateWorkers, TypeOK
    <3> QED BY <3>3, <3>4
  <2> QED BY <2>1, <2>2, <2>3, <2>4, <2>5 DEF UpdateWorkers, TypeOK
<1>2. CASE PoolStop
  <2>1. stop' \in [Proxies -> {"running", "retire", "shutdown"}]
    BY <1>2 DEF PoolStop, BeginStop, TypeOK
  <2> QED BY <1>2, <2>1 DEF PoolStop, TypeOK
<1>3. CASE \E th \in Stoppers, p \in Proxies : StopProxy(th, p)
  <2>1. PICK th \in Stoppers, p \in Proxies : StopProxy(th, p)  BY <1>3
  <2>0. th \in Threads  BY DEF Threads
  <2>2. queue' \in [Proxies -> Seq(SUBSET Tasks)] /\ Drained(p) \in SUBSET Tasks
    BY <2>1, Emptied DEF StopProxy, TypeOK
  <2>3. pc'[th] \in {"idle", "settle"} /\ pc' \in [Threads -> ProxyPC]
    BY <2>0, <2>1 DEF StopProxy, TypeOK, ProxyPC
  <2>4. \A h \in Stoppers : pc'[h] \in StopperPC
    BY <2>0, <2>1, <2>3, StopperKeeps DEF StopProxy, TypeOK, StopperPC
  <2>5. batch' \in [Threads -> SUBSET Tasks] /\ allow' \in [Threads -> BOOLEAN]
    BY <2>0, <2>1, <2>2 DEF StopProxy, TypeOK
  <2> QED BY <2>1, <2>2, <2>3, <2>4, <2>5 DEF StopProxy, TypeOK
<1>4. CASE \E t \in Tasks : Expire(t)  BY <1>4 DEF Expire, TypeOK
<1>5. CASE \E t \in Tasks : ApiDeadline(t) \/ Abandon(t)
  <2>0. PICK t \in Tasks : ApiDeadline(t) \/ Abandon(t)  BY <1>5
  <2>1. task' \in [Tasks -> TaskRecord]
    <3>1. PICK code \in ErrorCodes : task' = [task EXCEPT ![t] = MarkFailed(@, code)]
      BY <2>0, CodesKnown DEF ApiDeadline, Abandon
    <3> QED BY <3>1, MarkFacts DEF TypeOK
  <2> QED BY <1>5, <2>1 DEF ApiDeadline, Abandon, TypeOK
<1> QED BY <1>1, <1>2, <1>3, <1>4, <1>5

-----------------------------------------------------------------------------
(* Where the tasks are                                                     *)

\* Nobody gets a task.
LEMMA OwnerShrinks ==
    ASSUME Owner, fresh' \subseteq fresh, sched'.batch \subseteq sched.batch,
           \A th \in Threads : batch'[th] \subseteq batch[th], queue' = queue
    PROVE  Owner'
<1>1. \A p \in Proxies, i \in Nat, t \in Tasks : Queued(p, i, t)' <=> Queued(p, i, t)
  BY DEF Queued
<1> QED BY <1>1 DEF Owner

\* A batch of tasks that nobody else holds is queued.
LEMMA OwnerEnqueued ==
    ASSUME TypeOK, Owner, NEW p \in Proxies, NEW b \in SUBSET Tasks, Enqueue(p, b),
           fresh' = fresh, sched'.batch \subseteq sched.batch,
           \A th \in Threads : batch'[th] \subseteq batch[th],
           \A t \in b : /\ t \notin fresh \cup sched'.batch
                        /\ \A th \in Threads : t \notin batch'[th]
                        /\ \A q \in Proxies, i \in Nat : ~Queued(q, i, t)
    PROVE  Owner'
<1>1. /\ Len(queue[p]) \in Nat
      /\ \A q \in Proxies, i \in Nat, t \in Tasks :
                 Queued(q, i, t)' <=>
                    Queued(q, i, t) \/ (q = p /\ i = Len(queue[p]) + 1 /\ t \in b)
  BY Enqueued DEF TypeOK
<1> QED BY <1>1 DEF Owner

LEMMA SubmitPlaces ==
    ASSUME Places, (\E S \in SUBSET fresh : PoolSubmit(S)) \/ SchedulerStep
    PROVE  Places'
<1> USE DEF poolVars, threadVars, taskVars, clientVars
<1>t. TypeOK /\ Holding /\ Owner /\ TypeOK'  BY SubmitTypes DEF Places
<1>0. sched \in SchedStates /\ sched.batch \in SUBSET Tasks /\ sched.group \in SUBSET Tasks
  BY <1>t DEF TypeOK, SchedStates
<1>k. ASSUME batch' = batch, pc' = pc, handoff' = handoff,
             sched'.pc = "idle" => sched'.batch = {}, sched'.group \subseteq sched'.batch,
             sched'.pc \in {"submit", "relock", "fallback"} => sched'.target \in Proxies
      PROVE  Holding'
  BY <1>t, <1>k DEF Holding
<1>1. CASE \E S \in SUBSET fresh : PoolSubmit(S)
  <2>1. PICK S \in SUBSET fresh : PoolSubmit(S)  BY <1>1
  <2>2. sched'.pc = "select" /\ sched'.batch = S /\ sched'.group = sched.group
    BY <1>0, <2>1 DEF PoolSubmit, SchedStates
  <2>3. sched.batch = {} /\ sched.group = {}  BY <1>t, <2>1 DEF PoolSubmit, Holding
  <2>4. fresh' = fresh \ S /\ UNCHANGED <<batch, pc, handoff, queue>>
    BY <2>1 DEF PoolSubmit
  <2>5. Holding'  BY <1>k, <2>2, <2>3, <2>4
  <2>6. \A p \in Proxies, i \in Nat, t \in Tasks : Queued(p, i, t)' <=> Queued(p, i, t)
    BY <2>4 DEF Queued
  <2>7. Owner'  BY <1>t, <2>2, <2>3, <2>4, <2>6 DEF Owner
  <2> QED BY <1>t, <2>5, <2>7 DEF Places
<1>2. CASE \E k \in Kinds : Select(k)
  <2>1. PICK k \in Kinds : Select(k)  BY <1>2
  <2>2. GroupOf(k) \subseteq sched.batch  BY DEF GroupOf
  <2>3. UNCHANGED <<batch, pc, handoff, queue, fresh>>  BY <2>1 DEF Select
  <2>4. CASE GroupDone(GroupOf(k))
    <3>1. /\ sched'.batch \subseteq sched.batch /\ sched'.pc \in {"idle", "select"}
          /\ sched'.pc = "idle" => sched'.batch = {}
          /\ sched'.group = {}
      BY <1>0, <2>2, <2>4, GroupDoneFacts
    <3> QED BY <1>t, <1>k, <2>3, <3>1, OwnerShrinks DEF Places
  <2>5. CASE \E p \in members :
               sched' = [sched EXCEPT !.pc = "submit", !.group = GroupOf(k), !.target = p]
    <3>1. /\ sched'.batch = sched.batch /\ sched'.pc = "submit"
          /\ sched'.group = GroupOf(k) /\ sched'.target \in Proxies
      BY <1>0, <1>t, <2>5 DEF SchedStates, TypeOK
    <3> QED BY <1>t, <1>k, <2>2, <2>3, <3>1, OwnerShrinks DEF Places
  <2> QED BY <2>1, <2>4, <2>5 DEF Select, ReadyFor
<1>e. ASSUME NEW p \in Proxies, Enqueue(p, sched.group), GroupDone(sched.group),
             UNCHANGED <<batch, pc, handoff, fresh>>
      PROVE  Holding' /\ Owner'
  <2>1. /\ sched'.batch = sched.batch \ sched.group /\ sched'.pc \in {"idle", "select"}
        /\ sched'.pc = "idle" => sched'.batch = {}
        /\ sched'.group = {}
    BY <1>0, <1>t, <1>e, GroupDoneFacts DEF Holding
  <2>2. Holding'  BY <1>k, <1>e, <2>1
  <2>3. \A t \in sched.group : /\ t \notin fresh \cup sched'.batch
                               /\ \A th \in Threads : t \notin batch'[th]
                               /\ \A q \in Proxies, i \in Nat : ~Queued(q, i, t)
    BY <1>0, <1>t, <1>e, <2>1 DEF Owner, Holding
  <2>4. Owner'  BY <1>0, <1>t, <1>e, <2>1, <2>3, OwnerEnqueued
  <2> QED BY <2>2, <2>4
<1>3. CASE SubmitChosen
  <2>1. UNCHANGED <<batch, pc, handoff, fresh>> /\ sched.pc = "submit" /\ sched.target \in Proxies
    BY <1>t, <1>3 DEF SubmitChosen, Holding
  <2>2. CASE Enqueue(sched.target, sched.group) /\ GroupDone(sched.group)
    BY <1>t, <1>e, <2>1, <2>2 DEF Places
  <2>3. CASE sched' = [sched EXCEPT !.pc = "relock"] /\ UNCHANGED queue
    <3>1. /\ sched'.pc = "relock" /\ sched'.batch = sched.batch
          /\ sched'.group = sched.group /\ sched'.target = sched.target
      BY <1>0, <2>3 DEF SchedStates
    <3>2. Holding'  BY <1>t, <1>k, <2>1, <3>1 DEF Holding
    <3> QED BY <1>t, <2>1, <2>3, <3>1, <3>2, OwnerShrinks DEF Places
  <2> QED BY <1>3, <2>2, <2>3 DEF SubmitChosen
<1>4. CASE Relock
  <2>1. /\ sched'.pc = "fallback" /\ sched'.batch = sched.batch
        /\ sched'.group = sched.group /\ sched'.target = sched.target
    BY <1>0, <1>4 DEF Relock, SchedStates
  <2>2. UNCHANGED <<batch, pc, handoff, fresh, queue>> /\ sched.pc = "relock"
    BY <1>4 DEF Relock
  <2>3. Holding'  BY <1>t, <1>k, <2>1, <2>2 DEF Holding
  <2> QED BY <1>t, <2>1, <2>2, <2>3, OwnerShrinks DEF Places
<1>5. CASE \E p \in Proxies : FallbackTry(p)
  <2>1. PICK p \in Proxies : FallbackTry(p)  BY <1>5
  <2>2. UNCHANGED <<batch, pc, handoff, fresh>> /\ sched.pc = "fallback"
    BY <2>1 DEF FallbackTry
  <2>3. CASE Enqueue(p, sched.group) /\ GroupDone(sched.group)
    BY <1>t, <1>e, <2>2, <2>3 DEF Places
  <2>4. CASE sched' = [sched EXCEPT !.untried = @ \ {p}] /\ UNCHANGED queue
    <3>1. /\ sched'.pc = "fallback" /\ sched'.batch = sched.batch
          /\ sched'.group = sched.group /\ sched'.target = sched.target
      BY <1>0, <2>2, <2>4 DEF SchedStates
    <3>2. Holding'  BY <1>t, <1>k, <2>2, <3>1 DEF Holding
    <3> QED BY <1>t, <2>2, <2>4, <3>1, <3>2, OwnerShrinks DEF Places
  <2> QED BY <2>1, <2>3, <2>4 DEF FallbackTry
<1>6. CASE FallbackFail
  <2>1. /\ sched'.batch \subseteq sched.batch /\ sched'.pc \in {"idle", "select"}
        /\ sched'.pc = "idle" => sched'.batch = {}
        /\ sched'.group = {}
    BY <1>0, <1>t, <1>6, GroupDoneFacts DEF FallbackFail, Holding
  <2>2. UNCHANGED <<batch, pc, handoff, fresh, queue>>  BY <1>6 DEF FallbackFail
  <2> QED BY <1>t, <1>k, <2>1, <2>2, OwnerShrinks DEF Places
<1> QED BY <1>1, <1>2, <1>3, <1>4, <1>5, <1>6 DEF SchedulerStep

LEMMA DispatchPlaces ==
    ASSUME Places, NEW p \in Proxies, DispatchStep(p) \/ RpcEnds(p)
    PROVE  Places'
<1> USE DEF poolVars, threadVars, taskVars, clientVars
<1>t. TypeOK /\ Holding /\ Owner /\ TypeOK'  BY DispatchTypes DEF Places
<1>0. p \in Threads /\ p \notin Stoppers  BY PoolAssumption DEF Threads
<1>u. UNCHANGED <<sched, fresh, handoff>>
  BY DEF DispatchStep, RpcEnds, Pop, Start, Send, RpcDeadline, RpcReply, RpcError
<1>1. CASE Pop(p)
  <2> DEFINE active == {t \in Head(queue[p]) : ~Terminal(task[t]) /\ t \notin expired}
  <2>1. /\ pc' = [pc EXCEPT ![p] = IF active = {} THEN "idle" ELSE "start"]
        /\ batch' = [batch EXCEPT ![p] = active]
        /\ queue[p] # <<>> /\ queue' = [queue EXCEPT ![p] = Tail(@)]
    BY <1>1 DEF Pop
  <2>2. /\ \A t : t \in Head(queue[p]) <=> Queued(p, 1, t)
        /\ \A q \in Proxies, i \in Nat, t \in Tasks :
              Queued(q, i, t)' <=> IF q = p THEN i # 0 /\ Queued(p, i + 1, t)
                                   ELSE Queued(q, i, t)
    BY <1>t, <2>1, Dequeued DEF TypeOK
  <2>3. \A t \in active : Queued(p, 1, t)  BY <2>2
  <2> HIDE DEF active
  <2>4. /\ batch'[p] = active /\ \A th \in Threads : th # p => batch'[th] = batch[th]
        /\ \A th \in Threads : th # p => pc'[th] = pc[th]
        /\ pc'[p] \in {"idle", "start"} /\ (pc'[p] = "idle" => active = {})
    BY <1>t, <1>0, <2>1 DEF TypeOK
  <2>5. Holding'  BY <1>t, <1>u, <2>4 DEF Holding
  <2>6. \A i \in Nat : i # 0 => i + 1 \in Nat /\ i + 1 # 1  OBVIOUS
  <2>7. Owner'
    <3> SUFFICES ASSUME NEW t \in Tasks
                 PROVE  /\ t \in fresh => t \notin sched.batch
                        /\ \A th \in Threads : t \in batch'[th] => t \notin fresh \cup sched.batch
                        /\ \A th, th2 \in Threads : t \in batch'[th] /\ t \in batch'[th2] => th = th2
                        /\ \A q \in Proxies, i \in Nat : Queued(q, i, t)' =>
                              t \notin fresh \cup sched.batch /\ \A th \in Threads : t \notin batch'[th]
                        /\ \A q, r \in Proxies, i, j \in Nat :
                              Queued(q, i, t)' /\ Queued(r, j, t)' => q = r /\ i = j
      BY <1>u DEF Owner
    <3>1. CASE t \in active
      <4>1. Queued(p, 1, t)  BY <2>3, <3>1
      <4>2. \A q \in Proxies, i \in Nat : ~Queued(q, i, t)'
        BY <1>t, <2>2, <2>6, <4>1 DEF Owner
      <4> QED BY <1>t, <1>0, <2>4, <3>1, <4>1, <4>2 DEF Owner
    <3>2. CASE t \notin active
      <4>1. \A th \in Threads : t \in batch'[th] => t \in batch[th]  BY <2>4, <3>2
      <4>2. \A q \in Proxies, i \in Nat : Queued(q, i, t)' =>
               \E j \in Nat : Queued(q, j, t) /\ j = IF q = p THEN i + 1 ELSE i
        BY <2>2, <2>6
      <4>3. \A q, r \in Proxies, i, j \in Nat :
               Queued(q, i, t)' /\ Queued(r, j, t)' => q = r /\ i = j
        BY <1>t, <4>2 DEF Owner
      <4> QED BY <1>t, <4>1, <4>2, <4>3 DEF Owner
    <3> QED BY <3>1, <3>2
  <2> QED BY <1>t, <2>5, <2>7 DEF Places
<1>2. ASSUME queue' = queue, \A th \in Threads : batch'[th] \subseteq batch[th],
             \A th \in Threads : th # p => pc'[th] = pc[th],
             pc'[p] \notin {"reserve", "try"}, pc'[p] = "idle" => batch'[p] = {},
             \A th \in Threads : th # p => batch'[th] = batch[th]
      PROVE  Places'
  <2>1. Holding'  BY <1>t, <1>u, <1>2 DEF Holding
  <2>2. Owner'  BY <1>t, <1>u, <1>2, OwnerShrinks
  <2> QED BY <1>t, <2>1, <2>2 DEF Places
<1>i. ASSUME Idle(p), queue' = queue PROVE Places'
  <2>1. batch'[p] = {} /\ pc'[p] = "idle"  BY <1>t, <1>0, <1>i DEF Idle, TypeOK
  <2>2. \A th \in Threads : th # p => pc'[th] = pc[th] /\ batch'[th] = batch[th]
    BY <1>t, <1>i DEF Idle, TypeOK
  <2> QED BY <1>2, <1>i, <2>1, <2>2
<1>m. ASSUME NEW s \in {"settle", "send", "rpc"}, pc' = [pc EXCEPT ![p] = s],
             batch' = batch, queue' = queue
      PROVE  Places'
  <2>1. pc'[p] = s /\ \A th \in Threads : th # p => pc'[th] = pc[th]
    BY <1>t, <1>0, <1>m DEF TypeOK
  <2> QED BY <1>2, <1>m, <2>1
<1>3. CASE Start(p)  BY <1>3, <1>m DEF Start, SettleBatch
<1>4. CASE Send(p)  BY <1>4, <1>i, <1>m DEF Send, SettleBatch
<1>5. CASE RpcDeadline(p) \/ RpcReply(p)  BY <1>5, <1>i DEF RpcDeadline, RpcReply
<1>6. CASE \E code \in RpcCodes : RpcError(p, code)  BY <1>6, <1>m DEF RpcError, SettleBatch
<1> QED BY <1>1, <1>3, <1>4, <1>5, <1>6 DEF DispatchStep, RpcEnds

LEMMA SettlePlaces ==
    ASSUME Places, NEW th \in Threads, SettleStep(th)
    PROVE  Places'
<1> USE DEF poolVars, threadVars, taskVars, clientVars
<1>t. TypeOK /\ Holding /\ Owner /\ TypeOK'  BY SettleTypes DEF Places
<1>u. UNCHANGED <<sched, fresh>>  BY DEF SettleStep, Settle, Reserve, TryNext
<1>d. ASSUME NEW t, Settled(th, t)
      PROVE  /\ Holding' /\ t \notin batch'[th]
             /\ \A h \in Threads : batch'[h] \subseteq batch[h]
             /\ \A h \in Threads : h # th => batch'[h] = batch[h]
  <2>1. /\ pc'[th] \in {"idle", "settle"} /\ batch'[th] = batch[th] \ {t}
        /\ pc'[th] = "idle" => batch'[th] = {}
        /\ \A h \in Threads : h # th => /\ batch'[h] = batch[h] /\ pc'[h] = pc[h]
                                         /\ handoff'[h] = handoff[h]
    BY <1>t, <1>d, SettledFacts DEF TypeOK
  <2> QED BY <1>t, <1>u, <2>1 DEF Holding
<1>s. ASSUME NEW t, Settled(th, t), queue' = queue PROVE Places'
  <2>1. Holding' /\ \A h \in Threads : batch'[h] \subseteq batch[h]  BY <1>d, <1>s
  <2> QED BY <1>t, <1>u, <1>s, <2>1, OwnerShrinks DEF Places
<1>1. CASE Settle(th)
  <2>1. PICK t \in batch[th] : FinishDirectly(th, t) \/ FindCandidates(th, t)
    BY <1>1 DEF Settle
  <2>2. queue' = queue  BY <1>1 DEF Settle
  <2>3. CASE Settled(th, t)  BY <1>s, <2>2, <2>3
  <2>4. CASE /\ pc' = [pc EXCEPT ![th] = "reserve"]
             /\ handoff' = [handoff EXCEPT ![th] =
                   [task |-> t, idle |-> Candidates(th, t), busy |-> {}]]
             /\ UNCHANGED <<task, batch>>
    <3>1. /\ pc'[th] = "reserve" /\ handoff'[th].task = t
          /\ \A h \in Threads : h # th => pc'[h] = pc[h] /\ handoff'[h] = handoff[h]
      BY <1>t, <2>4 DEF TypeOK
    <3>2. Holding'  BY <1>t, <1>u, <2>1, <2>4, <3>1 DEF Holding
    <3>3. Owner'  BY <1>t, <1>u, <2>2, <2>4, OwnerShrinks
    <3> QED BY <1>t, <3>2, <3>3 DEF Places
  <2> QED BY <2>1, <2>3, <2>4 DEF FinishDirectly, FindCandidates
<1>2. CASE Reserve(th)
  <2>0. queue' = queue /\ handoff[th].task \in batch[th]
    BY <1>t, <1>2 DEF Reserve, Holding
  <2>1. CASE /\ pc' = [pc EXCEPT ![th] = "try"]
             /\ handoff' = [handoff EXCEPT ![th].idle = {p \in handoff[th].idle : ~Busy(p)},
                                           ![th].busy = {p \in handoff[th].idle : Busy(p)}]
             /\ UNCHANGED batch
    <3>1. {p \in handoff[th].idle : ~Busy(p)} \in SUBSET Proxies
          /\ {p \in handoff[th].idle : Busy(p)} \in SUBSET Proxies
      BY <1>t DEF TypeOK, Handoffs
    <3>h. handoff \in [Threads -> Handoffs]  BY <1>t DEF TypeOK
    <3>2. /\ handoff'[th].task = handoff[th].task
          /\ \A h \in Threads : h # th => handoff'[h] = handoff[h]
      BY <2>1, <3>h, <3>1, SplitFacts, ZenonT(40)
    <3>3. pc'[th] = "try" /\ \A h \in Threads : h # th => pc'[h] = pc[h]
      BY <1>t, <2>1 DEF TypeOK
    <3>4. Holding'  BY <1>t, <1>u, <2>0, <2>1, <3>2, <3>3 DEF Holding
    <3>5. Owner'  BY <1>t, <1>u, <2>0, <2>1, OwnerShrinks
    <3> QED BY <1>t, <3>4, <3>5 DEF Places
  <2>2. CASE Settled(th, handoff[th].task)  BY <1>s, <2>0, <2>2
  <2> QED BY <1>2, <2>1, <2>2 DEF Reserve
<1>3. CASE TryNext(th)
  <2> DEFINE t == handoff[th].task
  <2>0. t \in batch[th] /\ t \in Tasks /\ pc[th] = "try"
        /\ handoff[th].idle \cup handoff[th].busy \in SUBSET Proxies
    BY <1>t, <1>3 DEF TryNext, Holding, TypeOK, Handoffs
  <2>1. CASE Settled(th, t) /\ UNCHANGED queue  BY <1>s, <2>1
  <2>2. ASSUME NEW p \in Proxies, Enqueue(p, {t}), Settled(th, t) PROVE Places'
    <3>1. /\ Holding' /\ t \notin batch'[th]
          /\ \A h \in Threads : batch'[h] \subseteq batch[h]
          /\ \A h \in Threads : h # th => batch'[h] = batch[h]
      BY <1>d, <2>2
    <3>2. /\ t \notin fresh \cup sched'.batch
          /\ \A h \in Threads : t \notin batch'[h]
          /\ \A q \in Proxies, i \in Nat : ~Queued(q, i, t)
      BY <1>t, <1>u, <2>0, <3>1 DEF Owner
    <3>3. {t} \in SUBSET Tasks  BY <2>0
    <3>4. Owner'  BY <1>t, <1>u, <2>2, <3>1, <3>2, <3>3, OwnerEnqueued
    <3> QED BY <1>t, <3>1, <3>4 DEF Places
  <2>3. ASSUME NEW p,
               handoff' = [handoff EXCEPT ![th].idle = @ \ {p}, ![th].busy = @ \ {p}],
               UNCHANGED <<task, queue, pc, batch>>
        PROVE  Places'
    <3>1. /\ handoff'[th].task = handoff[th].task
          /\ \A h \in Threads : h # th => handoff'[h] = handoff[h]
      BY <1>t, <2>3, RefusedFacts DEF TypeOK
    <3>2. Holding'  BY <1>t, <1>u, <2>3, <3>1 DEF Holding
    <3>3. Owner'  BY <1>t, <1>u, <2>3, OwnerShrinks
    <3> QED BY <1>t, <3>2, <3>3 DEF Places
  <2> QED BY <1>3, <2>0, <2>1, <2>2, <2>3 DEF TryNext
<1> QED BY <1>1, <1>2, <1>3 DEF SettleStep

LEMMA OtherPlaces ==
    ASSUME Places,
           \/ \E s \in Snapshots : UpdateWorkers(s.up, s.drain)
           \/ PoolStop
           \/ \E th \in Stoppers, p \in Proxies : StopProxy(th, p)
           \/ \E t \in Tasks : Expire(t) \/ ApiDeadline(t) \/ Abandon(t)
    PROVE  Places'
<1> USE DEF poolVars, threadVars, taskVars, clientVars
<1>t. TypeOK /\ Holding /\ Owner /\ TypeOK'  BY OtherTypes DEF Places
<1>1. CASE \E th \in Stoppers, p \in Proxies : StopProxy(th, p)
  <2>1. PICK th \in Stoppers, p \in Proxies : StopProxy(th, p)  BY <1>1
  <2>0. th \in Threads  BY DEF Threads
  <2>2. UNCHANGED <<sched, fresh, handoff>>  BY <2>1 DEF StopProxy
  <2>3. /\ \A t : t \in Drained(p) <=> \E i \in Nat : Queued(p, i, t)
        /\ \A q \in Proxies, i \in Nat, t \in Tasks :
              Queued(q, i, t)' <=> q # p /\ Queued(q, i, t)
    BY <1>t, <2>1, Emptied DEF StopProxy, TypeOK
  <2>4. /\ batch[th] = {} /\ batch'[th] = Drained(p)
        /\ \A h \in Threads : h # th => batch'[h] = batch[h] /\ pc'[h] = pc[h]
        /\ pc'[th] \in {"idle", "settle"} /\ (pc'[th] = "idle" => Drained(p) = {})
    BY <1>t, <2>0, <2>1 DEF StopProxy, TypeOK, Holding
  <2>5. Holding'  BY <1>t, <2>0, <2>2, <2>4 DEF Holding
  <2>6. Owner'
    <3> SUFFICES ASSUME NEW t \in Tasks
                 PROVE  /\ t \in fresh => t \notin sched.batch
                        /\ \A h \in Threads : t \in batch'[h] => t \notin fresh \cup sched.batch
                        /\ \A h, h2 \in Threads : t \in batch'[h] /\ t \in batch'[h2] => h = h2
                        /\ \A q \in Proxies, i \in Nat : Queued(q, i, t)' =>
                              t \notin fresh \cup sched.batch /\ \A h \in Threads : t \notin batch'[h]
                        /\ \A q, r \in Proxies, i, j \in Nat :
                              Queued(q, i, t)' /\ Queued(r, j, t)' => q = r /\ i = j
      BY <2>2 DEF Owner
    <3>1. CASE t \in Drained(p)
      <4>1. PICK i \in Nat : Queued(p, i, t)  BY <2>3, <3>1
      <4>2. \A q \in Proxies, j \in Nat : ~Queued(q, j, t)'  BY <1>t, <2>3, <4>1 DEF Owner
      <4> QED BY <1>t, <2>0, <2>4, <4>1, <4>2 DEF Owner
    <3>2. CASE t \notin Drained(p)
      <4>1. \A h \in Threads : t \in batch'[h] => t \in batch[h]  BY <2>4, <3>2
      <4> QED BY <1>t, <2>3, <4>1 DEF Owner
    <3> QED BY <3>1, <3>2
  <2> QED BY <1>t, <2>5, <2>6 DEF Places
<1>2. CASE ~\E th \in Stoppers, p \in Proxies : StopProxy(th, p)
  <2>1. UNCHANGED <<sched, fresh, handoff, pc, batch, queue>>
    BY <1>2 DEF UpdateWorkers, PoolStop, Expire, ApiDeadline, Abandon
  <2>2. Holding'  BY <1>t, <2>1 DEF Holding
  <2>3. Owner'  BY <1>t, <2>1, OwnerShrinks
  <2> QED BY <1>t, <2>2, <2>3 DEF Places
<1> QED BY <1>1, <1>2

LEMMA InitPlaces == Init => Places
<1> SUFFICES ASSUME Init PROVE Places  OBVIOUS
<1>1. TypeOK  BY InitTypes
<1>2. \A p \in Proxies, i \in Nat, t \in Tasks : ~Queued(p, i, t)
  BY EmptySeq DEF Init, NewProxies, Queued
<1>3. Holding  BY DEF Init, NewProxies, Holding, SchedIdle
<1>4. Owner  BY <1>2 DEF Init, NewProxies, Owner, SchedIdle
<1> QED BY <1>1, <1>3, <1>4 DEF Places

LEMMA NextPlaces == Places /\ [Next]_vars => Places'
<1> SUFFICES ASSUME Places, [Next]_vars PROVE Places'  OBVIOUS
<1>1. CASE UNCHANGED vars
  BY <1>1 DEF vars, Places, TypeOK, Holding, Owner, Queued
<1>2. CASE Terminated  BY <1>1, <1>2 DEF Terminated
<1> QED BY <1>1, <1>2, SubmitPlaces, DispatchPlaces, SettlePlaces, OtherPlaces DEF Next

\* Whoever moves it, a task given to the pool has one owner, and every thread holds
\* what its place in the code says.
THEOREM PlacesHold == Spec => []Places
<1>1. Init => Places  BY InitPlaces
<1>2. Places /\ [Next]_vars => Places'  BY NextPlaces
<1> QED BY <1>1, <1>2, PTL DEF Spec

\* The state of the pool stays well typed.
THEOREM TypeCorrect == Spec => []TypeOK
<1>1. Places => TypeOK  BY DEF Places
<1> QED BY <1>1, PlacesHold, PTL

\* No handoff, retirement or fallback of GrpcWorkerPool leaves a second copy of a
\* task behind, however many proxies and threads there are.
THEOREM NoTaskInTwoPlaces == Spec => []SingleOwner
<1>1. Places => SingleOwner
  <2> SUFFICES ASSUME Places, NEW t \in Tasks PROVE Cardinality(Holders(t)) <= 1
    BY DEF SingleOwner
  <2>1. TypeOK /\ Owner  BY DEF Places
  <2>2. \A p \in Proxies : Len(queue[p]) \in Nat  BY <2>1, LenProperties DEF TypeOK
  <2>3. \A x, y \in Holders(t) : x = y
    <3> SUFFICES ASSUME NEW x \in Holders(t), NEW y \in Holders(t) PROVE x = y
      OBVIOUS
    <3>1. \A z \in Holders(t) :
             \/ z = <<"client">> /\ t \in fresh
             \/ z = <<"scheduler">> /\ t \in sched.batch
             \/ \E th \in Threads : z = <<"thread", th>> /\ t \in batch[th]
             \/ \E p \in Proxies, i \in Nat : z = <<"queue", p, i>> /\ Queued(p, i, t)
      BY <2>2 DEF Holders, Queued
    <3> QED BY <2>1, <3>1 DEF Owner
  <2>4. CASE Holders(t) = {}
    BY <2>4, FS_EmptySet
  <2>5. CASE Holders(t) # {}
    <3>1. PICK x : Holders(t) = {x}  BY <2>3, <2>5
    <3> QED BY <3>1, FS_Singleton
  <2> QED BY <2>4, <2>5
<1> QED BY <1>1, PlacesHold, PTL

-----------------------------------------------------------------------------
(* Stale references and admission                                          *)

\* begin_stop comes before a proxy leaves the membership, so a reference to a
\* member stays one to a member or to a proxy that refuses work.
LEMMA ReferencesKept ==
    ASSUME References, \A p : Known(p) => Known(p)',
           sched'.pc = "submit" => \A p : p = sched'.target => Known(p),
           \A p \in sched'.untried : Known(p),
           \A th \in Threads : \A p \in handoff'[th].idle \cup handoff'[th].busy : Known(p),
           ~stopping' => retire'[Shutdown] = {}, stopping' => members' = {}
    PROVE  References'
BY DEF References

LEMMA SubmitReferences ==
    ASSUME Places, References, (\E S \in SUBSET fresh : PoolSubmit(S)) \/ SchedulerStep
    PROVE  References'
<1> USE DEF poolVars, threadVars, taskVars, clientVars
<1>t. TypeOK /\ Holding  BY DEF Places
<1>0. sched \in SchedStates  BY <1>t DEF TypeOK
<1>u. UNCHANGED <<members, stopping, stop, retire, handoff>>
  BY DEF SchedulerStep, PoolSubmit, Select, SubmitChosen, Relock, FallbackTry, FallbackFail
<1>r. ASSUME sched'.pc = "submit" => \A p : p = sched'.target => Known(p),
             \A p \in sched'.untried : Known(p)
      PROVE  References'
  BY <1>u, <1>r, ReferencesKept DEF References, Known
<1>g. ASSUME NEW g, g \subseteq sched.batch, GroupDone(g) PROVE References'
  <2>1. sched'.pc \in {"idle", "select"} /\ sched'.untried = {}
    BY <1>0, <1>g, GroupDoneFacts
  <2> QED BY <1>r, <2>1
<1>1. CASE \E S \in SUBSET fresh : PoolSubmit(S)
  <2>1. sched'.pc = "select" /\ sched'.untried = sched.untried
    BY <1>0, <1>1 DEF PoolSubmit, SchedStates
  <2> QED BY <1>r, <2>1 DEF References
<1>2. CASE \E k \in Kinds : Select(k)
  <2>1. PICK k \in Kinds : Select(k)  BY <1>2
  <2>2. GroupOf(k) \subseteq sched.batch  BY DEF GroupOf
  <2>3. CASE \E p \in members :
               sched' = [sched EXCEPT !.pc = "submit", !.group = GroupOf(k), !.target = p]
    <3>1. sched'.target \in members /\ sched'.untried = sched.untried
      BY <1>0, <2>3 DEF SchedStates
    <3> QED BY <1>r, <3>1 DEF References, Known
  <2> QED BY <1>g, <2>1, <2>2, <2>3 DEF Select, ReadyFor
<1>3. CASE SubmitChosen
  <2>1. CASE sched' = [sched EXCEPT !.pc = "relock"]
    <3>1. sched'.pc = "relock" /\ sched'.untried = sched.untried
      BY <1>0, <2>1 DEF SchedStates
    <3> QED BY <1>r, <3>1 DEF References
  <2> QED BY <1>t, <1>g, <1>3, <2>1 DEF SubmitChosen, Holding
<1>4. CASE Relock
  <2>1. sched'.pc = "fallback" /\ sched'.untried \subseteq members
    BY <1>0, <1>4 DEF Relock, SchedStates
  <2> QED BY <1>r, <2>1 DEF Known
<1>5. CASE \E p \in Proxies : FallbackTry(p)
  <2>1. PICK p \in Proxies : FallbackTry(p)  BY <1>5
  <2>2. CASE sched' = [sched EXCEPT !.untried = @ \ {p}]
    <3>1. sched'.pc = "fallback" /\ sched'.untried \subseteq sched.untried
      BY <1>0, <2>1, <2>2 DEF FallbackTry, SchedStates
    <3> QED BY <1>r, <3>1 DEF References
  <2> QED BY <1>t, <1>g, <2>1, <2>2 DEF FallbackTry, Holding
<1>6. CASE FallbackFail  BY <1>t, <1>g, <1>6 DEF FallbackFail, Holding
<1> QED BY <1>1, <1>2, <1>3, <1>4, <1>5, <1>6 DEF SchedulerStep

LEMMA SettleReferences ==
    ASSUME Places, References, NEW th \in Threads, SettleStep(th)
    PROVE  References'
<1> USE DEF poolVars, threadVars, taskVars, clientVars
<1>t. TypeOK  BY DEF Places
<1>u. UNCHANGED <<members, stopping, stop, retire, sched>>
  BY DEF SettleStep, Settle, Reserve, TryNext
<1>r. ASSUME \A h \in Threads : h # th => handoff'[h] = handoff[h],
             \A p \in handoff'[th].idle \cup handoff'[th].busy : Known(p)
      PROVE  References'
  BY <1>u, <1>r, ReferencesKept DEF References, Known
<1>d. ASSUME NEW t, Settled(th, t) PROVE References'
  <2>1. /\ handoff'[th].idle = {} /\ handoff'[th].busy = {}
        /\ \A h \in Threads : h # th => handoff'[h] = handoff[h]
    BY <1>t, <1>d, SettledFacts DEF TypeOK
  <2> QED BY <1>r, <2>1
<1>1. CASE Settle(th)
  <2>1. PICK t \in batch[th] : FinishDirectly(th, t) \/ FindCandidates(th, t)
    BY <1>1 DEF Settle
  <2>2. CASE handoff' = [handoff EXCEPT ![th] =
                   [task |-> t, idle |-> Candidates(th, t), busy |-> {}]]
    <3>1. /\ handoff'[th].idle \cup handoff'[th].busy = Candidates(th, t)
          /\ \A h \in Threads : h # th => handoff'[h] = handoff[h]
      BY <1>t, <2>2 DEF TypeOK
    <3> QED BY <1>r, <3>1 DEF Candidates, Known
  <2> QED BY <1>d, <2>1, <2>2 DEF FinishDirectly, FindCandidates
<1>2. CASE Reserve(th)
  <2>1. CASE handoff' = [handoff EXCEPT ![th].idle = {p \in handoff[th].idle : ~Busy(p)},
                                        ![th].busy = {p \in handoff[th].idle : Busy(p)}]
    <3> DEFINE I == {p \in handoff[th].idle : ~Busy(p)}
               B == {p \in handoff[th].idle : Busy(p)}
    <3>1. I \cup B \subseteq handoff[th].idle /\ handoff[th] \in Handoffs
      BY <1>t DEF TypeOK
    <3>2. /\ handoff'[th] = [[handoff[th] EXCEPT !.idle = I] EXCEPT !.busy = B]
          /\ \A h \in Threads : h # th => handoff'[h] = handoff[h]
      BY <1>t, <2>1 DEF TypeOK
    <3> HIDE DEF I, B
    <3>3. handoff'[th].idle = I /\ handoff'[th].busy = B  BY <3>1, <3>2 DEF Handoffs
    <3> QED BY <1>r, <3>1, <3>2, <3>3 DEF References
  <2> QED BY <1>d, <1>2, <2>1 DEF Reserve
<1>3. CASE TryNext(th)
  <2>1. ASSUME NEW p,
               handoff' = [handoff EXCEPT ![th].idle = @ \ {p}, ![th].busy = @ \ {p}]
        PROVE  References'
    <3>1. /\ handoff'[th].idle = handoff[th].idle \ {p}
          /\ handoff'[th].busy = handoff[th].busy \ {p}
          /\ \A h \in Threads : h # th => handoff'[h] = handoff[h]
      BY <1>t, <2>1, RefusedFacts DEF TypeOK
    <3> QED BY <1>r, <3>1 DEF References
  <2> QED BY <1>d, <1>3, <2>1 DEF TryNext
<1> QED BY <1>1, <1>2, <1>3 DEF SettleStep

LEMMA NextReferences == Places /\ References /\ [Next]_vars => References'
<1> SUFFICES ASSUME Places, References, [Next]_vars PROVE References'  OBVIOUS
<1> USE DEF poolVars, threadVars, taskVars, clientVars
<1>t. TypeOK  BY DEF Places
<1>1. ASSUME UNCHANGED <<members, stopping, stop, retire, handoff, sched>> PROVE References'
  BY <1>1 DEF References, Known
<1>2. CASE \E p \in Proxies : DispatchStep(p) \/ RpcEnds(p)
  BY <1>1, <1>2 DEF DispatchStep, RpcEnds, Pop, Start, Send, RpcDeadline, RpcReply, RpcError
<1>3. CASE \E s \in Snapshots : UpdateWorkers(s.up, s.drain)
  <2>1. PICK s \in Snapshots : UpdateWorkers(s.up, s.drain)  BY <1>3
  <2> DEFINE gone == {p \in members : WorkerOf[p] \notin s.up}
  <2>2. /\ members \ gone \subseteq members' /\ ~stopping
        /\ stop' = [p \in Proxies |-> IF p \in gone /\ stop[p] = "running"
                                      THEN "retire" ELSE stop[p]]
        /\ retire' = [retire EXCEPT ![Discovery] = gone]
        /\ UNCHANGED <<stopping, sched, handoff>>
    BY <2>1 DEF UpdateWorkers, BeginStop
  <2> HIDE DEF gone
  <2>3. retire'[Shutdown] = retire[Shutdown]
    BY <1>t, <2>2, PoolAssumption DEF TypeOK, Stoppers
  <2>4. \A p \in Proxies : Known(p) => Known(p)'  BY <2>2 DEF Known
  <2>5. /\ sched.pc = "submit" => sched.target \in Proxies
        /\ sched.untried \subseteq Proxies
        /\ \A th \in Threads : handoff[th].idle \cup handoff[th].busy \subseteq Proxies
    BY DEF Places, Holding, TypeOK, SchedStates, Handoffs
  <2> QED BY <2>2, <2>3, <2>4, <2>5 DEF References
<1>4. CASE PoolStop
  <2>2. /\ members' = {} /\ stopping'
        /\ stop' = [p \in Proxies |-> IF p \in members /\ stop[p] = "running"
                                      THEN "shutdown" ELSE stop[p]]
        /\ UNCHANGED <<sched, handoff>>
    BY <1>4 DEF PoolStop, BeginStop
  <2>4. \A p \in Proxies : Known(p) => Known(p)'  BY <2>2 DEF Known
  <2>5. /\ sched.pc = "submit" => sched.target \in Proxies
        /\ sched.untried \subseteq Proxies
        /\ \A th \in Threads : handoff[th].idle \cup handoff[th].busy \subseteq Proxies
    BY DEF Places, Holding, TypeOK, SchedStates, Handoffs
  <2> QED BY <2>2, <2>4, <2>5 DEF References
<1>5. CASE \E th \in Stoppers, p \in Proxies : StopProxy(th, p)
  <2>1. /\ UNCHANGED <<members, stopping, stop, handoff, sched>>
        /\ retire'[Shutdown] \subseteq retire[Shutdown]
    BY <1>t, <1>5 DEF StopProxy, TypeOK, Stoppers
  <2> QED BY <2>1 DEF References, Known
<1>6. CASE \E t \in Tasks : Expire(t) \/ ApiDeadline(t) \/ Abandon(t)
  BY <1>1, <1>6 DEF Expire, ApiDeadline, Abandon
<1>7. CASE UNCHANGED vars \/ Terminated  BY <1>1, <1>7 DEF vars, Terminated
<1> QED BY <1>2, <1>3, <1>4, <1>5, <1>6, <1>7, SubmitReferences, SettleReferences DEF Next

LEMMA ReferencesHold == Spec => []References
<1>1. Init => References
  BY DEF Init, NewProxies, References, SchedIdle, NoHandoff, Stoppers
<1>2. Places /\ References /\ [Next]_vars => References'  BY NextReferences
<1> QED BY <1>1, <1>2, PlacesHold, PTL DEF Spec

\* Whoever submits, a queue grows only at a member that accepts, and a dispatch
\* thread gets to work only by taking a batch from its queue.
LEMMA Admission ==
    ASSUME Places, References, Next, NEW p \in Proxies
    PROVE  \/ /\ pc[p] = "idle" => pc'[p] = "idle"
              /\ \/ Len(queue'[p]) <= Len(queue[p])
                 \/ p \in members /\ Accepts(p) /\ Len(queue'[p]) = Len(queue[p]) + 1
           \/ Len(queue'[p]) = Len(queue[p]) - 1
<1> USE DEF poolVars, threadVars, taskVars, clientVars
<1>t. TypeOK /\ Holding  BY DEF Places
<1>0. p \in Threads /\ p \notin Stoppers  BY PoolAssumption DEF Threads
<1>l. Len(queue[p]) \in Nat  BY <1>t, LenProperties DEF TypeOK
<1>n. ASSUME pc[p] = "idle" => pc'[p] = "idle", queue' = queue
      PROVE  (pc[p] = "idle" => pc'[p] = "idle") /\ Len(queue'[p]) <= Len(queue[p])
  BY <1>l, <1>n
<1>e. ASSUME NEW q \in Proxies, Accepts(q), Known(q), NEW b \in SUBSET Tasks, Enqueue(q, b)
      PROVE  \/ Len(queue'[p]) <= Len(queue[p])
             \/ p \in members /\ Accepts(p) /\ Len(queue'[p]) = Len(queue[p]) + 1
  <2>1. /\ \A r \in Proxies : r # q => queue'[r] = queue[r]
        /\ Len(queue'[q]) = Len(queue[q]) + 1
    BY <1>t, <1>e, Enqueued DEF TypeOK
  <2>2. q \in members  BY <1>e DEF Known, Accepts, IsReady
  <2> QED BY <1>l, <1>e, <2>1, <2>2
<1>1. CASE \E S \in SUBSET fresh : PoolSubmit(S)  BY <1>n, <1>1 DEF PoolSubmit
<1>2. CASE SchedulerStep
  <2>1. pc' = pc
    BY <1>2 DEF SchedulerStep, Select, SubmitChosen, Relock, FallbackTry, FallbackFail
  <2>2. sched.group \in SUBSET Tasks  BY <1>t DEF TypeOK, SchedStates
  <2>3. CASE SubmitChosen
    <3>1. sched.target \in Proxies /\ Known(sched.target)
      BY <1>t, <2>3 DEF SubmitChosen, Holding, References
    <3>2. CASE Accepts(sched.target) /\ Enqueue(sched.target, sched.group)
      BY <1>e, <2>1, <2>2, <3>1, <3>2
    <3>3. CASE queue' = queue  BY <1>n, <2>1, <3>3
    <3> QED BY <2>3, <3>2, <3>3 DEF SubmitChosen
  <2>4. CASE \E q \in Proxies : FallbackTry(q)
    <3>1. PICK q \in Proxies : FallbackTry(q)  BY <2>4
    <3>2. Known(q)  BY <3>1 DEF FallbackTry, References
    <3>3. CASE Accepts(q) /\ Enqueue(q, sched.group)
      BY <1>e, <2>1, <2>2, <3>2, <3>3
    <3>4. CASE queue' = queue  BY <1>n, <2>1, <3>4
    <3> QED BY <3>1, <3>3, <3>4 DEF FallbackTry
  <2>5. CASE queue' = queue  BY <1>n, <2>1, <2>5
  <2> QED BY <1>2, <2>3, <2>4, <2>5 DEF SchedulerStep, Select, Relock, FallbackFail
<1>3. CASE \E q \in Proxies : DispatchStep(q) \/ RpcEnds(q)
  <2>1. PICK q \in Proxies : DispatchStep(q) \/ RpcEnds(q)  BY <1>3
  <2>2. CASE Pop(q)
    <3>1. /\ queue[q] # <<>> /\ queue' = [queue EXCEPT ![q] = Tail(@)]
          /\ q # p => pc'[p] = pc[p]
      BY <1>t, <1>0, <2>2 DEF Pop, TypeOK
    <3>2. /\ \A r \in Proxies : r # q => queue'[r] = queue[r]
          /\ Len(queue'[q]) = Len(queue[q]) - 1
      BY <1>t, <3>1, Dequeued DEF TypeOK
    <3> QED BY <1>l, <3>1, <3>2
  <2>3. CASE ~Pop(q)
    <3>1. queue' = queue /\ pc[q] # "idle"
      BY <2>1, <2>3 DEF DispatchStep, RpcEnds, Start, Send, RpcDeadline, RpcReply, RpcError
    <3>2. q # p => pc'[p] = pc[p]
      BY <1>t, <1>0, <2>1, <2>3 DEF TypeOK, DispatchStep, RpcEnds, Start, Send, RpcDeadline,
         RpcReply, RpcError, Idle, SettleBatch
    <3> QED BY <1>n, <3>1, <3>2
  <2> QED BY <2>2, <2>3
<1>4. CASE \E th \in Threads : SettleStep(th)
  <2>1. PICK th \in Threads : SettleStep(th)  BY <1>4
  <2>2. pc[th] # "idle"  BY <2>1 DEF SettleStep, Settle, Reserve, TryNext
  <2>3. th # p => pc'[p] = pc[p]
    BY <1>t, <1>0, <2>1 DEF TypeOK, SettleStep, Settle, Reserve, TryNext, FinishDirectly,
       FindCandidates, Settled
  <2>4. CASE \E q \in handoff[th].idle \cup handoff[th].busy :
               Accepts(q) /\ Enqueue(q, {handoff[th].task}) /\ pc[th] = "try"
    <3>1. PICK q \in handoff[th].idle \cup handoff[th].busy :
               Accepts(q) /\ Enqueue(q, {handoff[th].task}) /\ pc[th] = "try"
      BY <2>4
    <3>2. q \in Proxies /\ Known(q) /\ {handoff[th].task} \in SUBSET Tasks
      BY <1>t, <3>1 DEF TypeOK, Handoffs, References, Holding
    <3> QED BY <1>e, <2>2, <2>3, <3>1, <3>2
  <2>5. CASE queue' = queue  BY <1>n, <2>2, <2>3, <2>5
  <2> QED BY <2>1, <2>4, <2>5 DEF SettleStep, Settle, Reserve, TryNext
<1>5. CASE \E th \in Stoppers, q \in Proxies : StopProxy(th, q)
  <2>1. PICK th \in Stoppers, q \in Proxies : StopProxy(th, q)  BY <1>5
  <2>2. pc'[p] = pc[p]  BY <1>t, <1>0, <2>1 DEF StopProxy, TypeOK
  <2>3. /\ \A r \in Proxies : r # q => queue'[r] = queue[r]
        /\ Len(queue'[q]) = 0
    BY <1>t, <2>1, Emptied DEF StopProxy, TypeOK
  <2> QED BY <1>l, <2>2, <2>3
<1>6. CASE \/ \E s \in Snapshots : UpdateWorkers(s.up, s.drain)
           \/ PoolStop
           \/ \E t \in Tasks : Expire(t) \/ ApiDeadline(t) \/ Abandon(t)
           \/ Terminated
  <2>1. pc' = pc /\ queue' = queue
    BY <1>6 DEF UpdateWorkers, PoolStop, Expire, ApiDeadline, Abandon, Terminated, vars
  <2> QED BY <1>n, <2>1
<1> QED BY <1>1, <1>2, <1>3, <1>4, <1>5, <1>6 DEF Next

\* "Accept a batch only when running and below two outstanding batches": however
\* submitters, handoffs and dispatch threads interleave, no proxy ever has more.
THEOREM NeverOverCapacity == Spec => []CapacityBound
<1>1. Init => CapacityBound
  <2> SUFFICES ASSUME Init, NEW p \in Proxies PROVE Outstanding(p) <= MaxOutstanding
    BY DEF CapacityBound
  <2>1. queue[p] = <<>> /\ pc[p] = "idle"  BY DEF Init, NewProxies, Threads
  <2>2. Len(<<>>) = 0  BY EmptySeq
  <2> QED BY <2>1, <2>2 DEF Outstanding, Processing, MaxOutstanding
<1>2. Places /\ References /\ CapacityBound /\ [Next]_vars => CapacityBound'
  <2> SUFFICES ASSUME Places, References, CapacityBound, [Next]_vars, NEW p \in Proxies
               PROVE  Outstanding(p)' <= MaxOutstanding
    BY DEF CapacityBound, MaxOutstanding
  <2>1. Len(queue[p]) \in Nat  BY LenProperties DEF Places, TypeOK
  <2>2. Outstanding(p) <= MaxOutstanding  BY DEF CapacityBound
  <2>3. CASE UNCHANGED vars
    BY <2>2, <2>3 DEF vars, Outstanding, Processing
  <2>4. CASE Next
    <3>1. \/ /\ pc[p] = "idle" => pc'[p] = "idle"
             /\ \/ Len(queue'[p]) <= Len(queue[p])
                \/ Accepts(p) /\ Len(queue'[p]) = Len(queue[p]) + 1
          \/ Len(queue'[p]) = Len(queue[p]) - 1
      BY <2>4, Admission
    <3>2. Len(queue'[p]) \in Nat  BY NextPlaces, LenProperties DEF Places, TypeOK
    <3>3. /\ pc[p] = "idle" => Outstanding(p) = 0 + Len(queue[p])
          /\ pc[p] # "idle" => Outstanding(p) = 1 + Len(queue[p])
      BY <2>1 DEF Outstanding, Processing
    <3>4. /\ pc'[p] = "idle" => Outstanding(p)' = 0 + Len(queue'[p])
          /\ pc'[p] # "idle" => Outstanding(p)' = 1 + Len(queue'[p])
      BY <3>2 DEF Outstanding, Processing
    <3>5. Accepts(p) => Outstanding(p) < 2  BY DEF Accepts, MaxOutstanding
    <3> QED BY <2>1, <2>2, <3>1, <3>2, <3>3, <3>4, <3>5 DEF MaxOutstanding
  <2> QED BY <2>3, <2>4
<1> QED BY <1>1, <1>2, PlacesHold, ReferencesHold, PTL DEF Spec

\* A retired proxy gets no further batch, although the scheduler and the settling
\* threads call try_submit on it after the pool lock was released.
THEOREM NoBatchAfterRemoval == Spec => QuietAfterRemoval
<1> DEFINE Quiet == \A p \in Proxies \ members : Len(queue'[p]) <= Len(queue[p])
<1>1. Places /\ References /\ [Next]_vars => [Quiet]_vars
  <2> SUFFICES ASSUME Places, References, Next, NEW p \in Proxies \ members
               PROVE  Len(queue'[p]) <= Len(queue[p])
    OBVIOUS
  <2>1. Len(queue[p]) \in Nat  BY LenProperties DEF Places, TypeOK
  <2> QED BY <2>1, Admission
<1> QED BY <1>1, PlacesHold, ReferencesHold, PTL DEF Spec, QuietAfterRemoval

-----------------------------------------------------------------------------
(* What a step writes into a task                                          *)

\* mark_failed with a code that the step may give this task.
Fails(t) ==
    \E code \in ErrorCodes :
       /\ task'[t] = MarkFailed(task[t], code)
       /\ code = "deadline_exceeded" => t \in expired \/ Kind[t] \in NonRetryKinds
       /\ code = "overloaded" => t \in sched.batch \ sched'.batch \/ Kind[t] \in NonRetryKinds

\* try_reserve_retry by a thread that hands the task off.
Reserves(t) ==
    /\ \E th \in Threads : pc[th] = "reserve" /\ t = handoff[th].task /\ Reserve(th)
    /\ CanReserve(task[t], t \in expired)
    /\ task'[t] = ReserveRetry(task[t])

Written(t) ==
    \/ task'[t] = task[t]
    \/ t \notin fresh /\ task'[t] \in {MarkProcessing(task[t]), MarkDone(task[t])}
    \/ t \notin fresh /\ Fails(t)
    \/ t \notin fresh /\ Reserves(t)
    \/ (ApiDeadline(t) \/ Abandon(t)) /\ Fails(t)

LEMMA SubmitWrites ==
    ASSUME Places, (\E S \in SUBSET fresh : PoolSubmit(S)) \/ SchedulerStep, NEW t \in Tasks
    PROVE  Written(t)
<1> USE DEF poolVars, threadVars, taskVars, clientVars
<1>t. TypeOK /\ Holding /\ Owner  BY DEF Places
<1>0. sched \in SchedStates /\ sched.batch \in SUBSET Tasks  BY <1>t DEF TypeOK, SchedStates
<1>1. CASE task' = task  BY <1>1 DEF Written
<1>2. ASSUME NEW g \in SUBSET sched.batch, task' = FailAll(g, "overloaded"), GroupDone(g)
      PROVE  Written(t)
  <2>1. sched'.batch = sched.batch \ g  BY <1>0, <1>2, GroupDoneFacts
  <2>2. task'[t] = IF t \in g THEN MarkFailed(task[t], "overloaded") ELSE task[t]
    BY <1>2 DEF FailAll
  <2>3. CASE t \in g
    <3>1. t \notin fresh  BY <1>t, <1>2, <2>3 DEF Owner
    <3>2. Fails(t)  BY <1>2, <2>1, <2>2, <2>3, CodesKnown DEF Fails
    <3> QED BY <3>1, <3>2 DEF Written
  <2> QED BY <2>2, <2>3 DEF Written
<1>3. \A k : GroupOf(k) \in SUBSET sched.batch  BY DEF GroupOf
<1>4. sched.group \in SUBSET sched.batch  BY <1>t DEF Holding
<1> QED BY <1>1, <1>2, <1>3, <1>4 DEF SchedulerStep, PoolSubmit, Select, SubmitChosen, Relock,
     FallbackTry, FallbackFail

LEMMA DispatchWrites ==
    ASSUME Places, NEW p \in Proxies, DispatchStep(p) \/ RpcEnds(p), NEW t \in Tasks
    PROVE  Written(t)
<1> USE DEF poolVars, threadVars, taskVars, clientVars
<1>t. TypeOK /\ Holding /\ Owner  BY DEF Places
<1>0. p \in Threads  BY DEF Threads
<1>1. t \in batch[p] => t \notin fresh  BY <1>t, <1>0 DEF Owner
<1>2. CASE task' = task  BY <1>2 DEF Written
<1>f. ASSUME NEW S, task' = FailAll(S, "deadline_exceeded"), S \subseteq expired,
             t \in S => t \notin fresh
      PROVE  Written(t)
  <2>1. task'[t] = IF t \in S THEN MarkFailed(task[t], "deadline_exceeded") ELSE task[t]
    BY <1>f DEF FailAll
  <2>2. t \in S => Fails(t)  BY <1>f, <2>1, CodesKnown DEF Fails
  <2> QED BY <1>f, <2>1, <2>2 DEF Written
<1>3. CASE Pop(p)
  <2>1. task' = FailAll(Head(queue[p]) \cap expired, "deadline_exceeded")  BY <1>3 DEF Pop
  <2>2. t \in Head(queue[p]) => Queued(p, 1, t)  BY <1>t, <1>3, Dequeued DEF Pop, TypeOK
  <2>3. t \in Head(queue[p]) => t \notin fresh  BY <1>t, <2>2 DEF Owner
  <2> QED BY <1>f, <2>1, <2>3
<1>4. CASE Start(p) /\ task' = [s \in Tasks |-> IF s \in batch[p] THEN MarkProcessing(task[s])
                                               ELSE task[s]]
  BY <1>1, <1>4 DEF Written
<1>5. CASE task' = FailAll(batch[p], "deadline_exceeded") /\ batch[p] \subseteq expired
  BY <1>1, <1>f, <1>5
<1>6. CASE RpcReply(p)
  <2>1. PICK r \in [batch[p] -> Results] :
          /\ \A s \in batch[p] :
               /\ r[s] = "deadline_exceeded" => s \in expired \/ Kind[s] \in NonRetryKinds
               /\ r[s] = "overloaded" => Kind[s] \in NonRetryKinds
          /\ task' = [s \in Tasks |-> IF s \in batch[p] THEN ApplyResult(task[s], r[s], Kind[s])
                                       ELSE task[s]]
    BY <1>6 DEF RpcReply
  <2>2. CASE t \notin batch[p]  BY <2>1, <2>2 DEF Written
  <2>3. CASE t \in batch[p]
    <3>1. task'[t] = ApplyResult(task[t], r[t], Kind[t])  BY <2>1, <2>3
    <3>2. CASE r[t] = "done"  BY <1>1, <2>3, <3>1, <3>2 DEF ApplyResult, Written
    <3>3. CASE r[t] = "omitted"
      <4>1. task'[t] = IF Kind[t] \in NonRetryKinds THEN MarkFailed(task[t], "transport_error")
                       ELSE task[t]
        BY <3>1, <3>3 DEF ApplyResult
      <4>2. Kind[t] \in NonRetryKinds => Fails(t)  BY <4>1, CodesKnown DEF Fails
      <4> QED BY <1>1, <2>3, <4>1, <4>2 DEF Written
    <3>4. CASE r[t] \in {"worker_error", "overloaded", "deadline_exceeded"}
      <4>1. task'[t] = MarkFailed(task[t], r[t])  BY <3>1, <3>4 DEF ApplyResult
      <4>2. r[t] \in ErrorCodes  BY <3>4 DEF ErrorCodes
      <4>3. Fails(t)  BY <2>1, <2>3, <4>1, <4>2 DEF Fails
      <4> QED BY <1>1, <2>3, <4>3 DEF Written
    <3>5. r[t] \in Results  BY <2>1, <2>3
    <3> QED BY <3>2, <3>3, <3>4, <3>5 DEF Results
  <2> QED BY <2>2, <2>3
<1> QED BY <1>2, <1>3, <1>4, <1>5, <1>6 DEF DispatchStep, RpcEnds, Start, Send, RpcDeadline,
     RpcTimedOut, RpcError

LEMMA SettleWrites ==
    ASSUME Places, NEW th \in Threads, SettleStep(th), NEW t \in Tasks
    PROVE  Written(t)
<1> USE DEF poolVars, threadVars, taskVars, clientVars
<1>t. TypeOK /\ Holding /\ Owner  BY DEF Places
<1>1. t \in batch[th] => t \notin fresh  BY <1>t DEF Owner
<1>2. CASE task' = task  BY <1>2 DEF Written
<1>f. ASSUME NEW s \in batch[th], NEW code \in {"none", "transport_error", "deadline_exceeded"},
             code = "deadline_exceeded" => s \in expired,
             task' = [task EXCEPT ![s] = MarkFailed(@, code)]
      PROVE  Written(t)
  <2>1. CASE t # s  BY <1>t, <1>f, <2>1 DEF Written, TypeOK
  <2>2. CASE t = s
    <3>1. task'[t] = MarkFailed(task[t], code)  BY <1>t, <1>f, <2>2 DEF TypeOK
    <3>2. Fails(t)  BY <1>f, <2>2, <3>1, CodesKnown DEF Fails
    <3> QED BY <1>1, <1>f, <2>2, <3>2 DEF Written
  <2> QED BY <2>1, <2>2
<1>3. CASE Settle(th)
  <2>1. PICK s \in batch[th] : FinishDirectly(th, s) \/ FindCandidates(th, s)
    BY <1>3 DEF Settle
  <2> QED BY <1>2, <1>f, <2>1 DEF FinishDirectly, FindCandidates, FailedFinally
<1>4. CASE Reserve(th)
  <2> DEFINE s == handoff[th].task
  <2>1. s \in batch[th] /\ s \in Tasks /\ pc[th] = "reserve"
    BY <1>t, <1>4 DEF Reserve, Holding, TypeOK
  <2>2. CASE FailedFinally(s)  BY <1>f, <2>1, <2>2 DEF FailedFinally
  <2>3. CASE /\ CanReserve(task[s], s \in expired)
             /\ task' = [task EXCEPT ![s] = ReserveRetry(@)]
    <3>1. CASE t # s  BY <1>t, <2>3, <3>1 DEF Written, TypeOK
    <3>2. CASE t = s
      <4>1. task'[t] = ReserveRetry(task[t])  BY <1>t, <2>3, <3>2 DEF TypeOK
      <4>2. Reserves(t)  BY <1>4, <2>1, <2>3, <3>2, <4>1 DEF Reserves
      <4> QED BY <1>1, <2>1, <3>2, <4>2 DEF Written
    <3> QED BY <3>1, <3>2
  <2> QED BY <1>4, <2>2, <2>3 DEF Reserve
<1>5. CASE TryNext(th)
  <2>1. handoff[th].task \in batch[th]  BY <1>t, <1>5 DEF TryNext, Holding
  <2> QED BY <1>2, <1>f, <1>5, <2>1 DEF TryNext, FailedFinally
<1> QED BY <1>3, <1>4, <1>5 DEF SettleStep

\* The pool writes only tasks that were submitted, with the methods of Task, and
\* gives a /predict request "deadline_exceeded" only past its deadline and
\* "overloaded" only when it leaves the scheduler.
LEMMA NextWrites ==
    ASSUME Places, [Next]_vars, NEW t \in Tasks
    PROVE  Written(t)
<1> USE DEF poolVars, threadVars, taskVars, clientVars
<1>t. TypeOK  BY DEF Places
<1>1. CASE task' = task  BY <1>1 DEF Written
<1>2. CASE \E s \in Tasks : ApiDeadline(s) \/ Abandon(s)
  <2>1. PICK s \in Tasks : ApiDeadline(s) \/ Abandon(s)  BY <1>2
  <2>2. PICK code \in {"deadline_exceeded", "cancelled"} :
          /\ task' = [task EXCEPT ![s] = MarkFailed(@, code)]
          /\ code = "deadline_exceeded" => s \in expired
    BY <2>1 DEF ApiDeadline, Abandon
  <2>3. CASE t # s  BY <1>t, <2>2, <2>3 DEF Written, TypeOK
  <2>4. CASE t = s
    <3>1. task'[t] = MarkFailed(task[t], code)  BY <1>t, <2>2, <2>4 DEF TypeOK
    <3>2. Fails(t)  BY <2>2, <2>4, <3>1, CodesKnown DEF Fails
    <3> QED BY <2>1, <2>4, <3>2 DEF Written
  <2> QED BY <2>3, <2>4
<1>3. CASE \/ \E s \in Snapshots : UpdateWorkers(s.up, s.drain)
           \/ PoolStop
           \/ \E th \in Stoppers, p \in Proxies : StopProxy(th, p)
           \/ \E s \in Tasks : Expire(s)
           \/ UNCHANGED vars \/ Terminated
  BY <1>1, <1>3 DEF UpdateWorkers, PoolStop, StopProxy, Expire, vars, Terminated
<1> QED BY <1>2, <1>3, SubmitWrites, DispatchWrites, SettleWrites DEF Next

\* The consequences the invariants need: a settled task is never written again, the
\* retry count grows only by a reservation, an error code is old or allowed.
LEMMA WrittenFacts ==
    ASSUME task \in [Tasks -> TaskRecord], NEW t \in Tasks, Written(t)
    PROVE  /\ Terminal(task[t]) => task'[t] = task[t]
           /\ ~Reserves(t) => task'[t].retry_count = task[t].retry_count
           /\ \/ task'[t].error_code = task[t].error_code
              \/ task'[t].error_code \notin {"deadline_exceeded", "overloaded"}
              \/ Kind[t] \in NonRetryKinds
              \/ task'[t].error_code = "deadline_exceeded" /\ t \in expired
              \/ task'[t].error_code = "overloaded" /\ t \in sched.batch \ sched'.batch
<1>0. task[t] \in TaskRecord  OBVIOUS
<1>c. PICK c \in ErrorCodes : TRUE  BY CodesKnown
<1>1. CASE task'[t] = task[t]  BY <1>1
<1>2. CASE task'[t] \in {MarkProcessing(task[t]), MarkDone(task[t])}
  BY <1>0, <1>c, <1>2, MarkFacts
<1>3. CASE Fails(t)
  <2>1. PICK code \in ErrorCodes :
          /\ task'[t] = MarkFailed(task[t], code)
          /\ code = "deadline_exceeded" => t \in expired \/ Kind[t] \in NonRetryKinds
          /\ code = "overloaded" => t \in sched.batch \ sched'.batch \/ Kind[t] \in NonRetryKinds
    BY <1>3 DEF Fails
  <2>2. /\ task'[t].retry_count = task[t].retry_count
        /\ task'[t].error_code \in {task[t].error_code, code}
        /\ Terminal(task[t]) => task'[t] = task[t]
    BY <1>0, <2>1, MarkFacts
  <2> QED BY <2>1, <2>2
<1>4. CASE Reserves(t)
  <2>1. (t \in expired) \in BOOLEAN  OBVIOUS
  <2> QED BY <1>0, <1>4, <2>1, ReserveFacts DEF Reserves
<1> QED BY <1>1, <1>2, <1>3, <1>4 DEF Written

\* A deadline never un-passes.
LEMMA ExpiredGrows == [Next]_vars => expired \subseteq expired'
<1> SUFFICES ASSUME [Next]_vars PROVE expired \subseteq expired'  OBVIOUS
<1> USE DEF poolVars, threadVars, taskVars, clientVars
<1>1. CASE \E t \in Tasks : Expire(t)  BY <1>1 DEF Expire
<1>2. CASE ~\E t \in Tasks : Expire(t)
  <2>1. CASE (\E S \in SUBSET fresh : PoolSubmit(S)) \/ SchedulerStep
    BY <2>1 DEF PoolSubmit, SchedulerStep, Select, SubmitChosen, Relock, FallbackTry, FallbackFail
  <2>2. CASE \E p \in Proxies : DispatchStep(p) \/ RpcEnds(p)
    BY <2>2 DEF DispatchStep, RpcEnds, Pop, Start, Send, RpcDeadline, RpcReply, RpcError
  <2>3. CASE \E th \in Threads : SettleStep(th)
    BY <2>3 DEF SettleStep, Settle, Reserve, TryNext
  <2> QED BY <1>2, <2>1, <2>2, <2>3 DEF Next, UpdateWorkers, PoolStop, StopProxy, ApiDeadline,
       Abandon, Terminated, vars
<1> QED BY <1>1, <1>2

\* "deadline_exceeded" is reported for a /predict request only past its own deadline,
\* although it shares an RPC and a queue with requests of other deadlines.
THEOREM DeadlinesAreHonest == Spec => []DeadlineHonest
<1>1. Init => DeadlineHonest  BY DEF Init, DeadlineHonest, NewTask
<1>2. Places /\ DeadlineHonest /\ [Next]_vars => DeadlineHonest'
  <2> SUFFICES ASSUME Places, DeadlineHonest, [Next]_vars, NEW t \in Tasks,
                      Kind[t] \notin NonRetryKinds, task'[t].error_code = "deadline_exceeded"
               PROVE  t \in expired'
    BY DEF DeadlineHonest
  <2>1. \/ task'[t].error_code = task[t].error_code
        \/ task'[t].error_code \notin {"deadline_exceeded", "overloaded"}
        \/ t \in expired
        \/ task'[t].error_code = "overloaded"
    BY NextWrites, WrittenFacts DEF Places, TypeOK
  <2>2. t \in expired  BY <2>1 DEF DeadlineHonest
  <2> QED BY <2>2, ExpiredGrows
<1> QED BY <1>1, <1>2, PlacesHold, PTL DEF Spec

\* To the scheduler and the request handlers GrpcWorkerPool is a batch handler: it
\* writes only tasks that were handed over, and the first outcome of a task, be it a
\* reply, a handoff's failure or the handler's own deadline, is its last.
THEOREM PoolImplementsBatchHandler == Spec => ImplementsBatchHandler
<1>1. Init => Handler!Init
  BY DEF Init, Handler!Init, Handler!NewTask, NewTask
<1>2. Places /\ [Next]_vars => [Handler!Next]_<<task, Tasks \ fresh>>
  <2> SUFFICES ASSUME Places, [Next]_vars
               PROVE  Handler!Next \/ UNCHANGED <<task, Tasks \ fresh>>
    OBVIOUS
  <2> USE DEF poolVars, threadVars, taskVars, clientVars
  <2>t. TypeOK  BY DEF Places
  <2>1. CASE \E S \in SUBSET fresh : PoolSubmit(S)
    <3>1. PICK S \in SUBSET fresh : PoolSubmit(S)  BY <2>1
    <3>2. S \subseteq Tasks \ (Tasks \ fresh)  BY <2>t DEF TypeOK
    <3>3. (Tasks \ fresh)' = (Tasks \ fresh) \cup S /\ task' = task
      BY <2>t, <3>1 DEF PoolSubmit, TypeOK
    <3> QED BY <3>2, <3>3 DEF Handler!Next, Handler!Submit
  <2>2. CASE \E t \in Tasks : ApiDeadline(t) \/ Abandon(t)
    <3>1. PICK t \in Tasks : ApiDeadline(t) \/ Abandon(t)  BY <2>2
    <3>2. PICK code \in {"deadline_exceeded", "cancelled"} :
            task' = [task EXCEPT ![t] = MarkFailed(@, code)]
      BY <3>1 DEF ApiDeadline, Abandon
    <3>3. (Tasks \ fresh)' = Tasks \ fresh  BY <3>1 DEF ApiDeadline, Abandon
    <3>4. Handler!GiveUp(t)
      BY <3>2, <3>3 DEF Handler!GiveUp, Handler!MarkFailed, MarkFailed, Handler!Terminal, Terminal
    <3> QED BY <3>4 DEF Handler!Next
  <2>3. CASE /\ ~\E S \in SUBSET fresh : PoolSubmit(S)
             /\ ~\E t \in Tasks : ApiDeadline(t) \/ Abandon(t)
    <3>1. fresh' = fresh
      <4>1. CASE SchedulerStep
        BY <4>1 DEF SchedulerStep, Select, SubmitChosen, Relock, FallbackTry, FallbackFail
      <4>2. CASE \E p \in Proxies : DispatchStep(p) \/ RpcEnds(p)
        BY <4>2 DEF DispatchStep, RpcEnds, Pop, Start, Send, RpcDeadline, RpcReply, RpcError
      <4>3. CASE \E th \in Threads : SettleStep(th)
        BY <4>3 DEF SettleStep, Settle, Reserve, TryNext
      <4> QED BY <2>3, <4>1, <4>2, <4>3 DEF Next, UpdateWorkers, PoolStop, StopProxy, Expire,
           Terminated, vars
    <3>2. ASSUME NEW t \in Tasks \ fresh PROVE task'[t] \in Handler!Outcomes(task[t])
      <4>0. task[t] \in TaskRecord /\ Written(t)  BY <2>t, NextWrites DEF TypeOK
      <4>1. Terminal(task[t]) => task'[t] = task[t]
        BY <2>t, <4>0, WrittenFacts DEF TypeOK
      <4>2. CASE Terminal(task[t])
        BY <4>1, <4>2 DEF Handler!Outcomes, Handler!Terminal, Terminal
      <4>3. CASE ~Terminal(task[t])
        <5>1. Handler!Outcomes(task[t]) =
                 {task[t], MarkProcessing(task[t]), MarkDone(task[t])}
                 \cup {MarkFailed(task[t], code) : code \in ErrorCodes}
                 \cup {ReserveRetry(task[t]) : x \in {r \in {0} : task[t].retry_count = r}}
          BY <4>3 DEF Handler!Outcomes, Handler!Terminal, Terminal, Handler!MarkProcessing,
             MarkProcessing, Handler!MarkDone, MarkDone, Handler!MarkFailed, MarkFailed,
             Handler!ErrorCodes, ErrorCodes, Handler!ReserveRetry, ReserveRetry
        <5>2. CASE Fails(t)  BY <5>1, <5>2 DEF Fails
        <5>3. CASE Reserves(t)
          <6>1. (t \in expired) \in BOOLEAN  OBVIOUS
          <6>2. task[t].retry_count = 0  BY <4>0, <5>3, <6>1, ReserveFacts DEF Reserves
          <6> QED BY <5>1, <5>3, <6>2 DEF Reserves
        <5> QED BY <4>0, <5>1, <5>2, <5>3 DEF Written
      <4> QED BY <4>2, <4>3
    <3>3. ASSUME NEW t \in fresh PROVE task'[t] = task[t]
      <4>1. t \in Tasks /\ Written(t)  BY <2>t, NextWrites DEF TypeOK
      <4> QED BY <2>3, <4>1 DEF Written
    <3>4. Handler!Work
      BY <2>t, <3>1, <3>2, <3>3 DEF Handler!Work, TypeOK
    <3> QED BY <3>4 DEF Handler!Next
  <2> QED BY <2>1, <2>2, <2>3
<1> QED BY <1>1, <1>2, PlacesHold, PTL DEF Spec, ImplementsBatchHandler, Handler!Spec

-----------------------------------------------------------------------------
(* Nobody is stranded                                                      *)

\* Task t is settled, was left out of a reply, or is where somebody will find it.
Safe(t) ==
    \/ Terminal(task[t])
    \/ t \in omitted
    \/ t \in fresh \cup sched.batch
    \/ \E th \in Threads : t \in batch[th]
    \/ \E p \in members \cup retire[Discovery] \cup retire[Shutdown], i \in Nat : Queued(p, i, t)

LEMMA SafeMeaning == TypeOK => (NoStranded <=> \A t \in Tasks : Safe(t))
<1> SUFFICES ASSUME TypeOK PROVE NoStranded <=> \A t \in Tasks : Safe(t)  OBVIOUS
<1>1. members \cup retire[Discovery] \cup retire[Shutdown] \subseteq Proxies
  BY DEF TypeOK, Stoppers
<1>2. \A p \in Proxies : Len(queue[p]) \in Nat  BY LenProperties DEF TypeOK
<1>3. \A p \in Proxies : \A t : (\E b \in QueuedAt(p) : t \in b) <=> \E i \in Nat : Queued(p, i, t)
  BY <1>2 DEF QueuedAt, Queued
<1> QED BY <1>1, <1>3 DEF NoStranded, Safe

LEMMA SubmitSafe ==
    ASSUME Places, References, NEW t \in Tasks, Safe(t), Terminal(task[t]) => Terminal(task'[t]),
           (\E S \in SUBSET fresh : PoolSubmit(S)) \/ SchedulerStep
    PROVE  Safe(t)'
<1> USE DEF poolVars, threadVars, taskVars, clientVars
<1>t. TypeOK /\ Holding  BY DEF Places
<1>0. sched \in SchedStates /\ sched.batch \in SUBSET Tasks /\ sched.group \in SUBSET sched.batch
  BY <1>t DEF TypeOK, SchedStates, Holding
<1>u. UNCHANGED <<members, retire, batch, omitted>>
  BY DEF SchedulerStep, PoolSubmit, Select, SubmitChosen, Relock, FallbackTry, FallbackFail
<1>q. queue' = queue => \A p, i : Queued(p, i, t) <=> Queued(p, i, t)'  BY DEF Queued
<1>1. ASSUME fresh \cup sched.batch \subseteq fresh' \cup sched'.batch, queue' = queue
      PROVE  Safe(t)'
  BY <1>u, <1>q, <1>1 DEF Safe
<1>2. ASSUME NEW g \in SUBSET sched.batch, task' = FailAll(g, "overloaded"), GroupDone(g),
             fresh' = fresh, queue' = queue
      PROVE  Safe(t)'
  <2>1. sched'.batch = sched.batch \ g  BY <1>0, <1>2, GroupDoneFacts
  <2>2. t \in g => Terminal(task'[t])  BY <1>t, <1>2, FailAllFacts, CodesKnown DEF TypeOK
  <2> QED BY <1>u, <1>q, <1>2, <2>1, <2>2 DEF Safe
<1>3. ASSUME NEW p \in Proxies, Accepts(p), Known(p), Enqueue(p, sched.group),
             GroupDone(sched.group), fresh' = fresh
      PROVE  Safe(t)'
  <2>1. sched'.batch = sched.batch \ sched.group  BY <1>0, <1>3, GroupDoneFacts
  <2>2. p \in members  BY <1>3 DEF Known, Accepts, IsReady
  <2>3. /\ Len(queue[p]) \in Nat
        /\ \A q \in Proxies, i \in Nat, s \in Tasks :
                 Queued(q, i, s)' <=>
                    Queued(q, i, s) \/ (q = p /\ i = Len(queue[p]) + 1 /\ s \in sched.group)
    BY <1>t, <1>0, <1>3, Enqueued DEF TypeOK
  <2>4. t \in sched.group => \E i \in Nat : Queued(p, i, t)'  BY <2>3
  <2>5. members \cup retire[Discovery] \cup retire[Shutdown] \subseteq Proxies
    BY <1>t DEF TypeOK, Stoppers
  <2> QED BY <1>u, <1>3, <2>1, <2>2, <2>3, <2>4, <2>5 DEF Safe
<1>4. CASE \E S \in SUBSET fresh : PoolSubmit(S)
  <2>1. PICK S \in SUBSET fresh : PoolSubmit(S)  BY <1>4
  <2>2. sched.batch = {} /\ sched'.batch = S
    BY <1>t, <1>0, <2>1 DEF PoolSubmit, SchedStates, Holding
  <2> QED BY <1>1, <2>1, <2>2 DEF PoolSubmit
<1>5. CASE \E k \in Kinds : Select(k)
  <2>1. PICK k \in Kinds : Select(k)  BY <1>5
  <2>2. GroupOf(k) \in SUBSET sched.batch  BY DEF GroupOf
  <2>3. CASE \E p \in members :
               sched' = [sched EXCEPT !.pc = "submit", !.group = GroupOf(k), !.target = p]
    <3>1. sched'.batch = sched.batch  BY <1>0, <2>3 DEF SchedStates
    <3> QED BY <1>1, <2>1, <3>1 DEF Select
  <2>4. CASE task' = FailAll(GroupOf(k), "overloaded") /\ GroupDone(GroupOf(k))
    BY <1>2, <2>1, <2>2, <2>4 DEF Select
  <2> QED BY <2>1, <2>3, <2>4 DEF Select, ReadyFor
<1>6. CASE SubmitChosen
  <2>1. sched.target \in Proxies /\ Known(sched.target)
    BY <1>t, <1>6 DEF SubmitChosen, Holding, References
  <2>2. CASE sched' = [sched EXCEPT !.pc = "relock"] /\ UNCHANGED queue
    <3>1. sched'.batch = sched.batch  BY <1>0, <2>2 DEF SchedStates
    <3> QED BY <1>1, <1>6, <2>2, <3>1 DEF SubmitChosen
  <2> QED BY <1>3, <1>6, <2>1, <2>2 DEF SubmitChosen
<1>7. CASE Relock
  <2>1. sched'.batch = sched.batch  BY <1>0, <1>7 DEF Relock, SchedStates
  <2> QED BY <1>1, <1>7, <2>1 DEF Relock
<1>8. CASE \E p \in Proxies : FallbackTry(p)
  <2>1. PICK p \in Proxies : FallbackTry(p)  BY <1>8
  <2>2. Known(p)  BY <2>1 DEF FallbackTry, References
  <2>3. CASE sched' = [sched EXCEPT !.untried = @ \ {p}] /\ UNCHANGED queue
    <3>1. sched'.batch = sched.batch  BY <1>0, <2>3 DEF SchedStates
    <3> QED BY <1>1, <2>1, <2>3, <3>1 DEF FallbackTry
  <2> QED BY <1>3, <2>1, <2>2, <2>3 DEF FallbackTry
<1>9. CASE FallbackFail  BY <1>0, <1>2, <1>9 DEF FallbackFail
<1> QED BY <1>4, <1>5, <1>6, <1>7, <1>8, <1>9 DEF SchedulerStep

LEMMA DispatchSafe ==
    ASSUME Places, NEW t \in Tasks, Safe(t), Terminal(task[t]) => Terminal(task'[t]),
           NEW p \in Proxies, DispatchStep(p) \/ RpcEnds(p)
    PROVE  Safe(t)'
<1> USE DEF poolVars, threadVars, taskVars, clientVars
<1>t. TypeOK  BY DEF Places
<1>0. p \in Threads  BY DEF Threads
<1>u. UNCHANGED <<members, retire, fresh, sched>>
  BY DEF DispatchStep, RpcEnds, Pop, Start, Send, RpcDeadline, RpcReply, RpcError
<1>1. ASSUME queue' = queue, omitted \subseteq omitted',
             \A th \in Threads : th # p => batch'[th] = batch[th],
             t \in batch[p] => t \in batch'[p] \/ Terminal(task'[t]) \/ t \in omitted'
      PROVE  Safe(t)'
  <2>1. \A q, i : Queued(q, i, t) => Queued(q, i, t)'  BY <1>1 DEF Queued
  <2> QED BY <1>u, <1>1, <2>1 DEF Safe
<1>f. ASSUME queue' = queue, omitted' = omitted, Idle(p),
             task' = FailAll(batch[p], "deadline_exceeded")
      PROVE  Safe(t)'
  <2>1. t \in batch[p] => Terminal(task'[t])  BY <1>t, <1>f, FailAllFacts, CodesKnown DEF TypeOK
  <2>2. \A th \in Threads : th # p => batch'[th] = batch[th]  BY <1>t, <1>f DEF Idle, TypeOK
  <2> QED BY <1>1, <1>f, <2>1, <2>2
<1>2. CASE Pop(p)
  <2> DEFINE active == {s \in Head(queue[p]) : ~Terminal(task[s]) /\ s \notin expired}
  <2>1. /\ batch' = [batch EXCEPT ![p] = active] /\ omitted' = omitted
        /\ queue[p] # <<>> /\ queue' = [queue EXCEPT ![p] = Tail(@)]
        /\ task' = FailAll(Head(queue[p]) \cap expired, "deadline_exceeded")
    BY <1>2 DEF Pop
  <2>2. /\ \A s : s \in Head(queue[p]) <=> Queued(p, 1, s)
        /\ \A q \in Proxies, i \in Nat, s \in Tasks :
              Queued(q, i, s)' <=> IF q = p THEN i # 0 /\ Queued(p, i + 1, s)
                                   ELSE Queued(q, i, s)
    BY <1>t, <2>1, Dequeued DEF TypeOK
  <2>3. Queued(p, 1, t) => t \in active \/ Terminal(task[t]) \/ Terminal(task'[t])
    <3>1. t \in Head(queue[p]) \cap expired => Terminal(task'[t])
      BY <1>t, <2>1, FailAllFacts, CodesKnown DEF TypeOK
    <3> QED BY <2>2, <3>1
  <2>4. t \in active => t \in batch'[p]  BY <1>t, <1>0, <2>1 DEF TypeOK
  <2>5. \A th \in Threads : th # p => batch'[th] = batch[th]  BY <1>t, <2>1 DEF TypeOK
  <2>6. batch[p] = {}  BY <1>0, <1>2 DEF Pop, Places, Holding
  <2> HIDE DEF active
  <2>7. \A i \in Nat : Queued(p, i, t) => i # 0 /\ (i = 1 \/ Queued(p, i - 1, t)')
    <3> SUFFICES ASSUME NEW i \in Nat, Queued(p, i, t) PROVE i # 0 /\ (i = 1 \/ Queued(p, i - 1, t)')
      OBVIOUS
    <3>1. i # 0  BY DEF Queued
    <3>2. i # 1 => i - 1 \in Nat /\ i - 1 # 0 /\ (i - 1) + 1 = i  BY <3>1
    <3> QED BY <2>2, <3>1, <3>2
  <2>8. \A i \in Nat : Queued(p, i, t) => i = 1 \/ \E j \in Nat : Queued(p, j, t)'
    <3> SUFFICES ASSUME NEW i \in Nat, Queued(p, i, t), i # 1 PROVE \E j \in Nat : Queued(p, j, t)'
      OBVIOUS
    <3>1. i - 1 \in Nat  BY <2>7
    <3> QED BY <2>7, <3>1
  <2>9. \A q \in Proxies, i \in Nat : q # p => (Queued(q, i, t) => Queued(q, i, t)')  BY <2>2
  <2>10. members \cup retire[Discovery] \cup retire[Shutdown] \subseteq Proxies
    BY <1>t DEF TypeOK, Stoppers
  <2> QED BY <1>0, <1>u, <2>1, <2>3, <2>4, <2>5, <2>6, <2>8, <2>9, <2>10 DEF Safe
<1>3. CASE Start(p)  BY <1>1, <1>3 DEF Start, SettleBatch
<1>4. CASE Send(p)  BY <1>1, <1>f, <1>4 DEF Send, SettleBatch
<1>5. CASE RpcDeadline(p)  BY <1>f, <1>5 DEF RpcDeadline
<1>6. CASE RpcReply(p)
  <2>1. PICK r \in [batch[p] -> Results] :
          /\ task' = [s \in Tasks |-> IF s \in batch[p] THEN ApplyResult(task[s], r[s], Kind[s])
                                       ELSE task[s]]
          /\ omitted' = omitted \cup
                {s \in batch[p] : r[s] = "omitted" /\ Kind[s] \notin NonRetryKinds}
    BY <1>6 DEF RpcReply
  <2>2. t \in batch[p] => Terminal(task'[t]) \/ t \in omitted'
    BY <1>t, <2>1, ReplyFacts DEF TypeOK
  <2>3. queue' = queue /\ \A th \in Threads : th # p => batch'[th] = batch[th]
    BY <1>t, <1>6 DEF RpcReply, Idle, TypeOK
  <2> QED BY <1>1, <2>1, <2>2, <2>3
<1>7. CASE \E code \in RpcCodes : RpcError(p, code)  BY <1>1, <1>7 DEF RpcError, SettleBatch
<1> QED BY <1>2, <1>3, <1>4, <1>5, <1>6, <1>7 DEF DispatchStep, RpcEnds

LEMMA SettleSafe ==
    ASSUME Places, References, NEW t \in Tasks, Safe(t), Terminal(task[t]) => Terminal(task'[t]),
           NEW th \in Threads, SettleStep(th)
    PROVE  Safe(t)'
<1> USE DEF poolVars, threadVars, taskVars, clientVars
<1>t. TypeOK /\ Holding  BY DEF Places
<1>u. UNCHANGED <<members, retire, fresh, sched, omitted>>
  BY DEF SettleStep, Settle, Reserve, TryNext
<1>q. queue' = queue => \A p, i : Queued(p, i, t) => Queued(p, i, t)'  BY DEF Queued
<1>1. ASSUME NEW s, Settled(th, s), queue' = queue, t = s => Terminal(task'[t]) PROVE Safe(t)'
  <2>1. \A h \in Threads : t \in batch[h] => t \in batch'[h] \/ (h = th /\ t = s)
    BY <1>t, <1>1, SettledFacts DEF TypeOK
  <2> QED BY <1>u, <1>q, <1>1, <2>1 DEF Safe
<1>f. ASSUME NEW s, NEW code \in ErrorCodes, task' = [task EXCEPT ![s] = MarkFailed(@, code)]
      PROVE  t = s => Terminal(task'[t])
  <2> HAVE t = s
  <2>1. task'[t] = MarkFailed(task[t], code) /\ task[t] \in TaskRecord  BY <1>t, <1>f DEF TypeOK
  <2> QED BY <2>1, MarkFacts
<1>2. CASE batch' = batch /\ queue' = queue  BY <1>u, <1>q, <1>2 DEF Safe
<1>3. CASE Settle(th)
  <2>1. PICK s \in batch[th] : FinishDirectly(th, s) \/ FindCandidates(th, s)
    BY <1>3 DEF Settle
  <2>2. queue' = queue  BY <1>3 DEF Settle
  <2>3. CASE FinishDirectly(th, s)
    <3>1. t = s => Terminal(task'[t])
      BY <1>f, <2>3, CodesKnown DEF FinishDirectly, FailedFinally
    <3> QED BY <1>1, <2>2, <2>3, <3>1 DEF FinishDirectly
  <2>4. CASE FailedFinally(s) /\ Settled(th, s)
    BY <1>1, <1>f, <2>2, <2>4, CodesKnown DEF FailedFinally
  <2> QED BY <1>2, <2>1, <2>2, <2>3, <2>4 DEF FindCandidates
<1>4. CASE Reserve(th)
  BY <1>1, <1>2, <1>f, <1>4, CodesKnown DEF Reserve, FailedFinally
<1>5. CASE TryNext(th)
  <2> DEFINE s == handoff[th].task
  <2>0. s \in Tasks /\ handoff[th].idle \cup handoff[th].busy \in SUBSET Proxies
    BY <1>t, <1>5 DEF TryNext, Holding, TypeOK, Handoffs
  <2>1. CASE FailedFinally(s) /\ Settled(th, s) /\ UNCHANGED queue
    BY <1>1, <1>f, <2>1, CodesKnown DEF FailedFinally
  <2>2. ASSUME NEW p \in handoff[th].idle \cup handoff[th].busy, Accepts(p),
               Enqueue(p, {s}), Settled(th, s)
        PROVE  Safe(t)'
    <3>1. p \in members /\ p \in Proxies
      BY <2>0, <2>2 DEF References, Known, Accepts, IsReady
    <3>2. {s} \in SUBSET Tasks  BY <2>0
    <3>3. /\ Len(queue[p]) \in Nat
          /\ \A q \in Proxies, i \in Nat, x \in Tasks :
                 Queued(q, i, x)' <=>
                    Queued(q, i, x) \/ (q = p /\ i = Len(queue[p]) + 1 /\ x \in {s})
      BY <1>t, <2>2, <3>1, <3>2, Enqueued DEF TypeOK
    <3>4. t = s => \E i \in Nat : Queued(p, i, t)'  BY <3>1, <3>3
    <3>5. \A h \in Threads : t \in batch[h] => t \in batch'[h] \/ t = s
      BY <1>t, <2>2, SettledFacts DEF TypeOK
    <3>6. members \cup retire[Discovery] \cup retire[Shutdown] \subseteq Proxies
      BY <1>t DEF TypeOK, Stoppers
    <3>7. \A q \in Proxies, i \in Nat : Queued(q, i, t) => Queued(q, i, t)'  BY <3>3
    <3> HIDE DEF s
    <3> QED BY <1>u, <3>1, <3>4, <3>5, <3>6, <3>7 DEF Safe
  <2> QED BY <1>2, <1>5, <2>1, <2>2 DEF TryNext
<1> QED BY <1>3, <1>4, <1>5 DEF SettleStep

LEMMA OtherSafe ==
    ASSUME Places, References, NEW t \in Tasks, Safe(t), Terminal(task[t]) => Terminal(task'[t]),
           \/ \E s \in Snapshots : UpdateWorkers(s.up, s.drain)
           \/ PoolStop
           \/ \E th \in Stoppers, p \in Proxies : StopProxy(th, p)
           \/ \E s \in Tasks : Expire(s) \/ ApiDeadline(s) \/ Abandon(s)
    PROVE  Safe(t)'
<1> USE DEF poolVars, threadVars, taskVars, clientVars
<1>t. TypeOK /\ Holding  BY DEF Places
<1>1. ASSUME UNCHANGED <<queue, omitted, fresh, sched, batch>>,
             members \cup retire[Discovery] \cup retire[Shutdown]
                \subseteq members' \cup retire'[Discovery] \cup retire'[Shutdown]
      PROVE  Safe(t)'
  <2>1. \A q, i : Queued(q, i, t) => Queued(q, i, t)'  BY <1>1 DEF Queued
  <2> QED BY <1>1, <2>1 DEF Safe
<1>2. CASE \E s \in Snapshots : UpdateWorkers(s.up, s.drain)
  <2>1. PICK s \in Snapshots : UpdateWorkers(s.up, s.drain)  BY <1>2
  <2> DEFINE gone == {p \in members : WorkerOf[p] \notin s.up}
  <2>2. /\ members \ gone \subseteq members' /\ retire[Discovery] = {}
        /\ retire' = [retire EXCEPT ![Discovery] = gone]
        /\ UNCHANGED <<queue, omitted, fresh, sched, batch>>
    BY <2>1 DEF UpdateWorkers
  <2> HIDE DEF gone
  <2>3. retire'[Discovery] = gone /\ retire'[Shutdown] = retire[Shutdown]
    BY <1>t, <2>2, PoolAssumption DEF TypeOK, Stoppers
  <2> QED BY <1>1, <2>2, <2>3
<1>3. CASE PoolStop
  <2>1. /\ retire[Shutdown] = {} /\ retire' = [retire EXCEPT ![Shutdown] = members]
        /\ UNCHANGED <<queue, omitted, fresh, sched, batch>>
    BY <1>3 DEF PoolStop, References
  <2>2. retire'[Shutdown] = members /\ retire'[Discovery] = retire[Discovery]
    BY <1>t, <2>1, PoolAssumption DEF TypeOK, Stoppers
  <2> QED BY <1>1, <2>1, <2>2
<1>4. CASE \E th \in Stoppers, p \in Proxies : StopProxy(th, p)
  <2>1. PICK th \in Stoppers, p \in Proxies : StopProxy(th, p)  BY <1>4
  <2>0. th \in Threads  BY DEF Threads
  <2>2. UNCHANGED <<omitted, fresh, sched, members>>  BY <2>1 DEF StopProxy
  <2>3. /\ \A s : s \in Drained(p) <=> \E i \in Nat : Queued(p, i, s)
        /\ \A q \in Proxies, i \in Nat, s \in Tasks :
              Queued(q, i, s)' <=> q # p /\ Queued(q, i, s)
    BY <1>t, <2>1, Emptied DEF StopProxy, TypeOK
  <2>4. /\ batch[th] = {} /\ batch'[th] = Drained(p)
        /\ \A h \in Threads : h # th => batch'[h] = batch[h]
    BY <1>t, <2>0, <2>1 DEF StopProxy, TypeOK, Holding
  <2>5. /\ retire[Discovery] \subseteq retire'[Discovery] \cup {p}
        /\ retire[Shutdown] \subseteq retire'[Shutdown] \cup {p}
    BY <1>t, <2>1 DEF StopProxy, TypeOK, Stoppers
  <2>6. members \cup retire[Discovery] \cup retire[Shutdown] \subseteq Proxies
    BY <1>t DEF TypeOK, Stoppers
  <2>7. CASE t \in Drained(p)  BY <2>0, <2>4, <2>7 DEF Safe
  <2>8. CASE t \notin Drained(p)
    <3>1. \A i \in Nat : ~Queued(p, i, t)  BY <2>3, <2>8
    <3>2. \A h \in Threads : t \in batch[h] => t \in batch'[h]  BY <2>4
    <3>3. \A q \in Proxies, i \in Nat : Queued(q, i, t) => q # p /\ Queued(q, i, t)'
      BY <2>3, <3>1
    <3> QED BY <2>2, <2>5, <2>6, <3>2, <3>3 DEF Safe
  <2> QED BY <2>7, <2>8
<1>5. CASE \E s \in Tasks : Expire(s) \/ ApiDeadline(s) \/ Abandon(s)
  BY <1>1, <1>5 DEF Expire, ApiDeadline, Abandon
<1> QED BY <1>2, <1>3, <1>4, <1>5

\* No removal of a proxy, shutdown of the pool or failed handoff leaves an unsettled
\* task where no thread will look for it; only a reply that omits it can.
THEOREM NobodyStranded == Spec => []NoStranded
<1>1. Init => NoStranded  BY DEF Init, NoStranded
<1>2. Places /\ References /\ NoStranded /\ [Next]_vars => NoStranded'
  <2> SUFFICES ASSUME Places, References, NoStranded, [Next]_vars PROVE NoStranded'
    OBVIOUS
  <2>0. TypeOK'  BY NextPlaces DEF Places
  <2> SUFFICES ASSUME NEW t \in Tasks PROVE Safe(t)'
    <3>1. (TypeOK => (NoStranded <=> \A t \in Tasks : Safe(t)))'  BY SafeMeaning, PTL
    <3> QED BY <2>0, <3>1
  <2>1. TypeOK /\ Safe(t)  BY SafeMeaning DEF Places
  <2>2. Terminal(task[t]) => Terminal(task'[t])
    BY <2>1, NextWrites, WrittenFacts DEF TypeOK
  <2>3. CASE UNCHANGED vars  BY <2>1, <2>3 DEF vars, Safe, Queued
  <2>4. CASE Terminated  BY <2>3, <2>4 DEF Terminated
  <2> QED BY <2>1, <2>2, <2>3, <2>4, SubmitSafe, DispatchSafe, SettleSafe, OtherSafe DEF Next
<1> QED BY <1>1, <1>2, PlacesHold, ReferencesHold, PTL DEF Spec

-----------------------------------------------------------------------------
(* Where tasks are sent                                                    *)

\* The sends of a task nobody wrote, that did not move back to the scheduler.
LEMMA TaskSendsKept ==
    ASSUME NEW t, TaskSends(t), sent'[t] = sent[t],
           task'[t].retry_count = task[t].retry_count,
           t \in fresh' \cup sched'.batch => t \in fresh \cup sched.batch,
           \A p \in Proxies, i \in Nat : Queued(p, i, t)' => OnTheWay(t, p)
    PROVE  TaskSends(t)'
BY DEF TaskSends, OnTheWay

\* A thread that did not move, and whose tasks were not sent or reserved.
LEMMA ThreadSendsKept ==
    ASSUME Holding, NEW th \in Threads, ThreadSends(th), pc'[th] = pc[th],
           batch'[th] \subseteq batch[th], handoff'[th].task = handoff[th].task,
           handoff'[th].idle \cup handoff'[th].busy \subseteq handoff[th].idle \cup handoff[th].busy,
           FailedWorker(th)' = FailedWorker(th),
           \A t \in batch[th] : sent'[t] = sent[t] /\ task'[t].retry_count = task[t].retry_count
    PROVE  ThreadSends(th)'
<1>1. pc[th] \in {"reserve", "try"} => handoff[th].task \in batch[th]  BY DEF Holding
<1>2. \A t \in batch[th] : SentToFailed(t, th) => SentToFailed(t, th)'
  BY DEF SentToFailed
<1>3. \A t \in batch[th] : OnTheWay(t, th) => OnTheWay(t, th)'  BY DEF OnTheWay
<1>4. th \in Proxies /\ pc'[th] \in {"start", "send"} => \A t \in batch'[th] : OnTheWay(t, th)'
  BY <1>3 DEF ThreadSends
<1>5. pc'[th] \in {"rpc", "settle", "reserve", "try"} =>
         \A t \in batch'[th] : task'[t].retry_count = 0 => SentToFailed(t, th)'
  BY <1>2 DEF ThreadSends
<1>6. pc'[th] \in {"reserve", "try"} =>
         /\ HandoffKind(handoff'[th].task)
         /\ \A p \in handoff'[th].idle \cup handoff'[th].busy : WorkerOf[p] # FailedWorker(th)'
  BY DEF ThreadSends
<1>7. pc'[th] = "try" =>
         \A t : t = handoff'[th].task =>
            Len(sent'[t]) <= task'[t].retry_count /\ SentToFailed(t, th)'
  BY <1>1, <1>2 DEF ThreadSends
<1> QED BY <1>4, <1>5, <1>6, <1>7 DEF ThreadSends, HandoffKind

\* A thread that goes back to its loop, or on to the next task.
LEMMA ThreadSendsSettle ==
    ASSUME NEW th, pc'[th] \in {"idle", "rpc", "settle"},
           \A t \in batch'[th] : task'[t].retry_count = 0 => SentToFailed(t, th)'
    PROVE  ThreadSends(th)'
BY DEF ThreadSends

\* A task without a reservation that is on its way was never sent.
LEMMA NotYetSent ==
    ASSUME TypeOK, NEW t \in Tasks, NEW p, OnTheWay(t, p), task[t].retry_count = 0, NEW th
    PROVE  Len(sent[t]) = 0 /\ SentToFailed(t, th)
<1>1. Len(sent[t]) \in Nat  BY LenProperties DEF TypeOK
<1>2. Len(sent[t]) = 0  BY <1>1 DEF OnTheWay
<1> QED BY <1>2 DEF SentToFailed

\* FailedWorker of a dispatch thread is its own worker.
LEMMA ProxyFails == ASSUME NEW p \in Proxies PROVE FailedWorker(p) = WorkerOf[p]
BY DEF FailedWorker

Retries == \A t \in Tasks : task'[t].retry_count = task[t].retry_count

\* GrpcWorkerPool.submit takes tasks from its caller and puts them into queues.
LEMMA SubmitMoves ==
    ASSUME Places, (\E S \in SUBSET fresh : PoolSubmit(S)) \/ SchedulerStep
    PROVE  /\ fresh' \cup sched'.batch \subseteq fresh \cup sched.batch
           /\ \A p \in Proxies, i \in Nat, t \in Tasks : Queued(p, i, t)' =>
                 Queued(p, i, t) \/ t \in sched.batch
           /\ UNCHANGED <<pc, batch, handoff, victim, sent>>
<1> USE DEF poolVars, threadVars, taskVars, clientVars
<1>t. TypeOK /\ Holding  BY DEF Places
<1>0. sched \in SchedStates /\ sched.batch \in SUBSET Tasks /\ sched.group \in SUBSET sched.batch
  BY <1>t DEF TypeOK, SchedStates, Holding
<1>1. UNCHANGED <<pc, batch, handoff, victim, sent>>
  BY DEF SchedulerStep, PoolSubmit, Select, SubmitChosen, Relock, FallbackTry, FallbackFail
<1>2. fresh' \cup sched'.batch \subseteq fresh \cup sched.batch
  <2>1. ASSUME NEW g \in SUBSET sched.batch, GroupDone(g), fresh' = fresh
        PROVE  fresh' \cup sched'.batch \subseteq fresh \cup sched.batch
    BY <1>0, <2>1, GroupDoneFacts
  <2>2. \A k : GroupOf(k) \in SUBSET sched.batch  BY DEF GroupOf
  <2>3. CASE sched'.batch = sched.batch /\ fresh' = fresh  BY <2>3
  <2>4. CASE \E S \in SUBSET fresh : PoolSubmit(S)
    <3>1. PICK S \in SUBSET fresh : PoolSubmit(S)  BY <2>4
    <3>2. sched'.batch = S /\ fresh' = fresh \ S  BY <1>0, <3>1 DEF PoolSubmit, SchedStates
    <3> QED BY <3>2
  <2>5. CASE \E k \in Kinds : Select(k)
    BY <1>0, <2>1, <2>2, <2>3, <2>5 DEF Select, SchedStates
  <2>6. CASE SubmitChosen  BY <1>0, <2>1, <2>3, <2>6 DEF SubmitChosen, SchedStates
  <2>7. CASE Relock  BY <1>0, <2>3, <2>7 DEF Relock, SchedStates
  <2>8. CASE \E p \in Proxies : FallbackTry(p)
    BY <1>0, <2>1, <2>3, <2>8 DEF FallbackTry, SchedStates
  <2>9. CASE FallbackFail  BY <1>0, <2>1, <2>9 DEF FallbackFail
  <2> QED BY <2>4, <2>5, <2>6, <2>7, <2>8, <2>9 DEF SchedulerStep
<1>3. \A p \in Proxies, i \in Nat, t \in Tasks : Queued(p, i, t)' =>
         Queued(p, i, t) \/ t \in sched.batch
  <2>1. CASE queue' = queue  BY <2>1 DEF Queued
  <2>2. ASSUME NEW q \in Proxies, Enqueue(q, sched.group)
        PROVE  \A p \in Proxies, i \in Nat, t \in Tasks : Queued(p, i, t)' =>
                  Queued(p, i, t) \/ t \in sched.batch
    <3>1. sched.group \in SUBSET Tasks  BY <1>0
    <3> QED BY <1>t, <1>0, <2>2, <3>1, Enqueued DEF TypeOK
  <2>3. CASE SubmitChosen  BY <1>t, <2>1, <2>2, <2>3 DEF SubmitChosen, Holding
  <2>4. CASE \E p \in Proxies : FallbackTry(p)  BY <2>1, <2>2, <2>4 DEF FallbackTry
  <2> QED BY <2>1, <2>3, <2>4 DEF SchedulerStep, PoolSubmit, Select, Relock, FallbackFail
<1> QED BY <1>1, <1>2, <1>3

LEMMA SubmitSends ==
    ASSUME Places, Sends, Retries, (\E S \in SUBSET fresh : PoolSubmit(S)) \/ SchedulerStep
    PROVE  Sends'
<1>t. TypeOK /\ Holding  BY DEF Places
<1>u. UNCHANGED <<pc, batch, handoff, victim, sent>>  BY SubmitMoves
<1>1. \A th \in Threads : ThreadSends(th)'
  <2> SUFFICES ASSUME NEW th \in Threads PROVE ThreadSends(th)'  OBVIOUS
  <2>1. ThreadSends(th) /\ FailedWorker(th)' = FailedWorker(th)  BY <1>u DEF Sends, FailedWorker
  <2>2. \A t \in batch[th] : sent'[t] = sent[t] /\ task'[t].retry_count = task[t].retry_count
    BY <1>t, <1>u DEF Retries, TypeOK
  <2> QED BY <1>t, <1>u, <2>1, <2>2, ThreadSendsKept
<1>2. fresh' \cup sched'.batch \subseteq fresh \cup sched.batch  BY SubmitMoves
<1>3. \A p \in Proxies, i \in Nat, t \in Tasks : Queued(p, i, t)' =>
         Queued(p, i, t) \/ t \in sched.batch
  BY SubmitMoves
<1>4. \A t \in Tasks : TaskSends(t)'
  <2> SUFFICES ASSUME NEW t \in Tasks PROVE TaskSends(t)'  OBVIOUS
  <2>1. TaskSends(t)  BY DEF Sends
  <2>2. t \in sched.batch => \A p : OnTheWay(t, p)
    <3>1. Len(<<>>) = 0  BY EmptySeq
    <3> QED BY <2>1, <3>1 DEF TaskSends, OnTheWay
  <2>3. \A p \in Proxies, i \in Nat : Queued(p, i, t)' => OnTheWay(t, p)
    BY <1>3, <2>1, <2>2 DEF TaskSends
  <2> QED BY <1>u, <1>2, <2>1, <2>3, TaskSendsKept DEF Retries
<1> QED BY <1>1, <1>4 DEF Sends

LEMMA DispatchSends ==
    ASSUME Places, Sends, Retries, NEW p \in Proxies, DispatchStep(p) \/ RpcEnds(p)
    PROVE  Sends'
<1> USE DEF poolVars, threadVars, taskVars, clientVars
<1>t. TypeOK /\ Holding /\ Owner  BY DEF Places
<1>0. p \in Threads /\ batch[p] \in SUBSET Tasks  BY <1>t DEF Threads, TypeOK
<1>u. UNCHANGED <<sched, fresh, handoff, victim>>
  BY DEF DispatchStep, RpcEnds, Pop, Start, Send, RpcDeadline, RpcReply, RpcError
<1>w. \A th \in Threads : FailedWorker(th)' = FailedWorker(th)  BY <1>u DEF FailedWorker
<1>s. \A th \in Threads : ThreadSends(th)  BY DEF Sends
<1>h. ASSUME \A th \in Threads : th # p => pc'[th] = pc[th] /\ batch'[th] = batch[th],
             \A t \in Tasks \ batch[p] : sent'[t] = sent[t]
      PROVE  \A th \in Threads : th # p => ThreadSends(th)'
  <2> SUFFICES ASSUME NEW th \in Threads, th # p PROVE ThreadSends(th)'  OBVIOUS
  <2>1. \A t \in batch[th] : t \in Tasks \ batch[p]  BY <1>t, <1>0 DEF Owner, TypeOK
  <2>2. \A t \in batch[th] : sent'[t] = sent[t] /\ task'[t].retry_count = task[t].retry_count
    BY <1>h, <2>1 DEF Retries
  <2> QED BY <1>t, <1>u, <1>w, <1>s, <1>h, <2>2, ThreadSendsKept
<1>k. ASSUME sent' = sent, ThreadSends(p)',
             \A th \in Threads : th # p => pc'[th] = pc[th] /\ batch'[th] = batch[th],
             \A q \in Proxies, i \in Nat, t \in Tasks :
                Queued(q, i, t)' => \E j \in Nat : Queued(q, j, t)
      PROVE  Sends'
  <2>1. \A th \in Threads : ThreadSends(th)'  BY <1>h, <1>k
  <2>2. \A t \in Tasks : TaskSends(t)'
    <3> SUFFICES ASSUME NEW t \in Tasks PROVE TaskSends(t)'  OBVIOUS
    <3>1. TaskSends(t)  BY DEF Sends
    <3>2. \A q \in Proxies, i \in Nat : Queued(q, i, t)' => OnTheWay(t, q)
      BY <1>k, <3>1 DEF TaskSends
    <3> QED BY <1>u, <1>k, <3>1, <3>2, TaskSendsKept DEF Retries
  <2> QED BY <2>1, <2>2 DEF Sends
<1>q. queue' = queue => \A q \in Proxies, i \in Nat, t \in Tasks :
                          Queued(q, i, t)' => \E j \in Nat : Queued(q, j, t)
  BY DEF Queued
<1>m. ASSUME NEW s, pc' = [pc EXCEPT ![p] = s], batch' = batch
      PROVE  /\ pc'[p] = s
             /\ \A th \in Threads : th # p => pc'[th] = pc[th] /\ batch'[th] = batch[th]
  BY <1>t, <1>0, <1>m DEF TypeOK
<1>i. ASSUME Idle(p), queue' = queue, sent' = sent PROVE Sends'
  <2>1. batch'[p] = {} /\ pc'[p] = "idle"  BY <1>t, <1>0, <1>i DEF Idle, TypeOK
  <2>2. \A th \in Threads : th # p => pc'[th] = pc[th] /\ batch'[th] = batch[th]
    BY <1>t, <1>i DEF Idle, TypeOK
  <2>3. ThreadSends(p)'  BY <2>1, ThreadSendsSettle
  <2> QED BY <1>k, <1>q, <1>i, <2>2, <2>3
<1>b. ASSUME NEW x, SettleBatch(p, x), pc[p] \in {"start", "send", "rpc"}, queue' = queue,
             sent' = sent
      PROVE  Sends'
  <2>1. \A t \in batch[p] : task[t].retry_count = 0 => SentToFailed(t, p)
    BY <1>t, <1>0, <1>b, <1>s, NotYetSent DEF ThreadSends
  <2>2. \A t \in batch[p] : SentToFailed(t, p) => SentToFailed(t, p)'
    BY <1>0, <1>w, <1>b DEF SentToFailed
  <2>3. pc' = [pc EXCEPT ![p] = "settle"] /\ batch' = batch  BY <1>b DEF SettleBatch
  <2>4. pc'[p] = "settle" /\ \A t \in batch'[p] : task'[t].retry_count = 0 => SentToFailed(t, p)'
    BY <1>0, <1>m, <2>1, <2>2, <2>3 DEF Retries
  <2>5. ThreadSends(p)'  BY <2>4, ThreadSendsSettle
  <2> QED BY <1>k, <1>q, <1>m, <1>b, <2>3, <2>5
<1>1. CASE Pop(p)
  <2> DEFINE active == {t \in Head(queue[p]) : ~Terminal(task[t]) /\ t \notin expired}
  <2>1. /\ pc' = [pc EXCEPT ![p] = IF active = {} THEN "idle" ELSE "start"]
        /\ batch' = [batch EXCEPT ![p] = active] /\ sent' = sent
        /\ queue[p] # <<>> /\ queue' = [queue EXCEPT ![p] = Tail(@)]
    BY <1>1 DEF Pop
  <2>2. /\ \A t : t \in Head(queue[p]) <=> Queued(p, 1, t)
        /\ Head(queue[p]) \in SUBSET Tasks
        /\ \A q \in Proxies, i \in Nat, t \in Tasks :
              Queued(q, i, t)' <=> IF q = p THEN i # 0 /\ Queued(p, i + 1, t)
                                   ELSE Queued(q, i, t)
    BY <1>t, <2>1, Dequeued DEF TypeOK
  <2>3. \A t \in active : Queued(p, 1, t) /\ t \in Tasks  BY <2>2
  <2> HIDE DEF active
  <2>4. /\ batch'[p] = active /\ pc'[p] \in {"idle", "start"}
        /\ \A th \in Threads : th # p => pc'[th] = pc[th] /\ batch'[th] = batch[th]
    BY <1>t, <1>0, <2>1 DEF TypeOK
  <2>5. \A t \in active : OnTheWay(t, p)  BY <2>3 DEF Sends, TaskSends
  <2>6. \A t \in active : OnTheWay(t, p)'  BY <2>1, <2>3, <2>5 DEF OnTheWay, Retries
  <2>7. ThreadSends(p)'  BY <2>4, <2>6 DEF ThreadSends
  <2>8. \A i \in Nat : i + 1 \in Nat  OBVIOUS
  <2>9. \A q \in Proxies, i \in Nat, t \in Tasks :
           Queued(q, i, t)' => \E j \in Nat : Queued(q, j, t)
    BY <2>2, <2>8
  <2> QED BY <1>k, <2>1, <2>4, <2>7, <2>9
<1>2. CASE Start(p)
  <2>1. pc[p] = "start" /\ queue' = queue /\ sent' = sent  BY <1>2 DEF Start
  <2>2. CASE pc' = [pc EXCEPT ![p] = "send"] /\ batch' = batch
    <3>1. \A t \in batch[p] : OnTheWay(t, p)  BY <1>0, <1>s, <2>1 DEF ThreadSends
    <3>2. \A t \in batch[p] : OnTheWay(t, p)'  BY <1>0, <2>1, <3>1 DEF OnTheWay, Retries
    <3>3. pc'[p] = "send" /\ batch'[p] = batch[p]  BY <1>m, <2>2
    <3>4. ThreadSends(p)'  BY <3>2, <3>3 DEF ThreadSends
    <3> QED BY <1>k, <1>q, <1>m, <2>1, <2>2, <3>4
  <2> QED BY <1>b, <1>2, <2>1, <2>2 DEF Start
<1>3. CASE Send(p)
  <2>1. pc[p] = "send" /\ queue' = queue  BY <1>3 DEF Send
  <2>2. CASE /\ sent' = [t \in Tasks |-> IF t \in batch[p] THEN Append(sent[t], WorkerOf[p])
                                          ELSE sent[t]]
             /\ pc' = [pc EXCEPT ![p] = "rpc"] /\ UNCHANGED <<task, batch, allow>>
    <3>1. ASSUME NEW t \in batch[p]
          PROVE  /\ OnTheWay(t, p) /\ Len(sent[t]) \in Nat
                 /\ Len(sent'[t]) = Len(sent[t]) + 1
                 /\ \A i \in 1 .. Len(sent[t]) : sent'[t][i] = sent[t][i]
                 /\ sent'[t][Len(sent[t]) + 1] = WorkerOf[p]
      <4>1. t \in Tasks /\ sent[t] \in Seq(WorkerIds) /\ WorkerOf[p] \in WorkerIds
        BY <1>t, <1>0, <3>1, PoolAssumption DEF TypeOK
      <4>2. sent'[t] = Append(sent[t], WorkerOf[p])  BY <2>2, <3>1, <4>1
      <4>3. OnTheWay(t, p)  BY <1>0, <1>s, <2>1, <3>1 DEF ThreadSends
      <4> QED BY <4>1, <4>2, <4>3, AppendProperties, LenProperties
    <3>2. \A t \in Tasks \ batch[p] : sent'[t] = sent[t]  BY <2>2
    <3>3. \A th \in Threads : th # p => ThreadSends(th)'  BY <1>h, <1>m, <2>2, <3>2
    <3>4. ThreadSends(p)'
      <4>0. pc'[p] = "rpc" /\ batch'[p] = batch[p]  BY <1>m, <2>2
      <4> SUFFICES ASSUME NEW t \in batch[p], task[t].retry_count = 0
                   PROVE  SentToFailed(t, p)'
        BY <1>0, <2>2, <4>0, ThreadSendsSettle
      <4>1. Len(sent[t]) = 0  BY <1>t, <1>0, <3>1, NotYetSent
      <4>2. Len(sent'[t]) = 1 /\ sent'[t][1] = WorkerOf[p]
        <5>1. Len(sent'[t]) = Len(sent[t]) + 1 /\ sent'[t][Len(sent[t]) + 1] = WorkerOf[p]
          BY <3>1
        <5>2. Len(sent[t]) + 1 = 1  BY <4>1
        <5> QED BY <5>1, <5>2
      <4>3. FailedWorker(p)' = WorkerOf[p]  BY <1>0, <1>w, ProxyFails
      <4> QED BY <4>2, <4>3 DEF SentToFailed
    <3>5. ASSUME NEW t \in Tasks PROVE TaskSends(t)'
      <4>1. TaskSends(t)  BY DEF Sends
      <4>2. CASE t \notin batch[p]
        <5>1. \A q \in Proxies, i \in Nat : Queued(q, i, t)' => OnTheWay(t, q)
          BY <1>q, <2>1, <4>1 DEF TaskSends
        <5> QED BY <1>u, <3>2, <4>1, <4>2, <5>1, TaskSendsKept DEF Retries
      <4>3. CASE t \in batch[p]
        <5>1. /\ t \notin fresh' \cup sched'.batch
              /\ \A q \in Proxies, i \in Nat : ~Queued(q, i, t)'
          BY <1>t, <1>0, <1>u, <1>q, <2>1, <4>3 DEF Owner
        <5>2. task'[t].retry_count = task[t].retry_count /\ task[t].retry_count \in Nat
          <6>1. task[t] \in TaskRecord  BY <1>t DEF TypeOK
          <6> QED BY <6>1 DEF Retries, TaskRecord
        <5>3. Len(sent'[t]) <= 1 + task'[t].retry_count  BY <3>1, <4>3, <5>2 DEF OnTheWay
        <5>4. \A i, j \in 1 .. Len(sent'[t]) : sent'[t][i] = sent'[t][j] => i = j
          <6> DEFINE s == sent[t]
                     r == sent'[t]
                     n == Len(sent[t])
          <6>1. /\ n \in Nat /\ Len(r) = n + 1 /\ r[n + 1] = WorkerOf[p]
                /\ \A i \in 1 .. n : r[i] = s[i] /\ s[i] # WorkerOf[p]
                /\ \A i, j \in 1 .. n : s[i] = s[j] => i = j
            <7>1. sent[t] \in Seq(WorkerIds)  BY <1>t DEF TypeOK
            <7> QED BY <3>1, <4>1, <4>3, <7>1, LenProperties DEF OnTheWay, TaskSends
          <6> HIDE DEF s, r, n
          <6>2. \A i \in 1 .. n + 1 : i \in 1 .. n \/ i = n + 1  BY <6>1
          <6>3. \A i, j \in 1 .. n + 1 : r[i] = r[j] => i = j  BY <6>1, <6>2
          <6> QED BY <6>1, <6>3 DEF r
        <5>5. Kind[t] \in NonRetryKinds => task'[t].retry_count = 0  BY <4>1, <5>2 DEF TaskSends
        <5> QED BY <5>1, <5>3, <5>4, <5>5 DEF TaskSends
      <4> QED BY <4>2, <4>3
    <3> QED BY <3>3, <3>4, <3>5 DEF Sends
  <2> QED BY <1>b, <1>i, <1>3, <2>1, <2>2 DEF Send
<1>4. CASE RpcDeadline(p) \/ RpcReply(p)  BY <1>i, <1>4 DEF RpcDeadline, RpcReply
<1>5. CASE \E code \in RpcCodes : RpcError(p, code)  BY <1>b, <1>5 DEF RpcError
<1> QED BY <1>1, <1>2, <1>3, <1>4, <1>5 DEF DispatchStep, RpcEnds

LEMMA SettleSends ==
    ASSUME Places, Sends, NEW th \in Threads, SettleStep(th)
    PROVE  Sends'
<1> USE DEF poolVars, threadVars, taskVars, clientVars
<1>t. TypeOK /\ Holding /\ Owner  BY DEF Places
<1>0. batch[th] \in SUBSET Tasks  BY <1>t DEF TypeOK
<1>u. UNCHANGED <<sched, fresh, victim, sent>>  BY DEF SettleStep, Settle, Reserve, TryNext
<1>w. \A h \in Threads : FailedWorker(h)' = FailedWorker(h)  BY <1>u DEF FailedWorker
<1>s. \A h \in Threads : ThreadSends(h)  BY DEF Sends
<1>f. ASSUME NEW s, NEW code \in ErrorCodes, task' = [task EXCEPT ![s] = MarkFailed(@, code)]
      PROVE  Retries
  <2> SUFFICES ASSUME NEW t \in Tasks PROVE task'[t].retry_count = task[t].retry_count
    BY DEF Retries
  <2>1. task[t] \in TaskRecord /\ task'[t] \in {task[t], MarkFailed(task[t], code)}
    BY <1>t, <1>f DEF TypeOK
  <2> QED BY <2>1, MarkFacts
<1>e. task' = task => Retries  BY DEF Retries
<1>h. ASSUME \A t \in Tasks \ batch[th] : task'[t].retry_count = task[t].retry_count,
             \A h \in Threads : h # th => /\ pc'[h] = pc[h] /\ batch'[h] = batch[h]
                                          /\ handoff'[h] = handoff[h]
      PROVE  \A h \in Threads : h # th => ThreadSends(h)'
  <2> SUFFICES ASSUME NEW h \in Threads, h # th PROVE ThreadSends(h)'  OBVIOUS
  <2>1. \A t \in batch[h] : t \in Tasks \ batch[th]  BY <1>t DEF Owner, TypeOK
  <2>2. \A t \in batch[h] : sent'[t] = sent[t] /\ task'[t].retry_count = task[t].retry_count
    BY <1>u, <1>h, <2>1
  <2> QED BY <1>t, <1>w, <1>s, <1>h, <2>2, ThreadSendsKept
<1>k. ASSUME Retries, NEW S \in SUBSET Proxies, NEW s \in Tasks,
             \A p \in S : OnTheWay(s, p),
             \A q \in Proxies, i \in Nat, t \in Tasks :
                Queued(q, i, t)' => Queued(q, i, t) \/ (t = s /\ q \in S)
      PROVE  \A t \in Tasks : TaskSends(t)'
  <2> SUFFICES ASSUME NEW t \in Tasks PROVE TaskSends(t)'  OBVIOUS
  <2>1. TaskSends(t)  BY DEF Sends
  <2>2. \A q \in Proxies, i \in Nat : Queued(q, i, t)' => OnTheWay(t, q)
    BY <1>k, <2>1 DEF TaskSends
  <2> QED BY <1>u, <1>k, <2>1, <2>2, TaskSendsKept DEF Retries
<1>q. ASSUME Retries, queue' = queue PROVE \A t \in Tasks : TaskSends(t)'
  <2> SUFFICES ASSUME NEW t \in Tasks PROVE TaskSends(t)'  OBVIOUS
  <2>1. TaskSends(t)  BY DEF Sends
  <2>2. \A q \in Proxies, i \in Nat : Queued(q, i, t)' => OnTheWay(t, q)
    BY <1>q, <2>1 DEF TaskSends, Queued
  <2> QED BY <1>u, <1>q, <2>1, <2>2, TaskSendsKept DEF Retries
<1>d. ASSUME NEW s, Settled(th, s), Retries, pc[th] \in {"settle", "reserve", "try"}
      PROVE  \A h \in Threads : ThreadSends(h)'
  <2>1. /\ pc'[th] \in {"idle", "settle"} /\ batch'[th] \subseteq batch[th]
        /\ \A h \in Threads : h # th => /\ batch'[h] = batch[h] /\ pc'[h] = pc[h]
                                         /\ handoff'[h] = handoff[h]
    BY <1>t, <1>d, SettledFacts DEF TypeOK
  <2>2. \A t \in batch[th] : task[t].retry_count = 0 => SentToFailed(t, th)
    BY <1>s, <1>d DEF ThreadSends
  <2>3. \A t \in batch'[th] : task'[t].retry_count = 0 => SentToFailed(t, th)'
    BY <1>0, <1>u, <1>w, <1>d, <2>1, <2>2 DEF SentToFailed, Retries
  <2>4. ThreadSends(th)'  BY <2>1, <2>3, ThreadSendsSettle
  <2>5. \A t \in Tasks \ batch[th] : task'[t].retry_count = task[t].retry_count
    BY <1>d DEF Retries
  <2>6. \A h \in Threads : h # th => ThreadSends(h)'  BY <1>h, <2>1, <2>5
  <2> QED BY <2>4, <2>6
<1>1. CASE Settle(th)
  <2>1. PICK s \in batch[th] : FinishDirectly(th, s) \/ FindCandidates(th, s)
    BY <1>1 DEF Settle
  <2>2. queue' = queue /\ pc[th] = "settle"  BY <1>1 DEF Settle
  <2>3. CASE Settled(th, s)
    <3>1. Retries
      BY <1>e, <1>f, <2>1, <2>3, CodesKnown DEF FinishDirectly, FindCandidates, FailedFinally
    <3> QED BY <1>d, <1>q, <2>2, <2>3, <3>1 DEF Sends
  <2>4. CASE /\ HandoffKind(s) /\ pc' = [pc EXCEPT ![th] = "reserve"]
             /\ handoff' = [handoff EXCEPT ![th] =
                   [task |-> s, idle |-> Candidates(th, s), busy |-> {}]]
             /\ UNCHANGED <<task, batch>>
    <3>1. /\ pc'[th] = "reserve" /\ handoff'[th].task = s
          /\ handoff'[th].idle \cup handoff'[th].busy = Candidates(th, s)
          /\ \A h \in Threads : h # th => pc'[h] = pc[h] /\ handoff'[h] = handoff[h]
      BY <1>t, <2>4 DEF TypeOK
    <3>2. \A t \in batch[th] : task[t].retry_count = 0 => SentToFailed(t, th)
      BY <1>s, <2>2 DEF ThreadSends
    <3>3. \A t \in batch'[th] : task'[t].retry_count = 0 => SentToFailed(t, th)'
      BY <1>u, <1>w, <2>4, <3>2 DEF SentToFailed
    <3>4. \A p \in Candidates(th, s) : WorkerOf[p] # FailedWorker(th)'
      BY <1>w DEF Candidates
    <3>5. ThreadSends(th)'  BY <2>4, <3>1, <3>3, <3>4 DEF ThreadSends, HandoffKind
    <3>6. \A h \in Threads : h # th => ThreadSends(h)'  BY <1>h, <2>4, <3>1
    <3> QED BY <1>e, <1>q, <2>2, <2>4, <3>5, <3>6 DEF Sends
  <2> QED BY <2>1, <2>3, <2>4 DEF FinishDirectly, FindCandidates
<1>2. CASE Reserve(th)
  <2> DEFINE s == handoff[th].task
  <2>0. s \in batch[th] /\ s \in Tasks /\ pc[th] = "reserve" /\ queue' = queue
    BY <1>t, <1>0, <1>2 DEF Reserve, Holding
  <2>1. CASE FailedFinally(s) /\ Settled(th, s)
    BY <1>d, <1>f, <1>q, <2>0, <2>1, CodesKnown DEF FailedFinally, Sends
  <2>2. CASE /\ CanReserve(task[s], s \in expired)
             /\ task' = [task EXCEPT ![s] = ReserveRetry(@)]
             /\ pc' = [pc EXCEPT ![th] = "try"]
             /\ handoff' = [handoff EXCEPT ![th].idle = {p \in handoff[th].idle : ~Busy(p)},
                                           ![th].busy = {p \in handoff[th].idle : Busy(p)}]
             /\ UNCHANGED batch
    <3> DEFINE I == {p \in handoff[th].idle : ~Busy(p)}
               B == {p \in handoff[th].idle : Busy(p)}
    <3>1. I \cup B \subseteq handoff[th].idle /\ handoff[th] \in Handoffs
      BY <1>t DEF TypeOK
    <3>2. /\ handoff'[th] = [[handoff[th] EXCEPT !.idle = I] EXCEPT !.busy = B]
          /\ \A h \in Threads : h # th => handoff'[h] = handoff[h]
      BY <1>t, <2>2 DEF TypeOK
    <3> HIDE DEF I, B
    <3>3. handoff'[th].idle = I /\ handoff'[th].busy = B /\ handoff'[th].task = s
      BY <3>1, <3>2 DEF Handoffs
    <3>4. pc'[th] = "try" /\ batch' = batch /\ \A h \in Threads : h # th => pc'[h] = pc[h]
      BY <1>t, <2>2 DEF TypeOK
    <3>5. (s \in expired) \in BOOLEAN  OBVIOUS
    <3>6. task[s].retry_count = 0 /\ task'[s].retry_count = 1
      BY <1>t, <2>0, <2>2, <3>5, ReserveFacts DEF TypeOK
    <3>7. \A t \in Tasks : t # s => task'[t] = task[t]  BY <1>t, <2>2 DEF TypeOK
    <3>8. HandoffKind(s) /\ \A p \in I \cup B : WorkerOf[p] # FailedWorker(th)
      BY <1>s, <2>0, <3>1 DEF ThreadSends
    <3>9. \A t \in batch[th] : task[t].retry_count = 0 => SentToFailed(t, th)
      BY <1>s, <2>0 DEF ThreadSends
    <3> HIDE DEF s
    <3>10. \A t : SentToFailed(t, th) => SentToFailed(t, th)'
      BY <1>u, <1>w DEF SentToFailed
    <3>11. Len(sent[s]) <= 1 /\ Len(sent'[s]) <= task'[s].retry_count
      BY <1>u, <2>0, <3>6 DEF Sends, TaskSends
    <3>12. ThreadSends(th)'
      <4>1. \A t \in batch'[th] : task'[t].retry_count = 0 => SentToFailed(t, th)'
        BY <1>0, <3>4, <3>6, <3>7, <3>9, <3>10
      <4>2. \A t : t = s => SentToFailed(t, th)'  BY <2>0, <3>6, <3>9, <3>10
      <4>3. \A p \in handoff'[th].idle \cup handoff'[th].busy : WorkerOf[p] # FailedWorker(th)'
        BY <1>w, <3>3, <3>8
      <4> QED BY <3>3, <3>4, <3>8, <3>11, <4>1, <4>2, <4>3 DEF ThreadSends, HandoffKind
    <3>13. \A h \in Threads : h # th => ThreadSends(h)'
      BY <1>h, <2>0, <3>2, <3>4, <3>7
    <3>14. ASSUME NEW t \in Tasks PROVE TaskSends(t)'
      <4>1. TaskSends(t)  BY DEF Sends
      <4>2. CASE t # s
        <5>1. \A q \in Proxies, i \in Nat : Queued(q, i, t)' => OnTheWay(t, q)
          BY <2>0, <4>1 DEF TaskSends, Queued
        <5> QED BY <1>u, <3>7, <4>1, <4>2, <5>1, TaskSendsKept
      <4>3. CASE t = s
        <5>1. /\ t \notin fresh' \cup sched'.batch
              /\ \A q \in Proxies, i \in Nat : ~Queued(q, i, t)'
          BY <1>t, <1>u, <2>0, <4>3 DEF Owner, Queued
        <5>2. Len(sent'[t]) <= 1 + task'[t].retry_count
          BY <1>u, <3>6, <3>11, <4>3
        <5>3. Kind[t] \notin NonRetryKinds  BY <3>8, <4>3 DEF HandoffKind
        <5> QED BY <1>u, <4>1, <5>1, <5>2, <5>3 DEF TaskSends
      <4> QED BY <4>2, <4>3
    <3> QED BY <3>12, <3>13, <3>14 DEF Sends
  <2> QED BY <1>2, <2>1, <2>2 DEF Reserve
<1>3. CASE TryNext(th)
  <2> DEFINE s == handoff[th].task
  <2>0. s \in batch[th] /\ s \in Tasks /\ pc[th] = "try"
        /\ handoff[th].idle \cup handoff[th].busy \in SUBSET Proxies
    BY <1>t, <1>3 DEF TryNext, Holding, TypeOK, Handoffs
  <2>1. CASE FailedFinally(s) /\ Settled(th, s) /\ UNCHANGED queue
    BY <1>d, <1>f, <1>q, <2>0, <2>1, CodesKnown DEF FailedFinally, Sends
  <2>2. ASSUME NEW p \in handoff[th].idle \cup handoff[th].busy,
               Enqueue(p, {s}), Settled(th, s), UNCHANGED task
        PROVE  Sends'
    <3>1. p \in Proxies /\ {s} \in SUBSET Tasks  BY <2>0, <2>2
    <3>2. \A q \in Proxies, i \in Nat, t \in Tasks :
             Queued(q, i, t)' => Queued(q, i, t) \/ (t = s /\ q \in {p})
      <4>1. \A q \in Proxies, i \in Nat, t \in Tasks :
               Queued(q, i, t)' <=>
                  Queued(q, i, t) \/ (q = p /\ i = Len(queue[p]) + 1 /\ t \in {s})
        BY <1>t, <2>2, <3>1, Enqueued DEF TypeOK
      <4> QED BY <4>1
    <3>3. OnTheWay(s, p)
      <4>1. /\ Len(sent[s]) <= task[s].retry_count /\ SentToFailed(s, th)
            /\ WorkerOf[p] # FailedWorker(th)
        BY <1>s, <2>0, <2>2 DEF ThreadSends
      <4> QED BY <4>1 DEF OnTheWay, SentToFailed
    <3>4. {p} \in SUBSET Proxies /\ \A r \in {p} : OnTheWay(s, r)  BY <3>1, <3>3
    <3>5. Retries  BY <1>e, <2>2
    <3>6. \A t \in Tasks : TaskSends(t)'  BY <1>k, <2>0, <3>2, <3>4, <3>5
    <3> QED BY <1>d, <2>0, <2>2, <3>5, <3>6 DEF Sends
  <2>3. ASSUME NEW p,
               handoff' = [handoff EXCEPT ![th].idle = @ \ {p}, ![th].busy = @ \ {p}],
               UNCHANGED <<task, queue, pc, batch>>
        PROVE  Sends'
    <3>1. /\ handoff'[th].task = handoff[th].task
          /\ handoff'[th].idle = handoff[th].idle \ {p}
          /\ handoff'[th].busy = handoff[th].busy \ {p}
          /\ \A h \in Threads : h # th => handoff'[h] = handoff[h]
      BY <1>t, <2>3, RefusedFacts DEF TypeOK
    <3>2. ThreadSends(th)'
      BY <1>t, <1>u, <1>w, <1>s, <2>3, <3>1, ThreadSendsKept
    <3>3. \A h \in Threads : h # th => ThreadSends(h)'  BY <1>h, <2>3, <3>1
    <3> QED BY <1>e, <1>q, <2>3, <3>2, <3>3 DEF Sends
  <2> QED BY <1>3, <2>1, <2>2, <2>3 DEF TryNext
<1> QED BY <1>1, <1>2, <1>3 DEF SettleStep

LEMMA OtherSends ==
    ASSUME Places, Sends, Retries,
           \/ \E s \in Snapshots : UpdateWorkers(s.up, s.drain)
           \/ PoolStop
           \/ \E th \in Stoppers, p \in Proxies : StopProxy(th, p)
           \/ \E t \in Tasks : Expire(t) \/ ApiDeadline(t) \/ Abandon(t)
           \/ UNCHANGED vars
    PROVE  Sends'
<1> USE DEF poolVars, threadVars, taskVars, clientVars
<1>t. TypeOK /\ Holding  BY DEF Places
<1>s. \A th \in Threads : ThreadSends(th)  BY DEF Sends
<1>b. \A th \in Threads : batch[th] \in SUBSET Tasks  BY <1>t DEF TypeOK
<1>u. UNCHANGED <<sched, fresh, sent, handoff>>
  BY DEF UpdateWorkers, PoolStop, StopProxy, Expire, ApiDeadline, Abandon, vars
<1>k. ASSUME \A q \in Proxies, i \in Nat, t \in Tasks : Queued(q, i, t)' => Queued(q, i, t)
      PROVE  \A t \in Tasks : TaskSends(t)'
  <2> SUFFICES ASSUME NEW t \in Tasks PROVE TaskSends(t)'  OBVIOUS
  <2>1. TaskSends(t)  BY DEF Sends
  <2>2. \A q \in Proxies, i \in Nat : Queued(q, i, t)' => OnTheWay(t, q)
    BY <1>k, <2>1 DEF TaskSends
  <2> QED BY <1>u, <2>1, <2>2, TaskSendsKept DEF Retries
<1>h. ASSUME NEW th \in Threads, pc'[th] = pc[th], batch'[th] = batch[th],
             FailedWorker(th)' = FailedWorker(th)
      PROVE  ThreadSends(th)'
  <2>1. \A t \in batch[th] : sent'[t] = sent[t] /\ task'[t].retry_count = task[t].retry_count
    BY <1>b, <1>u DEF Retries
  <2> QED BY <1>t, <1>s, <1>u, <1>h, <2>1, ThreadSendsKept
<1>1. CASE \E th \in Stoppers, p \in Proxies : StopProxy(th, p)
  <2>1. PICK th \in Stoppers, p \in Proxies : StopProxy(th, p)  BY <1>1
  <2>0. th \in Threads  BY DEF Threads
  <2>2. /\ \A t : t \in Drained(p) <=> \E i \in Nat : Queued(p, i, t)
        /\ Drained(p) \in SUBSET Tasks
        /\ \A q \in Proxies, i \in Nat, t \in Tasks :
              Queued(q, i, t)' <=> q # p /\ Queued(q, i, t)
    BY <1>t, <2>1, Emptied DEF StopProxy, TypeOK
  <2>3. /\ batch'[th] = Drained(p) /\ pc'[th] \in {"idle", "settle"}
        /\ \A h \in Threads : h # th => batch'[h] = batch[h] /\ pc'[h] = pc[h]
    BY <1>t, <2>0, <2>1 DEF StopProxy, TypeOK
  <2>4. \A h \in Threads : h # th => FailedWorker(h)' = FailedWorker(h)
    BY <1>t, <2>1 DEF StopProxy, FailedWorker, TypeOK, Threads
  <2>5. \A t \in Drained(p) : task'[t].retry_count = 0 => SentToFailed(t, th)'
    <3> SUFFICES ASSUME NEW t \in Drained(p), task'[t].retry_count = 0
                 PROVE  SentToFailed(t, th)'
      OBVIOUS
    <3>1. t \in Tasks /\ task[t].retry_count = 0 /\ OnTheWay(t, p)
      BY <2>2 DEF Retries, Sends, TaskSends
    <3>2. Len(sent[t]) = 0  BY <1>t, <3>1, NotYetSent
    <3> QED BY <1>u, <3>2 DEF SentToFailed
  <2>6. ThreadSends(th)'  BY <2>3, <2>5, ThreadSendsSettle
  <2>7. \A h \in Threads : ThreadSends(h)'  BY <1>h, <2>3, <2>4, <2>6
  <2> QED BY <1>k, <2>2, <2>7 DEF Sends
<1>2. CASE ~\E th \in Stoppers, p \in Proxies : StopProxy(th, p)
  <2>1. UNCHANGED <<pc, batch, queue, victim>>
    BY <1>2 DEF UpdateWorkers, PoolStop, Expire, ApiDeadline, Abandon, vars
  <2>2. \A th \in Threads : FailedWorker(th)' = FailedWorker(th)  BY <2>1 DEF FailedWorker
  <2>3. \A q \in Proxies, i \in Nat, t \in Tasks : Queued(q, i, t)' => Queued(q, i, t)
    BY <2>1 DEF Queued
  <2> QED BY <1>h, <1>k, <2>1, <2>2, <2>3 DEF Sends
<1> QED BY <1>1, <1>2

LEMMA NextSends == Places /\ Sends /\ [Next]_vars => Sends'
<1> SUFFICES ASSUME Places, Sends, [Next]_vars PROVE Sends'  OBVIOUS
<1>1. CASE \E th \in Threads : Reserve(th)  BY <1>1, SettleSends DEF SettleStep
<1>2. CASE ~\E th \in Threads : Reserve(th)
  <2>1. \A t \in Tasks : Written(t) /\ ~Reserves(t)  BY <1>2, NextWrites DEF Reserves
  <2>2. Retries  BY <2>1, WrittenFacts DEF Retries, Places, TypeOK
  <2> QED BY <2>2, SubmitSends, DispatchSends, SettleSends, OtherSends DEF Next, Terminated
<1> QED BY <1>1, <1>2

LEMMA SendsHold == Spec => []Sends
<1>1. Init => Sends
  <2> SUFFICES ASSUME Init PROVE Sends  OBVIOUS
  <2>1. \A p \in Proxies, i \in Nat, t \in Tasks : ~Queued(p, i, t)
    BY EmptySeq DEF Init, NewProxies, Queued
  <2>2. \A t \in Tasks : sent[t] = <<>> /\ task[t].retry_count = 0  BY DEF Init, NewTask
  <2>3. Len(<<>>) = 0  BY EmptySeq
  <2>4. \A t \in Tasks : TaskSends(t)
    <3> SUFFICES ASSUME NEW t \in Tasks PROVE TaskSends(t)  OBVIOUS
    <3>1. Len(sent[t]) = 0  BY <2>2, <2>3
    <3> QED BY <2>1, <2>2, <3>1 DEF TaskSends
  <2>5. \A th \in Threads : ThreadSends(th)  BY DEF Init, NewProxies, ThreadSends
  <2> QED BY <2>4, <2>5 DEF Sends
<1>2. Places /\ Sends /\ [Next]_vars => Sends'  BY NextSends
<1> QED BY <1>1, <1>2, PlacesHold, PTL DEF Spec

\* The single retry of try_reserve_retry bounds the handoffs: a task is sent at most
\* twice, the second time to another worker, and a synthx task once.
THEOREM AtMostOneHandoff == Spec => []HandoffOnce
<1>1. Places /\ Sends => HandoffOnce
  <2> SUFFICES ASSUME Places, Sends, NEW t \in Tasks
               PROVE  /\ Len(sent[t]) <= 1 + task[t].retry_count
                      /\ task[t].retry_count <= 1
                      /\ \A i, j \in 1 .. Len(sent[t]) : sent[t][i] = sent[t][j] => i = j
                      /\ Kind[t] \in NonRetryKinds => Len(sent[t]) <= 1
    BY DEF HandoffOnce
  <2>1. TaskSends(t) /\ task[t] \in TaskRecord  BY DEF Sends, Places, TypeOK
  <2>2. task[t].retry_count \in 0 .. 1  BY <2>1 DEF TaskRecord
  <2> QED BY <2>1, <2>2 DEF TaskSends
<1> QED BY <1>1, PlacesHold, SendsHold, PTL

-----------------------------------------------------------------------------
(* Requests the pool turned away                                           *)

\* Nobody gets hold of a task that nobody has.
LEMMA HeldShrinks ==
    ASSUME Places, [Next]_vars, NEW t \in Tasks, Held(t)'
    PROVE  Held(t)
<1> USE DEF poolVars, threadVars, taskVars, clientVars
<1>t. TypeOK /\ Holding  BY DEF Places
<1>q. queue' = queue => \A p, i : Queued(p, i, t)' => Queued(p, i, t)  BY DEF Queued
<1>1. CASE (\E S \in SUBSET fresh : PoolSubmit(S)) \/ SchedulerStep
  <2>1. /\ fresh' \cup sched'.batch \subseteq fresh \cup sched.batch
        /\ \A p \in Proxies, i \in Nat : Queued(p, i, t)' => Queued(p, i, t) \/ t \in sched.batch
        /\ batch' = batch
    BY <1>1, SubmitMoves
  <2> QED BY <2>1 DEF Held
<1>2. CASE \E p \in Proxies : DispatchStep(p) \/ RpcEnds(p)
  <2>1. PICK p \in Proxies : DispatchStep(p) \/ RpcEnds(p)  BY <1>2
  <2>0. p \in Threads  BY DEF Threads
  <2>2. UNCHANGED <<sched, fresh>>
    BY <2>1 DEF DispatchStep, RpcEnds, Pop, Start, Send, RpcDeadline, RpcReply, RpcError
  <2>3. CASE Pop(p)
    <3> DEFINE active == {s \in Head(queue[p]) : ~Terminal(task[s]) /\ s \notin expired}
    <3>1. /\ batch' = [batch EXCEPT ![p] = active]
          /\ queue[p] # <<>> /\ queue' = [queue EXCEPT ![p] = Tail(@)]
      BY <2>3 DEF Pop
    <3>2. /\ t \in Head(queue[p]) <=> Queued(p, 1, t)
          /\ \A q \in Proxies, i \in Nat :
                Queued(q, i, t)' <=> IF q = p THEN i # 0 /\ Queued(p, i + 1, t)
                                     ELSE Queued(q, i, t)
      BY <1>t, <3>1, Dequeued DEF TypeOK
    <3>3. t \in active => Queued(p, 1, t)  BY <3>2
    <3> HIDE DEF active
    <3>4. \A th \in Threads : t \in batch'[th] => t \in batch[th] \/ t \in active
      BY <1>t, <3>1 DEF TypeOK
    <3>5. \A i \in Nat : i + 1 \in Nat  OBVIOUS
    <3>6. \A q \in Proxies, i \in Nat : Queued(q, i, t)' => \E j \in Nat : Queued(q, j, t)
      BY <3>2, <3>5
    <3> QED BY <2>2, <3>3, <3>4, <3>6 DEF Held
  <2>4. CASE ~Pop(p)
    <3>1. queue' = queue
      BY <2>1, <2>4 DEF DispatchStep, RpcEnds, Start, Send, RpcDeadline, RpcReply, RpcError
    <3>2. CASE Idle(p)
      <4>1. \A th \in Threads : batch'[th] \subseteq batch[th]  BY <1>t, <3>2 DEF Idle, TypeOK
      <4> QED BY <1>q, <2>2, <3>1, <4>1 DEF Held
    <3>3. CASE batch' = batch  BY <1>q, <2>2, <3>1, <3>3 DEF Held
    <3> QED BY <2>1, <2>4, <3>2, <3>3 DEF DispatchStep, RpcEnds, Start, Send, RpcDeadline, RpcReply,
         RpcError, SettleBatch
  <2> QED BY <2>3, <2>4
<1>3. CASE \E th \in Threads : SettleStep(th)
  <2>1. PICK th \in Threads : SettleStep(th)  BY <1>3
  <2>2. UNCHANGED <<sched, fresh>>  BY <2>1 DEF SettleStep, Settle, Reserve, TryNext
  <2>3. \A h \in Threads : batch'[h] \subseteq batch[h]
    <3>1. CASE batch' = batch  BY <3>1
    <3>2. ASSUME NEW s, Settled(th, s) PROVE \A h \in Threads : batch'[h] \subseteq batch[h]
      BY <1>t, <3>2 DEF Settled, TypeOK
    <3> QED BY <2>1, <3>1, <3>2 DEF SettleStep, Settle, Reserve, TryNext, FinishDirectly,
         FindCandidates
  <2>4. CASE queue' = queue  BY <1>q, <2>2, <2>3, <2>4 DEF Held
  <2>5. ASSUME TryNext(th), NEW p \in handoff[th].idle \cup handoff[th].busy,
               Enqueue(p, {handoff[th].task})
        PROVE  Held(t)
    <3>1. p \in Proxies /\ {handoff[th].task} \in SUBSET Tasks /\ handoff[th].task \in batch[th]
      BY <1>t, <2>5 DEF TryNext, Holding, TypeOK, Handoffs
    <3>2. \A q \in Proxies, i \in Nat :
             Queued(q, i, t)' <=> Queued(q, i, t)
                \/ (q = p /\ i = Len(queue[p]) + 1 /\ t \in {handoff[th].task})
      BY <1>t, <2>5, <3>1, Enqueued DEF TypeOK
    <3>3. \A q \in Proxies, i \in Nat : Queued(q, i, t)' => Queued(q, i, t) \/ t \in batch[th]
      BY <3>1, <3>2
    <3> QED BY <2>2, <2>3, <3>3 DEF Held
  <2> QED BY <2>1, <2>4, <2>5 DEF SettleStep, Settle, Reserve, TryNext
<1>4. CASE \E th \in Stoppers, p \in Proxies : StopProxy(th, p)
  <2>1. PICK th \in Stoppers, p \in Proxies : StopProxy(th, p)  BY <1>4
  <2>2. UNCHANGED <<sched, fresh>>  BY <2>1 DEF StopProxy
  <2>3. /\ t \in Drained(p) <=> \E i \in Nat : Queued(p, i, t)
        /\ \A q \in Proxies, i \in Nat : Queued(q, i, t)' <=> q # p /\ Queued(q, i, t)
    BY <1>t, <2>1, Emptied DEF StopProxy, TypeOK
  <2>4. \A h \in Threads : t \in batch'[h] => t \in batch[h] \/ t \in Drained(p)
    BY <1>t, <2>1 DEF StopProxy, TypeOK
  <2> QED BY <2>2, <2>3, <2>4 DEF Held
<1>5. CASE \/ \E s \in Snapshots : UpdateWorkers(s.up, s.drain)
           \/ PoolStop
           \/ \E s \in Tasks : Expire(s) \/ ApiDeadline(s) \/ Abandon(s)
           \/ Terminated \/ UNCHANGED vars
  <2>1. UNCHANGED <<sched, fresh, batch, queue>>
    BY <1>5 DEF UpdateWorkers, PoolStop, Expire, ApiDeadline, Abandon, Terminated, vars
  <2> QED BY <1>q, <2>1 DEF Held
<1> QED BY <1>1, <1>2, <1>3, <1>4, <1>5 DEF Next

\* A step that takes a task from the scheduler and writes tasks queues nothing.
LEMMA TurningAway ==
    ASSUME Places, [Next]_vars, NEW t \in sched.batch \ sched'.batch, task' # task
    PROVE  UNCHANGED <<fresh, batch, queue>>
<1> USE DEF poolVars, threadVars, taskVars, clientVars
<1>1. CASE SchedulerStep
  BY <1>1 DEF SchedulerStep, Select, SubmitChosen, Relock, FallbackTry, FallbackFail
<1>2. CASE \E S \in SUBSET fresh : PoolSubmit(S)  BY <1>2 DEF PoolSubmit
<1>3. CASE \E p \in Proxies : DispatchStep(p) \/ RpcEnds(p)
  BY <1>3 DEF DispatchStep, RpcEnds, Pop, Start, Send, RpcDeadline, RpcReply, RpcError
<1>4. CASE \E th \in Threads : SettleStep(th)
  BY <1>4 DEF SettleStep, Settle, Reserve, TryNext
<1> QED BY <1>1, <1>2, <1>3, <1>4 DEF Next, UpdateWorkers, PoolStop, StopProxy, Expire, ApiDeadline,
     Abandon, Terminated, vars

\* A task is sent only by a thread that has it.
LEMMA SentByHolder ==
    ASSUME Places, [Next]_vars, NEW t \in Tasks, \A th \in Threads : t \notin batch[th]
    PROVE  sent'[t] = sent[t]
<1> USE DEF poolVars, threadVars, taskVars, clientVars
<1>1. CASE \E p \in Proxies : Send(p)
  <2>1. PICK p \in Proxies : Send(p)  BY <1>1
  <2>2. t \notin batch[p]  BY DEF Threads
  <2> QED BY <2>1, <2>2 DEF Send
<1>2. CASE ~\E p \in Proxies : Send(p)
  <2>1. CASE (\E S \in SUBSET fresh : PoolSubmit(S)) \/ SchedulerStep  BY <2>1, SubmitMoves
  <2>2. CASE \E p \in Proxies : DispatchStep(p) \/ RpcEnds(p)
    BY <1>2, <2>2 DEF DispatchStep, RpcEnds, Pop, Start, RpcDeadline, RpcReply, RpcError
  <2>3. CASE \E th \in Threads : SettleStep(th)
    BY <2>3 DEF SettleStep, Settle, Reserve, TryNext
  <2> QED BY <2>1, <2>2, <2>3 DEF Next, UpdateWorkers, PoolStop, StopProxy, Expire, ApiDeadline,
       Abandon, Terminated, vars
<1> QED BY <1>1, <1>2

\* A /predict request answered "overloaded" (HTTP 503) was turned away by the pool: no
\* worker ever saw it, no handoff was spent on it, and none will see it later.
THEOREM TurnedAwayUnsent == Spec => []OverloadedNeverSent
<1>1. Init => TurnedAway  BY DEF Init, TurnedAway, NewTask
<1>2. Places /\ Sends /\ TurnedAway /\ [Next]_vars => TurnedAway'
  <2> SUFFICES ASSUME Places, Sends, TurnedAway, [Next]_vars, NEW t \in Tasks,
                      Kind[t] \notin NonRetryKinds, task'[t].error_code = "overloaded"
               PROVE  sent'[t] = <<>> /\ task'[t].retry_count = 0 /\ ~Held(t)'
    BY DEF TurnedAway
  <2>t. TypeOK /\ Holding /\ Owner  BY DEF Places
  <2>w. Written(t)  BY NextWrites
  <2>k. ASSUME \A th \in Threads : t \notin batch[th]
        PROVE  sent'[t] = sent[t] /\ task'[t].retry_count = task[t].retry_count
    <3>1. ~Reserves(t)  BY <2>t, <2>k DEF Reserves, Holding
    <3> QED BY <2>t, <2>w, <2>k, <3>1, SentByHolder, WrittenFacts DEF TypeOK
  <2>1. CASE task[t].error_code = "overloaded"
    <3>1. sent[t] = <<>> /\ task[t].retry_count = 0 /\ ~Held(t)  BY <2>1 DEF TurnedAway
    <3>2. ~Held(t)'  BY <3>1, HeldShrinks
    <3>3. \A th \in Threads : t \notin batch[th]  BY <3>1 DEF Held
    <3> QED BY <2>k, <3>1, <3>2, <3>3
  <2>2. CASE task[t].error_code # "overloaded"
    <3>1. t \in sched.batch \ sched'.batch
      BY <2>t, <2>w, <2>2, WrittenFacts DEF TypeOK
    <3>2. UNCHANGED <<fresh, batch, queue>>  BY <2>2, <3>1, TurningAway
    <3>3. /\ t \notin fresh /\ (\A th \in Threads : t \notin batch[th])
          /\ \A p \in Proxies, i \in Nat : ~Queued(p, i, t)
      BY <2>t, <3>1 DEF Owner
    <3>4. ~Held(t)'  BY <3>1, <3>2, <3>3 DEF Held, Queued
    <3>5. sent[t] = <<>> /\ task[t].retry_count = 0  BY <3>1 DEF Sends, TaskSends
    <3> QED BY <2>k, <3>3, <3>4, <3>5
  <2> QED BY <2>1, <2>2
<1>3. TurnedAway => OverloadedNeverSent  BY DEF TurnedAway, OverloadedNeverSent
<1> QED BY <1>1, <1>2, <1>3, PlacesHold, SendsHold, PTL DEF Spec
=============================================================================
