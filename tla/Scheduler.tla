----------------------------- MODULE Scheduler ------------------------------
(***************************************************************************)
(* system/queue.py (TaskQueue), system/scheduler.py (Scheduler and its     *)
(* three strategies) and the two settings of system/config.py they read.   *)
(*                                                                         *)
(* Threads: two producers (the event loop that runs the request handlers,  *)
(* and the job gateway), whoever calls /config/..., and the scheduler      *)
(* thread, which passes batches to the batch handler.                      *)
(*                                                                         *)
(* Tasks are numbered in the order of their creation_time, so t < u says   *)
(* that t is the older one.  Batches and the latency-aware buffer are      *)
(* sets: only the age of their members decides anything.  The counters of  *)
(* TaskQueue.stats, which nothing reads back, are left out.                *)
(***************************************************************************)
EXTENDS Naturals, Sequences, FiniteSets

CONSTANTS
    NumTasks,      \* bound: tasks created in a behaviour
    Strategies,    \* values /config/scheduler may set
    BatchSizes,    \* values /config/batch_size may set
    MaxQueue,      \* config.max_queue_size
    BufferFactor   \* the 4 of cap = config.batch_size * 4

ASSUME SchedulerAssumption ==
    /\ NumTasks \in Nat
    /\ Strategies \subseteq {"fifo", "batching", "latency_aware"}
    /\ Strategies # {}
    /\ BatchSizes \subseteq Nat \ {0} /\ 1 \in BatchSizes
    /\ MaxQueue \in Nat \ {0}
    /\ BufferFactor \in Nat \ {0}

Tasks == 1 .. NumTasks
Producers == {"loop", "gateway"}

VARIABLES
    created,    \* number of tasks constructed so far
    making,     \* per producer, the task constructed but not yet queued (or 0)
    refused,    \* tasks turned away by a full queue
    queue,      \* TaskQueue._q
    strategy,   \* config.scheduler_strategy
    batchSize,  \* config.batch_size
    up,         \* ~Scheduler._stop
    buffer,     \* LatencyAwareScheduler._buffer
    stale,      \* tasks not dispatched that passed config.latency_threshold_ms
    sched,      \* the scheduler thread
    handed,     \* tasks passed to the batch handler
    skips       \* history: ticks in which a younger buffered task went first

producerVars == <<created, making, refused>>
configVars == <<strategy, batchSize, up>>
vars == <<created, making, refused, queue, strategy, batchSize, up, buffer, stale,
          sched, handed, skips>>

Created == 1 .. created
AtTop == [pc |-> "top", by |-> "none", batch |-> {}, old |-> {}, cap |-> 0]

TypeOK ==
    /\ created \in 0 .. NumTasks
    /\ making \in [Producers -> 0 .. created]
    /\ refused \subseteq Created
    /\ queue \in Seq(Created) /\ Len(queue) <= MaxQueue
    /\ strategy \in Strategies /\ batchSize \in BatchSizes /\ up \in BOOLEAN
    /\ buffer \subseteq Created /\ stale \subseteq Created /\ handed \subseteq Created
    /\ sched \in [pc : {"top", "collect", "drain", "split", "pick", "hand", "exited"},
                  by : Strategies \cup {"none"}, batch : SUBSET Created,
                  old : SUBSET Created, cap : Nat]
    /\ skips \in [Tasks -> Nat]

Init ==
    /\ created = 0
    /\ making = [p \in Producers |-> 0]
    /\ refused = {}
    /\ queue = <<>>
    /\ strategy \in Strategies
    /\ batchSize \in BatchSizes
    /\ up = TRUE
    /\ buffer = {} /\ stale = {}
    /\ sched = AtTop
    /\ handed = {}
    /\ skips = [t \in Tasks |-> 0]

-----------------------------------------------------------------------------
(* TaskQueue and its producers                                             *)

\* A handler or the gateway constructs a Task, which stamps its creation_time.
\* The gateway may still be in a poll when the scheduler stops.
Create(p) ==
    /\ up \/ p = "gateway"
    /\ making[p] = 0 /\ created < NumTasks
    /\ created' = created + 1
    /\ making' = [making EXCEPT ![p] = created + 1]
    /\ UNCHANGED <<refused, queue, configVars, buffer, stale, sched, handed, skips>>

\* A queue that admits one task too many.
RoomMutant == Len(queue) <= MaxQueue
Room == Len(queue) < MaxQueue

\* TaskQueue.put with timeout 0: queued, or Full (HTTP 503, or job deferred).
Put(p) ==
    LET t == making[p]
    IN /\ t # 0
       /\ \/ Room /\ queue' = Append(queue, t) /\ UNCHANGED refused
          \/ ~Room /\ refused' = refused \cup {t} /\ UNCHANGED queue
       /\ making' = [making EXCEPT ![p] = 0]
       /\ UNCHANGED <<created, configVars, buffer, stale, sched, handed, skips>>

\* SystemConfig.update from POST /config/scheduler and /config/batch_size.
SetScheduler(s) ==
    /\ strategy # s /\ strategy' = s
    /\ UNCHANGED <<producerVars, queue, batchSize, up, buffer, stale, sched, handed,
                   skips>>

SetBatchSize(n) ==
    /\ batchSize # n /\ batchSize' = n
    /\ UNCHANGED <<producerVars, queue, strategy, up, buffer, stale, sched, handed,
                   skips>>

\* Scheduler.stop; its join is bounded, so it orders nothing.
Stop ==
    /\ up /\ up' = FALSE
    /\ UNCHANGED <<producerVars, queue, strategy, batchSize, buffer, stale, sched,
                   handed, skips>>

-----------------------------------------------------------------------------
(* Scheduler._loop and the strategies, on the scheduler thread             *)

outside == <<producerVars, configVars>>

\* Top of the loop: the stop event, then the configured strategy.
Tick ==
    /\ sched.pc = "top"
    /\ sched' = IF ~up THEN [AtTop EXCEPT !.pc = "exited"]
                ELSE IF strategy = "latency_aware"
                THEN [AtTop EXCEPT !.pc = "drain", !.cap = BufferFactor * batchSize]
                ELSE [AtTop EXCEPT !.pc = "collect", !.by = strategy]
    /\ UNCHANGED <<outside, queue, buffer, stale, handed, skips>>

Full == Cardinality(sched.batch) >= batchSize

\* next_batch of FIFOScheduler and BatchingScheduler: one TaskQueue.get.
Get ==
    /\ sched.pc = "collect" /\ ~Full /\ queue # <<>>
    /\ sched' = [sched EXCEPT !.batch = @ \cup {Head(queue)}]
    /\ queue' = Tail(queue)
    /\ UNCHANGED <<outside, buffer, stale, handed, skips>>

\* fifo stops at the first get that times out on an empty queue; batching when
\* its window is over, which is long enough for a first get.
Closes == Full \/ queue = <<>> \/ (sched.by = "batching" /\ sched.batch # {})

Close ==
    /\ sched.pc = "collect" /\ Closes
    /\ sched' = IF sched.batch = {} THEN AtTop
                ELSE [AtTop EXCEPT !.pc = "hand", !.batch = sched.batch]
    /\ UNCHANGED <<outside, queue, buffer, stale, handed, skips>>

\* LatencyAwareScheduler: one get_nowait of queue.drain(cap - len(buffer)).
DrainOne ==
    /\ sched.pc = "drain"
    /\ Cardinality(buffer) < sched.cap /\ queue # <<>>
    /\ buffer' = buffer \cup {Head(queue)}
    /\ queue' = Tail(queue)
    /\ UNCHANGED <<outside, stale, sched, handed, skips>>

DrainEnd ==
    /\ sched.pc = "drain"
    /\ Cardinality(buffer) >= sched.cap \/ queue = <<>>
    /\ sched' = IF buffer = {} THEN AtTop ELSE [AtTop EXCEPT !.pc = "split"]
    /\ UNCHANGED <<outside, queue, buffer, stale, handed, skips>>

\* Tasks cross the latency threshold in the order of their creation.
UpTo(S) == {t \in Created \ handed : \E u \in S : t <= u}

\* old = [t ... if t.age_ms >= threshold]: every age is read at its own
\* moment, so some tasks (late) cross the threshold before their turn comes
\* and older ones just after theirs.
Split ==
    /\ sched.pc = "split"
    /\ \E late \in SUBSET (buffer \ stale) :
          /\ sched' = [sched EXCEPT !.pc = "pick", !.old = (buffer \cap stale) \cup late]
          /\ stale' = stale \cup UpTo(late)
    /\ UNCHANGED <<outside, queue, buffer, handed, skips>>

\* The n oldest tasks of S.
Oldest(S, n) == {t \in S : Cardinality({u \in S : u < t}) < n}

\* A pick that prefers the fresh tasks.
PickedMutant(old, fresh) ==
    IF Cardinality(fresh) >= batchSize THEN Oldest(fresh, batchSize)
    ELSE fresh \cup Oldest(old, batchSize - Cardinality(fresh))
\* A pick that waits until a task is old.
PickedOldMutant(old, fresh) == Oldest(old, batchSize)
\* (sorted(old) + sorted(fresh))[:batch_size]
Picked(old, fresh) ==
    IF Cardinality(old) >= batchSize THEN Oldest(old, batchSize)
    ELSE old \cup Oldest(fresh, batchSize - Cardinality(old))

\* A pick that leaves the batch in the buffer.
RemainingMutant(batch) == buffer
\* The buffer without the tasks of the batch.
Remaining(batch) == buffer \ batch

\* fresh = [t ... if t.age_ms < threshold], read later than old: a task that
\* crossed in between is in neither list and stays in the buffer.
Pick ==
    /\ sched.pc = "pick"
    /\ \E late \in SUBSET (buffer \ stale) :
         LET fresh == buffer \ (stale \cup late)
             batch == Picked(sched.old, fresh)
         IN /\ stale' = (stale \cup UpTo(late)) \ batch
            /\ buffer' = Remaining(batch)
            /\ sched' = IF batch = {} THEN AtTop
                        ELSE [AtTop EXCEPT !.pc = "hand", !.batch = batch]
            /\ skips' = [t \in Tasks |->
                           IF t \in batch THEN 0
                           ELSE IF t \in buffer /\ \E u \in batch : t < u
                           THEN skips[t] + 1 ELSE skips[t]]
    /\ UNCHANGED <<outside, queue, handed>>

\* Call the batch handler; back to the top of the loop.
Hand ==
    /\ sched.pc = "hand"
    /\ handed' = handed \cup sched.batch
    /\ stale' = stale \ sched.batch
    /\ sched' = AtTop
    /\ UNCHANGED <<outside, queue, buffer, skips>>

\* next_batch and the top of the loop; the hand-over is a step of its own.
AssembleStep == Tick \/ Get \/ Close \/ DrainOne \/ DrainEnd \/ Split \/ Pick

-----------------------------------------------------------------------------
Next ==
    \/ \E p \in Producers : Create(p) \/ Put(p)
    \/ \E s \in Strategies : SetScheduler(s)
    \/ \E n \in BatchSizes : SetBatchSize(n)
    \/ Stop
    \/ AssembleStep
    \/ Hand

Spec == Init /\ [][Next]_vars

\* The scheduler thread keeps running.  Nobody has to reconfigure or to stop.
FairSpec == Spec /\ WF_vars(AssembleStep \/ Hand)

-----------------------------------------------------------------------------
(* Safety                                                                  *)

InQueue(t) == \E i \in 1 .. Len(queue) : queue[i] = t

\* Where a task is, with its position when it is queued.
Places(t) ==
    {<<p, 0>> : p \in {q \in Producers : making[q] = t}}
    \cup {<<"queue", i>> : i \in {j \in 1 .. Len(queue) : queue[j] = t}}
    \cup {x \in {<<"buffer", 0>>} : t \in buffer}
    \cup {x \in {<<"batch", 0>>} : t \in sched.batch}
    \cup {x \in {<<"handed", 0>>} : t \in handed}
    \cup {x \in {<<"refused", 0>>} : t \in refused}

\* Every task is in exactly one place until it is handed over or refused:
\* reconfiguration between and during ticks, a full queue and the latency-aware
\* buffer neither lose nor duplicate it.
OnePlace == \A t \in Created : \E x \in Places(t) : Places(t) = {x}

\* "Stale tasks at the front are dispatched before fresh ones": the ages of one
\* tick are read at different moments, so a younger task can overtake one that
\* crosses the threshold meanwhile, but only in a single tick.
OvertakenOnce == \A t \in Tasks : skips[t] <= 1

-----------------------------------------------------------------------------
(* Liveness, under FairSpec                                                *)

\* A queued task stays neither in the queue nor in a half-filled batch: it
\* reaches the pool or the latency-aware buffer, whatever the configuration
\* does meanwhile.
QueueServed ==
    \A t \in Tasks : InQueue(t) \/ t \in sched.batch ~> t \in handed \cup buffer \/ ~up

\* A buffered task reaches the pool unless the strategy is switched away.
BufferServed ==
    \A t \in Tasks : t \in buffer ~> t \in handed \/ ~up \/ strategy # "latency_aware"

\* No task is starved by a queue, a batch or a buffer that its strategy serves.
Served == QueueServed /\ BufferServed

\* What scheduler.py says of the buffer and of reconfiguration: the buffer avoids
\* starvation, and a new strategy takes over the work at the next tick.
NoStarvation == \A t \in Tasks : t \in buffer ~> t \in handed \/ ~up
=============================================================================
