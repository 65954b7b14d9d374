-------------------------- MODULE SchedulerProofs ---------------------------
(***************************************************************************)
(* The safety properties of Scheduler for any number of tasks, any queue   *)
(* and buffer bound and any set of strategies and batch sizes.             *)
(*                                                                         *)
(* OnePlace is proved from Whereabouts, which says the same without        *)
(* counting: the places are disjoint, a queue holds no task twice, and     *)
(* every task is somewhere.  OvertakenOnce needs that the tasks past the   *)
(* latency threshold are the oldest ones (Ages).                           *)
(***************************************************************************)
EXTENDS Scheduler, SequenceTheorems, FiniteSetTheorems, TLAPS

Scheds == [pc : {"top", "collect", "drain", "split", "pick", "hand", "exited"},
           by : Strategies \cup {"none"}, batch : SUBSET Created,
           old : SUBSET Created, cap : Nat]

-----------------------------------------------------------------------------
(* Sequences without repetition                                            *)

Occurs(q, t) == \E i \in 1 .. Len(q) : q[i] = t
NoRepeat(q) == \A i, j \in 1 .. Len(q) : q[i] = q[j] => i = j

\* TaskQueue.get takes the head, and nothing else, out of the queue.
LEMMA Popped ==
    ASSUME NEW S, NEW q \in Seq(S), q # <<>>, NoRepeat(q)
    PROVE  /\ Head(q) \in S /\ Occurs(q, Head(q))
           /\ Tail(q) \in Seq(S) /\ Len(Tail(q)) <= Len(q)
           /\ NoRepeat(Tail(q))
           /\ \A t : Occurs(Tail(q), t) <=> Occurs(q, t) /\ t # Head(q)
<1>1. /\ Head(q) \in S /\ Tail(q) \in Seq(S) /\ Len(Tail(q)) = Len(q) - 1
      /\ \A i \in 1 .. Len(Tail(q)) : Tail(q)[i] = q[i + 1]
  BY HeadTailProperties
<1>2. Len(q) \in Nat /\ Len(q) >= 1 /\ Head(q) = q[1]
  BY EmptySeq
<1>3. NoRepeat(Tail(q))
  BY <1>1, <1>2 DEF NoRepeat
<1>4. ASSUME NEW t, Occurs(Tail(q), t) PROVE Occurs(q, t) /\ t # Head(q)
  <2>1. PICK i \in 1 .. Len(Tail(q)) : Tail(q)[i] = t  BY <1>4 DEF Occurs
  <2>2. i + 1 \in 1 .. Len(q) /\ q[i + 1] = t /\ i + 1 # 1  BY <1>1, <1>2, <2>1
  <2> QED BY <1>2, <2>2 DEF Occurs, NoRepeat
<1>5. ASSUME NEW t, Occurs(q, t), t # Head(q) PROVE Occurs(Tail(q), t)
  <2>1. PICK i \in 1 .. Len(q) : q[i] = t  BY <1>5 DEF Occurs
  <2>2. i - 1 \in 1 .. Len(Tail(q)) /\ Tail(q)[i - 1] = q[i]
    BY <1>1, <1>2, <1>5, <2>1
  <2> QED BY <2>1, <2>2 DEF Occurs
<1>6. Occurs(q, Head(q))  BY <1>2 DEF Occurs
<1> QED BY <1>1, <1>2, <1>3, <1>4, <1>5, <1>6

\* TaskQueue.put adds its task, and nothing else, to the queue.
LEMMA Pushed ==
    ASSUME NEW S, NEW q \in Seq(S), NEW x \in S, NoRepeat(q), ~Occurs(q, x)
    PROVE  /\ Append(q, x) \in Seq(S) /\ Len(Append(q, x)) = Len(q) + 1
           /\ NoRepeat(Append(q, x))
           /\ \A t : Occurs(Append(q, x), t) <=> Occurs(q, t) \/ t = x
<1>1. /\ Append(q, x) \in Seq(S) /\ Len(Append(q, x)) = Len(q) + 1
      /\ \A i \in 1 .. Len(q) : Append(q, x)[i] = q[i]
      /\ Append(q, x)[Len(q) + 1] = x
  BY AppendProperties
<1>2. Len(q) \in Nat  BY LenProperties
<1>3. NoRepeat(Append(q, x))
  BY <1>1, <1>2 DEF NoRepeat, Occurs
<1>4. \A t : Occurs(Append(q, x), t) <=> Occurs(q, t) \/ t = x
  BY <1>1, <1>2 DEF Occurs
<1> QED BY <1>1, <1>3, <1>4

-----------------------------------------------------------------------------
(* Places                                                                  *)

BeingMade(t) == \E p \in Producers : making[p] = t

\* Every task created is in one place: its producer's hands, one position of the
\* queue, the buffer, the batch, handed over, or refused.
Whereabouts ==
    /\ \A p, q \in Producers : making[p] = making[q] /\ making[p] # 0 => p = q
    /\ NoRepeat(queue)
    /\ \A t \in Created :
          /\ BeingMade(t) \/ Occurs(queue, t) \/ t \in buffer \/ t \in sched.batch
                \/ t \in handed \/ t \in refused
          /\ BeingMade(t) =>
                ~Occurs(queue, t) /\ t \notin buffer \cup sched.batch \cup handed \cup refused
          /\ Occurs(queue, t) =>
                t \notin buffer \cup sched.batch \cup handed \cup refused
          /\ t \in buffer => t \notin sched.batch \cup handed \cup refused
          /\ t \in sched.batch => t \notin handed \cup refused
          /\ t \in handed => t \notin refused

\* A batch exists from its first get or its pick to its hand-over.
Batches ==
    /\ sched.pc \notin {"collect", "hand"} => sched.batch = {}
    /\ sched.pc # "pick" => sched.old = {}

LEMMA OnePlaceFromWhereabouts ==
    ASSUME TypeOK, Whereabouts PROVE OnePlace
<1> SUFFICES ASSUME NEW t \in Created
             PROVE  \E x \in Places(t) : Places(t) = {x}
  BY DEF OnePlace
<1>0. t # 0  BY SchedulerAssumption DEF TypeOK, Created
<1>1. CASE BeingMade(t)
  <2>1. PICK p \in Producers : making[p] = t  BY <1>1 DEF BeingMade
  <2>2. {q \in Producers : making[q] = t} = {p}  BY <1>0, <2>1 DEF Whereabouts
  <2>3. {j \in 1 .. Len(queue) : queue[j] = t} = {}  BY <1>1 DEF Whereabouts, Occurs
  <2>4. Places(t) = {<<p, 0>>}  BY <1>1, <2>2, <2>3 DEF Places, Whereabouts
  <2> QED BY <2>4
<1>2. CASE Occurs(queue, t)
  <2>1. PICK i \in 1 .. Len(queue) : queue[i] = t  BY <1>2 DEF Occurs
  <2>2. {j \in 1 .. Len(queue) : queue[j] = t} = {i}
    BY <2>1 DEF Whereabouts, NoRepeat
  <2>3. {q \in Producers : making[q] = t} = {}  BY <1>2 DEF Whereabouts, BeingMade
  <2>4. Places(t) = {<<"queue", i>>}  BY <1>2, <2>2, <2>3 DEF Places, Whereabouts
  <2> QED BY <2>4
<1>3. CASE ~BeingMade(t) /\ ~Occurs(queue, t)
  <2>1. {q \in Producers : making[q] = t} = {}  BY <1>3 DEF BeingMade
  <2>2. {j \in 1 .. Len(queue) : queue[j] = t} = {}  BY <1>3 DEF Occurs
  <2>3. CASE t \in buffer
    <3>1. Places(t) = {<<"buffer", 0>>}  BY <2>1, <2>2, <2>3 DEF Places, Whereabouts
    <3> QED BY <3>1
  <2>4. CASE t \in sched.batch
    <3>1. Places(t) = {<<"batch", 0>>}  BY <2>1, <2>2, <2>4 DEF Places, Whereabouts
    <3> QED BY <3>1
  <2>5. CASE t \in handed
    <3>1. Places(t) = {<<"handed", 0>>}  BY <2>1, <2>2, <2>5 DEF Places, Whereabouts
    <3> QED BY <3>1
  <2>6. CASE t \in refused
    <3>1. Places(t) = {<<"refused", 0>>}  BY <2>1, <2>2, <2>6 DEF Places, Whereabouts
    <3> QED BY <3>1
  <2> QED BY <1>3, <2>3, <2>4, <2>5, <2>6 DEF Whereabouts
<1> QED BY <1>1, <1>2, <1>3

-----------------------------------------------------------------------------
(* Ages                                                                    *)

\* A task that is past the threshold has only such tasks before it; a task that
\* was overtaken is one of them, and is among the old ones of the next pick.
Ages ==
    /\ \A u \in stale, t \in Created :
          t <= u /\ t \notin handed \cup sched.batch => t \in stale
    /\ \A t \in Tasks : skips[t] # 0 => skips[t] = 1 /\ t \in stale \cap buffer
    /\ sched.pc = "pick" =>
          /\ sched.old \subseteq stale \cap buffer
          /\ \A t \in Tasks : skips[t] # 0 => t \in sched.old

IInv == TypeOK /\ Whereabouts /\ Batches /\ Ages

LEMMA CreatedFinite ==
    ASSUME created \in Nat, NEW S \in SUBSET Created
    PROVE  IsFiniteSet(S) /\ Cardinality(S) \in Nat
<1>1. IsFiniteSet(Created)  BY FS_Interval DEF Created
<1>2. IsFiniteSet(S)  BY <1>1, FS_Subset
<1> QED BY <1>2, FS_CardinalityType

\* The n oldest tasks of a set are members of it, and leave no older one behind.
LEMMA OldestFirst ==
    ASSUME created \in Nat, NEW S \in SUBSET Created, NEW n \in Nat
    PROVE  /\ Oldest(S, n) \subseteq S
           /\ \A t \in S, u \in Oldest(S, n) : t < u => t \in Oldest(S, n)
<1>1. Oldest(S, n) \subseteq S  BY DEF Oldest
<1>2. ASSUME NEW t \in S, NEW u \in Oldest(S, n), t < u PROVE t \in Oldest(S, n)
  <2> DEFINE B(x) == {v \in S : v < x}
  <2>1. B(t) \subseteq B(u)
    <3>1. \A v \in S : v \in Nat  BY DEF Created
    <3> QED BY <1>1, <1>2, <3>1
  <2>2. B(u) \in SUBSET Created /\ B(t) \in SUBSET Created  OBVIOUS
  <2> HIDE DEF B
  <2>3. Cardinality(B(t)) <= Cardinality(B(u))
    <3>1. IsFiniteSet(B(u))  BY <2>2, CreatedFinite
    <3> QED BY <2>1, <3>1, FS_Subset
  <2>4. Cardinality(B(t)) \in Nat /\ Cardinality(B(u)) \in Nat  BY <2>2, CreatedFinite
  <2>5. Cardinality(B(u)) < n  BY <1>2 DEF Oldest, B
  <2>6. Cardinality(B(t)) < n  BY <2>3, <2>4, <2>5
  <2> QED BY <1>2, <2>6 DEF Oldest, B
<1> QED BY <1>1, <1>2

\* What a pick takes: tasks of both lists, none of them while an older one of the
\* same list stays behind, and fresh ones only when no old one stays behind.
LEMMA PickedFirst ==
    ASSUME created \in Nat, batchSize \in Nat \ {0},
           NEW old \in SUBSET Created, NEW fresh \in SUBSET Created
    PROVE  /\ Picked(old, fresh) \subseteq old \cup fresh
           /\ \A t \in old, u \in Picked(old, fresh) :
                 t < u => t \in Picked(old, fresh)
           /\ \A t \in fresh, u \in Picked(old, fresh) :
                 t < u /\ u \notin old => t \in Picked(old, fresh)
<1>0. Cardinality(old) \in Nat  BY CreatedFinite
<1>1. CASE Cardinality(old) >= batchSize
  <2>1. Picked(old, fresh) = Oldest(old, batchSize)  BY <1>1 DEF Picked
  <2> QED BY <2>1, OldestFirst
<1>2. CASE ~(Cardinality(old) >= batchSize)
  <2> DEFINE n == batchSize - Cardinality(old)
  <2>1. n \in Nat  BY <1>0, <1>2
  <2>2. Picked(old, fresh) = old \cup Oldest(fresh, n)  BY <1>2 DEF Picked
  <2> HIDE DEF n
  <2> QED BY <2>1, <2>2, OldestFirst
<1> QED BY <1>1, <1>2

-----------------------------------------------------------------------------
(* One lemma per step                                                      *)

LEMMA InitIInv == Init => IInv
<1> SUFFICES ASSUME Init PROVE IInv  OBVIOUS
<1> USE SchedulerAssumption DEF Init, AtTop
<1>1. TypeOK  BY EmptySeq DEF TypeOK, Created, Tasks, Producers
<1>2. Whereabouts  BY DEF Whereabouts, Created, Producers, BeingMade, NoRepeat, Occurs
<1>3. Batches  BY DEF Batches
<1>4. Ages  BY DEF Ages
<1> QED BY <1>1, <1>2, <1>3, <1>4 DEF IInv

\* A new task is the youngest and in its producer's hands.
LEMMA CreateStep ==
    ASSUME IInv, NEW p \in Producers, Create(p) PROVE IInv'
<1> USE SchedulerAssumption DEF IInv, Create, configVars
<1>0. created \in Nat /\ created' = created + 1 /\ created' <= NumTasks  BY DEF TypeOK
<1>1. Created' = Created \cup {created + 1} /\ created + 1 \notin Created
  BY <1>0 DEF Created
<1>2. queue \in Seq(Created')  BY <1>1, SeqMonotonic DEF TypeOK
<1>3. making' \in [Producers -> 0 .. created']  BY <1>0 DEF TypeOK
<1>4. TypeOK'  BY <1>0, <1>1, <1>2, <1>3 DEF TypeOK
<1>5. \A t : Occurs(queue, t) => t \in Created  BY ElementOfSeq DEF TypeOK, Occurs
<1>6. \A t \in Created : BeingMade(t)' <=> BeingMade(t)
  BY <1>0, <1>1 DEF TypeOK, BeingMade, Created
<1>7. \A t : t = created + 1 => BeingMade(t)'  BY <1>0 DEF TypeOK, BeingMade
<1>8. Whereabouts'
  <2>1. \A a, b \in Producers : making'[a] = making'[b] /\ making'[a] # 0 => a = b
    BY <1>0 DEF Whereabouts, TypeOK
  <2> QED BY <2>1, <1>1, <1>5, <1>6, <1>7 DEF Whereabouts, TypeOK
<1>9. Batches'  BY DEF Batches
<1>10. Ages'
  <2>1. \A u \in stale : u \in Created /\ u \in Nat /\ u < created + 1
    BY <1>0 DEF TypeOK, Created
  <2> QED BY <1>0, <1>1, <2>1 DEF Ages
<1> QED BY <1>4, <1>8, <1>9, <1>10

\* TaskQueue.put: into the queue, or refused.
LEMMA PutStep ==
    ASSUME IInv, NEW p \in Producers, Put(p) PROVE IInv'
<1> USE SchedulerAssumption DEF IInv, Put, configVars
<1>0. created \in Nat /\ making[p] \in Created /\ BeingMade(making[p])
  BY DEF TypeOK, Created, BeingMade
<1>1. Created' = Created  BY DEF Created
<1>2. ~Occurs(queue, making[p])  BY <1>0 DEF Whereabouts
<1>3. /\ queue' \in Seq(Created) /\ Len(queue') <= MaxQueue /\ NoRepeat(queue')
      /\ refused' \subseteq Created
      /\ \/ /\ \A t : Occurs(queue', t) <=> Occurs(queue, t) \/ t = making[p]
            /\ refused' = refused
         \/ /\ queue' = queue
            /\ refused' = refused \cup {making[p]}
  <2>1. CASE Room /\ queue' = Append(queue, making[p]) /\ UNCHANGED refused
    <3>1. queue \in Seq(Created) /\ Len(queue) \in Nat /\ NoRepeat(queue)
      BY LenProperties DEF TypeOK, Whereabouts
    <3> QED BY <2>1, <3>1, <1>0, <1>2, Pushed DEF TypeOK, Room
  <2>2. CASE ~Room /\ refused' = refused \cup {making[p]} /\ UNCHANGED queue
    BY <2>2, <1>0 DEF TypeOK, Whereabouts
  <2> QED BY <2>1, <2>2
<1>4. TypeOK'  BY <1>0, <1>1, <1>3 DEF TypeOK
<1>5. \A t \in Created : BeingMade(t)' <=> BeingMade(t) /\ t # making[p]
  BY <1>0 DEF TypeOK, BeingMade, Created, Whereabouts
<1>6. Whereabouts'
  <2>1. \A a, b \in Producers : making'[a] = making'[b] /\ making'[a] # 0 => a = b
    BY DEF Whereabouts, TypeOK
  <2> QED BY <2>1, <1>0, <1>1, <1>3, <1>5 DEF Whereabouts
<1>7. Batches'  BY DEF Batches
<1>8. Ages'  BY <1>1 DEF Ages
<1> QED BY <1>4, <1>6, <1>7, <1>8

\* Reconfiguration and stop change no task.
LEMMA ConfigStep ==
    ASSUME IInv,
           \/ \E s \in Strategies : SetScheduler(s)
           \/ \E n \in BatchSizes : SetBatchSize(n)
           \/ Stop
    PROVE  IInv'
<1> USE DEF IInv, SetScheduler, SetBatchSize, Stop, producerVars
<1>1. Created' = Created  BY DEF Created
<1>2. TypeOK'  BY <1>1 DEF TypeOK
<1>3. Whereabouts'  BY <1>1 DEF Whereabouts, BeingMade
<1>4. Batches'  BY DEF Batches
<1>5. Ages'  BY <1>1 DEF Ages
<1> QED BY <1>2, <1>3, <1>4, <1>5

\* The top of the loop holds no batch.
LEMMA TickStep == ASSUME IInv, Tick PROVE IInv'
<1> USE SchedulerAssumption DEF IInv, Tick, outside, producerVars, configVars, AtTop
<1>1. Created' = Created  BY DEF Created
<1>2. BufferFactor * batchSize \in Nat  BY DEF TypeOK
<1>3. /\ sched' \in Scheds /\ sched'.batch = {} /\ sched'.old = {} /\ sched'.pc # "pick"
  BY <1>2 DEF TypeOK, Scheds
<1>4. sched.batch = {}  BY DEF Batches
<1>5. TypeOK'  BY <1>1, <1>3 DEF TypeOK, Scheds
<1>6. Whereabouts'  BY <1>1, <1>3, <1>4 DEF Whereabouts, BeingMade
<1>7. Batches'  BY <1>3 DEF Batches
<1>8. Ages'  BY <1>1, <1>3, <1>4 DEF Ages
<1> QED BY <1>5, <1>6, <1>7, <1>8

\* A get moves the head of the queue into the batch.
LEMMA GetStep == ASSUME IInv, Get PROVE IInv'
<1> USE DEF IInv, Get, outside, producerVars, configVars
<1>1. Created' = Created  BY DEF Created
<1>2. /\ Head(queue) \in Created /\ Occurs(queue, Head(queue))
      /\ queue' \in Seq(Created) /\ Len(queue') <= Len(queue) /\ NoRepeat(queue')
      /\ \A t : Occurs(queue', t) <=> Occurs(queue, t) /\ t # Head(queue)
  BY Popped DEF TypeOK, Whereabouts
<1>3. /\ sched' \in Scheds /\ sched'.pc = "collect" /\ sched'.old = sched.old
      /\ sched'.batch = sched.batch \cup {Head(queue)}
  BY <1>2 DEF TypeOK, Scheds
<1>4. Len(queue') <= MaxQueue
  BY <1>2, LenProperties, SchedulerAssumption DEF TypeOK
<1>5. TypeOK'  BY <1>1, <1>2, <1>3, <1>4 DEF TypeOK, Scheds
<1>6. Whereabouts'  BY <1>1, <1>2, <1>3 DEF Whereabouts, BeingMade
<1>7. Batches'  BY <1>3 DEF Batches
<1>8. Ages'  BY <1>1, <1>3 DEF Ages
<1> QED BY <1>5, <1>6, <1>7, <1>8

LEMMA CloseStep == ASSUME IInv, Close PROVE IInv'
<1> USE DEF IInv, Close, outside, producerVars, configVars, AtTop
<1>1. Created' = Created  BY DEF Created
<1>2. /\ sched' \in Scheds /\ sched'.pc \in {"top", "hand"} /\ sched'.old = {}
      /\ sched'.batch = sched.batch /\ (sched'.pc = "top" => sched.batch = {})
  BY DEF TypeOK, Scheds
<1>3. TypeOK'  BY <1>1, <1>2 DEF TypeOK, Scheds
<1>4. Whereabouts'  BY <1>1, <1>2 DEF Whereabouts, BeingMade
<1>5. Batches'  BY <1>2 DEF Batches
<1>6. Ages'  BY <1>1, <1>2 DEF Ages
<1> QED BY <1>3, <1>4, <1>5, <1>6

\* A drain moves the head of the queue into the buffer.
LEMMA DrainOneStep == ASSUME IInv, DrainOne PROVE IInv'
<1> USE DEF IInv, DrainOne, outside, producerVars, configVars
<1>1. Created' = Created  BY DEF Created
<1>2. /\ Head(queue) \in Created /\ Occurs(queue, Head(queue))
      /\ queue' \in Seq(Created) /\ Len(queue') <= Len(queue) /\ NoRepeat(queue')
      /\ \A t : Occurs(queue', t) <=> Occurs(queue, t) /\ t # Head(queue)
  BY Popped DEF TypeOK, Whereabouts
<1>3. Len(queue') <= MaxQueue
  BY <1>2, LenProperties, SchedulerAssumption DEF TypeOK
<1>4. TypeOK'  BY <1>1, <1>2, <1>3 DEF TypeOK
<1>5. Whereabouts'  BY <1>1, <1>2 DEF Whereabouts, BeingMade
<1>6. Batches'  BY DEF Batches
<1>7. Ages'  BY <1>1 DEF Ages
<1> QED BY <1>4, <1>5, <1>6, <1>7

LEMMA DrainEndStep == ASSUME IInv, DrainEnd PROVE IInv'
<1> USE DEF IInv, DrainEnd, outside, producerVars, configVars, AtTop
<1>1. Created' = Created  BY DEF Created
<1>2. /\ sched' \in Scheds /\ sched'.pc \in {"top", "split"} /\ sched'.old = {}
      /\ sched'.batch = {} /\ sched.batch = {}
  BY DEF TypeOK, Scheds, Batches
<1>3. TypeOK'  BY <1>1, <1>2 DEF TypeOK, Scheds
<1>4. Whereabouts'  BY <1>1, <1>2 DEF Whereabouts, BeingMade
<1>5. Batches'  BY <1>2 DEF Batches
<1>6. Ages'  BY <1>1, <1>2 DEF Ages
<1> QED BY <1>3, <1>4, <1>5, <1>6

\* The split reads which buffered tasks are old: those, and every older task, are
\* past the threshold from then on.
LEMMA SplitStep == ASSUME IInv, Split PROVE IInv'
<1> USE DEF IInv, Split, outside, producerVars, configVars
<1>0. created \in Nat /\ Created \subseteq Nat /\ buffer \subseteq Created
  BY DEF TypeOK, Created
<1>1. Created' = Created  BY DEF Created
<1>2. PICK late \in SUBSET (buffer \ stale) :
        /\ sched' = [sched EXCEPT !.pc = "pick", !.old = (buffer \cap stale) \cup late]
        /\ stale' = stale \cup UpTo(late)
  OBVIOUS
<1>3. /\ sched' \in Scheds /\ sched'.pc = "pick" /\ sched'.batch = {} /\ sched.batch = {}
      /\ sched'.old = (buffer \cap stale) \cup late
  BY <1>0, <1>2 DEF TypeOK, Scheds, Batches
<1>4. late \subseteq UpTo(late) /\ UpTo(late) \subseteq Created
  BY <1>0, <1>2 DEF UpTo, Whereabouts
<1>5. TypeOK'  BY <1>1, <1>2, <1>3, <1>4 DEF TypeOK, Scheds
<1>6. Whereabouts'  BY <1>1, <1>3 DEF Whereabouts, BeingMade
<1>7. Batches'  BY <1>3 DEF Batches
<1>8. Ages'
  <2>1. ASSUME NEW u \in stale', NEW t \in Created, t <= u, t \notin handed
        PROVE  t \in stale'
    <3>1. CASE u \in stale  BY <2>1, <3>1, <1>2, <1>3 DEF Ages
    <3>2. CASE u \in UpTo(late)
      <4>1. PICK v \in late : u <= v  BY <3>2 DEF UpTo
      <4>2. t <= v  BY <2>1, <4>1, <3>2, <1>0, <1>2 DEF UpTo
      <4> QED BY <2>1, <4>1, <4>2, <1>2 DEF UpTo
    <3> QED BY <3>1, <3>2, <1>2
  <2> QED BY <2>1, <1>1, <1>2, <1>3, <1>4 DEF Ages
<1> QED BY <1>5, <1>6, <1>7, <1>8

\* A pick passes over an older task only when that task crossed the threshold
\* during this very tick; it is past the threshold afterwards.
LEMMA PickStep == ASSUME IInv, Pick PROVE IInv'
<1> USE DEF IInv
<1>u. /\ sched.pc = "pick"
      /\ UNCHANGED <<created, making, refused, strategy, batchSize, up, queue, handed>>
  BY DEF Pick, outside, producerVars, configVars
<1>0. /\ created \in Nat /\ Created \subseteq Nat /\ buffer \subseteq Created
      /\ Created \subseteq Tasks /\ batchSize \in Nat \ {0}
  BY SchedulerAssumption DEF TypeOK, Created, Tasks
<1>1. Created' = Created  BY <1>u DEF Created
<1>2. PICK late \in SUBSET (buffer \ stale) :
        LET fresh == buffer \ (stale \cup late)
            batch == Picked(sched.old, fresh)
        IN /\ stale' = (stale \cup UpTo(late)) \ batch
           /\ buffer' = Remaining(batch)
           /\ sched' = IF batch = {} THEN AtTop
                       ELSE [AtTop EXCEPT !.pc = "hand", !.batch = batch]
           /\ skips' = [t \in Tasks |->
                          IF t \in batch THEN 0
                          ELSE IF t \in buffer /\ \E u \in batch : t < u
                          THEN skips[t] + 1 ELSE skips[t]]
  BY DEF Pick
<1> DEFINE fresh == buffer \ (stale \cup late)
           batch == Picked(sched.old, fresh)
<1>3. /\ sched.old \in SUBSET Created /\ fresh \in SUBSET Created /\ sched.batch = {}
      /\ sched.old \subseteq stale \cap buffer
  BY <1>u, <1>0 DEF TypeOK, Batches, Ages
<1>4. /\ batch \subseteq sched.old \cup fresh
      /\ \A t \in sched.old, u \in batch : t < u => t \in batch
      /\ \A t \in fresh, u \in batch : t < u /\ u \notin sched.old => t \in batch
  <2>1. fresh \in SUBSET Created  BY <1>3
  <2> HIDE DEF fresh
  <2> QED BY <1>0, <1>3, <2>1, PickedFirst DEF batch
<1>5. batch \subseteq buffer  BY <1>3, <1>4
<1>6. late \subseteq UpTo(late) /\ UpTo(late) \subseteq Created
  BY <1>0, <1>2 DEF UpTo, Whereabouts
<1> HIDE DEF batch
<1>7. /\ sched' \in Scheds /\ sched'.batch = batch /\ sched'.old = {}
      /\ sched'.pc \in {"top", "hand"} /\ (sched'.pc = "top" => batch = {})
  BY <1>0, <1>1, <1>2, <1>5 DEF batch, AtTop, Scheds
<1>8. stale' = (stale \cup UpTo(late)) \ batch /\ buffer' = buffer \ batch
  BY <1>2 DEF batch, Remaining
<1>9. \A t \in buffer : (\E u \in batch : t < u) /\ t \notin batch =>
                          t \in (stale \cup late) /\ t \notin sched.old
  <2> SUFFICES ASSUME NEW t \in buffer, NEW u \in batch, t < u, t \notin batch
               PROVE  t \in (stale \cup late) /\ t \notin sched.old
    OBVIOUS
  <2>1. t \notin sched.old  BY <1>4
  <2>2. ASSUME t \in fresh PROVE FALSE
    <3>1. u \in sched.old  BY <1>4, <2>2
    <3>2. u \in stale /\ t \in Created /\ u \in Created  BY <1>0, <1>3, <3>1
    <3>3. t \in Nat /\ u \in Nat /\ t <= u  BY <1>0, <3>2
    <3>4. t \notin handed  BY <1>0 DEF Whereabouts
    <3>5. t \in stale  BY <3>2, <3>3, <3>4, <1>3 DEF Ages
    <3> QED BY <2>2, <3>5
  <2> QED BY <2>1, <2>2
<1>10. ASSUME NEW t \in Tasks
       PROVE  /\ skips'[t] \in Nat
              /\ skips'[t] # 0 => skips'[t] = 1 /\ t \in stale' \cap buffer'
  <2>0. skips[t] \in Nat /\ (skips[t] # 0 => skips[t] = 1 /\ t \in stale \cap buffer
                                              /\ t \in sched.old)
    BY <1>u DEF TypeOK, Ages
  <2>1. skips'[t] = IF t \in batch THEN 0
                    ELSE IF t \in buffer /\ \E u \in batch : t < u
                    THEN skips[t] + 1 ELSE skips[t]
    BY <1>2 DEF batch
  <2>2. CASE t \in batch
    <3>1. skips'[t] = 0  BY <2>1, <2>2
    <3> QED BY <3>1
  <2>3. CASE t \notin batch /\ t \in buffer /\ \E u \in batch : t < u
    <3>1. t \in (stale \cup late) /\ t \notin sched.old  BY <1>9, <2>3
    <3>2. skips[t] = 0  BY <2>0, <3>1
    <3>3. skips'[t] = skips[t] + 1  BY <2>1, <2>3
    <3>4. skips'[t] = 1  BY <3>2, <3>3
    <3>5. t \in stale' \cap buffer'  BY <2>3, <3>1, <1>6, <1>8
    <3> QED BY <3>4, <3>5
  <2>4. CASE t \notin batch /\ ~(t \in buffer /\ \E u \in batch : t < u)
    BY <2>0, <2>1, <2>4, <1>8
  <2> QED BY <2>2, <2>3, <2>4
<1>11. skips' \in [Tasks -> Nat]
  <2>1. skips' = [t \in Tasks |-> skips'[t]]  BY <1>2
  <2> QED BY <1>10, <2>1
<1>12. TypeOK'
  BY <1>u, <1>0, <1>1, <1>6, <1>7, <1>8, <1>11 DEF TypeOK, Scheds
<1>13. Whereabouts'
  BY <1>u, <1>1, <1>3, <1>5, <1>7, <1>8 DEF Whereabouts, BeingMade
<1>14. Batches'  BY <1>7 DEF Batches
<1>15. Ages'
  <2>1. ASSUME NEW u \in stale', NEW t \in Created, t <= u, t \notin handed \cup batch
        PROVE  t \in stale'
    <3>1. CASE u \in stale  BY <2>1, <3>1, <1>3, <1>8 DEF Ages
    <3>2. CASE u \in UpTo(late)
      <4>1. PICK v \in late : u <= v  BY <3>2 DEF UpTo
      <4>2. t <= v  BY <2>1, <4>1, <3>2, <1>0, <1>2 DEF UpTo
      <4> QED BY <2>1, <4>1, <4>2, <1>8 DEF UpTo
    <3> QED BY <3>1, <3>2, <1>8
  <2>2. Tasks' = Tasks  BY DEF Tasks
  <2> QED BY <2>1, <2>2, <1>u, <1>1, <1>7, <1>10 DEF Ages
<1> QED BY <1>12, <1>13, <1>14, <1>15

\* The batch is handed over as a whole.
LEMMA HandStep == ASSUME IInv, Hand PROVE IInv'
<1> USE DEF IInv, Hand, outside, producerVars, configVars, AtTop
<1>1. Created' = Created  BY DEF Created
<1>2. /\ sched' \in Scheds /\ sched'.pc = "top" /\ sched'.old = {} /\ sched'.batch = {}
      /\ sched.batch \in SUBSET Created
  BY DEF TypeOK, Scheds
<1>3. TypeOK'  BY <1>1, <1>2 DEF TypeOK, Scheds
<1>4. Whereabouts'  BY <1>1, <1>2 DEF Whereabouts, BeingMade
<1>5. Batches'  BY <1>2 DEF Batches
<1>6. \A t \in Tasks : skips[t] # 0 => t \notin sched.batch
  BY <1>2 DEF Ages, Whereabouts, TypeOK
<1>7. Ages'  BY <1>1, <1>2, <1>6 DEF Ages
<1> QED BY <1>3, <1>4, <1>5, <1>7

LEMMA NextIInv == IInv /\ [Next]_vars => IInv'
<1> SUFFICES ASSUME IInv, [Next]_vars PROVE IInv'  OBVIOUS
<1>1. CASE \E p \in Producers : Create(p) \/ Put(p)  BY <1>1, CreateStep, PutStep
<1>2. CASE (\E s \in Strategies : SetScheduler(s))
              \/ (\E n \in BatchSizes : SetBatchSize(n)) \/ Stop
  BY <1>2, ConfigStep
<1>3. CASE AssembleStep \/ Hand
  BY <1>3, TickStep, GetStep, CloseStep, DrainOneStep, DrainEndStep, SplitStep, PickStep,
     HandStep DEF AssembleStep
<1>4. CASE UNCHANGED vars
  BY <1>4 DEF vars, IInv, TypeOK, Created, Whereabouts, BeingMade, Batches, Ages
<1> QED BY <1>1, <1>2, <1>3, <1>4 DEF Next

-----------------------------------------------------------------------------
(* Theorems                                                                *)

\* The invariant about places, batches and ages is inductive.
THEOREM InvariantHolds == Spec => []IInv
<1>1. Init => IInv  BY InitIInv
<1>2. IInv /\ [Next]_vars => IInv'  BY NextIInv
<1> QED BY <1>1, <1>2, PTL DEF Spec

\* Every variable keeps its type; in particular TaskQueue never exceeds its bound
\* with two producers.
THEOREM TypeCorrect == Spec => []TypeOK
<1>1. IInv => TypeOK  BY DEF IInv
<1> QED BY <1>1, InvariantHolds, PTL

\* No strategy, reconfiguration or full queue loses or duplicates a task.
THEOREM NothingLostOrDuplicated == Spec => []OnePlace
<1>1. IInv => OnePlace  BY OnePlaceFromWhereabouts DEF IInv
<1> QED BY <1>1, InvariantHolds, PTL

\* The latency-aware strategy lets younger tasks overtake a task in one tick only.
THEOREM OvertakenAtMostOnce == Spec => []OvertakenOnce
<1>1. IInv => OvertakenOnce  BY DEF IInv, Ages, OvertakenOnce, TypeOK
<1> QED BY <1>1, InvariantHolds, PTL
=============================================================================
