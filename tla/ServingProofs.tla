--------------------------- MODULE ServingProofs ----------------------------
(***************************************************************************)
(* The safety properties of Serving for any number of tasks and workers,   *)
(* with either pool.                                                       *)
(*                                                                         *)
(* The scheduler's steps are those of module Scheduler, so its invariant   *)
(* is not proved again: SP is SchedulerProofs about the variables of       *)
(* Serving, every step of Serving is a step of SP or leaves its variables  *)
(* alone, and SP!IInv says that a batch was not handed over before.  The   *)
(* rest of the invariant is about the tasks' outcomes and the answers.     *)
(***************************************************************************)
EXTENDS Serving, SequenceTheorems, TLAPS

SP == INSTANCE SchedulerProofs

-----------------------------------------------------------------------------
(* The scheduler inside the API process                                    *)

LEMMA SchedulerConstants == Sch!SchedulerAssumption /\ SP!SchedulerAssumption
BY ServingAssumption DEF Sch!SchedulerAssumption, SP!SchedulerAssumption

LEMMA SchedulerInit == Sch!Init => SP!IInv
<1>1. Sch!Init => SP!Init
  BY DEF Sch!Init, SP!Init, Sch!Producers, SP!Producers, Sch!AtTop, SP!AtTop, Sch!Tasks, SP!Tasks
<1> QED BY <1>1, SP!InitIInv, SchedulerConstants

\* Sch and SP are instances of the same module.
LEMMA SameSteps == Sch!Next => SP!Next
<1> USE DEF Sch!Producers, SP!Producers, Sch!AtTop, SP!AtTop, Sch!outside, SP!outside,
            Sch!producerVars, SP!producerVars, Sch!configVars, SP!configVars
<1>0. ASSUME NEW S PROVE Sch!Cardinality(S) = SP!Cardinality(S)
  BY DEF Sch!Cardinality, SP!Cardinality
<1>1. ASSUME NEW p \in Sch!Producers
      PROVE  (Sch!Create(p) => SP!Create(p)) /\ (Sch!Put(p) => SP!Put(p))
  BY DEF Sch!Create, SP!Create, Sch!Put, SP!Put, Sch!Room, SP!Room
<1>2. /\ \A s : Sch!SetScheduler(s) => SP!SetScheduler(s)
      /\ \A n : Sch!SetBatchSize(n) => SP!SetBatchSize(n)
      /\ Sch!Stop => SP!Stop
  BY DEF Sch!SetScheduler, SP!SetScheduler, Sch!SetBatchSize, SP!SetBatchSize,
         Sch!Stop, SP!Stop
<1>3. Sch!Tick => SP!Tick  BY DEF Sch!Tick, SP!Tick
<1>4. Sch!Get => SP!Get  BY <1>0 DEF Sch!Get, SP!Get, Sch!Full, SP!Full
<1>5. Sch!Close => SP!Close
  BY <1>0 DEF Sch!Close, SP!Close, Sch!Closes, SP!Closes, Sch!Full, SP!Full
<1>6. Sch!DrainOne => SP!DrainOne  BY <1>0 DEF Sch!DrainOne, SP!DrainOne
<1>7. Sch!DrainEnd => SP!DrainEnd  BY <1>0 DEF Sch!DrainEnd, SP!DrainEnd
<1>8. Sch!Split => SP!Split
  BY DEF Sch!Split, SP!Split, Sch!UpTo, SP!UpTo, Sch!Created, SP!Created
<1>9. Sch!Pick => SP!Pick
  <2>1. ASSUME NEW S, NEW n PROVE Sch!Oldest(S, n) = SP!Oldest(S, n)
    BY <1>0 DEF Sch!Oldest, SP!Oldest
  <2>2. ASSUME NEW old, NEW fresh PROVE Sch!Picked(old, fresh) = SP!Picked(old, fresh)
    BY <1>0, <2>1 DEF Sch!Picked, SP!Picked
  <2>3. ASSUME NEW S PROVE Sch!UpTo(S) = SP!UpTo(S) /\ Sch!Remaining(S) = SP!Remaining(S)
    BY DEF Sch!UpTo, SP!UpTo, Sch!Created, SP!Created, Sch!Remaining, SP!Remaining
  <2> QED BY <2>2, <2>3 DEF Sch!Pick, SP!Pick, Sch!Tasks, SP!Tasks
<1>10. Sch!Hand => SP!Hand  BY DEF Sch!Hand, SP!Hand
<1>11. Sch!AssembleStep => SP!AssembleStep
  BY <1>3, <1>4, <1>5, <1>6, <1>7, <1>8, <1>9 DEF Sch!AssembleStep, SP!AssembleStep
<1> QED BY <1>1, <1>2, <1>10, <1>11 DEF Sch!Next, SP!Next

LEMMA SchedulerNext ==
    ASSUME SP!IInv, Sch!Next \/ UNCHANGED schedulerVars PROVE SP!IInv'
BY SameSteps, SP!NextIInv, SchedulerConstants DEF schedulerVars, SP!vars

-----------------------------------------------------------------------------
(* The invariant                                                           *)

\* Nobody is answered about a task that does not exist yet.
NoEarlyAnswer == \A t \in Tasks : kind[t] = "none" => answer[t] = "none"

IInv == SP!IInv /\ TypeOK /\ NoEarlyAnswer /\ AnswersHold

\* What the scheduler's invariant says of the variables the rest of the process
\* uses: the batch in its hands was not handed over before.
LEMMA SchedulerFacts ==
    ASSUME SP!IInv
    PROVE  /\ Sch!TypeOK
           /\ created \in 0 .. NumTasks
           /\ making \in [Sch!Producers -> 0 .. created]
           /\ refused \subseteq 1 .. created /\ handed \subseteq 1 .. created
           /\ sched.batch \subseteq (1 .. created) \ handed
           /\ 1 .. created \subseteq Tasks
<1> USE DEF SP!IInv
<1>1. Sch!TypeOK
  BY DEF SP!TypeOK, Sch!TypeOK, SP!Created, Sch!Created, SP!Producers, Sch!Producers,
         SP!Tasks, Sch!Tasks
<1>2. /\ created \in 0 .. NumTasks /\ refused \subseteq 1 .. created
      /\ handed \subseteq 1 .. created /\ making \in [Sch!Producers -> 0 .. created]
  BY DEF SP!TypeOK, SP!Created, SP!Producers, Sch!Producers
<1>3. sched.batch \subseteq 1 .. created  BY DEF SP!TypeOK, SP!Created
<1>4. \A t \in 1 .. created : t \in sched.batch => t \notin handed
  BY DEF SP!Whereabouts, SP!Created
<1>5. 1 .. created \subseteq Tasks
  BY <1>2, ServingAssumption DEF Tasks, Sch!Tasks
<1> QED BY <1>1, <1>2, <1>3, <1>4, <1>5

LEMMA SchedulerTyped == SP!IInv => Sch!TypeOK
BY SchedulerFacts

\* Assembling a batch and changing a setting create, refuse and hand over nothing.
LEMMA QuietSteps ==
    ASSUME \/ Sch!AssembleStep \/ Sch!Stop
           \/ \E s \in Strategies : Sch!SetScheduler(s)
           \/ \E n \in BatchSizes : Sch!SetBatchSize(n)
    PROVE  UNCHANGED <<created, making, refused, handed>> /\ Sch!Next
<1> USE DEF Sch!outside, Sch!producerVars
<1>1. Sch!Next  BY DEF Sch!Next
<1>2. CASE Sch!AssembleStep
  BY <1>1, <1>2 DEF Sch!AssembleStep, Sch!Tick, Sch!Get, Sch!Close, Sch!DrainOne, Sch!DrainEnd,
     Sch!Split, Sch!Pick
<1>3. CASE ~Sch!AssembleStep
  BY <1>1, <1>3 DEF Sch!Stop, Sch!SetScheduler, Sch!SetBatchSize
<1> QED BY <1>1, <1>2, <1>3

\* The methods of Task leave a terminal task alone.
LEMMA MarkFacts ==
    ASSUME NEW tk \in TaskRecord, NEW code \in ErrorCodes
    PROVE  /\ MarkFailed(tk, code) \in TaskRecord /\ Terminal(MarkFailed(tk, code))
           /\ MarkDone(tk) \in TaskRecord /\ MarkProcessing(tk) \in TaskRecord
           /\ Terminal(tk) => /\ MarkFailed(tk, code) = tk
                              /\ MarkDone(tk) = tk /\ MarkProcessing(tk) = tk
BY DEF TaskRecord, Status, ErrorCodes, MarkFailed, MarkDone, MarkProcessing, Terminal

LEMMA CodeFacts ==
    /\ {"none", "deadline_exceeded", "cancelled"} \subseteq ErrorCodes
    /\ PoolCodes \subseteq ErrorCodes
BY ServingAssumption DEF ErrorCodes

LEMMA StatusFacts ==
    ASSUME NEW k, NEW tk PROVE HttpStatus(k, tk) \in Answers
BY DEF HttpStatus, PredictStatus, TextStatus, Answers

\* An answer stays true as long as outcomes are final.
LEMMA AnswersKept ==
    ASSUME AnswersHold, UNCHANGED <<kind, answer>>, refused \subseteq refused',
           \A t \in Tasks : Terminal(task[t]) => task'[t] = task[t]
    PROVE  AnswersHold'
<1>1. Tasks' = Tasks  BY DEF Tasks, Sch!Tasks
<1> SUFFICES ASSUME NEW t \in Tasks, t \notin refused, answer[t] \notin {"none", "499"}
             PROVE  Terminal(task'[t]) /\ answer[t] = HttpStatus(kind[t], task'[t])
  BY <1>1 DEF AnswersHold, Terminal, HttpStatus
<1>2. Terminal(task[t]) /\ answer[t] = HttpStatus(kind[t], task[t])  BY DEF AnswersHold
<1> QED BY <1>2

\* Batches queued at a worker stay batches of tasks handed over.
LEMMA QueuesWiden ==
    ASSUME NEW H, NEW K, H \subseteq K, wq \in [Workers -> Seq(SUBSET H)]
    PROVE  wq \in [Workers -> Seq(SUBSET K)]
<1>1. Seq(SUBSET H) \subseteq Seq(SUBSET K)
  <2> SUFFICES ASSUME NEW q \in Seq(SUBSET H) PROVE q \in Seq(SUBSET K)  OBVIOUS
  <2>1. Len(q) \in Nat /\ q \in [1 .. Len(q) -> SUBSET H]  BY LenProperties
  <2> QED BY <2>1, SeqDef
<1> QED BY <1>1

-----------------------------------------------------------------------------
(* Every step preserves the invariant                                      *)

LEMMA InitIInv == Init => IInv
<1> SUFFICES ASSUME Init PROVE IInv  OBVIOUS
<1>1. SP!IInv  BY SchedulerInit DEF Init
<1>2. created = 0 /\ handed = {} /\ \A t \in Tasks : t \in Nat /\ t > 0
  BY ServingAssumption DEF Init, Sch!Init, Tasks, Sch!Tasks
<1>3. NewTask \in TaskRecord  BY DEF NewTask, TaskRecord, Status, ErrorCodes
<1>4. TypeOK
  <2>1. \A t \in Tasks : kind[t] = "none" /\ t > created  BY <1>2 DEF Init
  <2>2. \A w \in Workers : wq[w] \in Seq(SUBSET handed)
    BY EmptySeq DEF Init, NewWorkers
  <2>3. /\ wpc \in [Workers -> {"top", "drain", "work", "exited"}]
        /\ wq \in [Workers -> Seq(SUBSET handed)]
        /\ cur \in [Workers -> SUBSET handed] /\ down \in BOOLEAN
        /\ gateway \in {"on", "stopping", "off"}
    BY <2>2 DEF Init, NewWorkers
  <2>4. /\ remote \in BOOLEAN /\ expired \subseteq Sch!Created
        /\ kind \in [Tasks -> {"none", "predict", "text", "job"}]
        /\ task \in [Tasks -> TaskRecord] /\ answer \in [Tasks -> Answers]
    BY <1>3 DEF Init, Answers
  <2> QED BY <1>1, SchedulerFacts, <2>1, <2>3, <2>4 DEF TypeOK
<1>5. NoEarlyAnswer /\ AnswersHold  BY DEF Init, NoEarlyAnswer, AnswersHold
<1> QED BY <1>1, <1>4, <1>5 DEF IInv

\* A task gets its kind as it is created; its caller was told nothing before.
LEMMA ConstructStep ==
    ASSUME IInv, NEW p \in Sch!Producers, NEW k \in {"predict", "text", "job"},
           Construct(p, k)
    PROVE  IInv'
<1> USE DEF IInv
<1>1. Sch!Create(p) /\ Sch!Next  BY DEF Construct, Sch!Next
<1>2. SP!IInv'  BY <1>1, SchedulerNext
<1>3. /\ created < NumTasks /\ created' = created + 1
      /\ UNCHANGED <<refused, handed>>
  BY <1>1 DEF Sch!Create
<1>4. /\ kind' = [kind EXCEPT ![created + 1] = k]
      /\ UNCHANGED <<remote, expired, task, answer, wpc, wq, cur, down, gateway>>
  BY DEF Construct, workerVars
<1>5. created \in 0 .. NumTasks /\ created + 1 \in Tasks  /\ Tasks = 1 .. NumTasks
  BY <1>3, SchedulerFacts, ServingAssumption DEF Tasks, Sch!Tasks
<1>6. Tasks' = Tasks  BY DEF Tasks, Sch!Tasks
<1>7. TypeOK'
  <2>1. kind' \in [Tasks -> {"none", "predict", "text", "job"}]  BY <1>4, <1>5 DEF TypeOK
  <2>2. ASSUME NEW t \in Tasks PROVE kind'[t] = "none" <=> t > created'
    BY <1>3, <1>4, <1>5, ServingAssumption DEF TypeOK
  <2>3. Sch!TypeOK'  BY <1>2, SchedulerTyped, PTL
  <2>4. expired' \subseteq Sch!Created'  BY <1>3, <1>4, <1>5 DEF TypeOK, Sch!Created
  <2> QED BY <1>3, <1>4, <1>6, <2>1, <2>2, <2>3, <2>4 DEF TypeOK
<1>8. answer[created + 1] = "none"  BY <1>5, ServingAssumption DEF TypeOK, NoEarlyAnswer
<1>9. NoEarlyAnswer'
  BY <1>4, <1>5, <1>6 DEF NoEarlyAnswer, TypeOK
<1>10. AnswersHold'
  <2> SUFFICES ASSUME NEW t \in Tasks, t \notin refused, answer[t] \notin {"none", "499"}
               PROVE  Terminal(task[t]) /\ answer[t] = HttpStatus(kind'[t], task[t])
    BY <1>3, <1>4, <1>6 DEF AnswersHold, Terminal, HttpStatus
  <2>1. t # created + 1 /\ kind'[t] = kind[t]  BY <1>4, <1>5, <1>8 DEF TypeOK
  <2> QED BY <2>1 DEF AnswersHold
<1> QED BY <1>2, <1>7, <1>9, <1>10

\* A full queue is answered with 503, about a task that is then refused.
LEMMA EnqueueStep ==
    ASSUME IInv, NEW p \in Sch!Producers, Enqueue(p) PROVE IInv'
<1> USE DEF IInv
<1>1. Sch!Put(p) /\ Sch!Next  BY DEF Enqueue, Sch!Next
<1>2. SP!IInv'  BY <1>1, SchedulerNext
<1>3. /\ making[p] # 0 /\ UNCHANGED <<created, handed>>
      /\ refused' = refused \/ refused' = refused \cup {making[p]}
  BY <1>1 DEF Sch!Put
<1>4. /\ answer' = IF refused' = refused THEN answer
                   ELSE [answer EXCEPT ![making[p]] = "503"]
      /\ UNCHANGED <<remote, kind, expired, task, wpc, wq, cur, down, gateway>>
  BY DEF Enqueue, workerVars
<1>5. making[p] \in Tasks /\ kind[making[p]] # "none"
  BY <1>3, SchedulerFacts, ServingAssumption DEF TypeOK
<1>6. Tasks' = Tasks  BY DEF Tasks, Sch!Tasks
<1>7. TypeOK'
  <2>1. answer' \in [Tasks -> Answers]  BY <1>4, <1>5 DEF TypeOK, Answers
  <2>2. Sch!TypeOK'  BY <1>2, SchedulerTyped, PTL
  <2>3. Sch!Created' = Sch!Created  BY <1>3 DEF Sch!Created
  <2> QED BY <1>3, <1>4, <1>6, <2>1, <2>2, <2>3 DEF TypeOK
<1>8. NoEarlyAnswer'
  BY <1>4, <1>5, <1>6 DEF NoEarlyAnswer, TypeOK
<1>9. AnswersHold'
  <2> SUFFICES ASSUME NEW t \in Tasks, t \notin refused', answer'[t] \notin {"none", "499"}
               PROVE  Terminal(task[t]) /\ answer'[t] = HttpStatus(kind[t], task[t])
    BY <1>4, <1>6 DEF AnswersHold, Terminal, HttpStatus
  <2>1. t \notin refused /\ answer'[t] = answer[t]
    BY <1>3, <1>4, <1>5 DEF TypeOK
  <2> QED BY <2>1 DEF AnswersHold
<1> QED BY <1>2, <1>7, <1>8, <1>9

\* Steps of the scheduler thread before the hand-over, of /config and of shutdown.
LEMMA QuietStep ==
    ASSUME IInv, UNCHANGED servingVars,
           \/ Sch!AssembleStep \/ Sch!Stop
           \/ \E s \in Strategies : Sch!SetScheduler(s)
           \/ \E n \in BatchSizes : Sch!SetBatchSize(n)
    PROVE  IInv'
<1> USE DEF IInv
<1>1. UNCHANGED <<created, making, refused, handed>> /\ Sch!Next  BY QuietSteps
<1>2. SP!IInv'  BY <1>1, SchedulerNext
<1>3. Sch!TypeOK'  BY <1>2, SchedulerTyped, PTL
<1>4. UNCHANGED <<remote, kind, expired, task, answer, wpc, wq, cur, down, gateway>>
  BY DEF servingVars, workerVars
<1>5. Tasks' = Tasks /\ Sch!Created' = Sch!Created
  BY <1>1 DEF Tasks, Sch!Tasks, Sch!Created
<1>6. TypeOK'  BY <1>1, <1>3, <1>4, <1>5 DEF TypeOK
<1>7. NoEarlyAnswer'  BY <1>4, <1>5 DEF NoEarlyAnswer
<1>8. AnswersHold'  BY <1>1, <1>4, AnswersKept
<1> QED BY <1>2, <1>6, <1>7, <1>8

\* A deadline passes, or the gateway or the workers are told to stop.
LEMMA FlagStep ==
    ASSUME IInv,
           (\E t \in Tasks : Expire(t)) \/ StopGateway \/ GatewayExits \/ StopWorkers
    PROVE  IInv'
<1> USE DEF IInv
<1>1. UNCHANGED <<schedulerVars, remote, kind, task, answer, wpc, wq, cur>>
  BY DEF Expire, StopGateway, GatewayExits, StopWorkers, workerVars
<1>2. SP!IInv'  BY <1>1, SchedulerNext
<1>3. Sch!TypeOK'  BY <1>2, SchedulerTyped, PTL
<1>4. UNCHANGED <<created, refused, handed>>  BY <1>1 DEF schedulerVars
<1>5. Tasks' = Tasks /\ Sch!Created' = Sch!Created
  BY <1>4 DEF Tasks, Sch!Tasks, Sch!Created
<1>6. /\ expired' \subseteq Sch!Created /\ down' \in BOOLEAN
      /\ gateway' \in {"on", "stopping", "off"}
  BY DEF Expire, StopGateway, GatewayExits, StopWorkers, TypeOK
<1>7. TypeOK'  BY <1>1, <1>3, <1>4, <1>5, <1>6 DEF TypeOK
<1>8. NoEarlyAnswer'  BY <1>1, <1>5 DEF NoEarlyAnswer
<1>9. AnswersHold'  BY <1>1, <1>4, AnswersKept
<1> QED BY <1>2, <1>7, <1>8, <1>9

-----------------------------------------------------------------------------
(* Callers                                                                 *)

\* A polling loop ends with a terminal task, and the caller's own mark_failed
\* changes no outcome a worker has already reported.
LEMMA SettledFacts ==
    ASSUME IInv, NEW t \in Tasks
    PROVE  /\ Settled(t) \in TaskRecord
           /\ Terminal(task[t]) => Settled(t) = task[t]
           /\ PollEnds(t) => Terminal(Settled(t))
<1>1. task[t] \in TaskRecord  BY DEF IInv, TypeOK
<1>2. "deadline_exceeded" \in ErrorCodes  BY CodeFacts
<1> QED BY <1>1, <1>2, MarkFacts DEF Settled, PollEnds

\* One caller settles its task and is answered.
LEMMA CallerStep ==
    ASSUME IInv, NEW t \in Tasks, NEW tk \in TaskRecord, NEW a \in Answers,
           kind[t] # "none", answer[t] = "none",
           Terminal(task[t]) => tk = task[t],
           a # "499" => Terminal(tk) /\ a = HttpStatus(kind[t], tk),
           task' = [task EXCEPT ![t] = tk], answer' = [answer EXCEPT ![t] = a],
           UNCHANGED <<schedulerVars, remote, kind, expired, workerVars, down, gateway>>
    PROVE  IInv'
<1> USE DEF IInv
<1>1. SP!IInv'  BY SchedulerNext
<1>2. Sch!TypeOK'  BY <1>1, SchedulerTyped, PTL
<1>3. UNCHANGED <<created, refused, handed>>  BY DEF schedulerVars
<1>4. Tasks' = Tasks /\ Sch!Created' = Sch!Created
  BY <1>3 DEF Tasks, Sch!Tasks, Sch!Created
<1>5. task' \in [Tasks -> TaskRecord] /\ answer' \in [Tasks -> Answers]  BY DEF TypeOK
<1>6. TypeOK'  BY <1>2, <1>3, <1>4, <1>5 DEF TypeOK, workerVars
<1>7. NoEarlyAnswer'  BY <1>4 DEF NoEarlyAnswer, TypeOK
<1>8. AnswersHold'
  <2> SUFFICES ASSUME NEW u \in Tasks, u \notin refused, answer'[u] \notin {"none", "499"}
               PROVE  Terminal(task'[u]) /\ answer'[u] = HttpStatus(kind[u], task'[u])
    BY <1>3, <1>4 DEF AnswersHold, Terminal, HttpStatus
  <2>1. CASE u = t
    <3>1. task'[u] = tk /\ answer'[u] = a  BY <2>1 DEF TypeOK
    <3> QED BY <2>1, <3>1
  <2>2. CASE u # t
    <3>1. task'[u] = task[u] /\ answer'[u] = answer[u]  BY <2>2 DEF TypeOK
    <3> QED BY <3>1 DEF AnswersHold
  <2> QED BY <2>1, <2>2
<1> QED BY <1>1, <1>6, <1>7, <1>8

LEMMA AnswerStep == ASSUME IInv, NEW t \in Tasks, Answer(t) PROVE IInv'
<1>1. /\ kind[t] # "none" /\ answer[t] = "none" /\ PollEnds(t)
      /\ UNCHANGED <<schedulerVars, remote, kind, expired, workerVars, down, gateway>>
  BY DEF Answer, Waiting
<1>2. /\ Settled(t) \in TaskRecord /\ Terminal(Settled(t))
      /\ Terminal(task[t]) => Settled(t) = task[t]
  BY <1>1, SettledFacts
<1>3. /\ task' = [task EXCEPT ![t] = Settled(t)]
      /\ answer' = [answer EXCEPT ![t] = HttpStatus(kind[t], Settled(t))]
  BY <1>2 DEF Answer
<1>4. HttpStatus(kind[t], Settled(t)) \in Answers  BY StatusFacts
<1> QED BY <1>1, <1>2, <1>3, <1>4, CallerStep

LEMMA AbandonStep == ASSUME IInv, NEW t \in Tasks, Abandon(t) PROVE IInv'
<1>1. /\ kind[t] # "none" /\ answer[t] = "none"
      /\ task' = [task EXCEPT ![t] = MarkFailed(task[t], "cancelled")]
      /\ answer' = [answer EXCEPT ![t] = "499"]
      /\ UNCHANGED <<schedulerVars, remote, kind, expired, workerVars, down, gateway>>
  BY DEF Abandon, Waiting
<1>2. task[t] \in TaskRecord /\ "cancelled" \in ErrorCodes
  BY CodeFacts DEF IInv, TypeOK
<1>3. /\ MarkFailed(task[t], "cancelled") \in TaskRecord
      /\ Terminal(task[t]) => MarkFailed(task[t], "cancelled") = task[t]
  BY <1>2, MarkFacts
<1>4. "499" \in Answers  BY DEF Answers
<1> QED BY <1>1, <1>3, <1>4, CallerStep

-----------------------------------------------------------------------------
(* The pools                                                               *)

\* The batch joins the queue of one Worker, or goes to the remote pool.
LEMMA DispatchStep == ASSUME IInv, Dispatch PROVE IInv'
<1> USE DEF IInv
<1>1. Sch!Hand /\ Sch!Next  BY DEF Dispatch, Sch!Next
<1>2. SP!IInv'  BY <1>1, SchedulerNext
<1>3. Sch!TypeOK'  BY <1>2, SchedulerTyped, PTL
<1>4. handed' = handed \cup sched.batch /\ UNCHANGED <<created, refused>>
  BY <1>1 DEF Sch!Hand, Sch!outside, Sch!producerVars
<1>5. UNCHANGED <<remote, kind, expired, task, answer, wpc, cur, down, gateway>>  BY DEF Dispatch
<1>6. Tasks' = Tasks /\ Sch!Created' = Sch!Created
  BY <1>4 DEF Tasks, Sch!Tasks, Sch!Created
<1>7. wq \in [Workers -> Seq(SUBSET handed')]
  BY <1>4, QueuesWiden DEF TypeOK
<1>8. wq' \in [Workers -> Seq(SUBSET handed')]
  <2>1. CASE remote  BY <1>7, <2>1 DEF Dispatch
  <2>2. CASE ~remote
    <3>1. PICK w \in Workers : wq' = [wq EXCEPT ![w] = Append(wq[w], sched.batch)]
      BY <2>2 DEF Dispatch, WorkerPoolSubmit, SubmitTo
    <3>2. sched.batch \in SUBSET handed' /\ wq[w] \in Seq(SUBSET handed')
      BY <1>4, <1>7
    <3>3. Append(wq[w], sched.batch) \in Seq(SUBSET handed')
      BY <3>2, AppendProperties
    <3> QED BY <1>7, <3>1, <3>3
  <2> QED BY <2>1, <2>2
<1>9. cur' \in [Workers -> SUBSET handed']  BY <1>4, <1>5 DEF TypeOK
<1>10. TypeOK'  BY <1>3, <1>4, <1>5, <1>6, <1>8, <1>9 DEF TypeOK
<1>11. NoEarlyAnswer'  BY <1>5, <1>6 DEF NoEarlyAnswer
<1>12. AnswersHold'  BY <1>4, <1>5, AnswersKept
<1> QED BY <1>2, <1>10, <1>11, <1>12

\* A step of a pool that respects outcomes.
LEMMA PoolWrites ==
    ASSUME IInv, UNCHANGED workerOnly,
           task' \in [Tasks -> TaskRecord],
           \A t \in Tasks : Terminal(task[t]) => task'[t] = task[t],
           wpc' \in [Workers -> {"top", "drain", "work", "exited"}],
           wq' \in [Workers -> Seq(SUBSET handed)],
           cur' \in [Workers -> SUBSET handed]
    PROVE  IInv'
<1> USE DEF IInv
<1>1. UNCHANGED <<schedulerVars, remote, kind, expired, answer, down, gateway>>  BY DEF workerOnly
<1>2. SP!IInv'  BY <1>1, SchedulerNext
<1>3. Sch!TypeOK'  BY <1>2, SchedulerTyped, PTL
<1>4. UNCHANGED <<created, refused, handed>>  BY <1>1 DEF schedulerVars
<1>5. Tasks' = Tasks /\ Sch!Created' = Sch!Created
  BY <1>4 DEF Tasks, Sch!Tasks, Sch!Created
<1>6. TypeOK'  BY <1>1, <1>3, <1>4, <1>5 DEF TypeOK
<1>7. NoEarlyAnswer'  BY <1>1, <1>5 DEF NoEarlyAnswer
<1>8. AnswersHold'  BY <1>1, <1>4, AnswersKept
<1> QED BY <1>2, <1>6, <1>7, <1>8

\* Worker._loop pops a batch from its queue: a set of tasks handed over.
LEMMA HeadHanded ==
    ASSUME IInv, NEW w \in Workers, wq[w] # <<>>
    PROVE  Head(wq[w]) \in SUBSET handed /\ Tail(wq[w]) \in Seq(SUBSET handed)
<1>1. wq[w] \in Seq(SUBSET handed)  BY DEF IInv, TypeOK
<1> QED BY <1>1, HeadTailProperties

LEMMA WorkerSteps ==
    ASSUME IInv, NEW w \in Workers, WorkerStep(w) PROVE IInv'
<1>0. /\ task \in [Tasks -> TaskRecord]
      /\ wpc \in [Workers -> {"top", "drain", "work", "exited"}]
      /\ wq \in [Workers -> Seq(SUBSET handed)] /\ cur \in [Workers -> SUBSET handed]
  BY DEF IInv, TypeOK
<1>1. CASE Wake(w) \/ NothingQueued(w)
  <2>1. UNCHANGED workerOnly /\ UNCHANGED <<task, wq, cur>>
    BY <1>1 DEF Wake, NothingQueued
  <2>2. wpc' \in [Workers -> {"top", "drain", "work", "exited"}]
    BY <1>0, <1>1 DEF Wake, NothingQueued
  <2> QED BY <1>0, <2>1, <2>2, PoolWrites
<1>2. CASE PopBatch(w)
  <2>1. /\ UNCHANGED workerOnly /\ wq[w] # <<>>
        /\ cur' = [cur EXCEPT ![w] = Head(wq[w])]
        /\ wq' = [wq EXCEPT ![w] = Tail(wq[w])]
        /\ wpc' = [wpc EXCEPT ![w] = "work"]
        /\ task' = [t \in Tasks |-> IF t \in Head(wq[w]) THEN MarkProcessing(task[t])
                                    ELSE task[t]]
    BY <1>2 DEF PopBatch
  <2>2. Head(wq[w]) \in SUBSET handed /\ Tail(wq[w]) \in Seq(SUBSET handed)
    BY <2>1, HeadHanded
  <2>3. /\ cur' \in [Workers -> SUBSET handed] /\ wq' \in [Workers -> Seq(SUBSET handed)]
        /\ wpc' \in [Workers -> {"top", "drain", "work", "exited"}]
    BY <1>0, <2>1, <2>2
  <2>4. "none" \in ErrorCodes  BY CodeFacts
  <2>5. /\ task' \in [Tasks -> TaskRecord]
        /\ \A t \in Tasks : Terminal(task[t]) => task'[t] = task[t]
    BY <1>0, <2>1, <2>4, MarkFacts
  <2> QED BY <2>1, <2>3, <2>5, PoolWrites
<1>3. CASE Process(w)
  <2>1. /\ UNCHANGED workerOnly /\ UNCHANGED wq
        /\ cur' = [cur EXCEPT ![w] = {}] /\ wpc' = [wpc EXCEPT ![w] = "drain"]
    BY <1>3 DEF Process
  <2>2. PICK bad \in SUBSET cur[w] :
          task' = [t \in Tasks |-> IF t \in bad THEN MarkFailed(task[t], "none")
                                   ELSE IF t \in cur[w] THEN MarkDone(task[t])
                                   ELSE task[t]]
    BY <1>3 DEF Process
  <2>3. /\ cur' \in [Workers -> SUBSET handed]
        /\ wpc' \in [Workers -> {"top", "drain", "work", "exited"}]
    BY <1>0, <2>1
  <2>4. "none" \in ErrorCodes  BY CodeFacts
  <2>5. /\ task' \in [Tasks -> TaskRecord]
        /\ \A t \in Tasks : Terminal(task[t]) => task'[t] = task[t]
    BY <1>0, <2>2, <2>4, MarkFacts
  <2> QED BY <1>0, <2>1, <2>3, <2>5, PoolWrites
<1> QED BY <1>1, <1>2, <1>3 DEF WorkerStep

LEMMA PoolSteps == ASSUME IInv, NEW t \in Tasks, PoolStep(t) PROVE IInv'
<1>0. /\ task \in [Tasks -> TaskRecord]
      /\ wpc \in [Workers -> {"top", "drain", "work", "exited"}]
      /\ wq \in [Workers -> Seq(SUBSET handed)] /\ cur \in [Workers -> SUBSET handed]
  BY DEF IInv, TypeOK
<1>1. UNCHANGED workerOnly /\ UNCHANGED <<wpc, wq, cur>>  BY DEF PoolStep, workerVars
<1>2. PICK tk \in {MarkDone(task[t])} \cup {MarkFailed(task[t], c) : c \in PoolCodes} :
        task' = [task EXCEPT ![t] = tk]
  BY DEF PoolStep
<1>3. tk \in TaskRecord /\ (Terminal(task[t]) => tk = task[t])
  <2>1. task[t] \in TaskRecord  BY <1>0
  <2>2. CASE tk = MarkDone(task[t])
    <3>1. "none" \in ErrorCodes  BY CodeFacts
    <3> QED BY <2>1, <2>2, <3>1, MarkFacts
  <2>3. CASE \E c \in PoolCodes : tk = MarkFailed(task[t], c)
    BY <2>1, <2>3, CodeFacts, MarkFacts
  <2> QED BY <2>2, <2>3
<1>4. /\ task' \in [Tasks -> TaskRecord]
      /\ \A u \in Tasks : Terminal(task[u]) => task'[u] = task[u]
  BY <1>0, <1>2, <1>3
<1> QED BY <1>0, <1>1, <1>4, PoolWrites

LEMMA NextIInv == IInv /\ [Next]_vars => IInv'
<1> SUFFICES ASSUME IInv, [Next]_vars PROVE IInv'  OBVIOUS
<1>1. CASE \E p \in Sch!Producers, k \in {"predict", "text", "job"} : Construct(p, k)
  BY <1>1, ConstructStep
<1>2. CASE \E p \in Sch!Producers : Enqueue(p)  BY <1>2, EnqueueStep
<1>3. CASE \E t \in Tasks : Expire(t) \/ Answer(t) \/ Abandon(t) \/ PoolStep(t)
  BY <1>3, FlagStep, AnswerStep, AbandonStep, PoolSteps
<1>4. CASE SchedulerStep  BY <1>4, QuietStep, DispatchStep DEF SchedulerStep
<1>5. CASE Reconfigure  BY <1>5, QuietStep DEF Reconfigure
<1>6. CASE \E w \in Workers : WorkerStep(w)  BY <1>6, WorkerSteps
<1>7. CASE StopScheduler  BY <1>7, QuietStep DEF StopScheduler
<1>8. CASE StopGateway \/ GatewayExits \/ StopWorkers  BY <1>8, FlagStep
<1>9. CASE UNCHANGED vars
  <2>1. UNCHANGED workerOnly /\ UNCHANGED <<task, wpc, wq, cur>>
    BY <1>9 DEF vars, servingVars, workerOnly, workerVars
  <2> QED BY <2>1, PoolWrites DEF IInv, TypeOK
<1> QED BY <1>1, <1>2, <1>3, <1>4, <1>5, <1>6, <1>7, <1>8, <1>9 DEF Next

-----------------------------------------------------------------------------
(* Theorems                                                                *)

\* The scheduler's invariant, the types, and what callers were told are inductive
\* together.
THEOREM InvariantHolds == Spec => []IInv
<1>1. Init => IInv  BY InitIInv
<1>2. IInv /\ [Next]_vars => IInv'  BY NextIInv
<1> QED BY <1>1, <1>2, PTL DEF Spec

\* Every variable of the API process keeps its type; in particular Worker threads
\* hold only tasks that the scheduler has handed over.
THEOREM TypeCorrect == Spec => []TypeOK
<1>1. IInv => TypeOK  BY DEF IInv
<1> QED BY <1>1, InvariantHolds, PTL

\* What predict, text_task or the gateway told a caller stays true, however late
\* a worker reports: timeout and outcome race for the same lock, once.
THEOREM AnswersStayTrue == Spec => []AnswersHold
<1>1. IInv => AnswersHold  BY DEF IInv
<1> QED BY <1>1, InvariantHolds, PTL

-----------------------------------------------------------------------------
(* The serving path implements BatchHandler                                *)

\* Task is reached twice, directly and through BatchHandler.
LEMMA SameMethods ==
    /\ Handler!NewTask = NewTask /\ Handler!ErrorCodes = ErrorCodes
    /\ \A tk : /\ Handler!Terminal(tk) <=> Terminal(tk)
               /\ Handler!MarkProcessing(tk) = MarkProcessing(tk)
               /\ Handler!MarkDone(tk) = MarkDone(tk)
               /\ \A code : Handler!MarkFailed(tk, code) = MarkFailed(tk, code)
BY DEF Handler!NewTask, NewTask, Handler!ErrorCodes, ErrorCodes, Handler!Terminal, Terminal,
       Handler!MarkProcessing, MarkProcessing, Handler!MarkDone, MarkDone,
       Handler!MarkFailed, MarkFailed

\* The results of the methods a worker calls are among the outcomes of the contract.
LEMMA OutcomeFacts ==
    ASSUME NEW tk
    PROVE  /\ tk \in Handler!Outcomes(tk)
           /\ MarkProcessing(tk) \in Handler!Outcomes(tk)
           /\ MarkDone(tk) \in Handler!Outcomes(tk)
           /\ \A code \in ErrorCodes : MarkFailed(tk, code) \in Handler!Outcomes(tk)
<1>1. CASE Terminal(tk)
  BY <1>1, SameMethods DEF Handler!Outcomes, MarkProcessing, MarkDone, MarkFailed
<1>2. CASE ~Terminal(tk)
  BY <1>2, SameMethods DEF Handler!Outcomes
<1> QED BY <1>1, <1>2

\* Steps of either pool write tasks that were handed over, with the methods of Task.
LEMMA PoolWorks ==
    ASSUME IInv, (\E w \in Workers : WorkerStep(w)) \/ (\E t \in Tasks : PoolStep(t))
    PROVE  Handler!Work \/ UNCHANGED <<task, handed>>
<1>0. UNCHANGED handed
  <2>1. UNCHANGED workerOnly
    BY DEF WorkerStep, Wake, PopBatch, NothingQueued, Process, PoolStep
  <2> QED BY <2>1 DEF workerOnly, schedulerVars
<1>t. task \in [Tasks -> TaskRecord] /\ handed \subseteq Tasks
  BY SchedulerFacts DEF IInv, TypeOK
<1>1. ASSUME NEW w \in Workers, Wake(w) \/ NothingQueued(w) PROVE UNCHANGED task
  BY <1>1 DEF Wake, NothingQueued
<1>2. ASSUME NEW w \in Workers, PopBatch(w) PROVE Handler!Work
  <2>1. Head(wq[w]) \subseteq handed  BY <1>2, HeadHanded DEF PopBatch
  <2>2. ASSUME NEW t \in Tasks
        PROVE  task'[t] = IF t \in Head(wq[w]) THEN MarkProcessing(task[t]) ELSE task[t]
    BY <1>2 DEF PopBatch
  <2> QED BY <1>0, <1>t, <2>1, <2>2, OutcomeFacts DEF Handler!Work
<1>3. ASSUME NEW w \in Workers, Process(w) PROVE Handler!Work
  <2>1. PICK bad \in SUBSET cur[w] :
          task' = [t \in Tasks |-> IF t \in bad THEN MarkFailed(task[t], "none")
                                   ELSE IF t \in cur[w] THEN MarkDone(task[t])
                                   ELSE task[t]]
    BY <1>3 DEF Process
  <2>2. cur[w] \subseteq handed  BY DEF IInv, TypeOK
  <2>3. "none" \in ErrorCodes  BY CodeFacts
  <2>4. ASSUME NEW t \in handed PROVE task'[t] \in Handler!Outcomes(task[t])
    BY <1>t, <2>1, <2>3, OutcomeFacts
  <2>5. ASSUME NEW t \in Tasks \ handed PROVE task'[t] = task[t]  BY <2>1, <2>2
  <2> QED BY <1>0, <2>4, <2>5 DEF Handler!Work
<1>4. ASSUME NEW t \in Tasks, PoolStep(t) PROVE Handler!Work
  <2>1. PICK tk \in {MarkDone(task[t])} \cup {MarkFailed(task[t], c) : c \in PoolCodes} :
          task' = [task EXCEPT ![t] = tk]
    BY <1>4 DEF PoolStep
  <2>2. t \in handed  BY <1>4 DEF PoolStep
  <2>3. tk \in Handler!Outcomes(task[t])  BY OutcomeFacts, CodeFacts
  <2>4. \A u \in Tasks : task'[u] = IF u = t THEN tk ELSE task[u]  BY <1>t, <2>1
  <2> QED BY <1>0, <1>t, <2>2, <2>3, <2>4, OutcomeFacts DEF Handler!Work
<1> QED BY <1>0, <1>1, <1>2, <1>3, <1>4 DEF WorkerStep

\* Scheduler, callers and both pools together keep the contract of the batch handler:
\* a batch contains only tasks never handed over before, which is where the
\* scheduler's invariant is needed.
THEOREM ServingImplementsBatchHandler == Spec => ImplementsBatchHandler
<1>1. Init => Handler!Init
  BY SameMethods DEF Init, Sch!Init, Handler!Init
<1>2. IInv /\ [Next]_vars => [Handler!Next]_<<task, handed>>
  <2> SUFFICES ASSUME IInv, [Next]_vars
               PROVE  Handler!Next \/ UNCHANGED <<task, handed>>
    OBVIOUS
  <2>1. CASE \/ \E p \in Sch!Producers, k \in {"predict", "text", "job"} : Construct(p, k)
             \/ \E p \in Sch!Producers : Enqueue(p)
    BY <2>1 DEF Construct, Enqueue, Sch!Create, Sch!Put
  <2>2. CASE \E t \in Tasks : Expire(t)  BY <2>2 DEF Expire, schedulerVars
  <2>3. ASSUME NEW t \in Tasks, Answer(t) \/ Abandon(t)
        PROVE  Handler!Next \/ UNCHANGED <<task, handed>>
    <3>1. task \in [Tasks -> TaskRecord] /\ UNCHANGED handed
      BY <2>3 DEF Answer, Abandon, schedulerVars, IInv, TypeOK
    <3>2. CASE Answer(t) /\ t \notin expired
      <4>1. task' = [task EXCEPT ![t] = task[t]]  BY <3>2 DEF Answer, Settled
      <4> QED BY <3>1, <4>1
    <3>3. CASE Abandon(t) \/ t \in expired
      <4>1. PICK code \in {"deadline_exceeded", "cancelled"} :
              task' = [task EXCEPT ![t] = MarkFailed(task[t], code)]
        BY <2>3, <3>3 DEF Answer, Abandon, Settled
      <4>2. Handler!GiveUp(t)  BY <3>1, <4>1, SameMethods DEF Handler!GiveUp
      <4> QED BY <4>2 DEF Handler!Next
    <3> QED BY <2>3, <3>2, <3>3
  <2>4. CASE Dispatch
    <3>1. handed' = handed \cup sched.batch /\ UNCHANGED task
      BY <2>4 DEF Dispatch, Sch!Hand
    <3>2. sched.batch \subseteq Tasks \ handed  BY SchedulerFacts DEF IInv
    <3> QED BY <3>1, <3>2 DEF Handler!Next, Handler!Submit
  <2>5. CASE (Sch!AssembleStep /\ UNCHANGED servingVars) \/ Reconfigure \/ StopScheduler
    <3>1. UNCHANGED servingVars /\ UNCHANGED handed
      BY <2>5, QuietSteps DEF Reconfigure, StopScheduler
    <3> QED BY <3>1 DEF servingVars
  <2>6. CASE (\E w \in Workers : WorkerStep(w)) \/ (\E t \in Tasks : PoolStep(t))
    BY <2>6, PoolWorks DEF Handler!Next
  <2>7. CASE StopGateway \/ GatewayExits \/ StopWorkers \/ UNCHANGED vars
    BY <2>7 DEF StopGateway, GatewayExits, StopWorkers, vars, servingVars, schedulerVars
  <2> QED BY <2>1, <2>2, <2>3, <2>4, <2>5, <2>6, <2>7 DEF Next, SchedulerStep
<1> QED BY <1>1, <1>2, InvariantHolds, PTL DEF Spec, ImplementsBatchHandler, Handler!Spec
=============================================================================
