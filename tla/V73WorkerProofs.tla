-------------------------- MODULE V73WorkerProofs --------------------------
(***************************************************************************)
(* Proofs about V73Worker, for any jobs, specs, artifacts, processes and   *)
(* calls.                                                                  *)
(***************************************************************************)
EXTENDS V73Worker, TLAPS

\* The call is between taking the job's flock and its collector's end.
Holding(c) == handler[c] \in {"inspect", "model"} \/ collector[c] # "none"

\* A call that is past the validation has a job and a spec.
ReqOK ==
    \A c \in Calls : Holding(c) \/ handler[c] = "lock" =>
        Job(c) \in Jobs /\ req[c].spec \in Specs

TypeInv == TypeOK /\ ReqOK

\* Initially, values have their types.
LEMMA TypeInit == Init => TypeInv
  BY V73Assumption
     DEF Init, TypeInv, TypeOK, ReqOK, Holding, NoState, NoReq, StateFile, OutStates,
         DaemonStates, HandlerPC, CollectorPC, Replies

\* How a collector goes on keeps the types.
LEMMA ContinueType ==
    ASSUME TypeOK, NEW c \in Calls, NEW pc \in CollectorPC, NEW st \in StateFile,
           Continue(c, pc, st)
    PROVE  /\ collector' \in [Calls -> CollectorPC]
           /\ mem' \in [Calls -> StateFile]
           /\ put' \in [Calls -> SUBSET Artifacts]
           /\ outcome' \in [Calls -> Replies]
           /\ jobLock' \in [Jobs -> Calls \cup {None}]
           /\ modelLock' \in Calls \cup {None}
  BY DEF TypeOK, Continue, lockVars

\* How a collector ends keeps the types.
LEMMA FinishType ==
    ASSUME TypeOK, NEW c \in Calls, NEW r \in Replies, Finish(c, r)
    PROVE  /\ collector' \in [Calls -> CollectorPC]
           /\ mem' \in [Calls -> StateFile]
           /\ put' \in [Calls -> SUBSET Artifacts]
           /\ outcome' \in [Calls -> Replies]
           /\ jobLock' \in [Jobs -> Calls \cup {None}]
           /\ modelLock' \in Calls \cup {None}
<1>1. NoState \in StateFile
  BY DEF NoState, StateFile
<1>2. "none" \in CollectorPC
  BY DEF CollectorPC
<1>. QED
  BY <1>1, <1>2 DEF TypeOK, Finish

\* How a call is refused keeps the types.
LEMMA RefuseType ==
    ASSUME TypeOK, NEW c \in Calls, NEW r \in Replies, Refuse(c, r)
    PROVE  /\ handler' \in [Calls -> HandlerPC]
           /\ reply' \in [Calls -> Replies]
           /\ mem' \in [Calls -> StateFile]
           /\ jobLock' \in [Jobs -> Calls \cup {None}]
<1>1. NoState \in StateFile
  BY DEF NoState, StateFile
<1>2. "idle" \in HandlerPC
  BY DEF HandlerPC
<1>. QED
  BY <1>1, <1>2 DEF TypeOK, Refuse, Return

\* A refusal keeps the types when it leaves the rest alone.
LEMMA RefusedType ==
    ASSUME TypeInv, NEW c \in Calls, NEW r \in Replies, Refuse(c, r),
           UNCHANGED <<fileVars, daemonVars, modelLock, collector, req, put, cancelled,
                       outcome>>
    PROVE  TypeInv'
<1>1. TypeOK'
  BY RefuseType DEF TypeInv, TypeOK, fileVars, daemonVars
<1>2. \A d \in Calls : handler'[d] = handler[d] \/ handler'[d] = "idle"
  BY DEF Refuse, Return, TypeInv, TypeOK
<1>3. ReqOK'
  BY <1>2 DEF TypeInv, ReqOK, Holding, Job
<1>. QED
  BY <1>1, <1>3 DEF TypeInv

\* A step of c's collector that leaves the RPC thread alone keeps the
\* types when it keeps those of what it may write.
LEMMA CollectorType ==
    ASSUME TypeInv, NEW c \in Calls, collector[c] # "none",
           UNCHANGED <<handler, req, cancelled, reply>>,
           \/ \E r \in Replies : Finish(c, r)
           \/ \E pc \in CollectorPC, st \in StateFile : Continue(c, pc, st),
           disk' \in [Jobs -> StateFile], out' = out, uploaded' = uploaded,
           daemon' \in [Jobs -> DaemonStates], runs' \in [Jobs -> Seq(Specs)]
    PROVE  TypeInv'
<1>1. /\ collector' \in [Calls -> CollectorPC]
      /\ mem' \in [Calls -> StateFile]
      /\ put' \in [Calls -> SUBSET Artifacts]
      /\ outcome' \in [Calls -> Replies]
      /\ jobLock' \in [Jobs -> Calls \cup {None}]
      /\ modelLock' \in Calls \cup {None}
  BY ContinueType, FinishType DEF TypeInv
<1>2. \A d \in Calls : collector'[d] # "none" => collector[d] # "none"
  BY DEF Finish, Continue, TypeInv, TypeOK
<1>3. TypeOK'
  BY <1>1 DEF TypeInv, TypeOK
<1>4. ReqOK'
  BY <1>2 DEF TypeInv, ReqOK, Holding, Job
<1>. QED
  BY <1>3, <1>4 DEF TypeInv

\* What a refused path or a failing file costs is a reply.
LEMMA PathReplies == PathErrors \subseteq Replies
  BY DEF PathErrors, Replies, PermanentErrors, RetryableErrors

\* Every action keeps the types.
LEMMA TypeNext == TypeInv /\ [Next]_vars => TypeInv'
<1>. SUFFICES ASSUME TypeInv, [Next]_vars PROVE TypeInv'
  OBVIOUS
<1>. USE V73Assumption DEF TypeInv
<1>1. ASSUME NEW c \in Calls, NEW j \in Jobs, NEW spec \in Specs \cup {BadSpec},
             Arrive(c, j, spec)
      PROVE  TypeInv'
  <2>1. /\ handler' \in [Calls -> HandlerPC]
        /\ reply' \in [Calls -> Replies]
        /\ outcome' \in [Calls -> Replies]
        /\ cancelled' \subseteq Calls
    BY <1>1 DEF Arrive, Return, TypeOK, HandlerPC, Replies
  <2>2. req' \in [Calls -> [job : Jobs \cup {None}, spec : Specs \cup {None}]]
    <3>. DEFINE R == [job : Jobs \cup {None}, spec : Specs \cup {None}]
                new == [job |-> j, spec |-> spec]
    <3>1. \/ req' = [req EXCEPT ![c] = NoReq]
          \/ req' = [req EXCEPT ![c] = new] /\ spec # BadSpec
      BY <1>1 DEF Arrive
    <3>2. req \in [Calls -> R]
      BY DEF TypeOK
    <3>3. NoReq \in R /\ (spec # BadSpec => new \in R)
      BY DEF NoReq
    <3>4. req' \in [Calls -> R]
      <4>. HIDE DEF R, new
      <4>. QED
        BY <3>1, <3>2, <3>3
    <3>. QED
      BY <3>4
  <2>3. TypeOK'
    BY <1>1, <2>1, <2>2 DEF Arrive, TypeOK, fileVars, daemonVars, lockVars
  <2>4. ReqOK'
    <3>1. \A d \in Calls \ {c} : /\ handler'[d] = handler[d]
                                 /\ collector'[d] = collector[d]
                                 /\ req'[d] = req[d]
      BY <1>1 DEF Arrive, Return, TypeOK
    <3>2. /\ collector'[c] = "none"
          /\ \/ handler'[c] = "idle"
             \/ req'[c].job \in Jobs /\ req'[c].spec \in Specs
      BY <1>1 DEF Arrive, Return, TypeOK
    <3>. QED
      BY <3>1, <3>2 DEF ReqOK, Holding, Job
  <2>. QED
    BY <2>3, <2>4
<1>2. ASSUME NEW c \in Calls, LockJob(c) PROVE TypeInv'
  <2>1. CASE \E r \in Replies : Refuse(c, r)
    BY <1>2, <2>1, RefusedType DEF LockJob
  <2>2. CASE /\ jobLock' = [jobLock EXCEPT ![Job(c)] = c]
             /\ handler' = [handler EXCEPT ![c] = "inspect"]
             /\ UNCHANGED <<mem, reply>>
    BY <1>2, <2>2 DEF LockJob, TypeOK, ReqOK, Holding, Job, HandlerPC, fileVars, daemonVars
  <2>. QED
    BY <1>2, <2>1, <2>2, PathReplies DEF LockJob, Replies, RetryableErrors
<1>3. ASSUME NEW c \in Calls, Inspect(c) PROVE TypeInv'
  <2>1. Job(c) \in Jobs /\ disk[Job(c)] \in StateFile /\ out[Job(c)] \in OutStates
    BY <1>3 DEF Inspect, TypeOK, ReqOK, Holding
  <2>2. CASE \E r \in Replies : Refuse(c, r)
    BY <1>3, <2>2, RefusedType DEF Inspect
  <2>3. CASE /\ Uncertain(disk[Job(c)], out[Job(c)]) => Recoverable(disk[Job(c)], out[Job(c)])
             /\ mem' = [mem EXCEPT ![c] =
                   IF Uncertain(disk[Job(c)], out[Job(c)])
                   THEN [disk[Job(c)] EXCEPT !.response = Recovered(out[Job(c)]),
                                             !.running = FALSE]
                   ELSE disk[Job(c)]]
             /\ handler' = [handler EXCEPT ![c] = "model"]
             /\ UNCHANGED <<jobLock, reply>>
    <3>1. Recovered(out[Job(c)]) \in Responses
      BY DEF Recovered, Responses
    <3>2. [disk[Job(c)] EXCEPT !.response = Recovered(out[Job(c)]), !.running = FALSE]
             \in StateFile
      BY <2>1, <3>1 DEF StateFile
    <3>3. mem' \in [Calls -> StateFile]
      BY <2>1, <2>3, <3>2 DEF TypeOK
    <3>. QED
      BY <1>3, <2>3, <3>3
         DEF Inspect, TypeOK, ReqOK, Holding, Job, HandlerPC, fileVars, daemonVars
  <2>. QED
    <3>1. disk[Job(c)].error # "none" => disk[Job(c)].error \in Replies
      BY <2>1 DEF StateFile, Replies
    <3>2. PathErrors \cup {"spec_conflict", "result", "already_running",
                           "invalid_artifacts"} \subseteq Replies
      BY DEF Replies, RetryableErrors, PermanentErrors, PathErrors
    <3>. QED
      BY <1>3, <2>2, <2>3, <3>1, <3>2 DEF Inspect
<1>4. ASSUME NEW c \in Calls, LockModel(c) PROVE TypeInv'
  <2>1. CASE /\ \E r \in PathErrors \cup {"worker_busy"} : Refuse(c, r)
             /\ UNCHANGED <<modelLock, collector>>
    BY <1>4, <2>1, RefusedType, PathReplies DEF LockModel, Replies, RetryableErrors
  <2>2. CASE /\ modelLock' = c
             /\ handler' = [handler EXCEPT ![c] = "wait"]
             /\ collector' = [collector EXCEPT ![c] = "claim"]
             /\ UNCHANGED <<jobLock, mem, reply>>
    BY <1>4, <2>2
       DEF LockModel, TypeOK, ReqOK, Holding, Job, HandlerPC, CollectorPC, fileVars,
           daemonVars
  <2>. QED
    BY <1>4, <2>1, <2>2 DEF LockModel
<1>5. ASSUME NEW c \in Calls, GiveUp(c) PROVE TypeInv'
  BY <1>5 DEF GiveUp, Return, TypeOK, ReqOK, Holding, Job, HandlerPC, Replies,
              RetryableErrors, fileVars, daemonVars, lockVars
<1>6. ASSUME NEW c \in Calls, Answer(c) PROVE TypeInv'
  BY <1>6 DEF Answer, Return, TypeOK, ReqOK, Holding, Job, HandlerPC,
              fileVars, daemonVars, lockVars
<1>7. ASSUME NEW c \in Calls, CollectorStep(c) PROVE TypeInv'
  <2>. DEFINE j == Job(c)
  <2>1. CASE collector[c] = "none"
    BY <1>7, <2>1
       DEF CollectorStep, ClaimJob, Download, CheckActive, Connect, Send, ReadReply,
           SocketFails, RecordResponse, Verify, Upload, UploadFails, Publish,
           PersistError, DiskFails
  <2>2. CASE collector[c] # "none"
    <3>1. j \in Jobs /\ req[c].spec \in Specs /\ mem[c] \in StateFile
      BY <2>2 DEF TypeOK, ReqOK, Holding
    <3>. USE CollectorType, <2>2, <3>1
    <3>2. RetryableErrors \cup PermanentErrors \cup {"result"} \subseteq Replies
      BY DEF Replies
    <3>3. ASSUME NEW st \in StateFile, WriteState(c, st)
          PROVE  disk' \in [Jobs -> StateFile]
      BY <3>3 DEF WriteState, TypeOK
    <3>4. ASSUME NEW e \in PermanentErrors, FailWith(c, e)
          PROVE  \E pc \in CollectorPC, st \in StateFile : Continue(c, pc, st)
      <4>1. [mem[c] EXCEPT !.error = e] \in StateFile
        BY DEF StateFile
      <4>. QED
        BY <3>4, <4>1 DEF FailWith, CollectorPC
    <3>5. CASE ClaimJob(c)
      <4>. DEFINE st == [mem[c] EXCEPT !.fp = req[c].spec]
      <4>1. st \in StateFile
        BY DEF StateFile
      <4>2. disk' \in [Jobs -> StateFile]
        BY <3>3, <3>5, <4>1 DEF ClaimJob
      <4>3. \E pc \in CollectorPC, s \in StateFile : Continue(c, pc, s)
        BY <3>5, <4>1 DEF ClaimJob, CollectorPC
      <4>. QED
        BY <3>5, <4>2, <4>3 DEF ClaimJob, TypeOK, daemonVars
    <3>6. CASE Download(c)
      <4>1. \/ \E r \in Replies : Finish(c, r)
            \/ \E pc \in CollectorPC, s \in StateFile : Continue(c, pc, s)
        BY <3>2, <3>4, <3>6 DEF Download, CollectorPC, RetryableErrors, PermanentErrors
      <4>. QED
        BY <3>6, <4>1 DEF Download, TypeOK, daemonVars, fileVars
    <3>7. CASE CheckActive(c)
      <4>1. \/ \E r \in Replies : Finish(c, r)
            \/ \E pc \in CollectorPC, s \in StateFile : Continue(c, pc, s)
        BY <3>2, <3>7 DEF CheckActive, CollectorPC, RetryableErrors
      <4>. QED
        BY <3>7, <4>1 DEF CheckActive, TypeOK, daemonVars, fileVars
    <3>8. CASE Connect(c)
      <4>1. [mem[c] EXCEPT !.running = TRUE] \in StateFile
        BY DEF StateFile
      <4>2. disk' \in [Jobs -> StateFile]
        BY <3>3, <3>8, <4>1 DEF Connect, TypeOK
      <4>3. \/ \E r \in Replies : Finish(c, r)
            \/ \E pc \in CollectorPC, s \in StateFile : Continue(c, pc, s)
        BY <3>2, <3>8, <4>1 DEF Connect, CollectorPC, RetryableErrors
      <4>. QED
        BY <3>8, <4>2, <4>3 DEF Connect, TypeOK, daemonVars
    <3>9. CASE Send(c)
      <4>1. \E pc \in CollectorPC, s \in StateFile : Continue(c, pc, s)
        BY <3>9 DEF Send, CollectorPC
      <4>2. runs' \in [Jobs -> Seq(Specs)]
        BY <3>9 DEF Send, TypeOK
      <4>3. daemon' \in [Jobs -> DaemonStates]
        BY <3>9 DEF Send, TypeOK, DaemonStates
      <4>. QED
        BY <3>9, <4>1, <4>2, <4>3 DEF Send, TypeOK, fileVars
    <3>10. CASE ReadReply(c)
      <4>1. [mem[c] EXCEPT !.response = daemon[j], !.running = FALSE] \in StateFile
        BY <3>10 DEF ReadReply, StateFile
      <4>2. \E pc \in CollectorPC, s \in StateFile : Continue(c, pc, s)
        BY <3>10, <4>1 DEF ReadReply, CollectorPC
      <4>3. daemon' \in [Jobs -> DaemonStates]
        BY <3>10 DEF ReadReply, TypeOK, DaemonStates
      <4>. QED
        BY <3>10, <4>2, <4>3 DEF ReadReply, TypeOK, fileVars
    <3>11. CASE SocketFails(c) \/ UploadFails(c) \/ DiskFails(c)
      <4>1. \E r \in Replies : Finish(c, r)
        BY <3>2, <3>11, PathReplies DEF SocketFails, UploadFails, DiskFails, RetryableErrors
      <4>. QED
        BY <3>11, <4>1
           DEF SocketFails, UploadFails, DiskFails, TypeOK, daemonVars, fileVars
    <3>12. CASE RecordResponse(c)
      <4>1. disk' \in [Jobs -> StateFile]
        BY <3>3, <3>12 DEF RecordResponse
      <4>2. \E pc \in CollectorPC, s \in StateFile : Continue(c, pc, s)
        BY <3>12 DEF RecordResponse, CollectorPC
      <4>. QED
        BY <3>12, <4>1, <4>2 DEF RecordResponse, TypeOK, daemonVars
    <3>13. CASE Verify(c)
      <4>1. \E pc \in CollectorPC, s \in StateFile : Continue(c, pc, s)
        BY <3>4, <3>13 DEF Verify, CollectorPC, PermanentErrors
      <4>. QED
        BY <3>13, <4>1 DEF Verify, TypeOK, daemonVars, fileVars
    <3>14. ASSUME NEW a \in Artifacts, Upload(c, a) PROVE TypeInv'
      BY <3>14 DEF Upload, TypeOK, ReqOK, Holding, Job, daemonVars, lockVars
    <3>15. CASE Publish(c)
      <4>1. [mem[c] EXCEPT !.result = TRUE] \in StateFile
        BY DEF StateFile
      <4>2. disk' \in [Jobs -> StateFile]
        BY <3>3, <3>15, <4>1 DEF Publish
      <4>. QED
        BY <3>2, <3>15, <4>2 DEF Publish, TypeOK, daemonVars
    <3>16. CASE PersistError(c)
      <4>1. disk' \in [Jobs -> StateFile]
        BY <3>3, <3>16 DEF PersistError
      <4>2. mem[c].error \in Replies
        BY DEF StateFile, Replies
      <4>. QED
        BY <3>16, <4>1, <4>2 DEF PersistError, TypeOK, daemonVars
    <3>. QED
      BY <1>7, <3>5, <3>6, <3>7, <3>8, <3>9, <3>10, <3>11, <3>12, <3>13, <3>14, <3>15,
         <3>16 DEF CollectorStep
  <2>. QED
    BY <2>1, <2>2
<1>8. ASSUME NEW c \in Calls, Cancel(c) PROVE TypeInv'
  BY <1>8 DEF Cancel, TypeOK, ReqOK, Holding, Job, fileVars, daemonVars, lockVars
<1>9. ASSUME NEW p \in Processes, Crash(p) PROVE TypeInv'
  <2>1. /\ NoState \in StateFile
        /\ "idle" \in HandlerPC
        /\ "none" \in CollectorPC
        /\ "none" \in Replies
    BY DEF NoState, StateFile, HandlerPC, CollectorPC, Replies
  <2>2. TypeOK'
    BY <1>9, <2>1 DEF Crash, TypeOK, NoReq, fileVars, daemonVars
  <2>3. ReqOK'
    BY <1>9 DEF Crash, TypeOK, ReqOK, Holding, Job
  <2>. QED
    BY <2>2, <2>3
<1>10. ASSUME NEW j \in Jobs, DaemonStarts(j) PROVE TypeInv'
  BY <1>10 DEF DaemonStarts, TypeOK, ReqOK, Holding, Job, OutStates, daemonVars, lockVars
<1>11. ASSUME NEW j \in Jobs, DaemonEnds(j) PROVE TypeInv'
  BY <1>11 DEF DaemonEnds, Recovered, TypeOK, ReqOK, Holding, Job, OutStates,
               DaemonStates, Responses, lockVars
<1>12. ASSUME NEW j \in Jobs, DaemonStops(j) PROVE TypeInv'
  BY <1>12 DEF DaemonStops, TypeOK, ReqOK, Holding, Job, DaemonStates, fileVars, lockVars
<1>13. CASE UNCHANGED vars
  BY <1>13 DEF vars, TypeOK, ReqOK, Holding, Job
<1>. QED
  BY <1>1, <1>2, <1>3, <1>4, <1>5, <1>6, <1>7, <1>8, <1>9, <1>10, <1>11, <1>12, <1>13
     DEF Next, HandlerStep

\* Whatever calls, crashes, cancellations and daemon answers come, the worker's
\* state has its types.
THEOREM TypeCorrect == Spec => []TypeOK
<1>1. Init => TypeInv
  BY TypeInit
<1>2. TypeInv /\ [Next]_vars => TypeInv'
  BY TypeNext
<1>. QED
  BY <1>1, <1>2, PTL DEF Spec, TypeInv

-----------------------------------------------------------------------------
(* The model is started at most once, and copies of state.json are fresh.  *)

\* The call has a copy of state.json that its collector will write back.
Copying(c) == handler[c] = "model" \/ collector[c] # "none"

\* A copy is not older than the file, has no outcome yet, and, as long as it has
\* no response, the model has not been started, except by this call.
CopyOK(c) ==
    /\ disk[Job(c)].fp \in {None, req[c].spec}
    /\ ~disk[Job(c)].result
    /\ disk[Job(c)].error = "none"
    /\ disk[Job(c)].response # "none" => mem[c].response = disk[Job(c)].response
    /\ mem[c].fp \in {None, req[c].spec}
    /\ ~mem[c].result
    /\ collector[c] \notin {"none", "claim"} => mem[c].fp = req[c].spec
    /\ collector[c] # "fail" => mem[c].error = "none"
    /\ collector[c] \in {"download", "check", "connect", "send", "read"} =>
          mem[c].response = "none"
    /\ collector[c] = "record" => mem[c].response # "none"
    /\ collector[c] \in {"send", "read"} => disk[Job(c)].running
    /\ collector[c] # "read" /\ mem[c].response = "none" => runs[Job(c)] = <<>>

\* A call's place, its flocks and its copy belong together.
CallOK(c) ==
    /\ handler[c] \in {"lock", "inspect", "model"} => collector[c] = "none"
    /\ Holding(c) => jobLock[Job(c)] = c
    /\ collector[c] # "none" => modelLock = c
    /\ Copying(c) => CopyOK(c)

\* state.json knows of a run of the model, or of its response.
JobOK(j) ==
    /\ Len(runs[j]) <= 1
    /\ runs[j] # <<>> => disk[j].running \/ disk[j].response # "none"

OnceInv ==
    /\ TypeInv
    /\ \A c \in Calls : CallOK(c)
    /\ \A j \in Jobs : JobOK(j)

\* Initially no call holds anything and no job has run.
LEMMA OnceInit == Init => OnceInv
<1>. SUFFICES ASSUME Init PROVE OnceInv
  OBVIOUS
<1>1. TypeInv
  BY TypeInit
<1>2. \A c \in Calls : CallOK(c)
  BY DEF Init, CallOK, Copying, Holding
<1>3. \A j \in Jobs : JobOK(j)
  BY DEF Init, JobOK
<1>. QED
  BY <1>1, <1>2, <1>3 DEF OnceInv

\* What call c does under a job's flock, or without writing any file, leaves the
\* other calls in order.
LEMMA OthersOK ==
    ASSUME OnceInv, NEW c \in Calls, NEW d \in Calls, d # c,
           handler'[d] = handler[d], collector'[d] = collector[d],
           req'[d] = req[d], mem'[d] = mem[d],
           \A j \in Jobs : jobLock[j] = d => jobLock'[j] = d,
           modelLock = d => modelLock' = d,
           \A j \in Jobs : jobLock[j] # c => disk'[j] = disk[j] /\ runs'[j] = runs[j]
    PROVE  CallOK(d)'
<1>1. CallOK(d)
  BY DEF OnceInv
<1>2. Holding(d) => Job(d) \in Jobs
  BY DEF OnceInv, TypeInv, ReqOK
<1>3. Copying(d) => Holding(d)
  BY DEF Copying, Holding
<1>4. Copying(d)' <=> Copying(d)
  BY DEF Copying
<1>5. Holding(d)' <=> Holding(d)
  BY DEF Holding
<1>6. Holding(d) => /\ jobLock'[Job(d)] = d
                    /\ disk'[Job(d)] = disk[Job(d)]
                    /\ runs'[Job(d)] = runs[Job(d)]
  BY <1>1, <1>2 DEF CallOK
<1>7. Job(d)' = Job(d)
  BY DEF Job
<1>8. Copying(d) => CopyOK(d)'
  BY <1>1, <1>3, <1>6, <1>7 DEF CallOK, CopyOK
<1>. QED
  BY <1>1, <1>4, <1>5, <1>6, <1>7, <1>8 DEF CallOK

\* The three parts of a step of c.
LEMMA StepOK ==
    ASSUME OnceInv, TypeInv', NEW c \in Calls,
           \A d \in Calls \ {c} : /\ handler'[d] = handler[d]
                                  /\ collector'[d] = collector[d]
                                  /\ req'[d] = req[d]
                                  /\ mem'[d] = mem[d],
           \A j \in Jobs : jobLock[j] \notin {c, None} => jobLock'[j] = jobLock[j],
           modelLock \notin {c, None} => modelLock' = modelLock,
           \A j \in Jobs : jobLock[j] # c => disk'[j] = disk[j] /\ runs'[j] = runs[j],
           CallOK(c)',
           \A j \in Jobs : jobLock[j] = c => JobOK(j)'
    PROVE  OnceInv'
<1>1. \A d \in Calls : CallOK(d)'
  BY OthersOK, V73Assumption
<1>2. \A j \in Jobs : JobOK(j)'
  BY DEF OnceInv, JobOK
<1>. QED
  BY <1>1, <1>2 DEF OnceInv

\* Where a collector is, its call has a job and the job's flock.
LEMMA CollectorHas ==
    ASSUME OnceInv, NEW c \in Calls, collector[c] # "none"
    PROVE  /\ Job(c) \in Jobs
           /\ req[c].spec \in Specs
           /\ jobLock[Job(c)] = c
           /\ handler[c] \notin {"lock", "inspect", "model"}
           /\ CopyOK(c)
           /\ JobOK(Job(c))
           /\ mem[c] \in StateFile
           /\ disk[Job(c)] \in StateFile
           /\ disk \in [Jobs -> StateFile]
<1>1. CallOK(c)
  BY DEF OnceInv
<1>2. Job(c) \in Jobs /\ req[c].spec \in Specs
  BY DEF OnceInv, TypeInv, ReqOK, Holding
<1>. QED
  BY <1>1, <1>2 DEF OnceInv, TypeInv, TypeOK, CallOK, Holding, Copying

\* A collector may end when what it wrote does not forget a run.
LEMMA FinishOK ==
    ASSUME OnceInv, TypeInv', NEW c \in Calls, NEW r, collector[c] # "none",
           Finish(c, r), UNCHANGED <<handler, req, runs>>,
           \A j \in Jobs : j # Job(c) => disk'[j] = disk[j],
           JobOK(Job(c))'
    PROVE  OnceInv'
<1>1. \A d \in Calls \ {c} : /\ handler'[d] = handler[d]
                             /\ collector'[d] = collector[d]
                             /\ req'[d] = req[d]
                             /\ mem'[d] = mem[d]
  BY DEF Finish, OnceInv, TypeInv, TypeOK
<1>2. collector'[c] = "none" /\ handler'[c] \notin {"lock", "inspect", "model"}
  BY CollectorHas DEF Finish, OnceInv, TypeInv, TypeOK
<1>3. CallOK(c)'
  BY <1>2 DEF CallOK, Holding, Copying
<1>4. /\ \A j \in Jobs : jobLock[j] \notin {c, None} => jobLock'[j] = jobLock[j]
      /\ modelLock \notin {c, None} => modelLock' = modelLock
  BY DEF Finish
<1>5. /\ \A j \in Jobs : jobLock[j] # c => disk'[j] = disk[j] /\ runs'[j] = runs[j]
      /\ Job(c)' = Job(c)
  BY CollectorHas DEF Job
<1>6. \A j \in Jobs : j # Job(c) => JobOK(j)'
  BY DEF OnceInv, JobOK
<1>. QED
  BY <1>1, <1>3, <1>4, <1>5, <1>6, StepOK

\* A collector may go on when its copy and its job's run stay in order.
LEMMA ContinueOK ==
    ASSUME OnceInv, TypeInv', NEW c \in Calls, NEW pc, NEW st, collector[c] # "none",
           pc # "none", Continue(c, pc, st), UNCHANGED <<handler, req>>,
           \A j \in Jobs : j # Job(c) => disk'[j] = disk[j] /\ runs'[j] = runs[j],
           CopyOK(c)', JobOK(Job(c))'
    PROVE  OnceInv'
<1>1. \A d \in Calls \ {c} : /\ handler'[d] = handler[d]
                             /\ collector'[d] = collector[d]
                             /\ req'[d] = req[d]
                             /\ mem'[d] = mem[d]
  BY DEF Continue, OnceInv, TypeInv, TypeOK
<1>2. /\ UNCHANGED <<jobLock, modelLock>>
      /\ collector'[c] # "none"
      /\ Job(c)' = Job(c)
  BY DEF Continue, lockVars, OnceInv, TypeInv, TypeOK, Job
<1>3. CallOK(c)'
  BY <1>2, CollectorHas DEF CallOK, Holding, OnceInv
<1>4. \A j \in Jobs : jobLock[j] # c => disk'[j] = disk[j] /\ runs'[j] = runs[j]
  BY CollectorHas
<1>5. \A j \in Jobs : j # Job(c) => JobOK(j)'
  BY DEF OnceInv, JobOK
<1>. QED
  BY <1>1, <1>2, <1>3, <1>4, <1>5, StepOK

\* A step of a collector keeps the invariant.
LEMMA OnceCollector ==
    ASSUME OnceInv, TypeInv', NEW c \in Calls, CollectorStep(c)
    PROVE  OnceInv'
<1>0. collector[c] # "none"
  BY DEF CollectorStep, ClaimJob, Download, CheckActive, Connect, Send, ReadReply,
         SocketFails, RecordResponse, Verify, Upload, UploadFails, Publish,
         PersistError, DiskFails
<1>. DEFINE j == Job(c)
            m == mem[c]
<1>. USE <1>0
<1>1. /\ j \in Jobs /\ req[c].spec \in Specs /\ jobLock[j] = c
      /\ CopyOK(c) /\ JobOK(j)
      /\ m \in StateFile /\ disk \in [Jobs -> StateFile]
      /\ mem \in [Calls -> StateFile] /\ collector \in [Calls -> CollectorPC]
      /\ runs \in [Jobs -> Seq(Specs)]
  BY CollectorHas DEF OnceInv, TypeInv, TypeOK
\* What a collector writes under its flock, and what it keeps in memory.
<1>2. ASSUME NEW st, WriteState(c, st)
      PROVE  disk'[j] = st /\ \A i \in Jobs : i # j => disk'[i] = disk[i]
  BY <1>1, <1>2 DEF WriteState
<1>3. ASSUME NEW pc, NEW st, Continue(c, pc, st)
      PROVE  collector'[c] = pc /\ mem'[c] = st
  BY <1>1, <1>3 DEF Continue
\* Ending without a write is always in order.
<1>4. ASSUME NEW r, Finish(c, r), UNCHANGED <<handler, req, runs, disk>>
      PROVE  OnceInv'
  <2>1. JobOK(j)'
    BY <1>1, <1>4 DEF JobOK, Job
  <2>. QED
    BY <1>4, <2>1, FinishOK
\* So is failing, from a place where the copy may be written.
<1>5. ASSUME NEW e \in PermanentErrors, FailWith(c, e), collector[c] \in {"download", "verify"},
             UNCHANGED <<handler, req, runs, disk>>
      PROVE  OnceInv'
  <2>1. collector'[c] = "fail" /\ mem'[c] = [m EXCEPT !.error = e]
    BY <1>3, <1>5 DEF FailWith
  <2>2. /\ mem'[c].fp = m.fp /\ mem'[c].response = m.response /\ mem'[c].result = m.result
    BY <1>1, <2>1 DEF StateFile
  <2>3. CopyOK(c)'
    BY <1>1, <1>5, <2>1, <2>2 DEF CopyOK, Job
  <2>4. JobOK(j)'
    BY <1>1, <1>5 DEF JobOK, Job
  <2>. QED
    BY <1>5, <2>3, <2>4, ContinueOK DEF FailWith
<1>6. CASE ClaimJob(c)
  <2>. DEFINE st == [m EXCEPT !.fp = req[c].spec]
              pc == IF st.response = "none" THEN "download" ELSE "verify"
  <2>1. /\ st.fp = req[c].spec /\ st.response = m.response /\ st.running = m.running
        /\ st.result = m.result /\ st.error = m.error
    BY <1>1 DEF StateFile
  <2>2. /\ disk'[j] = st /\ mem'[c] = st /\ collector'[c] = pc
        /\ UNCHANGED <<handler, req, runs>> /\ Job(c)' = j
        /\ Continue(c, pc, st)
        /\ \A i \in Jobs : i # j => disk'[i] = disk[i]
    BY <1>2, <1>3, <1>6 DEF ClaimJob, daemonVars, Job
  <2>. HIDE DEF st
  <2>3. CopyOK(c)'
    BY <1>1, <1>6, <2>1, <2>2 DEF CopyOK, ClaimJob
  <2>4. JobOK(j)'
    BY <1>1, <1>6, <2>1, <2>2 DEF CopyOK, JobOK, ClaimJob
  <2>. QED
    BY <2>2, <2>3, <2>4, ContinueOK
<1>7. CASE Download(c)
  <2>1. CASE Continue(c, "check", mem[c])
    <3>1. /\ mem'[c] = m /\ collector'[c] = "check" /\ Job(c)' = j
          /\ UNCHANGED <<handler, req, runs, disk>>
      BY <1>3, <1>7, <2>1 DEF Download, fileVars, daemonVars, Job
    <3>2. CopyOK(c)' /\ JobOK(j)'
      BY <1>1, <1>7, <3>1 DEF CopyOK, JobOK, Download
    <3>. QED
      BY <2>1, <3>1, <3>2, ContinueOK
  <2>. QED
    BY <1>4, <1>5, <1>7, <2>1 DEF Download, PermanentErrors, fileVars, daemonVars
<1>8. CASE CheckActive(c)
  <2>1. CASE Continue(c, "connect", mem[c])
    <3>1. /\ mem'[c] = m /\ collector'[c] = "connect" /\ Job(c)' = j
          /\ UNCHANGED <<handler, req, runs, disk>>
      BY <1>3, <1>8, <2>1 DEF CheckActive, fileVars, daemonVars, Job
    <3>2. CopyOK(c)' /\ JobOK(j)'
      BY <1>1, <1>8, <3>1 DEF CopyOK, JobOK, CheckActive
    <3>. QED
      BY <2>1, <3>1, <3>2, ContinueOK
  <2>. QED
    BY <1>4, <1>8, <2>1 DEF CheckActive, fileVars, daemonVars
<1>9. CASE Connect(c)
  <2>. DEFINE st == [m EXCEPT !.running = TRUE]
  <2>1. /\ st.fp = m.fp /\ st.response = m.response /\ st.running = TRUE
        /\ st.result = m.result /\ st.error = m.error
    BY <1>1 DEF StateFile
  <2>2. CASE WriteState(c, st) /\ Continue(c, "send", st)
    <3>1. /\ disk'[j] = st /\ mem'[c] = st /\ collector'[c] = "send"
          /\ UNCHANGED <<handler, req, runs>> /\ Job(c)' = j
          /\ \A i \in Jobs : i # j => disk'[i] = disk[i]
      BY <1>2, <1>3, <1>9, <2>2 DEF Connect, daemonVars, Job
    <3>. HIDE DEF st
    <3>2. CopyOK(c)'
      BY <1>1, <1>9, <2>1, <3>1 DEF CopyOK, Connect
    <3>3. JobOK(j)'
      BY <1>1, <2>1, <3>1 DEF JobOK
    <3>. QED
      BY <2>2, <3>1, <3>2, <3>3, ContinueOK
  <2>. QED
    BY <1>4, <1>9, <2>2 DEF Connect, daemonVars
<1>10. CASE Send(c)
  <2>1. /\ mem'[c] = m /\ collector'[c] = "read" /\ Job(c)' = j
        /\ UNCHANGED <<handler, req, disk>>
    BY <1>3, <1>10 DEF Send, fileVars, Job
  <2>2. runs'[j] = <<req[c].spec>> /\ \A i \in Jobs : i # j => runs'[i] = runs[i]
    <3>1. runs[j] = <<>>
      BY <1>1, <1>10 DEF Send, CopyOK
    <3>2. /\ runs'[j] = Append(runs[j], req[c].spec)
          /\ \A i \in Jobs : i # j => runs'[i] = runs[i]
      BY <1>1, <1>10 DEF Send
    <3>. QED
      BY <3>1, <3>2
  <2>3. CopyOK(c)'
    BY <1>1, <1>10, <2>1 DEF CopyOK, Send
  <2>4. JobOK(j)'
    BY <1>1, <1>10, <2>1, <2>2 DEF CopyOK, JobOK, Send
  <2>. QED
    BY <1>10, <2>1, <2>2, <2>3, <2>4, ContinueOK DEF Send
<1>11. CASE ReadReply(c)
  <2>. DEFINE st == [m EXCEPT !.response = daemon[j], !.running = FALSE]
  <2>1. /\ st.fp = m.fp /\ st.response = daemon[j]
        /\ st.result = m.result /\ st.error = m.error
    BY <1>1 DEF StateFile
  <2>2. daemon[j] # "none"
    BY <1>11 DEF ReadReply, Responses
  <2>3. /\ mem'[c] = st /\ collector'[c] = "record" /\ Job(c)' = j
        /\ UNCHANGED <<handler, req, runs, disk>> /\ Continue(c, "record", st)
    BY <1>3, <1>11 DEF ReadReply, fileVars, Job
  <2>. HIDE DEF st
  <2>4. CopyOK(c)'
    BY <1>1, <1>11, <2>1, <2>2, <2>3 DEF CopyOK, ReadReply
  <2>5. JobOK(j)'
    BY <1>1, <2>3 DEF JobOK
  <2>. QED
    BY <2>3, <2>4, <2>5, ContinueOK
<1>12. CASE SocketFails(c) \/ UploadFails(c) \/ DiskFails(c)
  BY <1>4, <1>12 DEF SocketFails, UploadFails, DiskFails, fileVars, daemonVars
<1>13. CASE RecordResponse(c)
  <2>1. /\ disk'[j] = m /\ mem'[c] = m /\ collector'[c] = "verify"
        /\ UNCHANGED <<handler, req, runs>> /\ Job(c)' = j
        /\ \A i \in Jobs : i # j => disk'[i] = disk[i]
    BY <1>2, <1>3, <1>13 DEF RecordResponse, daemonVars, Job
  <2>2. CopyOK(c)'
    BY <1>1, <1>13, <2>1 DEF CopyOK, RecordResponse
  <2>3. JobOK(j)'
    BY <1>1, <1>13, <2>1 DEF CopyOK, JobOK, RecordResponse
  <2>. QED
    BY <1>13, <2>1, <2>2, <2>3, ContinueOK DEF RecordResponse
<1>14. CASE Verify(c)
  <2>1. CASE Continue(c, "upload", mem[c])
    <3>1. /\ mem'[c] = m /\ collector'[c] = "upload" /\ Job(c)' = j
          /\ UNCHANGED <<handler, req, runs, disk>>
      BY <1>3, <1>14, <2>1 DEF Verify, fileVars, daemonVars, Job
    <3>2. CopyOK(c)' /\ JobOK(j)'
      BY <1>1, <1>14, <3>1 DEF CopyOK, JobOK, Verify
    <3>. QED
      BY <2>1, <3>1, <3>2, ContinueOK
  <2>. QED
    BY <1>5, <1>14, <2>1 DEF Verify, PermanentErrors, fileVars, daemonVars
<1>15. ASSUME NEW a \in Artifacts, Upload(c, a) PROVE OnceInv'
  <2>1. UNCHANGED <<disk, runs, jobLock, modelLock, handler, collector, req, mem>>
    BY <1>15 DEF Upload, daemonVars, lockVars
  <2>. QED
    BY <2>1 DEF OnceInv, CallOK, CopyOK, JobOK, Holding, Copying, Job
<1>16. CASE Publish(c)
  <2>. DEFINE st == [m EXCEPT !.result = TRUE]
  <2>1. st.response = m.response /\ st.running = m.running
    BY <1>1 DEF StateFile
  <2>2. /\ disk'[j] = st /\ UNCHANGED <<handler, req, runs>> /\ Job(c)' = j
        /\ \A i \in Jobs : i # j => disk'[i] = disk[i]
    BY <1>2, <1>16 DEF Publish, daemonVars, Job
  <2>. HIDE DEF st
  <2>3. JobOK(j)'
    BY <1>1, <1>16, <2>1, <2>2 DEF CopyOK, JobOK, Publish
  <2>. QED
    BY <1>16, <2>2, <2>3, FinishOK DEF Publish
<1>17. CASE PersistError(c)
  <2>1. /\ disk'[j] = m /\ UNCHANGED <<handler, req, runs>> /\ Job(c)' = j
        /\ \A i \in Jobs : i # j => disk'[i] = disk[i]
    BY <1>2, <1>17 DEF PersistError, daemonVars, Job
  <2>2. JobOK(j)'
    BY <1>1, <1>17, <2>1 DEF CopyOK, JobOK, PersistError
  <2>. QED
    BY <1>17, <2>1, <2>2, FinishOK DEF PersistError
<1>. QED
  BY <1>6, <1>7, <1>8, <1>9, <1>10, <1>11, <1>12, <1>13, <1>14, <1>15, <1>16, <1>17
     DEF CollectorStep

\* A refused call has nothing left to keep in order.
LEMMA RefuseOK ==
    ASSUME OnceInv, TypeInv', NEW c \in Calls, NEW r, collector[c] = "none",
           Refuse(c, r), UNCHANGED <<disk, runs, modelLock, collector, req>>
    PROVE  OnceInv'
<1>1. \A d \in Calls \ {c} : /\ handler'[d] = handler[d]
                             /\ collector'[d] = collector[d]
                             /\ req'[d] = req[d]
                             /\ mem'[d] = mem[d]
  BY DEF Refuse, Return, OnceInv, TypeInv, TypeOK
<1>2. collector'[c] = "none" /\ handler'[c] = "idle"
  BY DEF Refuse, Return, OnceInv, TypeInv, TypeOK
<1>3. CallOK(c)'
  BY <1>2 DEF CallOK, Holding, Copying
<1>4. \A j \in Jobs : jobLock[j] \notin {c, None} => jobLock'[j] = jobLock[j]
  BY DEF Refuse
<1>5. \A j \in Jobs : JobOK(j)'
  BY DEF OnceInv, JobOK
<1>. QED
  BY <1>1, <1>3, <1>4, <1>5, StepOK

\* A step of an RPC thread keeps the invariant.
LEMMA OnceHandler ==
    ASSUME OnceInv, TypeInv', NEW c \in Calls, HandlerStep(c)
    PROVE  OnceInv'
<1>. DEFINE j == Job(c)
<1>0. /\ handler \in [Calls -> HandlerPC] /\ collector \in [Calls -> CollectorPC]
      /\ mem \in [Calls -> StateFile] /\ disk \in [Jobs -> StateFile]
      /\ jobLock \in [Jobs -> Calls \cup {None}]
      /\ CallOK(c)
  BY DEF OnceInv, TypeInv, TypeOK
<1>1. CASE LockJob(c)
  <2>1. collector[c] = "none" /\ j \in Jobs
    BY <1>0, <1>1 DEF LockJob, CallOK, OnceInv, TypeInv, ReqOK
  <2>2. CASE \E r : Refuse(c, r)
    BY <1>1, <2>1, <2>2, RefuseOK DEF LockJob, fileVars, daemonVars
  <2>3. CASE /\ jobLock[j] = None
             /\ jobLock' = [jobLock EXCEPT ![j] = c]
             /\ handler' = [handler EXCEPT ![c] = "inspect"]
             /\ UNCHANGED <<mem, reply>>
    <3>1. UNCHANGED <<disk, runs, modelLock, collector, req, mem>> /\ Job(c)' = j
      BY <1>1, <2>3 DEF LockJob, fileVars, daemonVars, Job
    <3>2. handler'[c] = "inspect" /\ jobLock'[j] = c
      BY <1>0, <2>1, <2>3
    <3>3. CallOK(c)'
      BY <2>1, <3>1, <3>2 DEF CallOK, Holding, Copying
    <3>4. \A d \in Calls \ {c} : handler'[d] = handler[d]
      BY <1>0, <2>3
    <3>5. \A i \in Jobs : jobLock[i] \notin {c, None} => jobLock'[i] = jobLock[i]
      BY <1>0, <2>3
    <3>6. \A i \in Jobs : JobOK(i)'
      BY <3>1 DEF OnceInv, JobOK
    <3>. QED
      BY <3>1, <3>3, <3>4, <3>5, <3>6, StepOK
  <2>. QED
    BY <1>1, <2>2, <2>3 DEF LockJob
<1>2. CASE Inspect(c)
  <2>. DEFINE st == disk[j]
              o == out[j]
              copy == IF Uncertain(st, o)
                      THEN [st EXCEPT !.response = Recovered(o), !.running = FALSE]
                      ELSE st
  <2>1. /\ collector[c] = "none" /\ j \in Jobs /\ jobLock[j] = c
        /\ st \in StateFile /\ handler[c] = "inspect" /\ JobOK(j)
    BY <1>0, <1>2 DEF Inspect, CallOK, OnceInv, TypeInv, ReqOK, Holding
  <2>2. CASE \E r : Refuse(c, r)
    BY <1>2, <2>1, <2>2, RefuseOK DEF Inspect, fileVars, daemonVars
  <2>3. CASE /\ ~Conflict(st, req[c].spec) /\ ~st.result /\ st.error = "none"
             /\ mem' = [mem EXCEPT ![c] = copy]
             /\ handler' = [handler EXCEPT ![c] = "model"]
             /\ UNCHANGED <<jobLock, reply>>
    <3>1. UNCHANGED <<disk, runs, modelLock, collector, req, jobLock>> /\ Job(c)' = j
      BY <1>2, <2>3 DEF Inspect, fileVars, daemonVars, Job
    <3>2. handler'[c] = "model" /\ mem'[c] = copy
      BY <1>0, <2>3
    <3>3. copy.fp = st.fp /\ copy.result = st.result /\ copy.error = st.error
      BY <2>1 DEF StateFile
    <3>4. st.response # "none" => copy.response = st.response
      BY DEF Uncertain
    <3>5. copy.response = "none" => st.response = "none" /\ ~st.running
      <4>1. CASE Uncertain(st, o)
        <5>1. copy.response = Recovered(o)
          BY <2>1, <4>1 DEF StateFile
        <5>. QED
          BY <5>1 DEF Recovered
      <4>2. CASE ~Uncertain(st, o)
        BY <4>2 DEF Uncertain
      <4>. QED
        BY <4>1, <4>2
    <3>. HIDE DEF copy
    <3>6. CopyOK(c)'
      BY <2>1, <2>3, <3>1, <3>2, <3>3, <3>4, <3>5 DEF CopyOK, Conflict, JobOK
    <3>7. CallOK(c)'
      BY <2>1, <3>1, <3>2, <3>6 DEF CallOK, Holding
    <3>8. \A d \in Calls \ {c} : handler'[d] = handler[d] /\ mem'[d] = mem[d]
      BY <1>0, <2>3
    <3>9. \A i \in Jobs : JobOK(i)'
      BY <3>1 DEF OnceInv, JobOK
    <3>. QED
      BY <3>1, <3>7, <3>8, <3>9, StepOK
  <2>. QED
    BY <1>2, <2>2, <2>3 DEF Inspect
<1>3. CASE LockModel(c)
  <2>1. /\ collector[c] = "none" /\ handler[c] = "model" /\ CopyOK(c)
        /\ j \in Jobs /\ jobLock[j] = c
    BY <1>0, <1>3 DEF LockModel, CallOK, Copying, Holding, OnceInv, TypeInv, ReqOK
  <2>2. CASE (\E r : Refuse(c, r)) /\ UNCHANGED <<modelLock, collector>>
    BY <1>3, <2>1, <2>2, RefuseOK DEF LockModel, fileVars, daemonVars
  <2>3. CASE /\ modelLock = None
             /\ modelLock' = c
             /\ handler' = [handler EXCEPT ![c] = "wait"]
             /\ collector' = [collector EXCEPT ![c] = "claim"]
             /\ UNCHANGED <<jobLock, mem, reply>>
    <3>1. UNCHANGED <<disk, runs, req, mem, jobLock>> /\ Job(c)' = j
      BY <1>3, <2>3 DEF LockModel, fileVars, daemonVars, Job
    <3>2. handler'[c] = "wait" /\ collector'[c] = "claim"
      BY <1>0, <2>3
    <3>3. CopyOK(c)'
      BY <2>1, <3>1, <3>2 DEF CopyOK
    <3>4. CallOK(c)'
      BY <2>1, <2>3, <3>1, <3>2, <3>3 DEF CallOK, Holding
    <3>5. \A d \in Calls \ {c} : handler'[d] = handler[d] /\ collector'[d] = collector[d]
      BY <1>0, <2>3
    <3>6. \A i \in Jobs : JobOK(i)'
      BY <3>1 DEF OnceInv, JobOK
    <3>. QED
      BY <2>3, <3>1, <3>4, <3>5, <3>6, StepOK
  <2>. QED
    BY <1>3, <2>2, <2>3 DEF LockModel
<1>4. CASE GiveUp(c) \/ Answer(c)
  <2>1. /\ handler[c] = "wait" /\ handler' = [handler EXCEPT ![c] = "idle"]
        /\ UNCHANGED <<disk, runs, jobLock, modelLock, collector, req, mem>>
    BY <1>4 DEF GiveUp, Answer, Return, fileVars, daemonVars, lockVars
  <2>2. \A d \in Calls : \/ handler'[d] = handler[d]
                         \/ handler'[d] = "idle" /\ handler[d] = "wait"
    BY <1>0, <2>1
  <2>. QED
    BY <2>1, <2>2 DEF OnceInv, CallOK, CopyOK, JobOK, Holding, Copying, Job
<1>. QED
  BY <1>1, <1>2, <1>3, <1>4 DEF HandlerStep

\* Every step keeps the invariant.
LEMMA OnceNext == OnceInv /\ [Next]_vars => OnceInv'
<1>. SUFFICES ASSUME OnceInv, [Next]_vars PROVE OnceInv'
  OBVIOUS
<1>0. TypeInv /\ TypeInv'
  BY TypeNext DEF OnceInv
<1>1. ASSUME NEW c \in Calls, NEW j \in Jobs, NEW spec \in Specs \cup {BadSpec},
             Arrive(c, j, spec)
      PROVE  OnceInv'
  <2>1. /\ UNCHANGED <<disk, runs, jobLock, modelLock, collector, mem>>
        /\ collector'[c] = "none" /\ handler'[c] \in {"idle", "lock"}
    BY <1>0, <1>1
       DEF Arrive, Return, TypeInv, TypeOK, fileVars, daemonVars, lockVars
  <2>2. \A d \in Calls \ {c} : handler'[d] = handler[d] /\ req'[d] = req[d]
    BY <1>0, <1>1 DEF Arrive, Return, TypeInv, TypeOK
  <2>3. CallOK(c)'
    BY <2>1 DEF CallOK, Holding, Copying
  <2>4. \A i \in Jobs : JobOK(i)'
    BY <2>1 DEF OnceInv, JobOK
  <2>. QED
    BY <1>0, <2>1, <2>2, <2>3, <2>4, StepOK
<1>2. ASSUME NEW c \in Calls, Cancel(c) PROVE OnceInv'
  BY <1>0, <1>2
     DEF Cancel, OnceInv, CallOK, CopyOK, JobOK, Holding, Copying, Job, fileVars,
         daemonVars, lockVars
<1>3. ASSUME NEW p \in Processes, Crash(p) PROVE OnceInv'
  <2>1. UNCHANGED <<disk, runs>>
    BY <1>3 DEF Crash, fileVars, daemonVars
  <2>2. ASSUME NEW c \in Calls, ProcOf[c] = p PROVE CallOK(c)'
    <3>1. handler'[c] = "idle" /\ collector'[c] = "none"
      BY <1>3, <2>2 DEF Crash
    <3>. QED
      BY <3>1 DEF CallOK, Holding, Copying
  <2>3. ASSUME NEW c \in Calls, ProcOf[c] # p PROVE CallOK(c)'
    <3>1. /\ handler'[c] = handler[c] /\ collector'[c] = collector[c]
          /\ req'[c] = req[c] /\ mem'[c] = mem[c]
      BY <1>3, <2>3 DEF Crash
    <3>2. /\ \A i \in Jobs : jobLock[i] = c => jobLock'[i] = c
          /\ modelLock = c => modelLock' = c
      BY <1>3, <2>3 DEF Crash
    <3>3. CallOK(c) /\ (Holding(c) => Job(c) \in Jobs)
      BY DEF OnceInv, TypeInv, ReqOK
    <3>4. Holding(c) => jobLock'[Job(c)] = c
      BY <3>2, <3>3 DEF CallOK
    <3>5. (collector[c] # "none" => modelLock' = c) /\ Job(c)' = Job(c)
      BY <3>1, <3>2, <3>3 DEF CallOK, Job
    <3>. QED
      BY <2>1, <3>1, <3>3, <3>4, <3>5 DEF CallOK, CopyOK, Holding, Copying
  <2>4. \A i \in Jobs : JobOK(i)'
    BY <2>1 DEF OnceInv, JobOK
  <2>. QED
    BY <1>0, <2>2, <2>3, <2>4 DEF OnceInv
<1>4. ASSUME NEW j \in Jobs, DaemonStarts(j) \/ DaemonEnds(j) \/ DaemonStops(j)
      PROVE  OnceInv'
  <2>1. UNCHANGED <<disk, runs, jobLock, modelLock, handler, collector, req, mem>>
    BY <1>4 DEF DaemonStarts, DaemonEnds, DaemonStops, daemonVars, fileVars, lockVars
  <2>. QED
    BY <1>0, <2>1 DEF OnceInv, CallOK, CopyOK, JobOK, Holding, Copying, Job
<1>5. CASE UNCHANGED vars
  BY <1>0, <1>5 DEF vars, OnceInv, CallOK, CopyOK, JobOK, Holding, Copying, Job
<1>. QED
  BY <1>0, <1>1, <1>2, <1>3, <1>4, <1>5, OnceHandler, OnceCollector DEF Next

\* No call that found a linked output directory gets as far as a copy of
\* state.json, so none starts the model.
LinkInv ==
    /\ \A c \in Calls : Copying(c) => out[Job(c)] # "linked"
    /\ \A j \in Jobs : out[j] = "linked" => runs[j] = <<>>

\* Nobody makes a link of a directory, and only Inspect lets a call get on.
LEMMA LinkNext == TypeInv /\ LinkInv /\ [Next]_vars => LinkInv'
<1>. SUFFICES ASSUME TypeInv, LinkInv, [Next]_vars PROVE LinkInv'
  OBVIOUS
<1>0. TypeOK
  BY DEF TypeInv
<1>1. CASE UNCHANGED vars
  BY <1>1 DEF vars, LinkInv, Copying, Job
<1>2. CASE Next
  <2>1. \A j \in Jobs : out'[j] = "linked" <=> out[j] = "linked"
    <3>1. CASE out' = out
      BY <3>1
    <3>2. CASE \E j \in Jobs : DaemonStarts(j) \/ DaemonEnds(j)
      BY <1>0, <3>2 DEF DaemonStarts, DaemonEnds, TypeOK
    <3>. QED
      BY <1>2, <3>1, <3>2 DEF Next, Arrive, HandlerStep, LockJob, Inspect, LockModel,
         GiveUp, Answer, CollectorStep, ClaimJob, Download, CheckActive, Connect, Send,
         ReadReply, SocketFails, RecordResponse, Verify, Upload, UploadFails, Publish,
         PersistError, DiskFails, Cancel, Crash, DaemonStops, fileVars
  <2>2. ASSUME NEW c \in Calls, Copying(c)'
        PROVE  /\ req'[c] = req[c]
               /\ Copying(c) \/ (handler[c] = "inspect" /\ out[Job(c)] # "linked")
    <3>1. ASSUME NEW d \in Calls, NEW j \in Jobs, NEW spec \in Specs \cup {BadSpec},
                 Arrive(d, j, spec)
          PROVE  req'[c] = req[c] /\ Copying(c)
      BY <1>0, <2>2, <3>1 DEF Arrive, Return, Copying, TypeOK
    <3>2. ASSUME NEW d \in Calls, LockJob(d) \/ GiveUp(d) \/ Answer(d) \/ LockModel(d)
          PROVE  req'[c] = req[c] /\ Copying(c)
      BY <1>0, <2>2, <3>2 DEF LockJob, LockModel, GiveUp, Answer, Refuse, Return, Copying,
         TypeOK
    <3>3. ASSUME NEW d \in Calls, Inspect(d)
          PROVE  /\ req'[c] = req[c]
                 /\ Copying(c) \/ (handler[c] = "inspect" /\ out[Job(c)] # "linked")
      BY <1>0, <2>2, <3>3 DEF Inspect, Refuse, Return, Copying, TypeOK
    <3>4. ASSUME NEW d \in Calls, CollectorStep(d)
          PROVE  req'[c] = req[c] /\ Copying(c)
      <4>1. /\ UNCHANGED <<handler, req>>
            /\ collector[d] # "none"
            /\ \/ \E pc, st : Continue(d, pc, st)
               \/ \E r : Finish(d, r)
               \/ UNCHANGED collector
        BY <3>4 DEF CollectorStep, ClaimJob, Download, CheckActive, Connect, Send,
           ReadReply, SocketFails, RecordResponse, Verify, Upload, UploadFails, Publish,
           PersistError, DiskFails, FailWith
      <4>. QED
        BY <1>0, <2>2, <4>1 DEF Continue, Finish, Copying, TypeOK
    <3>5. ASSUME NEW p \in Processes, Crash(p)
          PROVE  req'[c] = req[c] /\ Copying(c)
      BY <2>2, <3>5 DEF Crash, Copying
    <3>6. ASSUME \/ \E d \in Calls : Cancel(d)
                 \/ \E j \in Jobs : DaemonStarts(j) \/ DaemonEnds(j) \/ DaemonStops(j)
          PROVE  req'[c] = req[c] /\ Copying(c)
      BY <2>2, <3>6 DEF Cancel, DaemonStarts, DaemonEnds, DaemonStops, Copying
    <3>. QED
      BY <1>2, <3>1, <3>2, <3>3, <3>4, <3>5, <3>6 DEF Next, HandlerStep
  <2>3. ASSUME NEW c \in Calls, Copying(c)' PROVE out'[Job(c)'] # "linked"
    <3>1. Job(c)' = Job(c) /\ out[Job(c)] # "linked"
      BY <2>2, <2>3 DEF Job, LinkInv
    <3>2. Copying(c) \/ handler[c] = "inspect"
      BY <2>2, <2>3
    <3>3. Job(c) \in Jobs
      BY <3>2 DEF TypeInv, ReqOK, Holding, Copying
    <3>. QED
      BY <2>1, <3>1, <3>3
  <2>4. ASSUME NEW j \in Jobs, out'[j] = "linked" PROVE runs'[j] = <<>>
    <3>1. out[j] = "linked" /\ runs[j] = <<>>
      BY <2>1, <2>4 DEF LinkInv
    <3>2. CASE runs' = runs
      BY <3>1, <3>2
    <3>3. ASSUME NEW c \in Calls, Send(c) PROVE runs'[j] = <<>>
      <4>1. /\ runs' = [runs EXCEPT ![Job(c)] = Append(@, req[c].spec)]
            /\ out[Job(c)] # "linked"
        BY <3>3 DEF Send, LinkInv, Copying
      <4>2. Job(c) # j
        BY <3>1, <4>1
      <4>. QED
        BY <1>0, <3>1, <4>1, <4>2 DEF TypeOK
    <3>. QED
      BY <1>2, <3>2, <3>3 DEF Next, Arrive, HandlerStep, LockJob, Inspect, LockModel,
         GiveUp, Answer, CollectorStep, ClaimJob, Download, CheckActive, Connect,
         ReadReply, SocketFails, RecordResponse, Verify, Upload, UploadFails, Publish,
         PersistError, DiskFails, Cancel, Crash, DaemonStarts, DaemonEnds, DaemonStops,
         daemonVars
  <2>. QED
    BY <2>3, <2>4 DEF LinkInv
<1>. QED
  BY <1>1, <1>2

\* No crash, cancellation, lost answer, failed write or retry makes the worker
\* start the model twice for a job, and a linked output directory stops it
\* before the first start.
THEOREM StartedOnce == Spec => []AtMostOnce
<1>1. OnceInv /\ LinkInv => AtMostOnce
  BY DEF OnceInv, JobOK, LinkInv, AtMostOnce
<1>2. Init => LinkInv
  BY DEF Init, LinkInv, Copying
<1>3. OnceInv => TypeInv
  BY DEF OnceInv
<1>. QED
  BY <1>1, <1>2, <1>3, OnceInit, OnceNext, LinkNext, PTL DEF Spec

\* Two collectors never work at the same time, cancelled calls included.
THEOREM Exclusive == Spec => []OneExecution
<1>1. OnceInv => OneExecution
  BY DEF OnceInv, CallOK, OneExecution
<1>. QED
  BY <1>1, OnceInit, OnceNext, PTL DEF Spec

\* A collector never works on a stale copy of state.json.
THEOREM CopiesFresh == Spec => []FreshCopy
<1>1. OnceInv => FreshCopy
  BY DEF OnceInv, CallOK, CopyOK, Copying, Holding, FreshCopy
<1>. QED
  BY <1>1, OnceInit, OnceNext, PTL DEF Spec

\* What a step keeps of the state.json of job j.
Kept(j) ==
    /\ disk[j].fp # None => disk'[j].fp = disk[j].fp
    /\ disk[j].response # "none" => disk'[j].response = disk[j].response
    /\ disk[j].result \/ disk[j].error # "none" => disk'[j] = disk[j]

\* A collector writes its copy, which is as new as the file.
LEMMA KeptByNext == ASSUME OnceInv, Next PROVE \A j \in Jobs : Kept(j)
<1>1. CASE UNCHANGED disk
  BY <1>1 DEF Kept
<1>2. ASSUME NEW c \in Calls,
             ClaimJob(c) \/ Connect(c) \/ RecordResponse(c) \/ Publish(c) \/ PersistError(c),
             disk' # disk
      PROVE  \A j \in Jobs : Kept(j)
  <2>. DEFINE j == Job(c)
              m == mem[c]
  <2>0. collector[c] # "none"
    BY <1>2 DEF ClaimJob, Connect, RecordResponse, Publish, PersistError
  <2>1. /\ j \in Jobs /\ req[c].spec \in Specs /\ CopyOK(c)
        /\ m \in StateFile /\ disk \in [Jobs -> StateFile]
    BY <2>0, CollectorHas
  <2>2. /\ [m EXCEPT !.fp = req[c].spec].fp = req[c].spec
        /\ [m EXCEPT !.fp = req[c].spec].response = m.response
        /\ [m EXCEPT !.running = TRUE].fp = m.fp
        /\ [m EXCEPT !.running = TRUE].response = m.response
        /\ [m EXCEPT !.result = TRUE].fp = m.fp
        /\ [m EXCEPT !.result = TRUE].response = m.response
    BY <2>1 DEF StateFile
  <2>3. PICK st : /\ WriteState(c, st)
                  /\ st.response = m.response
                  /\ st.fp = req[c].spec
    <3>1. collector[c] # "claim" => m.fp = req[c].spec
      BY <2>0, <2>1 DEF CopyOK
    <3>. QED
      BY <1>2, <2>2, <3>1 DEF ClaimJob, Connect, RecordResponse, Publish, PersistError
  <2>4. disk'[j] = st /\ \A i \in Jobs : i # j => disk'[i] = disk[i]
    BY <2>1, <2>3 DEF WriteState
  <2>. QED
    BY <2>1, <2>3, <2>4 DEF CopyOK, Kept
<1>3. \/ UNCHANGED disk
      \/ \E c \in Calls :
           ClaimJob(c) \/ Connect(c) \/ RecordResponse(c) \/ Publish(c) \/ PersistError(c)
  BY DEF Next, Arrive, HandlerStep, LockJob, Inspect, LockModel, GiveUp, Answer,
         CollectorStep, Download, CheckActive, Send, ReadReply, SocketFails, Verify,
         Upload, UploadFails, DiskFails, Cancel, Crash, DaemonStarts, DaemonEnds,
         DaemonStops, fileVars
<1>. QED
  BY <1>1, <1>2, <1>3

\* What state.json records is never taken back.
THEOREM Remembered == Spec => NothingForgotten
<1>1. OnceInv /\ [Next]_vars => [\A j \in Jobs : Kept(j)]_vars
  BY KeptByNext
<1>. QED
  BY <1>1, OnceInit, OnceNext, PTL DEF Spec, NothingForgotten, Kept

-----------------------------------------------------------------------------
(* A published result is complete.                                         *)

\* state.json, the daemon's run and the output directory tell the same story.
JobPub(j) ==
    /\ daemon[j] # "idle" => runs[j] # <<>>
    /\ runs[j] # <<>> => runs[j] = <<disk[j].fp>>
    /\ disk[j].response # "none" => runs[j] # <<>>
    /\ disk[j].running /\ runs[j] = <<>> => out[j] = "absent"
    /\ disk[j].result => /\ runs[j] # <<>>
                         /\ out[j] = "completed"
                         /\ uploaded[j] = Artifacts
                         /\ disk[j].error = "none"

\* A copy without a response goes with a directory that does not exist, a copy
\* with one with a run of the call's spec; an uploader has checked the files.
CopyPub(c) ==
    /\ collector[c] \notin {"none", "claim"} => disk[Job(c)].fp = req[c].spec
    /\ mem[c].response = "none" /\ collector[c] # "read" => out[Job(c)] = "absent"
    /\ mem[c].response # "none" \/ collector[c] = "read" => runs[Job(c)] # <<>>
    /\ collector[c] = "upload" => /\ mem[c].response # "none"
                                  /\ out[Job(c)] = "completed"
                                  /\ put[c] \subseteq uploaded[Job(c)]

CallPub(c) ==
    /\ collector[c] # "upload" => put[c] = {}
    /\ Copying(c) => CopyPub(c)

PubInv ==
    /\ \A j \in Jobs : JobPub(j)
    /\ \A c \in Calls : CallPub(c)

\* Initially nothing is published.
LEMMA PubInit == Init => PubInv
<1>. SUFFICES ASSUME Init PROVE PubInv
  OBVIOUS
<1>1. \A j \in Jobs : JobPub(j)
  BY DEF Init, JobPub, NoState
<1>2. \A c \in Calls : CallPub(c)
  BY DEF Init, CallPub, Copying
<1>. QED
  BY <1>1, <1>2 DEF PubInv

\* A step of c that touches other jobs' files and other calls in no way.
LEMMA PubStep ==
    ASSUME OnceInv, PubInv, NEW c \in Calls, out' = out,
           \A d \in Calls \ {c} : /\ handler'[d] = handler[d]
                                  /\ collector'[d] = collector[d]
                                  /\ req'[d] = req[d]
                                  /\ mem'[d] = mem[d]
                                  /\ put'[d] = put[d],
           \A j \in Jobs : jobLock[j] # c => /\ disk'[j] = disk[j]
                                             /\ runs'[j] = runs[j]
                                             /\ uploaded'[j] = uploaded[j]
                                             /\ daemon'[j] = daemon[j],
           CallPub(c)',
           \A j \in Jobs : jobLock[j] = c => JobPub(j)'
    PROVE  PubInv'
<1>1. ASSUME NEW d \in Calls, d # c PROVE CallPub(d)'
  <2>1. CallPub(d) /\ CallOK(d)
    BY DEF PubInv, OnceInv
  <2>2. Copying(d) => Job(d) \in Jobs /\ jobLock[Job(d)] # c
    BY <1>1, <2>1 DEF CallOK, Holding, Copying, OnceInv, TypeInv, ReqOK
  <2>3. Copying(d) => /\ disk'[Job(d)] = disk[Job(d)]
                      /\ runs'[Job(d)] = runs[Job(d)]
                      /\ uploaded'[Job(d)] = uploaded[Job(d)]
    BY <2>2
  <2>4. Job(d)' = Job(d) /\ (Copying(d)' <=> Copying(d))
    BY <1>1 DEF Job, Copying
  <2>5. Copying(d) => CopyPub(d)'
    BY <1>1, <2>1, <2>3, <2>4 DEF CallPub, CopyPub
  <2>. QED
    BY <1>1, <2>1, <2>4, <2>5 DEF CallPub
<1>2. \A j \in Jobs : jobLock[j] # c => JobPub(j)'
  BY DEF PubInv, JobPub
<1>. QED
  BY <1>1, <1>2 DEF PubInv

\* A collector ends, perhaps with a write.
LEMMA PubFinish ==
    ASSUME OnceInv, PubInv, NEW c \in Calls, NEW r, collector[c] # "none",
           Finish(c, r), UNCHANGED <<handler, req, runs, daemon, out, uploaded>>,
           \A j \in Jobs : j # Job(c) => disk'[j] = disk[j],
           JobPub(Job(c))'
    PROVE  PubInv'
<1>1. \A d \in Calls \ {c} : /\ handler'[d] = handler[d]
                             /\ collector'[d] = collector[d]
                             /\ req'[d] = req[d]
                             /\ mem'[d] = mem[d]
                             /\ put'[d] = put[d]
  BY DEF Finish, OnceInv, TypeInv, TypeOK
<1>2. CallPub(c)'
  <2>1. collector'[c] = "none" /\ put'[c] = {} /\ handler'[c] # "model"
    BY CollectorHas DEF Finish, OnceInv, TypeInv, TypeOK
  <2>. QED
    BY <2>1 DEF CallPub, Copying
<1>3. \A j \in Jobs : jobLock[j] # c => disk'[j] = disk[j]
  BY CollectorHas
<1>4. \A j \in Jobs : j # Job(c) => JobPub(j)'
  BY DEF PubInv, JobPub
<1>5. Job(c)' = Job(c)
  BY DEF Job
<1>. QED
  BY <1>1, <1>2, <1>3, <1>4, <1>5, PubStep

\* A collector goes on.
LEMMA PubContinue ==
    ASSUME OnceInv, PubInv, NEW c \in Calls, NEW pc, NEW st, collector[c] # "none",
           Continue(c, pc, st), UNCHANGED <<handler, req, out, uploaded>>,
           \A j \in Jobs : j # Job(c) => /\ disk'[j] = disk[j]
                                         /\ runs'[j] = runs[j]
                                         /\ daemon'[j] = daemon[j],
           collector[c] # "upload", CopyPub(c)', JobPub(Job(c))'
    PROVE  PubInv'
<1>1. \A d \in Calls \ {c} : /\ handler'[d] = handler[d]
                             /\ collector'[d] = collector[d]
                             /\ req'[d] = req[d]
                             /\ mem'[d] = mem[d]
                             /\ put'[d] = put[d]
  BY DEF Continue, OnceInv, TypeInv, TypeOK
<1>2. CallPub(c)'
  <2>1. put'[c] = {}
    BY DEF Continue, PubInv, CallPub
  <2>. QED
    BY <2>1 DEF CallPub
<1>3. \A j \in Jobs : jobLock[j] # c => /\ disk'[j] = disk[j]
                                        /\ runs'[j] = runs[j]
                                        /\ daemon'[j] = daemon[j]
  BY CollectorHas
<1>4. \A j \in Jobs : j # Job(c) => JobPub(j)'
  BY DEF PubInv, JobPub
<1>5. Job(c)' = Job(c)
  BY DEF Job
<1>. QED
  BY <1>1, <1>2, <1>3, <1>4, <1>5, PubStep

\* The run of a job is a run of the spec of whoever holds a copy.
LEMMA RunOf ==
    ASSUME OnceInv, NEW j \in Jobs, JobPub(j), runs[j] # <<>>, NEW s \in Specs,
           disk[j].fp \in {None, s}
    PROVE  disk[j].fp = s /\ runs[j] = <<s>>
<1>1. runs[j] = <<disk[j].fp>>
  BY DEF JobPub
<1>2. runs[j] \in Seq(Specs)
  BY DEF OnceInv, TypeInv, TypeOK
<1>3. runs[j][1] \in Specs /\ runs[j][1] = disk[j].fp
  BY <1>1, <1>2
<1>. QED
  BY <1>1, <1>3, V73Assumption

\* A step of a collector keeps files, run and uploads together.
LEMMA PubCollector ==
    ASSUME OnceInv, PubInv, NEW c \in Calls, CollectorStep(c)
    PROVE  PubInv'
<1>0. collector[c] # "none"
  BY DEF CollectorStep, ClaimJob, Download, CheckActive, Connect, Send, ReadReply,
         SocketFails, RecordResponse, Verify, Upload, UploadFails, Publish,
         PersistError, DiskFails
<1>. DEFINE j == Job(c)
            m == mem[c]
<1>. USE <1>0
<1>1. /\ j \in Jobs /\ req[c].spec \in Specs /\ jobLock[j] = c
      /\ CopyOK(c) /\ JobOK(j) /\ CallPub(c) /\ CopyPub(c) /\ JobPub(j)
      /\ m \in StateFile /\ disk \in [Jobs -> StateFile]
      /\ mem \in [Calls -> StateFile] /\ collector \in [Calls -> CollectorPC]
      /\ runs \in [Jobs -> Seq(Specs)] /\ put \in [Calls -> SUBSET Artifacts]
      /\ uploaded \in [Jobs -> SUBSET Artifacts] /\ daemon \in [Jobs -> DaemonStates]
  BY CollectorHas DEF OnceInv, TypeInv, TypeOK, PubInv, CallPub, Copying
<1>2. ASSUME NEW st, WriteState(c, st)
      PROVE  disk'[j] = st /\ \A i \in Jobs : i # j => disk'[i] = disk[i]
  BY <1>1, <1>2 DEF WriteState
<1>3. ASSUME NEW pc, NEW st, Continue(c, pc, st)
      PROVE  collector'[c] = pc /\ mem'[c] = st
  BY <1>1, <1>3 DEF Continue
<1>4. runs[j] # <<>> => runs[j] = <<req[c].spec>>
  BY <1>1, RunOf DEF CopyOK
\* What a copy says may be written, except by the reader of an answer.
<1>5. ASSUME NEW st, disk'[j] = st, st.fp = req[c].spec, st.response = m.response,
             ~st.result, collector[c] # "read",
             UNCHANGED <<req, runs, daemon, out, uploaded>>
      PROVE  JobPub(j)'
  BY <1>1, <1>4, <1>5 DEF JobPub, CopyPub, Job
<1>6. ASSUME NEW r, Finish(c, r),
             UNCHANGED <<handler, req, runs, disk, daemon, out, uploaded>>
      PROVE  PubInv'
  <2>1. JobPub(j)'
    BY <1>1, <1>6 DEF JobPub, Job
  <2>. QED
    BY <1>6, <2>1, PubFinish
<1>7. ASSUME NEW e, FailWith(c, e), collector[c] \in {"download", "verify"},
             UNCHANGED <<handler, req, runs, disk, daemon, out, uploaded>>
      PROVE  PubInv'
  <2>1. collector'[c] = "fail" /\ mem'[c] = [m EXCEPT !.error = e]
    BY <1>3, <1>7 DEF FailWith
  <2>2. mem'[c].response = m.response /\ Job(c)' = j
    BY <1>1, <1>7, <2>1 DEF StateFile, Job
  <2>3. CopyPub(c)'
    BY <1>1, <1>7, <2>1, <2>2 DEF CopyPub
  <2>4. JobPub(j)'
    BY <1>1, <1>7, <2>2 DEF JobPub
  <2>. QED
    BY <1>7, <2>2, <2>3, <2>4, PubContinue DEF FailWith
<1>8. CASE ClaimJob(c)
  <2>. DEFINE st == [m EXCEPT !.fp = req[c].spec]
              pc == IF st.response = "none" THEN "download" ELSE "verify"
  <2>1. st.fp = req[c].spec /\ st.response = m.response /\ st.result = m.result
    BY <1>1 DEF StateFile
  <2>2. /\ disk'[j] = st /\ mem'[c] = st /\ collector'[c] = pc
        /\ UNCHANGED <<handler, req, runs, daemon, out, uploaded>> /\ Job(c)' = j
        /\ Continue(c, pc, st) /\ collector[c] = "claim"
        /\ \A i \in Jobs : i # j => disk'[i] = disk[i]
    BY <1>2, <1>3, <1>8 DEF ClaimJob, daemonVars, Job
  <2>. HIDE DEF st
  <2>3. CopyPub(c)'
    BY <1>1, <2>1, <2>2 DEF CopyPub
  <2>4. JobPub(j)'
    BY <1>1, <1>5, <2>1, <2>2 DEF CopyOK
  <2>. QED
    BY <2>2, <2>3, <2>4, PubContinue
<1>9. CASE Download(c)
  <2>1. CASE Continue(c, "check", mem[c])
    <3>1. /\ mem'[c] = m /\ collector'[c] = "check" /\ Job(c)' = j
          /\ UNCHANGED <<handler, req, runs, disk, daemon, out, uploaded, put>>
      BY <1>3, <1>9, <2>1 DEF Download, fileVars, daemonVars, Job, Continue
    <3>2. CopyPub(c)'
      BY <1>1, <1>9, <3>1 DEF CopyPub, Download, CallPub
    <3>3. JobPub(j)'
      BY <1>1, <3>1 DEF JobPub
    <3>. QED
      BY <1>9, <2>1, <3>1, <3>2, <3>3, PubContinue DEF Download
  <2>. QED
    BY <1>6, <1>7, <1>9, <2>1 DEF Download, fileVars, daemonVars
<1>10. CASE CheckActive(c)
  <2>1. CASE Continue(c, "connect", mem[c])
    <3>1. /\ mem'[c] = m /\ collector'[c] = "connect" /\ Job(c)' = j
          /\ UNCHANGED <<handler, req, runs, disk, daemon, out, uploaded, put>>
      BY <1>3, <1>10, <2>1 DEF CheckActive, fileVars, daemonVars, Job, Continue
    <3>2. CopyPub(c)'
      BY <1>1, <1>10, <3>1 DEF CopyPub, CheckActive, CallPub
    <3>3. JobPub(j)'
      BY <1>1, <3>1 DEF JobPub
    <3>. QED
      BY <1>10, <2>1, <3>1, <3>2, <3>3, PubContinue DEF CheckActive
  <2>. QED
    BY <1>6, <1>10, <2>1 DEF CheckActive, fileVars, daemonVars
<1>11. CASE Connect(c)
  <2>. DEFINE st == [m EXCEPT !.running = TRUE]
  <2>1. st.fp = m.fp /\ st.response = m.response /\ st.result = m.result
    BY <1>1 DEF StateFile
  <2>2. CASE WriteState(c, st) /\ Continue(c, "send", st)
    <3>1. /\ disk'[j] = st /\ mem'[c] = st /\ collector'[c] = "send"
          /\ UNCHANGED <<handler, req, runs, daemon, out, uploaded>> /\ Job(c)' = j
          /\ \A i \in Jobs : i # j => disk'[i] = disk[i]
      BY <1>2, <1>3, <1>11, <2>2 DEF Connect, daemonVars, Job
    <3>2. collector[c] = "connect" /\ m.fp = req[c].spec /\ ~m.result
      BY <1>1, <1>11 DEF Connect, CopyOK
    <3>. HIDE DEF st
    <3>3. CopyPub(c)'
      BY <1>1, <2>1, <3>1, <3>2 DEF CopyPub
    <3>4. JobPub(j)'
      BY <1>5, <2>1, <3>1, <3>2
    <3>. QED
      BY <2>2, <3>1, <3>2, <3>3, <3>4, PubContinue
  <2>. QED
    BY <1>6, <1>11, <2>2 DEF Connect, daemonVars
<1>12. CASE Send(c)
  <2>1. /\ mem'[c] = m /\ collector'[c] = "read" /\ Job(c)' = j
        /\ UNCHANGED <<handler, req, disk, out, uploaded>> /\ collector[c] = "send"
    BY <1>3, <1>12 DEF Send, fileVars, Job
  <2>2. runs[j] = <<>>
    BY <1>1, <2>1 DEF CopyOK
  <2>3. /\ runs'[j] = Append(runs[j], req[c].spec)
        /\ \A i \in Jobs : i # j => runs'[i] = runs[i] /\ daemon'[i] = daemon[i]
    BY <1>1, <1>12 DEF Send
  <2>4. runs'[j] = <<req[c].spec>>
    BY <2>2, <2>3
  <2>5. disk[j].fp = req[c].spec /\ ~disk[j].result
    BY <1>1, <2>1 DEF CopyPub, CopyOK
  <2>6. runs'[j] # <<>>
    BY <2>4
  <2>7. CopyPub(c)'
    BY <1>1, <2>1, <2>5, <2>6 DEF CopyPub
  <2>8. JobPub(j)'
    BY <2>1, <2>4, <2>5, <2>6 DEF JobPub
  <2>. QED
    BY <1>12, <2>1, <2>3, <2>7, <2>8, PubContinue DEF Send
<1>13. CASE ReadReply(c)
  <2>. DEFINE st == [m EXCEPT !.response = daemon[j], !.running = FALSE]
  <2>1. st.response = daemon[j] /\ daemon[j] # "none"
    BY <1>1, <1>13 DEF StateFile, ReadReply, Responses
  <2>2. /\ mem'[c] = st /\ collector'[c] = "record" /\ Job(c)' = j
        /\ UNCHANGED <<handler, req, runs, disk, out, uploaded>>
        /\ Continue(c, "record", st) /\ collector[c] = "read"
    BY <1>3, <1>13 DEF ReadReply, fileVars, Job
  <2>3. daemon'[j] = "idle" /\ \A i \in Jobs : i # j => daemon'[i] = daemon[i]
    BY <1>1, <1>13 DEF ReadReply
  <2>. HIDE DEF st
  <2>4. CopyPub(c)'
    BY <1>1, <2>1, <2>2 DEF CopyPub
  <2>5. JobPub(j)'
    BY <1>1, <2>2, <2>3 DEF JobPub
  <2>. QED
    BY <2>2, <2>3, <2>4, <2>5, PubContinue
<1>14. CASE SocketFails(c) \/ UploadFails(c) \/ DiskFails(c)
  BY <1>6, <1>14 DEF SocketFails, UploadFails, DiskFails, fileVars, daemonVars
<1>15. CASE RecordResponse(c)
  <2>1. /\ disk'[j] = m /\ mem'[c] = m /\ collector'[c] = "verify"
        /\ UNCHANGED <<handler, req, runs, daemon, out, uploaded>> /\ Job(c)' = j
        /\ \A i \in Jobs : i # j => disk'[i] = disk[i]
    BY <1>2, <1>3, <1>15 DEF RecordResponse, daemonVars, Job
  <2>2. collector[c] = "record" /\ m.fp = req[c].spec /\ ~m.result /\ m.response # "none"
    BY <1>1, <1>15 DEF RecordResponse, CopyOK
  <2>3. CopyPub(c)'
    BY <1>1, <2>1, <2>2 DEF CopyPub
  <2>4. JobPub(j)'
    BY <1>5, <2>1, <2>2
  <2>. QED
    BY <1>15, <2>1, <2>2, <2>3, <2>4, PubContinue DEF RecordResponse
<1>16. CASE Verify(c)
  <2>1. CASE m.response = "completed" /\ out[j] = "completed" /\ Continue(c, "upload", mem[c])
    <3>1. /\ mem'[c] = m /\ collector'[c] = "upload" /\ Job(c)' = j
          /\ UNCHANGED <<handler, req, runs, disk, daemon, out, uploaded, put>>
          /\ collector[c] = "verify" /\ put[c] = {}
      BY <1>1, <1>3, <1>16, <2>1 DEF Verify, fileVars, daemonVars, Job, Continue, CallPub
    <3>2. CopyPub(c)'
      BY <1>1, <2>1, <3>1 DEF CopyPub
    <3>3. JobPub(j)'
      BY <1>1, <3>1 DEF JobPub
    <3>. QED
      BY <2>1, <3>1, <3>2, <3>3, PubContinue
  <2>. QED
    BY <1>7, <1>16, <2>1 DEF Verify, fileVars, daemonVars
<1>17. ASSUME NEW a \in Artifacts, Upload(c, a) PROVE PubInv'
  <2>1. /\ UNCHANGED <<disk, runs, daemon, out, jobLock, handler, collector, req, mem>>
        /\ collector[c] = "upload" /\ Job(c)' = j
    BY <1>17 DEF Upload, daemonVars, lockVars, Job
  <2>2. /\ uploaded'[j] = uploaded[j] \cup {a} /\ put'[c] = put[c] \cup {a}
        /\ \A i \in Jobs : i # j => uploaded'[i] = uploaded[i]
        /\ \A d \in Calls \ {c} : put'[d] = put[d]
    BY <1>1, <1>17 DEF Upload
  <2>3. CopyPub(c)'
    BY <1>1, <2>1, <2>2 DEF CopyPub
  <2>4. CallPub(c)'
    BY <2>1, <2>3 DEF CallPub
  <2>5. JobPub(j)'
    BY <1>1, <2>1 DEF JobPub, CopyOK
  <2>6. \A i \in Jobs : JobPub(i)'
    BY <2>1, <2>2, <2>5 DEF PubInv, JobPub
  <2>7. /\ \A d \in Calls \ {c} : /\ handler'[d] = handler[d]
                                  /\ collector'[d] = collector[d]
                                  /\ req'[d] = req[d]
                                  /\ mem'[d] = mem[d]
                                  /\ put'[d] = put[d]
        /\ \A i \in Jobs : jobLock[i] # c => /\ disk'[i] = disk[i]
                                             /\ runs'[i] = runs[i]
                                             /\ uploaded'[i] = uploaded[i]
                                             /\ daemon'[i] = daemon[i]
    BY <1>1, <2>1, <2>2
  <2>8. out' = out
    BY <2>1
  <2>. QED
    BY <2>4, <2>6, <2>7, <2>8, PubStep
<1>18. CASE Publish(c)
  <2>. DEFINE st == [m EXCEPT !.result = TRUE]
  <2>1. /\ st.response = m.response /\ st.fp = m.fp /\ st.error = m.error
    BY <1>1 DEF StateFile
  <2>2. /\ disk'[j] = st /\ Job(c)' = j
        /\ UNCHANGED <<handler, req, runs, daemon, out, uploaded>>
        /\ \A i \in Jobs : i # j => disk'[i] = disk[i]
        /\ collector[c] = "upload" /\ put[c] = Artifacts
    BY <1>2, <1>18 DEF Publish, AllPut, daemonVars, Job
  <2>3. m.fp = req[c].spec /\ m.error = "none"
    BY <1>1, <2>2 DEF CopyOK
  <2>4. runs[j] = <<req[c].spec>> /\ runs[j] # <<>>
    BY <1>1, <1>4, <2>2 DEF CopyPub
  <2>5. out[j] = "completed" /\ uploaded[j] = Artifacts
    BY <1>1, <2>2 DEF CopyPub
  <2>. HIDE DEF st
  <2>6. JobPub(j)'
    BY <2>1, <2>2, <2>3, <2>4, <2>5 DEF JobPub
  <2>. QED
    BY <1>18, <2>2, <2>6, PubFinish DEF Publish
<1>19. CASE PersistError(c)
  <2>1. /\ disk'[j] = m /\ Job(c)' = j
        /\ UNCHANGED <<handler, req, runs, daemon, out, uploaded>>
        /\ \A i \in Jobs : i # j => disk'[i] = disk[i]
        /\ collector[c] = "fail"
    BY <1>2, <1>19 DEF PersistError, daemonVars, Job
  <2>2. JobPub(j)'
    BY <1>1, <1>5, <2>1 DEF CopyOK
  <2>. QED
    BY <1>19, <2>1, <2>2, PubFinish DEF PersistError
<1>. QED
  BY <1>8, <1>9, <1>10, <1>11, <1>12, <1>13, <1>14, <1>15, <1>16, <1>17, <1>18, <1>19
     DEF CollectorStep

\* A step of an RPC thread does so too.
LEMMA PubHandler ==
    ASSUME OnceInv, PubInv, NEW c \in Calls, HandlerStep(c)
    PROVE  PubInv'
<1>. DEFINE j == Job(c)
<1>0. /\ handler \in [Calls -> HandlerPC] /\ collector \in [Calls -> CollectorPC]
      /\ mem \in [Calls -> StateFile] /\ disk \in [Jobs -> StateFile]
      /\ CallOK(c) /\ CallPub(c)
  BY DEF OnceInv, TypeInv, TypeOK, PubInv
<1>1. UNCHANGED <<disk, out, uploaded, daemon, runs, req, put>>
  BY DEF HandlerStep, LockJob, Inspect, LockModel, GiveUp, Answer, fileVars, daemonVars
<1>2. \A i \in Jobs : JobPub(i)'
  BY <1>1 DEF PubInv, JobPub
\* Only Inspect makes a copy and only LockModel starts a collector.
<1>3. ASSUME CallPub(c)',
             \A d \in Calls \ {c} : /\ handler'[d] = handler[d]
                                    /\ collector'[d] = collector[d]
                                    /\ mem'[d] = mem[d]
      PROVE  PubInv'
  BY <1>1, <1>2, <1>3, PubStep
<1>4. ASSUME NEW r, Refuse(c, r), collector[c] = "none", UNCHANGED collector PROVE PubInv'
  <2>1. handler'[c] = "idle" /\ collector'[c] = "none" /\ put'[c] = {}
    BY <1>0, <1>1, <1>4 DEF Refuse, Return, CallPub
  <2>2. CallPub(c)'
    BY <2>1 DEF CallPub, Copying
  <2>3. \A d \in Calls \ {c} : /\ handler'[d] = handler[d]
                               /\ collector'[d] = collector[d]
                               /\ mem'[d] = mem[d]
    BY <1>0, <1>4 DEF Refuse, Return
  <2>. QED
    BY <1>3, <2>2, <2>3
<1>5. CASE LockJob(c)
  <2>1. collector[c] = "none" /\ UNCHANGED collector
    BY <1>0, <1>5 DEF LockJob, CallOK
  <2>2. CASE handler' = [handler EXCEPT ![c] = "inspect"] /\ UNCHANGED <<mem, reply>>
    <3>1. CallPub(c)'
      BY <1>0, <1>1, <2>1, <2>2 DEF CallPub, Copying
    <3>. QED
      BY <1>0, <1>3, <2>1, <2>2, <3>1
  <2>. QED
    BY <1>4, <1>5, <2>1, <2>2 DEF LockJob
<1>6. CASE Inspect(c)
  <2>. DEFINE st == disk[j]
              o == out[j]
              copy == IF Uncertain(st, o)
                      THEN [st EXCEPT !.response = Recovered(o), !.running = FALSE]
                      ELSE st
  <2>1. /\ collector[c] = "none" /\ UNCHANGED collector /\ j \in Jobs
        /\ req[c].spec \in Specs /\ st \in StateFile /\ JobPub(j) /\ JobOK(j)
    BY <1>0, <1>6 DEF Inspect, CallOK, OnceInv, PubInv, TypeInv, ReqOK, Holding
  <2>2. CASE /\ Uncertain(st, o) => Recoverable(st, o)
             /\ mem' = [mem EXCEPT ![c] = copy]
             /\ handler' = [handler EXCEPT ![c] = "model"]
    <3>1. mem'[c] = copy /\ collector'[c] = "none" /\ Job(c)' = j /\ put'[c] = {}
      BY <1>0, <1>1, <2>1, <2>2 DEF Job, CallPub
    <3>2. copy.response # "none" => runs[j] # <<>>
      <4>1. CASE Uncertain(st, o)
        BY <2>1, <2>2, <4>1 DEF Recoverable, JobPub
      <4>2. CASE ~Uncertain(st, o)
        BY <2>1, <4>2 DEF JobPub
      <4>. QED
        BY <4>1, <4>2
    <3>3. copy.response = "none" => o = "absent"
      <4>1. CASE Uncertain(st, o)
        <5>1. copy.response = Recovered(o)
          BY <2>1, <4>1 DEF StateFile
        <5>. QED
          BY <5>1 DEF Recovered
      <4>2. CASE ~Uncertain(st, o)
        BY <4>2 DEF Uncertain
      <4>. QED
        BY <4>1, <4>2
    <3>. HIDE DEF copy
    <3>4. CopyPub(c)'
      BY <1>1, <3>1, <3>2, <3>3 DEF CopyPub
    <3>5. CallPub(c)'
      BY <3>1, <3>4 DEF CallPub
    <3>. QED
      BY <1>0, <1>3, <2>1, <2>2, <3>5
  <2>. QED
    BY <1>4, <1>6, <2>1, <2>2 DEF Inspect
<1>7. CASE LockModel(c)
  <2>1. collector[c] = "none" /\ CopyPub(c) /\ put[c] = {}
    BY <1>0, <1>7 DEF LockModel, CallOK, CallPub, Copying
  <2>2. CASE /\ handler' = [handler EXCEPT ![c] = "wait"]
             /\ collector' = [collector EXCEPT ![c] = "claim"]
             /\ UNCHANGED <<jobLock, mem, reply>>
    <3>1. /\ collector'[c] = "claim" /\ mem'[c] = mem[c] /\ put'[c] = {} /\ Job(c)' = j
      BY <1>0, <1>1, <2>1, <2>2 DEF Job
    <3>2. CopyPub(c)'
      BY <1>1, <2>1, <3>1 DEF CopyPub
    <3>3. CallPub(c)'
      BY <3>1, <3>2 DEF CallPub
    <3>. QED
      BY <1>0, <1>3, <2>2, <3>3
  <2>. QED
    BY <1>4, <1>7, <2>1, <2>2 DEF LockModel
<1>8. CASE GiveUp(c) \/ Answer(c)
  <2>1. /\ handler[c] = "wait" /\ handler' = [handler EXCEPT ![c] = "idle"]
        /\ UNCHANGED <<collector, mem>>
    BY <1>8 DEF GiveUp, Answer, Return
  <2>2. (Copying(c)' <=> Copying(c)) /\ Job(c)' = j
    BY <1>0, <1>1, <2>1 DEF Copying, Job
  <2>3. CallPub(c)'
    BY <1>0, <1>1, <2>1, <2>2 DEF CallPub, CopyPub
  <2>. QED
    BY <1>0, <1>3, <2>1, <2>3
<1>. QED
  BY <1>5, <1>6, <1>7, <1>8 DEF HandlerStep

\* And so does every other step.
LEMMA PubNext == OnceInv /\ PubInv /\ [Next]_vars => PubInv'
<1>. SUFFICES ASSUME OnceInv, PubInv, [Next]_vars PROVE PubInv'
  OBVIOUS
<1>0. TypeOK
  BY DEF OnceInv, TypeInv
<1>1. ASSUME NEW c \in Calls, NEW j \in Jobs, NEW spec \in Specs \cup {BadSpec},
             Arrive(c, j, spec)
      PROVE  PubInv'
  <2>1. /\ UNCHANGED <<disk, out, uploaded, runs, daemon, collector, mem, put>>
        /\ collector[c] = "none" /\ handler'[c] \in {"idle", "lock"}
    BY <1>0, <1>1 DEF Arrive, Return, TypeOK, fileVars, daemonVars
  <2>2. \A d \in Calls \ {c} : handler'[d] = handler[d] /\ req'[d] = req[d]
    BY <1>0, <1>1 DEF Arrive, Return, TypeOK
  <2>3. CallPub(c)'
    BY <2>1 DEF CallPub, Copying, PubInv
  <2>4. \A i \in Jobs : JobPub(i)'
    BY <2>1 DEF PubInv, JobPub
  <2>. QED
    BY <2>1, <2>2, <2>3, <2>4, PubStep
<1>2. ASSUME NEW c \in Calls, Cancel(c) PROVE PubInv'
  BY <1>2 DEF Cancel, PubInv, CallPub, CopyPub, JobPub, Copying, Job, fileVars, daemonVars
<1>3. ASSUME NEW p \in Processes, Crash(p) PROVE PubInv'
  <2>1. UNCHANGED <<disk, out, uploaded, runs, daemon>>
    BY <1>3 DEF Crash, fileVars, daemonVars
  <2>2. ASSUME NEW c \in Calls, ProcOf[c] = p PROVE CallPub(c)'
    <3>1. handler'[c] = "idle" /\ collector'[c] = "none" /\ put'[c] = {}
      BY <1>3, <2>2 DEF Crash
    <3>. QED
      BY <3>1 DEF CallPub, Copying
  <2>3. ASSUME NEW c \in Calls, ProcOf[c] # p PROVE CallPub(c)'
    <3>1. /\ handler'[c] = handler[c] /\ collector'[c] = collector[c]
          /\ req'[c] = req[c] /\ mem'[c] = mem[c] /\ put'[c] = put[c]
      BY <1>3, <2>3 DEF Crash
    <3>. QED
      BY <2>1, <3>1 DEF PubInv, CallPub, CopyPub, Copying, Job
  <2>4. \A i \in Jobs : JobPub(i)'
    BY <2>1 DEF PubInv, JobPub
  <2>. QED
    BY <2>2, <2>3, <2>4 DEF PubInv
\* The daemon writes only where a run has begun, and never over a completed output.
<1>4. ASSUME NEW j \in Jobs, DaemonStarts(j) \/ DaemonEnds(j) \/ DaemonStops(j)
      PROVE  PubInv'
  <2>1. /\ UNCHANGED <<disk, uploaded, runs, handler, collector, req, mem, put>>
        /\ runs[j] # <<>>
        /\ out[j] # "completed" \/ out'[j] = out[j]
        /\ daemon'[j] # "idle" => runs[j] # <<>>
        /\ \A i \in Jobs : i # j => out'[i] = out[i] /\ daemon'[i] = daemon[i]
    <3>1. UNCHANGED <<disk, uploaded, runs, handler, collector, req, mem, put>>
      BY <1>4 DEF DaemonStarts, DaemonEnds, DaemonStops, daemonVars, fileVars, lockVars
    <3>2. runs[j] # <<>>
      BY <1>4 DEF DaemonStarts, DaemonEnds, DaemonStops, PubInv, JobPub
    <3>3. /\ out[j] # "completed" \/ out'[j] = out[j]
          /\ \A i \in Jobs : i # j => out'[i] = out[i] /\ daemon'[i] = daemon[i]
      BY <1>0, <1>4 DEF DaemonStarts, DaemonEnds, DaemonStops, TypeOK, daemonVars, fileVars
    <3>. QED
      BY <3>1, <3>2, <3>3
  <2>2. \A i \in Jobs : JobPub(i)'
    BY <2>1 DEF PubInv, JobPub
  <2>3. ASSUME NEW c \in Calls PROVE CallPub(c)'
    <3>1. CallPub(c) /\ CallOK(c)
      BY DEF PubInv, OnceInv
    <3>2. Job(c)' = Job(c) /\ (Copying(c)' <=> Copying(c))
      BY <2>1 DEF Job, Copying
    <3>3. Copying(c) => CopyPub(c)'
      <4>1. Copying(c) => Job(c) \in Jobs
        BY DEF OnceInv, TypeInv, ReqOK, Holding, Copying
      <4>. QED
        BY <2>1, <3>1, <3>2, <4>1 DEF CallPub, CallOK, CopyPub, CopyOK
    <3>. QED
      BY <2>1, <3>1, <3>2, <3>3 DEF CallPub
  <2>. QED
    BY <2>2, <2>3 DEF PubInv
<1>5. CASE UNCHANGED vars
  BY <1>5 DEF vars, PubInv, CallPub, CopyPub, JobPub, Copying, Job
<1>. QED
  BY <1>1, <1>2, <1>3, <1>4, <1>5, PubHandler, PubCollector DEF Next

\* A result in state.json stands for the job's only run, with the spec that the
\* file names, and for a complete output of which every file was uploaded.
THEOREM ResultsComplete == Spec => []PublishedComplete
<1>1. OnceInv /\ PubInv => PublishedComplete
  BY DEF PubInv, JobPub, PublishedComplete
<1>2. OnceInv /\ PubInv /\ [Next]_vars => (OnceInv /\ PubInv)'
  BY OnceNext, PubNext
<1>. QED
  BY <1>1, <1>2, OnceInit, PubInit, PTL DEF Spec

-----------------------------------------------------------------------------
(* Replies are true.                                                       *)

\* The errors that say that the model ran.
ModelErrors == {"model_error", "no_usable_note", "checkpoint_mismatch"}

\* The errors that are told only when they are recorded.
RecordedErrors == PermanentErrors \ {"invalid_artifacts"}

\* What reply r to a caller with spec s says of the job's state file st and of
\* the requests ran that reached the daemon for it.
Told(st, ran, s, r) ==
    /\ r = "result" => st.result /\ st.fp = s
    /\ r \in RecordedErrors => st.error = r /\ st.fp = s
    /\ r \in ModelErrors => ran = <<s>>

\* What the collector ended with is as true as what the caller was told.
CallTold(c) ==
    Job(c) # None => /\ Told(disk[Job(c)], runs[Job(c)], req[c].spec, reply[c])
                     /\ Told(disk[Job(c)], runs[Job(c)], req[c].spec, outcome[c])

\* A recorded error names its spec, and one of the model's a run; a collector
\* about to record one has the model's response.
JobFailed(j) ==
    /\ disk[j].error # "none" => disk[j].fp # None
    /\ disk[j].error \in ModelErrors => runs[j] # <<>>

FailOK(c) ==
    collector[c] = "fail" /\ mem[c].error \in ModelErrors => mem[c].response # "none"

ReplyInv ==
    /\ \A j \in Jobs : JobFailed(j)
    /\ \A c \in Calls : FailOK(c) /\ CallTold(c)

\* Replies that say nothing of state.json.
Silent == Replies \ ({"result"} \cup RecordedErrors)

LEMMA SilentFacts ==
    /\ RetryableErrors \cup PathErrors \cup {"none", "invalid_spec", "spec_conflict"}
          \subseteq Silent
    /\ "none" \notin PermanentErrors /\ "result" \notin PermanentErrors
    /\ RecordedErrors \subseteq PermanentErrors /\ ModelErrors \subseteq RecordedErrors
    /\ \A st, ran, s : \A r \in Silent : Told(st, ran, s, r)
BY DEF Silent, Replies, RetryableErrors, PermanentErrors, RecordedErrors, PathErrors,
       ModelErrors, Told

\* Initially nobody was told anything.
LEMMA ReplyInit == Init => ReplyInv
<1>. SUFFICES ASSUME Init PROVE ReplyInv
  OBVIOUS
<1>1. \A j \in Jobs : JobFailed(j)
  BY DEF Init, JobFailed, NoState, ModelErrors
<1>2. \A c \in Calls : FailOK(c)
  BY DEF Init, FailOK
<1>3. \A c \in Calls : reply[c] = "none" /\ outcome[c] = "none"
  BY DEF Init
<1>4. \A c \in Calls : CallTold(c)
  BY <1>3, SilentFacts DEF CallTold
<1>. QED
  BY <1>1, <1>2, <1>4 DEF ReplyInv

\* Only sendall adds a run, to a job without an outcome.
LEMMA RunsKept ==
    ASSUME OnceInv, Next, NEW j \in Jobs
    PROVE  /\ runs[j] # <<>> => runs'[j] # <<>>
           /\ disk[j].result \/ disk[j].error # "none" => runs'[j] = runs[j]
<1>1. CASE UNCHANGED runs
  BY <1>1
<1>2. ASSUME NEW c \in Calls, Send(c)
      PROVE  /\ runs[j] # <<>> => runs'[j] # <<>>
             /\ disk[j].result \/ disk[j].error # "none" => runs'[j] = runs[j]
  <2>1. /\ collector[c] = "send"
        /\ runs' = [runs EXCEPT ![Job(c)] = Append(runs[Job(c)], req[c].spec)]
    BY <1>2 DEF Send
  <2>2. CopyOK(c) /\ runs \in [Jobs -> Seq(Specs)] /\ Job(c) \in Jobs
    BY <2>1, CollectorHas DEF OnceInv, TypeInv, TypeOK
  <2>3. CASE j = Job(c)
    <3>1. runs[j] = <<>> /\ ~disk[j].result /\ disk[j].error = "none"
      BY <2>1, <2>2, <2>3 DEF CopyOK
    <3>. QED
      BY <3>1
  <2>4. CASE j # Job(c)
    BY <2>1, <2>2, <2>4
  <2>. QED
    BY <2>3, <2>4
<1>3. UNCHANGED runs \/ \E c \in Calls : Send(c)
  BY DEF Next, Arrive, HandlerStep, LockJob, Inspect, LockModel, GiveUp, Answer,
         CollectorStep, ClaimJob, Download, CheckActive, Connect, ReadReply, SocketFails,
         RecordResponse, Verify, Upload, UploadFails, Publish, PersistError, DiskFails,
         Cancel, Crash, DaemonStarts, DaemonEnds, DaemonStops, daemonVars
<1>. QED
  BY <1>1, <1>2, <1>3

\* What was true of a job's outcome stays true.
LEMMA ToldKept ==
    ASSUME OnceInv, Next, NEW j \in Jobs, NEW s, NEW r, Told(disk[j], runs[j], s, r)
    PROVE  Told(disk'[j], runs'[j], s, r)
<1>1. Kept(j)
  BY KeptByNext
<1>2. disk[j].result \/ disk[j].error # "none" => runs'[j] = runs[j]
  BY RunsKept
<1>3. r \in PermanentErrors => r # "none"
  BY SilentFacts
<1>. QED
  BY <1>1, <1>2, <1>3, SilentFacts DEF Told, Kept

\* A call that hears nothing new, or only something silent.
LEMMA CallToldKept ==
    ASSUME OnceInv, ReplyInv, Next, NEW c \in Calls, req'[c] = req[c],
           reply'[c] \in {reply[c]} \cup Silent,
           outcome'[c] \in {outcome[c]} \cup Silent
    PROVE  CallTold(c)'
<1>1. CallTold(c) /\ Job(c)' = Job(c)
  BY DEF ReplyInv, Job
<1>2. Job(c) # None => Job(c) \in Jobs
  BY DEF OnceInv, TypeInv, TypeOK, Job
<1>3. ASSUME Job(c) # None
      PROVE  /\ Told(disk'[Job(c)], runs'[Job(c)], req[c].spec, reply'[c])
             /\ Told(disk'[Job(c)], runs'[Job(c)], req[c].spec, outcome'[c])
  BY <1>1, <1>2, <1>3, ToldKept, SilentFacts DEF CallTold
<1>. QED
  BY <1>1, <1>3 DEF CallTold

\* An error reaches state.json only from a collector that failed, with the
\* call's spec, and after a run if it is one of the model's.
LEMMA JobFailedNext ==
    ASSUME OnceInv, PubInv, ReplyInv, Next, NEW j \in Jobs
    PROVE  JobFailed(j)'
<1>1. CASE disk[j].error # "none"
  <2>1. disk'[j] = disk[j] /\ runs'[j] = runs[j] /\ JobFailed(j)
    BY <1>1, KeptByNext, RunsKept DEF Kept, ReplyInv
  <2>. QED
    BY <2>1 DEF JobFailed
<1>2. CASE disk'[j].error = "none"
  BY <1>2, SilentFacts DEF JobFailed
<1>3. CASE disk[j].error = "none" /\ disk'[j].error # "none"
  <2>1. PICK c \in Calls : \/ ClaimJob(c) \/ Connect(c) \/ RecordResponse(c)
                           \/ Publish(c) \/ PersistError(c)
    <3>1. disk' # disk
      BY <1>3
    <3>. QED
      BY <3>1 DEF Next, Arrive, HandlerStep, LockJob, Inspect, LockModel, GiveUp, Answer,
         CollectorStep, Download, CheckActive, Send, ReadReply, SocketFails, Verify,
         Upload, UploadFails, DiskFails, Cancel, Crash, DaemonStarts, DaemonEnds,
         DaemonStops, fileVars
  <2>2. collector[c] # "none"
    BY <2>1 DEF ClaimJob, Connect, RecordResponse, Publish, PersistError
  <2>3. /\ Job(c) \in Jobs /\ req[c].spec \in Specs /\ CopyOK(c)
        /\ mem[c] \in StateFile /\ disk \in [Jobs -> StateFile]
    BY <2>2, CollectorHas
  <2>4. j = Job(c) /\ PersistError(c)
    <3>1. PICK st : /\ WriteState(c, st)
                    /\ st.error = mem[c].error
      <4>1. /\ [mem[c] EXCEPT !.fp = req[c].spec].error = mem[c].error
            /\ [mem[c] EXCEPT !.running = TRUE].error = mem[c].error
            /\ [mem[c] EXCEPT !.result = TRUE].error = mem[c].error
        BY <2>3 DEF StateFile
      <4>2. disk' # disk
        BY <1>3
      <4>. QED
        BY <2>1, <4>1, <4>2 DEF ClaimJob, Connect, RecordResponse, Publish, PersistError
    <3>2. j = Job(c) /\ disk'[j] = st
      BY <1>3, <2>3, <3>1 DEF WriteState
    <3>3. collector[c] = "fail"
      BY <1>3, <2>3, <3>1, <3>2 DEF CopyOK
    <3>. QED
      BY <2>1, <3>2, <3>3 DEF ClaimJob, Connect, RecordResponse, Publish
  <2>5. disk'[j] = mem[c] /\ collector[c] = "fail" /\ runs' = runs
    BY <2>3, <2>4 DEF PersistError, WriteState, daemonVars
  <2>6. mem[c].fp # None
    BY <2>3, <2>5, V73Assumption DEF CopyOK
  <2>7. mem[c].error \in ModelErrors => runs[j] # <<>>
    <3>1. FailOK(c) /\ CallPub(c) /\ Copying(c)
      BY <2>2 DEF ReplyInv, PubInv, Copying
    <3>. QED
      BY <2>4, <2>5, <3>1 DEF FailOK, CallPub, CopyPub
  <2>. QED
    BY <2>5, <2>6, <2>7 DEF JobFailed
<1>. QED
  BY <1>1, <1>2, <1>3

\* A collector fails with one of the model's errors only on the model's response.
LEMMA FailOKNext ==
    ASSUME OnceInv, ReplyInv, Next, NEW c \in Calls
    PROVE  FailOK(c)'
<1>0. /\ TypeOK /\ FailOK(c)
      /\ handler[c] \in {"lock", "inspect", "model"} => collector[c] = "none"
  BY DEF OnceInv, TypeInv, CallOK, ReplyInv
<1>1. CASE collector'[c] = collector[c] /\ mem'[c] = mem[c]
  BY <1>0, <1>1 DEF FailOK
<1>2. CASE collector'[c] # "fail"
  BY <1>2 DEF FailOK
<1>3. ASSUME NEW e, FailWith(c, e), e \in ModelErrors => mem[c].response # "none"
      PROVE  FailOK(c)'
  <2>1. mem'[c] = [mem[c] EXCEPT !.error = e] /\ mem[c] \in StateFile
    BY <1>0, <1>3 DEF FailWith, Continue, TypeOK
  <2>2. mem'[c].error = e /\ mem'[c].response = mem[c].response
    BY <2>1 DEF StateFile
  <2>. QED
    BY <1>3, <2>2 DEF FailOK
\* A step of another call, of the daemon or of nobody's collector.
<1>4. ASSUME NEW d \in Calls, d # c, HandlerStep(d) \/ CollectorStep(d)
      PROVE  collector'[c] = collector[c] /\ mem'[c] = mem[c]
  <2>1. CASE HandlerStep(d)
    BY <1>0, <1>4, <2>1 DEF HandlerStep, LockJob, Inspect, LockModel, GiveUp, Answer,
       Refuse, Return, TypeOK
  <2>2. CASE CollectorStep(d)
    <3>1. \/ \E pc, st : Continue(d, pc, st)
          \/ \E r : Finish(d, r)
          \/ UNCHANGED <<collector, mem>>
      BY <2>2 DEF CollectorStep, ClaimJob, Download, CheckActive, Connect, Send, ReadReply,
         SocketFails, RecordResponse, Verify, Upload, UploadFails, Publish, PersistError,
         DiskFails, FailWith
    <3>. QED
      BY <1>0, <1>4, <3>1 DEF Continue, Finish, TypeOK
  <2>. QED
    BY <1>4, <2>1, <2>2
<1>5. CASE HandlerStep(c)
  BY <1>0, <1>1, <1>2, <1>5 DEF HandlerStep, LockJob, Inspect, LockModel, GiveUp, Answer,
     Refuse, Return, TypeOK
<1>6. CASE CollectorStep(c)
  <2>1. \/ collector'[c] # "fail"
        \/ UNCHANGED <<collector, mem>>
        \/ Download(c) \/ Verify(c)
    BY <1>0, <1>6 DEF CollectorStep, ClaimJob, CheckActive, Connect, Send, ReadReply,
       SocketFails, RecordResponse, Upload, UploadFails, Publish, PersistError, DiskFails,
       Continue, Finish, TypeOK
  <2>2. CASE Download(c)
    <3>1. {"input_integrity_error", "worker_configuration", "invalid_artifacts"}
             \cap ModelErrors = {}
      BY DEF ModelErrors
    <3>2. \/ collector'[c] # "fail"
          \/ FailWith(c, "input_integrity_error") \/ FailWith(c, "worker_configuration")
          \/ FailWith(c, "invalid_artifacts")
      BY <1>0, <2>2 DEF Download, Continue, Finish, TypeOK
    <3>. QED
      BY <1>2, <1>3, <3>1, <3>2
  <2>3. CASE Verify(c)
    <3>1. mem[c].response # "none"
      BY <2>3 DEF Verify
    <3>2. collector'[c] # "fail" \/ \E e : FailWith(c, e)
      BY <1>0, <2>3 DEF Verify, Continue, TypeOK
    <3>. QED
      BY <1>2, <1>3, <3>1, <3>2
  <2>. QED
    BY <1>1, <1>2, <2>1, <2>2, <2>3
<1>7. ASSUME NEW p \in Processes, Crash(p)
      PROVE  collector'[c] = "none" \/ (collector'[c] = collector[c] /\ mem'[c] = mem[c])
  BY <1>7 DEF Crash
<1>8. ASSUME \/ \E d \in Calls, j \in Jobs, spec \in Specs \cup {BadSpec} : Arrive(d, j, spec)
             \/ \E d \in Calls : Cancel(d)
             \/ \E j \in Jobs : DaemonStarts(j) \/ DaemonEnds(j) \/ DaemonStops(j)
      PROVE  UNCHANGED <<collector, mem>>
  BY <1>8 DEF Arrive, Cancel, DaemonStarts, DaemonEnds, DaemonStops
<1>. QED
  BY <1>1, <1>2, <1>4, <1>5, <1>6, <1>7, <1>8 DEF Next

\* A retry of a job with an outcome is answered from state.json, for its spec.
LEMMA InspectTold ==
    ASSUME OnceInv, PubInv, ReplyInv, Next, NEW c \in Calls, Inspect(c)
    PROVE  CallTold(c)'
<1>. DEFINE j == Job(c)
            st == disk[j]
            s == req[c].spec
<1>0. TypeOK /\ handler[c] = "inspect"
  BY DEF OnceInv, TypeInv, Inspect
<1>1. j \in Jobs /\ s \in Specs /\ st \in StateFile /\ JobPub(j) /\ JobFailed(j)
  BY <1>0 DEF OnceInv, TypeInv, TypeOK, ReqOK, Holding, PubInv, ReplyInv
<1>2. req' = req /\ outcome' = outcome
  BY DEF Inspect
<1>3. CASE reply'[c] \in {reply[c]} \cup Silent
  BY <1>2, <1>3, CallToldKept
<1>4. ASSUME NEW r, r = reply'[c], Told(st, runs[j], s, r)
      PROVE  CallTold(c)'
  <2>1. Told(disk'[j], runs'[j], s, r)
    BY <1>1, <1>4, ToldKept
  <2>2. Job(c)' = j /\ CallTold(c)
    BY <1>2 DEF Job, ReplyInv
  <2>3. Job(c) # None => Told(disk'[j], runs'[j], s, outcome[c])
    BY <1>1, <2>2, ToldKept DEF CallTold
  <2>. QED
    BY <1>2, <1>4, <2>1, <2>2, <2>3 DEF CallTold
<1>5. CASE ~Conflict(st, s) /\ st.result /\ reply'[c] = "result"
  <2>1. st.fp \in {None, s} /\ runs[j] # <<>>
    BY <1>1, <1>5 DEF Conflict, JobPub
  <2>2. st.fp = s
    BY <1>1, <2>1, RunOf
  <2>3. Told(st, runs[j], s, "result")
    BY <1>5, <2>2, SilentFacts DEF Told
  <2>. QED
    BY <1>4, <1>5, <2>3
<1>6. CASE ~Conflict(st, s) /\ st.error # "none" /\ reply'[c] = st.error
  <2>1. st.fp = s
    BY <1>1, <1>6 DEF Conflict, JobFailed
  <2>2. st.error \in ModelErrors => runs[j] = <<s>>
    BY <1>1, <2>1 DEF JobFailed, JobPub
  <2>3. st.error # "result"
    BY <1>1 DEF StateFile, PermanentErrors
  <2>4. Told(st, runs[j], s, st.error)
    BY <2>1, <2>2, <2>3 DEF Told
  <2>. QED
    BY <1>4, <1>6, <2>4
<1>7. PathErrors \cup {"spec_conflict", "already_running"} \subseteq Silent
  BY SilentFacts DEF RetryableErrors
<1>8. \/ reply' = reply
      \/ reply'[c] \in PathErrors \cup {"spec_conflict", "already_running"}
      \/ ~Conflict(st, s) /\ st.result /\ reply'[c] = "result"
      \/ ~Conflict(st, s) /\ st.error # "none" /\ reply'[c] = st.error
  BY <1>0 DEF Inspect, Refuse, Return, TypeOK, PathErrors
<1>. QED
  BY <1>3, <1>5, <1>6, <1>7, <1>8

\* The collector ends with what it has just written, or with something silent.
LEMMA CollectorTold ==
    ASSUME OnceInv, PubInv, ReplyInv, Next, NEW c \in Calls, CollectorStep(c)
    PROVE  CallTold(c)'
<1>. DEFINE j == Job(c)
            s == req[c].spec
<1>0. TypeOK /\ collector[c] # "none"
  BY DEF OnceInv, TypeInv, CollectorStep, ClaimJob, Download, CheckActive, Connect, Send,
         ReadReply, SocketFails, RecordResponse, Verify, Upload, UploadFails, Publish,
         PersistError, DiskFails
<1>1. /\ j \in Jobs /\ s \in Specs /\ CopyOK(c) /\ mem[c] \in StateFile
      /\ disk \in [Jobs -> StateFile]
  BY <1>0, CollectorHas
<1>2. req' = req /\ reply' = reply
  BY DEF CollectorStep, ClaimJob, Download, CheckActive, Connect, Send, ReadReply,
         SocketFails, RecordResponse, Verify, Upload, UploadFails, Publish, PersistError,
         DiskFails
<1>3. CASE outcome'[c] \in {outcome[c]} \cup Silent
  BY <1>2, <1>3, CallToldKept
<1>4. ASSUME Told(disk'[j], runs'[j], s, outcome'[c])
      PROVE  CallTold(c)'
  <2>1. Job(c)' = j /\ CallTold(c)
    BY <1>2 DEF Job, ReplyInv
  <2>2. Job(c) # None => Told(disk'[j], runs'[j], s, reply[c])
    BY <1>1, <2>1, ToldKept DEF CallTold
  <2>. QED
    BY <1>2, <1>4, <2>1, <2>2 DEF CallTold
<1>5. CASE Publish(c)
  <2>1. /\ disk'[j] = [mem[c] EXCEPT !.result = TRUE]
        /\ outcome'[c] = "result" /\ collector[c] = "upload"
    BY <1>0, <1>1, <1>5 DEF Publish, WriteState, Finish, TypeOK
  <2>2. disk'[j].result /\ disk'[j].fp = s
    BY <1>1, <2>1 DEF StateFile, CopyOK
  <2>3. Told(disk'[j], runs'[j], s, outcome'[c])
    BY <2>1, <2>2, SilentFacts DEF Told
  <2>. QED
    BY <1>4, <2>3
<1>6. CASE PersistError(c)
  <2>1. /\ disk'[j] = mem[c] /\ outcome'[c] = mem[c].error /\ collector[c] = "fail"
        /\ runs' = runs
    BY <1>0, <1>1, <1>6 DEF PersistError, WriteState, Finish, TypeOK, daemonVars
  <2>2. mem[c].fp = s /\ mem[c].error # "result"
    BY <1>1, <2>1 DEF CopyOK, StateFile, PermanentErrors
  <2>3. mem[c].error \in ModelErrors => runs[j] = <<s>>
    <3>1. FailOK(c) /\ CallPub(c) /\ Copying(c) /\ JobPub(j)
      BY <1>0, <1>1 DEF ReplyInv, PubInv, Copying
    <3>2. mem[c].error \in ModelErrors => runs[j] # <<>>
      BY <2>1, <3>1 DEF FailOK, CallPub, CopyPub
    <3>3. disk[j].fp \in {None, s}
      BY <1>1 DEF CopyOK
    <3>. QED
      BY <1>1, <3>1, <3>2, <3>3, RunOf
  <2>4. Told(disk'[j], runs'[j], s, outcome'[c])
    BY <2>1, <2>2, <2>3 DEF Told
  <2>. QED
    BY <1>4, <2>4
<1>7. CASE ~Publish(c) /\ ~PersistError(c)
  <2>1. {"storage_error", "deadline_exceeded", "worker_unavailable", "already_running",
         "worker_error"} \cup PathErrors \subseteq Silent
    BY SilentFacts DEF RetryableErrors
  <2>2. outcome'[c] \in {outcome[c], "storage_error", "deadline_exceeded",
                         "worker_unavailable", "already_running", "worker_error"}
                        \cup PathErrors
    BY <1>0, <1>7 DEF CollectorStep, ClaimJob, Download, CheckActive, Connect, Send,
       ReadReply, SocketFails, RecordResponse, Verify, Upload, UploadFails, DiskFails,
       FailWith, Continue, Finish, TypeOK
  <2>. QED
    BY <1>3, <2>1, <2>2
<1>. QED
  BY <1>5, <1>6, <1>7

\* Everything else that a caller hears is silent, or what its collector ended with.
LEMMA CallToldNext ==
    ASSUME OnceInv, PubInv, ReplyInv, Next, NEW c \in Calls
    PROVE  CallTold(c)'
<1>0. TypeOK
  BY DEF OnceInv, TypeInv
<1>1. ASSUME UNCHANGED <<req, reply, outcome>> PROVE CallTold(c)'
  BY <1>1, CallToldKept
<1>2. ASSUME NEW d \in Calls, NEW j \in Jobs, NEW spec \in Specs \cup {BadSpec},
             Arrive(d, j, spec)
      PROVE  CallTold(c)'
  <2>1. CASE d = c
    <3>1. reply'[c] \in {"none", "invalid_spec"} /\ outcome'[c] = "none"
      BY <1>0, <1>2, <2>1 DEF Arrive, Return, TypeOK
    <3>. QED
      BY <3>1, SilentFacts DEF CallTold
  <2>2. CASE d # c
    <3>1. req'[c] = req[c] /\ reply'[c] = reply[c] /\ outcome'[c] = outcome[c]
      BY <1>0, <1>2, <2>2 DEF Arrive, Return, TypeOK
    <3>. QED
      BY <3>1, CallToldKept
  <2>. QED
    BY <2>1, <2>2
<1>3. ASSUME NEW d \in Calls, d # c, HandlerStep(d) \/ CollectorStep(d)
      PROVE  CallTold(c)'
  <2>1. req' = req
    BY <1>3 DEF HandlerStep, LockJob, Inspect, LockModel, GiveUp, Answer, CollectorStep,
       ClaimJob, Download, CheckActive, Connect, Send, ReadReply, SocketFails,
       RecordResponse, Verify, Upload, UploadFails, Publish, PersistError, DiskFails
  <2>2. CASE HandlerStep(d)
    <3>1. outcome' = outcome /\ reply'[c] = reply[c]
      BY <1>0, <1>3, <2>2 DEF HandlerStep, LockJob, Inspect, LockModel, GiveUp, Answer,
         Refuse, Return, TypeOK
    <3>. QED
      BY <2>1, <3>1, CallToldKept
  <2>3. CASE CollectorStep(d)
    <3>1. reply' = reply /\ (outcome' = outcome \/ \E r : Finish(d, r))
      BY <2>3 DEF CollectorStep, ClaimJob, Download, CheckActive, Connect, Send, ReadReply,
         SocketFails, RecordResponse, Verify, Upload, UploadFails, Publish, PersistError,
         DiskFails, FailWith, Continue
    <3>2. outcome'[c] = outcome[c]
      BY <1>0, <1>3, <3>1 DEF Finish, TypeOK
    <3>. QED
      BY <2>1, <3>1, <3>2, CallToldKept
  <2>. QED
    BY <1>3, <2>2, <2>3
<1>4. CASE LockJob(c) \/ LockModel(c) \/ GiveUp(c)
  <2>1. PathErrors \cup {"deadline_exceeded", "already_running", "worker_busy"}
           \subseteq Silent
    BY SilentFacts DEF RetryableErrors
  <2>2. /\ req' = req /\ outcome' = outcome
        /\ reply'[c] \in {reply[c], "deadline_exceeded", "already_running", "worker_busy"}
                         \cup PathErrors
    BY <1>0, <1>4 DEF LockJob, LockModel, GiveUp, Refuse, Return, TypeOK
  <2>. QED
    BY <2>1, <2>2, CallToldKept
<1>5. CASE Answer(c)
  <2>1. req' = req /\ outcome' = outcome /\ reply'[c] = outcome[c]
    BY <1>0, <1>5 DEF Answer, Return, TypeOK
  <2>2. CallTold(c) /\ Job(c)' = Job(c) /\ (Job(c) # None => Job(c) \in Jobs)
    BY <1>0, <2>1 DEF ReplyInv, Job, TypeOK
  <2>3. Job(c) # None => Told(disk'[Job(c)], runs'[Job(c)], req[c].spec, outcome[c])
    BY <2>2, ToldKept DEF CallTold
  <2>. QED
    BY <2>1, <2>2, <2>3 DEF CallTold
<1>6. ASSUME NEW p \in Processes, Crash(p) PROVE CallTold(c)'
  <2>1. \/ reply'[c] = "none" /\ outcome'[c] = "none"
        \/ req'[c] = req[c] /\ reply'[c] = reply[c] /\ outcome'[c] = outcome[c]
    BY <1>6 DEF Crash
  <2>2. "none" \in Silent
    BY SilentFacts
  <2>3. CASE reply'[c] = "none" /\ outcome'[c] = "none"
    BY <2>2, <2>3, SilentFacts DEF CallTold
  <2>. QED
    BY <2>1, <2>3, CallToldKept
<1>7. CASE \/ \E d \in Calls : Cancel(d)
           \/ \E j \in Jobs : DaemonStarts(j) \/ DaemonEnds(j) \/ DaemonStops(j)
  BY <1>1, <1>7 DEF Cancel, DaemonStarts, DaemonEnds, DaemonStops
<1>. QED
  BY <1>2, <1>3, <1>4, <1>5, <1>6, <1>7, InspectTold, CollectorTold DEF Next, HandlerStep

\* A reply that an RPC returned stays true: a result is durable and of the caller's
\* spec, a permanent error other than invalid_artifacts is the one recorded, and
\* one that blames the model comes from a run of the caller's spec.
THEOREM RepliesStayTrue == Spec => []RepliesTrue
<1>1. OnceInv /\ PubInv /\ ReplyInv /\ [Next]_vars => ReplyInv'
  <2>1. ASSUME OnceInv, PubInv, ReplyInv, Next PROVE ReplyInv'
    BY <2>1, JobFailedNext, FailOKNext, CallToldNext DEF ReplyInv
  <2>2. ASSUME ReplyInv, UNCHANGED vars PROVE ReplyInv'
    BY <2>2 DEF vars, ReplyInv, JobFailed, FailOK, CallTold, Told, Job
  <2>. QED
    BY <2>1, <2>2
<1>2. ReplyInv => RepliesTrue
  BY DEF ReplyInv, CallTold, Told, RepliesTrue, ModelErrors, RecordedErrors
<1>3. OnceInv /\ PubInv /\ [Next]_vars => (OnceInv /\ PubInv)'
  BY OnceNext, PubNext
<1>. QED
  BY <1>1, <1>2, <1>3, OnceInit, PubInit, ReplyInit, PTL DEF Spec
=============================================================================
