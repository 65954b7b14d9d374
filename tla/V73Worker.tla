------------------------------ MODULE V73Worker ------------------------------
(***************************************************************************)
(* system/worker_v73.py: the bridge between gRPC calls and the model       *)
(* daemon.  Calls of several worker processes on one host meet in the file *)
(* system: flocks, one state.json per job, the model's output directory.   *)
(* A call has a handler, which waits for the RPC, and a collector thread,  *)
(* which goes on after the RPC is cancelled.  A process may die at any     *)
(* point; the files, the daemon and its running request survive it, the    *)
(* flocks do not.                                                          *)
(*                                                                         *)
(* state.json is replaced atomically, so each _write_json is one step.     *)
(* Between two steps other calls, the daemon, cancellations and crashes    *)
(* may come.  Closing the two locks at the end is one step.                *)
(***************************************************************************)
EXTENDS Naturals, Sequences, FiniteSets

CONSTANTS
    Jobs,
    Specs,          \* fingerprints of valid specs
    BadSpec,        \* a payload that validate_payload rejects
    Artifacts,      \* files of a complete output directory
    Processes,
    Calls,          \* slots for RPCs; a slot is used again and again
    ProcOf,         \* [Calls -> Processes]
    None

ASSUME V73Assumption ==
    /\ BadSpec \notin Specs
    /\ ProcOf \in [Calls -> Processes]
    /\ None \notin Calls \cup Specs \cup {BadSpec}

VARIABLES
    disk,       \* [Jobs -> StateFile], state.json
    out,        \* [Jobs -> OutStates], results/<job>
    uploaded,   \* [Jobs -> SUBSET Artifacts], objects under output_prefix
    jobLock,    \* [Jobs -> Calls \cup {None}], holder of job.lock
    modelLock,  \* holder of execution.lock
    daemon,     \* [Jobs -> DaemonStates], the daemon's request for a job
    runs,       \* history: the specs whose requests reached the daemon
    handler,    \* where a call's RPC thread is
    collector,  \* where its collector thread is
    req,        \* the job and spec of a call
    mem,        \* the call's copy of state.json
    put,        \* artifacts this collector has uploaded
    cancelled,  \* calls that are past their deadline or cancelled
    outcome,    \* what the collector ended with
    reply       \* what the last RPC of a slot returned

vars == <<disk, out, uploaded, jobLock, modelLock, daemon, runs, handler,
          collector, req, mem, put, cancelled, outcome, reply>>
fileVars == <<disk, out, uploaded>>
daemonVars == <<daemon, runs>>
lockVars == <<jobLock, modelLock>>

-----------------------------------------------------------------------------
\* The daemon's answers: ok with a completed report, ok without a usable note,
\* not ok.
Responses == {"completed", "no_usable_note", "failed"}
\* result.json is missing or unreadable, or reports one of two statuses; the
\* files of an invalid output do not match its completed report.  A linked
\* results/<job> is a symbolic link.
OutStates == {"absent", "linked", "partial", "completed", "no_usable_note", "invalid"}
DaemonStates == {"idle", "running"} \cup Responses

\* WorkerErrors that _execute records, and those that it leaves to a retry.
PermanentErrors == {"worker_configuration", "input_integrity_error", "model_error",
                    "no_usable_note", "checkpoint_mismatch", "invalid_artifacts"}
RetryableErrors == {"already_running", "worker_busy", "worker_unavailable",
                    "storage_error", "worker_error", "deadline_exceeded"}
\* What a local file costs a call that nothing was recorded for: _safe_path finds
\* a link or a path outside the deployment; any other failure is unexpected.
PathErrors == {"invalid_artifacts", "worker_error"}
Replies == {"none", "result", "invalid_spec", "spec_conflict"}
           \cup PermanentErrors \cup RetryableErrors

StateFile == [fp : Specs \cup {None}, running : BOOLEAN,
              response : Responses \cup {"none"}, result : BOOLEAN,
              error : PermanentErrors \cup {"none"}]
NoState == [fp |-> None, running |-> FALSE, response |-> "none",
            result |-> FALSE, error |-> "none"]

HandlerPC == {"idle", "lock", "inspect", "model", "wait"}
CollectorPC == {"none", "claim", "download", "check", "connect", "send", "read",
                "record", "verify", "upload", "fail"}
NoReq == [job |-> None, spec |-> None]

TypeOK ==
    /\ disk \in [Jobs -> StateFile]
    /\ out \in [Jobs -> OutStates]
    /\ uploaded \in [Jobs -> SUBSET Artifacts]
    /\ jobLock \in [Jobs -> Calls \cup {None}]
    /\ modelLock \in Calls \cup {None}
    /\ daemon \in [Jobs -> DaemonStates]
    /\ runs \in [Jobs -> Seq(Specs)]
    /\ handler \in [Calls -> HandlerPC]
    /\ collector \in [Calls -> CollectorPC]
    /\ req \in [Calls -> [job : Jobs \cup {None}, spec : Specs \cup {None}]]
    /\ mem \in [Calls -> StateFile]
    /\ put \in [Calls -> SUBSET Artifacts]
    /\ cancelled \subseteq Calls
    /\ outcome \in [Calls -> Replies]
    /\ reply \in [Calls -> Replies]

Init ==
    /\ disk = [j \in Jobs |-> NoState]
    /\ out \in [Jobs -> {"absent", "partial", "linked"}]   \* left by others
    /\ uploaded = [j \in Jobs |-> {}]
    /\ jobLock = [j \in Jobs |-> None]
    /\ modelLock = None
    /\ daemon = [j \in Jobs |-> "idle"]
    /\ runs = [j \in Jobs |-> <<>>]
    /\ handler = [c \in Calls |-> "idle"]
    /\ collector = [c \in Calls |-> "none"]
    /\ req = [c \in Calls |-> NoReq]
    /\ mem = [c \in Calls |-> NoState]
    /\ put = [c \in Calls |-> {}]
    /\ cancelled = {}
    /\ outcome = [c \in Calls |-> "none"]
    /\ reply = [c \in Calls |-> "none"]

Job(c) == req[c].job

-----------------------------------------------------------------------------
(* process, on the RPC thread                                              *)

\* The RPC of call c ends with code r.
Return(c, r) ==
    /\ handler' = [handler EXCEPT ![c] = "idle"]
    /\ reply' = [reply EXCEPT ![c] = r]

\* The same before there is a collector; the job lock is released if held.
Refuse(c, r) ==
    /\ Return(c, r)
    /\ jobLock' = [j \in Jobs |-> IF jobLock[j] = c THEN None ELSE jobLock[j]]
    /\ mem' = [mem EXCEPT ![c] = NoState]

\* An RPC arrives.  A payload is validated before anything is touched.
Arrive(c, j, spec) ==
    /\ handler[c] = "idle"
    /\ collector[c] = "none"
    /\ cancelled' = cancelled \ {c}
    /\ outcome' = [outcome EXCEPT ![c] = "none"]
    /\ \/ /\ spec = BadSpec
          /\ req' = [req EXCEPT ![c] = NoReq]
          /\ Return(c, "invalid_spec")
       \/ /\ spec # BadSpec
          /\ req' = [req EXCEPT ![c] = [job |-> j, spec |-> spec]]
          /\ handler' = [handler EXCEPT ![c] = "lock"]
          /\ reply' = [reply EXCEPT ![c] = "none"]
    /\ UNCHANGED <<fileVars, daemonVars, lockVars, collector, mem, put>>

\* _check_active, then the job's directory and its flock, without waiting.
LockJob(c) ==
    /\ handler[c] = "lock"
    /\ \/ /\ c \in cancelled
          /\ Refuse(c, "deadline_exceeded")
       \/ /\ c \notin cancelled
          /\ \E r \in PathErrors : Refuse(c, r)
       \/ /\ c \notin cancelled
          /\ jobLock[Job(c)] # None
          /\ Refuse(c, "already_running")
       \/ /\ c \notin cancelled
          /\ jobLock[Job(c)] = None
          /\ jobLock' = [jobLock EXCEPT ![Job(c)] = c]
          /\ handler' = [handler EXCEPT ![c] = "inspect"]
          /\ UNCHANGED <<mem, reply>>
    /\ UNCHANGED <<fileVars, daemonVars, modelLock, collector, req, put,
                   cancelled, outcome>>

\* _recover_response answers only for a run that this job recorded.
Recoverable(st, o) ==
    st.running /\ o \in {"completed", "invalid", "no_usable_note"}

\* The response rebuilt from result.json.
Recovered(o) == IF o = "no_usable_note" THEN o ELSE "completed"

\* A previous run of this job, or a directory of unknown origin, is in the way.
Uncertain(st, o) == st.response = "none" /\ (st.running \/ o # "absent")

\* A check that lets any spec read the job's outcome.
ConflictMutant(st, spec) == FALSE
\* "job spec differs from its immutable fingerprint"
Conflict(st, spec) == st.fp \notin {None, spec}

\* Read state.json under the job lock and decide.  state.json itself, or the
\* result.json of an unresolved run, may be unreadable or a link; a linked output
\* directory is refused before anything is started or recorded.
Inspect(c) ==
    LET st == disk[Job(c)]
        o == out[Job(c)]
    IN /\ handler[c] = "inspect"
       /\ \/ \E r \in PathErrors : Refuse(c, r)
          \/ /\ Conflict(st, req[c].spec)
             /\ Refuse(c, "spec_conflict")
          \/ /\ ~Conflict(st, req[c].spec) /\ st.result
             /\ Refuse(c, "result")
          \/ /\ ~Conflict(st, req[c].spec) /\ ~st.result /\ st.error # "none"
             /\ Refuse(c, st.error)
          \/ /\ ~Conflict(st, req[c].spec) /\ ~st.result /\ st.error = "none"
             /\ \/ /\ o = "linked"
                   /\ Refuse(c, "invalid_artifacts")
                \/ /\ o # "linked" /\ Uncertain(st, o) /\ ~Recoverable(st, o)
                   /\ Refuse(c, "already_running")
                \/ /\ o # "linked" /\ (Uncertain(st, o) => Recoverable(st, o))
                   /\ mem' = [mem EXCEPT ![c] =
                                IF Uncertain(st, o)
                                THEN [st EXCEPT !.response = Recovered(o), !.running = FALSE]
                                ELSE st]
                   /\ handler' = [handler EXCEPT ![c] = "model"]
                   /\ UNCHANGED <<jobLock, reply>>
       /\ UNCHANGED <<fileVars, daemonVars, modelLock, collector, req, put,
                      cancelled, outcome>>

\* The execution flock, without waiting; then start the collector.
LockModel(c) ==
    /\ handler[c] = "model"
    /\ \/ /\ \E r \in PathErrors : Refuse(c, r)
          /\ UNCHANGED <<modelLock, collector>>
       \/ /\ modelLock # None
          /\ Refuse(c, "worker_busy")
          /\ UNCHANGED <<modelLock, collector>>
       \/ /\ modelLock = None
          /\ modelLock' = c
          /\ handler' = [handler EXCEPT ![c] = "wait"]
          /\ collector' = [collector EXCEPT ![c] = "claim"]
          /\ UNCHANGED <<jobLock, mem, reply>>
    /\ UNCHANGED <<fileVars, daemonVars, req, put, cancelled, outcome>>

\* A handler that looks at the RPC only once the collector is done.
GiveUpLateMutant(c) ==
    /\ handler[c] = "wait"
    /\ collector[c] = "none"
    /\ c \in cancelled
    /\ Return(c, "deadline_exceeded")
    /\ UNCHANGED <<fileVars, daemonVars, lockVars, collector, req, mem, put,
                   cancelled, outcome>>
\* "RPC cancellation stops waiting, not execution."
GiveUp(c) ==
    /\ handler[c] = "wait"
    /\ c \in cancelled
    /\ Return(c, "deadline_exceeded")
    /\ UNCHANGED <<fileVars, daemonVars, lockVars, collector, req, mem, put,
                   cancelled, outcome>>

\* The collector is done and the call is still active.
Answer(c) ==
    /\ handler[c] = "wait"
    /\ collector[c] = "none"
    /\ c \notin cancelled
    /\ Return(c, outcome[c])
    /\ UNCHANGED <<fileVars, daemonVars, lockVars, collector, req, mem, put,
                   cancelled, outcome>>

-----------------------------------------------------------------------------
(* _execute, on the collector thread                                       *)

\* The collector of c goes on at pc with the state file st in memory.
Continue(c, pc, st) ==
    /\ collector' = [collector EXCEPT ![c] = pc]
    /\ mem' = [mem EXCEPT ![c] = st]
    /\ UNCHANGED <<lockVars, put, outcome>>

\* The collector ends with r: both flocks are closed, then done is set.
Finish(c, r) ==
    /\ collector' = [collector EXCEPT ![c] = "none"]
    /\ outcome' = [outcome EXCEPT ![c] = r]
    /\ mem' = [mem EXCEPT ![c] = NoState]
    /\ put' = [put EXCEPT ![c] = {}]
    /\ modelLock' = IF modelLock = c THEN None ELSE modelLock
    /\ jobLock' = [j \in Jobs |-> IF jobLock[j] = c THEN None ELSE jobLock[j]]

\* A WorkerError that is not retryable is recorded before it is raised.
FailWith(c, error) == Continue(c, "fail", [mem[c] EXCEPT !.error = error])

WriteState(c, st) == disk' = [disk EXCEPT ![Job(c)] = st]

\* A claim that starts state.json afresh.
ClaimJobMutant(c) ==
    LET st == [NoState EXCEPT !.fp = req[c].spec]
    IN /\ collector[c] = "claim"
       /\ WriteState(c, st)
       /\ Continue(c, "download", st)
       /\ UNCHANGED <<out, uploaded, daemonVars, handler, req, cancelled, reply>>
\* Record whose job this is, with the response when it was recovered.
ClaimJob(c) ==
    LET st == [mem[c] EXCEPT !.fp = req[c].spec]
    IN /\ collector[c] = "claim"
       /\ WriteState(c, st)
       /\ Continue(c, IF st.response = "none" THEN "download" ELSE "verify", st)
       /\ UNCHANGED <<out, uploaded, daemonVars, handler, req, cancelled, reply>>

\* _download: the object, a storage failure, an object that does not match, no
\* endpoint to ask, or a link in the place of the input file.
Download(c) ==
    /\ collector[c] = "download"
    /\ \/ Continue(c, "check", mem[c])
       \/ Finish(c, "storage_error")
       \/ FailWith(c, "input_integrity_error")
       \/ FailWith(c, "worker_configuration")
       \/ FailWith(c, "invalid_artifacts")
    /\ UNCHANGED <<fileVars, daemonVars, handler, req, cancelled, reply>>

\* The last look at the RPC before the model is started.
CheckActive(c) ==
    /\ collector[c] = "check"
    /\ \/ /\ c \in cancelled
          /\ Finish(c, "deadline_exceeded")
       \/ /\ c \notin cancelled
          /\ Continue(c, "connect", mem[c])
    /\ UNCHANGED <<fileVars, daemonVars, handler, req, cancelled, reply>>

\* A connect that leaves the uncertainty in memory only.
ConnectMutant(c) ==
    /\ collector[c] = "connect"
    /\ \/ /\ Continue(c, "send", [mem[c] EXCEPT !.running = TRUE])
          /\ UNCHANGED disk
       \/ /\ Finish(c, "worker_unavailable")
          /\ UNCHANGED disk
    /\ UNCHANGED <<out, uploaded, daemonVars, handler, req, cancelled, reply>>
\* Connect, and "persist uncertainty before any request bytes can reach the
\* daemon".  No connection, or no disk: the model was not started.
Connect(c) ==
    LET st == [mem[c] EXCEPT !.running = TRUE]
    IN /\ collector[c] = "connect"
       /\ \/ /\ WriteState(c, st)
             /\ Continue(c, "send", st)
          \/ /\ Finish(c, "worker_unavailable")
             /\ UNCHANGED disk
       /\ UNCHANGED <<out, uploaded, daemonVars, handler, req, cancelled, reply>>

\* sendall: the request reaches the daemon.
Send(c) ==
    /\ collector[c] = "send"
    /\ runs' = [runs EXCEPT ![Job(c)] = Append(@, req[c].spec)]
    /\ daemon' = [daemon EXCEPT ![Job(c)] = "running"]
    /\ Continue(c, "read", mem[c])
    /\ UNCHANGED <<fileVars, handler, req, cancelled, reply>>

\* The daemon's line.
ReadReply(c) ==
    /\ collector[c] = "read"
    /\ daemon[Job(c)] \in Responses
    /\ daemon' = [daemon EXCEPT ![Job(c)] = "idle"]
    /\ Continue(c, "record",
                [mem[c] EXCEPT !.response = daemon[Job(c)], !.running = FALSE])
    /\ UNCHANGED <<fileVars, runs, handler, req, cancelled, reply>>

\* The connection breaks while sending or reading: "daemon result is
\* unresolved".
SocketFails(c) ==
    /\ collector[c] \in {"send", "read"}
    /\ Finish(c, "already_running")
    /\ UNCHANGED <<fileVars, daemonVars, handler, req, cancelled, reply>>

RecordResponse(c) ==
    /\ collector[c] = "record"
    /\ WriteState(c, mem[c])
    /\ Continue(c, "verify", mem[c])
    /\ UNCHANGED <<out, uploaded, daemonVars, handler, req, cancelled, reply>>

\* _upload_result up to the uploads: the response, then the files.
Verify(c) ==
    LET r == mem[c].response
        o == out[Job(c)]
    IN /\ collector[c] = "verify"
       /\ \/ r = "failed" /\ FailWith(c, "model_error")
          \/ r = "no_usable_note" /\ FailWith(c, "no_usable_note")
          \/ r = "completed" /\ o # "completed" /\ FailWith(c, "invalid_artifacts")
          \/ r = "completed" /\ o = "invalid" /\ FailWith(c, "checkpoint_mismatch")
          \/ r = "completed" /\ o = "completed" /\ Continue(c, "upload", mem[c])
       /\ UNCHANGED <<fileVars, daemonVars, handler, req, cancelled, reply>>

\* One of the upload threads puts one file.
Upload(c, a) ==
    /\ collector[c] = "upload"
    /\ a \notin put[c]
    /\ uploaded' = [uploaded EXCEPT ![Job(c)] = @ \cup {a}]
    /\ put' = [put EXCEPT ![c] = @ \cup {a}]
    /\ UNCHANGED <<disk, out, daemonVars, lockVars, handler, collector, req, mem,
                   cancelled, outcome, reply>>

UploadFails(c) ==
    /\ collector[c] = "upload"
    /\ put[c] # Artifacts
    /\ Finish(c, "storage_error")
    /\ UNCHANGED <<fileVars, daemonVars, handler, req, cancelled, reply>>

\* A publication that does not wait for the last upload.
AllPutMutant(c) == put[c] # {}
\* "Wait for every upload before publishing the durable result."
AllPut(c) == put[c] = Artifacts

Publish(c) ==
    /\ collector[c] = "upload"
    /\ AllPut(c)
    /\ WriteState(c, [mem[c] EXCEPT !.result = TRUE])
    /\ Finish(c, "result")
    /\ UNCHANGED <<out, uploaded, daemonVars, handler, req, cancelled, reply>>

PersistError(c) ==
    /\ collector[c] = "fail"
    /\ WriteState(c, mem[c])
    /\ Finish(c, mem[c].error)
    /\ UNCHANGED <<out, uploaded, daemonVars, handler, req, cancelled, reply>>

\* A _write_json fails, or reading the files to upload does: the collector ends
\* with an unexpected worker failure.  A state.json that was replaced by a link
\* fails every write, that of the error as well, so nothing is recorded.
DiskFails(c) ==
    /\ \/ /\ \/ collector[c] \in {"claim", "record", "fail"}
             \/ collector[c] = "upload" /\ AllPut(c)
          /\ \E r \in PathErrors : Finish(c, r)
       \/ /\ collector[c] = "verify" /\ mem[c].response = "completed"
          /\ Finish(c, "worker_error")
    /\ UNCHANGED <<fileVars, daemonVars, handler, req, cancelled, reply>>

-----------------------------------------------------------------------------
(* The environment                                                         *)

\* The deadline passes or the client cancels.
Cancel(c) ==
    /\ handler[c] # "idle"
    /\ c \notin cancelled
    /\ cancelled' = cancelled \cup {c}
    /\ UNCHANGED <<fileVars, daemonVars, lockVars, handler, collector, req, mem,
                   put, outcome, reply>>

\* A worker process dies: its threads are gone and its flocks are released.
Crash(p) ==
    LET lost == {c \in Calls : ProcOf[c] = p}
        Gone(f, v) == [c \in Calls |-> IF c \in lost THEN v ELSE f[c]]
    IN /\ \E c \in lost : handler[c] # "idle" \/ collector[c] # "none"
       /\ handler' = Gone(handler, "idle")
       /\ collector' = Gone(collector, "none")
       /\ req' = Gone(req, NoReq)
       /\ mem' = Gone(mem, NoState)
       /\ put' = Gone(put, {})
       /\ outcome' = Gone(outcome, "none")
       /\ reply' = Gone(reply, "none")
       /\ cancelled' = cancelled \ lost
       /\ jobLock' = [j \in Jobs |-> IF jobLock[j] \in lost THEN None ELSE jobLock[j]]
       /\ modelLock' = IF modelLock \in lost THEN None ELSE modelLock
       /\ UNCHANGED <<fileVars, daemonVars>>

\* The daemon creates the output directory, and in the end writes result.json
\* and answers.
DaemonStarts(j) ==
    /\ daemon[j] = "running"
    /\ out[j] = "absent"
    /\ out' = [out EXCEPT ![j] = "partial"]
    /\ UNCHANGED <<disk, uploaded, daemonVars, lockVars, handler, collector, req,
                   mem, put, cancelled, outcome, reply>>

DaemonEnds(j) ==
    /\ daemon[j] = "running"
    /\ out[j] = "partial"
    /\ \E o \in {"completed", "invalid", "no_usable_note", "partial"} :
          /\ out' = [out EXCEPT ![j] = o]
          /\ daemon' = [daemon EXCEPT ![j] =
                          IF o = "partial" THEN "failed" ELSE Recovered(o)]
    /\ UNCHANGED <<disk, uploaded, runs, lockVars, handler, collector, req, mem,
                   put, cancelled, outcome, reply>>

\* The daemon dies, or its answer has nobody to go to.
DaemonStops(j) ==
    /\ daemon[j] # "idle"
    /\ daemon' = [daemon EXCEPT ![j] = "idle"]
    /\ UNCHANGED <<fileVars, runs, lockVars, handler, collector, req, mem, put,
                   cancelled, outcome, reply>>

-----------------------------------------------------------------------------
HandlerStep(c) ==
    LockJob(c) \/ Inspect(c) \/ LockModel(c) \/ GiveUp(c) \/ Answer(c)

CollectorStep(c) ==
    \/ ClaimJob(c) \/ Download(c) \/ CheckActive(c) \/ Connect(c) \/ Send(c)
    \/ ReadReply(c) \/ SocketFails(c) \/ RecordResponse(c) \/ Verify(c)
    \/ \E a \in Artifacts : Upload(c, a)
    \/ UploadFails(c) \/ Publish(c) \/ PersistError(c) \/ DiskFails(c)

Next ==
    \/ \E c \in Calls, j \in Jobs, spec \in Specs \cup {BadSpec} : Arrive(c, j, spec)
    \/ \E c \in Calls : HandlerStep(c) \/ CollectorStep(c) \/ Cancel(c)
    \/ \E p \in Processes : Crash(p)
    \/ \E j \in Jobs : DaemonStarts(j) \/ DaemonEnds(j) \/ DaemonStops(j)

Spec == Init /\ [][Next]_vars

\* RPC threads run and deadlines pass.  Nothing is assumed of the daemon or of
\* the collectors, which may wait for it for ever.
FairSpec == Spec /\ \A c \in Calls : WF_vars(HandlerStep(c)) /\ WF_vars(Cancel(c))

-----------------------------------------------------------------------------
(* Safety                                                                  *)

\* The model is started at most once for a job: no crash, cancellation, lost
\* answer, failed write or retry makes a later call start it again.  It is never
\* started into an output directory that is a symbolic link.
AtMostOnce ==
    \A j \in Jobs : Len(runs[j]) <= 1 /\ (out[j] = "linked" => runs[j] = <<>>)

\* A durable result stands for a run of exactly that spec, whose complete output
\* was uploaded in full.
PublishedComplete ==
    \A j \in Jobs : disk[j].result =>
        /\ runs[j] = <<disk[j].fp>>
        /\ out[j] = "completed"
        /\ uploaded[j] = Artifacts
        /\ disk[j].error = "none"

\* A caller gets a result only for its own spec and only when the result is
\* durable, and is told that the model failed, or that its checkpoint is another
\* one, only when a run of its own spec ended so and the failure is recorded: no
\* retry will find the job in another state.  invalid_artifacts is left out: it is
\* the code of a bad output as well as of any local path that _safe_path refuses,
\* before a run and unrecorded.
RepliesTrue ==
    \A c \in Calls : Job(c) # None =>
        /\ reply[c] = "result" => disk[Job(c)].result /\ disk[Job(c)].fp = req[c].spec
        /\ reply[c] \in PermanentErrors \ {"invalid_artifacts"} =>
              disk[Job(c)].error = reply[c] /\ disk[Job(c)].fp = req[c].spec
        /\ reply[c] \in {"model_error", "no_usable_note", "checkpoint_mismatch"} =>
              runs[Job(c)] = <<req[c].spec>>

\* While a call has a job's state in memory nobody else does, although handlers
\* give up and leave their collectors behind; so no write is based on a stale
\* copy of state.json.
FreshCopy ==
    \A c \in Calls : handler[c] = "model" \/ collector[c] # "none" =>
        /\ jobLock[Job(c)] = c
        /\ disk[Job(c)].fp \in {None, req[c].spec}
        /\ disk[Job(c)].response # "none" => mem[c].response = disk[Job(c)].response
        /\ ~disk[Job(c)].result /\ disk[Job(c)].error = "none"

\* Only one collector works on a host at a time, over all jobs and processes and
\* including those whose RPC was cancelled.
OneExecution ==
    \A c, d \in Calls : collector[c] # "none" /\ collector[d] # "none" => c = d

\* What state.json records is never taken back: whose job it is, the model's
\* response, the result and the error.
NothingForgotten ==
    [][\A j \in Jobs :
         /\ disk[j].fp # None => disk'[j].fp = disk[j].fp
         /\ disk[j].response # "none" => disk'[j].response = disk[j].response
         /\ disk[j].result \/ disk[j].error # "none" => disk'[j] = disk[j]]_vars

-----------------------------------------------------------------------------
(* Liveness, under FairSpec                                                *)

\* Every RPC returns, even when the daemon never answers.
EveryCallReturns == \A c \in Calls : handler[c] # "idle" ~> handler[c] = "idle"
=============================================================================
