---------------------------- MODULE WorkerServer ----------------------------
(***************************************************************************)
(* What a worker process does with a batch: WorkerServicer of              *)
(* system/grpc_worker_server.py (ProcessBatch behind the deployment gate,  *)
(* the simulated batch, the loop over a real backend) and TextWorker of    *)
(* system/worker_text.py with its single slot.  Several ProcessBatch calls *)
(* run at once, one per thread of the gRPC server.  (The other backend has *)
(* a module of its own, V73Worker.)                                        *)
(*                                                                         *)
(* The pool's view of a reply, GrpcWorkerPool, allows for results that are *)
(* missing; here is which replies there are.                               *)
(***************************************************************************)
EXTENDS Naturals, FiniteSets

CONSTANTS
    Calls,        \* ProcessBatch calls
    Tasks,        \* task ids
    Text          \* the backend is TextWorker, else the simulation

VARIABLES
    batch,     \* request.tasks of a call
    pc,        \* where a call is
    todo,      \* its tasks without a result (active_tasks, the rest of the loop)
    results,   \* the results so far, pairs of a task and a code
    active,    \* calls counted by the deployment gate
    slot,      \* who holds TextWorker._slot, pairs of a call and a task
    expired,   \* <<call, task>> pairs past the deadline
    gone       \* calls whose context is no longer active

vars == <<batch, pc, todo, results, active, slot, expired, gone>>
clock == <<batch, expired, gone>>

TextCodes == {"invalid_spec", "overloaded", "worker_error", "deadline_exceeded",
              "transport_error", "invalid_result", "cancelled", "busy"}
Codes == {"ok", "failed", "worker_busy"} \cup TextCodes

TypeOK ==
    /\ batch \in [Calls -> SUBSET Tasks]
    /\ pc \in [Calls -> {"new", "admit", "simulate", "finish", "next", "service",
                         "leave", "replied"}]
    /\ todo \in [Calls -> SUBSET Tasks]
    /\ results \in [Calls -> SUBSET (Tasks \X Codes)]
    /\ active \subseteq Calls
    /\ slot \subseteq Calls \X Tasks
    /\ expired \subseteq Calls \X Tasks
    /\ gone \subseteq Calls

Init ==
    /\ pc = [c \in Calls |-> "new"]
    /\ batch \in [Calls -> SUBSET Tasks]
    /\ todo = batch
    /\ results = [c \in Calls |-> {}]
    /\ active = {} /\ slot = {}
    /\ expired = {} /\ gone = {}

-----------------------------------------------------------------------------
Goto(c, label) == pc' = [pc EXCEPT ![c] = label]

\* Give each task of a set a result with the code that f says.
Answer(c, ts, f) ==
    /\ results' = [results EXCEPT ![c] = @ \cup {<<t, f[t]>> : t \in ts}]
    /\ todo' = [todo EXCEPT ![c] = @ \ ts]

Late(c) == {t \in todo[c] : <<c, t>> \in expired}
All(ts, code) == [t \in ts |-> code]

-----------------------------------------------------------------------------
(* ProcessBatch and the simulated batch                                    *)

\* gate.enter: counted, or every task is refused.  (Without a gate the first.)
Enter(c) ==
    /\ pc[c] = "new"
    /\ \/ /\ Goto(c, IF Text THEN "next" ELSE "admit")
          /\ active' = active \cup {c}
          /\ UNCHANGED <<todo, results>>
       \/ /\ Goto(c, "replied")
          /\ Answer(c, todo[c], All(todo[c], "worker_busy"))
          /\ UNCHANGED active
    /\ UNCHANGED <<slot, clock>>

\* Drop the expired tasks; an injected failure fails the others.
Admit(c) ==
    /\ pc[c] = "admit"
    /\ \/ /\ Answer(c, Late(c), All(Late(c), "deadline_exceeded"))
          /\ Goto(c, IF Late(c) = todo[c] THEN "leave" ELSE "simulate")
       \/ /\ Answer(c, todo[c], [t \in todo[c] |-> IF t \in Late(c) THEN "deadline_exceeded"
                                                   ELSE "failed"])
          /\ Goto(c, "leave")
    /\ UNCHANGED <<active, slot, clock>>

\* One turn of the loop: the caller may be gone, tasks may expire, the simulated
\* latency may be over.
Simulate(c) ==
    /\ pc[c] = "simulate"
    /\ \/ /\ c \in gone
          /\ Goto(c, "leave")
          /\ UNCHANGED <<todo, results>>
       \/ /\ c \notin gone
          /\ Answer(c, Late(c), All(Late(c), "deadline_exceeded"))
          /\ \/ Late(c) = todo[c] /\ Goto(c, "leave")
             \/ Late(c) # todo[c] /\ Goto(c, "simulate")
             \/ Late(c) # todo[c] /\ Goto(c, "finish")
    /\ UNCHANGED <<active, slot, clock>>

\* The results, or what is wrong with an input.
FinishBatch(c) ==
    /\ pc[c] = "finish"
    /\ \E f \in [todo[c] -> {"ok", "failed"}] :
          Answer(c, todo[c], [t \in todo[c] |-> IF t \in Late(c) THEN "deadline_exceeded"
                                                ELSE f[t]])
    /\ Goto(c, "leave")
    /\ UNCHANGED <<active, slot, clock>>

-----------------------------------------------------------------------------
(* _process_backend and TextWorker.process                                 *)

Result(c, t, code) == Answer(c, {t}, [x \in {t} |-> code])

\* The next task is refused before the slot is asked for.
RefuseTask(c, t) ==
    /\ pc[c] = "next" /\ t \in todo[c]
    /\ \/ <<c, t>> \in expired /\ Result(c, t, "deadline_exceeded")
       \/ c \in gone /\ Result(c, t, "cancelled")
       \/ Result(c, t, "invalid_spec")
       \/ slot # {} /\ Result(c, t, "busy")
    /\ UNCHANGED <<pc, active, slot, clock>>

\* It takes the slot, without waiting.
TakeSlot(c, t) ==
    /\ pc[c] = "next" /\ t \in todo[c]
    /\ slot = {}
    /\ slot' = {<<c, t>>}
    /\ Goto(c, "service")
    /\ UNCHANGED <<todo, results, active, clock>>

\* The request to the text service ends, one way or the other, and the slot is
\* released.  A result that comes after the deadline, or for a caller that is
\* gone, is not returned.
EndService(c, t) ==
    /\ pc[c] = "service" /\ <<c, t>> \in slot
    /\ \/ /\ <<c, t>> \notin expired /\ c \notin gone
          /\ Result(c, t, "ok")
       \/ \E code \in TextCodes \ {"busy", "cancelled"} : Result(c, t, code)
       \/ c \in gone /\ Result(c, t, "cancelled")
    /\ slot' = slot \ {<<c, t>>}
    /\ Goto(c, "next")
    /\ UNCHANGED <<active, clock>>

EndBatch(c) ==
    /\ pc[c] = "next" /\ todo[c] = {}
    /\ Goto(c, "leave")
    /\ UNCHANGED <<todo, results, active, slot, clock>>

\* gate.leave, in a finally, and the reply.
Reply(c) ==
    /\ pc[c] = "leave"
    /\ active' = active \ {c}
    /\ Goto(c, "replied")
    /\ UNCHANGED <<todo, results, slot, clock>>

-----------------------------------------------------------------------------
Expire(c, t) ==
    /\ expired' = expired \cup {<<c, t>>}
    /\ UNCHANGED <<batch, pc, todo, results, active, slot, gone>>

Disconnect(c) ==
    /\ gone' = gone \cup {c}
    /\ UNCHANGED <<batch, pc, todo, results, active, slot, expired>>

CallStep(c) ==
    \/ Enter(c) \/ Admit(c) \/ Simulate(c) \/ FinishBatch(c) \/ EndBatch(c) \/ Reply(c)
    \/ \E t \in Tasks : RefuseTask(c, t) \/ TakeSlot(c, t) \/ EndService(c, t)

Next ==
    \E c \in Calls : CallStep(c) \/ Disconnect(c) \/ \E t \in Tasks : Expire(c, t)

Spec == Init /\ [][Next]_vars

-----------------------------------------------------------------------------
(* Safety                                                                  *)

\* A reply has one result for every task of its batch and no second one, however
\* deadlines, failures and the slot fall; only the simulation leaves tasks out,
\* and only when its caller is gone.
ReplyComplete ==
    \A c \in Calls :
        /\ \A x, y \in results[c] : x[1] = y[1] => x = y
        /\ pc[c] = "replied" =>
              \/ \A t \in Tasks : t \in batch[c] <=>
                                   \E code \in Codes : <<t, code>> \in results[c]
              \/ ~Text /\ c \in gone

\* At most one request is at the text service, and the slot is free whenever none
\* is: no outcome of a request leaks it.
SlotHeld ==
    /\ \A x, y \in slot : x = y
    /\ \A c \in Calls : pc[c] = "service" <=> \E t \in Tasks : <<c, t>> \in slot

\* The gate counts exactly the calls that are being processed: what a rollout
\* reads before it stops the container.
GateCounts == active = {c \in Calls : pc[c] \notin {"new", "replied"}}
=============================================================================
