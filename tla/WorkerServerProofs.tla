------------------------- MODULE WorkerServerProofs -------------------------
(***************************************************************************)
(* The safety properties of WorkerServer for any calls, batches and either *)
(* backend.  The invariant says that the tasks of a batch are split into   *)
(* those that have a result and those still to do, at every step.          *)
(***************************************************************************)
EXTENDS WorkerServer, TLAPS

\* The tasks of a call that have a result.
Done(c) == {t \in Tasks : \E code \in Codes : <<t, code>> \in results[c]}

\* Nothing is lost between the two parts of a batch and nothing is in both.
Split ==
    \A c \in Calls :
        /\ todo[c] \cup Done(c) = batch[c]
        /\ todo[c] \cap Done(c) = {}
        /\ \A x, y \in results[c] : x[1] = y[1] => x = y
        /\ pc[c] \in {"leave", "replied"} => todo[c] = {} \/ (~Text /\ c \in gone)
        /\ pc[c] \in {"admit", "simulate", "finish"} => ~Text

\* The task in the slot is one that still has to be done.
SlotTask == \A c \in Calls, t \in Tasks : <<c, t>> \in slot => t \in todo[c]

IInv == TypeOK /\ Split /\ SlotHeld /\ SlotTask /\ GateCounts

-----------------------------------------------------------------------------
(* Results                                                                 *)

\* Answering tasks that are still to do keeps the batch split.
LEMMA AnswerSplits ==
    ASSUME TypeOK, Split, NEW c \in Calls, NEW ts \in SUBSET todo[c],
           NEW f \in [ts -> Codes], Answer(c, ts, f),
           NEW label \in {"simulate", "finish", "next", "service", "leave", "replied"},
           pc' = [pc EXCEPT ![c] = label],
           label \in {"leave", "replied"} => ts = todo[c],
           label \in {"simulate", "finish"} => ~Text,
           UNCHANGED clock
    PROVE  /\ Split'
           /\ todo' \in [Calls -> SUBSET Tasks]
           /\ results' \in [Calls -> SUBSET (Tasks \X Codes)]
<1>0. batch' = batch /\ gone' = gone  BY DEF clock
<1> DEFINE new == {<<t, f[t]>> : t \in ts}
<1>1. ts \subseteq Tasks  BY DEF TypeOK
<1>2. new \subseteq Tasks \X Codes  BY <1>1
<1>3. /\ results' = [results EXCEPT ![c] = @ \cup new]
      /\ todo' = [todo EXCEPT ![c] = @ \ ts]
  BY DEF Answer
<1>4. todo' \in [Calls -> SUBSET Tasks] /\ results' \in [Calls -> SUBSET (Tasks \X Codes)]
  BY <1>2, <1>3 DEF TypeOK
<1>5. /\ results'[c] = results[c] \cup new /\ todo'[c] = todo[c] \ ts /\ pc'[c] = label
      /\ \A b \in Calls \ {c} : results'[b] = results[b] /\ todo'[b] = todo[b] /\ pc'[b] = pc[b]
  BY <1>3 DEF TypeOK
<1>6. \A t \in Tasks, code \in Codes : <<t, code>> \in new <=> t \in ts /\ code = f[t]
  OBVIOUS
<1>7. Done(c)' = Done(c) \cup ts
  <2>1. \A t \in ts : f[t] \in Codes  OBVIOUS
  <2> HIDE DEF new
  <2> QED BY <1>1, <1>5, <1>6, <2>1 DEF Done
<1>8. \A b \in Calls \ {c} : Done(b)' = Done(b)  BY <1>5 DEF Done
<1>9. \A x, y \in results'[c] : x[1] = y[1] => x = y
  <2> SUFFICES ASSUME NEW x \in results'[c], NEW y \in results'[c], x[1] = y[1]
               PROVE  x = y
    OBVIOUS
  <2>1. \A z \in results[c] : z[1] \in Done(c)
    <3> SUFFICES ASSUME NEW z \in results[c] PROVE z[1] \in Done(c)  OBVIOUS
    <3>1. PICK t \in Tasks, code \in Codes : z = <<t, code>>  BY DEF TypeOK
    <3> QED BY <3>1 DEF Done
  <2>2. \A z \in new : z[1] \in ts  OBVIOUS
  <2>3. ts \cap Done(c) = {}  BY DEF Split
  <2>4. \A u, v \in new : u[1] = v[1] => u = v  OBVIOUS
  <2>5. \A u, v \in results[c] : u[1] = v[1] => u = v  BY DEF Split
  <2> HIDE DEF new
  <2> QED BY <1>5, <2>1, <2>2, <2>3, <2>4, <2>5
<1>10. Split'
  <2> SUFFICES ASSUME NEW b \in Calls
               PROVE  /\ todo'[b] \cup Done(b)' = batch'[b]
                      /\ todo'[b] \cap Done(b)' = {}
                      /\ \A x, y \in results'[b] : x[1] = y[1] => x = y
                      /\ pc'[b] \in {"leave", "replied"}
                            => todo'[b] = {} \/ (~Text /\ b \in gone')
                      /\ pc'[b] \in {"admit", "simulate", "finish"} => ~Text
    BY DEF Split
  <2>1. CASE b = c
    <3>1. todo[c] \cup Done(c) = batch[c] /\ todo[c] \cap Done(c) = {}  BY DEF Split
    <3> QED BY <2>1, <3>1, <1>0, <1>5, <1>7, <1>9
  <2>2. CASE b # c  BY <2>2, <1>0, <1>5, <1>8 DEF Split
  <2> QED BY <2>1, <2>2
<1> QED BY <1>4, <1>10

-----------------------------------------------------------------------------
(* One lemma per step                                                      *)

\* A step of a call that has no task in the slot and keeps none there.
LEMMA OutsideSlot ==
    ASSUME IInv, NEW c \in Calls, pc[c] \notin {"service", "new", "replied"},
           NEW label \in {"simulate", "finish", "next", "leave"},
           pc' = [pc EXCEPT ![c] = label], UNCHANGED <<slot, active>>,
           \A b \in Calls \ {c} : todo'[b] = todo[b]
    PROVE  /\ pc' \in [Calls -> {"new", "admit", "simulate", "finish", "next", "service",
                                 "leave", "replied"}]
           /\ SlotHeld' /\ SlotTask' /\ GateCounts'
<1>1. pc'[c] = label /\ \A b \in Calls \ {c} : pc'[b] = pc[b]  BY DEF IInv, TypeOK
<1>2. \A t \in Tasks : <<c, t>> \notin slot  BY DEF IInv, TypeOK, SlotHeld
<1> QED BY <1>1, <1>2 DEF IInv, TypeOK, SlotHeld, SlotTask, GateCounts

LEMMA EnterStep ==
    ASSUME IInv, NEW c \in Calls, Enter(c)
    PROVE  IInv'
<1> USE DEF IInv, Goto, clock
<1>1. pc[c] = "new" /\ slot' = slot /\ expired' = expired /\ gone' = gone /\ batch' = batch
  BY DEF Enter
<1>2. \A t \in Tasks : <<c, t>> \notin slot  BY <1>1 DEF TypeOK, SlotHeld
<1>3. CASE active' = active \cup {c}
  <2>1. PICK label \in {"next", "admit"} :
          /\ pc' = [pc EXCEPT ![c] = label] /\ UNCHANGED <<todo, results>>
          /\ label = "admit" => ~Text
    BY <1>1, <1>3 DEF Enter, GateCounts
  <2>2. pc'[c] = label /\ \A b \in Calls \ {c} : pc'[b] = pc[b]  BY <2>1 DEF TypeOK
  <2>3. Split'  BY <1>1, <2>1, <2>2 DEF Split, Done
  <2> QED BY <1>1, <1>2, <1>3, <2>1, <2>2, <2>3
          DEF TypeOK, SlotHeld, SlotTask, GateCounts
<1>4. CASE active' # active \cup {c}
  <2>1. /\ active' = active /\ pc' = [pc EXCEPT ![c] = "replied"]
        /\ Answer(c, todo[c], All(todo[c], "worker_busy"))
    BY <1>4 DEF Enter
  <2>2. All(todo[c], "worker_busy") \in [todo[c] -> Codes]  BY DEF All, Codes
  <2>3. /\ Split' /\ todo' \in [Calls -> SUBSET Tasks]
        /\ results' \in [Calls -> SUBSET (Tasks \X Codes)]
    BY <1>1, <2>1, <2>2, AnswerSplits
  <2>4. pc'[c] = "replied" /\ \A b \in Calls \ {c} : pc'[b] = pc[b]  BY <2>1 DEF TypeOK
  <2>5. \A b \in Calls \ {c} : todo'[b] = todo[b]  BY <2>1 DEF Answer, TypeOK
  <2>6. TypeOK'  BY <1>1, <2>1, <2>3 DEF TypeOK
  <2>7. SlotHeld'  BY <1>1, <1>2, <2>4 DEF SlotHeld
  <2>8. SlotTask'  BY <1>1, <1>2, <2>5 DEF SlotTask
  <2>9. GateCounts'  BY <1>1, <2>1, <2>4 DEF GateCounts
  <2> QED BY <2>3, <2>6, <2>7, <2>8, <2>9
<1> QED BY <1>3, <1>4

\* The steps that answer tasks of their own and go on outside the slot.
LEMMA AnsweringStep ==
    ASSUME IInv, NEW c \in Calls, pc[c] \notin {"service", "new", "replied"},
           NEW ts \in SUBSET todo[c], NEW f \in [ts -> Codes], Answer(c, ts, f),
           NEW label \in {"simulate", "finish", "next", "leave"},
           pc' = [pc EXCEPT ![c] = label], label = "leave" => ts = todo[c],
           label \in {"simulate", "finish"} => ~Text, UNCHANGED <<slot, active, clock>>
    PROVE  IInv'
<1>1. gone' = gone /\ expired' = expired /\ batch' = batch  BY DEF clock
<1>2. /\ Split' /\ todo' \in [Calls -> SUBSET Tasks]
      /\ results' \in [Calls -> SUBSET (Tasks \X Codes)]
  BY <1>1, AnswerSplits DEF IInv
<1>3. \A b \in Calls \ {c} : todo'[b] = todo[b]  BY DEF Answer, IInv, TypeOK
<1>4. /\ pc' \in [Calls -> {"new", "admit", "simulate", "finish", "next", "service",
                            "leave", "replied"}]
      /\ SlotHeld' /\ SlotTask' /\ GateCounts'
  BY <1>3, OutsideSlot
<1> QED BY <1>1, <1>2, <1>4 DEF IInv, TypeOK

LEMMA SimulationStep ==
    ASSUME IInv, NEW c \in Calls, Admit(c) \/ Simulate(c) \/ FinishBatch(c)
    PROVE  IInv'
<1> USE DEF Goto
<1>0. ~Text  BY DEF IInv, Split, Admit, Simulate, FinishBatch
<1>1. Late(c) \subseteq todo[c]  BY DEF Late
<1>2. All(Late(c), "deadline_exceeded") \in [Late(c) -> Codes]  BY DEF All, Codes, TextCodes
<1>3. CASE Admit(c)
  <2> DEFINE f == [t \in todo[c] |-> IF t \in Late(c) THEN "deadline_exceeded" ELSE "failed"]
  <2>1. f \in [todo[c] -> Codes]  BY DEF Codes, TextCodes
  <2>2. pc[c] = "admit" /\ UNCHANGED <<slot, active, clock>>  BY <1>3 DEF Admit
  <2>3. CASE /\ Answer(c, Late(c), All(Late(c), "deadline_exceeded"))
             /\ Goto(c, IF Late(c) = todo[c] THEN "leave" ELSE "simulate")
    BY <1>0, <1>1, <1>2, <2>2, <2>3, AnsweringStep
  <2>4. CASE Answer(c, todo[c], f) /\ Goto(c, "leave")
    BY <2>1, <2>2, <2>4, AnsweringStep
  <2> QED BY <1>3, <2>3, <2>4 DEF Admit
<1>4. CASE Simulate(c) /\ c \notin gone
  <2>1. /\ pc[c] = "simulate" /\ UNCHANGED <<slot, active, clock>>
        /\ Answer(c, Late(c), All(Late(c), "deadline_exceeded"))
    BY <1>4 DEF Simulate
  <2>2. PICK label \in {"simulate", "finish", "leave"} :
          pc' = [pc EXCEPT ![c] = label] /\ (label = "leave" => Late(c) = todo[c])
    BY <1>4 DEF Simulate
  <2> QED BY <1>0, <1>1, <1>2, <2>1, <2>2, AnsweringStep
<1>5. CASE Simulate(c) /\ c \in gone
  <2>1. /\ pc[c] = "simulate" /\ pc' = [pc EXCEPT ![c] = "leave"]
        /\ UNCHANGED <<slot, active, clock, todo, results>>
    BY <1>5 DEF Simulate
  <2>2. pc'[c] = "leave" /\ \A b \in Calls \ {c} : pc'[b] = pc[b]  BY <2>1 DEF IInv, TypeOK
  <2>3. ASSUME NEW b \in Calls
        PROVE  pc'[b] \in {"leave", "replied"} => todo'[b] = {} \/ (~Text /\ b \in gone')
    BY <1>0, <1>5, <2>1, <2>2 DEF IInv, Split, clock
  <2>4. Split'  BY <2>1, <2>2, <2>3 DEF IInv, Split, Done, clock
  <2> QED BY <2>1, <2>4, OutsideSlot DEF IInv, TypeOK, clock
<1>6. CASE FinishBatch(c)
  <2>1. PICK g \in [todo[c] -> {"ok", "failed"}] :
          Answer(c, todo[c], [t \in todo[c] |-> IF t \in Late(c) THEN "deadline_exceeded"
                                                ELSE g[t]])
    BY <1>6 DEF FinishBatch
  <2> DEFINE f == [t \in todo[c] |-> IF t \in Late(c) THEN "deadline_exceeded" ELSE g[t]]
  <2>2. f \in [todo[c] -> Codes]  BY DEF Codes, TextCodes
  <2>3. /\ pc[c] = "finish" /\ UNCHANGED <<slot, active, clock>>
        /\ pc' = [pc EXCEPT ![c] = "leave"]
    BY <1>6 DEF FinishBatch
  <2> HIDE DEF f
  <2>4. Answer(c, todo[c], f)  BY <2>1 DEF f
  <2> QED BY <2>2, <2>3, <2>4, AnsweringStep
<1> QED BY <1>3, <1>4, <1>5, <1>6

LEMMA RefuseStep ==
    ASSUME IInv, NEW c \in Calls, NEW t \in Tasks, RefuseTask(c, t)
    PROVE  IInv'
<1>1. PICK code \in Codes : Result(c, t, code)  BY DEF RefuseTask, Codes, TextCodes
<1>2. /\ pc[c] = "next" /\ t \in todo[c] /\ UNCHANGED <<slot, active, clock>>
      /\ pc' = [pc EXCEPT ![c] = "next"]
  BY DEF RefuseTask, IInv, TypeOK
<1>3. [x \in {t} |-> code] \in [{t} -> Codes]  OBVIOUS
<1>4. {t} \in SUBSET todo[c] /\ Answer(c, {t}, [x \in {t} |-> code])
  BY <1>1, <1>2 DEF Result
<1> QED BY <1>2, <1>3, <1>4, AnsweringStep

LEMMA TakeStep ==
    ASSUME IInv, NEW c \in Calls, NEW t \in Tasks, TakeSlot(c, t)
    PROVE  IInv'
<1> USE DEF IInv, TakeSlot, Goto, clock
<1>1. pc'[c] = "service" /\ \A b \in Calls \ {c} : pc'[b] = pc[b]  BY DEF TypeOK
<1>2. \A b \in Calls, u \in Tasks : <<b, u>> \in slot' <=> b = c /\ u = t  OBVIOUS
<1>3. Split'  BY <1>1 DEF Split, Done
<1> QED BY <1>1, <1>2, <1>3 DEF TypeOK, SlotHeld, SlotTask, GateCounts

LEMMA ServiceStep ==
    ASSUME IInv, NEW c \in Calls, NEW t \in Tasks, EndService(c, t)
    PROVE  IInv'
<1> USE DEF IInv
<1>1. PICK code \in Codes : Result(c, t, code)  BY DEF EndService, Codes, TextCodes
<1>2. /\ pc[c] = "service" /\ <<c, t>> \in slot /\ slot' = slot \ {<<c, t>>}
      /\ active' = active /\ UNCHANGED clock /\ pc' = [pc EXCEPT ![c] = "next"]
  BY DEF EndService, Goto
<1>3. t \in todo[c]  BY <1>2 DEF SlotTask
<1>4. [x \in {t} |-> code] \in [{t} -> Codes]  OBVIOUS
<1>5. {t} \in SUBSET todo[c] /\ Answer(c, {t}, [x \in {t} |-> code])
  BY <1>1, <1>3 DEF Result
<1>6. /\ Split' /\ todo' \in [Calls -> SUBSET Tasks]
      /\ results' \in [Calls -> SUBSET (Tasks \X Codes)]
  BY <1>2, <1>4, <1>5, AnswerSplits
<1>7. pc'[c] = "next" /\ \A b \in Calls \ {c} : pc'[b] = pc[b]  BY <1>2 DEF TypeOK
<1>8. slot' = {}  BY <1>2 DEF SlotHeld
<1>9. GateCounts'  BY <1>2, <1>7 DEF GateCounts
<1>10. SlotHeld' /\ SlotTask'  BY <1>2, <1>7, <1>8 DEF SlotHeld, SlotTask
<1> QED BY <1>2, <1>6, <1>8, <1>9, <1>10 DEF TypeOK, clock

LEMMA EndStep ==
    ASSUME IInv, NEW c \in Calls, EndBatch(c)
    PROVE  IInv'
<1> USE DEF EndBatch, Goto, clock
<1>1. pc'[c] = "leave" /\ \A b \in Calls \ {c} : pc'[b] = pc[b]  BY DEF IInv, TypeOK
<1>2. Split'  BY <1>1 DEF IInv, Split, Done
<1> QED BY <1>2, OutsideSlot DEF IInv, TypeOK

LEMMA ReplyStep ==
    ASSUME IInv, NEW c \in Calls, Reply(c)
    PROVE  IInv'
<1> USE DEF IInv, Reply, Goto, clock
<1>1. pc'[c] = "replied" /\ \A b \in Calls \ {c} : pc'[b] = pc[b]  BY DEF TypeOK
<1>2. \A t \in Tasks : <<c, t>> \notin slot  BY DEF TypeOK, SlotHeld
<1>3. Split'  BY <1>1 DEF Split, Done
<1> QED BY <1>1, <1>2, <1>3 DEF TypeOK, SlotHeld, SlotTask, GateCounts

\* Time and the caller.
LEMMA OutsideStep ==
    ASSUME IInv, NEW c \in Calls, Disconnect(c) \/ \E t \in Tasks : Expire(c, t)
    PROVE  IInv'
<1>1. UNCHANGED <<batch, pc, todo, results, active, slot>> /\ gone \subseteq gone'
  BY DEF Disconnect, Expire
<1>2. gone' \subseteq Calls /\ expired' \subseteq Calls \X Tasks
  BY DEF Disconnect, Expire, IInv, TypeOK
<1>3. Split'  BY <1>1 DEF IInv, Split, Done
<1> QED BY <1>1, <1>2, <1>3 DEF IInv, TypeOK, SlotHeld, SlotTask, GateCounts

-----------------------------------------------------------------------------
(* The theorems                                                            *)

LEMMA InitIInv == Init => IInv
<1> SUFFICES ASSUME Init PROVE IInv  OBVIOUS
<1> USE DEF Init
<1>1. TypeOK  BY DEF TypeOK
<1>2. Split  BY DEF Split, Done
<1> QED BY <1>1, <1>2 DEF IInv, SlotHeld, SlotTask, GateCounts

LEMMA NextIInv == IInv /\ [Next]_vars => IInv'
<1> SUFFICES ASSUME IInv, [Next]_vars PROVE IInv'  OBVIOUS
<1>1. CASE Next
  <2>1. PICK c \in Calls : CallStep(c) \/ Disconnect(c) \/ \E t \in Tasks : Expire(c, t)
    BY <1>1 DEF Next
  <2>2. CASE CallStep(c)
    BY <2>2, EnterStep, SimulationStep, RefuseStep, TakeStep, ServiceStep, EndStep,
       ReplyStep
       DEF CallStep
  <2> QED BY <2>1, <2>2, OutsideStep
<1>2. CASE UNCHANGED vars
  BY <1>2 DEF vars, IInv, TypeOK, Split, Done, SlotHeld, SlotTask, GateCounts
<1> QED BY <1>1, <1>2

\* Each batch stays split into answered tasks and tasks to do.
THEOREM InvariantHolds == Spec => []IInv
<1>1. Init => IInv  BY InitIInv
<1>2. IInv /\ [Next]_vars => IInv'  BY NextIInv
<1> QED BY <1>1, <1>2, PTL DEF Spec

\* Every ProcessBatch reply has exactly one result per task, except for a
\* simulated batch whose caller is gone.
THEOREM RepliesAreComplete == Spec => []ReplyComplete
<1>1. IInv => ReplyComplete
  <2> SUFFICES ASSUME IInv, NEW c \in Calls, pc[c] = "replied", ~(~Text /\ c \in gone),
                      NEW t \in Tasks
               PROVE  t \in batch[c] <=> \E code \in Codes : <<t, code>> \in results[c]
    BY DEF IInv, Split, ReplyComplete
  <2>1. Done(c) = batch[c]  BY DEF IInv, Split
  <2> QED BY <2>1 DEF Done
<1> QED BY <1>1, InvariantHolds, PTL

\* TextWorker's slot admits one request at a time and no outcome leaks it.
THEOREM SlotNeverLeaks == Spec => []SlotHeld
<1>1. IInv => SlotHeld  BY DEF IInv
<1> QED BY <1>1, InvariantHolds, PTL

\* The gate's count is the number of calls being processed.
THEOREM GateCountsCalls == Spec => []GateCounts
<1>1. IInv => GateCounts  BY DEF IInv
<1> QED BY <1>1, InvariantHolds, PTL
=============================================================================
