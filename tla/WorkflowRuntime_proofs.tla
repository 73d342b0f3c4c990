----------------------- MODULE WorkflowRuntime_proofs -----------------------
(* Proofs about WorkflowRuntime, for every choice of its constants. *)
EXTENDS WorkflowRuntime, TLAPS

-----------------------------------------------------------------------------
(* What the operators of ContentGraph return. *)

LEMMA NextNodeType ==
    ASSUME NEW pl \in Plan, NEW c \in Checkpoint
    PROVE  NextNode(pl, c) \in Nodes \cup {End}
  BY DEF Plan, Checkpoint, NextNode, AfterParseIntent, AfterOutline, AfterRefine,
         AfterContent, AfterFactCheck, Nodes, End, Entry

LEMMA OutcomeType ==
    ASSUME NEW pl \in Plan, NEW v \in GraphState, NEW n \in Nodes,
           NEW w \in NodeOutcomes(pl, n, v)
    PROVE  w \in GraphState
  <1>1. CASE n = "parse_intent"
    BY <1>1 DEF NodeOutcomes, ParseIntent, GraphState
  <1>2. CASE n = "clarify_intent"
    BY <1>2 DEF NodeOutcomes, ClarifyIntent, GraphState
  <1>3. CASE n = "retrieve_knowledge"
    BY <1>3 DEF NodeOutcomes
  <1>4. CASE n = "generate_outline"
    <2>1. PICK some \in BOOLEAN :
             w = [v EXCEPT !.outline = TRUE, !.sections = some,
                           !.awaiting_outline = pl.outline_gate,
                           !.outline_approved = ~pl.outline_gate, !.user_decision = "none"]
      BY <1>4 DEF NodeOutcomes, GenerateOutline
    <2>2. pl.outline_gate \in BOOLEAN /\ (~pl.outline_gate) \in BOOLEAN
      BY DEF Plan
    <2>3. QED
      BY <2>1, <2>2, ZenonT(60) DEF GraphState, OutlineActions
  <1>5. CASE n = "approve_outline"
    <2>1. w \in ApproveOutline(v)
      BY <1>5 DEF NodeOutcomes
    <2>2. CASE v.user_decision = "accept"
      <3>1. PICK some \in BOOLEAN :
               w = [v EXCEPT !.sections = some, !.outline_approved = TRUE,
                             !.awaiting_outline = FALSE, !.user_decision = "none"]
        BY <2>1, <2>2 DEF ApproveOutline
      <3>2. QED
        BY <3>1, Zenon DEF GraphState, OutlineActions
    <2>3. CASE v.user_decision # "accept"
      <3>1. w = [v EXCEPT !.outline = FALSE, !.sections = FALSE, !.outline_approved = FALSE,
                          !.awaiting_outline = FALSE, !.user_decision = "none"]
        BY <2>1, <2>3 DEF ApproveOutline
      <3>2. QED
        BY <3>1, Zenon DEF GraphState, OutlineActions
    <2>4. QED
      BY <2>2, <2>3
  <1>6. CASE n = "generate_content"
    BY <1>6 DEF NodeOutcomes, GenerateContent, GraphState
  <1>7. CASE n = "self_refine"
    BY <1>7 DEF NodeOutcomes, SelfRefine, GraphState
  <1>8. CASE n = "check_facts"
    <2>1. PICK r \in BOOLEAN :
             w = [v EXCEPT !.report = TRUE, !.risky = r, !.fact_answers = "none",
                           !.awaiting_fact_check = r /\ pl.fact_check_gate]
      BY <1>8 DEF NodeOutcomes, CheckFacts
    <2>2. (r /\ pl.fact_check_gate) \in BOOLEAN
      OBVIOUS
    <2>3. QED
      BY <2>1, <2>2, ZenonT(60) DEF GraphState, FactAnswers
  <1>9. CASE n = "approve_fact_check"
    <2>1. w = [v EXCEPT !.risky = FALSE, !.awaiting_fact_check = FALSE,
                        !.fact_answers = "none", !.final = v.final \/ v.draft]
          /\ (v.final \/ v.draft) \in BOOLEAN
      BY <1>9 DEF NodeOutcomes, ApproveFactCheck
    <2>2. QED
      BY <2>1, ZenonT(90) DEF GraphState, FactAnswers
  <1>10. CASE n = "finalize"
    <2>1. w = [v EXCEPT !.final = v.final \/ v.draft] /\ (v.final \/ v.draft) \in BOOLEAN
      BY <1>10 DEF NodeOutcomes, Finalize
    <2>2. QED
      BY <2>1 DEF GraphState
  <1>11. QED
    BY <1>1, <1>2, <1>3, <1>4, <1>5, <1>6, <1>7, <1>8, <1>9, <1>10 DEF Nodes

LEMMA EmptyType == NoCheckpoint \in Checkpoint /\ InputCheckpoint \in Checkpoint
  BY DEF NoCheckpoint, InputCheckpoint, Checkpoint, EmptyState, GraphState, Entry,
         NoThread, OutlineActions, FactAnswers

LEMMA SyncStatusType ==
    ASSUME NEW raw \in RunStatus, NEW v
    PROVE  SyncStatus(raw, v) \in RunStatus
  BY DEF SyncStatus, RunStatus

LEMMA UpdateType ==
    ASSUME NEW k \in AllOps, NEW c \in Checkpoint
    PROVE  Update(k, c) \in Checkpoint
  <1>. DEFINE at == IF c.at = NoThread THEN Entry ELSE c.at
  <1>1. at \in Nodes \cup {NoThread, Entry} /\ at # NoThread /\ c.vals \in GraphState
    BY DEF Checkpoint, NoThread, Entry
  <1>2. CASE k \in {"pause", "resume"}
    <2>1. \A b \in BOOLEAN : [c.vals EXCEPT !.is_paused = b] \in GraphState
      BY <1>1 DEF GraphState
    <2>2. \E b \in BOOLEAN : Update(k, c) = [at |-> at, vals |-> [c.vals EXCEPT !.is_paused = b]]
      BY <1>2 DEF Update, OutlineOps, FactOps
    <2>3. QED
      BY <1>1, <2>1, <2>2 DEF Checkpoint
  <1>3. CASE k = "clarify"
    <2>1. Update(k, c) = [c EXCEPT !.at = at]
      BY <1>3 DEF Update, OutlineOps, FactOps
    <2>2. QED
      BY <1>1, <2>1 DEF Checkpoint
  <1>4. CASE k \in OutlineOps
    <2>. DEFINE d == IF k = "accept_outline" THEN "accept" ELSE "regenerate"
                new == [c.vals EXCEPT !.awaiting_outline = FALSE, !.user_decision = d]
    <2>1. new \in GraphState
      <3>1. d \in OutlineActions
        BY DEF OutlineActions
      <3>. HIDE DEF d
      <3>2. QED
        BY <1>1, <3>1 DEF GraphState
    <2>2. Update(k, c) = [at |-> "generate_outline", vals |-> new]
      BY <1>4 DEF Update, OutlineOps, FactOps
    <2>. HIDE DEF new
    <2>3. QED
      BY <2>1, <2>2 DEF Checkpoint, Nodes
  <1>5. CASE k \in FactOps
    <2>. DEFINE new == [c.vals EXCEPT !.awaiting_fact_check = FALSE,
                                      !.fact_answers = Answers(k)]
    <2>1. Answers(k) \in FactAnswers
      BY <1>5 DEF Answers, FactOps, FactAnswers
    <2>2. new \in GraphState
      BY <1>1, <2>1 DEF GraphState
    <2>3. Update(k, c) = [at |-> "check_facts", vals |-> new]
      BY <1>5 DEF Update, OutlineOps, FactOps
    <2>. HIDE DEF new
    <2>4. QED
      BY <2>2, <2>3 DEF Checkpoint, Nodes
  <1>6. QED
    BY <1>2, <1>3, <1>4, <1>5 DEF AllOps, GateOps, OutlineOps, FactOps

-----------------------------------------------------------------------------
(* Type correctness.  A request's operation is known from its arrival on, which *)
(* is what makes the CASE of Update total where it is used; only the request    *)
(* that started the run serves none of them, and only notes the owner.          *)

OffDuty == {"off", "annotate_read", "annotate_write"}

OpsKnown == \A r \in Requests : pc[r] \notin OffDuty => op[r] \in AllOps

\* Inside ainvoke there is a node to run, so what it returns is defined.
NodeChosen == \A p \in Procs : Executing(p) => Running(p) # End

TypeInv == TypeOK /\ OpsKnown /\ NodeChosen

\* Every step of a process moves only that process.  It keeps OpsKnown, and it keeps
\* NodeChosen unless it enters a node or changes what the process has pinned.
LEMMA GotoKeeps ==
    ASSUME TypeInv, NEW p \in Procs, NEW l \in PCs, Goto(p, l),
           pc[p] \notin OffDuty \/ l \in OffDuty,
           op' = op, plan' = plan, \A q \in Procs \ {p} : cfg'[q] = cfg[q],
           \/ l \notin {"node", "gate_write", "node_end"}
           \/ Executing(p) /\ cfg'[p] = cfg[p]
    PROVE  pc' \in [Procs -> PCs] /\ OpsKnown' /\ NodeChosen'
  <1>1. pc' \in [Procs -> PCs]
    BY DEF TypeInv, TypeOK, Goto
  <1>2. OpsKnown'
    BY DEF TypeInv, TypeOK, OpsKnown, Goto, Procs, OffDuty
  <1>3. ASSUME NEW q \in Procs, Executing(q)' PROVE (Running(q) # End)'
    <2>1. Executing(q) /\ cfg'[q] = cfg[q]
      BY <1>3 DEF TypeInv, TypeOK, Goto, Executing
    <2>2. Running(q)' = Running(q)
      BY <2>1 DEF Running, Base
    <2>3. QED
      BY <2>1, <2>2 DEF TypeInv, NodeChosen
  <1>4. QED
    BY <1>1, <1>2, <1>3 DEF NodeChosen

LEMMA WriteRowType ==
    ASSUME TypeInv, NEW s \in RunStatus, WriteRow(s)
    PROVE  row' \in RunStatus /\ started' \in [Procs -> Nat]
  BY DEF TypeInv, TypeOK, WriteRow

LEMMA BaseType ==
    ASSUME TypeInv, NEW p \in Procs
    PROVE  Base(p) \in Checkpoint /\ Running(p) \in Nodes \cup {End}
  BY EmptyType, NextNodeType DEF TypeInv, TypeOK, Base, Running

LEMMA FailedType ==
    ASSUME TypeInv, NEW p \in Procs
    PROVE  Failed(p) \in Checkpoint
  <1>. DEFINE c == IF cfg[p].at = NoThread THEN ckpt ELSE cfg[p]
              v == c.vals
              w == [v EXCEPT !.error = TRUE]
  <1>1. c \in Checkpoint
    BY DEF TypeInv, TypeOK
  <1>2. w \in GraphState
    BY <1>1 DEF Checkpoint, GraphState
  <1>3. Failed(p) = [c EXCEPT !.vals = w]
    BY DEF Failed
  <1>. HIDE DEF c, w
  <1>4. QED
    BY <1>1, <1>2, <1>3 DEF Checkpoint

LEMMA PausedType ==
    ASSUME TypeInv, NEW p \in Procs
    PROVE  [cfg[p] EXCEPT !.vals.is_paused = TRUE] \in Checkpoint
  <1>. DEFINE c == cfg[p]
              v == c.vals
              w == [v EXCEPT !.is_paused = TRUE]
  <1>1. c \in Checkpoint
    BY DEF TypeInv, TypeOK
  <1>2. w \in GraphState
    BY <1>1 DEF Checkpoint, GraphState
  <1>3. [cfg[p] EXCEPT !.vals.is_paused = TRUE] = [c EXCEPT !.vals = w]
    OBVIOUS
  <1>. HIDE DEF c, w
  <1>4. QED
    BY <1>1, <1>2, <1>3 DEF Checkpoint

LEMMA TypeOfDriveStep ==
    ASSUME TypeInv, NEW p \in Procs, DriveStep(p)
    PROVE  TypeInv'
  <1>. USE DEF TypeInv, TypeOK, OffDuty
  <1>1. CASE Acquire(p)
    BY <1>1, GotoKeeps DEF Acquire, store, bounds, PCs, DriveHeld
  <1>2. CASE Invoke(p)
    <2>1. ckpt' \in Checkpoint /\ started' \in [Procs -> Nat]
      BY <1>2, EmptyType DEF Invoke
    <2>2. CASE Running(p) = End
      BY <1>2, <2>1, <2>2, GotoKeeps DEF Invoke, sched, bounds, PCs, DriveHeld
    <2>3. CASE Running(p) # End
      <3>1. pc' \in [Procs -> PCs] /\ OpsKnown'
        BY <1>2, <2>3 DEF Invoke, PCs, DriveHeld, Goto, OpsKnown, Procs
      <3>2. ASSUME NEW q \in Procs, Executing(q)' PROVE (Running(q) # End)'
        <4>1. Running(q)' = Running(q)
          BY <1>2 DEF Invoke, Running, Base
        <4>2. q = p \/ Executing(q)
          BY <1>2, <2>3, <3>2 DEF Invoke, Goto, Executing
        <4>3. QED
          BY <2>3, <4>1, <4>2 DEF NodeChosen
      <3>3. QED
        BY <1>2, <2>1, <3>1, <3>2 DEF Invoke, sched, bounds, NodeChosen
    <2>4. QED
      BY <2>2, <2>3
  <1>3. CASE NodeReadsRow(p)
    BY <1>3, GotoKeeps DEF NodeReadsRow, store, sched, bounds, history, PCs, DriveHeld, Executing
  <1>4. CASE NodeWritesRow(p)
    BY <1>4, WriteRowType, GotoKeeps
       DEF NodeWritesRow, sched, bounds, PCs, DriveHeld, Executing
  <1>5. CASE NodeFinalizes(p)
    <2>1. "completed" \in RunStatus
      BY DEF RunStatus
    <2>2. QED
      BY <1>5, <2>1, WriteRowType, GotoKeeps
         DEF NodeFinalizes, sched, bounds, PCs, DriveHeld, Executing
  <1>6. CASE NodeKeepsRow(p)
    BY <1>6, GotoKeeps DEF NodeKeepsRow, store, sched, bounds, history, PCs, DriveHeld, Executing
  <1>7. CASE NodeEnds(p)
    <2>1. PICK v \in NodeOutcomes(plan, Running(p), Base(p).vals) :
             ckpt' = [at |-> Running(p), vals |-> v]
      BY <1>7 DEF NodeEnds
    <2>2. Running(p) \in Nodes /\ Base(p).vals \in GraphState
      BY <1>7, BaseType DEF NodeEnds, NodeChosen, Executing, Checkpoint
    <2>3. ckpt' \in Checkpoint
      BY <2>1, <2>2, OutcomeType DEF Checkpoint
    <2>4. QED
      BY <1>7, <2>3, GotoKeeps DEF NodeEnds, sched, bounds, history, PCs, DriveHeld
  <1>8. CASE NodeFails(p)
    BY <1>8, GotoKeeps DEF NodeFails, Executing, store, sched, bounds, history, PCs, DriveHeld
  <1>9. CASE Capture(p)
    BY <1>9, FailedType, GotoKeeps DEF Capture, sched, bounds, history, PCs, DriveHeld
  <1>10. CASE Snapshot(p)
    BY <1>10, GotoKeeps DEF Snapshot, store, sched, bounds, history, PCs, DriveHeld
  <1>11. CASE MarkPaused(p)
    BY <1>11, PausedType, GotoKeeps DEF MarkPaused, sched, bounds, history, PCs, DriveHeld
  <1>12. CASE SyncRead(p, "sync_read", "sync_write") \/ SyncRead(p, "final_read", "final_write")
    BY <1>12, GotoKeeps DEF SyncRead, store, sched, bounds, history, PCs, DriveHeld
  <1>13. CASE \/ SyncWrite(p, "sync_write", AfterSync(Written(p), cfg[p]))
              \/ SyncWrite(p, "final_write", "return")
    <2>1. Written(p) \in RunStatus
      BY SyncStatusType DEF Written
    <2>2. AfterSync(Written(p), cfg[p]) \in {"mark_paused", "return", "invoke"}
      BY DEF AfterSync
    <2>3. QED
      BY <1>13, <2>1, <2>2, WriteRowType, GotoKeeps
         DEF SyncWrite, sched, bounds, PCs, DriveHeld
  <1>14. CASE Return(p)
    BY <1>14, GotoKeeps DEF Return, store, bounds, history, PCs, TaskOnly
  <1>15. QED
    BY <1>1, <1>2, <1>3, <1>4, <1>5, <1>6, <1>7, <1>8, <1>9, <1>10, <1>11, <1>12, <1>13, <1>14
       DEF DriveStep

LEMMA TypeOfTaskStep ==
    ASSUME TypeInv, NEW t \in Tasks, MarkFailed(t) \/ Cleanup(t) \/ MarkFailedLost(t)
    PROVE  TypeInv'
  <1>. USE DEF TypeInv, TypeOK, OffDuty
  <1>0. t \in Procs
    BY DEF Procs
  <1>1. CASE MarkFailed(t)
    <2>1. "failed" \in RunStatus
      BY DEF RunStatus
    <2>2. QED
      BY <1>0, <1>1, <2>1, WriteRowType, GotoKeeps DEF MarkFailed, sched, bounds, PCs, TaskOnly
  <1>2. CASE Cleanup(t)
    BY <1>0, <1>2, GotoKeeps DEF Cleanup, store, bounds, history, PCs
  <1>3. CASE MarkFailedLost(t)
    BY <1>0, <1>3, ConstantsAssumption, GotoKeeps
       DEF MarkFailedLost, store, sched, history, PCs, TaskOnly
  <1>4. QED
    BY <1>1, <1>2, <1>3

LEMMA TypeOfRequestStep ==
    ASSUME TypeInv, NEW r \in Requests, RequestStep(r) \/ RequestRaises(r) \/ GuardUnread(r)
    PROVE  TypeInv'
  <1>. USE DEF TypeInv, TypeOK, OffDuty
  <1>0. r \in Procs
    BY DEF Procs
  <1>1. CASE Guard(r)
    <2>1. FirstStep(op[r]) \in {"pause_write", "resume_write", "update_read"}
      BY DEF FirstStep
    <2>2. QED
      BY <1>0, <1>1, <2>1, GotoKeeps DEF Guard, store, sched, bounds, history, PCs, RequestOnly
  <1>2. CASE PauseWrite(r) \/ ResumeWrite(r)
    <2>1. "paused" \in RunStatus /\ "running" \in RunStatus
      BY DEF RunStatus
    <2>2. QED
      BY <1>0, <1>2, <2>1, WriteRowType, GotoKeeps
         DEF PauseWrite, ResumeWrite, sched, bounds, PCs, RequestOnly
  <1>3. CASE UpdateRead(r)
    BY <1>0, <1>3, GotoKeeps DEF UpdateRead, store, sched, bounds, history, PCs, RequestOnly
  <1>4. CASE UpdateWrite(r)
    <2>. DEFINE l == CASE op[r] = "pause" -> "pause_sync_read"
                       [] op[r] = "resume" -> "schedule"
                       [] OTHER -> "acquire"
    <2>1. l \in PCs /\ l \notin {"node", "gate_write", "node_end"}
      BY DEF PCs, RequestOnly
    <2>2. Update(op[r], cfg[r]) \in Checkpoint
      BY <1>0, <1>4, UpdateType DEF UpdateWrite, OpsKnown
    <2>3. Goto(r, l) /\ accepted' \in BOOLEAN
      BY <1>4 DEF UpdateWrite
    <2>. HIDE DEF l
    <2>4. QED
      BY <1>0, <1>4, <2>1, <2>2, <2>3, GotoKeeps DEF UpdateWrite, sched, bounds
  <1>5. CASE SyncRead(r, "pause_sync_read", "pause_sync_write")
    BY <1>0, <1>5, GotoKeeps DEF SyncRead, store, sched, bounds, history, PCs, RequestOnly
  <1>6. CASE SyncWrite(r, "pause_sync_write", "off")
    <2>1. Written(r) \in RunStatus
      BY <1>0, SyncStatusType DEF Written
    <2>2. QED
      BY <1>0, <1>6, <2>1, WriteRowType, GotoKeeps DEF SyncWrite, sched, bounds, PCs
  <1>7. CASE ScheduleDropped(r)
    BY <1>0, <1>7, GotoKeeps DEF ScheduleDropped, store, sched, bounds, history, PCs
  <1>8. CASE \E t \in Tasks : ScheduleDrive(r, t)
    <2>1. PICK t \in Tasks : ScheduleDrive(r, t)
      BY <1>8
    <2>2. t \in Procs /\ t \notin Requests /\ t # r
      BY ConstantsAssumption DEF Procs
    <2>3. /\ pc' = [pc EXCEPT ![r] = "off", ![t] = "acquire"]
          /\ cfg' = [cfg EXCEPT ![t] = cfg[r]]
          /\ pc[t] = "off"
      BY <2>1 DEF ScheduleDrive
    <2>4. pc' \in [Procs -> PCs] /\ OpsKnown'
      BY <2>1, <2>2, <2>3 DEF ScheduleDrive, bounds, OpsKnown, PCs, Procs
    <2>5. ASSUME NEW q \in Procs, Executing(q)' PROVE (Running(q) # End)'
      <3>1. Executing(q) /\ q # t
        BY <1>0, <2>2, <2>3, <2>5 DEF Executing
      <3>2. Running(q)' = Running(q)
        BY <2>1, <2>2, <2>3, <3>1 DEF ScheduleDrive, Running, Base
      <3>3. QED
        BY <3>1, <3>2 DEF NodeChosen
    <2>6. QED
      BY <1>0, <2>1, <2>2, <2>3, <2>4, <2>5
         DEF ScheduleDrive, store, bounds, history, NodeChosen
  <1>9. CASE RequestRaises(r)
    BY <1>0, <1>9, ConstantsAssumption, GotoKeeps
       DEF RequestRaises, store, sched, history, PCs, RequestOnly
  <1>10. CASE AnnotateRead(r)
    BY <1>0, <1>10, GotoKeeps DEF AnnotateRead, store, sched, bounds, history, PCs, RequestOnly
  <1>11. CASE AnnotateWrite(r)
    BY <1>0, <1>11, WriteRowType, GotoKeeps DEF AnnotateWrite, sched, bounds, PCs
  <1>12. CASE GuardUnread(r)
    <2>1. PICK l \in {"pause_write", "resume_write", "update_read", "off"} : Goto(r, l)
      BY <1>12 DEF GuardUnread, FirstStep
    <2>2. QED
      BY <1>0, <1>12, <2>1, WriteRowType, ConstantsAssumption, GotoKeeps
         DEF GuardUnread, sched, PCs, RequestOnly
  <1>13. QED
    BY <1>1, <1>2, <1>3, <1>4, <1>5, <1>6, <1>7, <1>8, <1>9, <1>10, <1>11, <1>12 DEF RequestStep

LEMMA TypeOfArrival ==
    ASSUME TypeInv, NEW r \in Requests, NEW k \in Ops, Arrive(r, k)
    PROVE  TypeInv'
  <1>. USE DEF TypeInv, TypeOK, OffDuty
  <1>1. r \in Procs /\ k \in AllOps
    BY ConstantsAssumption DEF Procs
  <1>2. pc' \in [Procs -> PCs] /\ OpsKnown' /\ op' \in [Procs -> AllOps \cup {"drive", "start"}]
    BY <1>1 DEF Arrive, Goto, OpsKnown, PCs, RequestOnly, Procs
  <1>3. ASSUME NEW q \in Procs, Executing(q)' PROVE (Running(q) # End)'
    <2>1. Executing(q)
      BY <1>1, <1>3 DEF Arrive, Goto, Executing
    <2>2. Running(q)' = Running(q)
      BY DEF Arrive, Running, Base
    <2>3. QED
      BY <2>1, <2>2 DEF NodeChosen
  <1>4. QED
    BY <1>1, <1>2, <1>3, ConstantsAssumption DEF Arrive, store, sched, history, NodeChosen

LEMMA TypeOfDisturbance ==
    ASSUME TypeInv, Disturbance
    PROVE  TypeInv'
  <1>1. ASSUME NEW p \in Procs, CaptureLost(p) \/ DriveRaises(p) PROVE TypeInv'
    <2>. USE DEF TypeInv, TypeOK, OffDuty
    <2>1. CASE CaptureLost(p)
      BY <2>1, FailedType, ConstantsAssumption, GotoKeeps
         DEF CaptureLost, store, sched, history, PCs, DriveHeld
    <2>2. CASE DriveRaises(p)
      <3>1. PICK l \in {"fail_write", "off"} : Goto(p, l)
        BY <2>2 DEF DriveRaises
      <3>2. pc[p] \notin OffDuty
        BY <2>2 DEF DriveRaises, DriveHeld
      <3>3. faults' \in 0..MaxFaults
        BY <2>2, ConstantsAssumption DEF DriveRaises
      <3>4. QED
        BY <2>2, <3>1, <3>2, <3>3, GotoKeeps
           DEF DriveRaises, store, history, PCs, TaskOnly
    <2>3. QED
      BY <1>1, <2>1, <2>2
  <1>2. CASE Crash
    BY <1>2, ConstantsAssumption
       DEF TypeInv, TypeOK, OffDuty, Crash, store, history, OpsKnown, NodeChosen, Executing,
           PCs, Procs
  <1>3. QED
    BY <1>1, <1>2, TypeOfTaskStep, TypeOfRequestStep DEF Disturbance

LEMMA TypeOfInit == Init => TypeInv
  <1>. SUFFICES ASSUME Init PROVE TypeInv
    OBVIOUS
  <1>1. TypeOK
    <2>1. /\ pc \in [Procs -> PCs] /\ op \in [Procs -> AllOps \cup {"drive", "start"}]
          /\ active \in Tasks \cup {NoProc} /\ plan \in Plan
      BY ConstantsAssumption DEF Init, PCs, RequestOnly
    <2>2. row \in RunStatus /\ seen \in [Procs -> RunStatus]
      BY DEF Init, RunStatus
    <2>3. 0 \in 0..MaxCalls /\ 0 \in 0..MaxFaults /\ 0 \in 0..MaxCrashes
      BY ConstantsAssumption
    <2>4. QED
      BY <2>1, <2>2, <2>3, EmptyType DEF Init, TypeOK
  <1>2. OpsKnown /\ NodeChosen
    BY ConstantsAssumption DEF Init, OpsKnown, NodeChosen, Executing, Procs, OffDuty
  <1>3. QED
    BY <1>1, <1>2 DEF TypeInv

LEMMA TypeOfStutter == TypeInv /\ UNCHANGED vars => TypeInv'
  BY DEF TypeInv, TypeOK, OpsKnown, NodeChosen, Executing, Running, Base, vars

LEMMA TypeInvariant == Spec => []TypeInv
  <1>1. TypeInv /\ [Next]_vars => TypeInv'
    BY TypeOfDriveStep, TypeOfTaskStep, TypeOfRequestStep, TypeOfArrival,
       TypeOfDisturbance, TypeOfStutter DEF Next
  <1>2. QED
    BY TypeOfInit, <1>1, PTL DEF Spec

\* Whatever requests, faults and restarts happen, the row, the checkpoints every
\* process pins and the run's bookkeeping stay well formed; in particular every
\* update of the graph state and every node leaves a GraphState (graph/state.py).
THEOREM TypeCorrect == Spec => []TypeOK
  <1>1. TypeInv => TypeOK
    BY DEF TypeInv
  <1>2. QED
    BY TypeInvariant, <1>1, PTL

-----------------------------------------------------------------------------
(* The lock.  LockOwned is inductive beside the types: a step that enters the   *)
(* drive finds the lock free, a step that leaves it gives the lock back, and    *)
(* every other step keeps both sides of the equivalence.                        *)

\* A step of p that stays inside the drive, or stays outside it.
LEMMA LockKept ==
    ASSUME TypeInv, LockOwned, NEW p \in Procs, NEW l \in PCs, Goto(p, l), lock' = lock,
           pc[p] \in DriveHeld <=> l \in DriveHeld
    PROVE  LockOwned'
  BY DEF TypeInv, TypeOK, LockOwned, Holding, Goto

\* A step of the holder that leaves the drive.
LEMMA LockReturned ==
    ASSUME TypeInv, LockOwned, NEW p \in Procs, NEW l \in PCs \ DriveHeld, Goto(p, l),
           pc[p] \in DriveHeld, lock' = NoProc
    PROVE  LockOwned'
  BY ConstantsAssumption DEF TypeInv, TypeOK, LockOwned, Holding, Goto

LEMMA LockOfDriveStep ==
    ASSUME TypeInv, LockOwned, NEW p \in Procs, DriveStep(p)
    PROVE  LockOwned'
  <1>. USE DEF PCs, DriveHeld, TaskOnly
  <1>1. CASE Acquire(p)
    BY <1>1, ConstantsAssumption DEF Acquire, Goto, TypeInv, TypeOK, LockOwned, Holding
  <1>2. CASE Invoke(p)
    <2>1. PICK l \in {"snapshot", "node"} : Goto(p, l)
      BY <1>2 DEF Invoke
    <2>2. QED
      BY <1>2, <2>1, LockKept DEF Invoke, sched
  <1>3. CASE NodeReadsRow(p) \/ NodeWritesRow(p)
    BY <1>3, LockKept DEF NodeReadsRow, NodeWritesRow, sched
  <1>4. CASE NodeFinalizes(p) \/ NodeKeepsRow(p) \/ NodeEnds(p)
    BY <1>4, LockKept DEF NodeFinalizes, NodeKeepsRow, NodeEnds, sched
  <1>5. CASE NodeFails(p)
    BY <1>5, LockKept DEF NodeFails, Executing, sched
  <1>6. CASE Capture(p) \/ Snapshot(p) \/ MarkPaused(p)
    BY <1>6, LockKept DEF Capture, Snapshot, MarkPaused, sched
  <1>7. CASE SyncRead(p, "sync_read", "sync_write") \/ SyncRead(p, "final_read", "final_write")
    BY <1>7, LockKept DEF SyncRead, sched
  <1>8. CASE \/ SyncWrite(p, "sync_write", AfterSync(Written(p), cfg[p]))
             \/ SyncWrite(p, "final_write", "return")
    <2>1. AfterSync(Written(p), cfg[p]) \in {"mark_paused", "return", "invoke"}
      BY DEF AfterSync
    <2>2. QED
      BY <1>8, <2>1, LockKept DEF SyncWrite, sched
  <1>9. CASE Return(p)
    <2>1. PICK l \in {"done", "off"} : Goto(p, l)
      BY <1>9 DEF Return
    <2>2. QED
      BY <1>9, <2>1, LockReturned DEF Return
  <1>10. QED
    BY <1>1, <1>2, <1>3, <1>4, <1>5, <1>6, <1>7, <1>8, <1>9 DEF DriveStep

LEMMA LockOfRequestStep ==
    ASSUME TypeInv, LockOwned, NEW r \in Requests,
           \/ RequestStep(r) \/ RequestRaises(r) \/ GuardUnread(r)
           \/ \E k \in Ops : Arrive(r, k)
    PROVE  LockOwned'
  <1>. USE DEF PCs, DriveHeld, RequestOnly
  <1>0. r \in Procs
    BY DEF Procs
  <1>1. CASE Guard(r) \/ GuardUnread(r)
    <2>1. PICK l \in {"pause_write", "resume_write", "update_read", "off"} : Goto(r, l)
      BY <1>1 DEF Guard, GuardUnread, FirstStep
    <2>2. QED
      BY <1>0, <1>1, <2>1, LockKept DEF Guard, GuardUnread, sched
  <1>2. CASE PauseWrite(r)
    <2>1. PICK l \in {"off", "update_read"} : Goto(r, l)
      BY <1>2 DEF PauseWrite
    <2>2. QED
      BY <1>0, <1>2, <2>1, LockKept DEF PauseWrite, sched
  <1>3. CASE \/ ResumeWrite(r) \/ UpdateRead(r) \/ ScheduleDropped(r)
             \/ AnnotateRead(r) \/ AnnotateWrite(r)
    BY <1>0, <1>3, LockKept
       DEF ResumeWrite, UpdateRead, ScheduleDropped, AnnotateRead, AnnotateWrite, sched
  <1>4. CASE UpdateWrite(r)
    <2>1. PICK l \in {"pause_sync_read", "schedule", "acquire"} : Goto(r, l)
      BY <1>4 DEF UpdateWrite
    <2>2. QED
      BY <1>0, <1>4, <2>1, LockKept DEF UpdateWrite, sched
  <1>5. CASE \/ SyncRead(r, "pause_sync_read", "pause_sync_write")
             \/ SyncWrite(r, "pause_sync_write", "off")
    BY <1>0, <1>5, LockKept DEF SyncRead, SyncWrite, sched
  <1>6. ASSUME NEW t \in Tasks, ScheduleDrive(r, t) PROVE LockOwned'
    BY <1>0, <1>6 DEF ScheduleDrive, TypeInv, TypeOK, LockOwned, Holding, Procs
  <1>7. CASE RequestRaises(r)
    BY <1>0, <1>7, LockKept DEF RequestRaises, sched
  <1>8. ASSUME NEW k \in Ops, Arrive(r, k) PROVE LockOwned'
    BY <1>0, <1>8, LockKept DEF Arrive, sched
  <1>9. QED
    BY <1>1, <1>2, <1>3, <1>4, <1>5, <1>6, <1>7, <1>8 DEF RequestStep

LEMMA LockOfTaskStep ==
    ASSUME TypeInv, LockOwned, NEW t \in Tasks, MarkFailed(t) \/ Cleanup(t) \/ MarkFailedLost(t)
    PROVE  LockOwned'
  <1>1. t \in Procs
    BY DEF Procs
  <1>2. QED
    BY <1>1, LockKept
       DEF MarkFailed, Cleanup, MarkFailedLost, sched, PCs, DriveHeld, TaskOnly

LEMMA LockOfDisturbance ==
    ASSUME TypeInv, LockOwned, Disturbance
    PROVE  LockOwned'
  <1>1. ASSUME NEW p \in Procs, CaptureLost(p) PROVE LockOwned'
    BY <1>1, LockKept DEF CaptureLost, sched, PCs, DriveHeld
  <1>2. ASSUME NEW p \in Procs, DriveRaises(p) PROVE LockOwned'
    <2>1. PICK l \in {"fail_write", "off"} : Goto(p, l)
      BY <1>2 DEF DriveRaises
    <2>2. QED
      BY <1>2, <2>1, LockReturned DEF DriveRaises, PCs, DriveHeld, TaskOnly
  <1>3. CASE Crash
    BY <1>3, ConstantsAssumption DEF Crash, LockOwned, Holding, DriveHeld
  <1>4. QED
    BY <1>1, <1>2, <1>3, LockOfRequestStep, LockOfTaskStep DEF Disturbance

\* The per-run asyncio.Lock is held exactly by the drive that is inside it, for any
\* number of requests and tasks and whichever way drives end: nothing leaks it and
\* nothing works without it.
THEOREM LockIsOwned == Spec => []LockOwned
  <1>1. Init => LockOwned
    BY ConstantsAssumption DEF Init, LockOwned, Holding, DriveHeld
  <1>2. TypeInv /\ LockOwned /\ [Next]_vars => LockOwned'
    <2>1. TypeInv /\ LockOwned /\ UNCHANGED vars => LockOwned'
      BY DEF LockOwned, Holding, vars
    <2>2. QED
      BY <2>1, LockOfDriveStep, LockOfRequestStep, LockOfTaskStep, LockOfDisturbance DEF Next
  <1>3. QED
    BY <1>1, <1>2, TypeInvariant, PTL DEF Spec

\* Two nodes of one run never execute at the same time, although an approval drives
\* the graph in the request beside the background task, and a second task may be
\* scheduled after the entry of the first was dropped.
THEOREM NodesExclude == Spec => []OneNodeAtATime
  <1>1. LockOwned => OneNodeAtATime
    BY DEF LockOwned, OneNodeAtATime, Executing, Holding, DriveHeld
  <1>2. QED
    BY <1>1, LockIsOwned, PTL

-----------------------------------------------------------------------------
(* The pause.  PauseStopsTheDrive is not inductive: that a drive which has      *)
(* started a node in the present pause does not start a second one depends on   *)
(* what its next synchronisation reads.                                         *)

\* A count that is not zero belongs to the present pause; the drive that has it is
\* past its invocation, and when it is about to write the row it has read "paused".
PauseInv ==
    \A p \in Procs :
        /\ started[p] <= 1
        /\ started[p] # 0 => row = "paused"
        /\ started[p] # 0 => pc[p] # "invoke"
        /\ started[p] # 0 /\ pc[p] = "sync_write" => seen[p] = "paused"

\* A step that leaves the row, the counts and what was read alone, and enters
\* neither of the two places PauseInv speaks of.
LEMMA PauseKept ==
    ASSUME TypeInv, PauseInv, NEW p \in Procs, NEW l \in PCs \ {"invoke", "sync_write"},
           Goto(p, l), row' = row, started' = started,
           \A q \in Procs \ {p} : seen'[q] = seen[q]
    PROVE  PauseInv'
  BY DEF TypeInv, TypeOK, PauseInv, Goto

\* The same for a step that writes the row: a row that leaves "paused" resets the counts.
LEMMA PauseWritten ==
    ASSUME TypeInv, PauseInv, NEW p \in Procs, NEW l \in PCs \ {"sync_write"}, Goto(p, l),
           NEW s \in RunStatus, WriteRow(s), seen' = seen,
           l = "invoke" => started[p] = 0
    PROVE  PauseInv'
  <1>1. CASE s = "paused"
    BY <1>1 DEF TypeInv, TypeOK, PauseInv, Goto, WriteRow
  <1>2. CASE s # "paused"
    BY <1>2 DEF PauseInv, WriteRow
  <1>3. QED
    BY <1>1, <1>2

LEMMA PauseOfDriveStep ==
    ASSUME TypeInv, PauseInv, NEW p \in Procs, DriveStep(p)
    PROVE  PauseInv'
  <1>. USE DEF PCs, DriveHeld, TaskOnly
  <1>1. CASE Acquire(p)
    BY <1>1 DEF Acquire, Goto, store, TypeInv, TypeOK, PauseInv
  <1>2. CASE Invoke(p)
    <2>1. started[p] = 0
      BY <1>2 DEF Invoke, PauseInv, TypeInv, TypeOK
    <2>2. CASE Running(p) = End \/ row # "paused"
      <3>1. PICK l \in {"snapshot", "node"} : Goto(p, l)
        BY <1>2 DEF Invoke
      <3>2. QED
        BY <1>2, <2>2, <3>1, PauseKept DEF Invoke
    <2>3. CASE Running(p) # End /\ row = "paused"
      BY <1>2, <2>1, <2>3 DEF Invoke, Goto, TypeInv, TypeOK, PauseInv
    <2>4. QED
      BY <2>2, <2>3
  <1>3. CASE NodeReadsRow(p)
    BY <1>3, PauseKept DEF NodeReadsRow, store, history, TypeInv, TypeOK
  <1>4. CASE NodeWritesRow(p)
    <2>1. seen[p] \in RunStatus
      BY DEF TypeInv, TypeOK
    <2>2. QED
      BY <1>4, <2>1, PauseWritten DEF NodeWritesRow
  <1>5. CASE NodeFinalizes(p)
    BY <1>5, PauseWritten DEF NodeFinalizes, RunStatus
  <1>6. CASE NodeKeepsRow(p) \/ NodeEnds(p) \/ NodeFails(p)
    BY <1>6, PauseKept DEF NodeKeepsRow, NodeEnds, NodeFails, store, history
  <1>7. CASE Capture(p) \/ Snapshot(p) \/ MarkPaused(p) \/ Return(p)
    <2>1. PICK l \in {"final_read", "sync_read", "done", "off"} : Goto(p, l)
      BY <1>7 DEF Capture, Snapshot, MarkPaused, Return
    <2>2. QED
      BY <1>7, <2>1, PauseKept DEF Capture, Snapshot, MarkPaused, Return, store, history
  <1>8. CASE SyncRead(p, "sync_read", "sync_write")
    BY <1>8 DEF SyncRead, Goto, store, history, TypeInv, TypeOK, PauseInv
  <1>9. CASE SyncRead(p, "final_read", "final_write")
    BY <1>9, PauseKept DEF SyncRead, store, history, TypeInv, TypeOK
  <1>10. CASE SyncWrite(p, "sync_write", AfterSync(Written(p), cfg[p]))
    <2>. DEFINE l == AfterSync(Written(p), cfg[p])
    <2>1. l \in {"mark_paused", "return", "invoke"} /\ Written(p) \in RunStatus
      BY SyncStatusType DEF AfterSync, Written, TypeInv, TypeOK
    <2>2. ASSUME started[p] # 0 PROVE l # "invoke"
      <3>1. seen[p] = "paused"
        BY <1>10, <2>2 DEF SyncWrite, PauseInv
      <3>2. Written(p) = "paused"
        BY <3>1 DEF Written, SyncStatus
      <3>3. QED
        BY <3>2 DEF AfterSync
    <2>3. Goto(p, l) /\ WriteRow(Written(p)) /\ seen' = seen
      BY <1>10 DEF SyncWrite
    <2>. HIDE DEF l
    <2>4. QED
      BY <2>1, <2>2, <2>3, PauseWritten
  <1>11. CASE SyncWrite(p, "final_write", "return")
    <2>1. Written(p) \in RunStatus
      BY SyncStatusType DEF Written, TypeInv, TypeOK
    <2>2. QED
      BY <1>11, <2>1, PauseWritten DEF SyncWrite
  <1>12. QED
    BY <1>1, <1>2, <1>3, <1>4, <1>5, <1>6, <1>7, <1>8, <1>9, <1>10, <1>11 DEF DriveStep

LEMMA PauseOfRequestStep ==
    ASSUME TypeInv, PauseInv, NEW r \in Requests,
           \/ RequestStep(r) \/ RequestRaises(r) \/ GuardUnread(r)
           \/ \E k \in Ops : Arrive(r, k)
    PROVE  PauseInv'
  <1>. USE DEF PCs, RequestOnly
  <1>0. r \in Procs
    BY DEF Procs
  <1>1. CASE Guard(r)
    <2>1. PICK l \in {"pause_write", "resume_write", "update_read", "off"} : Goto(r, l)
      BY <1>1 DEF Guard, FirstStep
    <2>2. QED
      BY <1>0, <1>1, <2>1, PauseKept DEF Guard, store, history
  <1>2. CASE PauseWrite(r) \/ ResumeWrite(r)
    <2>1. PICK l \in {"off", "update_read"}, s \in {"paused", "running"} :
             Goto(r, l) /\ WriteRow(s) /\ seen' = seen
      BY <1>2 DEF PauseWrite, ResumeWrite
    <2>2. s \in RunStatus
      BY DEF RunStatus
    <2>3. QED
      BY <1>0, <2>1, <2>2, PauseWritten
  <1>3. CASE UpdateRead(r) \/ ScheduleDropped(r)
    BY <1>0, <1>3, PauseKept DEF UpdateRead, ScheduleDropped, store, history
  <1>4. CASE UpdateWrite(r)
    <2>1. PICK l \in {"pause_sync_read", "schedule", "acquire"} : Goto(r, l)
      BY <1>4 DEF UpdateWrite
    <2>2. QED
      BY <1>0, <1>4, <2>1, PauseKept DEF UpdateWrite
  <1>5. CASE SyncRead(r, "pause_sync_read", "pause_sync_write")
    BY <1>0, <1>5, PauseKept DEF SyncRead, store, history, TypeInv, TypeOK
  <1>6. CASE SyncWrite(r, "pause_sync_write", "off")
    <2>1. Written(r) \in RunStatus
      BY <1>0, SyncStatusType DEF Written, TypeInv, TypeOK
    <2>2. QED
      BY <1>0, <1>6, <2>1, PauseWritten DEF SyncWrite
  <1>7. ASSUME NEW t \in Tasks, ScheduleDrive(r, t) PROVE PauseInv'
    BY <1>0, <1>7 DEF ScheduleDrive, TypeInv, TypeOK, PauseInv, store, history, Procs
  <1>8. CASE RequestRaises(r)
    BY <1>0, <1>8, PauseKept DEF RequestRaises, store, history
  <1>9. ASSUME NEW k \in Ops, Arrive(r, k) PROVE PauseInv'
    BY <1>0, <1>9, PauseKept DEF Arrive, store, history, TypeInv, TypeOK
  <1>10. CASE AnnotateRead(r)
    BY <1>0, <1>10, PauseKept DEF AnnotateRead, store, history, TypeInv, TypeOK
  <1>11. CASE AnnotateWrite(r) \/ GuardUnread(r)
    <2>1. PICK l \in {"pause_write", "resume_write", "update_read", "off"} :
             Goto(r, l) /\ WriteRow(seen[r]) /\ seen' = seen
      BY <1>11 DEF AnnotateWrite, GuardUnread, FirstStep
    <2>2. seen[r] \in RunStatus
      BY <1>0 DEF TypeInv, TypeOK
    <2>3. QED
      BY <1>0, <2>1, <2>2, PauseWritten
  <1>12. QED
    BY <1>1, <1>2, <1>3, <1>4, <1>5, <1>6, <1>7, <1>8, <1>9, <1>10, <1>11 DEF RequestStep

LEMMA PauseOfTaskStep ==
    ASSUME TypeInv, PauseInv, NEW t \in Tasks, MarkFailed(t) \/ Cleanup(t) \/ MarkFailedLost(t)
    PROVE  PauseInv'
  <1>1. t \in Procs
    BY DEF Procs
  <1>2. CASE MarkFailed(t)
    BY <1>1, <1>2, PauseWritten DEF MarkFailed, RunStatus, PCs, TaskOnly
  <1>3. CASE Cleanup(t) \/ MarkFailedLost(t)
    BY <1>1, <1>3, PauseKept DEF Cleanup, MarkFailedLost, store, history, PCs, TaskOnly
  <1>4. QED
    BY <1>2, <1>3

LEMMA PauseOfDisturbance ==
    ASSUME TypeInv, PauseInv, Disturbance
    PROVE  PauseInv'
  <1>1. ASSUME NEW p \in Procs, CaptureLost(p) \/ DriveRaises(p) PROVE PauseInv'
    <2>1. PICK l \in {"final_read", "fail_write", "off"} : Goto(p, l)
      BY <1>1 DEF CaptureLost, DriveRaises
    <2>2. QED
      BY <1>1, <2>1, PauseKept
         DEF CaptureLost, DriveRaises, store, history, PCs, DriveHeld, TaskOnly
  <1>2. CASE Crash
    BY <1>2 DEF Crash, PauseInv, store, history
  <1>3. QED
    BY <1>1, <1>2, PauseOfRequestStep, PauseOfTaskStep DEF Disturbance

\* However requests, drives, faults and restarts interleave, a drive starts at most
\* one more node after the row became paused: the pause takes effect at the next
\* checkpoint, as _drive_workflow promises.
THEOREM PauseTakesEffect == Spec => []PauseStopsTheDrive
  <1>1. Init => PauseInv
    BY DEF Init, PauseInv
  <1>2. TypeInv /\ PauseInv /\ [Next]_vars => PauseInv'
    <2>1. PauseInv /\ UNCHANGED vars => PauseInv'
      BY DEF PauseInv, vars
    <2>2. QED
      BY <2>1, PauseOfDriveStep, PauseOfRequestStep, PauseOfTaskStep, PauseOfDisturbance
         DEF Next
  <1>3. PauseInv => PauseStopsTheDrive
    BY DEF PauseInv, PauseStopsTheDrive
  <1>4. QED
    BY <1>1, <1>2, <1>3, TypeInvariant, PTL DEF Spec

-----------------------------------------------------------------------------
(* Acceptance.  While nobody has accepted an outline, no checkpoint any process *)
(* can start from lies past the outline gate or would pass it, and no answer to *)
(* the later gate has passed its guard.                                         *)

EarlyNodes == {"parse_intent", "clarify_intent", "retrieve_knowledge", "generate_outline",
               "approve_outline"}

Unapproved(v) == ~v.outline_approved /\ v.user_decision # "accept" /\ ~v.awaiting_fact_check

Unaccepted(c) == c.at \in EarlyNodes \cup {NoThread, Entry} /\ Unapproved(c.vals)

StoreUnaccepted == Unaccepted(ckpt) /\ \A p \in Procs : Unaccepted(cfg[p])

PastGuard == {"pause_write", "resume_write", "update_read", "update_write"}

NoFactAnswer ==
    \A r \in Requests : pc[r] \in PastGuard => op[r] \notin FactOps

Waiting == plan.outline_gate /\ ~accepted

AcceptInv == Waiting => StoreUnaccepted /\ NoFactAnswer

LEMMA EarlyNext ==
    ASSUME NEW pl \in Plan, pl.outline_gate, NEW c \in Checkpoint, Unaccepted(c)
    PROVE  NextNode(pl, c) \in EarlyNodes \cup {End}
  BY DEF Plan, Checkpoint, GraphState, Unaccepted, Unapproved, EarlyNodes, NextNode,
         AfterParseIntent, AfterOutline, Entry, NoThread, End

LEMMA EarlyOutcome ==
    ASSUME NEW pl \in Plan, pl.outline_gate, NEW v \in GraphState, Unapproved(v),
           NEW n \in EarlyNodes, NEW w \in NodeOutcomes(pl, n, v)
    PROVE  Unapproved(w)
  <1>. USE DEF NodeOutcomes, Unapproved, GraphState
  <1>1. CASE n = "parse_intent"
    BY <1>1 DEF ParseIntent
  <1>2. CASE n = "clarify_intent"
    BY <1>2 DEF ClarifyIntent
  <1>3. CASE n = "retrieve_knowledge"
    BY <1>3
  <1>4. CASE n = "generate_outline"
    BY <1>4 DEF GenerateOutline
  <1>5. CASE n = "approve_outline"
    BY <1>5 DEF ApproveOutline
  <1>6. QED
    BY <1>1, <1>2, <1>3, <1>4, <1>5 DEF EarlyNodes

LEMMA EmptyUnaccepted == Unaccepted(NoCheckpoint) /\ Unaccepted(InputCheckpoint)
  BY DEF Unaccepted, Unapproved, NoCheckpoint, InputCheckpoint, EmptyState

LEMMA UpdateUnaccepted ==
    ASSUME NEW k \in AllOps \ (FactOps \cup {"accept_outline"}), NEW c \in Checkpoint, Unaccepted(c)
    PROVE  Unaccepted(Update(k, c))
  <1>. DEFINE at == IF c.at = NoThread THEN Entry ELSE c.at
  <1>1. at \in EarlyNodes \cup {NoThread, Entry} /\ c.vals \in GraphState /\ Unapproved(c.vals)
    BY DEF Checkpoint, Unaccepted
  <1>2. CASE k \in {"pause", "resume"}
    <2>1. \A b \in BOOLEAN : Unapproved([c.vals EXCEPT !.is_paused = b])
      BY <1>1 DEF GraphState, Unapproved
    <2>2. \E b \in BOOLEAN : Update(k, c) = [at |-> at, vals |-> [c.vals EXCEPT !.is_paused = b]]
      BY <1>2 DEF Update, OutlineOps, FactOps
    <2>3. QED
      BY <1>1, <2>1, <2>2 DEF Unaccepted
  <1>3. CASE k = "clarify"
    <2>1. Update(k, c) = [c EXCEPT !.at = at]
      BY <1>3 DEF Update, OutlineOps, FactOps
    <2>2. QED
      BY <1>1, <2>1 DEF Unaccepted, Checkpoint
  <1>4. CASE k = "regenerate_outline"
    <2>. DEFINE new == [c.vals EXCEPT !.awaiting_outline = FALSE, !.user_decision = "regenerate"]
    <2>1. Unapproved(new)
      BY <1>1 DEF GraphState, Unapproved
    <2>2. Update(k, c) = [at |-> "generate_outline", vals |-> new]
      BY <1>4 DEF Update, OutlineOps, FactOps
    <2>. HIDE DEF new
    <2>3. QED
      BY <2>1, <2>2 DEF Unaccepted, EarlyNodes
  <1>5. QED
    BY <1>2, <1>3, <1>4 DEF AllOps, GateOps, FactOps

LEMMA FailedUnaccepted ==
    ASSUME TypeInv, StoreUnaccepted, NEW p \in Procs
    PROVE  /\ Unaccepted(Failed(p))
           /\ Unaccepted([cfg[p] EXCEPT !.vals.is_paused = TRUE])
  <1>1. ASSUME NEW c \in Checkpoint, Unaccepted(c)
        PROVE  /\ Unaccepted([c EXCEPT !.vals.error = TRUE])
               /\ Unaccepted([c EXCEPT !.vals.is_paused = TRUE])
    BY <1>1 DEF Checkpoint, GraphState, Unaccepted, Unapproved
  <1>. DEFINE c == IF cfg[p].at = NoThread THEN ckpt ELSE cfg[p]
  <1>2. c \in Checkpoint /\ Unaccepted(c) /\ cfg[p] \in Checkpoint /\ Unaccepted(cfg[p])
    BY DEF StoreUnaccepted, TypeInv, TypeOK
  <1>3. Failed(p) = [c EXCEPT !.vals.error = TRUE]
    BY DEF Failed
  <1>. HIDE DEF c
  <1>4. QED
    BY <1>1, <1>2, <1>3

\* A step of p that keeps the checkpoints unaccepted and does not carry a fact answer
\* past its guard.
LEMMA AcceptKept ==
    ASSUME TypeInv, AcceptInv, NEW p \in Procs, NEW l \in PCs, Goto(p, l), op' = op,
           plan' = plan, accepted' = accepted,
           Waiting => StoreUnaccepted',
           Waiting /\ p \in Requests /\ l \in PastGuard
              => op[p] \notin FactOps
    PROVE  AcceptInv'
  BY DEF TypeInv, TypeOK, AcceptInv, Waiting, NoFactAnswer, Goto, Procs

LEMMA RunningEarly ==
    ASSUME TypeInv, StoreUnaccepted, plan.outline_gate, NEW p \in Procs
    PROVE  Base(p) \in Checkpoint /\ Unaccepted(Base(p)) /\ Running(p) \in EarlyNodes \cup {End}
  <1>1. Base(p) \in Checkpoint /\ Unaccepted(Base(p))
    BY BaseType, EmptyUnaccepted DEF StoreUnaccepted, Base
  <1>2. QED
    BY <1>1, EarlyNext DEF Running, TypeInv, TypeOK

LEMMA AcceptOfDriveStep ==
    ASSUME TypeInv, AcceptInv, NEW p \in Procs, DriveStep(p)
    PROVE  AcceptInv'
  <1>. USE DEF PCs, DriveHeld, TaskOnly, PastGuard
  <1>1. CASE Acquire(p)
    BY <1>1, AcceptKept DEF Acquire, store, AcceptInv, StoreUnaccepted
  <1>2. CASE Invoke(p)
    <2>1. PICK l \in {"snapshot", "node"} : Goto(p, l)
      BY <1>2 DEF Invoke
    <2>2. Waiting => StoreUnaccepted'
      BY <1>2, EmptyUnaccepted DEF Invoke, AcceptInv, StoreUnaccepted
    <2>3. QED
      BY <1>2, <2>1, <2>2, AcceptKept DEF Invoke
  <1>3. CASE NodeReadsRow(p) \/ NodeWritesRow(p) \/ NodeFinalizes(p) \/ NodeKeepsRow(p)
    BY <1>3, AcceptKept
       DEF NodeReadsRow, NodeWritesRow, NodeFinalizes, NodeKeepsRow, store, history,
           AcceptInv, StoreUnaccepted
  <1>4. CASE NodeEnds(p)
    <2>1. ASSUME Waiting PROVE StoreUnaccepted'
      <3>1. PICK v \in NodeOutcomes(plan, Running(p), Base(p).vals) :
               ckpt' = [at |-> Running(p), vals |-> v]
        BY <1>4 DEF NodeEnds
      <3>2. /\ StoreUnaccepted /\ plan.outline_gate /\ plan \in Plan
            /\ Running(p) # End
        BY <1>4, <2>1 DEF AcceptInv, Waiting, TypeInv, TypeOK, NodeChosen, NodeEnds, Executing
      <3>3. /\ Running(p) \in EarlyNodes
            /\ Base(p).vals \in GraphState /\ Unapproved(Base(p).vals)
        BY <3>2, RunningEarly DEF Unaccepted, Checkpoint
      <3>4. Unapproved(v)
        BY <3>1, <3>2, <3>3, EarlyOutcome
      <3>5. QED
        BY <1>4, <3>1, <3>2, <3>3, <3>4 DEF NodeEnds, StoreUnaccepted, Unaccepted
    <2>2. QED
      BY <1>4, <2>1, AcceptKept DEF NodeEnds, history
  <1>5. CASE NodeFails(p)
    BY <1>5, AcceptKept DEF NodeFails, store, history, AcceptInv, StoreUnaccepted
  <1>6. CASE Capture(p) \/ Snapshot(p) \/ MarkPaused(p)
    <2>1. PICK l \in {"final_read", "sync_read"} : Goto(p, l)
      BY <1>6 DEF Capture, Snapshot, MarkPaused
    <2>2. ASSUME Waiting PROVE StoreUnaccepted'
      <3>1. StoreUnaccepted
        BY <2>2 DEF AcceptInv
      <3>2. Unaccepted(ckpt') /\ Unaccepted(cfg'[p])
        BY <1>6, <3>1, FailedUnaccepted, ZenonT(90)
           DEF Capture, Snapshot, MarkPaused, store, StoreUnaccepted, TypeInv, TypeOK
      <3>3. \A q \in Procs \ {p} : cfg'[q] = cfg[q]
        BY <1>6 DEF Capture, Snapshot, MarkPaused, TypeInv, TypeOK
      <3>4. QED
        BY <3>1, <3>2, <3>3 DEF StoreUnaccepted
    <2>3. QED
      BY <1>6, <2>1, <2>2, AcceptKept DEF Capture, Snapshot, MarkPaused, store, history
  <1>7. CASE SyncRead(p, "sync_read", "sync_write") \/ SyncRead(p, "final_read", "final_write")
    BY <1>7, AcceptKept DEF SyncRead, store, history, AcceptInv, StoreUnaccepted
  <1>8. CASE \/ SyncWrite(p, "sync_write", AfterSync(Written(p), cfg[p]))
             \/ SyncWrite(p, "final_write", "return")
    <2>1. AfterSync(Written(p), cfg[p]) \in {"mark_paused", "return", "invoke"}
      BY DEF AfterSync
    <2>2. QED
      BY <1>8, <2>1, AcceptKept DEF SyncWrite, AcceptInv, StoreUnaccepted
  <1>9. CASE Return(p)
    <2>1. PICK l \in {"done", "off"} : Goto(p, l)
      BY <1>9 DEF Return
    <2>2. QED
      BY <1>9, <2>1, AcceptKept DEF Return, store, history, AcceptInv, StoreUnaccepted
  <1>10. QED
    BY <1>1, <1>2, <1>3, <1>4, <1>5, <1>6, <1>7, <1>8, <1>9 DEF DriveStep

LEMMA AcceptOfRequestStep ==
    ASSUME TypeInv, AcceptInv, NEW r \in Requests,
           \/ RequestStep(r) \/ RequestRaises(r) \/ GuardUnread(r)
           \/ \E k \in Ops : Arrive(r, k)
    PROVE  AcceptInv'
  <1>. USE DEF PCs, RequestOnly, PastGuard
  <1>0. r \in Procs
    BY DEF Procs
  <1>1. CASE Guard(r)
    <2>. DEFINE l == IF Admitted(op[r], PublicStatus(seen[r], ckpt), seen[r])
                     THEN FirstStep(op[r]) ELSE "off"
    <2>1. l \in {"pause_write", "resume_write", "update_read", "off"}
      BY DEF FirstStep
    <2>2. ASSUME Waiting, op[r] \in FactOps PROVE l = "off"
      <3>1. ~ckpt.vals.awaiting_fact_check
        BY <2>2 DEF AcceptInv, StoreUnaccepted, Unaccepted, Unapproved
      <3>2. GraphStatus(ckpt.vals) # "awaiting_fact_check_approval"
        BY <3>1 DEF GraphStatus
      <3>3. PublicStatus(seen[r], ckpt) # "awaiting_fact_check_approval"
        BY <1>0, <3>2 DEF PublicStatus, TypeInv, TypeOK, RunStatus
      <3>4. QED
        BY <2>2, <3>3 DEF Admitted, FactOps, OutlineOps
    <2>3. Goto(r, l)
      BY <1>1 DEF Guard
    <2>. HIDE DEF l
    <2>4. QED
      BY <1>0, <1>1, <2>1, <2>2, <2>3, AcceptKept
         DEF Guard, store, history, AcceptInv, StoreUnaccepted
  <1>2. CASE PauseWrite(r) \/ ResumeWrite(r)
    <2>1. PICK l \in {"off", "update_read"} : Goto(r, l)
      BY <1>2 DEF PauseWrite, ResumeWrite
    <2>2. Waiting => op[r] \notin FactOps
      BY <1>2 DEF PauseWrite, ResumeWrite, AcceptInv, NoFactAnswer
    <2>3. QED
      BY <1>0, <1>2, <2>1, <2>2, AcceptKept
         DEF PauseWrite, ResumeWrite, AcceptInv, StoreUnaccepted
  <1>3. CASE UpdateRead(r)
    BY <1>0, <1>3, AcceptKept
       DEF UpdateRead, store, history, AcceptInv, StoreUnaccepted, NoFactAnswer, TypeInv, TypeOK
  <1>4. CASE UpdateWrite(r)
    <2>1. PICK l \in {"pause_sync_read", "schedule", "acquire"} : Goto(r, l)
      BY <1>4 DEF UpdateWrite
    <2>2. ASSUME Waiting' PROVE Waiting /\ op[r] # "accept_outline"
      BY <1>4, <2>2 DEF UpdateWrite, Waiting
    <2>3. ASSUME Waiting' PROVE StoreUnaccepted' /\ NoFactAnswer'
      <3>1. StoreUnaccepted /\ NoFactAnswer
        BY <2>2, <2>3 DEF AcceptInv
      <3>2. op[r] \in AllOps \ (FactOps \cup {"accept_outline"})
        BY <1>0, <1>4, <2>2, <2>3, <3>1
           DEF UpdateWrite, NoFactAnswer, TypeInv, OpsKnown, OffDuty
      <3>3. Unaccepted(Update(op[r], cfg[r]))
        BY <1>0, <3>1, <3>2, UpdateUnaccepted DEF StoreUnaccepted, TypeInv, TypeOK
      <3>4. StoreUnaccepted'
        BY <1>0, <1>4, <3>1, <3>3 DEF UpdateWrite, StoreUnaccepted, TypeInv, TypeOK
      <3>5. NoFactAnswer'
        BY <1>0, <1>4, <2>1, <3>1 DEF UpdateWrite, Goto, NoFactAnswer, TypeInv, TypeOK, Procs
      <3>6. QED
        BY <3>4, <3>5
    <2>4. QED
      BY <2>3 DEF AcceptInv
  <1>5. CASE \/ SyncRead(r, "pause_sync_read", "pause_sync_write")
             \/ SyncWrite(r, "pause_sync_write", "off") \/ ScheduleDropped(r)
    BY <1>0, <1>5, AcceptKept
       DEF SyncRead, SyncWrite, ScheduleDropped, store, history, AcceptInv, StoreUnaccepted
  <1>6. ASSUME NEW t \in Tasks, ScheduleDrive(r, t) PROVE AcceptInv'
    BY <1>0, <1>6 DEF ScheduleDrive, TypeInv, TypeOK, AcceptInv, Waiting, StoreUnaccepted,
                      NoFactAnswer, store, history, PastGuard, Procs
  <1>7. CASE RequestRaises(r)
    BY <1>0, <1>7, AcceptKept DEF RequestRaises, store, history, AcceptInv, StoreUnaccepted
  <1>8. ASSUME NEW k \in Ops, Arrive(r, k) PROVE AcceptInv'
    <2>1. \A q \in Requests : pc'[q] \in PastGuard =>
             pc'[q] = pc[q] /\ op'[q] = op[q]
      BY <1>0, <1>8 DEF Arrive, Goto, TypeInv, TypeOK, Procs
    <2>2. QED
      BY <1>8, <2>1
         DEF Arrive, AcceptInv, Waiting, StoreUnaccepted, NoFactAnswer, store, history
  <1>9. CASE AnnotateRead(r) \/ AnnotateWrite(r)
    BY <1>0, <1>9, AcceptKept
       DEF AnnotateRead, AnnotateWrite, store, history, AcceptInv, StoreUnaccepted
  <1>10. CASE GuardUnread(r)
    <2>. DEFINE l == IF Admitted(op[r], "failed", seen[r]) THEN FirstStep(op[r]) ELSE "off"
    <2>1. l \in {"pause_write", "resume_write", "update_read", "off"}
      BY DEF FirstStep
    <2>2. ASSUME op[r] \in FactOps PROVE l = "off"
      <3>1. op[r] # "pause" /\ op[r] # "resume" /\ op[r] # "clarify" /\ op[r] \notin OutlineOps
        BY <2>2 DEF FactOps, OutlineOps
      <3>2. ~ Admitted(op[r], "failed", seen[r])
        BY <2>2, <3>1 DEF Admitted
      <3>3. QED
        BY <3>2
    <2>3. Goto(r, l)
      BY <1>10 DEF GuardUnread
    <2>. HIDE DEF l
    <2>4. /\ op' = op /\ plan' = plan /\ accepted' = accepted
          /\ Waiting => StoreUnaccepted'
      BY <1>10 DEF GuardUnread, AcceptInv, StoreUnaccepted
    <2>5. QED
      BY <1>0, <2>1, <2>2, <2>3, <2>4, AcceptKept
  <1>11. QED
    BY <1>1, <1>2, <1>3, <1>4, <1>5, <1>6, <1>7, <1>8, <1>9, <1>10 DEF RequestStep

LEMMA AcceptOfTaskStep ==
    ASSUME TypeInv, AcceptInv, NEW t \in Tasks, MarkFailed(t) \/ Cleanup(t) \/ MarkFailedLost(t)
    PROVE  AcceptInv'
  <1>1. t \in Procs
    BY DEF Procs
  <1>2. QED
    BY <1>1, AcceptKept
       DEF MarkFailed, Cleanup, MarkFailedLost, store, history, PCs, TaskOnly,
           AcceptInv, StoreUnaccepted, PastGuard

LEMMA AcceptOfDisturbance ==
    ASSUME TypeInv, AcceptInv, Disturbance
    PROVE  AcceptInv'
  <1>1. ASSUME NEW p \in Procs, CaptureLost(p) PROVE AcceptInv'
    <2>1. Waiting => StoreUnaccepted'
      BY <1>1, FailedUnaccepted
         DEF CaptureLost, store, AcceptInv, StoreUnaccepted, TypeInv, TypeOK
    <2>2. QED
      BY <1>1, <2>1, AcceptKept DEF CaptureLost, history, PCs, DriveHeld, PastGuard
  <1>2. ASSUME NEW p \in Procs, DriveRaises(p) PROVE AcceptInv'
    <2>1. PICK l \in {"fail_write", "off"} : Goto(p, l)
      BY <1>2 DEF DriveRaises
    <2>2. QED
      BY <1>2, <2>1, AcceptKept
         DEF DriveRaises, store, history, PCs, TaskOnly, PastGuard, AcceptInv, StoreUnaccepted
  <1>3. CASE Crash
    BY <1>3 DEF Crash, AcceptInv, Waiting, StoreUnaccepted, NoFactAnswer, store, history, PastGuard, Procs
  <1>4. QED
    BY <1>1, <1>2, <1>3, AcceptOfRequestStep, AcceptOfTaskStep DEF Disturbance

\* In a run whose plan has an outline gate no node past the gate executes before an
\* acceptance was written, for any number of answers that cross each other, of pauses,
\* failures and restarts.
THEOREM AcceptanceFirst == Spec => []ContentOnlyAfterAcceptance
  <1>1. Init => AcceptInv
    BY ConstantsAssumption, EmptyUnaccepted
       DEF Init, AcceptInv, StoreUnaccepted, NoFactAnswer, PastGuard, Procs
  <1>2. TypeInv /\ AcceptInv /\ [Next]_vars => AcceptInv'
    <2>1. AcceptInv /\ UNCHANGED vars => AcceptInv'
      BY DEF AcceptInv, Waiting, StoreUnaccepted, NoFactAnswer, vars
    <2>2. QED
      BY <2>1, AcceptOfDriveStep, AcceptOfRequestStep, AcceptOfTaskStep, AcceptOfDisturbance
         DEF Next
  <1>3. TypeInv /\ AcceptInv => ContentOnlyAfterAcceptance
    <2>. SUFFICES ASSUME TypeInv, AcceptInv, Waiting, NEW p \in Procs, Executing(p)
                  PROVE  Running(p) \notin GatedNodes
      BY DEF ContentOnlyAfterAcceptance, Waiting
    <2>1. Running(p) \in EarlyNodes \cup {End}
      BY RunningEarly DEF AcceptInv, Waiting
    <2>2. QED
      BY <2>1 DEF EarlyNodes, GatedNodes, End
  <1>4. QED
    BY <1>1, <1>2, <1>3, TypeInvariant, PTL DEF Spec

-----------------------------------------------------------------------------
(* The inputs of nodes.  What the routers do not test themselves is that there is *)
(* an outline to refine against and, for its sections, a draft: every checkpoint  *)
(* written as generate_content must have both, also after a failure, a pause or   *)
(* an answer was recorded on it.                                                  *)

DraftOf(v) == v.outline /\ (v.sections => v.draft)

Drafted(c) == c.at = "generate_content" => DraftOf(c.vals)

StoreDrafted == Drafted(ckpt) /\ \A p \in Procs : Drafted(cfg[p])

LEMMA DraftedIsEnough ==
    ASSUME NEW pl \in Plan, NEW c \in Checkpoint, Drafted(c)
    PROVE  Needs(NextNode(pl, c), c.vals)
  BY DEF Plan, Checkpoint, GraphState, Drafted, DraftOf, NextNode, Needs, AfterParseIntent,
         AfterOutline, AfterRefine, AfterContent, AfterFactCheck, Entry, End, NoThread

LEMMA EmptyDrafted == Drafted(NoCheckpoint) /\ Drafted(InputCheckpoint)
  BY DEF Drafted, NoCheckpoint, InputCheckpoint, NoThread, Entry

LEMMA OutcomeDrafted ==
    ASSUME NEW pl \in Plan, NEW v \in GraphState, NEW n \in Nodes,
           NEW w \in NodeOutcomes(pl, n, v), Needs(n, v)
    PROVE  Drafted([at |-> n, vals |-> w])
  <1>1. CASE n = "generate_content"
    <2>1. v.outline /\ w = [v EXCEPT !.draft = v.sections]
      BY <1>1 DEF NodeOutcomes, GenerateContent, Needs
    <2>2. w.outline /\ w.sections = v.sections /\ w.draft = v.sections
      BY <2>1, Zenon DEF GraphState
    <2>3. QED
      BY <2>2 DEF Drafted, DraftOf
  <1>2. QED
    BY <1>1 DEF Drafted

LEMMA UpdateDrafted ==
    ASSUME NEW k \in AllOps, NEW c \in Checkpoint, Drafted(c)
    PROVE  Drafted(Update(k, c))
  <1>. DEFINE at == IF c.at = NoThread THEN Entry ELSE c.at
  <1>1. c.vals \in GraphState /\ (at = "generate_content" => DraftOf(c.vals))
    BY DEF Checkpoint, Drafted, Entry
  <1>2. CASE k \in {"pause", "resume"}
    <2>1. \A b \in BOOLEAN : DraftOf(c.vals) => DraftOf([c.vals EXCEPT !.is_paused = b])
      BY <1>1 DEF GraphState, DraftOf
    <2>2. \E b \in BOOLEAN : Update(k, c) = [at |-> at, vals |-> [c.vals EXCEPT !.is_paused = b]]
      BY <1>2 DEF Update, OutlineOps, FactOps
    <2>. HIDE DEF at
    <2>3. PICK w : Update(k, c) = [at |-> at, vals |-> w] /\ (DraftOf(c.vals) => DraftOf(w))
      BY <2>1, <2>2
    <2>4. /\ Update(k, c).at = at
          /\ DraftOf(c.vals) => DraftOf(Update(k, c).vals)
      BY <2>3
    <2>5. QED
      BY <1>1, <2>4 DEF Drafted
  <1>3. CASE k = "clarify"
    <2>1. Update(k, c) = [c EXCEPT !.at = at]
      BY <1>3 DEF Update, OutlineOps, FactOps
    <2>2. QED
      BY <1>1, <2>1 DEF Drafted, Checkpoint
  <1>4. CASE k \in OutlineOps \cup FactOps
    <2>1. Update(k, c).at \in {"generate_outline", "check_facts"}
      BY <1>4 DEF Update, OutlineOps, FactOps
    <2>2. QED
      BY <2>1 DEF Drafted
  <1>5. QED
    BY <1>2, <1>3, <1>4 DEF AllOps, GateOps, OutlineOps, FactOps

LEMMA MarkedDrafted ==
    ASSUME TypeInv, StoreDrafted, NEW p \in Procs
    PROVE  /\ Drafted(Failed(p))
           /\ Drafted([cfg[p] EXCEPT !.vals.is_paused = TRUE])
  <1>1. ASSUME NEW c \in Checkpoint, Drafted(c)
        PROVE  /\ Drafted([c EXCEPT !.vals.error = TRUE])
               /\ Drafted([c EXCEPT !.vals.is_paused = TRUE])
    BY <1>1 DEF Checkpoint, GraphState, Drafted, DraftOf
  <1>. DEFINE c == IF cfg[p].at = NoThread THEN ckpt ELSE cfg[p]
  <1>2. c \in Checkpoint /\ Drafted(c) /\ cfg[p] \in Checkpoint /\ Drafted(cfg[p])
    BY DEF StoreDrafted, TypeInv, TypeOK
  <1>3. Failed(p) = [c EXCEPT !.vals.error = TRUE]
    BY DEF Failed
  <1>. HIDE DEF c
  <1>4. QED
    BY <1>1, <1>2, <1>3

\* A step that changes at most the checkpoint of the thread and the one p carries.
LEMMA DraftedKept ==
    ASSUME TypeInv, StoreDrafted, NEW p \in Procs,
           Drafted(ckpt'), Drafted(cfg'[p]), \A q \in Procs \ {p} : cfg'[q] = cfg[q]
    PROVE  StoreDrafted'
  BY DEF StoreDrafted

LEMMA DraftedOfDriveStep ==
    ASSUME TypeInv, StoreDrafted, NEW p \in Procs, DriveStep(p) \/ CaptureLost(p)
    PROVE  StoreDrafted'
  <1>1. CASE Invoke(p)
    BY <1>1, EmptyDrafted DEF Invoke, StoreDrafted
  <1>2. CASE NodeEnds(p)
    <2>1. PICK v \in NodeOutcomes(plan, Running(p), Base(p).vals) :
             ckpt' = [at |-> Running(p), vals |-> v]
      BY <1>2 DEF NodeEnds
    <2>2. plan \in Plan /\ Running(p) \in Nodes /\ Base(p).vals \in GraphState
      BY <1>2, BaseType DEF NodeEnds, TypeInv, TypeOK, NodeChosen, Executing, Checkpoint
    <2>3. Needs(Running(p), Base(p).vals)
      <3>1. Base(p) \in Checkpoint /\ Drafted(Base(p))
        BY BaseType, EmptyDrafted DEF Base, StoreDrafted
      <3>2. QED
        BY <2>2, <3>1, DraftedIsEnough DEF Running
    <2>4. Drafted(ckpt')
      BY <2>1, <2>2, <2>3, OutcomeDrafted
    <2>5. QED
      BY <1>2, <2>4 DEF NodeEnds, StoreDrafted
  <1>3. CASE Capture(p) \/ Snapshot(p) \/ MarkPaused(p) \/ CaptureLost(p)
    <2>1. Drafted(ckpt') /\ Drafted(cfg'[p])
      BY <1>3, MarkedDrafted
         DEF Capture, Snapshot, MarkPaused, CaptureLost, store, StoreDrafted, TypeInv, TypeOK
    <2>2. \A q \in Procs \ {p} : cfg'[q] = cfg[q]
      BY <1>3 DEF Capture, Snapshot, MarkPaused, CaptureLost, TypeInv, TypeOK
    <2>3. QED
      BY <2>1, <2>2, DraftedKept
  <1>4. CASE \/ Acquire(p) \/ NodeReadsRow(p) \/ NodeWritesRow(p) \/ NodeFinalizes(p)
             \/ NodeKeepsRow(p) \/ NodeFails(p) \/ Return(p)
             \/ SyncRead(p, "sync_read", "sync_write")
             \/ SyncWrite(p, "sync_write", AfterSync(Written(p), cfg[p]))
             \/ SyncRead(p, "final_read", "final_write")
             \/ SyncWrite(p, "final_write", "return")
    <2>1. ckpt' = ckpt /\ cfg' = cfg
      BY <1>4 DEF Acquire, NodeReadsRow, NodeWritesRow, NodeFinalizes, NodeKeepsRow,
                  NodeFails, Return, SyncRead, SyncWrite, store
    <2>2. QED
      BY <2>1 DEF StoreDrafted
  <1>5. QED
    BY <1>1, <1>2, <1>3, <1>4 DEF DriveStep

LEMMA DraftedOfRequestStep ==
    ASSUME TypeInv, StoreDrafted, NEW r \in Requests,
           \/ RequestStep(r) \/ RequestRaises(r) \/ GuardUnread(r)
           \/ \E k \in Ops : Arrive(r, k)
    PROVE  StoreDrafted'
  <1>0. r \in Procs
    BY DEF Procs
  <1>1. CASE UpdateRead(r) \/ UpdateWrite(r)
    <2>1. op[r] \in AllOps /\ cfg[r] \in Checkpoint
      BY <1>0, <1>1 DEF UpdateRead, UpdateWrite, TypeInv, TypeOK, OpsKnown, OffDuty
    <2>2. Drafted(Update(op[r], cfg[r]))
      BY <1>0, <2>1, UpdateDrafted DEF StoreDrafted
    <2>3. Drafted(ckpt') /\ Drafted(cfg'[r])
      BY <1>0, <1>1, <2>2 DEF UpdateRead, UpdateWrite, store, StoreDrafted, TypeInv, TypeOK
    <2>4. \A q \in Procs \ {r} : cfg'[q] = cfg[q]
      BY <1>1 DEF UpdateRead, UpdateWrite, TypeInv, TypeOK
    <2>5. QED
      BY <1>0, <2>3, <2>4, DraftedKept
  <1>2. ASSUME NEW t \in Tasks, ScheduleDrive(r, t) PROVE StoreDrafted'
    BY <1>0, <1>2 DEF ScheduleDrive, store, StoreDrafted, TypeInv, TypeOK
  <1>3. CASE \/ Guard(r) \/ PauseWrite(r) \/ ResumeWrite(r) \/ ScheduleDropped(r)
             \/ SyncRead(r, "pause_sync_read", "pause_sync_write")
             \/ SyncWrite(r, "pause_sync_write", "off") \/ RequestRaises(r)
             \/ AnnotateRead(r) \/ AnnotateWrite(r) \/ GuardUnread(r)
             \/ \E k \in Ops : Arrive(r, k)
    <2>1. ckpt' = ckpt /\ cfg' = cfg
      BY <1>3 DEF Guard, PauseWrite, ResumeWrite, ScheduleDropped, SyncRead, SyncWrite,
                  RequestRaises, AnnotateRead, AnnotateWrite, GuardUnread, Arrive, store
    <2>2. QED
      BY <2>1 DEF StoreDrafted
  <1>4. QED
    BY <1>1, <1>2, <1>3 DEF RequestStep

\* No crossing of answers, pauses, failures and restarts leaves a checkpoint from
\* which the graph would enter a node without the state that node takes for granted.
THEOREM InputsAlwaysPresent == Spec => []NodeInputsPresent
  <1>1. Init => StoreDrafted
    BY EmptyDrafted DEF Init, StoreDrafted
  <1>2. TypeInv /\ StoreDrafted /\ [Next]_vars => StoreDrafted'
    <2>1. CASE \/ UNCHANGED vars \/ Crash
               \/ \E t \in Tasks : MarkFailed(t) \/ Cleanup(t) \/ MarkFailedLost(t)
               \/ \E p \in Procs : DriveRaises(p)
      <3>1. ckpt' = ckpt /\ cfg' = cfg
        BY <2>1 DEF vars, Crash, MarkFailed, Cleanup, MarkFailedLost, DriveRaises, store
      <3>2. StoreDrafted => StoreDrafted'
        BY <3>1 DEF StoreDrafted
      <3>3. QED
        BY <3>2
    <2>2. QED
      BY <2>1, DraftedOfDriveStep, DraftedOfRequestStep DEF Next, Disturbance
  <1>3. TypeInv /\ StoreDrafted => NodeInputsPresent
    BY DraftedIsEnough DEF TypeInv, TypeOK, StoreDrafted, NodeInputsPresent
  <1>4. QED
    BY <1>1, <1>2, <1>3, TypeInvariant, PTL DEF Spec

-----------------------------------------------------------------------------
(* WorkflowRuntime implements ReviewedRun, for every choice of its constants.  *)
(* Only Invoke begins a piece of work, only the end of its node, a failure of  *)
(* its node or a restart stops it, and every other step leaves it alone.       *)

AtNode == {"node", "gate_write", "node_end"}

\* What the steps are taken from and lead to.
RunInv == TypeInv /\ LockOwned /\ ContentOnlyAfterAcceptance

Kept == UNCHANGED <<plan.outline_gate, accepted, Doing>>

-----------------------------------------------------------------------------
(* The refinement mapping. *)

LEMMA Exclusive ==
    ASSUME LockOwned, NEW p \in Procs, NEW q \in Procs, Executing(p), Executing(q)
    PROVE  p = q
  BY DEF LockOwned, Executing, Holding, DriveHeld

LEMMA DoingIs ==
    ASSUME LockOwned, NEW p \in Procs, Executing(p)
    PROVE  Doing = Running(p)
  <1>1. (CHOOSE q \in Procs : Executing(q)) = p
    BY Exclusive
  <1>2. QED
    BY <1>1 DEF Doing

\* The process that executes a node, if there is one, goes on executing it.
LEMMA DoingKept ==
    ASSUME LockOwned, LockOwned', plan' = plan,
           \A q \in Procs : Executing(q)' <=> Executing(q),
           \A q \in Procs : Executing(q) => cfg'[q] = cfg[q]
    PROVE  Doing' = Doing
  <1>1. CASE \E q \in Procs : Executing(q)
    <2>1. PICK q \in Procs : Executing(q)
      BY <1>1
    <2>2. Doing = Running(q)
      BY <2>1, DoingIs
    <2>3. Executing(q)'
      BY <2>1
    <2>4. (Doing = Running(q))'
      <3>1. (CHOOSE s \in Procs : Executing(s)')= q
        BY <2>3 DEF LockOwned, Executing, Holding, DriveHeld
      <3>2. QED
        BY <2>3, <3>1 DEF Doing
    <2>5. Running(q)' = Running(q)
      BY <2>1 DEF Running, Base
    <2>6. QED
      BY <2>2, <2>4, <2>5
  <1>2. CASE ~ \E q \in Procs : Executing(q)
    BY <1>2 DEF Doing
  <1>3. QED
    BY <1>1, <1>2

\* A step of p that neither enters nor leaves a node.
LEMMA StepKeepsDoing ==
    ASSUME RunInv, RunInv', NEW p \in Procs, NEW l \in PCs, Goto(p, l),
           pc[p] \in AtNode <=> l \in AtNode,
           plan' = plan, accepted' = accepted,
           \A q \in Procs : Executing(q) => cfg'[q] = cfg[q]
    PROVE  Kept
  <1>1. \A q \in Procs : Executing(q)' <=> Executing(q)
    BY DEF Goto, Executing, AtNode, RunInv, TypeInv, TypeOK
  <1>2. QED
    BY <1>1, DoingKept DEF RunInv, Kept

\* p leaves its node, and no other process executes one.
LEMMA StepStops ==
    ASSUME RunInv, NEW p \in Procs, Executing(p), \A q \in Procs : Executing(q)' => q # p /\ Executing(q),
           plan' = plan, accepted' = accepted
    PROVE  Review!Stop
  <1>1. Doing # End
    BY DoingIs DEF RunInv, TypeInv, NodeChosen
  <1>2. \A q \in Procs : ~ Executing(q)'
    BY Exclusive DEF RunInv
  <1>3. Doing' = End
    BY <1>2 DEF Doing
  <1>4. QED
    BY <1>1, <1>3 DEF Review!Stop

-----------------------------------------------------------------------------
(* The steps. *)

LEMMA InvokeBegins ==
    ASSUME RunInv, RunInv', NEW p \in Procs, Invoke(p)
    PROVE  Kept \/ \E n \in Nodes : Review!Begin(n)
  <1>. USE DEF PCs, DriveHeld, AtNode
  <1>1. CASE Running(p) = End
    <2>1. Goto(p, "snapshot")
      BY <1>1 DEF Invoke
    <2>2. QED
      BY <2>1, StepKeepsDoing DEF Invoke
  <1>2. CASE Running(p) # End
    <2>1. Goto(p, "node") /\ pc'[p] = "node"
      BY <1>2 DEF Invoke, Goto, RunInv, TypeInv, TypeOK
    <2>2. \A q \in Procs : ~ Executing(q)
      BY DEF Invoke, RunInv, LockOwned, Holding, Executing
    <2>3. Doing = End
      BY <2>2 DEF Doing
    <2>4. Executing(p)'
      BY <2>1 DEF Executing
    <2>5. Running(p)' = Running(p)
      BY DEF Invoke, Running, Base
    <2>6. Doing' = Running(p)
      <3>1. (CHOOSE q \in Procs : Executing(q)') = p
        BY <2>4 DEF RunInv, LockOwned, Executing, Holding
      <3>2. QED
        BY <2>4, <2>5, <3>1 DEF Doing
    <2>7. Running(p) \in Nodes
      BY <1>2, BaseType, NextNodeType DEF Running, RunInv, TypeInv, TypeOK
    <2>8. plan.outline_gate /\ Running(p) \in GatedNodes => accepted
      BY <2>4, <2>5 DEF RunInv, ContentOnlyAfterAcceptance, Invoke
    <2>9. Review!Begin(Running(p))
      BY <2>3, <2>6, <2>8 DEF Review!Begin, Invoke
    <2>10. QED
      BY <2>7, <2>9
  <1>3. QED
    BY <1>1, <1>2

LEMMA DriveImplements ==
    ASSUME RunInv, RunInv', NEW p \in Procs, DriveStep(p)
    PROVE  Kept \/ Review!Next
  <1>. USE DEF PCs, DriveHeld, TaskOnly, AtNode
  <1>1. CASE Acquire(p)
    BY <1>1, StepKeepsDoing DEF Acquire
  <1>2. CASE Invoke(p)
    BY <1>2, InvokeBegins DEF Review!Next
  <1>3. CASE NodeReadsRow(p) \/ NodeWritesRow(p) \/ NodeFinalizes(p) \/ NodeKeepsRow(p)
    BY <1>3, StepKeepsDoing DEF NodeReadsRow, NodeWritesRow, NodeFinalizes, NodeKeepsRow, history
  <1>4. CASE NodeEnds(p) \/ NodeFails(p)
    <2>1. PICK l \in {"snapshot", "capture"} : Goto(p, l)
      BY <1>4 DEF NodeEnds, NodeFails
    <2>2. Executing(p)
      BY <1>4 DEF NodeEnds, NodeFails, Executing
    <2>3. \A q \in Procs : Executing(q)' => q # p /\ Executing(q)
      BY <2>1 DEF Goto, Executing, RunInv, TypeInv, TypeOK
    <2>4. QED
      BY <1>4, <2>2, <2>3, StepStops DEF NodeEnds, NodeFails, history, Review!Next
  <1>5. CASE Capture(p) \/ Snapshot(p) \/ MarkPaused(p)
    <2>1. PICK l \in {"final_read", "sync_read"} : Goto(p, l)
      BY <1>5 DEF Capture, Snapshot, MarkPaused
    <2>2. \A q \in Procs : Executing(q) => cfg'[q] = cfg[q]
      BY <1>5 DEF Capture, Snapshot, MarkPaused, Executing, RunInv, TypeInv, TypeOK
    <2>3. QED
      BY <1>5, <2>1, <2>2, StepKeepsDoing DEF Capture, Snapshot, MarkPaused, history
  <1>6. CASE SyncRead(p, "sync_read", "sync_write") \/ SyncRead(p, "final_read", "final_write")
    BY <1>6, StepKeepsDoing DEF SyncRead, history
  <1>7. CASE \/ SyncWrite(p, "sync_write", AfterSync(Written(p), cfg[p]))
             \/ SyncWrite(p, "final_write", "return")
    <2>1. AfterSync(Written(p), cfg[p]) \in {"mark_paused", "return", "invoke"}
      BY DEF AfterSync
    <2>2. QED
      BY <1>7, <2>1, StepKeepsDoing DEF SyncWrite
  <1>8. CASE Return(p)
    <2>1. PICK l \in {"done", "off"} : Goto(p, l)
      BY <1>8 DEF Return
    <2>2. QED
      BY <1>8, <2>1, StepKeepsDoing DEF Return, history
  <1>9. QED
    BY <1>1, <1>2, <1>3, <1>4, <1>5, <1>6, <1>7, <1>8 DEF DriveStep

LEMMA RequestImplements ==
    ASSUME RunInv, RunInv', NEW r \in Requests,
           \/ RequestStep(r) \/ RequestRaises(r) \/ GuardUnread(r)
           \/ \E k \in Ops : Arrive(r, k)
    PROVE  Kept \/ Review!Next
  <1>. USE DEF PCs, RequestOnly, AtNode
  <1>0. r \in Procs
    BY DEF Procs
  <1>1. CASE Guard(r) \/ GuardUnread(r)
    <2>1. PICK l \in {"pause_write", "resume_write", "update_read", "off"} : Goto(r, l)
      BY <1>1 DEF Guard, GuardUnread, FirstStep
    <2>2. QED
      BY <1>0, <1>1, <2>1, StepKeepsDoing DEF Guard, GuardUnread, history
  <1>2. CASE PauseWrite(r) \/ ResumeWrite(r)
    <2>1. PICK l \in {"off", "update_read"} : Goto(r, l)
      BY <1>2 DEF PauseWrite, ResumeWrite
    <2>2. QED
      BY <1>0, <1>2, <2>1, StepKeepsDoing DEF PauseWrite, ResumeWrite
  <1>3. CASE UpdateRead(r)
    <2>1. \A q \in Procs : Executing(q) => cfg'[q] = cfg[q]
      BY <1>3 DEF UpdateRead, Executing, RunInv, TypeInv, TypeOK
    <2>2. QED
      BY <1>0, <1>3, <2>1, StepKeepsDoing DEF UpdateRead, history
  <1>4. CASE UpdateWrite(r)
    <2>1. PICK l \in {"pause_sync_read", "schedule", "acquire"} : Goto(r, l)
      BY <1>4 DEF UpdateWrite
    <2>2. \A q \in Procs : Executing(q) => cfg'[q] = cfg[q]
      BY <1>4 DEF UpdateWrite, Executing, RunInv, TypeInv, TypeOK
    <2>3. \A q \in Procs : Executing(q)' <=> Executing(q)
      BY <1>0, <1>4, <2>1 DEF UpdateWrite, Goto, Executing, RunInv, TypeInv, TypeOK
    <2>4. Doing' = Doing
      BY <1>4, <2>2, <2>3, DoingKept DEF UpdateWrite, RunInv
    <2>5. /\ plan' = plan
          /\ accepted' = accepted \/ (~accepted /\ accepted' = TRUE)
      BY <1>4 DEF UpdateWrite, RunInv, TypeInv, TypeOK
    <2>6. QED
      BY <2>4, <2>5 DEF Kept, Review!Next, Review!Approve
  <1>5. CASE \/ SyncRead(r, "pause_sync_read", "pause_sync_write")
             \/ SyncWrite(r, "pause_sync_write", "off") \/ ScheduleDropped(r)
    BY <1>0, <1>5, StepKeepsDoing DEF SyncRead, SyncWrite, ScheduleDropped, history
  <1>6. ASSUME NEW t \in Tasks, ScheduleDrive(r, t) PROVE Kept
    <2>1. t \in Procs
      BY DEF Procs
    <2>2. \A q \in Procs : /\ Executing(q)' <=> Executing(q)
                           /\ Executing(q) => cfg'[q] = cfg[q]
      BY <1>0, <1>6, <2>1 DEF ScheduleDrive, Executing, RunInv, TypeInv, TypeOK
    <2>3. Doing' = Doing
      BY <1>6, <2>2, DoingKept DEF ScheduleDrive, RunInv
    <2>4. QED
      BY <1>6, <2>3 DEF ScheduleDrive, history, Kept
  <1>7. CASE RequestRaises(r)
    BY <1>0, <1>7, StepKeepsDoing DEF RequestRaises, history
  <1>8. ASSUME NEW k \in Ops, Arrive(r, k) PROVE Kept
    BY <1>0, <1>8, StepKeepsDoing DEF Arrive, history
  <1>9. CASE AnnotateRead(r) \/ AnnotateWrite(r)
    BY <1>0, <1>9, StepKeepsDoing DEF AnnotateRead, AnnotateWrite, history
  <1>10. QED
    BY <1>1, <1>2, <1>3, <1>4, <1>5, <1>6, <1>7, <1>8, <1>9 DEF RequestStep

LEMMA TaskImplements ==
    ASSUME RunInv, RunInv', NEW t \in Tasks, MarkFailed(t) \/ Cleanup(t) \/ MarkFailedLost(t)
    PROVE  Kept
  <1>1. t \in Procs
    BY DEF Procs
  <1>2. QED
    BY <1>1, StepKeepsDoing
       DEF MarkFailed, Cleanup, MarkFailedLost, history, PCs, TaskOnly, AtNode

LEMMA DisturbanceImplements ==
    ASSUME RunInv, RunInv', Disturbance
    PROVE  Kept \/ Review!Next
  <1>. USE DEF PCs, DriveHeld, TaskOnly, AtNode
  <1>1. ASSUME NEW p \in Procs, CaptureLost(p) PROVE Kept
    <2>1. \A q \in Procs : Executing(q) => cfg'[q] = cfg[q]
      BY <1>1 DEF CaptureLost, Executing, RunInv, TypeInv, TypeOK
    <2>2. QED
      BY <1>1, <2>1, StepKeepsDoing DEF CaptureLost, history
  <1>2. ASSUME NEW p \in Procs, DriveRaises(p) PROVE Kept
    <2>1. PICK l \in {"fail_write", "off"} : Goto(p, l)
      BY <1>2 DEF DriveRaises
    <2>2. QED
      BY <1>2, <2>1, StepKeepsDoing DEF DriveRaises, Executing, history
  <1>3. CASE Crash
    <2>1. \A q \in Procs : ~ Executing(q)'
      BY <1>3 DEF Crash, Executing
    <2>2. CASE \E p \in Procs : Executing(p)
      BY <1>3, <2>1, <2>2, StepStops DEF Crash, history, Review!Next
    <2>3. CASE ~ \E p \in Procs : Executing(p)
      BY <1>3, <2>1, <2>3 DEF Crash, history, Kept, Doing
    <2>4. QED
      BY <2>2, <2>3
  <1>4. QED
    BY <1>1, <1>2, <1>3, RequestImplements, TaskImplements DEF Disturbance

\* A run of the executor, with its requests, drives, pauses, failures and restarts,
\* is a run of ReviewedRun: its nodes are worked on one at a time, and those behind
\* an outline gate only once an outline was accepted.
THEOREM RunsAreReviewed == Spec => ImplementsReviewedRun
  <1>1. Init => Review!Init
    <2>1. ASSUME Init PROVE Doing = End
      BY <2>1 DEF Init, Doing, Executing
    <2>2. QED
      BY <2>1, ConstantsAssumption DEF Init, Review!Init, Plan
  <1>2. RunInv /\ RunInv' /\ [Next]_vars => [Review!Next]_(Review!rvars)
    <2>. SUFFICES ASSUME RunInv, RunInv', [Next]_vars
                  PROVE  Kept \/ Review!Next
      BY DEF Kept, Review!rvars
    <2>1. CASE UNCHANGED vars
      BY <2>1, DoingKept DEF vars, RunInv, Kept, Executing
    <2>2. CASE Next
      BY <2>2, DriveImplements, RequestImplements, TaskImplements, DisturbanceImplements
         DEF Next
    <2>3. QED
      BY <2>1, <2>2
  <1>3. Spec => []RunInv
    BY TypeInvariant, LockIsOwned, AcceptanceFirst, PTL DEF RunInv
  <1>4. QED
    BY <1>1, <1>2, <1>3, PTL DEF Spec, ImplementsReviewedRun, Review!Spec

-----------------------------------------------------------------------------
(* The gates alone.  When the clients only answer gates and no store fails, the *)
(* row is read and written by the one drive that holds the lock, and once more  *)
(* by the request that started the run, when it notes the owner.                *)

SidePath == {"fail_write", "pause_write", "resume_write", "schedule",
             "pause_sync_read", "pause_sync_write"}

RowSteps == {"gate_write", "sync_write", "final_write"}

Noting == {"annotate_read", "annotate_write"}

\* A drive that has not seen a run completed does not come to write it: the drive that
\* completed it held the lock.
NoneBehind == \A p \in Procs : row = "completed" /\ pc[p] \in RowSteps => seen[p] = "completed"

\* The one request that notes the owner never makes a run completed.
NoteInv ==
    /\ \A p, q \in Procs : pc[p] \in Noting /\ pc[q] \in Noting => p = q
    /\ \A p \in Procs : pc[p] = "annotate_write" /\ seen[p] = "completed" => row = "completed"

GateInv ==
    /\ \A r \in Requests : pc[r] \notin OffDuty => op[r] \in GateOps
    /\ \A p \in Procs : pc[p] \notin SidePath
    /\ NoneBehind
    /\ NoteInv

GatesInv == TypeInv /\ LockOwned /\ GateInv

CompletedStays == row = "completed" => row' = "completed"

\* A step of p that writes the row only from inside the drive.
LEMMA GateKept ==
    ASSUME GatesInv, NEW p \in Procs, NEW l \in PCs \ SidePath, Goto(p, l), op' = op,
           pc[p] \notin OffDuty \/ l \in OffDuty,
           l \in Noting => l = "annotate_write" /\ pc[p] = "annotate_read" /\ seen'[p] = row',
           \A q \in Procs \ {p} : seen'[q] = seen[q],
           row' = row \/ pc[p] \in DriveHeld,
           CompletedStays,
           l \in RowSteps /\ row' = "completed" => seen'[p] = "completed"
    PROVE  GateInv'
  <1>. USE DEF GatesInv, GateInv, TypeInv, TypeOK
  <1>1. \A r \in Requests : pc'[r] \notin OffDuty => op'[r] \in GateOps
    BY DEF Goto, Procs, OffDuty
  <1>2. \A q \in Procs : pc'[q] \notin SidePath
    BY DEF Goto
  <1>3. ASSUME NEW q \in Procs, row' = "completed", pc'[q] \in RowSteps
        PROVE seen'[q] = "completed"
    <2>1. CASE q = p
      BY <1>3, <2>1 DEF Goto
    <2>2. CASE q # p
      <3>1. pc[q] \in RowSteps /\ seen'[q] = seen[q]
        BY <1>3, <2>2 DEF Goto
      <3>2. pc[p] \notin DriveHeld
        BY <2>2, <3>1 DEF LockOwned, Holding, RowSteps, DriveHeld
      <3>3. QED
        BY <1>3, <3>1, <3>2 DEF NoneBehind
    <2>3. QED
      BY <2>1, <2>2
  <1>4. \A q, s \in Procs : pc'[q] \in Noting /\ pc'[s] \in Noting => q = s
    BY DEF Goto, NoteInv, Noting
  <1>5. ASSUME NEW q \in Procs, pc'[q] = "annotate_write", seen'[q] = "completed"
        PROVE row' = "completed"
    BY <1>5 DEF Goto, NoteInv, Noting, CompletedStays
  <1>6. QED
    BY <1>1, <1>2, <1>3, <1>4, <1>5 DEF NoneBehind, NoteInv

LEMMA GateOfDriveStep ==
    ASSUME GatesInv, NEW p \in Procs, DriveStep(p)
    PROVE  GateInv' /\ CompletedStays
  <1>. USE DEF PCs, DriveHeld, TaskOnly, SidePath, RowSteps, OffDuty, Noting, CompletedStays
  <1>0. row = "completed" /\ pc[p] \in RowSteps => seen[p] = "completed"
    BY DEF GatesInv, GateInv, NoneBehind
  <1>t. seen \in [Procs -> RunStatus]
    BY DEF GatesInv, TypeInv, TypeOK
  <1>1. CASE Acquire(p)
    BY <1>1, GateKept DEF Acquire, store
  <1>2. CASE Invoke(p)
    <2>1. PICK l \in {"snapshot", "node"} : Goto(p, l)
      BY <1>2 DEF Invoke
    <2>2. QED
      BY <1>2, <2>1, GateKept DEF Invoke
  <1>3. CASE NodeReadsRow(p)
    BY <1>3, <1>t, GateKept DEF NodeReadsRow, store
  <1>4. CASE NodeWritesRow(p)
    BY <1>0, <1>4, GateKept DEF NodeWritesRow, WriteRow
  <1>5. CASE NodeFinalizes(p)
    BY <1>5, GateKept DEF NodeFinalizes, WriteRow
  <1>6. CASE NodeKeepsRow(p) \/ NodeEnds(p) \/ Capture(p) \/ Snapshot(p) \/ MarkPaused(p)
    BY <1>6, GateKept DEF NodeKeepsRow, NodeEnds, Capture, Snapshot, MarkPaused, store
  <1>7. CASE NodeFails(p)
    BY <1>7, GateKept DEF NodeFails, Executing, store
  <1>8. CASE SyncRead(p, "sync_read", "sync_write") \/ SyncRead(p, "final_read", "final_write")
    BY <1>8, <1>t, GateKept DEF SyncRead, store
  <1>9. CASE \/ SyncWrite(p, "sync_write", AfterSync(Written(p), cfg[p]))
             \/ SyncWrite(p, "final_write", "return")
    <2>1. PICK l \in {"mark_paused", "return", "invoke"} : Goto(p, l)
      BY <1>9 DEF SyncWrite, AfterSync
    <2>2. row' = Written(p) /\ pc[p] \in DriveHeld
      BY <1>9 DEF SyncWrite, WriteRow
    <2>3. row = "completed" => row' = "completed"
      BY <1>0, <1>9, <2>2 DEF SyncWrite, Written, SyncStatus
    <2>4. QED
      BY <1>9, <2>1, <2>2, <2>3, GateKept DEF SyncWrite
  <1>10. CASE Return(p)
    <2>1. PICK l \in {"done", "off"} : Goto(p, l)
      BY <1>10 DEF Return
    <2>2. QED
      BY <1>10, <2>1, GateKept DEF Return, store
  <1>11. QED
    BY <1>1, <1>2, <1>3, <1>4, <1>5, <1>6, <1>7, <1>8, <1>9, <1>10 DEF DriveStep

\* Of the steps of a request only those of an answer to a gate are left, and the note.
LEMMA GateRequests ==
    ASSUME GatesInv, NEW r \in Requests, RequestStep(r)
    PROVE  \/ (Guard(r) \/ UpdateRead(r) \/ UpdateWrite(r)) /\ op[r] \in GateOps
           \/ AnnotateRead(r) \/ AnnotateWrite(r)
  <1>1. pc[r] \notin SidePath /\ r \in Procs
    BY DEF GatesInv, GateInv, Procs
  <1>2. Guard(r) \/ UpdateRead(r) \/ UpdateWrite(r) \/ AnnotateRead(r) \/ AnnotateWrite(r)
    BY <1>1 DEF RequestStep, PauseWrite, ResumeWrite, SyncRead, SyncWrite, ScheduleDropped,
                ScheduleDrive, SidePath
  <1>3. CASE AnnotateRead(r) \/ AnnotateWrite(r)
    BY <1>3
  <1>4. CASE Guard(r) \/ UpdateRead(r) \/ UpdateWrite(r)
    <2>1. pc[r] \notin OffDuty
      BY <1>4 DEF Guard, UpdateRead, UpdateWrite, OffDuty
    <2>2. QED
      BY <1>4, <2>1 DEF GatesInv, GateInv
  <1>5. QED
    BY <1>2, <1>3, <1>4

\* The owner's note puts back a status that is not "completed", or leaves the row alone.
LEMMA GateOfNote ==
    ASSUME GatesInv, NEW r \in Requests, AnnotateWrite(r)
    PROVE  GateInv'
  <1>. USE DEF GatesInv, GateInv, TypeInv, TypeOK
  <1>0. r \in Procs
    BY DEF Procs
  <1>1. /\ pc[r] = "annotate_write" /\ pc' = [pc EXCEPT ![r] = "off"]
        /\ row' = seen[r] /\ op' = op /\ seen' = seen
    BY DEF AnnotateWrite, WriteRow, Goto
  <1>2. row' = "completed" => row = "completed"
    BY <1>0, <1>1 DEF NoteInv
  <1>3. \A q \in Requests : pc'[q] \notin OffDuty => op'[q] \in GateOps
    BY <1>1 DEF OffDuty, Procs
  <1>4. \A q \in Procs : pc'[q] \notin SidePath
    BY <1>1 DEF SidePath
  <1>5. NoneBehind'
    BY <1>1, <1>2 DEF NoneBehind, RowSteps
  <1>6. \A q \in Procs : pc'[q] \notin Noting
    BY <1>0, <1>1 DEF NoteInv, Noting
  <1>7. NoteInv'
    BY <1>6 DEF NoteInv, Noting
  <1>8. QED
    BY <1>3, <1>4, <1>5, <1>7

LEMMA GateOfRequestStep ==
    ASSUME GatesInv, NEW r \in Requests, RequestStep(r)
    PROVE  GateInv' /\ (CompletedStays \/ AnnotateWrite(r))
  <1>. USE DEF PCs, DriveHeld, RequestOnly, SidePath, RowSteps, OffDuty, Noting, CompletedStays
  <1>0. r \in Procs
    BY DEF Procs
  <1>t. seen \in [Procs -> RunStatus]
    BY DEF GatesInv, TypeInv, TypeOK
  <1>1. CASE Guard(r) /\ op[r] \in GateOps
    <2>1. PICK l \in {"update_read", "off"} : Goto(r, l)
      BY <1>1 DEF Guard, FirstStep, GateOps
    <2>2. QED
      BY <1>0, <1>1, <2>1, GateKept DEF Guard, store
  <1>2. CASE UpdateRead(r)
    BY <1>0, <1>2, GateKept DEF UpdateRead, store
  <1>3. CASE UpdateWrite(r) /\ op[r] \in GateOps
    <2>1. Goto(r, "acquire")
      BY <1>0, <1>3 DEF UpdateWrite, GateOps
    <2>2. QED
      BY <1>0, <1>3, <2>1, GateKept DEF UpdateWrite
  <1>4. CASE AnnotateRead(r)
    BY <1>0, <1>t, <1>4, GateKept DEF AnnotateRead, store
  <1>5. CASE AnnotateWrite(r)
    BY <1>5, GateOfNote
  <1>6. QED
    BY <1>1, <1>2, <1>3, <1>4, <1>5, GateRequests

\* The calls, the end of a task and a restart: they leave the row alone.
LEMMA GateOfOthers ==
    ASSUME Ops \subseteq GateOps, MaxFaults = 0, GatesInv,
           \/ \E r \in Requests, k \in Ops : Arrive(r, k)
           \/ \E t \in Tasks : MarkFailed(t) \/ Cleanup(t)
           \/ Disturbance
           \/ UNCHANGED vars
    PROVE  GateInv' /\ row' = row
  <1>. USE DEF PCs, DriveHeld, RequestOnly, TaskOnly, SidePath, RowSteps, OffDuty, Noting
  <1>0. faults = 0
    BY DEF GatesInv, TypeInv, TypeOK
  <1>1. ASSUME NEW r \in Requests, NEW k \in Ops, Arrive(r, k) PROVE GateInv' /\ row' = row
    <2>1. r \in Procs
      BY DEF Procs
    <2>2. row' = row /\ pc' = [pc EXCEPT ![r] = "guard"] /\ op' = [op EXCEPT ![r] = k]
          /\ seen' = [seen EXCEPT ![r] = row]
      BY <1>1 DEF Arrive, store, Goto
    <2>3. \A q \in Requests : pc'[q] \notin OffDuty => op'[q] \in GateOps
      BY <2>1, <2>2 DEF GatesInv, GateInv, TypeInv, TypeOK, Procs
    <2>4. \A q \in Procs : pc'[q] \notin SidePath
                           /\ (row' = "completed" /\ pc'[q] \in RowSteps => seen'[q] = "completed")
      BY <2>1, <2>2 DEF GatesInv, GateInv, NoneBehind, TypeInv, TypeOK
    <2>5. \A q \in Procs : pc'[q] \in Noting => pc'[q] = pc[q] /\ seen'[q] = seen[q]
      BY <2>1, <2>2 DEF GatesInv, TypeInv, TypeOK
    <2>6. NoteInv'
      BY <2>2, <2>5 DEF GatesInv, GateInv, NoteInv
    <2>7. QED
      BY <2>2, <2>3, <2>4, <2>6 DEF GateInv, NoneBehind
  <1>2. ASSUME NEW t \in Tasks, MarkFailed(t) \/ Cleanup(t) PROVE GateInv' /\ row' = row
    <2>1. t \in Procs /\ Cleanup(t)
      BY <1>2 DEF GatesInv, GateInv, MarkFailed, Procs
    <2>2. QED
      BY <2>1, GateKept DEF Cleanup, store, CompletedStays
  <1>3. CASE Disturbance
    <2>1. Crash
      BY <1>0, <1>3
         DEF Disturbance, CaptureLost, DriveRaises, MarkFailedLost, RequestRaises, GuardUnread
    <2>2. row' = row /\ \A p \in Procs : pc'[p] = "off"
      BY <2>1 DEF Crash, store
    <2>3. QED
      BY <2>2 DEF GateInv, NoneBehind, NoteInv, Procs
  <1>4. CASE UNCHANGED vars
    BY <1>4 DEF vars, GatesInv, GateInv, NoneBehind, NoteInv
  <1>5. QED
    BY <1>1, <1>2, <1>3, <1>4

LEMMA GateStep ==
    ASSUME Ops \subseteq GateOps, MaxFaults = 0, GatesInv, [Next]_vars
    PROVE  GateInv' /\ (CompletedStays \/ \E r \in Requests : AnnotateWrite(r))
  BY GateOfDriveStep, GateOfRequestStep, GateOfOthers DEF Next, CompletedStays

LEMMA GateInvariant ==
    ASSUME Ops \subseteq GateOps, MaxFaults = 0
    PROVE  Spec => []GatesInv
  <1>1. ASSUME Init PROVE GateInv
    <2>1. PICK s \in Requests :
             pc = [p \in Procs |-> IF p = active THEN "acquire"
                                  ELSE IF p = s THEN "annotate_read" ELSE "off"]
      BY <1>1 DEF Init
    <2>2. active \in Tasks /\ active \notin Requests /\ row = "running"
      BY <1>1, ConstantsAssumption DEF Init
    <2>3. \A p \in Procs : pc[p] \in Noting => p = s
      BY <2>1 DEF Noting
    <2>4. QED
      BY <2>1, <2>2, <2>3
         DEF GateInv, NoneBehind, NoteInv, SidePath, RowSteps, OffDuty, Procs
  <1>2. TypeInv /\ LockOwned /\ GateInv /\ [Next]_vars => GateInv'
    BY GateStep DEF GatesInv
  <1>3. TypeInv /\ LockOwned /\ GateInv => GatesInv
    BY DEF GatesInv
  <1>4. QED
    BY <1>1, <1>2, <1>3, TypeInvariant, LockIsOwned, PTL DEF Spec

\* A completed run stays completed, whichever drives, late answers and metadata
\* writes are still under way, for any number of them and over restarts
\* (_sync_workflow_run never leaves COMPLETED), but for one write: the note of the
\* owner by the request that started the run, when the run has completed between its
\* read of the row and its write.  It takes that nobody pauses or resumes and that no
\* store fails: then others than these write the row, and the property is false.
THEOREM CompletedRunsStay ==
    ASSUME Ops \subseteq GateOps, MaxFaults = 0
    PROVE  Spec => CompletedIsFinal
  <1>. DEFINE Final == row = "completed" /\ row' # "completed" =>
                          \E r \in Requests : pc[r] = "annotate_write" /\ pc'[r] = "off"
  <1>1. ASSUME GatesInv, [Next]_vars PROVE Final
    <2>1. CASE CompletedStays
      BY <2>1 DEF CompletedStays
    <2>2. ASSUME NEW r \in Requests, AnnotateWrite(r) PROVE Final
      BY <1>1, <2>2 DEF AnnotateWrite, Goto, GatesInv, TypeInv, TypeOK, Procs
    <2>3. QED
      BY <1>1, <2>1, <2>2, GateStep
  <1>2. GatesInv /\ [Next]_vars => [Final]_vars
    BY <1>1
  <1>3. QED
    BY <1>2, GateInvariant, PTL DEF Spec, CompletedIsFinal

-----------------------------------------------------------------------------
(* No run is stranded at its gates: as long as the graph has something to do,   *)
(* some process is on the way to look at the latest checkpoint.                 *)

Sound(c) == ~c.vals.is_paused

\* Nothing pauses.
SoundInv ==
    /\ row # "paused" /\ \A p \in Procs : seen[p] # "paused" /\ pc[p] # "mark_paused"
    /\ Sound(ckpt) /\ \A p \in Procs : Sound(cfg[p])

\* Once the input is written the thread has a checkpoint.
ThreadInv ==
    ckpt.at = NoThread =>
        /\ \A p \in Procs : cfg[p].at = NoThread
        /\ \A p \in Procs : pc[p] \notin DriveHeld \ {"invoke"}

Unfinished(c) == c.at = NoThread \/ GraphStatus(c.vals) = "running"

\* The drive of p looks at the latest checkpoint again, or has just looked at it.
Driven(p) ==
    \/ pc[p] \in {"acquire", "invoke", "node", "gate_write", "node_end", "snapshot", "capture"}
    \/ pc[p] \in {"sync_read", "sync_write"} /\ cfg[p] = ckpt

DrivenInv == Unfinished(ckpt) /\ ~AtEnd => \E p \in Procs : Driven(p)

RestInv == SoundInv /\ ThreadInv /\ DrivenInv

LEMMA OutcomeUnpaused ==
    ASSUME NEW pl \in Plan, NEW v \in GraphState, NEW n \in Nodes,
           NEW w \in NodeOutcomes(pl, n, v)
    PROVE  w.is_paused = v.is_paused
  BY DEF NodeOutcomes, ParseIntent, ClarifyIntent, GenerateOutline, ApproveOutline,
         GenerateContent, SelfRefine, CheckFacts, ApproveFactCheck, Finalize, GraphState, Nodes

LEMMA UpdateSound ==
    ASSUME NEW k \in GateOps, NEW c \in Checkpoint
    PROVE  /\ Update(k, c).vals.is_paused = c.vals.is_paused
           /\ Update(k, c).at # NoThread
  <1>. DEFINE at == IF c.at = NoThread THEN Entry ELSE c.at
  <1>1. c.vals \in GraphState /\ at # NoThread
    BY DEF Checkpoint, Entry, NoThread
  <1>2. CASE k = "clarify"
    <2>1. Update(k, c) = [c EXCEPT !.at = at]
      BY <1>2 DEF Update, OutlineOps, FactOps
    <2>. HIDE DEF at
    <2>2. Update(k, c).vals = c.vals /\ Update(k, c).at = at
      BY <2>1 DEF Checkpoint
    <2>3. QED
      BY <1>1, <2>2
  <1>3. CASE k \in OutlineOps \cup FactOps
    <2>1. Update(k, c).at \in {"generate_outline", "check_facts"}
      BY <1>3 DEF Update, OutlineOps, FactOps
    <2>2. Update(k, c).vals.is_paused = c.vals.is_paused
      BY <1>1, <1>3 DEF Update, OutlineOps, FactOps, GraphState
    <2>3. QED
      BY <2>1, <2>2 DEF NoThread
  <1>4. QED
    BY <1>2, <1>3 DEF GateOps, OutlineOps, FactOps

LEMMA FailedSound ==
    ASSUME TypeInv, SoundInv, NEW p \in Procs
    PROVE  /\ Sound(Failed(p)) /\ GraphStatus(Failed(p).vals) # "running"
           /\ Failed(p).at \in {ckpt.at, cfg[p].at}
           /\ Failed(p).at = NoThread => ckpt.at = NoThread
  <1>. DEFINE c == IF cfg[p].at = NoThread THEN ckpt ELSE cfg[p]
              v == c.vals
              w == [v EXCEPT !.error = TRUE]
  <1>1. /\ c \in Checkpoint /\ Sound(c) /\ c.at \in {ckpt.at, cfg[p].at}
        /\ c.at = NoThread => ckpt.at = NoThread
    BY DEF TypeInv, TypeOK, SoundInv
  <1>2. Failed(p) = [c EXCEPT !.vals = w]
    BY DEF Failed
  <1>3. w.error /\ w.is_paused = v.is_paused
    BY <1>1 DEF Checkpoint, GraphState
  <1>. HIDE DEF c, w
  <1>4. Failed(p).at = c.at /\ Failed(p).vals = w
    BY <1>1, <1>2 DEF Checkpoint
  <1>5. QED
    BY <1>1, <1>3, <1>4 DEF Sound, GraphStatus

\* The graph goes on from a checkpoint that waits for nobody.
LEMMA UnfinishedGoesOn ==
    ASSUME NEW pl \in Plan, NEW c \in Checkpoint, GraphStatus(c.vals) = "running",
           c.at # NoThread, c.at # "finalize"
    PROVE  NextNode(pl, c) # End
  BY DEF Plan, Checkpoint, Nodes, NextNode, GraphStatus, AfterParseIntent, AfterOutline,
         AfterContent, AfterRefine, AfterFactCheck, End, Entry, NoThread

\* A step of p that leaves the latest checkpoint alone.
LEMMA DrivenKept ==
    ASSUME TypeInv, DrivenInv, NEW p \in Procs, NEW l, Goto(p, l), ckpt' = ckpt,
           \A q \in Procs \ {p} : cfg'[q] = cfg[q],
           Driven(p) /\ Unfinished(ckpt) /\ ~AtEnd => Driven(p)'
    PROVE  DrivenInv'
  <1>. SUFFICES ASSUME Unfinished(ckpt)', ~AtEnd' PROVE (\E q \in Procs : Driven(q))'
    BY DEF DrivenInv
  <1>0. Unfinished(ckpt) /\ ~AtEnd
    BY DEF Unfinished, AtEnd
  <1>1. PICK q \in Procs : Driven(q)
    BY <1>0 DEF DrivenInv
  <1>2. CASE q = p
    BY <1>0, <1>1, <1>2
  <1>3. CASE q # p
    <2>1. pc'[q] = pc[q] /\ cfg'[q] = cfg[q]
      BY <1>3 DEF Goto, TypeInv, TypeOK
    <2>2. QED
      BY <1>1, <2>1 DEF Driven
  <1>4. QED
    BY <1>2, <1>3

\* A step of p that changes at most the row, what p has read of it and what p pins.
LEMMA SoundKept ==
    ASSUME TypeInv, SoundInv, NEW p \in Procs, NEW l, Goto(p, l), plan' = plan,
           l # "mark_paused", row' # "paused",
           \A q \in Procs \ {p} : cfg'[q] = cfg[q] /\ seen'[q] = seen[q],
           seen'[p] # "paused", Sound(ckpt)', Sound(cfg[p])'
    PROVE  SoundInv'
  <1>1. \A q \in Procs \ {p} : pc'[q] = pc[q]
    BY DEF TypeInv, TypeOK, Goto
  <1>2. pc'[p] = l
    BY DEF TypeInv, TypeOK, Goto
  <1>3. \A q \in Procs : Sound(cfg[q])' /\ seen'[q] # "paused"
    BY DEF SoundInv, Sound
  <1>4. QED
    BY <1>1, <1>2, <1>3 DEF SoundInv

LEMMA ThreadKept ==
    ASSUME TypeInv, ThreadInv, NEW p \in Procs, NEW l, Goto(p, l),
           \/ ckpt'.at # NoThread
           \/ /\ ckpt' = ckpt /\ cfg' = cfg
              /\ l \notin DriveHeld \ {"invoke"}
    PROVE  ThreadInv'
  BY DEF TypeInv, TypeOK, ThreadInv, Goto

\* Beyond the entry of the graph the thread has a checkpoint.
LEMMA InDrive ==
    ASSUME ThreadInv, NEW p \in Procs, pc[p] \in DriveHeld \ {"invoke"}
    PROVE  ckpt.at # NoThread
  BY DEF ThreadInv

LEMMA RestOfDriveStep ==
    ASSUME GatesInv, RestInv, NEW p \in Procs, DriveStep(p)
    PROVE  RestInv'
  <1>. USE DEF DriveHeld
  <1>0. /\ TypeInv /\ SoundInv /\ ThreadInv /\ DrivenInv
        /\ plan \in Plan /\ ckpt \in Checkpoint /\ cfg \in [Procs -> Checkpoint]
        /\ seen \in [Procs -> RunStatus] /\ pc \in [Procs -> PCs]
    BY DEF GatesInv, RestInv, TypeInv, TypeOK
  <1>s. row # "paused" /\ seen[p] # "paused" /\ Sound(ckpt) /\ Sound(cfg[p])
    BY DEF RestInv, SoundInv
  <1>k. ckpt' = ckpt => Sound(ckpt)'
    BY <1>s DEF Sound
  <1>c. cfg' = cfg => Sound(cfg[p])'
    BY <1>s DEF Sound
  <1>1. CASE Acquire(p)
    <2>1. /\ Goto(p, "invoke") /\ ckpt' = ckpt /\ cfg' = cfg /\ row' = row /\ seen' = seen
          /\ plan' = plan
      BY <1>1 DEF Acquire, store
    <2>2. pc'[p] = "invoke"
      BY <1>0, <2>1 DEF Goto
    <2>3. QED
      BY <1>0, <1>s, <1>k, <1>c, <2>1, <2>2, SoundKept, ThreadKept, DrivenKept DEF RestInv, Driven
  <1>2. CASE Invoke(p)
    <2>1. PICK l \in {"snapshot", "node"} : Goto(p, l)
      BY <1>2 DEF Invoke
    <2>2. /\ ckpt' = (IF cfg[p].at = NoThread THEN InputCheckpoint ELSE ckpt)
          /\ cfg' = cfg /\ row' = row /\ seen' = seen /\ plan' = plan
      BY <1>2 DEF Invoke
    <2>3. ckpt'.at # NoThread
      BY <1>0, <2>2 DEF ThreadInv, InputCheckpoint, Entry, NoThread
    <2>4. Sound(ckpt)'
      BY <1>s, <2>2 DEF Sound, InputCheckpoint, EmptyState, Entry
    <2>5. pc'[p] = l
      BY <1>0, <2>1 DEF Goto
    <2>6. DrivenInv'
      BY <2>5 DEF DrivenInv, Driven
    <2>7. QED
      BY <1>0, <1>s, <1>c, <2>1, <2>2, <2>3, <2>4, <2>6, SoundKept, ThreadKept DEF RestInv
  <1>3. CASE NodeReadsRow(p)
    <2>1. /\ Goto(p, "gate_write") /\ ckpt' = ckpt /\ cfg' = cfg /\ row' = row /\ plan' = plan
          /\ seen' = [seen EXCEPT ![p] = row] /\ pc[p] = "node"
      BY <1>3 DEF NodeReadsRow, store
    <2>2. pc'[p] = "gate_write" /\ seen'[p] = row /\ \A q \in Procs \ {p} : seen'[q] = seen[q]
      BY <1>0, <2>1 DEF Goto
    <2>3. QED
      BY <1>0, <1>s, <1>k, <1>c, <2>1, <2>2, SoundKept, ThreadKept, DrivenKept, InDrive
         DEF RestInv, Driven
  <1>4. CASE NodeWritesRow(p)
    <2>1. /\ Goto(p, "node_end") /\ ckpt' = ckpt /\ cfg' = cfg /\ row' = seen[p] /\ plan' = plan
          /\ seen' = seen /\ pc[p] = "gate_write"
      BY <1>4 DEF NodeWritesRow, WriteRow
    <2>2. pc'[p] = "node_end"
      BY <1>0, <2>1 DEF Goto
    <2>3. QED
      BY <1>0, <1>s, <1>k, <1>c, <2>1, <2>2, SoundKept, ThreadKept, DrivenKept, InDrive
         DEF RestInv, Driven
  <1>5. CASE NodeFinalizes(p)
    <2>1. /\ Goto(p, "node_end") /\ ckpt' = ckpt /\ cfg' = cfg /\ row' = "completed"
          /\ plan' = plan /\ seen' = seen /\ pc[p] = "node"
      BY <1>5 DEF NodeFinalizes, WriteRow
    <2>2. pc'[p] = "node_end"
      BY <1>0, <2>1 DEF Goto
    <2>3. Sound(ckpt)' /\ Sound(cfg[p])'
      BY <1>s, <2>1 DEF Sound
    <2>4. QED
      BY <1>0, <1>s, <2>1, <2>2, <2>3, SoundKept, ThreadKept, DrivenKept, InDrive
         DEF RestInv, Driven
  <1>6. CASE NodeKeepsRow(p)
    <2>1. /\ Goto(p, "node_end") /\ ckpt' = ckpt /\ cfg' = cfg /\ row' = row /\ plan' = plan
          /\ seen' = seen /\ pc[p] = "node"
      BY <1>6 DEF NodeKeepsRow, store
    <2>2. pc'[p] = "node_end"
      BY <1>0, <2>1 DEF Goto
    <2>3. QED
      BY <1>0, <1>s, <1>k, <1>c, <2>1, <2>2, SoundKept, ThreadKept, DrivenKept, InDrive
         DEF RestInv, Driven
  <1>7. CASE NodeEnds(p)
    <2>1. /\ Goto(p, "snapshot") /\ cfg' = cfg /\ row' = row /\ plan' = plan /\ seen' = seen
          /\ pc[p] = "node_end"
      BY <1>7 DEF NodeEnds
    <2>2. PICK v \in NodeOutcomes(plan, Running(p), Base(p).vals) :
             ckpt' = [at |-> Running(p), vals |-> v]
      BY <1>7 DEF NodeEnds
    <2>3. Running(p) \in Nodes /\ Base(p).vals \in GraphState
      BY <1>0, <2>1, BaseType DEF TypeInv, NodeChosen, Executing, Checkpoint
    <2>4. ~Base(p).vals.is_paused
      BY <1>s DEF Base, Sound, InputCheckpoint, EmptyState
    <2>5. ~v.is_paused
      BY <1>0, <2>3, <2>4, OutcomeUnpaused
    <2>7. Sound(ckpt)'
      BY <2>2, <2>5 DEF Sound
    <2>8. ckpt'.at # NoThread
      BY <2>2, <2>3 DEF Nodes, NoThread
    <2>9. pc'[p] = "snapshot"
      BY <1>0, <2>1 DEF Goto
    <2>10. DrivenInv'
      BY <2>9 DEF DrivenInv, Driven
    <2>11. QED
      BY <1>0, <1>s, <1>c, <2>1, <2>7, <2>8, <2>10, SoundKept, ThreadKept DEF RestInv
  <1>8. CASE NodeFails(p)
    <2>1. /\ Goto(p, "capture") /\ ckpt' = ckpt /\ cfg' = cfg /\ row' = row /\ plan' = plan
          /\ seen' = seen /\ pc[p] \in {"node", "gate_write", "node_end"}
      BY <1>8 DEF NodeFails, Executing, store
    <2>2. pc'[p] = "capture"
      BY <1>0, <2>1 DEF Goto
    <2>3. QED
      BY <1>0, <1>s, <1>k, <1>c, <2>1, <2>2, SoundKept, ThreadKept, DrivenKept, InDrive
         DEF RestInv, Driven
  <1>9. CASE Capture(p)
    <2>1. /\ Goto(p, "final_read") /\ row' = row /\ plan' = plan /\ seen' = seen
          /\ ckpt' = Failed(p) /\ cfg' = [cfg EXCEPT ![p] = Failed(p)] /\ pc[p] = "capture"
      BY <1>9 DEF Capture
    <2>2. /\ Sound(Failed(p)) /\ GraphStatus(Failed(p).vals) # "running"
          /\ Failed(p).at # NoThread
      BY <1>0, <2>1, FailedSound, InDrive
    <2>3. cfg'[p] = Failed(p) /\ \A q \in Procs \ {p} : cfg'[q] = cfg[q]
      BY <1>0, <2>1
    <2>4. Sound(ckpt)' /\ Sound(cfg[p])'
      BY <2>1, <2>2, <2>3 DEF Sound
    <2>5. DrivenInv'
      BY <2>1, <2>2 DEF DrivenInv, Unfinished
    <2>6. QED
      BY <1>0, <1>s, <2>1, <2>2, <2>3, <2>4, <2>5, SoundKept, ThreadKept DEF RestInv
  <1>10. CASE Snapshot(p)
    <2>1. /\ Goto(p, "sync_read") /\ row' = row /\ plan' = plan /\ seen' = seen
          /\ ckpt' = ckpt /\ cfg' = [cfg EXCEPT ![p] = ckpt] /\ pc[p] = "snapshot"
      BY <1>10 DEF Snapshot, store
    <2>2. /\ cfg'[p] = ckpt /\ \A q \in Procs \ {p} : cfg'[q] = cfg[q]
          /\ pc'[p] = "sync_read"
      BY <1>0, <2>1 DEF Goto
    <2>3. Sound(ckpt)' /\ Sound(cfg[p])'
      BY <1>s, <2>1, <2>2 DEF Sound
    <2>4. QED
      BY <1>0, <1>s, <2>1, <2>2, <2>3, SoundKept, ThreadKept, DrivenKept, InDrive
         DEF RestInv, Driven
  <1>11. CASE SyncRead(p, "sync_read", "sync_write")
    <2>1. /\ Goto(p, "sync_write") /\ ckpt' = ckpt /\ cfg' = cfg /\ row' = row /\ plan' = plan
          /\ seen' = [seen EXCEPT ![p] = row] /\ pc[p] = "sync_read"
      BY <1>11 DEF SyncRead, store
    <2>2. pc'[p] = "sync_write"
      BY <1>0, <2>1 DEF Goto
    <2>3. Driven(p) => Driven(p)'
      BY <2>1, <2>2 DEF Driven
    <2>4. QED
      BY <1>0, <1>s, <1>k, <1>c, <2>1, <2>3, SoundKept, ThreadKept, DrivenKept, InDrive DEF RestInv
  <1>12. CASE SyncRead(p, "final_read", "final_write")
    <2>1. /\ Goto(p, "final_write") /\ ckpt' = ckpt /\ cfg' = cfg /\ row' = row /\ plan' = plan
          /\ seen' = [seen EXCEPT ![p] = row] /\ pc[p] = "final_read"
      BY <1>12 DEF SyncRead, store
    <2>2. ~Driven(p)
      BY <2>1 DEF Driven
    <2>3. QED
      BY <1>0, <1>s, <1>k, <1>c, <2>1, <2>2, SoundKept, ThreadKept, DrivenKept, InDrive DEF RestInv
  <1>13. CASE SyncWrite(p, "sync_write", AfterSync(Written(p), cfg[p]))
    <2>. DEFINE l == AfterSync(Written(p), cfg[p])
    <2>1. /\ Goto(p, l) /\ ckpt' = ckpt /\ cfg' = cfg /\ row' = Written(p) /\ plan' = plan
          /\ seen' = seen /\ pc[p] = "sync_write"
      BY <1>13 DEF SyncWrite, WriteRow
    <2>2. Written(p) # "paused"
      BY <1>s DEF Written, SyncStatus, Sound
    <2>3. ASSUME cfg[p] = ckpt, Unfinished(ckpt), ~AtEnd PROVE l = "invoke"
      <3>1. ckpt.at # NoThread /\ GraphStatus(ckpt.vals) = "running" /\ ckpt.at # "finalize"
        BY <1>0, <2>1, <2>3, InDrive DEF Unfinished, AtEnd
      <3>2. NextNode(plan, ckpt) # End
        BY <1>0, <3>1, UnfinishedGoesOn
      <3>3. QED
        BY <2>2, <2>3, <3>1, <3>2 DEF AfterSync, GateStatuses
    <2>4. l \in {"return", "invoke"}
      BY <2>2 DEF AfterSync
    <2>. HIDE DEF l
    <2>5. pc'[p] = l
      BY <1>0, <2>1 DEF Goto
    <2>6. Driven(p) /\ Unfinished(ckpt) /\ ~AtEnd => Driven(p)'
      BY <2>1, <2>3, <2>5 DEF Driven
    <2>7. Sound(ckpt)' /\ Sound(cfg[p])'
      BY <1>s, <2>1 DEF Sound
    <2>8. SoundInv'
      BY <1>0, <1>s, <2>1, <2>2, <2>4, <2>7, SoundKept
    <2>9. ThreadInv'
      BY <1>0, <2>1, ThreadKept, InDrive
    <2>10. DrivenInv'
      BY <1>0, <2>1, <2>6, DrivenKept
    <2>11. QED
      BY <2>8, <2>9, <2>10 DEF RestInv
  <1>14. CASE SyncWrite(p, "final_write", "return")
    <2>1. /\ Goto(p, "return") /\ ckpt' = ckpt /\ cfg' = cfg /\ row' = Written(p) /\ plan' = plan
          /\ seen' = seen /\ pc[p] = "final_write"
      BY <1>14 DEF SyncWrite, WriteRow
    <2>2. Written(p) # "paused" /\ ~Driven(p)
      BY <1>s, <2>1 DEF Written, SyncStatus, Sound, Driven
    <2>3. Sound(ckpt)' /\ Sound(cfg[p])'
      BY <1>s, <2>1 DEF Sound
    <2>4. QED
      BY <1>0, <1>s, <2>1, <2>2, <2>3, SoundKept, ThreadKept, DrivenKept, InDrive DEF RestInv
  <1>15. CASE Return(p)
    <2>1. PICK l \in {"done", "off"} : Goto(p, l)
      BY <1>15 DEF Return
    <2>2. /\ ckpt' = ckpt /\ cfg' = cfg /\ row' = row /\ plan' = plan
          /\ seen' = seen /\ pc[p] = "return"
      BY <1>15 DEF Return, store
    <2>3. ~Driven(p)
      BY <2>2 DEF Driven
    <2>4. QED
      BY <1>0, <1>s, <1>k, <1>c, <2>1, <2>2, <2>3, SoundKept, ThreadKept, DrivenKept DEF RestInv
  <1>16. CASE MarkPaused(p)
    BY <1>0, <1>16 DEF MarkPaused, SoundInv
  <1>17. QED
    BY <1>1, <1>2, <1>3, <1>4, <1>5, <1>6, <1>7, <1>8, <1>9, <1>10, <1>11, <1>12, <1>13,
       <1>14, <1>15, <1>16 DEF DriveStep

LEMMA RestOfRequestStep ==
    ASSUME GatesInv, RestInv, NEW r \in Requests, RequestStep(r)
    PROVE  RestInv'
  <1>0. /\ TypeInv /\ SoundInv /\ ThreadInv /\ DrivenInv
        /\ cfg \in [Procs -> Checkpoint] /\ pc \in [Procs -> PCs] /\ r \in Procs
    BY DEF GatesInv, RestInv, TypeInv, TypeOK, Procs
  <1>s. /\ row # "paused" /\ seen[r] # "paused" /\ Sound(ckpt) /\ Sound(cfg[r])
    BY <1>0 DEF SoundInv
  <1>2. CASE Guard(r) /\ op[r] \in GateOps
    <2>1. PICK l \in {"update_read", "off"} : Goto(r, l)
      BY <1>2 DEF Guard, FirstStep, GateOps
    <2>2. /\ ckpt' = ckpt /\ cfg' = cfg /\ row' = row /\ plan' = plan /\ seen' = seen
          /\ pc[r] = "guard"
      BY <1>2 DEF Guard, store
    <2>3. ~Driven(r) /\ Sound(ckpt)' /\ Sound(cfg[r])'
      BY <1>s, <2>2 DEF Driven, Sound
    <2>4. QED
      BY <1>0, <1>s, <2>1, <2>2, <2>3, SoundKept, ThreadKept, DrivenKept DEF RestInv, DriveHeld
  <1>3. CASE UpdateRead(r)
    <2>1. /\ Goto(r, "update_write") /\ row' = row /\ plan' = plan /\ seen' = seen
          /\ ckpt' = ckpt /\ cfg' = [cfg EXCEPT ![r] = ckpt] /\ pc[r] = "update_read"
      BY <1>3 DEF UpdateRead, store
    <2>2. cfg'[r] = ckpt /\ \A q \in Procs \ {r} : cfg'[q] = cfg[q]
      BY <1>0, <2>1
    <2>3. ~Driven(r) /\ Sound(ckpt)' /\ Sound(cfg[r])'
      BY <1>s, <2>1, <2>2 DEF Driven, Sound
    <2>4. SoundInv' /\ DrivenInv'
      BY <1>0, <1>s, <2>1, <2>2, <2>3, SoundKept, DrivenKept
    <2>5. ThreadInv'
      BY <1>0, <2>1, <2>2 DEF ThreadInv, Goto, DriveHeld
    <2>6. QED
      BY <2>4, <2>5 DEF RestInv
  <1>4. CASE UpdateWrite(r) /\ op[r] \in GateOps
    <2>. DEFINE new == Update(op[r], cfg[r])
    <2>1. /\ Goto(r, "acquire") /\ row' = row /\ plan' = plan /\ seen' = seen
          /\ ckpt' = new /\ cfg' = [cfg EXCEPT ![r] = new]
      BY <1>4 DEF UpdateWrite, GateOps
    <2>2. new.vals.is_paused = cfg[r].vals.is_paused /\ new.at # NoThread
      BY <1>0, <1>4, UpdateSound
    <2>. HIDE DEF new
    <2>3. /\ cfg'[r] = new /\ \A q \in Procs \ {r} : cfg'[q] = cfg[q]
          /\ pc'[r] = "acquire"
      BY <1>0, <2>1 DEF Goto
    <2>4. Sound(ckpt)' /\ Sound(cfg[r])'
      BY <1>s, <2>1, <2>2, <2>3 DEF Sound
    <2>5. DrivenInv'
      BY <1>0, <2>3 DEF DrivenInv, Driven
    <2>6. QED
      BY <1>0, <1>s, <2>1, <2>2, <2>3, <2>4, <2>5, SoundKept, ThreadKept DEF RestInv
  <1>5. CASE AnnotateRead(r)
    <2>1. /\ Goto(r, "annotate_write") /\ row' = row /\ plan' = plan /\ ckpt' = ckpt /\ cfg' = cfg
          /\ seen' = [seen EXCEPT ![r] = row] /\ pc[r] = "annotate_read"
      BY <1>5 DEF AnnotateRead, store
    <2>2. /\ seen'[r] = row /\ \A q \in Procs \ {r} : seen'[q] = seen[q]
          /\ ~Driven(r) /\ Sound(ckpt)' /\ Sound(cfg[r])'
      BY <1>0, <1>s, <2>1 DEF Driven, Sound, TypeInv, TypeOK
    <2>3. QED
      BY <1>0, <1>s, <2>1, <2>2, SoundKept, ThreadKept, DrivenKept DEF RestInv, DriveHeld
  <1>6. CASE AnnotateWrite(r)
    <2>1. /\ Goto(r, "off") /\ row' = seen[r] /\ plan' = plan /\ ckpt' = ckpt /\ cfg' = cfg
          /\ seen' = seen /\ pc[r] = "annotate_write"
      BY <1>6 DEF AnnotateWrite, WriteRow
    <2>2. ~Driven(r) /\ Sound(ckpt)' /\ Sound(cfg[r])'
      BY <1>s, <2>1 DEF Driven, Sound
    <2>3. QED
      BY <1>0, <1>s, <2>1, <2>2, SoundKept, ThreadKept, DrivenKept DEF RestInv, DriveHeld
  <1>7. QED
    BY <1>2, <1>3, <1>4, <1>5, <1>6, GateRequests

LEMMA RestOfOthers ==
    ASSUME Ops \subseteq GateOps, MaxFaults = 0, MaxCrashes = 0, GatesInv, RestInv,
           \/ \E r \in Requests, k \in Ops : Arrive(r, k)
           \/ \E t \in Tasks : MarkFailed(t) \/ Cleanup(t)
           \/ Disturbance
           \/ UNCHANGED vars
    PROVE  RestInv'
  <1>0. /\ TypeInv /\ SoundInv /\ ThreadInv /\ DrivenInv /\ faults = 0 /\ crashes = 0
        /\ cfg \in [Procs -> Checkpoint] /\ seen \in [Procs -> RunStatus]
    BY DEF GatesInv, RestInv, TypeInv, TypeOK
  <1>1. ASSUME NEW r \in Requests, NEW k \in Ops, Arrive(r, k) PROVE RestInv'
    <2>1. /\ Goto(r, "guard") /\ ckpt' = ckpt /\ cfg' = cfg /\ row' = row /\ plan' = plan
          /\ seen' = [seen EXCEPT ![r] = row] /\ pc[r] = "off" /\ r \in Procs
      BY <1>1 DEF Arrive, store, Procs
    <2>2. /\ ~Driven(r) /\ Sound(ckpt)' /\ Sound(cfg[r])' /\ row # "paused"
          /\ seen'[r] = row /\ \A q \in Procs \ {r} : seen'[q] = seen[q]
      BY <1>0, <2>1 DEF Driven, Sound, SoundInv
    <2>3. QED
      BY <1>0, <2>1, <2>2, SoundKept, ThreadKept, DrivenKept DEF RestInv, DriveHeld
  <1>2. ASSUME NEW t \in Tasks, MarkFailed(t) \/ Cleanup(t) PROVE RestInv'
    <2>1. t \in Procs /\ Cleanup(t)
      BY <1>2 DEF GatesInv, GateInv, SidePath, MarkFailed, Procs
    <2>2. /\ Goto(t, "off") /\ ckpt' = ckpt /\ cfg' = cfg /\ row' = row /\ plan' = plan
          /\ seen' = seen /\ pc[t] = "done"
      BY <2>1 DEF Cleanup, store
    <2>3. /\ ~Driven(t) /\ Sound(ckpt)' /\ Sound(cfg[t])' /\ row # "paused" /\ seen[t] # "paused"
      BY <1>0, <2>1, <2>2 DEF Driven, Sound, SoundInv
    <2>4. QED
      BY <1>0, <2>1, <2>2, <2>3, SoundKept, ThreadKept, DrivenKept DEF RestInv, DriveHeld
  <1>3. CASE Disturbance
    BY <1>0, <1>3 DEF Disturbance, CaptureLost, DriveRaises, MarkFailedLost, RequestRaises,
                      GuardUnread, Crash
  <1>4. CASE UNCHANGED vars
    BY <1>0, <1>4 DEF vars, RestInv, SoundInv, Sound, ThreadInv, DrivenInv, Driven, Unfinished,
                      AtEnd, Running, Base
  <1>5. QED
    BY <1>1, <1>2, <1>3, <1>4

LEMMA RestInvariant ==
    ASSUME Ops \subseteq GateOps, MaxFaults = 0, MaxCrashes = 0
    PROVE  Spec => []RestInv
  <1>1. Init => RestInv
    <2>. SUFFICES ASSUME Init PROVE RestInv
      OBVIOUS
    <2>1. PICK t \in Tasks : active = t
      BY DEF Init
    <2>2. t \in Procs /\ Driven(t)
      BY <2>1 DEF Init, Driven, Procs
    <2>3. SoundInv /\ ThreadInv
      BY DEF Init, SoundInv, Sound, ThreadInv, NoCheckpoint, EmptyState, NoThread, DriveHeld
    <2>4. QED
      BY <2>2, <2>3 DEF RestInv, DrivenInv
  <1>2. GatesInv /\ RestInv /\ [Next]_vars => RestInv'
    BY RestOfDriveStep, RestOfRequestStep, RestOfOthers DEF Next
  <1>3. QED
    BY <1>1, <1>2, GateInvariant, PTL DEF Spec

\* When nothing is at work on a run that has not come to the end of its graph, the API
\* does not report it as running: whichever answers to its gates cross each other, and
\* for any number of them, someone has driven the graph from the last one to the next gate
\* (_drive_workflow's loop).  It takes that nobody pauses or resumes, that no store
\* fails and that the process does not restart: otherwise the property is false.
THEOREM NoRunStranded ==
    ASSUME Ops \subseteq GateOps, MaxFaults = 0, MaxCrashes = 0
    PROVE  Spec => []NoStrandedRun
  <1>1. RestInv => NoStrandedRun
    <2>. SUFFICES ASSUME RestInv, Idle, ~AtEnd PROVE PublicStatus(row, ckpt) # "running"
      BY DEF NoStrandedRun
    <2>1. ~ \E p \in Procs : Driven(p)
      BY DEF Idle, Driven
    <2>2. ~Unfinished(ckpt)
      BY <2>1 DEF RestInv, DrivenInv
    <2>3. QED
      BY <2>2 DEF PublicStatus, Unfinished, GateStatuses
  <1>2. QED
    BY <1>1, RestInvariant, PTL

-----------------------------------------------------------------------------
(* Pauses.  Nobody resumes, no store fails and the process does not restart.  *)

OddSteps == {"resume_write", "schedule", "fail_write"}

CalmInv ==
    /\ \A r \in Requests : pc[r] \notin OffDuty => op[r] \in Ops
    /\ \A r \in Requests : pc[r] = "pause_write" => op[r] = "pause"
    /\ \A p \in Procs : pc[p] \notin OddSteps

LEMMA CalmKept ==
    ASSUME TypeInv, CalmInv, NEW p \in Procs, NEW l, Goto(p, l), op' = op,
           pc[p] \notin OffDuty \/ l \in OffDuty,
           l \notin OddSteps, l = "pause_write" => op[p] = "pause"
    PROVE  CalmInv'
  BY DEF OffDuty, TypeInv, TypeOK, CalmInv, Goto, Procs

LEMMA CalmOfDriveStep ==
    ASSUME TypeInv, CalmInv, NEW p \in Procs, DriveStep(p)
    PROVE  CalmInv'
  <1>. DEFINE Targets == DriveHeld \cup {"off", "done"}
  <1>1. CASE SyncWrite(p, "sync_write", AfterSync(Written(p), cfg[p]))
    <2>1. AfterSync(Written(p), cfg[p]) \in Targets
      BY DEF AfterSync, DriveHeld
    <2>2. QED
      BY <1>1, <2>1, CalmKept DEF SyncWrite, DriveHeld, OddSteps, OffDuty
  <1>2. CASE ~ SyncWrite(p, "sync_write", AfterSync(Written(p), cfg[p]))
    <2>1. op' = op /\ pc[p] \in DriveHeld \cup {"acquire"} /\ \E l \in Targets : Goto(p, l)
      BY <1>2 DEF DriveStep, Acquire, Invoke, NodeReadsRow, NodeWritesRow, NodeFinalizes,
                  NodeKeepsRow, NodeEnds, NodeFails, Executing, Capture, Snapshot, MarkPaused,
                  SyncRead, SyncWrite, Return, DriveHeld
    <2>2. QED
      BY <2>1, CalmKept DEF DriveHeld, OddSteps, OffDuty
  <1>3. QED
    BY <1>1, <1>2

\* What is left of the steps of a request.
CalmRequestStep(r) ==
    \/ Guard(r) \/ PauseWrite(r) \/ UpdateRead(r) \/ UpdateWrite(r)
    \/ SyncRead(r, "pause_sync_read", "pause_sync_write")
    \/ SyncWrite(r, "pause_sync_write", "off")

LEMMA CalmRequests ==
    ASSUME CalmInv, NEW r \in Requests, RequestStep(r)
    PROVE  /\ r \in Procs
           /\ \/ CalmRequestStep(r) /\ op[r] \in Ops /\ pc[r] \notin OffDuty
              \/ AnnotateRead(r) \/ AnnotateWrite(r)
  <1>1. pc[r] \notin OddSteps /\ r \in Procs
    BY DEF CalmInv, Procs
  <1>2. CalmRequestStep(r) \/ AnnotateRead(r) \/ AnnotateWrite(r)
    BY <1>1 DEF RequestStep, CalmRequestStep, ResumeWrite, ScheduleDropped, ScheduleDrive, OddSteps
  <1>3. CalmRequestStep(r) => pc[r] \notin OffDuty
    BY DEF CalmRequestStep, Guard, PauseWrite, UpdateRead, UpdateWrite, SyncRead, SyncWrite,
           OffDuty
  <1>4. QED
    BY <1>1, <1>2, <1>3 DEF CalmInv

LEMMA CalmOfRequestStep ==
    ASSUME "resume" \notin Ops, TypeInv, CalmInv, NEW r \in Requests, RequestStep(r)
    PROVE  CalmInv'
  <1>0. CASE AnnotateRead(r) \/ AnnotateWrite(r)
    <2>1. PICK l \in {"annotate_write", "off"} : Goto(r, l)
      BY <1>0 DEF AnnotateRead, AnnotateWrite
    <2>2. op' = op /\ r \in Procs
      BY <1>0 DEF AnnotateRead, AnnotateWrite, Procs
    <2>3. QED
      BY <2>1, <2>2, CalmKept DEF OddSteps, OffDuty
  <1>. SUFFICES ASSUME CalmRequestStep(r), op[r] \in Ops, pc[r] \notin OffDuty, r \in Procs
                PROVE  CalmInv'
    BY <1>0, CalmRequests
  <1>1. CalmRequestStep(r) /\ pc[r] \notin OffDuty /\ r \in Procs
    OBVIOUS
  <1>2. op[r] \in GateOps \cup {"pause"}
    BY ConstantsAssumption DEF AllOps
  <1>3. op' = op
    BY <1>1 DEF CalmRequestStep, Guard, PauseWrite, UpdateRead, UpdateWrite, SyncRead, SyncWrite
  <1>4. CASE Guard(r)
    <2>1. PICK l \in {"pause_write", "update_read", "off"} : Goto(r, l) /\
             (l = "pause_write" => op[r] = "pause")
      BY <1>2, <1>4 DEF Guard, FirstStep, GateOps
    <2>2. QED
      BY <1>1, <1>3, <2>1, CalmKept DEF OddSteps
  <1>5. CASE UpdateWrite(r)
    <2>1. PICK l \in {"pause_sync_read", "acquire"} : Goto(r, l)
      BY <1>2, <1>5 DEF UpdateWrite, GateOps
    <2>2. QED
      BY <1>1, <1>3, <2>1, CalmKept DEF OddSteps
  <1>6. CASE PauseWrite(r) \/ UpdateRead(r) \/ SyncRead(r, "pause_sync_read", "pause_sync_write")
             \/ SyncWrite(r, "pause_sync_write", "off")
    <2>1. PICK l \in {"off", "update_read", "update_write", "pause_sync_write"} : Goto(r, l)
      BY <1>6 DEF PauseWrite, UpdateRead, SyncRead, SyncWrite
    <2>2. QED
      BY <1>1, <1>3, <2>1, CalmKept DEF OddSteps
  <1>7. QED
    BY <1>1, <1>4, <1>5, <1>6 DEF CalmRequestStep

CalmNext ==
    \/ \E p \in Procs : DriveStep(p)
    \/ \E t \in Tasks : Cleanup(t)
    \/ \E r \in Requests : RequestStep(r)
    \/ \E r \in Requests, k \in Ops : Arrive(r, k)
    \/ UNCHANGED vars

LEMMA CalmStep ==
    ASSUME "resume" \notin Ops, MaxFaults = 0, MaxCrashes = 0, TypeInv, CalmInv, [Next]_vars
    PROVE  CalmNext /\ CalmInv'
  <1>0. faults = 0 /\ crashes = 0
    BY DEF TypeInv, TypeOK
  <1>1. ~Disturbance
    BY <1>0 DEF Disturbance, CaptureLost, DriveRaises, MarkFailedLost, RequestRaises,
                GuardUnread, Crash
  <1>2. \A t \in Tasks : ~MarkFailed(t)
    BY DEF CalmInv, OddSteps, MarkFailed, Procs
  <1>3. CalmNext
    BY <1>1, <1>2 DEF Next, CalmNext
  <1>4. ASSUME NEW t \in Tasks, Cleanup(t) PROVE CalmInv'
    <2>1. t \in Procs /\ Goto(t, "off") /\ op' = op /\ pc[t] = "done"
      BY <1>4 DEF Cleanup, Procs
    <2>2. QED
      BY <2>1, CalmKept DEF OddSteps, OffDuty
  <1>5. ASSUME NEW r \in Requests, NEW k \in Ops, Arrive(r, k) PROVE CalmInv'
    <2>1. pc' = [pc EXCEPT ![r] = "guard"] /\ op' = [op EXCEPT ![r] = k] /\ r \in Procs
      BY <1>5 DEF Arrive, Goto, Procs
    <2>2. pc \in [Procs -> PCs] /\ op \in [Procs -> AllOps \cup {"drive", "start"}]
      BY DEF TypeInv, TypeOK
    <2>3. QED
      BY <2>1, <2>2 DEF CalmInv, OddSteps, Procs
  <1>6. CASE UNCHANGED vars
    BY <1>3, <1>6 DEF vars, CalmInv
  <1>7. QED
    BY <1>3, <1>4, <1>5, <1>6, CalmOfDriveStep, CalmOfRequestStep DEF CalmNext

LEMMA CalmInvariant ==
    ASSUME "resume" \notin Ops, MaxFaults = 0, MaxCrashes = 0
    PROVE  Spec => []CalmInv
  <1>1. Init => CalmInv
    BY ConstantsAssumption DEF Init, CalmInv, OddSteps, OffDuty, Procs
  <1>2. TypeInv /\ CalmInv /\ [Next]_vars => CalmInv'
    BY CalmStep
  <1>3. QED
    BY <1>1, <1>2, TypeInvariant, PTL DEF Spec

\* The graph goes on from c, and nobody has told it to pause.
Going(c) == Unfinished(c) /\ ~c.vals.is_paused /\ c.at # "finalize"

\* The drive of p looks at the latest checkpoint again, or is about to pause it.
Carries(p) == Driven(p) \/ pc[p] = "mark_paused"

CarriedInv == Going(ckpt) => \E p \in Procs : Carries(p)

LEMMA GoingGoesOn ==
    ASSUME NEW pl \in Plan, NEW c \in Checkpoint, Going(c), c.at # NoThread
    PROVE  /\ NextNode(pl, c) # End
           /\ GraphStatus(c.vals) \notin GateStatuses \cup {"completed", "failed"}
  <1>1. GraphStatus(c.vals) = "running" /\ c.at # "finalize"
    BY DEF Going, Unfinished
  <1>2. QED
    BY <1>1, UnfinishedGoesOn DEF GateStatuses

\* A step of p that leaves the latest checkpoint alone.
LEMMA CarriedKept ==
    ASSUME TypeInv, CarriedInv, NEW p \in Procs, NEW l, Goto(p, l), ckpt' = ckpt,
           \A q \in Procs \ {p} : cfg'[q] = cfg[q],
           Carries(p) /\ Going(ckpt) => Carries(p)'
    PROVE  CarriedInv'
  <1>. SUFFICES ASSUME Going(ckpt)' PROVE (\E q \in Procs : Carries(q))'
    BY DEF CarriedInv
  <1>1. Going(ckpt)
    BY DEF Going, Unfinished
  <1>2. PICK q \in Procs : Carries(q)
    BY <1>1 DEF CarriedInv
  <1>3. CASE q = p
    BY <1>1, <1>2, <1>3
  <1>4. CASE q # p
    <2>1. pc'[q] = pc[q] /\ cfg'[q] = cfg[q]
      BY <1>4 DEF Goto, TypeInv, TypeOK
    <2>2. QED
      BY <1>2, <2>1 DEF Carries, Driven
  <1>5. QED
    BY <1>3, <1>4

\* What a drive has looked at after a node is a checkpoint of the thread.
Looked(p) == pc[p] \in {"sync_read", "sync_write", "mark_paused"} => cfg[p].at # NoThread

LookedInv == \A p \in Procs : Looked(p)

LEMMA LookedKept ==
    ASSUME TypeInv, LookedInv, NEW p \in Procs, NEW l, Goto(p, l),
           \A q \in Procs \ {p} : cfg'[q] = cfg[q],
           l \in {"sync_read", "sync_write", "mark_paused"} => cfg'[p].at # NoThread
    PROVE  LookedInv'
  BY DEF TypeInv, TypeOK, LookedInv, Looked, Goto

LEMMA LookedOfDriveStep ==
    ASSUME TypeInv, ThreadInv, LookedInv, NEW p \in Procs, DriveStep(p)
    PROVE  LookedInv'
  <1>0. cfg \in [Procs -> Checkpoint]
    BY DEF TypeInv, TypeOK
  <1>1. CASE Snapshot(p)
    <2>1. ckpt.at # NoThread
      BY <1>1, InDrive DEF Snapshot, DriveHeld
    <2>2. /\ Goto(p, "sync_read") /\ cfg'[p] = ckpt
          /\ \A q \in Procs \ {p} : cfg'[q] = cfg[q]
      BY <1>0, <1>1 DEF Snapshot
    <2>3. QED
      BY <2>1, <2>2, LookedKept
  <1>2. CASE SyncRead(p, "sync_read", "sync_write")
    BY <1>2, LookedKept DEF SyncRead, LookedInv, Looked
  <1>3. CASE SyncWrite(p, "sync_write", AfterSync(Written(p), cfg[p]))
    <2>. DEFINE l == AfterSync(Written(p), cfg[p])
    <2>1. Goto(p, l) /\ cfg' = cfg /\ cfg[p].at # NoThread
      BY <1>3 DEF SyncWrite, LookedInv, Looked
    <2>. HIDE DEF l
    <2>2. QED
      BY <2>1, LookedKept
  <1>4. CASE \/ Acquire(p) \/ Invoke(p) \/ NodeReadsRow(p) \/ NodeWritesRow(p)
             \/ NodeFinalizes(p) \/ NodeKeepsRow(p) \/ NodeEnds(p) \/ NodeFails(p)
             \/ Capture(p) \/ MarkPaused(p) \/ Return(p)
             \/ SyncRead(p, "final_read", "final_write")
             \/ SyncWrite(p, "final_write", "return")
    <2>1. PICK l \in {"invoke", "snapshot", "node", "gate_write", "node_end", "capture",
                     "final_read", "final_write", "return", "done", "off"} : Goto(p, l)
      BY <1>4 DEF Acquire, Invoke, NodeReadsRow, NodeWritesRow, NodeFinalizes, NodeKeepsRow,
                  NodeEnds, NodeFails, Capture, MarkPaused, Return, SyncRead, SyncWrite
    <2>2. \A q \in Procs \ {p} : cfg'[q] = cfg[q]
      BY <1>0, <1>4 DEF Acquire, Invoke, NodeReadsRow, NodeWritesRow, NodeFinalizes,
                        NodeKeepsRow, NodeEnds, NodeFails, Capture, MarkPaused, Return,
                        SyncRead, SyncWrite
    <2>3. QED
      BY <2>1, <2>2, LookedKept
  <1>5. QED
    BY <1>1, <1>2, <1>3, <1>4 DEF DriveStep

\* A failure that was recorded leaves nothing to go on from.
LEMMA FailedStops ==
    ASSUME TypeInv, NEW p \in Procs, ckpt.at # NoThread
    PROVE  Failed(p).at # NoThread /\ ~Going(Failed(p))
  <1>. DEFINE c == IF cfg[p].at = NoThread THEN ckpt ELSE cfg[p]
              w == [c.vals EXCEPT !.error = TRUE]
  <1>1. c \in Checkpoint /\ c.at # NoThread
    BY DEF TypeInv, TypeOK
  <1>2. Failed(p) = [c EXCEPT !.vals = w] /\ w.error
    BY <1>1 DEF Failed, Checkpoint, GraphState
  <1>. HIDE DEF c, w
  <1>3. Failed(p).at = c.at /\ Failed(p).vals = w
    BY <1>1, <1>2 DEF Checkpoint
  <1>4. GraphStatus(w) # "running"
    BY <1>2 DEF GraphStatus
  <1>5. QED
    BY <1>1, <1>3, <1>4 DEF Going, Unfinished

LEMMA CarriedOfDriveStep ==
    ASSUME TypeInv, ThreadInv, LookedInv, CarriedInv, NEW p \in Procs, DriveStep(p)
    PROVE  ThreadInv' /\ CarriedInv'
  <1>. USE DEF DriveHeld
  <1>0. /\ cfg \in [Procs -> Checkpoint] /\ pc \in [Procs -> PCs]
        /\ ckpt \in Checkpoint /\ plan \in Plan
    BY DEF TypeInv, TypeOK
  <1>1. CASE Acquire(p)
    <2>1. Goto(p, "invoke") /\ ckpt' = ckpt /\ cfg' = cfg /\ pc'[p] = "invoke"
      BY <1>0, <1>1 DEF Acquire, store, Goto
    <2>2. QED
      BY <2>1, ThreadKept, CarriedKept DEF Carries, Driven
  <1>2. CASE Invoke(p)
    <2>1. PICK l \in {"snapshot", "node"} : Goto(p, l)
      BY <1>2 DEF Invoke
    <2>2. ckpt' = (IF cfg[p].at = NoThread THEN InputCheckpoint ELSE ckpt) /\ pc'[p] = l
      BY <1>0, <1>2, <2>1 DEF Invoke, Goto
    <2>3. ckpt'.at # NoThread
      BY <2>2 DEF ThreadInv, InputCheckpoint, Entry, NoThread
    <2>4. QED
      BY <2>1, <2>2, <2>3, ThreadKept DEF CarriedInv, Carries, Driven
  <1>3. CASE NodeReadsRow(p) \/ NodeWritesRow(p) \/ NodeFinalizes(p) \/ NodeKeepsRow(p)
             \/ NodeFails(p)
    <2>1. PICK l \in {"gate_write", "node_end", "capture"} : Goto(p, l)
      BY <1>3 DEF NodeReadsRow, NodeWritesRow, NodeFinalizes, NodeKeepsRow, NodeFails
    <2>2. /\ ckpt' = ckpt /\ cfg' = cfg /\ pc[p] \in {"node", "gate_write", "node_end"}
          /\ pc'[p] = l
      BY <1>0, <1>3, <2>1 DEF NodeReadsRow, NodeWritesRow, NodeFinalizes, NodeKeepsRow,
                              NodeFails, Executing, store, Goto
    <2>3. ckpt'.at # NoThread
      BY <2>2, InDrive
    <2>4. QED
      BY <2>1, <2>2, <2>3, ThreadKept, CarriedKept DEF Carries, Driven
  <1>4. CASE NodeEnds(p)
    <2>1. Goto(p, "snapshot") /\ ckpt'.at = Running(p) /\ pc'[p] = "snapshot"
      BY <1>0, <1>4 DEF NodeEnds, Goto
    <2>2. Running(p) \in Nodes
      BY <1>4, BaseType DEF NodeEnds, TypeInv, NodeChosen, Executing
    <2>3. ckpt'.at # NoThread
      BY <2>1, <2>2 DEF Nodes, NoThread
    <2>4. QED
      BY <2>1, <2>3, ThreadKept DEF CarriedInv, Carries, Driven
  <1>5. CASE Capture(p)
    <2>1. Goto(p, "final_read") /\ ckpt' = Failed(p) /\ pc[p] = "capture"
      BY <1>5 DEF Capture
    <2>2. ckpt.at # NoThread
      BY <2>1, InDrive
    <2>3. Failed(p).at # NoThread /\ ~Going(Failed(p))
      BY <2>2, FailedStops
    <2>4. ~Going(ckpt)' /\ ckpt'.at # NoThread
      BY <2>1, <2>3 DEF Going, Unfinished
    <2>5. QED
      BY <2>1, <2>4, ThreadKept DEF CarriedInv
  <1>6. CASE Snapshot(p)
    <2>1. /\ Goto(p, "sync_read") /\ ckpt' = ckpt /\ pc[p] = "snapshot" /\ cfg'[p] = ckpt
          /\ pc'[p] = "sync_read" /\ \A q \in Procs \ {p} : cfg'[q] = cfg[q]
      BY <1>0, <1>6 DEF Snapshot, store, Goto
    <2>2. ckpt'.at # NoThread
      BY <2>1, InDrive
    <2>3. QED
      BY <2>1, <2>2, ThreadKept, CarriedKept DEF Carries, Driven
  <1>7. CASE MarkPaused(p)
    <2>1. /\ Goto(p, "final_read") /\ ckpt' = [cfg[p] EXCEPT !.vals.is_paused = TRUE]
          /\ pc[p] = "mark_paused"
      BY <1>7 DEF MarkPaused
    <2>2. cfg[p].at # NoThread
      BY <2>1 DEF LookedInv, Looked
    <2>3. ckpt'.at # NoThread /\ ckpt'.vals.is_paused
      BY <1>0, <2>1, <2>2 DEF Checkpoint, GraphState
    <2>4. QED
      BY <2>1, <2>3, ThreadKept DEF CarriedInv, Going
  <1>8. CASE SyncRead(p, "sync_read", "sync_write") \/ SyncRead(p, "final_read", "final_write")
    <2>1. PICK l \in {"sync_write", "final_write"} : Goto(p, l)
      BY <1>8 DEF SyncRead
    <2>2. /\ ckpt' = ckpt /\ cfg' = cfg /\ pc[p] \in {"sync_read", "final_read"} /\ pc'[p] = l
          /\ pc[p] = "sync_read" => l = "sync_write"
      BY <1>0, <1>8, <2>1 DEF SyncRead, store, Goto
    <2>3. ckpt'.at # NoThread
      BY <2>2, InDrive
    <2>4. QED
      BY <2>1, <2>2, <2>3, ThreadKept, CarriedKept DEF Carries, Driven
  <1>9. CASE SyncWrite(p, "sync_write", AfterSync(Written(p), cfg[p]))
    <2>. DEFINE l == AfterSync(Written(p), cfg[p])
    <2>1. Goto(p, l) /\ ckpt' = ckpt /\ cfg' = cfg /\ pc[p] = "sync_write" /\ pc'[p] = l
      BY <1>0, <1>9 DEF SyncWrite, Goto
    <2>2. ckpt'.at # NoThread
      BY <2>1, InDrive
    <2>3. ASSUME cfg[p] = ckpt, Going(ckpt) PROVE l \in {"invoke", "mark_paused"}
      <3>1. /\ NextNode(plan, ckpt) # End
            /\ GraphStatus(ckpt.vals) \notin GateStatuses \cup {"completed", "failed"}
        BY <1>0, <2>1, <2>2, <2>3, GoingGoesOn
      <3>2. ~ckpt.vals.is_paused
        BY <2>3 DEF Going
      <3>3. QED
        BY <2>3, <3>1, <3>2 DEF AfterSync
    <2>. HIDE DEF l
    <2>4. Carries(p) /\ Going(ckpt) => Carries(p)'
      BY <2>1, <2>3 DEF Carries, Driven
    <2>5. QED
      BY <2>1, <2>2, <2>4, ThreadKept, CarriedKept
  <1>10. CASE SyncWrite(p, "final_write", "return")
    <2>1. Goto(p, "return") /\ ckpt' = ckpt /\ cfg' = cfg /\ pc[p] = "final_write"
      BY <1>10 DEF SyncWrite
    <2>2. ckpt'.at # NoThread /\ ~Carries(p)
      BY <2>1, InDrive DEF Carries, Driven
    <2>3. QED
      BY <2>1, <2>2, ThreadKept, CarriedKept
  <1>11. CASE Return(p)
    <2>1. PICK l \in {"done", "off"} : Goto(p, l)
      BY <1>11 DEF Return
    <2>2. ckpt' = ckpt /\ cfg' = cfg /\ pc[p] = "return" /\ ~Carries(p)
      BY <1>11 DEF Return, store, Carries, Driven
    <2>3. QED
      BY <2>1, <2>2, ThreadKept, CarriedKept
  <1>12. QED
    BY <1>1, <1>2, <1>3, <1>4, <1>5, <1>6, <1>7, <1>8, <1>9, <1>10, <1>11 DEF DriveStep

\* A pause that reaches the graph state is in it.
LEMMA PauseMarks ==
    ASSUME NEW c \in Checkpoint
    PROVE  Update("pause", c).at # NoThread /\ Update("pause", c).vals.is_paused
  <1>. DEFINE at == IF c.at = NoThread THEN Entry ELSE c.at
              w == [c.vals EXCEPT !.is_paused = TRUE]
  <1>1. w.is_paused /\ at # NoThread
    BY DEF Checkpoint, GraphState, Entry, NoThread
  <1>2. Update("pause", c) = [at |-> at, vals |-> w]
    BY DEF Update, OutlineOps, FactOps
  <1>. HIDE DEF at, w
  <1>3. QED
    BY <1>1, <1>2

LEMMA CarriedOfRequestStep ==
    ASSUME "resume" \notin Ops, TypeInv, CalmInv, ThreadInv, LookedInv, CarriedInv,
           NEW r \in Requests, RequestStep(r)
    PROVE  ThreadInv' /\ LookedInv' /\ CarriedInv'
  <1>n. CASE AnnotateRead(r) \/ AnnotateWrite(r)
    <2>1. PICK l \in {"annotate_write", "off"} : Goto(r, l)
      BY <1>n DEF AnnotateRead, AnnotateWrite
    <2>2. /\ ckpt' = ckpt /\ cfg' = cfg /\ pc[r] \in {"annotate_read", "annotate_write"}
          /\ r \in Procs
      BY <1>n DEF AnnotateRead, AnnotateWrite, store, Procs
    <2>3. ~Carries(r)
      BY <2>2 DEF Carries, Driven
    <2>4. ThreadInv'
      BY <2>1, <2>2, ThreadKept DEF DriveHeld
    <2>5. QED
      BY <2>1, <2>2, <2>3, <2>4, LookedKept, CarriedKept
  <1>. SUFFICES ASSUME CalmRequestStep(r), op[r] \in Ops
                PROVE  ThreadInv' /\ LookedInv' /\ CarriedInv'
    BY <1>n, CalmRequests
  <1>0. /\ cfg \in [Procs -> Checkpoint] /\ pc \in [Procs -> PCs] /\ r \in Procs
        /\ CalmRequestStep(r) /\ op[r] \in GateOps \cup {"pause"}
    BY ConstantsAssumption DEF TypeInv, TypeOK, AllOps, Procs
  <1>1. CASE UpdateRead(r)
    <2>1. /\ Goto(r, "update_write") /\ ckpt' = ckpt /\ cfg'[r] = ckpt /\ pc[r] = "update_read"
          /\ \A q \in Procs \ {r} : cfg'[q] = cfg[q]
      BY <1>0, <1>1 DEF UpdateRead, store
    <2>2. ~Carries(r)
      BY <2>1 DEF Carries, Driven
    <2>3. ThreadInv'
      BY <1>0, <2>1 DEF ThreadInv, Goto, DriveHeld
    <2>4. QED
      BY <1>0, <2>1, <2>2, <2>3, LookedKept, CarriedKept
  <1>2. CASE UpdateWrite(r)
    <2>. DEFINE new == Update(op[r], cfg[r])
    <2>1. PICK l \in {"pause_sync_read", "acquire"} : Goto(r, l)
             /\ (op[r] # "pause" => l = "acquire")
      BY <1>0, <1>2 DEF UpdateWrite, GateOps
    <2>2. /\ ckpt' = new /\ cfg' = [cfg EXCEPT ![r] = new] /\ pc'[r] = l
      BY <1>0, <1>2, <2>1 DEF UpdateWrite, Goto
    <2>3. new.at # NoThread /\ (op[r] = "pause" => new.vals.is_paused)
      <3>1. CASE op[r] = "pause"
        BY <1>0, <3>1, PauseMarks
      <3>2. CASE op[r] \in GateOps
        BY <1>0, <3>2, UpdateSound DEF GateOps
      <3>3. QED
        BY <1>0, <3>1, <3>2
    <2>. HIDE DEF new
    <2>4. CarriedInv'
      <3>1. CASE op[r] = "pause"
        BY <2>2, <2>3, <3>1 DEF CarriedInv, Going
      <3>2. CASE op[r] # "pause"
        BY <1>0, <2>1, <2>2, <3>2 DEF CarriedInv, Carries, Driven
      <3>3. QED
        BY <3>1, <3>2
    <2>5. ThreadInv'
      BY <1>0, <2>1, <2>2, <2>3, ThreadKept
    <2>6. LookedInv'
      BY <1>0, <2>1, <2>2, LookedKept
    <2>7. QED
      BY <2>4, <2>5, <2>6
  <1>3. CASE ~(UpdateRead(r) \/ UpdateWrite(r))
    <2>1. PICK l \in {"off", "pause_write", "update_read", "pause_sync_write"} : Goto(r, l)
      BY <1>0, <1>3 DEF CalmRequestStep, Guard, FirstStep, GateOps, PauseWrite, SyncRead, SyncWrite
    <2>2. /\ ckpt' = ckpt /\ cfg' = cfg
          /\ pc[r] \in {"guard", "pause_write", "pause_sync_read", "pause_sync_write"}
      BY <1>0, <1>3 DEF CalmRequestStep, Guard, PauseWrite, SyncRead, SyncWrite, store
    <2>3. ~Carries(r)
      BY <2>2 DEF Carries, Driven
    <2>4. ThreadInv'
      BY <1>0, <2>1, <2>2, ThreadKept DEF DriveHeld
    <2>5. QED
      BY <1>0, <2>1, <2>2, <2>3, <2>4, LookedKept, CarriedKept
  <1>4. QED
    BY <1>1, <1>2, <1>3

CarryInv == ThreadInv /\ LookedInv /\ CarriedInv

LEMMA CarryStep ==
    ASSUME "resume" \notin Ops, TypeInv, CalmInv, CarryInv, CalmNext
    PROVE  CarryInv'
  <1>0. ThreadInv /\ LookedInv /\ CarriedInv
    BY DEF CarryInv
  <1>1. ASSUME NEW p \in Procs, DriveStep(p) PROVE CarryInv'
    BY <1>0, <1>1, CarriedOfDriveStep, LookedOfDriveStep DEF CarryInv
  <1>2. ASSUME NEW r \in Requests, RequestStep(r) PROVE CarryInv'
    BY <1>0, <1>2, CarriedOfRequestStep DEF CarryInv
  <1>3. ASSUME NEW p \in Procs, NEW l \in {"guard", "off"}, Goto(p, l), ckpt' = ckpt,
               cfg' = cfg, pc[p] \in {"off", "done"}
        PROVE  CarryInv'
    <2>1. ~Carries(p)
      BY <1>3 DEF Carries, Driven
    <2>2. ThreadInv'
      BY <1>0, <1>3, ThreadKept DEF DriveHeld
    <2>3. LookedInv' /\ CarriedInv'
      BY <1>0, <1>3, <2>1, LookedKept, CarriedKept
    <2>4. QED
      BY <2>2, <2>3 DEF CarryInv
  <1>4. ASSUME NEW t \in Tasks, Cleanup(t) PROVE CarryInv'
    BY <1>3, <1>4 DEF Cleanup, store, Procs
  <1>5. ASSUME NEW r \in Requests, NEW k \in Ops, Arrive(r, k) PROVE CarryInv'
    BY <1>3, <1>5 DEF Arrive, store, Procs
  <1>6. CASE UNCHANGED vars
    <2>1. pc' = pc /\ ckpt' = ckpt /\ cfg' = cfg
      BY <1>6 DEF vars
    <2>2. QED
      BY <1>0, <2>1 DEF CarryInv, ThreadInv, LookedInv, Looked, CarriedInv, Carries, Driven,
                        Going, Unfinished
  <1>7. QED
    BY <1>1, <1>2, <1>4, <1>5, <1>6 DEF CalmNext

LEMMA CarryInit == Init => CarryInv
  <1>. SUFFICES ASSUME Init PROVE CarryInv
    OBVIOUS
  <1>1. PICK t \in Tasks : active = t
    BY DEF Init
  <1>2. t \in Procs /\ Carries(t)
    BY <1>1 DEF Init, Carries, Driven, Procs
  <1>3. ThreadInv /\ LookedInv
    BY DEF Init, ThreadInv, LookedInv, Looked, NoCheckpoint, NoThread, DriveHeld
  <1>4. QED
    BY <1>2, <1>3 DEF CarryInv, CarriedInv

\* When everything is at rest, a pause that is in the row is in the graph state too,
\* whichever drive it hit, at whichever step, and whichever answers to the gates come
\* before and after it (_drive_workflow's paused branch, and pause's own write), unless
\* the graph is at its end.  It takes that nobody resumes, that no store fails and that
\* the process does not restart; without any one of these it is false.
THEOREM PausesReachGraph ==
    ASSUME "resume" \notin Ops, MaxFaults = 0, MaxCrashes = 0
    PROVE  Spec => []PauseReachesGraph
  <1>1. TypeInv /\ CalmInv /\ CarryInv /\ [Next]_vars => CarryInv'
    BY CalmStep, CarryStep
  <1>2. Spec => []CarryInv
    BY <1>1, CarryInit, TypeInvariant, CalmInvariant, PTL DEF Spec
  <1>3. CarryInv => PauseReachesGraph
    <2>. SUFFICES ASSUME CarryInv, Idle, PublicStatus(row, ckpt) = "paused",
                         ~ckpt.vals.is_paused, ~AtEnd
                  PROVE  FALSE
      BY DEF PauseReachesGraph
    <2>1. \A p \in Procs : ~Carries(p)
      BY DEF Idle, Carries, Driven
    <2>2. Unfinished(ckpt)
      BY DEF PublicStatus, Unfinished, GraphStatus, GateStatuses
    <2>3. QED
      BY <2>1, <2>2 DEF CarryInv, CarriedInv, Going, AtEnd
  <1>4. QED
    BY <1>2, <1>3, PTL

=============================================================================
