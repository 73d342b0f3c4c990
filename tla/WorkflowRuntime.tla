--------------------------- MODULE WorkflowRuntime ---------------------------
(***************************************************************************)
(* One workflow run driven by ContentGenerationWorkflow                    *)
(* (backend/graph/executor.py) under the HTTP handlers of                  *)
(* backend/routes/workflow_routes.py: the row of workflow_runs, the latest *)
(* checkpoint of its thread, the per-run asyncio lock, the _active_tasks   *)
(* entry, the background drives and the requests in flight.                *)
(*                                                                         *)
(* asyncio switches coroutines only at an await, so an action is what runs *)
(* between two awaits of the store or of LangGraph.  A process is an HTTP  *)
(* request slot or a background-task slot; a request that answers a gate   *)
(* drives the graph itself, so both take the drive's actions.              *)
(*                                                                         *)
(* A RunnableConfig pinned to a checkpoint_id names an immutable row, so a *)
(* process keeps the checkpoint itself in cfg instead of its identifier.   *)
(***************************************************************************)
EXTENDS ContentGraph, FiniteSets

CONSTANTS Requests,   \* slots for HTTP requests in flight
          Tasks,      \* slots for background drives
          Plans,      \* the runtime plans a run may be started with
          Ops,        \* the operations the clients call
          MaxCalls,   \* bound on the number of calls
          MaxFaults,  \* bound on exceptions outside the nodes
          MaxCrashes, \* bound on restarts of the API process
          NoProc      \* no process

Procs == Requests \cup Tasks

GateOps == {"clarify", "accept_outline", "regenerate_outline",
            "answer_facts", "answer_some_facts", "skip_facts"}
AllOps == GateOps \cup {"pause", "resume"}

ASSUME ConstantsAssumption ==
    /\ IsFiniteSet(Requests) /\ IsFiniteSet(Tasks)
    /\ Requests \cap Tasks = {}
    /\ NoProc \notin Procs
    /\ Requests # {} /\ Tasks # {}
    /\ Plans \subseteq Plan
    /\ Ops \subseteq AllOps
    /\ MaxCalls \in Nat /\ MaxFaults \in Nat /\ MaxCrashes \in Nat

VARIABLES plan,     \* the compiled runtime plan of the run
          row,      \* workflow_runs.status
          ckpt,     \* the latest checkpoint of the thread
          lock,     \* the holder of the run's asyncio.Lock
          active,   \* the task in _active_tasks, done or not
          pc,       \* where each process is
          op,       \* the operation each request serves
          cfg,      \* the checkpoint each process has pinned or read
          seen,     \* the row status each process read last
          calls, faults, crashes,
          accepted, \* an accept decision has been written to the graph
          started   \* nodes each drive started since the row became paused

store == <<row, ckpt>>
sched == <<lock, active>>
bounds == <<calls, faults, crashes>>
history == <<accepted, started>>
vars == <<plan, row, ckpt, lock, active, pc, op, cfg, seen,
          calls, faults, crashes, accepted, started>>

DriveHeld == {"invoke", "node", "gate_write", "node_end", "snapshot", "sync_read",
              "sync_write", "mark_paused", "capture", "final_read", "final_write", "return"}
RequestOnly == {"guard", "pause_write", "resume_write", "update_read", "update_write",
                "schedule", "pause_sync_read", "pause_sync_write",
                "annotate_read", "annotate_write"}
TaskOnly == {"fail_write", "done"}
PCs == DriveHeld \cup RequestOnly \cup TaskOnly \cup {"off", "acquire"}

\* Processes between the entry and the exit of `async with self._get_lock(...)`.
Holding(p) == pc[p] \in DriveHeld

\* Processes inside graph.ainvoke, running a node.
Executing(p) == pc[p] \in {"node", "gate_write", "node_end"}

\* ContentGenerationWorkflow._is_task_running
TaskRunning == active # NoProc /\ pc[active] # "done"

Goto(p, l) == pc' = [pc EXCEPT ![p] = l]

\* Write status s to the row.  A row that leaves "paused" starts a new count.
WriteRow(s) ==
    /\ row' = s
    /\ started' = IF s = "paused" THEN started ELSE [p \in Procs |-> 0]

TypeOK ==
    /\ plan \in Plan
    /\ row \in RunStatus
    /\ ckpt \in Checkpoint
    /\ lock \in Procs \cup {NoProc}
    /\ active \in Tasks \cup {NoProc}
    /\ pc \in [Procs -> PCs]
    /\ op \in [Procs -> AllOps \cup {"drive", "start"}]
    /\ cfg \in [Procs -> Checkpoint]
    /\ seen \in [Procs -> RunStatus]
    /\ calls \in 0..MaxCalls
    /\ faults \in 0..MaxFaults
    /\ crashes \in 0..MaxCrashes
    /\ accepted \in BOOLEAN
    /\ started \in [Procs -> Nat]

-----------------------------------------------------------------------------
(* The drive: _drive_workflow, entered by a background task or by the request *)
(* that answered a gate.                                                      *)

\* The checkpoint an invocation of p runs from.  The first drive of a run has no
\* pinned checkpoint: it writes its input over whatever the thread holds.
Base(p) == IF cfg[p].at = NoThread THEN InputCheckpoint ELSE cfg[p]

Running(p) == NextNode(plan, Base(p))

\* A drive that does not wait for the lock.
AcquireUnlocked(p) ==
    /\ pc[p] = "acquire"
    /\ lock' = p
    /\ started' = [started EXCEPT ![p] = 0]
    /\ Goto(p, "invoke")
    /\ UNCHANGED <<plan, store, active, op, cfg, seen, bounds, accepted>>

Acquire(p) ==
    /\ pc[p] = "acquire"
    /\ lock = NoProc
    /\ lock' = p
    /\ started' = [started EXCEPT ![p] = 0]
    /\ Goto(p, "invoke")
    /\ UNCHANGED <<plan, store, active, op, cfg, seen, bounds, accepted>>

\* graph.ainvoke begins: an input is written as a checkpoint of its own, then
\* the next node runs, if there is one.
Invoke(p) ==
    /\ pc[p] = "invoke"
    /\ ckpt' = IF cfg[p].at = NoThread THEN InputCheckpoint ELSE ckpt
    /\ IF Running(p) = End
       THEN Goto(p, "snapshot") /\ UNCHANGED started
       ELSE /\ Goto(p, "node")
            /\ started' = IF row = "paused" THEN [started EXCEPT ![p] = @ + 1] ELSE started
    /\ UNCHANGED <<plan, row, sched, op, cfg, seen, bounds, accepted>>

\* The part of a node that touches the row.  A gate node reads the row ...
NodeReadsRow(p) ==
    /\ pc[p] = "node"
    /\ Running(p) \in GateWriters
    /\ NodeOutcomes(plan, Running(p), Base(p).vals) # {}
    /\ seen' = [seen EXCEPT ![p] = row]
    /\ Goto(p, "gate_write")
    /\ UNCHANGED <<plan, store, sched, op, cfg, bounds, history>>

\* ... and writes all of it back with new gate metadata.
NodeWritesRow(p) ==
    /\ pc[p] = "gate_write"
    /\ WriteRow(seen[p])
    /\ Goto(p, "node_end")
    /\ UNCHANGED <<plan, ckpt, sched, op, cfg, seen, bounds, accepted>>

NodeFinalizes(p) ==
    /\ pc[p] = "node"
    /\ Running(p) = "finalize"
    /\ Base(p).vals.input
    /\ WriteRow("completed")
    /\ Goto(p, "node_end")
    /\ UNCHANGED <<plan, ckpt, sched, op, cfg, seen, bounds, accepted>>

NodeKeepsRow(p) ==
    /\ pc[p] = "node"
    /\ Running(p) \notin GateWriters \cup {"finalize"}
    /\ NodeOutcomes(plan, Running(p), Base(p).vals) # {}
    /\ Goto(p, "node_end")
    /\ UNCHANGED <<plan, store, sched, op, cfg, seen, bounds, history>>

\* The node returns and LangGraph stores its checkpoint (interrupt_after).
NodeEnds(p) ==
    /\ pc[p] = "node_end"
    /\ \E v \in NodeOutcomes(plan, Running(p), Base(p).vals) :
          ckpt' = [at |-> Running(p), vals |-> v]
    /\ Goto(p, "snapshot")
    /\ UNCHANGED <<plan, row, sched, op, cfg, seen, bounds, history>>

\* Any await of a node may raise (a provider error, bad output, the store).
NodeFails(p) ==
    /\ Executing(p)
    /\ Goto(p, "capture")
    /\ UNCHANGED <<plan, store, sched, op, cfg, seen, bounds, history>>

\* The checkpoint a failure is recorded on, with the error in its state.
Failed(p) == [(IF cfg[p].at = NoThread THEN ckpt ELSE cfg[p]) EXCEPT !.vals.error = TRUE]

\* _capture_graph_failure: the error goes into the graph state, then the row is
\* synchronised and the drive returns.
Capture(p) ==
    /\ pc[p] = "capture"
    /\ ckpt' = Failed(p)
    /\ cfg' = [cfg EXCEPT ![p] = Failed(p)]
    /\ Goto(p, "final_read")
    /\ UNCHANGED <<plan, row, sched, op, seen, bounds, history>>

\* aupdate_state itself fails: the error stays in the local copy of the state.
CaptureLost(p) ==
    /\ pc[p] = "capture"
    /\ faults < MaxFaults
    /\ faults' = faults + 1
    /\ cfg' = [cfg EXCEPT ![p] = Failed(p)]
    /\ Goto(p, "final_read")
    /\ UNCHANGED <<plan, store, sched, op, seen, calls, crashes, history>>

\* snapshot_after: the latest checkpoint, whoever wrote it.
Snapshot(p) ==
    /\ pc[p] = "snapshot"
    /\ cfg' = [cfg EXCEPT ![p] = ckpt]
    /\ Goto(p, "sync_read")
    /\ UNCHANGED <<plan, store, sched, op, seen, bounds, history>>

\* _sync_workflow_run reads the row, awaits, and writes the whole row back.
SyncRead(p, from, to) ==
    /\ pc[p] = from
    /\ seen' = [seen EXCEPT ![p] = row]
    /\ Goto(p, to)
    /\ UNCHANGED <<plan, store, sched, op, cfg, bounds, history>>

Written(p) == SyncStatus(seen[p], cfg[p].vals)

SyncWrite(p, from, to) ==
    /\ pc[p] = from
    /\ WriteRow(Written(p))
    /\ Goto(p, to)
    /\ UNCHANGED <<plan, ckpt, sched, op, cfg, seen, bounds, accepted>>

\* A loop without the branch for a paused row.
AfterSyncIgnoresPause(s, c) ==
    IF GraphStatus(c.vals) \in GateStatuses \cup {"completed", "failed"}
       \/ NextNode(plan, c) = End
    THEN "return" ELSE "invoke"

\* A loop that is left after its first node.
AfterSyncOnce(s, c) ==
    IF s = "paused" /\ ~c.vals.is_paused THEN "mark_paused" ELSE "return"

\* What the loop does after a synchronisation that wrote status s.
AfterSync(s, c) ==
    IF s = "paused" /\ ~c.vals.is_paused THEN "mark_paused"
    ELSE IF \/ s = "paused"
            \/ GraphStatus(c.vals) \in GateStatuses \cup {"completed", "failed"}
            \/ NextNode(plan, c) = End
    THEN "return"
    ELSE "invoke"

\* A drive that stops at a pause and leaves the graph state as it is.
MarkPausedRowOnly(p) ==
    /\ pc[p] = "mark_paused"
    /\ cfg' = [cfg EXCEPT ![p].vals.is_paused = TRUE]
    /\ Goto(p, "final_read")
    /\ UNCHANGED <<plan, store, sched, op, seen, bounds, history>>

\* A pause that was only in the row is written into the graph state.
MarkPaused(p) ==
    /\ pc[p] = "mark_paused"
    /\ LET paused == [cfg[p] EXCEPT !.vals.is_paused = TRUE]
       IN  ckpt' = paused /\ cfg' = [cfg EXCEPT ![p] = paused]
    /\ Goto(p, "final_read")
    /\ UNCHANGED <<plan, row, sched, op, seen, bounds, history>>

\* A drive that ends without giving the lock back.
ReturnLocked(p) ==
    /\ pc[p] = "return"
    /\ Goto(p, IF p \in Tasks THEN "done" ELSE "off")
    /\ UNCHANGED <<plan, store, sched, op, cfg, seen, bounds, history>>

\* The drive leaves `async with`; a request has its answer, a task is done.
Return(p) ==
    /\ pc[p] = "return"
    /\ lock' = NoProc
    /\ Goto(p, IF p \in Tasks THEN "done" ELSE "off")
    /\ UNCHANGED <<plan, store, active, op, cfg, seen, bounds, history>>

\* An exception outside the nodes (a read or write of the store, an event) leaves
\* the drive, and with it the lock.
DriveRaises(p) ==
    /\ pc[p] \in DriveHeld \ {"capture"} /\ ~Executing(p)
    /\ faults < MaxFaults
    /\ faults' = faults + 1
    /\ lock' = NoProc
    /\ Goto(p, IF p \in Tasks THEN "fail_write" ELSE "off")
    /\ UNCHANGED <<plan, store, active, op, cfg, seen, calls, crashes, history>>

\* _run_scheduled_drive: the exception of a task becomes the status "failed".
MarkFailed(t) ==
    /\ pc[t] = "fail_write"
    /\ WriteRow("failed")
    /\ Goto(t, "done")
    /\ UNCHANGED <<plan, ckpt, sched, op, cfg, seen, bounds, accepted>>

\* _mark_failed raises too: the task ends with an exception nobody reads.
MarkFailedLost(t) ==
    /\ pc[t] = "fail_write"
    /\ faults < MaxFaults
    /\ faults' = faults + 1
    /\ Goto(t, "done")
    /\ UNCHANGED <<plan, store, sched, op, cfg, seen, calls, crashes, history>>

\* The done-callback pops the run's entry, whichever task the entry names.
Cleanup(t) ==
    /\ pc[t] = "done"
    /\ active' = NoProc
    /\ Goto(t, "off")
    /\ UNCHANGED <<plan, store, lock, op, cfg, seen, bounds, history>>

DriveStep(p) ==
    \/ Acquire(p) \/ Invoke(p)
    \/ NodeReadsRow(p) \/ NodeWritesRow(p) \/ NodeFinalizes(p) \/ NodeKeepsRow(p)
    \/ NodeEnds(p) \/ NodeFails(p)
    \/ Capture(p) \/ Snapshot(p) \/ MarkPaused(p)
    \/ SyncRead(p, "sync_read", "sync_write") \/ SyncWrite(p, "sync_write", AfterSync(Written(p), cfg[p]))
    \/ SyncRead(p, "final_read", "final_write") \/ SyncWrite(p, "final_write", "return")
    \/ Return(p)

-----------------------------------------------------------------------------
(* The requests: workflow_routes.py and the methods of the executor it calls. *)

\* The handler has loaded the row (_load_runtime_context); the checkpoint is
\* read at the guard, one await later.
Arrive(r, k) ==
    /\ pc[r] = "off"
    /\ calls < MaxCalls
    /\ calls' = calls + 1
    /\ op' = [op EXCEPT ![r] = k]
    /\ seen' = [seen EXCEPT ![r] = row]
    /\ Goto(r, "guard")
    /\ UNCHANGED <<plan, store, sched, cfg, faults, crashes, history>>

OutlineOps == {"accept_outline", "regenerate_outline"}
FactOps == {"answer_facts", "answer_some_facts", "skip_facts"}

\* Whether the handler of operation k goes on at public status s, row status raw.
Admitted(k, s, raw) ==
    CASE k = "pause" -> s = "running"
      [] k = "resume" -> s \notin GateStatuses /\ (s = "paused" \/ raw = "paused")
      [] k = "clarify" -> s = "needs_clarification"
      [] k \in OutlineOps -> s = "awaiting_outline_approval"
      [] k \in FactOps -> s = "awaiting_fact_check_approval"

\* The step at which an admitted operation changes something first.
FirstStep(k) == CASE k = "pause" -> "pause_write"
                  [] k = "resume" -> "resume_write"
                  [] OTHER -> "update_read"

Guard(r) ==
    /\ pc[r] = "guard"
    /\ Goto(r, IF Admitted(op[r], PublicStatus(seen[r], ckpt), seen[r])
               THEN FirstStep(op[r]) ELSE "off")
    /\ UNCHANGED <<plan, store, sched, op, cfg, seen, bounds, history>>

\* The checkpoint cannot be read: the handler (and likewise any reader of the run) notes
\* that in the row it loaded before and writes all of it back; the run counts as failed.
GuardUnread(r) ==
    /\ pc[r] = "guard"
    /\ faults < MaxFaults
    /\ faults' = faults + 1
    /\ WriteRow(seen[r])
    /\ Goto(r, IF Admitted(op[r], "failed", seen[r]) THEN FirstStep(op[r]) ELSE "off")
    /\ UNCHANGED <<plan, ckpt, sched, op, cfg, seen, calls, crashes, accepted>>

\* pause: the row first; the graph state only when no task is running, which
\* leaves a drive made by a request out.
PauseWrite(r) ==
    /\ pc[r] = "pause_write"
    /\ WriteRow("paused")
    /\ Goto(r, IF TaskRunning THEN "off" ELSE "update_read")
    /\ UNCHANGED <<plan, ckpt, sched, op, cfg, seen, bounds, accepted>>

ResumeWrite(r) ==
    /\ pc[r] = "resume_write"
    /\ WriteRow("running")
    /\ Goto(r, "update_read")
    /\ UNCHANGED <<plan, ckpt, sched, op, cfg, seen, bounds, accepted>>

\* aupdate_state: read the latest checkpoint, apply the values as if its node,
\* or the node named by as_node, had returned them, write a new checkpoint.
UpdateRead(r) ==
    /\ pc[r] = "update_read"
    /\ cfg' = [cfg EXCEPT ![r] = ckpt]
    /\ Goto(r, "update_write")
    /\ UNCHANGED <<plan, store, sched, op, seen, bounds, history>>

Answers(k) == CASE k = "answer_facts" -> "full"
                [] k = "answer_some_facts" -> "partial"
                [] k = "skip_facts" -> "none"

Update(k, c) ==
    LET at == IF c.at = NoThread THEN Entry ELSE c.at
    IN  CASE k = "pause" -> [at |-> at, vals |-> [c.vals EXCEPT !.is_paused = TRUE]]
          [] k = "resume" -> [at |-> at, vals |-> [c.vals EXCEPT !.is_paused = FALSE]]
          [] k = "clarify" -> [c EXCEPT !.at = at]
          [] k \in OutlineOps ->
               [at |-> "generate_outline",
                vals |-> [c.vals EXCEPT !.awaiting_outline = FALSE,
                            !.user_decision = IF k = "accept_outline"
                                              THEN "accept" ELSE "regenerate"]]
          [] k \in FactOps ->
               [at |-> "check_facts",
                vals |-> [c.vals EXCEPT !.awaiting_fact_check = FALSE,
                                        !.fact_answers = Answers(k)]]

UpdateWrite(r) ==
    /\ pc[r] = "update_write"
    /\ ckpt' = Update(op[r], cfg[r])
    /\ cfg' = [cfg EXCEPT ![r] = Update(op[r], cfg[r])]
    /\ accepted' = (accepted \/ op[r] = "accept_outline")
    /\ Goto(r, CASE op[r] = "pause" -> "pause_sync_read"
                 [] op[r] = "resume" -> "schedule"
                 [] OTHER -> "acquire")
    /\ UNCHANGED <<plan, row, sched, op, seen, bounds, started>>

\* _schedule_drive returns at once when the run's task is still running ...
ScheduleDropped(r) ==
    /\ pc[r] = "schedule"
    /\ TaskRunning
    /\ Goto(r, "off")
    /\ UNCHANGED <<plan, store, sched, op, cfg, seen, bounds, history>>

\* ... and otherwise creates a task, without an await in between.
ScheduleDrive(r, t) ==
    /\ pc[r] = "schedule"
    /\ ~TaskRunning
    /\ pc[t] = "off"
    /\ active' = t
    /\ cfg' = [cfg EXCEPT ![t] = cfg[r]]
    /\ pc' = [pc EXCEPT ![r] = "off", ![t] = "acquire"]
    /\ UNCHANGED <<plan, store, lock, op, seen, bounds, history>>

\* _start_workflow_run, once start() has scheduled the drive: the owner is noted in the
\* row, which is read, and written back whole one await later.
AnnotateRead(r) ==
    /\ pc[r] = "annotate_read"
    /\ seen' = [seen EXCEPT ![r] = row]
    /\ Goto(r, "annotate_write")
    /\ UNCHANGED <<plan, store, sched, op, cfg, bounds, history>>

AnnotateWrite(r) ==
    /\ pc[r] = "annotate_write"
    /\ WriteRow(seen[r])
    /\ Goto(r, "off")
    /\ UNCHANGED <<plan, ckpt, sched, op, cfg, seen, bounds, accepted>>

\* An await of the store raises: the handler answers 500.
RequestRaises(r) ==
    /\ pc[r] \in RequestOnly \ {"schedule"}
    /\ faults < MaxFaults
    /\ faults' = faults + 1
    /\ Goto(r, "off")
    /\ UNCHANGED <<plan, store, sched, op, cfg, seen, calls, crashes, history>>

RequestStep(r) ==
    \/ Guard(r) \/ PauseWrite(r) \/ ResumeWrite(r) \/ UpdateRead(r) \/ UpdateWrite(r)
    \/ SyncRead(r, "pause_sync_read", "pause_sync_write")
    \/ SyncWrite(r, "pause_sync_write", "off")
    \/ ScheduleDropped(r)
    \/ AnnotateRead(r) \/ AnnotateWrite(r)
    \/ \E t \in Tasks : ScheduleDrive(r, t)

-----------------------------------------------------------------------------
\* The API process restarts: locks, tasks and requests are gone, the row and the
\* checkpoints stay.
Crash ==
    /\ crashes < MaxCrashes
    /\ crashes' = crashes + 1
    /\ lock' = NoProc
    /\ active' = NoProc
    /\ pc' = [p \in Procs |-> "off"]
    /\ UNCHANGED <<plan, store, op, cfg, seen, calls, faults, history>>

\* start() has created the row, built the initial state and scheduled the drive; the
\* request that called it has still to note the run's owner.
Init ==
    /\ plan \in Plans
    /\ row = "running"
    /\ ckpt = NoCheckpoint
    /\ lock = NoProc
    /\ active \in Tasks
    /\ \E r \in Requests :
         /\ pc = [p \in Procs |-> IF p = active THEN "acquire"
                                 ELSE IF p = r THEN "annotate_read" ELSE "off"]
         /\ op = [p \in Procs |-> IF p = r THEN "start" ELSE "drive"]
    /\ cfg = [p \in Procs |-> NoCheckpoint]
    /\ seen = [p \in Procs |-> "running"]
    /\ calls = 0 /\ faults = 0 /\ crashes = 0
    /\ accepted = FALSE
    /\ started = [p \in Procs |-> 0]

Disturbance ==
    \/ \E p \in Procs : CaptureLost(p) \/ DriveRaises(p)
    \/ \E t \in Tasks : MarkFailedLost(t)
    \/ \E r \in Requests : RequestRaises(r) \/ GuardUnread(r)
    \/ Crash

Next ==
    \/ \E p \in Procs : DriveStep(p)
    \/ \E t \in Tasks : MarkFailed(t) \/ Cleanup(t)
    \/ \E r \in Requests : RequestStep(r)
    \/ \E r \in Requests, k \in Ops : Arrive(r, k)
    \/ Disturbance

\* The event loop runs every coroutine whose await has completed, and hands the
\* lock on when it is released.  Nothing makes a client call, a store fail or the
\* process stop.
Fairness ==
    /\ \A p \in Procs : WF_vars(DriveStep(p))
    /\ \A t \in Tasks : WF_vars(MarkFailed(t)) /\ WF_vars(Cleanup(t))
    /\ \A r \in Requests : WF_vars(RequestStep(r))

Spec == Init /\ [][Next]_vars
FairSpec == Spec /\ Fairness

-----------------------------------------------------------------------------
(* Properties. *)

\* The run's lock belongs to a drive exactly while that drive is between its entry and
\* its exit, whichever way it leaves: by its end, by a captured failure or by an
\* exception (`async with self._get_lock`).
LockOwned == \A p \in Procs : lock = p <=> Holding(p)

\* Two nodes of a run never execute at once, although a request may drive beside a
\* task, and the done-callback of an old task may drop the entry of its successor so
\* that _schedule_drive creates a second one.
OneNodeAtATime == \A p, q \in Procs : Executing(p) /\ Executing(q) => p = q

Needs(n, v) ==
    CASE n = "approve_outline" -> v.outline /\ v.user_decision # "none"
      [] n = "generate_content" -> v.outline
      [] n = "self_refine" -> v.outline /\ (v.sections => v.draft)
      [] n = "approve_fact_check" -> v.report
      [] OTHER -> TRUE

\* Whatever requests cross each other, no checkpoint a drive can start from makes
\* the graph enter a node without the state the node takes for granted
\* (builder.py's edges against the state[...] accesses of nodes/).
NodeInputsPresent ==
    \A c \in {ckpt} \cup {cfg[p] : p \in Procs} : Needs(NextNode(plan, c), c.vals)

\* The nodes behind the outline gate (builder.py's edges).
GatedNodes == {"generate_content", "self_refine", "check_facts",
               "approve_fact_check", "finalize"}

\* When the plan has an outline gate, content is generated only for a run in which
\* a reviewer accepted an outline, also when a second answer to the gate arrives
\* after the first (nodes/outline_generator.py, conditions.py).
ContentOnlyAfterAcceptance ==
    plan.outline_gate /\ ~accepted =>
        \A p \in Procs : Executing(p) => Running(p) \notin GatedNodes

\* A pause takes effect at the next checkpoint: while the row stays paused a drive
\* starts at most one more node (_drive_workflow's paused branch, pause's docstring).
PauseStopsTheDrive == \A p \in Procs : started[p] <= 1

\* With a fact-check gate, no run is finalized while its report holds a high-risk
\* claim nobody decided on (README: high-risk items go through approve_fact_check).
RisksConfirmed ==
    \A p \in Procs : Executing(p) /\ Running(p) = "finalize" /\ plan.fact_check_gate =>
        ~Base(p).vals.risky

\* A run the API reports as completed has been fact-checked when its plan says so.
FactCheckBeforeCompleted ==
    PublicStatus(row, ckpt) = "completed" /\ plan.fact_check => ckpt.vals.report

\* A completed run stays completed, whichever drives, late answers or metadata
\* writes are still under way (_sync_workflow_run never leaves COMPLETED).  One write
\* can undo it: the one the start request makes to note the owner, when the drive it
\* scheduled overtakes it.  This is about the gates: a pause that races the end of a
\* run does overwrite the row.
CompletedIsFinal ==
    [][row = "completed" /\ row' # "completed" =>
          \E r \in Requests : pc[r] = "annotate_write" /\ pc'[r] = "off"]_vars

Idle == \A p \in Procs : pc[p] = "off"

\* The graph has been gone through.
AtEnd == ckpt.at = "finalize"

\* When nothing is at work on a run that has not come to the end of its graph, the API
\* does not report it as running: someone can answer a gate, resume it, or it failed.
\* (At the end the graph state tells a completed run by its text: one without sections
\* has only the row to say so, and the start request may have overwritten that.)
NoStrandedRun == Idle /\ ~AtEnd => PublicStatus(row, ckpt) # "running"

\* When everything is at rest, a pause that is in the row is in the graph state too,
\* so that the next reader of either sees it (_drive_workflow 683-698, pause 1128-1142),
\* unless nothing is left to pause.
PauseReachesGraph ==
    Idle /\ PublicStatus(row, ckpt) = "paused" => ckpt.vals.is_paused \/ AtEnd

\* A run is paused only by the pause handler and left only by the resume handler.
PausedNotOverwritten ==
    [][row = "paused" /\ row' # "paused" =>
          \E r \in Requests : pc[r] = "resume_write"]_vars

\* Every drive that takes the lock gives it back and ends.
DrivesEnd == \A t \in Tasks : pc[t] = "acquire" ~> pc[t] = "off"

\* Every request is answered, the ones that drive the graph themselves included.
RequestsAnswered == \A r \in Requests : pc[r] = "guard" ~> pc[r] = "off"

-----------------------------------------------------------------------------
(* What the run is to its reviewers: ReviewedRun, with the locks, checkpoints, *)
(* requests and retries hidden.                                                *)

\* The node under way, whichever process executes it.
Doing == IF \E p \in Procs : Executing(p)
         THEN Running(CHOOSE p \in Procs : Executing(p))
         ELSE End

Review == INSTANCE ReviewedRun
          WITH Work <- Nodes, Gated <- GatedNodes, Nothing <- End,
               reviewed <- plan.outline_gate, approved <- accepted, doing <- Doing

\* Drives, answers, pauses, failures and restarts that cross each other add up to
\* one node at a time, none of the gated ones before an acceptance: a node that has
\* begun is not exchanged under way for another, and no request makes one end
\* (executor.py's lock, the checkpoint each drive is pinned to, builder.py's edges).
ImplementsReviewedRun == Review!Spec

=============================================================================
