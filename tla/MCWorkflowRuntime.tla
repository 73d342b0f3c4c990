------------------------- MODULE MCWorkflowRuntime -------------------------
(* Small instances of WorkflowRuntime for TLC. *)
EXTENDS WorkflowRuntime, TLC

CONSTANTS r1, r2, t1, t2

TwoRequests == {r1, r2}
OneRequest == {r1}
TwoTasks == {t1, t2}
OneTask == {t1}

Symmetric == Permutations({r1, r2}) \cup Permutations({t1, t2})

\* The part of the state a later step can still read: a process's copies of the
\* row, of a checkpoint and of its operation are dead outside these steps.
Live(f, p, labels) == IF pc[p] \in labels THEN f[p] ELSE NoProc

LiveView ==
    <<plan, row, ckpt, lock, active, pc, accepted, calls, faults, crashes,
      [p \in Procs |->
        <<Live(op, p, {"guard", "pause_write", "resume_write", "update_read", "update_write"}),
          Live(cfg, p, PCs \ {"off", "done", "fail_write", "snapshot", "return",
                              "guard", "pause_write", "resume_write", "update_read"}),
          Live(seen, p, {"guard", "annotate_write", "gate_write", "sync_write", "final_write",
                         "pause_sync_write"}),
          Live(started, p, DriveHeld)>>]>>

\* The default plan: every step and every gate.
FullPlan == [outline_gate |-> TRUE, self_refine |-> TRUE,
             fact_check |-> TRUE, fact_check_gate |-> TRUE]

\* The plans whose runs reach the fact-check gate: without self-refinement.
UnrefinedPlan == [FullPlan EXCEPT !.self_refine = FALSE]

\* No gate and no optional step.
BarePlan == [outline_gate |-> FALSE, self_refine |-> FALSE,
             fact_check |-> FALSE, fact_check_gate |-> FALSE]

GatePlans == {FullPlan, UnrefinedPlan}
PausePlans == {BarePlan, UnrefinedPlan}
EveryPlan == Plan
PauseOps == {"pause", "resume"}
PauseAndAccept == {"pause", "resume", "accept_outline"}
PauseAndGates == {"pause", "accept_outline", "regenerate_outline", "answer_facts", "clarify"}

=============================================================================
