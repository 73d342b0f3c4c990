---------------------------- MODULE ContentGraph ----------------------------
(***************************************************************************)
(* The content generation graph of backend/graph: its checkpoints, the     *)
(* routing functions on its edges, what each node does to the graph state, *)
(* and the status the executor and the API derive from a checkpoint.       *)
(*                                                                         *)
(* A checkpoint is [at, vals]: `at` is the node the state was last written *)
(* as (LangGraph computes the next node from it and from the state), and   *)
(* `vals` keeps of GraphState the fields some branch of the code tests.    *)
(* Everything else in GraphState (texts, artifact ids, citations, ...) is  *)
(* data no control decision reads.                                         *)
(***************************************************************************)
EXTENDS Integers

Nodes == {"parse_intent", "clarify_intent", "retrieve_knowledge", "generate_outline",
          "approve_outline", "generate_content", "self_refine", "check_facts",
          "approve_fact_check", "finalize"}

NoThread == "none"         \* the thread has no checkpoint yet
Entry == "__start__"       \* the input has been written, no node has run
End == "__end__"           \* a checkpoint with an empty `next`

\* What the reviewer asked for at the outline gate.  "accept" is the actions
\* "approve" and "modify", which differ only in the text of the outline.
OutlineActions == {"none", "accept", "regenerate"}

\* The answers at the fact-check gate: a decision for every high-risk claim, or
\* for some of them only.  No decision at all is stored as an empty dict, which
\* the routing tests as false exactly like None.
FactAnswers == {"none", "full", "partial"}

\* The features of a compiled runtime plan that a branch of the graph tests.
Plan == [outline_gate: BOOLEAN, self_refine: BOOLEAN,
         fact_check: BOOLEAN, fact_check_gate: BOOLEAN]

GraphState == [input: BOOLEAN,             \* the initial state was written
               needs_clarification: BOOLEAN,
               outline: BOOLEAN,           \* outline is not None
               sections: BOOLEAN,          \* the outline has a section
               awaiting_outline: BOOLEAN,
               outline_approved: BOOLEAN,
               user_decision: OutlineActions,
               draft: BOOLEAN,             \* draft_sections is not empty
               final: BOOLEAN,             \* final_content is not empty
               report: BOOLEAN,            \* fact_check_report is not None
               risky: BOOLEAN,             \* the report has high-risk items left
               awaiting_fact_check: BOOLEAN,
               fact_answers: FactAnswers,
               is_paused: BOOLEAN,
               error: BOOLEAN]

Checkpoint == [at: Nodes \cup {NoThread, Entry}, vals: GraphState]

EmptyState == [input |-> FALSE, needs_clarification |-> FALSE, outline |-> FALSE,
               sections |-> FALSE, awaiting_outline |-> FALSE, outline_approved |-> FALSE,
               user_decision |-> "none", draft |-> FALSE, final |-> FALSE,
               report |-> FALSE, risky |-> FALSE, awaiting_fact_check |-> FALSE,
               fact_answers |-> "none", is_paused |-> FALSE, error |-> FALSE]

NoCheckpoint == [at |-> NoThread, vals |-> EmptyState]
InputCheckpoint == [at |-> Entry, vals |-> [EmptyState EXCEPT !.input = TRUE]]

-----------------------------------------------------------------------------
(* Routing: the functions of graph/conditions.py and the edges of builder.py. *)

AfterParseIntent(v) ==
    IF v.needs_clarification THEN "clarify_intent" ELSE "retrieve_knowledge"

\* A router that looks at the reviewer's decision before the outline.
AfterOutlineDecisionFirst(v) ==
    IF v.awaiting_outline THEN End
    ELSE IF v.user_decision # "none" /\ ~v.outline_approved THEN "approve_outline"
    ELSE IF v.outline /\ v.outline_approved THEN "generate_content"
    ELSE "generate_outline"

\* A router that takes any answer to the gate for an acceptance.
AfterOutlineAnyAnswer(v) ==
    IF v.awaiting_outline THEN End
    ELSE IF v.outline /\ v.user_decision # "none" THEN "generate_content"
    ELSE IF v.outline /\ v.outline_approved THEN "generate_content"
    ELSE "generate_outline"

AfterOutline(v) ==
    IF v.awaiting_outline THEN End
    ELSE IF ~v.outline THEN "generate_outline"
    ELSE IF v.outline_approved THEN "generate_content"
    ELSE IF v.user_decision # "none" THEN "approve_outline"
    ELSE "generate_outline"

AfterRefine(plan) == IF plan.fact_check THEN "check_facts" ELSE "finalize"

AfterContent(plan) == IF plan.self_refine THEN "self_refine" ELSE AfterRefine(plan)

AfterFactCheck(v) ==
    IF v.awaiting_fact_check THEN End
    ELSE IF v.report /\ v.fact_answers # "none" THEN "approve_fact_check"
    ELSE "finalize"

\* The single node LangGraph would run next from checkpoint c.
NextNode(plan, c) ==
    CASE c.at = Entry -> "parse_intent"
      [] c.at = "parse_intent" -> AfterParseIntent(c.vals)
      [] c.at = "clarify_intent" -> "retrieve_knowledge"
      [] c.at = "retrieve_knowledge" -> "generate_outline"
      [] c.at \in {"generate_outline", "approve_outline"} -> AfterOutline(c.vals)
      [] c.at = "generate_content" -> AfterContent(plan)
      [] c.at = "self_refine" -> AfterRefine(plan)
      [] c.at = "check_facts" -> AfterFactCheck(c.vals)
      [] c.at = "approve_fact_check" -> "finalize"
      [] OTHER -> End

-----------------------------------------------------------------------------
(* The nodes.  Each operator is the set of graph states the node can return  *)
(* from v; a node that raises returns nothing.                               *)

ParseIntent(v) == {[v EXCEPT !.needs_clarification = b] : b \in BOOLEAN}

ClarifyIntent(v) == {[v EXCEPT !.needs_clarification = FALSE]}

\* A generator that forgets to approve its outline when no gate is configured.
GenerateOutlineUnapproved(plan, v) ==
    {[v EXCEPT !.outline = TRUE, !.sections = some, !.awaiting_outline = plan.outline_gate,
               !.outline_approved = FALSE, !.user_decision = "none"] : some \in BOOLEAN}

\* An outline may come without a section (models/outline.py sets no minimum).
GenerateOutline(plan, v) ==
    {[v EXCEPT !.outline = TRUE, !.sections = some, !.awaiting_outline = plan.outline_gate,
               !.outline_approved = ~plan.outline_gate, !.user_decision = "none"]
     : some \in BOOLEAN}

\* A modification may take the last section away, or give the first one.
ApproveOutline(v) ==
    IF v.user_decision = "accept"
    THEN {[v EXCEPT !.sections = some, !.outline_approved = TRUE, !.awaiting_outline = FALSE,
                    !.user_decision = "none"] : some \in BOOLEAN}
    ELSE {[v EXCEPT !.outline = FALSE, !.sections = FALSE, !.outline_approved = FALSE,
                    !.awaiting_outline = FALSE, !.user_decision = "none"]}

\* Without sections the drafts, and what is refined from them, are empty dicts,
\* which every later test takes for missing.
GenerateContent(v) == {[v EXCEPT !.draft = v.sections]}

SelfRefine(v) == {[v EXCEPT !.final = v.draft]}

\* Only a text has claims.
CheckFacts(plan, v) ==
    {[v EXCEPT !.report = TRUE, !.risky = r, !.fact_answers = "none",
               !.awaiting_fact_check = r /\ plan.fact_check_gate]
     : r \in {risk \in BOOLEAN : risk => v.draft \/ v.final}}

\* It raises when a high-risk claim has no decision; otherwise every decision is
\* applied and its claim counts as resolved.
ApproveFactCheck(v) ==
    IF v.risky /\ v.fact_answers # "full" THEN {}
    ELSE {[v EXCEPT !.risky = FALSE, !.awaiting_fact_check = FALSE,
                    !.fact_answers = "none", !.final = v.final \/ v.draft]}

Finalize(v) == {[v EXCEPT !.final = v.final \/ v.draft]}

\* Every node reads the input fields of the state (workflow_run_id first), so
\* it raises on a thread whose input was never written.
NodeOutcomes(plan, n, v) ==
    IF ~v.input THEN {} ELSE
    CASE n = "parse_intent" -> ParseIntent(v)
      [] n = "clarify_intent" -> ClarifyIntent(v)
      [] n = "retrieve_knowledge" -> {v}
      [] n = "generate_outline" -> GenerateOutline(plan, v)
      [] n = "approve_outline" -> ApproveOutline(v)
      [] n = "generate_content" -> GenerateContent(v)
      [] n = "self_refine" -> SelfRefine(v)
      [] n = "check_facts" -> CheckFacts(plan, v)
      [] n = "approve_fact_check" -> ApproveFactCheck(v)
      [] n = "finalize" -> Finalize(v)

\* The nodes that write the workflow_runs row while they run: the ones that
\* store gate metadata in it (read the row, change metadata, write it all
\* back) and finalize.
GateWriters == {"parse_intent", "clarify_intent", "generate_outline",
                "approve_outline", "check_facts", "approve_fact_check"}

-----------------------------------------------------------------------------
(* Statuses. *)

RunStatus == {"running", "paused", "completed", "failed"}

GateStatuses == {"needs_clarification", "awaiting_outline_approval",
                 "awaiting_fact_check_approval"}

\* ContentGenerationWorkflow._get_workflow_status
GraphStatus(v) ==
    IF v.needs_clarification THEN "needs_clarification"
    ELSE IF v.awaiting_outline THEN "awaiting_outline_approval"
    ELSE IF v.awaiting_fact_check THEN "awaiting_fact_check_approval"
    ELSE IF v.is_paused THEN "paused"
    ELSE IF v.error THEN "failed"
    ELSE IF v.final THEN "completed"
    ELSE "running"

\* routes/workflow_helpers._extract_workflow_status: `raw` is the status of the
\* workflow_runs row.  On a thread without a checkpoint the row decides alone.
PublicStatus(raw, c) ==
    LET graph == IF c.at = NoThread THEN "running" ELSE GraphStatus(c.vals)
    IN  IF graph \in GateStatuses \cup {"completed", "failed"} THEN graph
        ELSE IF c.vals.error THEN "failed"
        ELSE IF raw # "running" THEN raw
        ELSE graph

\* A synchronisation that forgets that a completed row is final.
SyncStatusReopens(raw, v) ==
    IF v.is_paused \/ raw = "paused" THEN "paused"
    ELSE IF v.error THEN "failed"
    ELSE "running"

\* A synchronisation that writes the public status into the row.
SyncStatusPublic(raw, v) == IF raw = "completed" THEN raw ELSE GraphStatus(v)

\* _sync_workflow_run: the status it writes, from the row it read and the state.
SyncStatus(raw, v) ==
    IF raw = "completed" THEN raw
    ELSE IF v.is_paused \/ raw = "paused" THEN "paused"
    ELSE IF v.error THEN "failed"
    ELSE "running"

=============================================================================
