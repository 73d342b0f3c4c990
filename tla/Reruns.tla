------------------------------- MODULE Reruns -------------------------------
(***************************************************************************)
(* Versioned reruns: what the nodes of a run leave in artifacts and node   *)
(* runs (backend/services/artifact_store.py, db/postgres_store.py), what a *)
(* rerun reads back from them (services/rerun_service.py) and where it     *)
(* enters the graph (graph/executor.py).                                   *)
(*                                                                         *)
(* The runs of one family follow the graph of ContentGraph under one plan. *)
(* A run's gate requests, pauses and row writes are WorkflowRuntime's      *)
(* matter; here a gate is answered in one step, and a server stop (Cut) is *)
(* followed by the user's resumption from the last checkpoint.             *)
(*                                                                         *)
(* Refinement feedback is an artifact nothing reads back, and the texts,   *)
(* the instruction given with a rerun and the call statistics are data no  *)
(* decision reads.  The drive stops after the refinement has written a     *)
(* text, and goes on when the run is taken up again; here it may go on at  *)
(* any time.                                                               *)
(***************************************************************************)
EXTENDS ContentGraph, Sequences, FiniteSets

CONSTANTS Settings,         \* the plans, and whether knowledge is retrieved
          NumSections,      \* sections of an outline
          Revisions,        \* the sections a refinement may rewrite, one after the other:
                            \* two rounds can rewrite a section twice
          Updates,          \* what a rerun may be told to write into the state: the
                            \* names it sets, with their values
          MaxRuns,          \* bound on the runs of the family
          MaxRegenerations, \* bound on the outlines sent back
          MaxCuts           \* bound on server stops

\* The state after the update u: preserved_state.update, and then the same over
\* the initial state.
Updated(u, v) == [name \in DOMAIN v |-> IF name \in u.names THEN u.state[name] ELSE v[name]]

ASSUME RerunsAssumption ==
    /\ Settings \subseteq [plan: Plan, retrieval: BOOLEAN]
    /\ NumSections \in Nat \ {0} /\ MaxRuns \in Nat \ {0}
    /\ << >> \in Revisions /\ \A revised \in Revisions : revised \in Seq(1..NumSections)
    /\ MaxRegenerations \in Nat /\ MaxCuts \in Nat
    /\ \A u \in Updates : u.names # {} /\ "input" \notin u.names /\ u.plan \in Plan

VARIABLES plan, retrieval,  \* the runtime plan, and whether knowledge is retrieved
          runs,             \* workflow_runs with their node_runs and graph state
          artifacts,        \* artifacts[r]: those created by run r, with slot and
                            \* version; `good` is an outline with is_approved, a
                            \* report without high-risk items left; `full` is an
                            \* outline or a final content with a section
          regenerations, cuts,
          edited            \* a rerun was told what to write into its state

vars == <<plan, retrieval, runs, artifacts, regenerations, cuts, edited>>

D == INSTANCE DefinitionGraph WITH Samples <- {}

Sections == 1..NumSections
RunIds == 1..MaxRuns

\* An artifact is named by its run and its place among the artifacts of the run.
NoArtifact == <<0, 0>>

\* The graph state holds one artifact id of each type, and of the contents one
\* for each section.
Intent == <<"intent_card", 0>>
Evidence == <<"evidence_pack", 0>>
Outline == <<"outline", 0>>
Section(s) == <<"section_content", s>>
Report == <<"fact_check_report", 0>>
Final == <<"final_content", 0>>

Slots == {Intent, Evidence, Outline, Report, Final} \cup {Section(s) : s \in Sections}
NoRefs == [slot \in Slots |-> NoArtifact]

Original == "parse_intent"    \* where a run that is no rerun starts as well

NewRun(parent, from, ckpt, refs) ==
    [parent |-> parent, from |-> from, status |-> "running", final |-> NoArtifact,
     ckpt |-> ckpt, refs |-> refs, busy |-> "idle", trace |-> << >>,
     waived |-> FALSE]    \* its fact-check gate was answered without a decision

Get(id) == artifacts[id[1]][id[2]]

\* Bound: only the youngest run is followed, and rerun.  Runs share nothing but
\* artifacts, which are never changed, so the steps of two runs commute, and a
\* second rerun of a run finds what the first one found.  A run can be rerun at
\* any moment, whether it has ended or not.
Followed(r) == r = Len(runs)

-----------------------------------------------------------------------------
(* Artifacts. *)

Wanted(slot, parent, good, full) ==
    [slot |-> slot, parent |-> parent, good |-> good, full |-> full]

\* The artifacts of run r of a type.
OfType(r, type) ==
    {artifacts[r][k] : k \in {k \in DOMAIN artifacts[r] : artifacts[r][k].slot[1] = type}}

\* A store that counts the versions of a run only.
VersionByRun(r, wanted, k) ==
    LET same(a) == a.slot[1] = wanted[k].slot[1]
    IN  Cardinality({j \in DOMAIN artifacts[r] : same(artifacts[r][j])})
        + Cardinality({j \in 1..k : same(wanted[j])})

\* create_artifact for the k-th of the wanted ones: one more than the parent, or
\* than the last of its type in the run.  What a node makes from a parent it
\* makes again from what it has made; the artifacts it makes of one type have
\* all a parent or none.
NextVersion(r, wanted, k) ==
    LET w == wanted[k]
        last == CHOOSE m \in {0} \cup {a.version : a \in OfType(r, w.slot[1])} :
                    \A a \in OfType(r, w.slot[1]) : m >= a.version
    IN  IF w.parent # NoArtifact
        THEN Get(w.parent).version + Cardinality({j \in 1..k : wanted[j].slot = w.slot})
        ELSE last + Cardinality({j \in 1..k : wanted[j].slot[1] = w.slot[1]})

\* The artifacts of run r after the wanted ones have been created one by one.
CreateArtifacts(r, wanted) ==
    artifacts[r] \o [k \in DOMAIN wanted |->
                       [slot |-> wanted[k].slot, good |-> wanted[k].good,
                        full |-> wanted[k].full, version |-> NextVersion(r, wanted, k)]]

\* The graph state after the artifacts `ids` of a run went to their slots, the
\* later made over the earlier.
Placed(store, ids, slot) == {id \in ids : store[id[1]][id[2]].slot = slot}

LastOf(ids) == CHOOSE id \in ids : \A other \in ids : id[2] >= other[2]

Hold(store, refs, ids) ==
    [slot \in Slots |-> IF Placed(store, ids, slot) = {} THEN refs[slot]
                        ELSE LastOf(Placed(store, ids, slot))]

HasSections(refs) == \E s \in Sections : refs[Section(s)] # NoArtifact

\* A finalize that leaves the final artifact to the refinement.
LastOutputLeft(refs, v) == << >>

\* finalize_output: the drafts become the final content of a run without one.
LastOutput(refs, v) ==
    IF refs[Final] = NoArtifact /\ v.draft THEN <<Wanted(Final, NoArtifact, TRUE, TRUE)>>
    ELSE << >>

\* The artifacts node n of run r creates when it returns the graph state v;
\* `revised` are the sections the refinement rewrites.
Outputs(r, n, v, revised) ==
    LET refs == runs[r].refs
        new(slot, good) == Wanted(slot, NoArtifact, good, TRUE)
        next(slot, good, full) == Wanted(slot, refs[slot], good, full)
    IN  CASE n = "parse_intent" -> <<new(Intent, TRUE)>>
          [] n = "clarify_intent" -> <<next(Intent, TRUE, TRUE)>>
          [] n = "retrieve_knowledge" -> IF retrieval THEN <<new(Evidence, TRUE)>> ELSE << >>
          [] n = "generate_outline" -> <<next(Outline, FALSE, v.sections)>>
          [] n = "approve_outline" ->
               IF v.outline_approved THEN <<next(Outline, TRUE, v.sections)>> ELSE << >>
          [] n = "generate_content" ->
               IF v.sections THEN [s \in Sections |-> new(Section(s), TRUE)] ELSE << >>
          [] n = "self_refine" ->
               [k \in DOMAIN revised |-> next(Section(revised[k]), TRUE, TRUE)]
               \o <<next(Final, TRUE, v.final)>>
          [] n = "check_facts" -> <<new(Report, ~v.risky)>>
          [] n = "approve_fact_check" ->
               <<next(Report, TRUE, TRUE), next(Final, TRUE, v.final)>>
          [] n = "finalize" -> LastOutput(refs, v)

-----------------------------------------------------------------------------
(* The nodes of a run. *)

\* finalize_output records no node run, and neither does a skipped retrieval.
Recorded(n) == n # "finalize" /\ (n = "retrieve_knowledge" => retrieval)

\* What a node takes from the state without asking whether it is there: before
\* it records its node run, and after it.  An update may give it, or take it away.
MissingAtOnce(n, refs) ==
    \/ n \in {"clarify_intent", "generate_outline"} /\ refs[Intent] = NoArtifact
    \/ n \in {"approve_outline", "generate_content"} /\ refs[Outline] = NoArtifact
    \/ n = "approve_fact_check" /\ refs[Report] = NoArtifact

MissingLater(n, refs, v) ==
    \/ n = "generate_content" /\ v.sections /\ refs[Intent] = NoArtifact
    \/ n = "self_refine" /\ refs[Outline] = NoArtifact
    \/ n = "self_refine" /\ HasSections(refs) /\ refs[Intent] = NoArtifact

Upcoming(r) == NextNode(plan, runs[r].ckpt)

\* The entry of a node run in the trace; it ends as the last one.
Begun(n, refs) == [node |-> n, status |-> "running", inputs |-> refs, outputs |-> {}]

Ended(trace, status, ids) ==
    [trace EXCEPT ![Len(trace)] = [@ EXCEPT !.status = status, !.outputs = ids]]

StartNode(r) ==
    LET run == runs[r]
        n == Upcoming(r)
    IN  /\ Followed(r) /\ run.status = "running" /\ run.busy = "idle"
        /\ run.ckpt.at # NoThread /\ n # End
        /\ \E missing \in BOOLEAN :
             /\ edited \/ missing = MissingAtOnce(n, run.refs)
             /\ runs' = [runs EXCEPT ![r] =
                  IF missing THEN [run EXCEPT !.status = "failed"]
                  ELSE [run EXCEPT !.busy = n,
                                   !.trace = IF Recorded(n)
                                             THEN Append(run.trace, Begun(n, run.refs))
                                             ELSE run.trace]]
        /\ UNCHANGED <<plan, retrieval, artifacts, regenerations, cuts, edited>>

\* A node run ends at a gate as "interrupted".
Status(v) == IF v.awaiting_outline \/ v.awaiting_fact_check THEN "interrupted" ELSE "completed"

\* The refinement goes through the sections there are.
Rewrites(n, refs) ==
    {revised \in Revisions : revised = << >> \/ (n = "self_refine" /\ HasSections(refs))}

FinishNode(r) ==
    LET run == runs[r]
        n == run.busy
    IN  /\ Followed(r) /\ n # "idle"
        /\ edited \/ ~MissingLater(n, run.refs, run.ckpt.vals)
        /\ \E v \in NodeOutcomes(plan, n, run.ckpt.vals), revised \in Rewrites(n, run.refs) :
             LET store == [artifacts EXCEPT ![r] = CreateArtifacts(r, Outputs(r, n, v, revised))]
                 ids == {<<r, k>> : k \in DOMAIN store[r] \ DOMAIN artifacts[r]}
                 refs == Hold(store, run.refs, ids)
             IN  /\ artifacts' = store
                 /\ runs' = [runs EXCEPT ![r] =
                      [run EXCEPT !.busy = "idle", !.refs = refs,
                                  !.ckpt = [at |-> n, vals |-> v],
                                  !.status = IF n = "finalize" THEN "completed" ELSE run.status,
                                  !.final = IF n = "finalize" THEN refs[Final] ELSE run.final,
                                  !.trace = IF Recorded(n) THEN Ended(run.trace, Status(v), ids)
                                            ELSE run.trace]]
        /\ UNCHANGED <<plan, retrieval, regenerations, cuts, edited>>

\* What the node that runs may have made when it is cut short: the first of the
\* artifacts it makes.
PartialOutputs(r) ==
    LET run == runs[r]
        n == run.busy
        ways == IF ~edited /\ MissingLater(n, run.refs, run.ckpt.vals) THEN {}
                ELSE {Outputs(r, n, v, revised) : v \in NodeOutcomes(plan, n, run.ckpt.vals),
                                                 revised \in Rewrites(n, run.refs)}
    IN  {<< >>} \cup UNION {{SubSeq(out, 1, k) : k \in 1..Len(out)} : out \in ways}

\* A node raises: its node run records what it has made, and fails with the run.
FailNode(r) ==
    LET run == runs[r]
        n == run.busy
    IN  /\ Followed(r) /\ n # "idle"
        /\ \E out \in PartialOutputs(r) :
             LET store == [artifacts EXCEPT ![r] = CreateArtifacts(r, out)]
                 ids == {<<r, k>> : k \in DOMAIN store[r] \ DOMAIN artifacts[r]}
             IN  /\ artifacts' = store
                 /\ runs' = [runs EXCEPT ![r] =
                      [run EXCEPT !.busy = "idle", !.status = "failed",
                                  !.trace = IF Recorded(n) THEN Ended(run.trace, "failed", ids)
                                            ELSE run.trace]]
        /\ UNCHANGED <<plan, retrieval, regenerations, cuts, edited>>

\* The server stops before the checkpoint of the node is committed; the run goes
\* on from the last one.  The node run is left as it began, with the artifacts
\* made so far in no record...
Cut(r) ==
    /\ Followed(r) /\ runs[r].busy # "idle" /\ cuts < MaxCuts
    /\ \E out \in PartialOutputs(r) :
         artifacts' = [artifacts EXCEPT ![r] = CreateArtifacts(r, out)]
    /\ runs' = [runs EXCEPT ![r].busy = "idle"]
    /\ cuts' = cuts + 1
    /\ UNCHANGED <<plan, retrieval, regenerations, edited>>

\* ... or it had recorded its end, with everything it made.
CutAfterRecord(r) ==
    LET run == runs[r]
        n == run.busy
    IN  /\ Followed(r) /\ n # "idle" /\ cuts < MaxCuts
        /\ edited \/ ~MissingLater(n, run.refs, run.ckpt.vals)
        /\ \E v \in NodeOutcomes(plan, n, run.ckpt.vals), revised \in Rewrites(n, run.refs) :
             LET store == [artifacts EXCEPT ![r] = CreateArtifacts(r, Outputs(r, n, v, revised))]
                 ids == {<<r, k>> : k \in DOMAIN store[r] \ DOMAIN artifacts[r]}
             IN  /\ artifacts' = store
                 /\ runs' = [runs EXCEPT ![r] =
                      [run EXCEPT !.busy = "idle",
                                  !.status = IF n = "finalize" THEN "completed" ELSE run.status,
                                  !.final = IF n = "finalize"
                                            THEN Hold(store, run.refs, ids)[Final] ELSE run.final,
                                  !.trace = IF Recorded(n) THEN Ended(run.trace, Status(v), ids)
                                            ELSE run.trace]]
        /\ cuts' = cuts + 1
        /\ UNCHANGED <<plan, retrieval, regenerations, edited>>

\* The reviewer answers a gate.
AnswerOutline(r) ==
    /\ Followed(r) /\ runs[r].busy = "idle" /\ runs[r].status = "running"
    /\ runs[r].ckpt.vals.awaiting_outline
    /\ \E a \in OutlineActions \ {"none"} :
         /\ a = "regenerate" => regenerations < MaxRegenerations
         /\ regenerations' = regenerations + (IF a = "regenerate" THEN 1 ELSE 0)
         /\ runs' = [runs EXCEPT ![r].ckpt.vals =
                       [runs[r].ckpt.vals EXCEPT !.user_decision = a, !.awaiting_outline = FALSE]]
    /\ UNCHANGED <<plan, retrieval, artifacts, cuts, edited>>

\* An answer that closes the gate and is not stored.
AnswerFactsUnstored(r) ==
    /\ Followed(r) /\ runs[r].busy = "idle" /\ runs[r].status = "running"
    /\ runs[r].ckpt.vals.awaiting_fact_check
    /\ runs' = [runs EXCEPT ![r].ckpt.vals.awaiting_fact_check = FALSE]
    /\ UNCHANGED <<plan, retrieval, artifacts, regenerations, cuts, edited>>

\* No decision at all is an answer as well.
AnswerFacts(r) ==
    /\ Followed(r) /\ runs[r].busy = "idle" /\ runs[r].status = "running"
    /\ runs[r].ckpt.vals.awaiting_fact_check
    /\ \E a \in FactAnswers :
         runs' = [runs EXCEPT ![r].waived = runs[r].waived \/ a = "none",
                              ![r].ckpt.vals = [runs[r].ckpt.vals EXCEPT
                                  !.fact_answers = a, !.awaiting_fact_check = FALSE]]
    /\ UNCHANGED <<plan, retrieval, artifacts, regenerations, cuts, edited>>

-----------------------------------------------------------------------------
(* Reruns. *)

\* The nodes the plan lets a run be rerun from.
Allowed == {D!PlanSteps(plan)[k] : k \in DOMAIN D!PlanSteps(plan)} \cup {"clarify_intent"}

Executed(r) == {runs[r].trace[k].node : k \in DOMAIN runs[r].trace}

FirstPlace(trace, n) ==
    CHOOSE k \in DOMAIN trace :
        trace[k].node = n /\ \A j \in DOMAIN trace : trace[j].node = n => j >= k

\* What the nodes before the k-th of a trace made.
MadeBefore(trace, k) == UNION {trace[j].outputs : j \in 1..(k - 1)}

\* A rerun that takes what the node itself made as well.
PreserveThrough(p, n) ==
    LET trace == runs[p].trace
    IN  Hold(artifacts, NoRefs, MadeBefore(trace, FirstPlace(trace, n) + 1))

\* prepare_rerun_state: the artifacts of the nodes before the first run of n.
Preserve(p, n) ==
    LET trace == runs[p].trace
    IN  Hold(artifacts, NoRefs, MadeBefore(trace, FirstPlace(trace, n)))

\* The graph state built from them; an outline counts as approved.
Restored(refs) ==
    [EmptyState EXCEPT !.input = TRUE,
                       !.outline = refs[Outline] # NoArtifact,
                       !.sections = refs[Outline] # NoArtifact /\ Get(refs[Outline]).full,
                       !.outline_approved = refs[Outline] # NoArtifact,
                       !.draft = HasSections(refs),
                       !.report = refs[Report] # NoArtifact,
                       !.risky = refs[Report] # NoArtifact /\ ~Get(refs[Report]).good,
                       !.final = refs[Final] # NoArtifact /\ Get(refs[Final]).full]

\* A rerun that writes the state as the node itself.
EnterAfter(steps, n, refs) ==
    IF n = "parse_intent" THEN InputCheckpoint ELSE [at |-> n, vals |-> Restored(refs)]

\* _prepare_rerun_target: the state is written as the step before n in the plan.
EnterAt(steps, n, refs) ==
    LET before == IF n = "clarify_intent" THEN "parse_intent"
                  ELSE steps[(CHOOSE k \in DOMAIN steps : steps[k] = n) - 1]
    IN  IF n = "parse_intent" THEN InputCheckpoint
        ELSE [at |-> before, vals |-> Restored(refs)]

\* A rerun may be asked for at any moment.  Bound: an edited one ends the family.
Rerunnable(p, n) ==
    Followed(p) /\ Len(runs) < MaxRuns /\ ~edited /\ n \in Allowed \cap Executed(p)

\* A rerun as the pages ask for it: what they let the user write (the input, an
\* instruction, feedback) are texts.
Rerun(p, n) ==
    /\ Rerunnable(p, n)
    /\ LET refs == Preserve(p, n)
       IN  runs' = Append(runs, NewRun(p, n, EnterAt(D!PlanSteps(plan), n, refs), refs))
    /\ UNCHANGED <<plan, retrieval, artifacts, regenerations, cuts, edited>>

\* updated_input may write any name of the graph state, unfiltered: the flags, the
\* drafts and the plan as well.  The request fails when the new plan has no step
\* before n; the row of the run is there by then.
EditedRerun(p, n, u) ==
    LET steps == D!PlanSteps(IF "runtime_plan" \in u.names THEN u.plan ELSE plan)
        refs == Preserve(p, n)
        at == EnterAt(steps, n, refs)
        starts == n \in {"parse_intent", "clarify_intent"}
                  \/ \E k \in DOMAIN steps : k > 1 /\ steps[k] = n
    IN  /\ Rerunnable(p, n)
        /\ runs' = Append(runs, IF starts
                                THEN NewRun(p, n, [at EXCEPT !.vals = Updated(u, at.vals)], refs)
                                ELSE NewRun(p, n, NoCheckpoint, NoRefs))
        /\ plan' = IF "runtime_plan" \in u.names THEN u.plan ELSE plan
        /\ edited' = TRUE
        /\ UNCHANGED <<retrieval, artifacts, regenerations, cuts>>

\* The new row has been created when its workflow version turns out not to be
\* loadable any more: the request fails and the row stays.
RerunNotStarted(p, n) ==
    /\ Rerunnable(p, n)
    /\ runs' = Append(runs, NewRun(p, n, NoCheckpoint, NoRefs))
    /\ UNCHANGED <<plan, retrieval, artifacts, regenerations, cuts, edited>>

-----------------------------------------------------------------------------

Init ==
    /\ \E s \in Settings : plan = s.plan /\ retrieval = s.retrieval
    /\ runs = <<NewRun(0, Original, InputCheckpoint, NoRefs)>>
    /\ artifacts = [r \in RunIds |-> << >>]
    /\ regenerations = 0 /\ cuts = 0
    /\ edited = FALSE

Next ==
    \E r \in DOMAIN runs :
        \/ StartNode(r) \/ FinishNode(r) \/ FailNode(r) \/ Cut(r) \/ CutAfterRecord(r)
        \/ AnswerOutline(r) \/ AnswerFacts(r)
        \/ \E n \in Nodes :
             \/ Rerun(r, n) \/ RerunNotStarted(r, n)
             \/ \E u \in Updates : EditedRerun(r, n, u)

Spec == Init /\ [][Next]_vars

-----------------------------------------------------------------------------
(* Properties. *)

GateNodes == {"clarify_intent", "approve_outline", "approve_fact_check"}

\* All of them are about families without an edited rerun: an update can give the
\* run another plan, another outline or an answered gate.

\* A run that is the rerun of a run that is no rerun itself.
OfOriginal(r) == runs[r].parent # 0 /\ runs[runs[r].parent].parent = 0

\* A rerun of an original run executes the node it was asked to start from
\* first, although the graph computes that node from the state written as its
\* predecessor; only a gate's node is passed over (the rerun does not ask the
\* reviewer again, and goes on with what follows the gate).
RerunReachesNode ==
    ~edited =>
    \A r \in DOMAIN runs :
        OfOriginal(r) /\ runs[r].trace # << >> =>
            LET first == runs[r].trace[1].node
                from == runs[r].from
            IN  CASE from = "clarify_intent" -> first \in {"retrieve_knowledge", "generate_outline"}
                  [] from = "approve_outline" -> first = "generate_content"
                  [] from = "approve_fact_check" -> FALSE
                  [] OTHER -> first = from

\* A refinement that recorded its end was executed again: what it made of a section
\* then counts as made, also when the repetition left that section alone.
RefinedTwice(trace) ==
    \E k \in DOMAIN trace :
        /\ k + 1 \in DOMAIN trace /\ trace[k].outputs # {}
        /\ trace[k].node = "self_refine" /\ trace[k + 1].node = "self_refine"

\* The first node of such a rerun works on the very artifacts the same node
\* worked on when the original run first came to it, whatever refinements,
\* regenerations, failures and server stops the original went through and however
\* far it has gone since; only a refinement executed twice may leave it sections
\* the original did not go on with.
RerunKeepsInputs ==
    ~edited =>
    \A r \in DOMAIN runs :
        OfOriginal(r) /\ runs[r].trace # << >> /\ runs[r].from \notin GateNodes =>
            LET original == runs[runs[r].parent].trace
                first == original[FirstPlace(original, runs[r].from)]
            IN  \A slot \in Slots :
                    \/ runs[r].trace[1].inputs[slot] = first.inputs[slot]
                    \/ RefinedTwice(original) /\ \E s \in Sections : slot = Section(s)

\* Content is generated from an outline the reviewer accepted, and a run ends
\* with an unresolved fact-check report only without the gate, or when the gate was
\* answered without a decision: a rerun passes a gate unanswered only when it was
\* asked to start from the gate's own node (then even an outline that was sent back
\* counts as approved).
GatesBindReruns ==
    ~edited =>
    \A r \in DOMAIN runs :
        LET run == runs[r]
        IN  /\ plan.outline_gate /\ run.from # "approve_outline" =>
                 \A k \in DOMAIN run.trace :
                     run.trace[k].node = "generate_content" =>
                         Get(run.trace[k].inputs[Outline]).good
            /\ plan.fact_check_gate /\ run.from # "approve_fact_check" /\ ~run.waived
               /\ run.status = "completed" /\ run.refs[Report] # NoArtifact =>
                 Get(run.refs[Report]).good

\* An original run and a rerun of one complete with a final artifact in their
\* row, unless their outline has no section.  (A rerun of a rerun finds in its
\* parent's trace only what the parent made itself, and may complete without any
\* content.)
CompletedHasContent ==
    ~edited =>
    \A r \in DOMAIN runs :
        runs[r].status = "completed" /\ (runs[r].parent = 0 \/ OfOriginal(r))
        /\ runs[r].ckpt.vals.sections =>
            runs[r].final # NoArtifact

\* An artifact that takes another's place in the state of a run has the higher
\* version, whether the other came from the same run or from the original, and
\* also when a node is executed again after a server stop.
VersionsGrow ==
    [][~edited' =>
       \A r \in DOMAIN runs, slot \in Slots :
         LET was == runs[r].refs[slot]
             is == runs'[r].refs[slot]
         IN  was # is /\ was # NoArtifact =>
                artifacts'[is[1]][is[2]].version > Get(was).version]_vars

=============================================================================
