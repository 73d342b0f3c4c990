---------------------------- MODULE Reruns_proofs ----------------------------
(* What a rerun takes over from its original, and what the gates and the versions *)
(* promise of it, for any plan, any number of sections, reruns, regenerations and *)
(* server stops.                                                                  *)
EXTENDS Reruns, SequenceTheorems, FiniteSetTheorems, WellFoundedInduction, NaturalsInduction, TLAPS

-----------------------------------------------------------------------------
(* Bounded sets of numbers. *)

LEMMA HasSmallest ==
    ASSUME NEW T \in SUBSET Nat, T # {}
    PROVE  \E m \in T : \A x \in T : m <= x
  <1>. DEFINE R == OpToRel(<, Nat)
  <1>1. IsWellFoundedOn(R, Nat)
    BY NatLessThanWellFounded
  <1>2. \A x, y \in Nat : x < y => <<x, y>> \in R
    BY DEF OpToRel
  <1>. HIDE DEF R
  <1>3. PICK m \in T : \A y \in T : ~ (<<y, m>> \in R)
    BY <1>1, WFMin
  <1>4. \A y \in T : y \in Nat /\ m \in Nat /\ ~ (y < m)
    BY <1>2, <1>3
  <1>5. QED
    BY <1>4

LEMMA HasLargest ==
    ASSUME NEW S \in SUBSET Nat, NEW n \in Nat, S # {}, \A s \in S : s <= n
    PROVE  \E m \in S : \A s \in S : s <= m
  <1>. DEFINE T == {n - s : s \in S}
  <1>1. T \in SUBSET Nat /\ T # {}
    <2>1. \A s \in S : n - s \in Nat /\ n - s \in T
      OBVIOUS
    <2>2. QED
      BY <2>1
  <1>2. PICK x \in T : \A y \in T : x <= y
    <2>. HIDE DEF T
    <2>1. QED
      BY <1>1, HasSmallest
  <1>3. PICK m \in S : x = n - m
    OBVIOUS
  <1>4. \A s \in S : n - m <= n - s /\ s \in Nat /\ m \in Nat
    BY <1>2, <1>3
  <1>5. QED
    BY <1>4

-----------------------------------------------------------------------------
(* Types. *)

Ids == RunIds \X (Nat \ {0})
Refs == [Slots -> Ids \cup {NoArtifact}]
Artifact == [slot : Slots, good : BOOLEAN, full : BOOLEAN, version : Nat]
NodeRun == [node : Nodes, status : {"running", "completed", "interrupted", "failed"},
            inputs : Refs, outputs : SUBSET Ids]
Run == [parent : Nat, from : Nodes, status : RunStatus, final : Ids \cup {NoArtifact},
        ckpt : Checkpoint, refs : Refs, busy : Nodes \cup {"idle"}, trace : Seq(NodeRun),
        waived : BOOLEAN]

\* The states of a family without an edited rerun; an edited one ends the family.
RerunsTypeOK ==
    /\ plan \in Plan /\ retrieval \in BOOLEAN /\ edited = FALSE
    /\ runs \in Seq(Run) /\ Len(runs) \in 1..MaxRuns
    /\ artifacts \in [RunIds -> Seq(Artifact)]
    /\ regenerations \in Nat /\ cuts \in Nat

\* Every run but the first is a rerun of the one before it.
ParentInv == \A r \in DOMAIN runs : runs[r].parent = r - 1

-----------------------------------------------------------------------------
(* Artifacts that exist. *)

Exists(id) == id[1] \in RunIds /\ id[2] \in DOMAIN artifacts[id[1]]
Stocked(refs) == \A slot \in Slots : refs[slot] # NoArtifact => Exists(refs[slot])

\* The slots a node makes artifacts for.
Makes(n) ==
    CASE n \in {"parse_intent", "clarify_intent"} -> {Intent}
      [] n = "retrieve_knowledge" -> {Evidence}
      [] n \in {"generate_outline", "approve_outline"} -> {Outline}
      [] n = "generate_content" -> {Section(s) : s \in Sections}
      [] n = "self_refine" -> {Final} \cup {Section(s) : s \in Sections}
      [] n = "check_facts" -> {Report}
      [] n = "approve_fact_check" -> {Report, Final}
      [] n = "finalize" -> {Final}

MadeBy(r, e) == \A id \in e.outputs : id[1] = r /\ Exists(id) /\ Get(id).slot \in Makes(e.node)

MadeOf(r, run) ==
    /\ Stocked(run.refs)
    /\ \A k \in DOMAIN run.trace : Stocked(run.trace[k].inputs) /\ MadeBy(r, run.trace[k])

MadeInv == \A r \in DOMAIN runs : MadeOf(r, runs[r])

-----------------------------------------------------------------------------
(* The way through the graph. *)

\* How far a node is; only an outline is made again.
Stage(n) ==
    CASE n = "parse_intent" -> 1
      [] n = "clarify_intent" -> 2
      [] n = "retrieve_knowledge" -> 3
      [] n \in {"generate_outline", "approve_outline"} -> 4
      [] n = "generate_content" -> 5
      [] n = "self_refine" -> 6
      [] n = "check_facts" -> 7
      [] n = "approve_fact_check" -> 8
      [] n = "finalize" -> 9
      [] n = End -> 10
      [] OTHER -> 0

\* The stage that first makes an artifact for a slot (an outline is made from the
\* one that is held, and the final content at three stages).
First(slot) ==
    CASE slot = Intent -> 1
      [] slot = Evidence -> 3
      [] slot \in {Section(s) : s \in Sections} -> 5
      [] slot = Report -> 7
      [] OTHER -> 0

\* What runs is what the checkpoint leads to, and its node run is the last one.
BusyOf(run) ==
    run.busy # "idle" =>
        /\ run.status = "running" /\ run.ckpt.at # NoThread
        /\ run.busy = NextNode(plan, run.ckpt) /\ ~MissingAtOnce(run.busy, run.refs)
        /\ Recorded(run.busy) =>
              /\ Len(run.trace) # 0
              /\ run.trace[Len(run.trace)].node = run.busy
              /\ run.trace[Len(run.trace)].outputs = {}

\* A trace goes forward, up to where the run is.
TraceOf(run) ==
    /\ run.ckpt.at = NoThread => run.trace = << >> /\ run.refs = NoRefs /\ run.ckpt = NoCheckpoint
    /\ \A k \in DOMAIN run.trace :
          LET e == run.trace[k]
          IN  /\ Recorded(e.node) /\ ~MissingAtOnce(e.node, e.inputs)
              /\ Stage(e.node) <= Stage(run.ckpt.at) \/ e.node = NextNode(plan, run.ckpt)
              /\ \A j \in 1..k : Stage(run.trace[j].node) <= Stage(e.node)

\* What a stage makes is not held before it.
EmptyOf(run) ==
    \A slot \in Slots : Stage(run.ckpt.at) < First(slot) => run.refs[slot] = NoArtifact

\* A run waits where its gate was opened.
WaitsOf(run) ==
    /\ run.ckpt.vals.awaiting_outline => run.ckpt.at = "generate_outline"
    /\ run.ckpt.vals.awaiting_fact_check => run.ckpt.at = "check_facts"

FlowOf(run) == BusyOf(run) /\ TraceOf(run) /\ EmptyOf(run) /\ WaitsOf(run)

FlowInv == \A r \in DOMAIN runs : FlowOf(runs[r]) /\ Recorded(runs[r].from)

-----------------------------------------------------------------------------
(* What the state holds is what the run began with, and what its nodes made. *)

StartOf(run) ==
    IF run.parent = 0 \/ run.ckpt.at = NoThread THEN NoRefs ELSE Preserve(run.parent, run.from)

SectionSlots == {Section(s) : s \in Sections}

\* What a node run that records its end has made for certain.
Must(n, v) ==
    CASE n = "approve_outline" -> {slot \in {Outline} : v.user_decision = "accept"}
      [] n = "generate_content" -> {slot \in SectionSlots : v.sections}
      [] n = "self_refine" -> {Final}
      [] n = "finalize" -> {}
      [] OTHER -> Makes(n)

\* A value is what the trace holds, unless the node that made that was cut short
\* of its checkpoint.
Fits(value, held, late) == value = held \/ (held # NoArtifact /\ late)

\* The node runs `k - 1` and `k` of a trace are one node's, which made the slot
\* before it was executed again.
Again(trace, k, slot) ==
    k > 1 /\ trace[k - 1].node = trace[k].node /\ slot \in Makes(trace[k].node)

\* Among the first k node runs a refinement that had made something was executed
\* again.
Twice(trace, k, slot) ==
    /\ slot \in SectionSlots
    /\ \E j \in 1..(k - 1) : /\ trace[j].node = "self_refine" /\ trace[j + 1].node = "self_refine"
                             /\ trace[j].outputs # {}

\* The graph state has not got what the last node run recorded for the slot: the
\* node will be executed again.
Behind(run, slot) ==
    LET m == Len(run.trace)
        n == NextNode(plan, run.ckpt)
    IN  \/ Twice(run.trace, m, slot)
        \/ /\ m # 0 /\ run.trace[m].node = n
           /\ \/ slot \in Must(n, run.ckpt.vals)
              \/ slot \in SectionSlots /\ n = "self_refine" /\ run.trace[m].outputs # {}

TraceHeld(trace, store, start) ==
    \A k \in DOMAIN trace, slot \in Slots :
       Fits(trace[k].inputs[slot], Hold(store, start, MadeBefore(trace, k))[slot],
            Again(trace, k, slot) \/ Twice(trace, k, slot))

RefsHeld(run, store, start) ==
    run.status = "running" =>
       \A slot \in Slots :
          Fits(run.refs[slot],
               Hold(store, start, MadeBefore(run.trace, Len(run.trace) + 1))[slot],
               Behind(run, slot))

HeldWith(run, store, start) ==
    /\ TraceHeld(run.trace, store, start) /\ RefsHeld(run, store, start)
    /\ run.busy # "idle" /\ Recorded(run.busy) => run.trace[Len(run.trace)].inputs = run.refs

HeldInv == \A r \in DOMAIN runs : HeldWith(runs[r], artifacts, StartOf(runs[r]))

\* A run that has completed stands at the end of the graph, or before its last
\* node.
DoneOf(run) ==
    run.status = "completed" =>
        run.ckpt.at = "finalize" \/ NextNode(plan, run.ckpt) = "finalize"

DoneInv == \A r \in DOMAIN runs : DoneOf(runs[r])

\* A rerun starts from a node of the plan its parent has executed.
OriginInv ==
    \A r \in DOMAIN runs :
        runs[r].parent # 0 => runs[r].from \in Allowed \cap Executed(runs[r].parent)

-----------------------------------------------------------------------------
(* The first node of a run. *)

\* The nodes a run asked to start from a node may begin with.
Begins(from) ==
    CASE from = "clarify_intent" -> {"retrieve_knowledge", "generate_outline"}
      [] from = "approve_outline" -> {"generate_content"}
      [] from = "approve_fact_check" -> {"finalize", End}
      [] OTHER -> {from}

BeginOf(run) ==
    /\ run.trace = << >> => /\ NextNode(plan, run.ckpt) \in Begins(run.from)
                            /\ ~run.ckpt.vals.awaiting_outline
                            /\ ~run.ckpt.vals.awaiting_fact_check
    /\ run.trace # << >> => run.trace[1].node \in Begins(run.from)

BeginInv ==
    \A r \in DOMAIN runs :
        OfOriginal(r) /\ runs[r].ckpt.at # NoThread => BeginOf(runs[r])

-----------------------------------------------------------------------------
(* Gates. *)

OutlineNodes == {"generate_outline", "approve_outline"}

\* The outline a gate has to do with: a rerun from the gate's own node takes
\* the original's as it is.
Bound(r, from, refs) ==
    refs[Outline] # NoArtifact /\ (from = "approve_outline" => refs[Outline][1] = r)

GoodIn(store, id) == store[id[1]][id[2]].good

OutlineWith(r, run, store) ==
    /\ Bound(r, run.from, run.refs) /\ run.ckpt.at \in OutlineNodes /\ run.ckpt.vals.outline_approved
         => GoodIn(store, run.refs[Outline])
    /\ \A k \in DOMAIN run.trace :
          LET e == run.trace[k]
          IN  e.node = "generate_content" /\ Bound(r, run.from, e.inputs)
                => GoodIn(store, e.inputs[Outline])

OutlineGateInv == plan.outline_gate => \A r \in DOMAIN runs : OutlineWith(r, runs[r], artifacts)

FactsWith(run, store) ==
    run.from # "approve_fact_check" /\ ~run.waived =>
        /\ run.ckpt.at = "check_facts" =>
              /\ run.refs[Report] # NoArtifact /\ run.ckpt.vals.report
              /\ \/ GoodIn(store, run.refs[Report])
                 \/ run.ckpt.vals.awaiting_fact_check \/ run.ckpt.vals.fact_answers # "none"
        /\ run.ckpt.at \in {"approve_fact_check", "finalize"} /\ run.refs[Report] # NoArtifact =>
              GoodIn(store, run.refs[Report])

FactGateInv == plan.fact_check_gate => \A r \in DOMAIN runs : FactsWith(runs[r], artifacts)

-----------------------------------------------------------------------------
(* Content. *)

NearOriginal(r) == runs[r].parent = 0 \/ OfOriginal(r)

FullIn(store, id) == store[id[1]][id[2]].full

\* An outline with sections has got its contents.
Written(store, refs) ==
    refs[Outline] # NoArtifact /\ FullIn(store, refs[Outline]) => HasSections(refs)

ContentWith(run, store) ==
    /\ Stage(run.ckpt.at) >= 5 =>
          Written(store, run.refs) /\ (run.ckpt.vals.sections => run.ckpt.vals.draft)
    /\ \A k \in DOMAIN run.trace :
          Stage(run.trace[k].node) >= 6 => Written(store, run.trace[k].inputs)
    /\ run.ckpt.at \in OutlineNodes /\ run.ckpt.vals.outline_approved
       /\ run.refs[Outline] # NoArtifact /\ FullIn(store, run.refs[Outline])
         => run.ckpt.vals.sections
    /\ run.status = "completed" /\ run.ckpt.vals.sections => run.final # NoArtifact

ContentInv == \A r \in DOMAIN runs : NearOriginal(r) => ContentWith(runs[r], artifacts)


-----------------------------------------------------------------------------
(* The slots, and what is held in them. *)

LEMMA SlotsShape ==
    /\ Intent \in Slots /\ Evidence \in Slots /\ Outline \in Slots
    /\ Report \in Slots /\ Final \in Slots /\ \A s \in Sections : Section(s) \in Slots
    /\ 1 \in Sections
  BY RerunsAssumption DEF Slots, Sections

LEMMA LastOfShape ==
    ASSUME NEW r, NEW n \in Nat, NEW ids \in SUBSET ({r} \X (1..n)), ids # {}
    PROVE  /\ LastOf(ids) \in ids
           /\ \A other \in ids : LastOf(ids)[2] >= other[2]
           /\ \A id \in ids : (\A other \in ids : id[2] >= other[2]) => id = LastOf(ids)
  <1>. DEFINE T == {id[2] : id \in ids}
  <1>1. T \in SUBSET Nat /\ T # {} /\ \A t \in T : t <= n
    OBVIOUS
  <1>2. PICK m \in T : \A t \in T : t <= m
    <2>. HIDE DEF T
    <2>1. QED
      BY <1>1, HasLargest
  <1>3. PICK id \in ids : id[2] = m
    OBVIOUS
  <1>4. \A other \in ids : id[2] >= other[2]
    BY <1>2, <1>3
  <1>5. LastOf(ids) \in ids /\ \A other \in ids : LastOf(ids)[2] >= other[2]
    BY <1>4 DEF LastOf
  <1>6. \A i, j \in ids : i[2] >= j[2] /\ j[2] >= i[2] => i = j
    OBVIOUS
  <1>7. QED
    BY <1>5, <1>6

LEMMA HoldIs ==
    ASSUME NEW store, NEW refs, NEW ids, NEW slot \in Slots
    PROVE  Hold(store, refs, ids)[slot] = IF Placed(store, ids, slot) = {} THEN refs[slot]
                                          ELSE LastOf(Placed(store, ids, slot))
  BY DEF Hold

LEMMA HoldShape ==
    ASSUME NEW store, NEW refs, NEW r, NEW n \in Nat, NEW ids \in SUBSET ({r} \X (1..n)),
           NEW slot \in Slots
    PROVE  /\ Placed(store, ids, slot) = {} => Hold(store, refs, ids)[slot] = refs[slot]
           /\ Placed(store, ids, slot) # {} =>
                /\ Hold(store, refs, ids)[slot] = LastOf(Placed(store, ids, slot))
                /\ Hold(store, refs, ids)[slot] \in Placed(store, ids, slot)
  <1>1. Placed(store, ids, slot) \in SUBSET ({r} \X (1..n))
    BY DEF Placed
  <1>2. Placed(store, ids, slot) # {} => LastOf(Placed(store, ids, slot)) \in Placed(store, ids, slot)
    <2>. DEFINE P == Placed(store, ids, slot)
    <2>1. P \in SUBSET ({r} \X (1..n))
      BY <1>1
    <2>. HIDE DEF P
    <2>2. P # {} => LastOf(P) \in P
      BY <2>1, LastOfShape
    <2>3. QED
      BY <2>2 DEF P
  <1>3. QED
    BY <1>2, HoldIs

LEMMA HoldNothing ==
    ASSUME NEW store, NEW refs \in Refs
    PROVE  Hold(store, refs, {}) = refs
  <1>1. \A slot : Placed(store, {}, slot) = {}
    BY DEF Placed
  <1>2. Hold(store, refs, {}) = [slot \in Slots |-> refs[slot]]
    BY <1>1 DEF Hold
  <1>3. QED
    BY <1>2 DEF Refs

\* Where two stores agree on the slots, they place alike.
LEMMA HoldAlike ==
    ASSUME NEW store, NEW other, NEW refs, NEW ids,
           \A id \in ids : store[id[1]][id[2]].slot = other[id[1]][id[2]].slot
    PROVE  Hold(store, refs, ids) = Hold(other, refs, ids)
  <1>1. \A slot : Placed(store, ids, slot) = Placed(other, ids, slot)
    BY DEF Placed
  <1>2. QED
    BY <1>1 DEF Hold

\* Artifacts of one run, those of T made after those of S.
Follows(r, n, S, T) ==
    /\ n \in Nat /\ S \in SUBSET ({r} \X (1..n)) /\ T \in SUBSET ({r} \X (1..n))
    /\ \A s \in S, t \in T : s[2] < t[2]

\* Placing in two turns is placing all of them at once.
LEMMA HoldTwice ==
    ASSUME NEW store, NEW refs, NEW r, NEW n, NEW S, NEW T, Follows(r, n, S, T)
    PROVE  Hold(store, Hold(store, refs, S), T) = Hold(store, refs, S \cup T)
  <1>. /\ n \in Nat /\ S \in SUBSET ({r} \X (1..n)) /\ T \in SUBSET ({r} \X (1..n))
       /\ \A s \in S, t \in T : s[2] < t[2]
    BY DEF Follows
  <1>1. ASSUME NEW slot \in Slots
        PROVE  Hold(store, Hold(store, refs, S), T)[slot] = Hold(store, refs, S \cup T)[slot]
    <2>. DEFINE P == Placed(store, S, slot)
                Q == Placed(store, T, slot)
                U == Placed(store, S \cup T, slot)
    <2>1. /\ U = P \cup Q /\ P \in SUBSET ({r} \X (1..n)) /\ Q \in SUBSET ({r} \X (1..n))
          /\ U \in SUBSET ({r} \X (1..n)) /\ S \cup T \in SUBSET ({r} \X (1..n))
          /\ \A s \in P, t \in Q : s[2] < t[2]
      BY DEF Placed
    <2>2. CASE Q = {}
      <3>1. U = P
        BY <2>1, <2>2
      <3>2. Hold(store, Hold(store, refs, S), T)[slot] = Hold(store, refs, S)[slot]
        BY <2>2, HoldShape
      <3>3. QED
        BY <2>1, <3>1, <3>2 DEF Hold
    <2>3. CASE Q # {}
      <3>1. Hold(store, Hold(store, refs, S), T)[slot] = LastOf(Q)
        BY <2>3, HoldIs
      <3>2. Hold(store, refs, S \cup T)[slot] = LastOf(U)
        <4>1. U # {}
          BY <2>1, <2>3
        <4>2. QED
          BY <4>1, HoldIs
      <3>. HIDE DEF P, Q, U
      <3>3. LastOf(Q) \in Q /\ \A t \in Q : LastOf(Q)[2] >= t[2]
        BY <2>1, <2>3, LastOfShape
      <3>4. LastOf(Q) \in U /\ \A u \in U : LastOf(Q)[2] >= u[2]
        BY <2>1, <3>3
      <3>5. LastOf(Q) = LastOf(U)
        BY <2>1, <3>4, LastOfShape
      <3>6. QED
        BY <3>1, <3>2, <3>5
    <2>4. QED
      BY <2>2, <2>3
  <1>2. QED
    BY <1>1 DEF Hold

-----------------------------------------------------------------------------
(* The graph. *)

LEMMA OutcomeType ==
    ASSUME NEW pl \in Plan, NEW v \in GraphState, NEW n \in Nodes,
           NEW w \in NodeOutcomes(pl, n, v)
    PROVE  w \in GraphState
  <1>1. CASE n = "parse_intent"
    BY <1>1 DEF NodeOutcomes, ParseIntent, GraphState
  <1>2. CASE n = "clarify_intent"
    BY <1>2 DEF NodeOutcomes, ClarifyIntent, GraphState
  <1>3. CASE n = "retrieve_knowledge"
    BY <1>3 DEF NodeOutcomes
  <1>4. CASE n = "generate_outline"
    <2>1. PICK some \in BOOLEAN :
             w = [v EXCEPT !.outline = TRUE, !.sections = some,
                           !.awaiting_outline = pl.outline_gate,
                           !.outline_approved = ~pl.outline_gate, !.user_decision = "none"]
      BY <1>4 DEF NodeOutcomes, GenerateOutline
    <2>2. pl.outline_gate \in BOOLEAN /\ (~pl.outline_gate) \in BOOLEAN
      BY DEF Plan
    <2>3. QED
      BY <2>1, <2>2, ZenonT(60) DEF GraphState, OutlineActions
  <1>5. CASE n = "approve_outline"
    <2>1. w \in ApproveOutline(v)
      BY <1>5 DEF NodeOutcomes
    <2>2. CASE v.user_decision = "accept"
      <3>1. PICK some \in BOOLEAN :
               w = [v EXCEPT !.sections = some, !.outline_approved = TRUE,
                             !.awaiting_outline = FALSE, !.user_decision = "none"]
        BY <2>1, <2>2 DEF ApproveOutline
      <3>2. QED
        BY <3>1, Zenon DEF GraphState, OutlineActions
    <2>3. CASE v.user_decision # "accept"
      <3>1. w = [v EXCEPT !.outline = FALSE, !.sections = FALSE, !.outline_approved = FALSE,
                          !.awaiting_outline = FALSE, !.user_decision = "none"]
        BY <2>1, <2>3 DEF ApproveOutline
      <3>2. QED
        BY <3>1, Zenon DEF GraphState, OutlineActions
    <2>4. QED
      BY <2>2, <2>3
  <1>6. CASE n = "generate_content"
    BY <1>6 DEF NodeOutcomes, GenerateContent, GraphState
  <1>7. CASE n = "self_refine"
    BY <1>7 DEF NodeOutcomes, SelfRefine, GraphState
  <1>8. CASE n = "check_facts"
    <2>1. PICK r \in BOOLEAN :
             w = [v EXCEPT !.report = TRUE, !.risky = r, !.fact_answers = "none",
                           !.awaiting_fact_check = r /\ pl.fact_check_gate]
      BY <1>8 DEF NodeOutcomes, CheckFacts
    <2>2. (r /\ pl.fact_check_gate) \in BOOLEAN
      OBVIOUS
    <2>3. QED
      BY <2>1, <2>2, ZenonT(60) DEF GraphState, FactAnswers
  <1>9. CASE n = "approve_fact_check"
    <2>1. w = [v EXCEPT !.risky = FALSE, !.awaiting_fact_check = FALSE,
                        !.fact_answers = "none", !.final = v.final \/ v.draft]
          /\ (v.final \/ v.draft) \in BOOLEAN
      BY <1>9 DEF NodeOutcomes, ApproveFactCheck
    <2>2. QED
      BY <2>1, ZenonT(90) DEF GraphState, FactAnswers
  <1>10. CASE n = "finalize"
    <2>1. w = [v EXCEPT !.final = v.final \/ v.draft] /\ (v.final \/ v.draft) \in BOOLEAN
      BY <1>10 DEF NodeOutcomes, Finalize
    <2>2. QED
      BY <2>1 DEF GraphState
  <1>11. QED
    BY <1>1, <1>2, <1>3, <1>4, <1>5, <1>6, <1>7, <1>8, <1>9, <1>10 DEF Nodes

LEMMA EmptyType == NoCheckpoint \in Checkpoint /\ InputCheckpoint \in Checkpoint
  BY DEF NoCheckpoint, InputCheckpoint, Checkpoint, EmptyState, GraphState, Entry,
         NoThread, OutlineActions, FactAnswers

\* What a node does to the outline's sections, to the drafts and to the approval.
LEMMA OutcomeKeeps ==
    ASSUME NEW pl \in Plan, NEW v \in GraphState, NEW n \in Nodes,
           NEW w \in NodeOutcomes(pl, n, v)
    PROVE  /\ n \notin OutlineNodes => w.sections = v.sections
           /\ n = "generate_content" => w.draft = v.sections
           /\ n \notin {"generate_content"} => w.draft = v.draft
           /\ n = "approve_outline" => (w.outline_approved <=> v.user_decision = "accept")
  <1>. USE DEF NodeOutcomes, OutlineNodes
  <1>1. CASE n = "parse_intent"
    BY <1>1 DEF ParseIntent, GraphState
  <1>2. CASE n = "clarify_intent"
    BY <1>2 DEF ClarifyIntent, GraphState
  <1>3. CASE n = "retrieve_knowledge"
    BY <1>3
  <1>4. CASE n = "generate_outline"
    BY <1>4 DEF GenerateOutline, GraphState
  <1>5. CASE n = "approve_outline"
    BY <1>5 DEF ApproveOutline, GraphState
  <1>6. CASE n = "generate_content"
    BY <1>6 DEF GenerateContent, GraphState
  <1>7. CASE n = "self_refine"
    BY <1>7 DEF SelfRefine, GraphState
  <1>8. CASE n = "check_facts"
    BY <1>8 DEF CheckFacts, GraphState
  <1>9. CASE n = "approve_fact_check"
    BY <1>9 DEF ApproveFactCheck, GraphState
  <1>10. CASE n = "finalize"
    BY <1>10 DEF Finalize, GraphState
  <1>11. QED
    BY <1>1, <1>2, <1>3, <1>4, <1>5, <1>6, <1>7, <1>8, <1>9, <1>10 DEF Nodes

LEMMA StageIs ==
    /\ Stage(Entry) = 0 /\ Stage(NoThread) = 0 /\ Stage("parse_intent") = 1
    /\ Stage("clarify_intent") = 2 /\ Stage("retrieve_knowledge") = 3
    /\ Stage("generate_outline") = 4 /\ Stage("approve_outline") = 4
    /\ Stage("generate_content") = 5 /\ Stage("self_refine") = 6 /\ Stage("check_facts") = 7
    /\ Stage("approve_fact_check") = 8 /\ Stage("finalize") = 9 /\ Stage(End) = 10
  BY DEF Stage, Entry, NoThread, End

LEMMA StageShape ==
    /\ \A n \in Nodes : Stage(n) \in 1..9
    /\ \A m, n \in Nodes : Stage(m) = Stage(n) => m = n \/ (m \in OutlineNodes /\ n \in OutlineNodes)
  <1>1. \A n \in Nodes : Stage(n) \in 1..9
    BY StageIs, SMTT(60) DEF Nodes
  <1>2. \A m, n \in Nodes : Stage(m) = Stage(n) => m = n \/ (m \in OutlineNodes /\ n \in OutlineNodes)
    BY StageIs, SMTT(60) DEF Nodes, OutlineNodes
  <1>3. QED
    BY <1>1, <1>2

\* The graph leads forward, and back to the outline only.
Leads(pl, c, n) ==
    /\ n \in Nodes \cup {End}
    /\ Stage(c.at) <= Stage(n) /\ Stage(c.at) \in 0..9 /\ Stage(n) \in 0..10
    /\ n \notin OutlineNodes => Stage(c.at) < Stage(n)
    /\ n # End /\ Stage(n) >= 6 => Stage(c.at) >= 5
    /\ n \in OutlineNodes => c.at \in OutlineNodes \cup {"retrieve_knowledge"}
    /\ n = "generate_content" =>
         c.at \in OutlineNodes /\ c.vals.outline /\ c.vals.outline_approved
    /\ c.at = "check_facts" => n = AfterFactCheck(c.vals)
    /\ c.at = "approve_fact_check" => n = "finalize"
    /\ c.at = "finalize" => n = End
    /\ c.at = NoThread => n = End
    /\ n = "finalize" =>
         c.at \in {"generate_content", "self_refine", "check_facts", "approve_fact_check"}
    /\ c.at = "retrieve_knowledge" => n = "generate_outline"

LEMMA NextStage ==
    ASSUME NEW pl \in Plan, NEW c \in Checkpoint
    PROVE  Leads(pl, c, NextNode(pl, c))
  <1>. USE StageIs DEF Leads, NextNode, OutlineNodes
  <1>1. CASE c.at = Entry
    BY <1>1 DEF Entry, End, NoThread, Nodes
  <1>2. CASE c.at = NoThread
    BY <1>2 DEF Entry, End, NoThread, Nodes
  <1>3. CASE c.at = "parse_intent"
    BY <1>3 DEF Entry, End, NoThread, Nodes, AfterParseIntent
  <1>4. CASE c.at \in {"clarify_intent", "retrieve_knowledge", "finalize", "approve_fact_check"}
    BY <1>4 DEF Entry, End, NoThread, Nodes
  <1>5. CASE c.at \in OutlineNodes
    BY <1>5, SMTT(60) DEF Entry, End, NoThread, Nodes, AfterOutline
  <1>6. CASE c.at \in {"generate_content", "self_refine"}
    BY <1>6 DEF Entry, End, NoThread, Nodes, AfterContent, AfterRefine
  <1>7. CASE c.at = "check_facts"
    BY <1>7 DEF Entry, End, NoThread, Nodes, AfterFactCheck
  <1>8. QED
    BY <1>1, <1>2, <1>3, <1>4, <1>5, <1>6, <1>7 DEF Checkpoint, Nodes

\* A node makes nothing of a later stage.
LEMMA MakesByStage ==
    ASSUME NEW n \in Nodes, NEW slot \in Slots, slot \in Makes(n)
    PROVE  First(slot) <= Stage(n) /\ First(slot) \in 0..7
  <1>. USE DEF Intent, Evidence, Outline, Report, Final, Section, Sections, First, Stage
  <1>1. CASE slot \in {Section(s) : s \in Sections}
    BY <1>1 DEF Makes, Nodes, End
  <1>2. CASE slot \notin {Section(s) : s \in Sections}
    BY <1>2 DEF Makes, Nodes, Slots, End
  <1>3. QED
    BY <1>1, <1>2

-----------------------------------------------------------------------------
(* What the nodes make. *)

Wants == [slot : Slots, parent : Ids \cup {NoArtifact}, good : BOOLEAN, full : BOOLEAN]

\* A node makes an artifact from the one that is held, but what it is the first
\* to make; only outlines and reports may need another look.
WantedBy(n, refs, v, w) ==
    /\ w \in Wants /\ w.slot \in Makes(n)
    /\ \/ w.parent = refs[w.slot]
       \/ w.parent = NoArtifact /\ n \notin OutlineNodes /\ First(w.slot) = Stage(n)
    /\ n \notin {"generate_outline", "check_facts"} => w.good
    /\ n = "check_facts" => (w.good <=> ~v.risky)
    /\ n \in OutlineNodes => w.full = v.sections

AllWantedBy(n, refs, v, out) ==
    out \in Seq(Wants) /\ \A k \in 1..Len(out) : WantedBy(n, refs, v, out[k])

LEMMA SeqOfFunction ==
    ASSUME NEW S, NEW n \in Nat, NEW f \in [1..n -> S]
    PROVE  f \in Seq(S) /\ Len(f) = n
  BY SeqDef

LEMMA OneWanted ==
    ASSUME NEW n, NEW refs, NEW v, NEW w, WantedBy(n, refs, v, w)
    PROVE  /\ AllWantedBy(n, refs, v, <<w>>) /\ AllWantedBy(n, refs, v, << >>)
           /\ Len(<<w>>) = 1 /\ <<w>>[1] = w
  BY DEF AllWantedBy, WantedBy

LEMMA NoneWanted == \A n, refs, v : AllWantedBy(n, refs, v, << >>)
  BY DEF AllWantedBy

LEMMA BothWanted ==
    ASSUME NEW n, NEW refs, NEW v, NEW s, AllWantedBy(n, refs, v, s),
           NEW t, AllWantedBy(n, refs, v, t)
    PROVE  AllWantedBy(n, refs, v, s \o t)
  <1>1. s \in Seq(Wants) /\ t \in Seq(Wants) /\ Len(s) \in Nat /\ Len(t) \in Nat
    BY LenProperties DEF AllWantedBy
  <1>2. /\ s \o t \in Seq(Wants) /\ Len(s \o t) = Len(s) + Len(t)
        /\ \A i \in 1..Len(s) + Len(t) : (s \o t)[i] = IF i <= Len(s) THEN s[i] ELSE t[i - Len(s)]
    BY <1>1, ConcatProperties
  <1>3. ASSUME NEW i \in 1..Len(s \o t) PROVE WantedBy(n, refs, v, (s \o t)[i])
    <2>1. CASE i <= Len(s)
      BY <1>1, <1>2, <2>1 DEF AllWantedBy
    <2>2. CASE ~ (i <= Len(s))
      <3>1. i - Len(s) \in 1..Len(t) /\ (s \o t)[i] = t[i - Len(s)]
        BY <1>1, <1>2, <2>2
      <3>2. QED
        BY <3>1 DEF AllWantedBy
    <2>3. QED
      BY <2>1, <2>2
  <1>4. QED
    BY <1>2, <1>3 DEF AllWantedBy

\* The first of some things a node wants to make are things it wants to make.
LEMMA FirstWanted ==
    ASSUME NEW n, NEW refs, NEW v, NEW out, AllWantedBy(n, refs, v, out), NEW k \in 1..Len(out)
    PROVE  AllWantedBy(n, refs, v, SubSeq(out, 1, k))
  <1>1. out \in Seq(Wants) /\ Len(out) \in Nat /\ \A j \in 1..Len(out) : out[j] \in Wants
    BY LenProperties, ElementOfSeq DEF AllWantedBy
  <1>2. /\ SubSeq(out, 1, k) \in Seq(Wants) /\ Len(SubSeq(out, 1, k)) = k
        /\ \A j \in 1..k : SubSeq(out, 1, k)[j] = out[j]
    <2>1. \A j \in 1..k : out[j] \in Wants
      BY <1>1
    <2>2. SubSeq(out, 1, k) = [j \in 1..k |-> out[j]]
      BY <1>1, SMTT(60)
    <2>3. PICK f : f = [j \in 1..k |-> out[j]]
      OBVIOUS
    <2>4. f \in [1..k -> Wants] /\ \A j \in 1..k : f[j] = out[j]
      BY <2>1, <2>3
    <2>5. k \in Nat
      BY <1>1
    <2>6. f \in Seq(Wants) /\ Len(f) = k
      BY <2>4, <2>5, SeqOfFunction
    <2>7. QED
      BY <2>2, <2>3, <2>4, <2>6
  <1>3. QED
    BY <1>1, <1>2 DEF AllWantedBy

LEMMA FirstIs ==
    /\ First(Intent) = 1 /\ First(Evidence) = 3 /\ First(Report) = 7
    /\ \A s \in Sections : First(Section(s)) = 5
  BY DEF First, Intent, Evidence, Outline, Report, Section

LEMMA RunsShape ==
    ASSUME RerunsTypeOK
    PROVE  /\ DOMAIN runs = 1..Len(runs) /\ Len(runs) \in 1..MaxRuns /\ MaxRuns \in Nat
           /\ \A r \in DOMAIN runs : runs[r] \in Run /\ r \in RunIds
  <1>1. DOMAIN runs = 1..Len(runs) /\ Len(runs) \in 1..MaxRuns /\ MaxRuns \in Nat
    BY LenProperties, RerunsAssumption DEF RerunsTypeOK
  <1>2. \A r \in 1..Len(runs) : runs[r] \in Run
    BY ElementOfSeq DEF RerunsTypeOK
  <1>3. QED
    BY <1>1, <1>2 DEF RunIds

LEMMA BothAre ==
    ASSUME NEW n, NEW refs, NEW v, NEW w, WantedBy(n, refs, v, w), NEW x, WantedBy(n, refs, v, x)
    PROVE  AllWantedBy(n, refs, v, <<w, x>>)
  BY DEF AllWantedBy, WantedBy

LEMMA OutputsWanted ==
    ASSUME RerunsTypeOK, NEW r \in DOMAIN runs, NEW n \in Nodes, NEW v \in GraphState,
           NEW revised \in Revisions
    PROVE  AllWantedBy(n, runs[r].refs, v, Outputs(r, n, v, revised))
  <1>a. PICK refs : refs = runs[r].refs
    OBVIOUS
  <1>b. PICK out : out = Outputs(r, n, v, revised)
    OBVIOUS
  <1>c. SUFFICES AllWantedBy(n, refs, v, out)
    BY <1>a, <1>b
  <1>1. \A slot \in Slots : refs[slot] \in Ids \cup {NoArtifact}
    BY <1>a, RunsShape DEF Run, Refs
  <1>2. /\ v.risky \in BOOLEAN /\ v.outline_approved \in BOOLEAN
        /\ v.sections \in BOOLEAN /\ v.final \in BOOLEAN /\ v.draft \in BOOLEAN
    BY DEF GraphState
  <1>3. CASE n = "parse_intent"
    <2>1. WantedBy(n, refs, v, Wanted(Intent, NoArtifact, TRUE, TRUE))
      BY <1>3, SlotsShape, FirstIs, StageIs DEF WantedBy, Wants, Wanted, Makes, OutlineNodes
    <2>2. out = <<Wanted(Intent, NoArtifact, TRUE, TRUE)>>
      BY <1>b, <1>3 DEF Outputs
    <2>3. QED
      BY <2>1, <2>2, OneWanted
  <1>4. CASE n = "clarify_intent"
    <2>1. WantedBy(n, refs, v, Wanted(Intent, refs[Intent], TRUE, TRUE))
      BY <1>1, <1>4, SlotsShape, FirstIs, StageIs DEF WantedBy, Wants, Wanted, Makes, OutlineNodes
    <2>2. out = <<Wanted(Intent, refs[Intent], TRUE, TRUE)>>
      BY <1>a, <1>b, <1>4 DEF Outputs
    <2>3. QED
      BY <2>1, <2>2, OneWanted
  <1>5. CASE n = "retrieve_knowledge"
    <2>1. WantedBy(n, refs, v, Wanted(Evidence, NoArtifact, TRUE, TRUE))
      BY <1>5, SlotsShape, FirstIs, StageIs DEF WantedBy, Wants, Wanted, Makes, OutlineNodes
    <2>2. out = IF retrieval THEN <<Wanted(Evidence, NoArtifact, TRUE, TRUE)>> ELSE << >>
      BY <1>b, <1>5 DEF Outputs
    <2>3. QED
      BY <2>1, <2>2, OneWanted
  <1>6. CASE n = "generate_outline"
    <2>1. WantedBy(n, refs, v, Wanted(Outline, refs[Outline], FALSE, v.sections))
      BY <1>1, <1>2, <1>6, SlotsShape, FirstIs, StageIs DEF WantedBy, Wants, Wanted, Makes, OutlineNodes
    <2>2. out = <<Wanted(Outline, refs[Outline], FALSE, v.sections)>>
      BY <1>a, <1>b, <1>6 DEF Outputs
    <2>3. QED
      BY <2>1, <2>2, OneWanted
  <1>7. CASE n = "approve_outline"
    <2>1. WantedBy(n, refs, v, Wanted(Outline, refs[Outline], TRUE, v.sections))
      BY <1>1, <1>2, <1>7, SlotsShape, FirstIs, StageIs DEF WantedBy, Wants, Wanted, Makes, OutlineNodes
    <2>2. out = IF v.outline_approved THEN <<Wanted(Outline, refs[Outline], TRUE, v.sections)>> ELSE << >>
      BY <1>a, <1>b, <1>7 DEF Outputs
    <2>3. QED
      BY <2>1, <2>2, OneWanted
  <1>8. CASE n = "generate_content"
    <2>1. \A s \in Sections : WantedBy(n, refs, v, Wanted(Section(s), NoArtifact, TRUE, TRUE))
      BY <1>8, SlotsShape, FirstIs, StageIs DEF WantedBy, Wants, Wanted, Makes, OutlineNodes
    <2>0. v.sections => out = [s \in 1..NumSections |-> Wanted(Section(s), NoArtifact, TRUE, TRUE)]
      BY <1>b, <1>8 DEF Outputs, Sections
    <2>3. ~v.sections => out = << >>
      BY <1>b, <1>8 DEF Outputs
    <2>4. CASE ~v.sections
      BY <2>3, <2>4, NoneWanted
    <2>2. CASE v.sections
      <3>0. NumSections \in Nat /\ \A s \in 1..NumSections : Wanted(Section(s), NoArtifact, TRUE, TRUE) \in Wants
        BY <2>1, RerunsAssumption DEF Sections, WantedBy
      <3>1. out \in [1..NumSections -> Wants] /\ NumSections \in Nat
        BY <2>0, <2>2, <3>0
      <3>2. out \in Seq(Wants) /\ Len(out) = NumSections
        BY <3>1, SeqOfFunction
      <3>3. QED
        BY <2>0, <2>1, <2>2, <3>2 DEF AllWantedBy, Sections
    <2>5. QED
      BY <2>2, <2>4
  <1>9. CASE n = "self_refine"
    <2>. DEFINE first == [k \in DOMAIN revised |-> Wanted(Section(revised[k]), refs[Section(revised[k])], TRUE, TRUE)]
                last == <<Wanted(Final, refs[Final], TRUE, v.final)>>
    <2>1. revised \in Seq(Sections) /\ DOMAIN revised = 1..Len(revised) /\ Len(revised) \in Nat
      BY RerunsAssumption, LenProperties DEF Sections
    <2>2. \A k \in 1..Len(revised) : revised[k] \in Sections
      BY <2>1, ElementOfSeq
    <2>3. out = first \o last
      BY <1>a, <1>b, <1>9 DEF Outputs
    <2>4. AllWantedBy(n, refs, v, last)
      <3>1. WantedBy(n, refs, v, Wanted(Final, refs[Final], TRUE, v.final))
        BY <1>1, <1>2, <1>9, SlotsShape, FirstIs, StageIs DEF WantedBy, Wants, Wanted, Makes, OutlineNodes
      <3>2. QED
        BY <3>1, OneWanted
    <2>5. \A k \in 1..Len(revised) : first[k] \in Wants /\ WantedBy(n, refs, v, first[k])
      BY <1>1, <1>9, <2>1, <2>2, SlotsShape, FirstIs, StageIs
      DEF WantedBy, Wants, Wanted, Makes, OutlineNodes
    <2>6. AllWantedBy(n, refs, v, first)
      <3>1. first \in [1..Len(revised) -> Wants]
        BY <2>1, <2>5
      <3>. HIDE DEF first
      <3>2. first \in Seq(Wants) /\ Len(first) = Len(revised)
        BY <2>1, <3>1, SeqOfFunction
      <3>3. QED
        BY <2>5, <3>2 DEF AllWantedBy
    <2>7. QED
      <3>. HIDE DEF first, last
      <3>1. QED
        BY <2>3, <2>4, <2>6, BothWanted
  <1>10. CASE n = "check_facts"
    <2>1. WantedBy(n, refs, v, Wanted(Report, NoArtifact, ~v.risky, TRUE))
      BY <1>2, <1>10, SlotsShape, FirstIs, StageIs DEF WantedBy, Wants, Wanted, Makes, OutlineNodes
    <2>2. out = <<Wanted(Report, NoArtifact, ~v.risky, TRUE)>>
      BY <1>b, <1>10 DEF Outputs
    <2>3. QED
      BY <2>1, <2>2, OneWanted
  <1>11. CASE n = "approve_fact_check"
    <2>1. /\ WantedBy(n, refs, v, Wanted(Report, refs[Report], TRUE, TRUE))
          /\ WantedBy(n, refs, v, Wanted(Final, refs[Final], TRUE, v.final))
      BY <1>1, <1>2, <1>11, SlotsShape, FirstIs, StageIs DEF WantedBy, Wants, Wanted, Makes, OutlineNodes
    <2>2. out = <<Wanted(Report, refs[Report], TRUE, TRUE), Wanted(Final, refs[Final], TRUE, v.final)>>
      BY <1>a, <1>b, <1>11 DEF Outputs
    <2>3. QED
      BY <2>1, <2>2, BothAre
  <1>12. CASE n = "finalize"
    <2>1. refs[Final] = NoArtifact => WantedBy(n, refs, v, Wanted(Final, NoArtifact, TRUE, TRUE))
      BY <1>12, SlotsShape, FirstIs, StageIs DEF WantedBy, Wants, Wanted, Makes, OutlineNodes
    <2>2. out = IF refs[Final] = NoArtifact /\ v.draft
                THEN <<Wanted(Final, NoArtifact, TRUE, TRUE)>> ELSE << >>
      BY <1>a, <1>b, <1>12 DEF Outputs, LastOutput
    <2>3. QED
      BY <2>1, <2>2, OneWanted, NoneWanted
  <1>13. QED
    BY <1>3, <1>4, <1>5, <1>6, <1>7, <1>8, <1>9, <1>10, <1>11, <1>12 DEF Nodes

\* The contents, the report and the last output are really made.
\* What a node has made for certain, and what it may have made besides.
LEMMA OutputsMade ==
    ASSUME RerunsTypeOK, NEW r \in DOMAIN runs, NEW n \in Nodes, Recorded(n),
           NEW before \in GraphState, NEW v \in NodeOutcomes(plan, n, before),
           NEW revised \in Revisions, NEW out, out = Outputs(r, n, v, revised)
    PROVE  /\ \A slot \in Must(n, before) : \E k \in 1..Len(out) : out[k].slot = slot
           /\ \A k \in 1..Len(out) :
                 \/ out[k].slot \in Must(n, before)
                 \/ n = "self_refine" /\ out[k].slot \in SectionSlots
  <1>. DEFINE refs == runs[r].refs
  <1>1. /\ n \notin OutlineNodes => v.sections = before.sections
        /\ n = "approve_outline" => (v.outline_approved <=> before.user_decision = "accept")
    BY OutcomeKeeps DEF RerunsTypeOK
  <1>2. CASE n \in {"parse_intent", "clarify_intent"}
    <2>1. Must(n, before) = {Intent}
      BY <1>2 DEF Must, Makes
    <2>2. \E parent : out = <<Wanted(Intent, parent, TRUE, TRUE)>>
      BY <1>2 DEF Outputs
    <2>3. QED
      BY <2>1, <2>2 DEF Wanted
  <1>3. CASE n = "retrieve_knowledge"
    <2>1. Must(n, before) = {Evidence}
      BY <1>3 DEF Must, Makes
    <2>2. out = <<Wanted(Evidence, NoArtifact, TRUE, TRUE)>>
      BY <1>3 DEF Outputs, Recorded
    <2>3. QED
      BY <2>1, <2>2 DEF Wanted
  <1>4. CASE n = "generate_outline"
    <2>1. Must(n, before) = {Outline}
      BY <1>4 DEF Must, Makes
    <2>2. out = <<Wanted(Outline, refs[Outline], FALSE, v.sections)>>
      BY <1>4 DEF Outputs
    <2>3. QED
      BY <2>1, <2>2 DEF Wanted
  <1>5. CASE n = "approve_outline"
    <2>1. Must(n, before) = {slot \in {Outline} : before.user_decision = "accept"}
      BY <1>5 DEF Must
    <2>2. out = IF v.outline_approved THEN <<Wanted(Outline, refs[Outline], TRUE, v.sections)>>
                ELSE << >>
      BY <1>5 DEF Outputs
    <2>3. v.outline_approved <=> before.user_decision = "accept"
      BY <1>1, <1>5
    <2>4. CASE v.outline_approved
      BY <2>1, <2>2, <2>3, <2>4 DEF Wanted
    <2>5. CASE ~v.outline_approved
      BY <2>1, <2>2, <2>3, <2>5
    <2>6. QED
      BY <2>4, <2>5
  <1>6. CASE n = "generate_content"
    <2>1. Must(n, before) = {slot \in SectionSlots : before.sections}
      BY <1>6 DEF Must
    <2>2. out = IF v.sections THEN [s \in 1..NumSections |-> Wanted(Section(s), NoArtifact, TRUE, TRUE)]
                ELSE << >>
      BY <1>6 DEF Outputs, Sections
    <2>3. v.sections <=> before.sections
      BY <1>1, <1>6 DEF OutlineNodes
    <2>4. CASE ~v.sections
      BY <2>1, <2>2, <2>3, <2>4
    <2>5. CASE v.sections
      <3>1. out = [s \in 1..NumSections |-> Wanted(Section(s), NoArtifact, TRUE, TRUE)]
        BY <2>2, <2>5
      <3>2. /\ Len(out) = NumSections
            /\ \A s \in 1..NumSections : out[s] = Wanted(Section(s), NoArtifact, TRUE, TRUE)
        BY <3>1, RerunsAssumption
      <3>3. \A s \in 1..NumSections : out[s].slot = Section(s)
        BY <3>2 DEF Wanted
      <3>4. QED
        BY <2>1, <2>3, <2>5, <3>2, <3>3 DEF SectionSlots, Sections
    <2>6. QED
      BY <2>4, <2>5
  <1>7. CASE n = "self_refine"
    <2>. DEFINE m == Len(revised)
    <2>1. PICK first : first = [k \in DOMAIN revised |->
                                  Wanted(Section(revised[k]), refs[Section(revised[k])], TRUE, TRUE)]
      OBVIOUS
    <2>2. PICK last : last = <<Wanted(Final, refs[Final], TRUE, v.final)>>
      OBVIOUS
    <2>3. out = first \o last
      BY <1>7, <2>1, <2>2 DEF Outputs
    <2>4. revised \in Seq(Sections) /\ DOMAIN revised = 1..m /\ m \in Nat
      BY RerunsAssumption, LenProperties DEF Sections
    <2>5. \A k \in 1..m : revised[k] \in Sections
      BY <2>4, ElementOfSeq
    <2>6. DOMAIN first = 1..m /\ \A k \in 1..m : first[k].slot = Section(revised[k])
      BY <2>1, <2>4 DEF Wanted
    <2>7. first \in Seq({first[k] : k \in 1..m}) /\ Len(first) = m
      <3>1. first \in [1..m -> {first[k] : k \in 1..m}]
        BY <2>1, <2>4
      <3>2. QED
        BY <2>4, <3>1, SeqOfFunction
    <2>8. Len(last) = 1 /\ last[1].slot = Final /\ last \in Seq({last[1]})
      BY <2>2 DEF Wanted
    <2>9. /\ Len(out) = m + 1 /\ out[m + 1] = last[1]
          /\ \A k \in 1..m : out[k] = first[k]
      <3>1. PICK S : S = {first[k] : k \in 1..m} \cup {last[1]}
        OBVIOUS
      <3>2. first \in Seq(S) /\ last \in Seq(S)
        BY <2>7, <2>8, <3>1, SMTT(60)
      <3>3. /\ Len(out) = Len(first) + Len(last)
            /\ \A i \in 1..Len(first) + Len(last) :
                  out[i] = IF i <= Len(first) THEN first[i] ELSE last[i - Len(first)]
        BY <2>3, <3>2, ConcatProperties
      <3>4. /\ Len(out) = m + 1
            /\ \A i \in 1..m + 1 : out[i] = IF i <= m THEN first[i] ELSE last[i - m]
        <4>1. Len(first) = m /\ Len(last) = 1
          BY <2>7, <2>8
        <4>2. QED
          BY <3>3, <4>1
      <3>5. out[m + 1] = last[1]
        <4>1. m + 1 \in 1..m + 1 /\ ~(m + 1 <= m) /\ (m + 1) - m = 1
          BY <2>4
        <4>2. QED
          BY <3>4, <4>1
      <3>6. \A k \in 1..m : out[k] = first[k]
        <4>1. \A k \in 1..m : k \in 1..m + 1 /\ k <= m
          BY <2>4
        <4>2. QED
          BY <3>4, <4>1
      <3>7. QED
        BY <3>4, <3>5, <3>6
    <2>10. Must(n, before) = {Final}
      BY <1>7 DEF Must
    <2>11. \A k \in 1..m : out[k].slot \in SectionSlots
      BY <2>5, <2>6, <2>9 DEF SectionSlots
    <2>12. out[m + 1].slot = Final /\ m + 1 \in 1..Len(out)
      BY <2>4, <2>8, <2>9
    <2>13. \A k \in 1..Len(out) : k \in 1..m \/ k = m + 1
      BY <2>4, <2>9
    <2>14. QED
      BY <1>7, <2>10, <2>11, <2>12, <2>13
  <1>8. CASE n = "check_facts"
    <2>1. Must(n, before) = {Report}
      BY <1>8 DEF Must, Makes
    <2>2. out = <<Wanted(Report, NoArtifact, ~v.risky, TRUE)>>
      BY <1>8 DEF Outputs
    <2>3. QED
      BY <2>1, <2>2 DEF Wanted
  <1>9. CASE n = "approve_fact_check"
    <2>1. Must(n, before) = {Report, Final}
      BY <1>9 DEF Must, Makes
    <2>2. out = <<Wanted(Report, refs[Report], TRUE, TRUE), Wanted(Final, refs[Final], TRUE, v.final)>>
      BY <1>9 DEF Outputs
    <2>3. /\ Len(out) = 2 /\ out[1].slot = Report /\ out[2].slot = Final
      BY <2>2 DEF Wanted
    <2>4. QED
      BY <2>1, <2>3
  <1>10. QED
    BY <1>2, <1>3, <1>4, <1>5, <1>6, <1>7, <1>8, <1>9 DEF Nodes, Recorded

\* The drafts become a final content.
LEMMA LastMade ==
    ASSUME NEW r \in DOMAIN runs, NEW v, v.draft, NEW revised,
           runs[r].refs[Final] = NoArtifact
    PROVE  LET out == Outputs(r, "finalize", v, revised)
           IN  Len(out) = 1 /\ out[1].slot = Final
  <1>1. Outputs(r, "finalize", v, revised) = <<Wanted(Final, NoArtifact, TRUE, TRUE)>>
    BY DEF Outputs, LastOutput
  <1>2. QED
    BY <1>1 DEF Wanted

-----------------------------------------------------------------------------
(* How an artifact gets its version. *)

BoundedBy(B) == \A r \in RunIds : \A k \in DOMAIN artifacts[r] : artifacts[r][k].version <= B

VersionsBounded == \E B \in Nat : BoundedBy(B)

LEMMA StoreShape ==
    ASSUME RerunsTypeOK, NEW r \in RunIds
    PROVE  /\ artifacts[r] \in Seq(Artifact) /\ Len(artifacts[r]) \in Nat
           /\ DOMAIN artifacts[r] = 1..Len(artifacts[r])
           /\ \A k \in DOMAIN artifacts[r] :
                 /\ artifacts[r][k] \in Artifact /\ artifacts[r][k].version \in Nat
                 /\ artifacts[r][k].slot \in Slots /\ artifacts[r][k].good \in BOOLEAN
                 /\ artifacts[r][k].full \in BOOLEAN
  <1>1. artifacts[r] \in Seq(Artifact)
    BY DEF RerunsTypeOK
  <1>2. Len(artifacts[r]) \in Nat /\ DOMAIN artifacts[r] = 1..Len(artifacts[r])
    BY <1>1, LenProperties
  <1>3. \A k \in DOMAIN artifacts[r] : artifacts[r][k] \in Artifact
    BY <1>1, <1>2, ElementOfSeq
  <1>4. QED
    BY <1>1, <1>2, <1>3 DEF Artifact

LEMMA LastVersion ==
    ASSUME RerunsTypeOK, NEW B \in Nat, BoundedBy(B), NEW r \in RunIds, NEW type
    PROVE  LET last == CHOOSE m \in {0} \cup {a.version : a \in OfType(r, type)} :
                           \A a \in OfType(r, type) : m >= a.version
           IN  last \in 0..B
  <1>. DEFINE V == {0} \cup {a.version : a \in OfType(r, type)}
  <1>1. \A a \in OfType(r, type) : a.version \in Nat /\ a.version <= B
    BY StoreShape DEF OfType, BoundedBy
  <1>2. V \in SUBSET Nat /\ V # {} /\ \A x \in V : x <= B
    BY <1>1
  <1>3. PICK m \in V : \A x \in V : x <= m
    <2>. HIDE DEF V
    <2>1. QED
      BY <1>2, HasLargest
  <1>4. \A a \in OfType(r, type) : m >= a.version
    BY <1>1, <1>2, <1>3
  <1>5. (CHOOSE x \in V : \A a \in OfType(r, type) : x >= a.version) \in V
    <2>. HIDE DEF V
    <2>1. QED
      BY <1>4
  <1>6. \A x \in V : x \in 0..B
    BY <1>2
  <1>7. QED
    BY <1>5, <1>6, Zenon

\* The k-th of some numbered things counts itself among the first k.
LEMMA CountsItself ==
    ASSUME NEW k \in Nat \ {0}, NEW P \in SUBSET (1..k), k \in P
    PROVE  Cardinality(P) \in 1..k
  <1>1. IsFiniteSet(1..k) /\ Cardinality(1..k) = k
    BY FS_Interval
  <1>2. IsFiniteSet(P) /\ Cardinality(P) <= k /\ Cardinality(P) \in Nat
    BY <1>1, FS_Subset, FS_CardinalityType, ZenonT(90)
  <1>3. Cardinality(P) # 0
    BY <1>2, FS_EmptySet
  <1>4. QED
    BY <1>2, <1>3

LEMMA VersionShape ==
    ASSUME RerunsTypeOK, NEW B \in Nat, BoundedBy(B), NEW r \in RunIds, NEW out \in Seq(Wants),
           NEW k \in 1..Len(out), out[k].parent # NoArtifact => Exists(out[k].parent)
    PROVE  /\ NextVersion(r, out, k) \in Nat /\ NextVersion(r, out, k) <= B + Len(out)
           /\ out[k].parent # NoArtifact => NextVersion(r, out, k) > Get(out[k].parent).version
  <1>. DEFINE P == {j \in 1..k : out[j].slot = out[k].slot}
              Q == {j \in 1..k : out[j].slot[1] = out[k].slot[1]}
              last == CHOOSE m \in {0} \cup {a.version : a \in OfType(r, out[k].slot[1])} :
                          \A a \in OfType(r, out[k].slot[1]) : m >= a.version
  <1>1. Len(out) \in Nat /\ k \in Nat \ {0} /\ k <= Len(out)
    BY LenProperties
  <1>2. Cardinality(P) \in 1..k /\ Cardinality(Q) \in 1..k
    <2>1. P \in SUBSET (1..k) /\ k \in P /\ Q \in SUBSET (1..k) /\ k \in Q
      BY <1>1
    <2>. HIDE DEF P, Q
    <2>2. QED
      BY <1>1, <2>1, CountsItself
  <1>3. last \in 0..B
    BY LastVersion
  <1>4. NextVersion(r, out, k) = IF out[k].parent # NoArtifact
                                 THEN Get(out[k].parent).version + Cardinality(P)
                                 ELSE last + Cardinality(Q)
    BY DEF NextVersion
  <1>5. out[k].parent # NoArtifact =>
          Get(out[k].parent).version \in Nat /\ Get(out[k].parent).version <= B
    BY StoreShape DEF Exists, Get, BoundedBy
  <1>. HIDE DEF P, Q, last
  <1>6. QED
    BY <1>1, <1>2, <1>3, <1>4, <1>5, SMTT(60)

\* The artifacts of a run after it has made some: the old ones, then the new.
Made(r, out, made) ==
    /\ made \in Seq(Artifact) /\ Len(made) = Len(artifacts[r]) + Len(out)
    /\ \A i \in DOMAIN artifacts[r] : made[i] = artifacts[r][i]
    /\ \A k \in 1..Len(out) :
          LET a == made[Len(artifacts[r]) + k]
          IN  /\ a.slot = out[k].slot /\ a.good = out[k].good /\ a.full = out[k].full
              /\ a.version = NextVersion(r, out, k)

LEMMA CreateShape ==
    ASSUME RerunsTypeOK, VersionsBounded, NEW r \in RunIds, NEW out \in Seq(Wants),
           \A k \in 1..Len(out) : out[k].parent # NoArtifact => Exists(out[k].parent)
    PROVE  Made(r, out, CreateArtifacts(r, out))
  <1>. DEFINE new == [k \in DOMAIN out |->
                       [slot |-> out[k].slot, good |-> out[k].good, full |-> out[k].full,
                        version |-> NextVersion(r, out, k)]]
              n == Len(artifacts[r])
  <1>1. /\ DOMAIN out = 1..Len(out) /\ Len(out) \in Nat
        /\ \A k \in 1..Len(out) : out[k] \in Wants
    BY LenProperties, ElementOfSeq
  <1>2. \A k \in 1..Len(out) : NextVersion(r, out, k) \in Nat
    BY VersionShape DEF VersionsBounded
  <1>3. new \in [1..Len(out) -> Artifact]
    BY <1>1, <1>2 DEF Wants, Artifact
  <1>4. new \in Seq(Artifact) /\ Len(new) = Len(out)
    <2>. HIDE DEF new
    <2>1. QED
      BY <1>1, <1>3, SeqOfFunction
  <1>5. \A k \in 1..Len(out) : /\ new[k].slot = out[k].slot /\ new[k].good = out[k].good
                               /\ new[k].full = out[k].full
                               /\ new[k].version = NextVersion(r, out, k)
    BY <1>1
  <1>6. CreateArtifacts(r, out) = artifacts[r] \o new
    BY DEF CreateArtifacts
  <1>. HIDE DEF new
  <1>7. artifacts[r] \in Seq(Artifact) /\ n \in Nat /\ DOMAIN artifacts[r] = 1..n
    BY StoreShape
  <1>8. /\ artifacts[r] \o new \in Seq(Artifact) /\ Len(artifacts[r] \o new) = n + Len(out)
        /\ \A i \in 1..n + Len(out) :
              (artifacts[r] \o new)[i] = IF i <= n THEN artifacts[r][i] ELSE new[i - n]
    <2>1. /\ artifacts[r] \o new \in Seq(Artifact)
          /\ Len(artifacts[r] \o new) = Len(artifacts[r]) + Len(new)
          /\ \A i \in 1..Len(artifacts[r]) + Len(new) :
                (artifacts[r] \o new)[i] = IF i <= Len(artifacts[r]) THEN artifacts[r][i]
                                           ELSE new[i - Len(artifacts[r])]
      BY <1>4, <1>7, ConcatProperties
    <2>2. QED
      BY <1>4, <2>1
  <1>9. \A k \in 1..Len(out) : (artifacts[r] \o new)[n + k] = new[k]
    <2>1. ASSUME NEW k \in 1..Len(out) PROVE n + k \in 1..n + Len(out) /\ ~ (n + k <= n) /\ n + k - n = k
      BY <1>1, <1>7
    <2>2. QED
      BY <1>8, <2>1
  <1>10. \A i \in 1..n : (artifacts[r] \o new)[i] = artifacts[r][i]
    BY <1>1, <1>7, <1>8
  <1>11. QED
    BY <1>5, <1>6, <1>7, <1>8, <1>9, <1>10, SMTT(60) DEF Made

-----------------------------------------------------------------------------
(* What the actions change. *)

\* A step of the youngest run.
Touches(r) ==
    /\ r = Len(runs) /\ runs' \in Seq(Run) /\ Len(runs') = Len(runs) /\ DOMAIN runs' = DOMAIN runs
    /\ \A q \in DOMAIN runs : q # r => runs'[q] = runs[q]
    /\ runs'[r] \in Run /\ runs'[r].parent = runs[r].parent /\ runs'[r].from = runs[r].from
    /\ runs[r].waived => runs'[r].waived
    /\ plan' = plan /\ retrieval' = retrieval

Starts(r) ==
    LET run == runs[r]
        new == runs'[r]
        n == Upcoming(r)
    IN  /\ Touches(r) /\ artifacts' = artifacts
        /\ run.status = "running" /\ run.busy = "idle" /\ run.ckpt.at # NoThread /\ n \in Nodes
        /\ new.ckpt = run.ckpt /\ new.refs = run.refs /\ new.final = run.final
        /\ \/ /\ MissingAtOnce(n, run.refs)
              /\ new.busy = "idle" /\ new.status = "failed" /\ new.trace = run.trace
           \/ /\ ~MissingAtOnce(n, run.refs) /\ new.busy = n /\ new.status = "running"
              /\ new.trace = IF Recorded(n) THEN Append(run.trace, Begun(n, run.refs))
                             ELSE run.trace

\* The k-th artifact of run r that is new.
NewIds(r, out) == {<<r, Len(artifacts[r]) + k>> : k \in 1..Len(out)}

Grows(r, out) ==
    /\ artifacts' \in [RunIds -> Seq(Artifact)] /\ Made(r, out, artifacts'[r])
    /\ \A q \in RunIds : q # r => artifacts'[q] = artifacts[q]

\* The node of run r runs no more; it has made `out`, in full or in part.
Leaves(r, v, out) ==
    /\ Touches(r) /\ runs[r].busy \in Nodes /\ runs'[r].busy = "idle"
    /\ v \in GraphState /\ out \in Seq(Wants)
    /\ AllWantedBy(runs[r].busy, runs[r].refs, v, out) /\ Grows(r, out)

\* It has recorded its end.
Records(r, v, out) ==
    LET run == runs[r]
        new == runs'[r]
        n == run.busy
    IN  /\ Leaves(r, v, out)
        /\ v \in NodeOutcomes(plan, n, run.ckpt.vals)
        /\ \E revised \in Revisions : out = Outputs(r, n, v, revised)
        /\ new.status = IF n = "finalize" THEN "completed" ELSE run.status
        /\ new.final = IF n = "finalize" THEN Hold(artifacts', run.refs, NewIds(r, out))[Final]
                       ELSE run.final
        /\ new.trace = IF Recorded(n) THEN Ended(run.trace, Status(v), NewIds(r, out))
                       ELSE run.trace

\* The checkpoint is committed as well, or not.
Finishes(r, v, out) ==
    /\ Records(r, v, out) /\ runs'[r].ckpt = [at |-> runs[r].busy, vals |-> v]
    /\ runs'[r].refs = Hold(artifacts', runs[r].refs, NewIds(r, out))

Repeats(r, v, out) ==
    Records(r, v, out) /\ runs'[r].ckpt = runs[r].ckpt /\ runs'[r].refs = runs[r].refs

Breaks(r, v, out) ==
    LET run == runs[r]
        new == runs'[r]
    IN  /\ Leaves(r, v, out)
        /\ new.ckpt = run.ckpt /\ new.refs = run.refs /\ new.final = run.final

Fails(r, v, out) ==
    LET run == runs[r]
        new == runs'[r]
    IN  /\ Breaks(r, v, out) /\ new.status = "failed"
        /\ new.trace = IF Recorded(run.busy) THEN Ended(run.trace, "failed", NewIds(r, out))
                       ELSE run.trace

Stops(r, v, out) ==
    Breaks(r, v, out) /\ runs'[r].status = runs[r].status /\ runs'[r].trace = runs[r].trace

Answers(r) ==
    LET run == runs[r]
        new == runs'[r]
        v == run.ckpt.vals
        w == new.ckpt.vals
    IN  /\ Touches(r) /\ artifacts' = artifacts
        /\ run.busy = "idle" /\ new.busy = "idle" /\ run.status = "running" /\ new.status = "running"
        /\ new.refs = run.refs /\ new.final = run.final /\ new.trace = run.trace
        /\ new.ckpt.at = run.ckpt.at
        /\ w.outline_approved = v.outline_approved /\ w.report = v.report
        /\ w.sections = v.sections /\ w.draft = v.draft
        /\ \/ v.awaiting_outline /\ ~w.awaiting_outline
              /\ w.awaiting_fact_check = v.awaiting_fact_check /\ w.fact_answers = v.fact_answers
           \/ v.awaiting_fact_check /\ ~w.awaiting_fact_check
              /\ w.awaiting_outline = v.awaiting_outline
              /\ (w.fact_answers # "none" \/ new.waived)

\* A new run.
Adds(p, n, ckpt, refs) ==
    /\ p = Len(runs) /\ n \in Allowed \cap Executed(p) /\ Len(runs) < MaxRuns
    /\ runs' \in Seq(Run) /\ Len(runs') = p + 1 /\ DOMAIN runs' = 1..(p + 1)
    /\ \A q \in DOMAIN runs : runs'[q] = runs[q]
    /\ runs'[p + 1] = NewRun(p, n, ckpt, refs)
    /\ plan' = plan /\ retrieval' = retrieval /\ artifacts' = artifacts

LEMMA Touched ==
    ASSUME RerunsTypeOK, NEW r \in DOMAIN runs, r = Len(runs), NEW new \in Run,
           runs' = [runs EXCEPT ![r] = new], plan' = plan, retrieval' = retrieval,
           new.parent = runs[r].parent, new.from = runs[r].from, runs[r].waived => new.waived
    PROVE  Touches(r) /\ runs'[r] = new
  <1>1. runs \in Seq(Run) /\ DOMAIN runs = 1..Len(runs)
    BY RunsShape DEF RerunsTypeOK
  <1>2. /\ runs' \in Seq(Run) /\ Len(runs') = Len(runs)
        /\ \A j \in 1..Len(runs) : runs'[j] = IF j = r THEN new ELSE runs[j]
    BY <1>1, ExceptSeq
  <1>3. DOMAIN runs' = 1..Len(runs')
    BY <1>2, LenProperties, SMTT(60)
  <1>4. QED
    BY <1>1, <1>2, <1>3 DEF Touches

LEMMA EndedShape ==
    ASSUME NEW trace \in Seq(NodeRun), Len(trace) # 0, NEW ids \in SUBSET Ids,
           NEW status \in {"running", "completed", "interrupted", "failed"}
    PROVE  /\ Ended(trace, status, ids) \in Seq(NodeRun)
           /\ Len(Ended(trace, status, ids)) = Len(trace)
           /\ DOMAIN Ended(trace, status, ids) = DOMAIN trace /\ DOMAIN trace = 1..Len(trace)
           /\ \A k \in 1..Len(trace) :
                 /\ Ended(trace, status, ids)[k].node = trace[k].node
                 /\ Ended(trace, status, ids)[k].inputs = trace[k].inputs
                 /\ Ended(trace, status, ids)[k].outputs =
                       IF k = Len(trace) THEN ids ELSE trace[k].outputs
  <1>. DEFINE m == Len(trace)
              e == [trace[m] EXCEPT !.status = status, !.outputs = ids]
  <1>1. m \in Nat /\ m \in 1..Len(trace) /\ DOMAIN trace = 1..Len(trace)
    BY LenProperties
  <1>2. trace[m] \in NodeRun
    BY <1>1, ElementOfSeq
  <1>3. e \in NodeRun /\ e.node = trace[m].node /\ e.inputs = trace[m].inputs /\ e.outputs = ids
    BY <1>2 DEF NodeRun
  <1>4. Ended(trace, status, ids) = [trace EXCEPT ![m] = e]
    BY DEF Ended
  <1>. HIDE DEF e
  <1>5. /\ [trace EXCEPT ![m] = e] \in Seq(NodeRun) /\ Len([trace EXCEPT ![m] = e]) = Len(trace)
        /\ \A j \in 1..Len(trace) : [trace EXCEPT ![m] = e][j] = IF j = m THEN e ELSE trace[j]
    BY <1>1, <1>3, ExceptSeq
  <1>6. PICK t : t = Ended(trace, status, ids)
    OBVIOUS
  <1>7. t \in Seq(NodeRun) /\ Len(t) = Len(trace) /\ \A j \in 1..Len(trace) : t[j] = IF j = m THEN e ELSE trace[j]
    BY <1>4, <1>5, <1>6
  <1>8. DOMAIN t = 1..Len(t)
    BY <1>7, LenProperties
  <1>9. QED
    BY <1>1, <1>3, <1>6, <1>7, <1>8

LEMMA TraceShape ==
    ASSUME RerunsTypeOK, NEW r \in DOMAIN runs
    PROVE  /\ runs[r] \in Run /\ runs[r].trace \in Seq(NodeRun) /\ Len(runs[r].trace) \in Nat
           /\ DOMAIN runs[r].trace = 1..Len(runs[r].trace)
           /\ (runs[r].trace = << >> <=> Len(runs[r].trace) = 0)
           /\ \A k \in DOMAIN runs[r].trace : runs[r].trace[k] \in NodeRun
           /\ runs[r].ckpt \in Checkpoint /\ runs[r].refs \in Refs
  <1>1. runs[r] \in Run
    BY RunsShape
  <1>2. runs[r].trace \in Seq(NodeRun) /\ runs[r].ckpt \in Checkpoint /\ runs[r].refs \in Refs
    BY <1>1 DEF Run
  <1>3. Len(runs[r].trace) \in Nat /\ DOMAIN runs[r].trace = 1..Len(runs[r].trace)
    BY <1>2, LenProperties
  <1>4. \A k \in DOMAIN runs[r].trace : runs[r].trace[k] \in NodeRun
    BY <1>2, <1>3, ElementOfSeq
  <1>5. runs[r].trace = << >> <=> Len(runs[r].trace) = 0
    BY <1>2, EmptySeq
  <1>6. QED
    BY <1>1, <1>2, <1>3, <1>4, <1>5

LEMMA StartDoes ==
    ASSUME RerunsTypeOK, NEW r \in DOMAIN runs, StartNode(r)
    PROVE  Starts(r)
  <1>. DEFINE run == runs[r]
              n == Upcoming(r)
              e == Begun(n, run.refs)
              new == IF MissingAtOnce(n, run.refs) THEN [run EXCEPT !.status = "failed"]
                     ELSE [run EXCEPT !.busy = n,
                                      !.trace = IF Recorded(n) THEN Append(run.trace, e) ELSE run.trace]
  <1>1. run \in Run /\ run.trace \in Seq(NodeRun) /\ run.refs \in Refs /\ run.ckpt \in Checkpoint
    BY TraceShape
  <1>2. n \in Nodes
    <2>1. n # End /\ plan \in Plan
      BY DEF StartNode, RerunsTypeOK
    <2>2. QED
      BY <1>1, <2>1, NextStage DEF Upcoming, Leads
  <1>3. e \in NodeRun
    BY <1>1, <1>2 DEF NodeRun, Begun
  <1>4. Append(run.trace, e) \in Seq(NodeRun)
    BY <1>1, <1>3, AppendProperties
  <1>5. /\ new \in Run /\ new.parent = run.parent /\ new.from = run.from
        /\ new.waived = run.waived
    <2>1. CASE MissingAtOnce(n, run.refs)
      BY <1>1, <2>1 DEF Run, RunStatus
    <2>2. CASE ~MissingAtOnce(n, run.refs)
      <3>1. PICK t \in Seq(NodeRun) : t = IF Recorded(n) THEN Append(run.trace, e) ELSE run.trace
        BY <1>1, <1>4
      <3>2. new = [run EXCEPT !.busy = n, !.trace = t]
        BY <2>2, <3>1
      <3>. HIDE DEF new
      <3>3. QED
        BY <1>1, <1>2, <3>2 DEF Run
    <2>3. QED
      BY <2>1, <2>2
  <1>6. /\ r = Len(runs) /\ runs' = [runs EXCEPT ![r] = new]
        /\ run.status = "running" /\ run.busy = "idle" /\ run.ckpt.at # NoThread
        /\ plan' = plan /\ retrieval' = retrieval /\ artifacts' = artifacts
    BY DEF StartNode, Followed, RerunsTypeOK
  <1>7. Touches(r) /\ runs'[r] = new
    <2>. HIDE DEF new
    <2>1. QED
      BY <1>5, <1>6, Touched
  <1>8. /\ new.ckpt = run.ckpt /\ new.refs = run.refs /\ new.final = run.final
        /\ \/ /\ MissingAtOnce(n, run.refs)
              /\ new.busy = "idle" /\ new.status = "failed" /\ new.trace = run.trace
           \/ /\ ~MissingAtOnce(n, run.refs) /\ new.busy = n /\ new.status = "running"
              /\ new.trace = IF Recorded(n) THEN Append(run.trace, e) ELSE run.trace
    BY <1>1, <1>6 DEF Run
  <1>9. QED
    <2>. HIDE DEF new
    <2>1. QED
      BY <1>2, <1>6, <1>7, <1>8 DEF Starts

LEMMA NewIdsAre ==
    ASSUME RerunsTypeOK, NEW r \in RunIds, NEW out \in Seq(Wants), NEW made, Made(r, out, made)
    PROVE  /\ {<<r, k>> : k \in DOMAIN made \ DOMAIN artifacts[r]} = NewIds(r, out)
           /\ NewIds(r, out) \in SUBSET Ids
           /\ NewIds(r, out) \in SUBSET ({r} \X (1..Len(made)))
           /\ \A id \in NewIds(r, out) : id \notin {r} \X DOMAIN artifacts[r]
  <1>. DEFINE n == Len(artifacts[r])
  <1>1. /\ n \in Nat /\ DOMAIN artifacts[r] = 1..n /\ Len(out) \in Nat
        /\ DOMAIN made = 1..n + Len(out) /\ Len(made) = n + Len(out)
    BY StoreShape, LenProperties DEF Made
  <1>2. \A k \in DOMAIN made \ DOMAIN artifacts[r] : k - n \in 1..Len(out) /\ k = n + (k - n)
    BY <1>1
  <1>3. \A k \in 1..Len(out) :
           /\ n + k \in DOMAIN made \ DOMAIN artifacts[r]
           /\ n + k \in Nat \ {0} /\ n + k \in 1..Len(made)
    BY <1>1
  <1>4. {<<r, k>> : k \in DOMAIN made \ DOMAIN artifacts[r]} = NewIds(r, out)
    <2>1. ASSUME NEW k \in DOMAIN made \ DOMAIN artifacts[r] PROVE <<r, k>> \in NewIds(r, out)
      <3>1. PICK j \in 1..Len(out) : k = n + j
        BY <1>2
      <3>2. QED
        BY <3>1 DEF NewIds
    <2>2. ASSUME NEW k \in 1..Len(out)
          PROVE  <<r, n + k>> \in {<<r, j>> : j \in DOMAIN made \ DOMAIN artifacts[r]}
      BY <1>3
    <2>3. QED
      BY <2>1, <2>2 DEF NewIds
  <1>5. QED
    BY <1>3, <1>4, SMTT(60) DEF NewIds, Ids

LEMMA StoreGrows ==
    ASSUME RerunsTypeOK, NEW r \in RunIds, NEW out \in Seq(Wants), NEW made, Made(r, out, made),
           artifacts' = [artifacts EXCEPT ![r] = made]
    PROVE  Grows(r, out) /\ artifacts'[r] = made
  <1>1. artifacts \in [RunIds -> Seq(Artifact)] /\ made \in Seq(Artifact)
    BY DEF RerunsTypeOK, Made
  <1>2. QED
    BY <1>1 DEF Grows

\* The parents of what a node wants to make exist.
LEMMA ParentsExist ==
    ASSUME RerunsTypeOK, MadeInv, NEW r \in DOMAIN runs, NEW n, NEW v, NEW out,
           AllWantedBy(n, runs[r].refs, v, out)
    PROVE  /\ out \in Seq(Wants) /\ DOMAIN out = 1..Len(out) /\ Len(out) \in Nat
           /\ \A k \in 1..Len(out) : /\ out[k] \in Wants
                                     /\ out[k].parent # NoArtifact => Exists(out[k].parent)
  <1>1. out \in Seq(Wants) /\ DOMAIN out = 1..Len(out) /\ Len(out) \in Nat
    BY LenProperties DEF AllWantedBy
  <1>2. \A k \in 1..Len(out) :
           out[k] \in Wants /\ (out[k].parent = NoArtifact \/ out[k].parent = runs[r].refs[out[k].slot])
    BY DEF AllWantedBy, WantedBy
  <1>3. \A slot \in Slots : runs[r].refs[slot] # NoArtifact => Exists(runs[r].refs[slot])
    BY DEF MadeInv, MadeOf, Stocked
  <1>4. QED
    BY <1>1, <1>2, <1>3 DEF Wants

LEMMA NewRefs ==
    ASSUME NEW store, NEW refs \in Refs, NEW r, NEW n \in Nat,
           NEW ids \in SUBSET ({r} \X (1..n)), ids \in SUBSET Ids
    PROVE  Hold(store, refs, ids) \in Refs
  <1>1. ASSUME NEW slot \in Slots PROVE Hold(store, refs, ids)[slot] \in Ids \cup {NoArtifact}
    <2>1. Hold(store, refs, ids)[slot] = refs[slot] \/ Hold(store, refs, ids)[slot] \in ids
      BY HoldShape DEF Placed
    <2>2. refs[slot] \in Ids \cup {NoArtifact}
      BY DEF Refs
    <2>3. QED
      BY <2>1, <2>2
  <1>2. DOMAIN Hold(store, refs, ids) = Slots /\ Hold(store, refs, ids) = [slot \in Slots |-> Hold(store, refs, ids)[slot]]
    BY DEF Hold
  <1>3. QED
    BY <1>1, <1>2 DEF Refs

\* What the store becomes when a node makes some artifacts.
LEMMA StoreDoes ==
    ASSUME RerunsTypeOK, VersionsBounded, MadeInv, NEW r \in DOMAIN runs, NEW n, NEW v, NEW out,
           AllWantedBy(n, runs[r].refs, v, out), NEW store,
           store = [artifacts EXCEPT ![r] = CreateArtifacts(r, out)], artifacts' = store
    PROVE  /\ out \in Seq(Wants) /\ Grows(r, out)
           /\ {<<r, k>> : k \in DOMAIN store[r] \ DOMAIN artifacts[r]} = NewIds(r, out)
           /\ NewIds(r, out) \in SUBSET Ids /\ Len(artifacts'[r]) \in Nat
           /\ NewIds(r, out) \in SUBSET ({r} \X (1..Len(artifacts'[r])))
  <1>1. r \in RunIds
    BY RunsShape
  <1>2. out \in Seq(Wants)
    BY DEF AllWantedBy
  <1>3. PICK made : made = CreateArtifacts(r, out)
    OBVIOUS
  <1>4. Made(r, out, made)
    BY <1>1, <1>2, <1>3, ParentsExist, CreateShape
  <1>5. artifacts' = [artifacts EXCEPT ![r] = made]
    BY <1>3
  <1>6. Grows(r, out) /\ artifacts'[r] = made
    BY <1>1, <1>2, <1>4, <1>5, StoreGrows
  <1>7. Len(made) \in Nat
    BY <1>4, LenProperties DEF Made
  <1>8. /\ {<<r, k>> : k \in DOMAIN made \ DOMAIN artifacts[r]} = NewIds(r, out)
        /\ NewIds(r, out) \in SUBSET Ids /\ NewIds(r, out) \in SUBSET ({r} \X (1..Len(made)))
    BY <1>1, <1>2, <1>4, NewIdsAre
  <1>9. store[r] = made
    BY <1>6
  <1>10. QED
    BY <1>2, <1>6, <1>7, <1>8, <1>9

\* The node run of what is running can be ended.
LEMMA EndsRun ==
    ASSUME RerunsTypeOK, FlowInv, NEW r \in DOMAIN runs, runs[r].busy # "idle",
           NEW ids \in SUBSET Ids, NEW status \in {"completed", "interrupted", "failed"}
    PROVE  (IF Recorded(runs[r].busy) THEN Ended(runs[r].trace, status, ids) ELSE runs[r].trace)
             \in Seq(NodeRun)
  <1>1. runs[r].trace \in Seq(NodeRun)
    BY TraceShape
  <1>2. Recorded(runs[r].busy) => Len(runs[r].trace) # 0
    BY DEF FlowInv, FlowOf, BusyOf
  <1>3. Recorded(runs[r].busy) => Ended(runs[r].trace, status, ids) \in Seq(NodeRun)
    BY <1>1, <1>2, EndedShape
  <1>4. QED
    BY <1>1, <1>3

\* What a node may have made when it is cut short.
LEMMA PartialWanted ==
    ASSUME RerunsTypeOK, NEW r \in DOMAIN runs, runs[r].busy \in Nodes, NEW out \in PartialOutputs(r)
    PROVE  \E v \in GraphState : AllWantedBy(runs[r].busy, runs[r].refs, v, out)
  <1>. DEFINE run == runs[r]
              n == run.busy
  <1>1. run.ckpt.vals \in GraphState /\ plan \in Plan
    BY TraceShape DEF Checkpoint, RerunsTypeOK
  <1>2. CASE out = << >>
    BY <1>1, <1>2, NoneWanted
  <1>3. CASE out # << >>
    <2>1. PICK v \in NodeOutcomes(plan, n, run.ckpt.vals), revised \in Rewrites(n, run.refs) :
             \E k \in 1..Len(Outputs(r, n, v, revised)) :
                out = SubSeq(Outputs(r, n, v, revised), 1, k)
      BY <1>3 DEF PartialOutputs
    <2>2. v \in GraphState /\ revised \in Revisions
      BY <1>1, OutcomeType DEF Rewrites
    <2>3. PICK all : all = Outputs(r, n, v, revised)
      OBVIOUS
    <2>4. AllWantedBy(n, run.refs, v, all)
      BY <2>2, <2>3, OutputsWanted
    <2>5. PICK k \in 1..Len(all) : out = SubSeq(all, 1, k)
      BY <2>1, <2>3
    <2>6. QED
      BY <2>2, <2>4, <2>5, FirstWanted
  <1>4. QED
    BY <1>2, <1>3

LEMMA FailDoes ==
    ASSUME RerunsTypeOK, VersionsBounded, MadeInv, FlowInv, NEW r \in DOMAIN runs, FailNode(r)
    PROVE  \E v \in GraphState : \E out \in Seq(Wants) : Fails(r, v, out)
  <1>. DEFINE run == runs[r]
              n == run.busy
  <1>1. run \in Run /\ run.trace \in Seq(NodeRun) /\ n \in Nodes /\ n # "idle"
    BY TraceShape DEF FailNode, Run
  <1>2. PICK out \in PartialOutputs(r) :
           LET store == [artifacts EXCEPT ![r] = CreateArtifacts(r, out)]
               ids == {<<r, k>> : k \in DOMAIN store[r] \ DOMAIN artifacts[r]}
           IN  /\ artifacts' = store
               /\ runs' = [runs EXCEPT ![r] =
                      [run EXCEPT !.busy = "idle", !.status = "failed",
                                  !.trace = IF Recorded(n) THEN Ended(run.trace, "failed", ids)
                                            ELSE run.trace]]
    BY DEF FailNode
  <1>3. PICK v \in GraphState : AllWantedBy(n, run.refs, v, out)
    BY <1>1, PartialWanted
  <1>4. PICK store : store = [artifacts EXCEPT ![r] = CreateArtifacts(r, out)]
    OBVIOUS
  <1>5. artifacts' = store
    BY <1>2, <1>4
  <1>6. PICK ids : ids = NewIds(r, out)
    OBVIOUS
  <1>7. /\ out \in Seq(Wants) /\ Grows(r, out) /\ ids \in SUBSET Ids
        /\ {<<r, k>> : k \in DOMAIN store[r] \ DOMAIN artifacts[r]} = ids
    BY <1>3, <1>4, <1>5, <1>6, StoreDoes
  <1>8. PICK t \in Seq(NodeRun) : t = IF Recorded(n) THEN Ended(run.trace, "failed", ids) ELSE run.trace
    BY <1>1, <1>7, EndsRun
  <1>9. PICK new : new = [run EXCEPT !.busy = "idle", !.status = "failed", !.trace = t]
    OBVIOUS
  <1>10. /\ new \in Run /\ new.parent = run.parent /\ new.from = run.from /\ new.busy = "idle"
         /\ new.status = "failed" /\ new.ckpt = run.ckpt /\ new.refs = run.refs
         /\ new.final = run.final /\ new.trace = t /\ new.waived = run.waived
    BY <1>1, <1>9 DEF Run, RunStatus
  <1>11. r = Len(runs) /\ plan' = plan /\ retrieval' = retrieval
    BY DEF FailNode, Followed
  <1>12. runs' = [runs EXCEPT ![r] = new]
    <2>1. ids = {<<r, k>> : k \in DOMAIN [artifacts EXCEPT ![r] = CreateArtifacts(r, out)][r]
                                    \ DOMAIN artifacts[r]}
      BY <1>4, <1>7
    <2>2. new = [run EXCEPT !.busy = "idle", !.status = "failed",
                            !.trace = IF Recorded(n) THEN Ended(run.trace, "failed", ids)
                                      ELSE run.trace]
      BY <1>8, <1>9
    <2>3. QED
      BY <1>2, <2>1, <2>2
  <1>13. Touches(r) /\ runs'[r] = new
    BY <1>10, <1>11, <1>12, Touched
  <1>14. Leaves(r, v, out)
    BY <1>1, <1>3, <1>7, <1>10, <1>13 DEF Leaves
  <1>15. Breaks(r, v, out)
    BY <1>10, <1>13, <1>14 DEF Breaks
  <1>16. Fails(r, v, out)
    BY <1>6, <1>8, <1>10, <1>13, <1>15 DEF Fails
  <1>17. QED
    BY <1>7, <1>16

LEMMA StopDoes ==
    ASSUME RerunsTypeOK, VersionsBounded, MadeInv, NEW r \in DOMAIN runs, Cut(r)
    PROVE  \E v \in GraphState : \E out \in Seq(Wants) : Stops(r, v, out)
  <1>. DEFINE run == runs[r]
              n == run.busy
  <1>1. run \in Run /\ n \in Nodes /\ n # "idle"
    BY TraceShape DEF Cut, Run
  <1>2. PICK out \in PartialOutputs(r) :
           artifacts' = [artifacts EXCEPT ![r] = CreateArtifacts(r, out)]
    BY DEF Cut
  <1>3. PICK v \in GraphState : AllWantedBy(n, run.refs, v, out)
    BY <1>1, PartialWanted
  <1>4. PICK store : store = [artifacts EXCEPT ![r] = CreateArtifacts(r, out)]
    OBVIOUS
  <1>5. out \in Seq(Wants) /\ Grows(r, out)
    BY <1>2, <1>3, <1>4, StoreDoes
  <1>6. PICK new : new = [run EXCEPT !.busy = "idle"]
    OBVIOUS
  <1>7. /\ new \in Run /\ new.parent = run.parent /\ new.from = run.from /\ new.busy = "idle"
        /\ new.status = run.status /\ new.ckpt = run.ckpt /\ new.refs = run.refs
        /\ new.final = run.final /\ new.trace = run.trace /\ new.waived = run.waived
    BY <1>1, <1>6 DEF Run
  <1>8. r = Len(runs) /\ plan' = plan /\ retrieval' = retrieval
    BY DEF Cut, Followed
  <1>9. runs' = [runs EXCEPT ![r] = new]
    <2>1. runs' = [runs EXCEPT ![r].busy = "idle"]
      BY DEF Cut
    <2>2. QED
      BY <1>6, <2>1
  <1>10. Touches(r) /\ runs'[r] = new
    BY <1>7, <1>8, <1>9, Touched
  <1>11. Leaves(r, v, out)
    BY <1>1, <1>3, <1>5, <1>7, <1>10 DEF Leaves
  <1>12. Breaks(r, v, out)
    BY <1>7, <1>10, <1>11 DEF Breaks
  <1>13. Stops(r, v, out)
    BY <1>7, <1>10, <1>12 DEF Stops
  <1>14. QED
    BY <1>5, <1>13

\* The end of a node, with the artifacts and the trace it leaves.
Recording(r, v, out) ==
    /\ runs[r].busy # "idle" /\ v \in NodeOutcomes(plan, runs[r].busy, runs[r].ckpt.vals)
    /\ \E revised \in Rewrites(runs[r].busy, runs[r].refs) :
          out = Outputs(r, runs[r].busy, v, revised)
    /\ artifacts' = [artifacts EXCEPT ![r] = CreateArtifacts(r, out)]

LEMMA RecordDoes ==
    ASSUME RerunsTypeOK, VersionsBounded, MadeInv, FlowInv, NEW r \in DOMAIN runs,
           NEW v, NEW out, Recording(r, v, out)
    PROVE  /\ v \in GraphState /\ runs[r].busy \in Nodes /\ out \in Seq(Wants)
           /\ AllWantedBy(runs[r].busy, runs[r].refs, v, out) /\ Grows(r, out)
           /\ \E rev \in Revisions : out = Outputs(r, runs[r].busy, v, rev)
           /\ {<<r, k>> : k \in DOMAIN artifacts'[r] \ DOMAIN artifacts[r]} = NewIds(r, out)
           /\ NewIds(r, out) \in SUBSET Ids
           /\ Hold(artifacts', runs[r].refs, NewIds(r, out)) \in Refs
           /\ (IF Recorded(runs[r].busy) THEN Ended(runs[r].trace, Status(v), NewIds(r, out))
               ELSE runs[r].trace) \in Seq(NodeRun)
  <1>. DEFINE run == runs[r]
              n == run.busy
  <1>1. /\ run \in Run /\ run.refs \in Refs /\ run.ckpt.vals \in GraphState /\ plan \in Plan
        /\ n \in Nodes
    BY TraceShape DEF Run, Checkpoint, RerunsTypeOK, Recording
  <1>0. PICK revised \in Revisions : out = Outputs(r, n, v, revised)
    BY DEF Recording, Rewrites
  <1>2. v \in GraphState
    BY <1>1, OutcomeType DEF Recording
  <1>3. AllWantedBy(n, run.refs, v, out)
    BY <1>0, <1>1, <1>2, OutputsWanted
  <1>a. PICK store : store = artifacts'
    OBVIOUS
  <1>b. store = [artifacts EXCEPT ![r] = CreateArtifacts(r, out)] /\ artifacts' = store
    BY <1>a DEF Recording
  <1>4. PICK ids : ids = NewIds(r, out)
    OBVIOUS
  <1>5. /\ out \in Seq(Wants) /\ Grows(r, out) /\ Len(artifacts'[r]) \in Nat
        /\ {<<r, k>> : k \in DOMAIN store[r] \ DOMAIN artifacts[r]} = ids
        /\ ids \in SUBSET Ids /\ ids \in SUBSET ({r} \X (1..Len(artifacts'[r])))
    BY <1>3, <1>4, <1>b, StoreDoes
  <1>6. Hold(store, run.refs, ids) \in Refs
    BY <1>1, <1>5, NewRefs
  <1>7. Status(v) \in {"completed", "interrupted", "failed"}
    BY DEF Status
  <1>8. (IF Recorded(n) THEN Ended(run.trace, Status(v), ids) ELSE run.trace) \in Seq(NodeRun)
    BY <1>5, <1>7, EndsRun DEF Recording
  <1>9. QED
    BY <1>0, <1>1, <1>2, <1>3, <1>4, <1>5, <1>6, <1>8, <1>a

LEMMA FinishDoes ==
    ASSUME RerunsTypeOK, VersionsBounded, MadeInv, FlowInv, NEW r \in DOMAIN runs, FinishNode(r)
    PROVE  \E v \in GraphState : \E out \in Seq(Wants) : Finishes(r, v, out)
  <1>. DEFINE run == runs[r]
              n == run.busy
  <1>1. PICK v \in NodeOutcomes(plan, n, run.ckpt.vals), revised \in Rewrites(n, run.refs) :
           LET store == [artifacts EXCEPT ![r] = CreateArtifacts(r, Outputs(r, n, v, revised))]
               ids == {<<r, k>> : k \in DOMAIN store[r] \ DOMAIN artifacts[r]}
               refs == Hold(store, run.refs, ids)
           IN  /\ artifacts' = store
               /\ runs' = [runs EXCEPT ![r] =
                      [run EXCEPT !.busy = "idle", !.refs = refs,
                                  !.ckpt = [at |-> n, vals |-> v],
                                  !.status = IF n = "finalize" THEN "completed" ELSE run.status,
                                  !.final = IF n = "finalize" THEN refs[Final] ELSE run.final,
                                  !.trace = IF Recorded(n) THEN Ended(run.trace, Status(v), ids)
                                            ELSE run.trace]]
    BY DEF FinishNode
  <1>2. n # "idle" /\ run \in Run
    BY TraceShape DEF FinishNode
  <1>3. PICK out : out = Outputs(r, n, v, revised)
    OBVIOUS
  <1>4. PICK store : store = [artifacts EXCEPT ![r] = CreateArtifacts(r, out)]
    OBVIOUS
  <1>5. artifacts' = store
    BY <1>1, <1>3, <1>4
  <1>6. PICK ids : ids = NewIds(r, out)
    OBVIOUS
  <1>7. /\ v \in GraphState /\ n \in Nodes /\ out \in Seq(Wants)
        /\ AllWantedBy(n, run.refs, v, out) /\ Grows(r, out)
        /\ \E rev \in Revisions : out = Outputs(r, n, v, rev)
        /\ {<<r, k>> : k \in DOMAIN store[r] \ DOMAIN artifacts[r]} = ids
        /\ ids \in SUBSET Ids /\ Hold(store, run.refs, ids) \in Refs
        /\ (IF Recorded(n) THEN Ended(run.trace, Status(v), ids) ELSE run.trace) \in Seq(NodeRun)
    <2>1. Recording(r, v, out)
      BY <1>2, <1>3, <1>4, <1>5 DEF Recording
    <2>2. PICK all : all = (IF Recorded(n) THEN Ended(run.trace, Status(v), NewIds(r, out)) ELSE run.trace)
      OBVIOUS
    <2>3. /\ v \in GraphState /\ n \in Nodes /\ out \in Seq(Wants)
          /\ AllWantedBy(n, run.refs, v, out) /\ Grows(r, out)
          /\ \E rev \in Revisions : out = Outputs(r, n, v, rev)
          /\ {<<r, k>> : k \in DOMAIN artifacts'[r] \ DOMAIN artifacts[r]} = NewIds(r, out)
          /\ NewIds(r, out) \in SUBSET Ids
          /\ Hold(artifacts', run.refs, NewIds(r, out)) \in Refs /\ all \in Seq(NodeRun)
      BY <2>1, <2>2, RecordDoes
    <2>4. QED
      BY <1>5, <1>6, <2>2, <2>3
  <1>8. PICK refs \in Refs : refs = Hold(store, run.refs, ids)
    BY <1>7
  <1>9. PICK t \in Seq(NodeRun) : t = IF Recorded(n) THEN Ended(run.trace, Status(v), ids) ELSE run.trace
    BY <1>7
  <1>10. PICK status \in RunStatus : status = IF n = "finalize" THEN "completed" ELSE run.status
    BY <1>2 DEF Run, RunStatus
  <1>11. PICK final \in Ids \cup {NoArtifact} : final = IF n = "finalize" THEN refs[Final] ELSE run.final
    <2>1. refs[Final] \in Ids \cup {NoArtifact} /\ run.final \in Ids \cup {NoArtifact}
      BY <1>2, SlotsShape DEF Refs, Run
    <2>2. QED
      BY <2>1
  <1>12. PICK ckpt \in Checkpoint : ckpt = [at |-> n, vals |-> v]
    BY <1>7 DEF Checkpoint
  <1>13. PICK new : new = [run EXCEPT !.busy = "idle", !.refs = refs, !.ckpt = ckpt, !.status = status,
                                     !.final = final, !.trace = t]
    OBVIOUS
  <1>14. runs' = [runs EXCEPT ![r] = new]
    <2>1. ids = {<<r, k>> : k \in DOMAIN [artifacts EXCEPT ![r] = CreateArtifacts(r, Outputs(r, n, v, revised))][r]
                                    \ DOMAIN artifacts[r]}
      BY <1>3, <1>4, <1>7
    <2>2. refs = Hold([artifacts EXCEPT ![r] = CreateArtifacts(r, Outputs(r, n, v, revised))], run.refs, ids)
      BY <1>3, <1>4, <1>8
    <2>3. new = [run EXCEPT !.busy = "idle", !.refs = refs,
                                  !.ckpt = [at |-> n, vals |-> v],
                                  !.status = IF n = "finalize" THEN "completed" ELSE run.status,
                                  !.final = IF n = "finalize" THEN refs[Final] ELSE run.final,
                                  !.trace = IF Recorded(n) THEN Ended(run.trace, Status(v), ids)
                                            ELSE run.trace]
      BY <1>9, <1>10, <1>11, <1>12, <1>13
    <2>4. QED
      BY <1>1, <2>1, <2>2, <2>3
  <1>15. /\ new \in Run /\ new.parent = run.parent /\ new.from = run.from /\ new.busy = "idle"
         /\ new.status = status /\ new.ckpt = ckpt /\ new.refs = refs
         /\ new.final = final /\ new.trace = t /\ new.waived = run.waived
    BY <1>2, <1>13 DEF Run
  <1>16. Touches(r) /\ runs'[r] = new
    <2>1. r = Len(runs) /\ plan' = plan /\ retrieval' = retrieval
      BY DEF FinishNode, Followed
    <2>2. QED
      BY <1>14, <1>15, <2>1, Touched
  <1>17. Leaves(r, v, out)
    BY <1>7, <1>15, <1>16 DEF Leaves
  <1>18. Records(r, v, out)
    BY <1>5, <1>6, <1>7, <1>8, <1>9, <1>10, <1>11, <1>15, <1>16, <1>17 DEF Records
  <1>19. Finishes(r, v, out)
    BY <1>5, <1>6, <1>8, <1>12, <1>15, <1>16, <1>18 DEF Finishes
  <1>20. QED
    BY <1>7, <1>19

LEMMA RepeatDoes ==
    ASSUME RerunsTypeOK, VersionsBounded, MadeInv, FlowInv, NEW r \in DOMAIN runs, CutAfterRecord(r)
    PROVE  \E v \in GraphState : \E out \in Seq(Wants) : Repeats(r, v, out)
  <1>. DEFINE run == runs[r]
              n == run.busy
  <1>1. PICK v \in NodeOutcomes(plan, n, run.ckpt.vals), revised \in Rewrites(n, run.refs) :
           LET store == [artifacts EXCEPT ![r] = CreateArtifacts(r, Outputs(r, n, v, revised))]
               ids == {<<r, k>> : k \in DOMAIN store[r] \ DOMAIN artifacts[r]}
           IN  /\ artifacts' = store
               /\ runs' = [runs EXCEPT ![r] =
                      [run EXCEPT !.busy = "idle",
                                  !.status = IF n = "finalize" THEN "completed" ELSE run.status,
                                  !.final = IF n = "finalize"
                                            THEN Hold(store, run.refs, ids)[Final] ELSE run.final,
                                  !.trace = IF Recorded(n) THEN Ended(run.trace, Status(v), ids)
                                            ELSE run.trace]]
    BY DEF CutAfterRecord
  <1>2. n # "idle" /\ run \in Run
    BY TraceShape DEF CutAfterRecord
  <1>3. PICK out : out = Outputs(r, n, v, revised)
    OBVIOUS
  <1>4. PICK store : store = [artifacts EXCEPT ![r] = CreateArtifacts(r, out)]
    OBVIOUS
  <1>5. artifacts' = store
    BY <1>1, <1>3, <1>4
  <1>6. PICK ids : ids = NewIds(r, out)
    OBVIOUS
  <1>7. /\ v \in GraphState /\ n \in Nodes /\ out \in Seq(Wants)
        /\ AllWantedBy(n, run.refs, v, out) /\ Grows(r, out)
        /\ \E rev \in Revisions : out = Outputs(r, n, v, rev)
        /\ {<<r, k>> : k \in DOMAIN store[r] \ DOMAIN artifacts[r]} = ids
        /\ ids \in SUBSET Ids /\ Hold(store, run.refs, ids) \in Refs
        /\ (IF Recorded(n) THEN Ended(run.trace, Status(v), ids) ELSE run.trace) \in Seq(NodeRun)
    <2>1. Recording(r, v, out)
      BY <1>2, <1>3, <1>4, <1>5 DEF Recording
    <2>2. PICK all : all = (IF Recorded(n) THEN Ended(run.trace, Status(v), NewIds(r, out)) ELSE run.trace)
      OBVIOUS
    <2>3. /\ v \in GraphState /\ n \in Nodes /\ out \in Seq(Wants)
          /\ AllWantedBy(n, run.refs, v, out) /\ Grows(r, out)
          /\ \E rev \in Revisions : out = Outputs(r, n, v, rev)
          /\ {<<r, k>> : k \in DOMAIN artifacts'[r] \ DOMAIN artifacts[r]} = NewIds(r, out)
          /\ NewIds(r, out) \in SUBSET Ids
          /\ Hold(artifacts', run.refs, NewIds(r, out)) \in Refs /\ all \in Seq(NodeRun)
      BY <2>1, <2>2, RecordDoes
    <2>4. QED
      BY <1>5, <1>6, <2>2, <2>3
  <1>8. PICK refs \in Refs : refs = Hold(store, run.refs, ids)
    BY <1>7
  <1>9. PICK t \in Seq(NodeRun) : t = IF Recorded(n) THEN Ended(run.trace, Status(v), ids) ELSE run.trace
    BY <1>7
  <1>10. PICK status \in RunStatus : status = IF n = "finalize" THEN "completed" ELSE run.status
    BY <1>2 DEF Run, RunStatus
  <1>11. PICK final \in Ids \cup {NoArtifact} : final = IF n = "finalize" THEN refs[Final] ELSE run.final
    <2>1. refs[Final] \in Ids \cup {NoArtifact} /\ run.final \in Ids \cup {NoArtifact}
      BY <1>2, SlotsShape DEF Refs, Run
    <2>2. QED
      BY <2>1
  <1>12. PICK new : new = [run EXCEPT !.busy = "idle", !.status = status, !.final = final, !.trace = t]
    OBVIOUS
  <1>13. runs' = [runs EXCEPT ![r] = new]
    <2>1. ids = {<<r, k>> : k \in DOMAIN [artifacts EXCEPT ![r] = CreateArtifacts(r, Outputs(r, n, v, revised))][r]
                                    \ DOMAIN artifacts[r]}
      BY <1>3, <1>4, <1>7
    <2>2. refs = Hold([artifacts EXCEPT ![r] = CreateArtifacts(r, Outputs(r, n, v, revised))], run.refs, ids)
      BY <1>3, <1>4, <1>8
    <2>3. new = [run EXCEPT !.busy = "idle",
                            !.status = IF n = "finalize" THEN "completed" ELSE run.status,
                            !.final = IF n = "finalize" THEN refs[Final] ELSE run.final,
                            !.trace = IF Recorded(n) THEN Ended(run.trace, Status(v), ids)
                                      ELSE run.trace]
      BY <1>9, <1>10, <1>11, <1>12
    <2>4. QED
      BY <1>1, <2>1, <2>2, <2>3
  <1>14. /\ new \in Run /\ new.parent = run.parent /\ new.from = run.from /\ new.busy = "idle"
         /\ new.status = status /\ new.ckpt = run.ckpt /\ new.refs = run.refs
         /\ new.final = final /\ new.trace = t /\ new.waived = run.waived
    BY <1>2, <1>12 DEF Run
  <1>15. Touches(r) /\ runs'[r] = new
    <2>1. r = Len(runs) /\ plan' = plan /\ retrieval' = retrieval
      BY DEF CutAfterRecord, Followed
    <2>2. QED
      BY <1>13, <1>14, <2>1, Touched
  <1>16. Leaves(r, v, out)
    BY <1>7, <1>14, <1>15 DEF Leaves
  <1>17. Records(r, v, out)
    BY <1>5, <1>6, <1>7, <1>8, <1>9, <1>10, <1>11, <1>14, <1>15, <1>16 DEF Records
  <1>18. Repeats(r, v, out)
    BY <1>14, <1>15, <1>17 DEF Repeats
  <1>19. QED
    BY <1>7, <1>18

LEMMA AnswerOutlineDoes ==
    ASSUME RerunsTypeOK, NEW r \in DOMAIN runs, AnswerOutline(r)
    PROVE  Answers(r)
  <1>. DEFINE run == runs[r]
  <1>1. /\ run \in Run /\ run.ckpt \in Checkpoint /\ run.ckpt.vals \in GraphState
        /\ run.ckpt.vals.awaiting_outline
    BY TraceShape DEF AnswerOutline, Checkpoint
  <1>2. PICK a \in OutlineActions \ {"none"} :
           runs' = [runs EXCEPT ![r].ckpt.vals =
                       [runs[r].ckpt.vals EXCEPT !.user_decision = a, !.awaiting_outline = FALSE]]
    BY DEF AnswerOutline
  <1>3. PICK w : w = [run.ckpt.vals EXCEPT !.user_decision = a, !.awaiting_outline = FALSE]
    OBVIOUS
  <1>4. /\ w \in GraphState /\ ~w.awaiting_outline /\ w.report = run.ckpt.vals.report
        /\ w.outline_approved = run.ckpt.vals.outline_approved
        /\ w.awaiting_fact_check = run.ckpt.vals.awaiting_fact_check
        /\ w.fact_answers = run.ckpt.vals.fact_answers
        /\ w.sections = run.ckpt.vals.sections /\ w.draft = run.ckpt.vals.draft
    BY <1>1, <1>3 DEF GraphState
  <1>5. PICK c : c = [run.ckpt EXCEPT !.vals = w]
    OBVIOUS
  <1>6. c \in Checkpoint /\ c.at = run.ckpt.at /\ c.vals = w
    BY <1>1, <1>4, <1>5 DEF Checkpoint
  <1>7. PICK new : new = [run EXCEPT !.ckpt = c]
    OBVIOUS
  <1>8. /\ new \in Run /\ new.parent = run.parent /\ new.from = run.from /\ new.busy = run.busy
        /\ new.status = run.status /\ new.ckpt = c /\ new.refs = run.refs
        /\ new.final = run.final /\ new.trace = run.trace /\ new.waived = run.waived
    BY <1>1, <1>6, <1>7 DEF Run
  <1>9. runs' = [runs EXCEPT ![r] = new]
    BY <1>2, <1>3, <1>5, <1>7
  <1>10. Touches(r) /\ runs'[r] = new
    <2>1. r = Len(runs) /\ plan' = plan /\ retrieval' = retrieval
      BY DEF AnswerOutline, Followed
    <2>2. QED
      BY <1>8, <1>9, <2>1, Touched
  <1>11. run.busy = "idle" /\ run.status = "running" /\ artifacts' = artifacts
    BY DEF AnswerOutline
  <1>12. QED
    BY <1>1, <1>4, <1>6, <1>8, <1>10, <1>11 DEF Answers

LEMMA AnswerFactsDoes ==
    ASSUME RerunsTypeOK, NEW r \in DOMAIN runs, AnswerFacts(r)
    PROVE  Answers(r)
  <1>. DEFINE run == runs[r]
  <1>1. /\ run \in Run /\ run.ckpt \in Checkpoint /\ run.ckpt.vals \in GraphState
        /\ run.ckpt.vals.awaiting_fact_check
    BY TraceShape DEF AnswerFacts, Checkpoint
  <1>2. PICK a \in FactAnswers :
           runs' = [runs EXCEPT ![r].waived = runs[r].waived \/ a = "none",
                                ![r].ckpt.vals = [runs[r].ckpt.vals EXCEPT
                                    !.fact_answers = a, !.awaiting_fact_check = FALSE]]
    BY DEF AnswerFacts
  <1>3. PICK w : w = [run.ckpt.vals EXCEPT !.fact_answers = a, !.awaiting_fact_check = FALSE]
    OBVIOUS
  <1>4. /\ w \in GraphState /\ ~w.awaiting_fact_check /\ w.report = run.ckpt.vals.report
        /\ w.outline_approved = run.ckpt.vals.outline_approved
        /\ w.awaiting_outline = run.ckpt.vals.awaiting_outline
        /\ w.fact_answers = a
        /\ w.sections = run.ckpt.vals.sections /\ w.draft = run.ckpt.vals.draft
    BY <1>1, <1>3 DEF GraphState, FactAnswers
  <1>5. PICK c : c = [run.ckpt EXCEPT !.vals = w]
    OBVIOUS
  <1>6. c \in Checkpoint /\ c.at = run.ckpt.at /\ c.vals = w
    BY <1>1, <1>4, <1>5 DEF Checkpoint
  <1>13. PICK b \in BOOLEAN : b = (run.waived \/ a = "none")
    OBVIOUS
  <1>7. PICK new : new = [run EXCEPT !.waived = b, !.ckpt = c]
    OBVIOUS
  <1>8. /\ new \in Run /\ new.parent = run.parent /\ new.from = run.from /\ new.busy = run.busy
        /\ new.status = run.status /\ new.ckpt = c /\ new.refs = run.refs
        /\ new.final = run.final /\ new.trace = run.trace /\ new.waived = b
    BY <1>1, <1>6, <1>7 DEF Run
  <1>9. runs' = [runs EXCEPT ![r] = new]
    <2>1. r \in DOMAIN runs /\ DOMAIN run.ckpt = {"at", "vals"}
      BY <1>1 DEF Checkpoint
    <2>2. QED
      BY <1>1, <1>2, <1>3, <1>5, <1>7, <1>13, <2>1 DEF Run
  <1>10. Touches(r) /\ runs'[r] = new
    <2>1. r = Len(runs) /\ plan' = plan /\ retrieval' = retrieval
      BY DEF AnswerFacts, Followed
    <2>2. QED
      BY <1>8, <1>9, <1>13, <2>1, Touched
  <1>11. run.busy = "idle" /\ run.status = "running" /\ artifacts' = artifacts
    BY DEF AnswerFacts
  <1>12. QED
    BY <1>1, <1>4, <1>6, <1>8, <1>10, <1>11, <1>13 DEF Answers

-----------------------------------------------------------------------------
(* The steps of a plan, and the step before one. *)

\* A list without repetition: what it holds, its last element, some neighbours.
Lists(s, last, R, C) ==
    /\ s \in Seq(Nodes) /\ Len(s) # 0 /\ s[Len(s)] = last
    /\ \A k \in 1..Len(s) : s[k] \in R
    /\ \A j, k \in 1..Len(s) : s[j] = s[k] => j = k
    /\ \A c \in C : \E k \in 1..Len(s) : k # 1 /\ s[k - 1] = c[1] /\ s[k] = c[2]

Optional(feature, step) == IF feature THEN <<step>> ELSE << >>

LEMMA Extended ==
    ASSUME NEW s, NEW last, NEW R, NEW C, Lists(s, last, R, C), NEW b \in BOOLEAN,
           NEW x \in Nodes, x \notin R
    PROVE  Lists(s \o Optional(b, x), IF b THEN x ELSE last, IF b THEN R \cup {x} ELSE R,
                 IF b THEN C \cup {<<last, x>>} ELSE C)
  <1>. DEFINE n == Len(s)
              t == Append(s, x)
  <1>1. s \in Seq(Nodes) /\ n \in Nat \ {0}
    BY LenProperties DEF Lists
  <1>2. CASE ~b
    <2>1. s \o Optional(b, x) = s
      BY <1>1, <1>2, ConcatEmptySeq DEF Optional
    <2>2. QED
      BY <1>2, <2>1
  <1>3. CASE b
    <2>1. s \o Optional(b, x) = t
      BY <1>1, <1>3, AppendIsConcat DEF Optional
    <2>2. /\ t \in Seq(Nodes) /\ Len(t) = n + 1 /\ t[n + 1] = x
          /\ \A k \in 1..n : t[k] = s[k]
      BY <1>1, AppendProperties
    <2>. HIDE DEF t
    <2>3. \A k \in 1..n + 1 : k \in 1..n \/ k = n + 1
      BY <1>1
    <2>4. \A k \in 1..Len(t) : t[k] \in R \cup {x}
      BY <2>2, <2>3 DEF Lists
    <2>5. \A j, k \in 1..Len(t) : t[j] = t[k] => j = k
      <3>1. \A k \in 1..n : s[k] \in R /\ s[k] # x
        BY DEF Lists
      <3>2. \A j, k \in 1..n : s[j] = s[k] => j = k
        BY DEF Lists
      <3>3. QED
        BY <1>1, <2>2, <2>3, <3>1, <3>2
    <2>6. ASSUME NEW c \in C \cup {<<last, x>>}
          PROVE  \E k \in 1..Len(t) : k # 1 /\ t[k - 1] = c[1] /\ t[k] = c[2]
      <3>1. CASE c \in C
        <4>1. PICK k \in 1..n : k # 1 /\ s[k - 1] = c[1] /\ s[k] = c[2]
          BY <3>1 DEF Lists
        <4>2. k \in 1..Len(t) /\ t[k - 1] = s[k - 1] /\ t[k] = s[k]
          BY <1>1, <2>2, <4>1, SMTT(60)
        <4>3. QED
          BY <4>1, <4>2
      <3>2. CASE c = <<last, x>>
        <4>1. n + 1 \in 1..Len(t) /\ n + 1 # 1 /\ t[n + 1 - 1] = last /\ t[n + 1] = x
          BY <1>1, <2>2 DEF Lists
        <4>2. QED
          BY <3>2, <4>1
      <3>3. QED
        BY <3>1, <3>2
    <2>7. Lists(t, x, R \cup {x}, C \cup {<<last, x>>})
      BY <1>1, <2>2, <2>4, <2>5, <2>6 DEF Lists
    <2>8. QED
      BY <1>3, <2>1, <2>7
  <1>4. QED
    BY <1>2, <1>3

\* Where a rerun from a node enters the graph.
Enters(n, refs) == EnterAt(D!PlanSteps(plan), n, refs)

\* The step before a step.
Previous(pl, n) ==
    CASE n \in {"clarify_intent", "retrieve_knowledge"} -> "parse_intent"
      [] n = "generate_outline" -> "retrieve_knowledge"
      [] n = "approve_outline" -> "generate_outline"
      [] n = "generate_content" -> IF pl.outline_gate THEN "approve_outline" ELSE "generate_outline"
      [] n = "self_refine" -> "generate_content"
      [] n = "check_facts" -> IF pl.self_refine THEN "self_refine" ELSE "generate_content"
      [] n = "approve_fact_check" -> "check_facts"
      [] OTHER -> "none"

Listed(pl, n) ==
    /\ n = "approve_outline" => pl.outline_gate
    /\ n = "self_refine" => pl.self_refine
    /\ n = "check_facts" => pl.fact_check
    /\ n = "approve_fact_check" => pl.fact_check /\ pl.fact_check_gate

LEMMA StepsShape ==
    ASSUME NEW pl \in Plan
    PROVE  \E last, R, C :
              /\ Lists(D!PlanSteps(pl), last, R, C)
              /\ \A n \in R : n \in Nodes /\ n # "clarify_intent" /\ Listed(pl, n)
              /\ \A n \in R : n \notin {"parse_intent", "finalize"} => <<Previous(pl, n), n>> \in C
  <1>. DEFINE s1 == <<"parse_intent", "retrieve_knowledge", "generate_outline">>
              s2 == s1 \o Optional(pl.outline_gate, "approve_outline")
              s3 == s2 \o Optional(TRUE, "generate_content")
              s4 == s3 \o Optional(pl.self_refine, "self_refine")
              s5 == s4 \o Optional(pl.fact_check, "check_facts")
              s6 == s5 \o Optional(pl.fact_check /\ pl.fact_check_gate, "approve_fact_check")
              s7 == s6 \o Optional(TRUE, "finalize")
              l1 == "generate_outline"
              l2 == IF pl.outline_gate THEN "approve_outline" ELSE l1
              l3 == "generate_content"
              l4 == IF pl.self_refine THEN "self_refine" ELSE l3
              l5 == IF pl.fact_check THEN "check_facts" ELSE l4
              l6 == IF pl.fact_check /\ pl.fact_check_gate THEN "approve_fact_check" ELSE l5
              l7 == "finalize"
              R1 == {"parse_intent", "retrieve_knowledge", "generate_outline"}
              R2 == IF pl.outline_gate THEN R1 \cup {"approve_outline"} ELSE R1
              R3 == R2 \cup {"generate_content"}
              R4 == IF pl.self_refine THEN R3 \cup {"self_refine"} ELSE R3
              R5 == IF pl.fact_check THEN R4 \cup {"check_facts"} ELSE R4
              R6 == IF pl.fact_check /\ pl.fact_check_gate THEN R5 \cup {"approve_fact_check"} ELSE R5
              R7 == R6 \cup {"finalize"}
              C1 == {<<"parse_intent", "retrieve_knowledge">>, <<"retrieve_knowledge", "generate_outline">>}
              C2 == IF pl.outline_gate THEN C1 \cup {<<l1, "approve_outline">>} ELSE C1
              C3 == C2 \cup {<<l2, "generate_content">>}
              C4 == IF pl.self_refine THEN C3 \cup {<<l3, "self_refine">>} ELSE C3
              C5 == IF pl.fact_check THEN C4 \cup {<<l4, "check_facts">>} ELSE C4
              C6 == IF pl.fact_check /\ pl.fact_check_gate
                    THEN C5 \cup {<<l5, "approve_fact_check">>} ELSE C5
              C7 == C6 \cup {<<l6, "finalize">>}
  <1>1. /\ pl.outline_gate \in BOOLEAN /\ pl.self_refine \in BOOLEAN /\ pl.fact_check \in BOOLEAN
        /\ (pl.fact_check /\ pl.fact_check_gate) \in BOOLEAN /\ TRUE \in BOOLEAN
    BY DEF Plan
  <1>2. /\ "approve_outline" \in Nodes \ R1 /\ "generate_content" \in Nodes \ R2
        /\ "self_refine" \in Nodes \ R3 /\ "check_facts" \in Nodes \ R4
        /\ "approve_fact_check" \in Nodes \ R5 /\ "finalize" \in Nodes \ R6
    BY DEF Nodes
  <1>3. D!PlanSteps(pl) = s7
    BY DEF D!PlanSteps, Optional
  <1>4. /\ \A n \in R7 : n \in Nodes /\ n # "clarify_intent" /\ Listed(pl, n)
        /\ \A n \in R7 : n \notin {"parse_intent", "finalize"} => <<Previous(pl, n), n>> \in C7
    BY DEF Nodes, Listed, Previous
  <1>5. Lists(s1, l1, R1, C1)
    <2>1. s1 \in Seq(Nodes) /\ Len(s1) = 3 /\ s1[1] = "parse_intent" /\ s1[2] = "retrieve_knowledge"
          /\ s1[3] = "generate_outline"
      BY DEF Nodes
    <2>. HIDE DEF s1
    <2>2. \A k \in 1..3 : k = 1 \/ k = 2 \/ k = 3
      OBVIOUS
    <2>3. \A c \in C1 : \E k \in 1..3 : k # 1 /\ s1[k - 1] = c[1] /\ s1[k] = c[2]
      BY <2>1
    <2>4. QED
      BY <2>1, <2>2, <2>3 DEF Lists
  <1>. HIDE DEF s1, R1, C1, l1
  <1>6. Lists(s2, l2, R2, C2)
    BY <1>1, <1>2, <1>5, Extended
  <1>. HIDE DEF s2, R2, C2, l2
  <1>7. Lists(s3, l3, R3, C3)
    BY <1>1, <1>2, <1>6, Extended
  <1>. HIDE DEF s3, R3, C3, l3
  <1>8. Lists(s4, l4, R4, C4)
    BY <1>1, <1>2, <1>7, Extended
  <1>. HIDE DEF s4, R4, C4, l4
  <1>9. Lists(s5, l5, R5, C5)
    BY <1>1, <1>2, <1>8, Extended
  <1>. HIDE DEF s5, R5, C5, l5
  <1>10. Lists(s6, l6, R6, C6)
    BY <1>1, <1>2, <1>9, Extended
  <1>. HIDE DEF s6, R6, C6, l6
  <1>11. Lists(s7, l7, R7, C7)
    BY <1>1, <1>2, <1>10, Extended
  <1>. HIDE DEF s7, R7, C7, l7
  <1>12. QED
    BY <1>3, <1>4, <1>11

\* A rerun starts as if the step before had just been written, which the plan has.
LEMMA EnterShape ==
    ASSUME plan \in Plan, NEW n \in Allowed, Recorded(n), NEW refs
    PROVE  /\ n \in Nodes /\ Listed(plan, n)
           /\ n = "parse_intent" => Enters(n, refs) = InputCheckpoint
           /\ n # "parse_intent" => Enters(n, refs) = [at |-> Previous(plan, n), vals |-> Restored(refs)]
  <1>. DEFINE steps == D!PlanSteps(plan)
  <1>1. PICK last, R, C :
              /\ Lists(steps, last, R, C)
              /\ \A m \in R : m \in Nodes /\ m # "clarify_intent" /\ Listed(plan, m)
              /\ \A m \in R : m \notin {"parse_intent", "finalize"} => <<Previous(plan, m), m>> \in C
    BY StepsShape
  <1>2. DOMAIN steps = 1..Len(steps) /\ n # "finalize"
    <2>. HIDE DEF steps
    <2>1. QED
      BY <1>1, LenProperties DEF Lists, Recorded
  <1>3. n # "clarify_intent" => n \in R
    BY <1>1, <1>2 DEF Allowed, Lists
  <1>4. n \in Nodes /\ Listed(plan, n)
    BY <1>1, <1>3 DEF Nodes, Listed
  <1>5. CASE n = "parse_intent"
    BY <1>4, <1>5 DEF Enters, EnterAt
  <1>6. CASE n = "clarify_intent"
    BY <1>4, <1>6 DEF Enters, EnterAt, Previous
  <1>7. CASE n \notin {"parse_intent", "clarify_intent"}
    <2>. HIDE DEF steps
    <2>1. <<Previous(plan, n), n>> \in C
      BY <1>1, <1>2, <1>3, <1>7
    <2>2. PICK k \in 1..Len(steps) : k # 1 /\ steps[k - 1] = Previous(plan, n) /\ steps[k] = n
      BY <1>1, <2>1 DEF Lists
    <2>3. \A j \in 1..Len(steps) : steps[j] = n => j = k
      BY <1>1, <2>2 DEF Lists
    <2>4. (CHOOSE j \in DOMAIN steps : steps[j] = n) = k
      BY <1>2, <2>2, <2>3
    <2>5. steps[(CHOOSE j \in DOMAIN steps : steps[j] = n) - 1] = Previous(plan, n)
      BY <2>2, <2>4
    <2>6. QED
      BY <1>4, <1>7, <2>5 DEF Enters, EnterAt, steps
  <1>8. QED
    BY <1>5, <1>6, <1>7

-----------------------------------------------------------------------------
(* What a rerun takes over. *)

LEMMA FirstShape ==
    ASSUME RerunsTypeOK, NEW p \in DOMAIN runs, NEW n \in Executed(p)
    PROVE  LET trace == runs[p].trace
               k == FirstPlace(trace, n)
           IN  /\ k \in DOMAIN trace /\ k \in Nat \ {0} /\ trace[k].node = n
               /\ \A j \in DOMAIN trace : trace[j].node = n => j >= k
  <1>. DEFINE trace == runs[p].trace
              T == {k \in DOMAIN trace : trace[k].node = n}
  <1>1. DOMAIN trace = 1..Len(trace) /\ Len(trace) \in Nat
    BY TraceShape
  <1>2. T \in SUBSET Nat /\ T # {}
    BY <1>1 DEF Executed
  <1>3. PICK m \in T : \A x \in T : m <= x
    <2>. HIDE DEF T
    <2>1. QED
      BY <1>2, HasSmallest
  <1>4. m \in DOMAIN trace /\ trace[m].node = n /\ \A j \in DOMAIN trace : trace[j].node = n => j >= m
    BY <1>1, <1>3
  <1>. HIDE DEF trace
  <1>5. /\ FirstPlace(trace, n) \in DOMAIN trace /\ trace[FirstPlace(trace, n)].node = n
        /\ \A j \in DOMAIN trace : trace[j].node = n => j >= FirstPlace(trace, n)
    BY <1>4, Zenon DEF FirstPlace
  <1>6. QED
    BY <1>1, <1>5 DEF trace

LEMMA MadeShape ==
    ASSUME RerunsTypeOK, MadeInv, NEW p \in DOMAIN runs, NEW k \in 1..(Len(runs[p].trace) + 1)
    PROVE  LET made == MadeBefore(runs[p].trace, k)
           IN  /\ made \in SUBSET ({p} \X (1..Len(artifacts[p]))) /\ made \in SUBSET Ids
               /\ \A id \in made : /\ Exists(id) /\ Get(id) = artifacts[p][id[2]]
                                   /\ \E j \in 1..(k - 1) : /\ j \in DOMAIN runs[p].trace
                                                            /\ id \in runs[p].trace[j].outputs
                                                            /\ Get(id).slot \in Makes(runs[p].trace[j].node)
  <1>. DEFINE trace == runs[p].trace
  <1>1. /\ DOMAIN trace = 1..Len(trace) /\ Len(trace) \in Nat /\ p \in RunIds
        /\ \A j \in DOMAIN trace : trace[j] \in NodeRun
    BY TraceShape, RunsShape
  <1>2. DOMAIN artifacts[p] = 1..Len(artifacts[p]) /\ Len(artifacts[p]) \in Nat
    BY <1>1, StoreShape
  <1>3. ASSUME NEW id \in MadeBefore(trace, k)
        PROVE  /\ id \in {p} \X (1..Len(artifacts[p])) /\ id \in Ids /\ Exists(id)
               /\ Get(id) = artifacts[p][id[2]]
               /\ \E j \in 1..(k - 1) : /\ j \in DOMAIN trace /\ id \in trace[j].outputs
                                        /\ Get(id).slot \in Makes(trace[j].node)
    <2>1. PICK j \in 1..(k - 1) : id \in trace[j].outputs
      BY DEF MadeBefore
    <2>2. j \in DOMAIN trace
      BY <1>1
    <2>3. id \in Ids
      BY <1>1, <2>1, <2>2 DEF NodeRun
    <2>4. id[1] = p /\ Exists(id) /\ Get(id).slot \in Makes(trace[j].node)
      BY <2>1, <2>2 DEF MadeInv, MadeOf, MadeBy
    <2>5. QED
      BY <1>2, <2>1, <2>2, <2>3, <2>4 DEF Ids, Exists, Get
  <1>4. QED
    BY <1>3

LEMMA NoRefsIs == NoRefs \in Refs /\ \A slot \in Slots : NoRefs[slot] = NoArtifact
  BY DEF NoRefs, Refs

LEMMA PreserveShape ==
    ASSUME RerunsTypeOK, MadeInv, NEW p \in DOMAIN runs, NEW n \in Executed(p)
    PROVE  Preserve(p, n) \in Refs /\ Stocked(Preserve(p, n))
  <1>1. PICK k : k = FirstPlace(runs[p].trace, n)
    OBVIOUS
  <1>2. PICK ids : ids = MadeBefore(runs[p].trace, k)
    OBVIOUS
  <1>3. k \in 1..(Len(runs[p].trace) + 1) /\ p \in RunIds
    BY <1>1, FirstShape, TraceShape, RunsShape
  <1>4. /\ ids \in SUBSET ({p} \X (1..Len(artifacts[p]))) /\ ids \in SUBSET Ids
        /\ \A id \in ids : Exists(id)
    BY <1>2, <1>3, MadeShape
  <1>5. Len(artifacts[p]) \in Nat
    BY <1>3, StoreShape
  <1>6. Preserve(p, n) = Hold(artifacts, NoRefs, ids)
    BY <1>1, <1>2 DEF Preserve
  <1>7. ASSUME NEW slot \in Slots, Hold(artifacts, NoRefs, ids)[slot] # NoArtifact
        PROVE  Exists(Hold(artifacts, NoRefs, ids)[slot])
    <2>0. NoRefs[slot] = NoArtifact
      BY NoRefsIs
    <2>1. Hold(artifacts, NoRefs, ids)[slot] \in Placed(artifacts, ids, slot)
      BY <1>4, <1>5, <1>7, <2>0, HoldShape
    <2>2. QED
      BY <1>4, <2>1 DEF Placed
  <1>8. Hold(artifacts, NoRefs, ids) \in Refs
    BY <1>4, <1>5, NewRefs, NoRefsIs
  <1>9. QED
    BY <1>6, <1>7, <1>8 DEF Stocked

LEMMA RestoredType ==
    ASSUME NEW refs
    PROVE  LET v == Restored(refs)
           IN  /\ v \in GraphState
               /\ ~v.awaiting_outline /\ ~v.awaiting_fact_check /\ ~v.needs_clarification
               /\ v.user_decision = "none" /\ v.fact_answers = "none"
               /\ v.outline <=> refs[Outline] # NoArtifact
               /\ v.outline_approved <=> refs[Outline] # NoArtifact
               /\ v.report <=> refs[Report] # NoArtifact
               /\ v.sections <=> refs[Outline] # NoArtifact /\ Get(refs[Outline]).full
               /\ v.draft <=> HasSections(refs)
  <1>1. PICK o \in BOOLEAN : o = (refs[Outline] # NoArtifact)
    OBVIOUS
  <1>2. PICK d \in BOOLEAN : d = HasSections(refs)
    BY DEF HasSections
  <1>3. PICK e \in BOOLEAN : e = (refs[Report] # NoArtifact)
    OBVIOUS
  <1>4. PICK f \in BOOLEAN : f = (refs[Report] # NoArtifact /\ ~Get(refs[Report]).good)
    OBVIOUS
  <1>5. PICK g \in BOOLEAN : g = (refs[Final] # NoArtifact /\ Get(refs[Final]).full)
    OBVIOUS
  <1>10. PICK h \in BOOLEAN : h = (refs[Outline] # NoArtifact /\ Get(refs[Outline]).full)
    OBVIOUS
  <1>6. Restored(refs) = [EmptyState EXCEPT !.input = TRUE, !.outline = o, !.sections = h,
                                            !.outline_approved = o, !.draft = d, !.report = e,
                                            !.risky = f, !.final = g]
    BY <1>1, <1>2, <1>3, <1>4, <1>5, <1>10 DEF Restored
  <1>7. PICK v : v = Restored(refs)
    OBVIOUS
  <1>8. /\ v \in GraphState
        /\ ~v.awaiting_outline /\ ~v.awaiting_fact_check /\ ~v.needs_clarification
        /\ v.user_decision = "none" /\ v.fact_answers = "none"
        /\ v.outline = o /\ v.outline_approved = o /\ v.report = e
        /\ v.sections = h /\ v.draft = d
    BY <1>6, <1>7, ZenonT(90) DEF EmptyState, GraphState, OutlineActions, FactAnswers
  <1>9. QED
    BY <1>1, <1>2, <1>3, <1>7, <1>8, <1>10

LEMMA PreviousNode ==
    \A pl, n : n \in Nodes /\ n \notin {"parse_intent", "finalize"} =>
        Previous(pl, n) \in Nodes /\ Previous(pl, n) \notin {NoThread, Entry}
  BY DEF Previous, Nodes, NoThread, Entry

LEMMA Added ==
    ASSUME RerunsTypeOK, NEW p \in DOMAIN runs, p = Len(runs), NEW n \in Allowed \cap Executed(p),
           n \in Nodes, Len(runs) < MaxRuns, NEW ckpt \in Checkpoint, NEW refs \in Refs,
           runs' = Append(runs, NewRun(p, n, ckpt, refs)),
           UNCHANGED <<plan, retrieval, artifacts, regenerations, cuts, edited>>
    PROVE  Adds(p, n, ckpt, refs) /\ NewRun(p, n, ckpt, refs) \in Run
  <1>1. PICK new : new = NewRun(p, n, ckpt, refs)
    OBVIOUS
  <1>2. new \in Run
    <2>1. << >> \in Seq(NodeRun) /\ p \in Nat
      BY RunsShape
    <2>2. QED
      BY <1>1, <2>1 DEF NewRun, Run, RunStatus
  <1>3. runs \in Seq(Run) /\ DOMAIN runs = 1..Len(runs)
    BY RunsShape DEF RerunsTypeOK
  <1>4. /\ runs' \in Seq(Run) /\ Len(runs') = Len(runs) + 1 /\ runs'[Len(runs) + 1] = new
        /\ \A q \in 1..Len(runs) : runs'[q] = runs[q]
    BY <1>1, <1>2, <1>3, AppendProperties
  <1>5. DOMAIN runs' = 1..Len(runs')
    BY <1>4, LenProperties
  <1>6. QED
    BY <1>1, <1>2, <1>3, <1>4, <1>5 DEF Adds

\* What was executed was recorded, and no plan lists the end.
LEMMA ExecutedNode ==
    ASSUME RerunsTypeOK, FlowInv, NEW p \in DOMAIN runs, NEW n \in Executed(p)
    PROVE  n \in Nodes /\ Recorded(n) /\ n # "finalize" /\ runs[p].ckpt.at # NoThread
  <1>1. PICK k \in DOMAIN runs[p].trace : n = runs[p].trace[k].node
    BY DEF Executed
  <1>2. runs[p].trace[k] \in NodeRun
    BY TraceShape
  <1>3. Recorded(n)
    BY <1>1 DEF FlowInv, FlowOf, TraceOf
  <1>4. runs[p].trace # << >>
    BY <1>1, TraceShape
  <1>5. QED
    BY <1>1, <1>2, <1>3, <1>4 DEF NodeRun, Recorded, FlowInv, FlowOf, TraceOf

LEMMA RerunDoes ==
    ASSUME RerunsTypeOK, MadeInv, FlowInv, NEW p \in DOMAIN runs, NEW n, Rerun(p, n)
    PROVE  LET refs == Preserve(p, n)
           IN  /\ Adds(p, n, Enters(n, refs), refs) /\ NewRun(p, n, Enters(n, refs), refs) \in Run
               /\ Enters(n, refs) \in Checkpoint /\ refs \in Refs
  <1>1. PICK refs : refs = Preserve(p, n)
    OBVIOUS
  <1>2. p = Len(runs) /\ Len(runs) < MaxRuns /\ n \in Allowed \cap Executed(p)
    BY DEF Rerun, Rerunnable, Followed
  <1>3. refs \in Refs /\ n \in Nodes /\ Recorded(n) /\ n # "finalize"
    BY <1>1, <1>2, PreserveShape, ExecutedNode
  <1>4. Enters(n, refs) \in Checkpoint
    <2>1. CASE n = "parse_intent"
      BY <1>2, <1>3, <2>1, EnterShape, EmptyType DEF RerunsTypeOK
    <2>2. CASE n # "parse_intent"
      <3>1. Enters(n, refs) = [at |-> Previous(plan, n), vals |-> Restored(refs)]
        BY <1>2, <1>3, <2>2, EnterShape DEF RerunsTypeOK
      <3>2. Previous(plan, n) \in Nodes
        BY <1>3, <2>2, PreviousNode
      <3>3. Restored(refs) \in GraphState
        BY RestoredType
      <3>4. QED
        BY <3>1, <3>2, <3>3 DEF Checkpoint
    <2>3. QED
      BY <2>1, <2>2
  <1>5. /\ runs' = Append(runs, NewRun(p, n, Enters(n, refs), refs))
        /\ UNCHANGED <<plan, retrieval, artifacts, regenerations, cuts, edited>>
    BY <1>1 DEF Rerun, Enters
  <1>6. Adds(p, n, Enters(n, refs), refs) /\ NewRun(p, n, Enters(n, refs), refs) \in Run
    BY <1>2, <1>3, <1>4, <1>5, Added
  <1>7. QED
    BY <1>1, <1>3, <1>4, <1>6

LEMMA RerunNotStartedDoes ==
    ASSUME RerunsTypeOK, MadeInv, FlowInv, NEW p \in DOMAIN runs, NEW n, RerunNotStarted(p, n)
    PROVE  /\ Adds(p, n, NoCheckpoint, NoRefs) /\ NewRun(p, n, NoCheckpoint, NoRefs) \in Run
  <1>1. p = Len(runs) /\ Len(runs) < MaxRuns /\ n \in Allowed \cap Executed(p)
    BY DEF RerunNotStarted, Rerunnable, Followed
  <1>2. n \in Nodes
    BY <1>1, ExecutedNode
  <1>3. /\ runs' = Append(runs, NewRun(p, n, NoCheckpoint, NoRefs))
        /\ UNCHANGED <<plan, retrieval, artifacts, regenerations, cuts, edited>>
    BY DEF RerunNotStarted
  <1>4. QED
    BY <1>1, <1>2, <1>3, Added, EmptyType, NoRefsIs

-----------------------------------------------------------------------------
(* Every step is one of these. *)

NotStarted(p, n) == Adds(p, n, NoCheckpoint, NoRefs)

Reruns(p, n) ==
    LET refs == Preserve(p, n)
    IN  Adds(p, n, Enters(n, refs), refs) /\ Enters(n, refs) \in Checkpoint /\ refs \in Refs

\* The node that runs ends in one of these ways.
EndsWith(r, v, out) ==
    Finishes(r, v, out) \/ Repeats(r, v, out) \/ Fails(r, v, out) \/ Stops(r, v, out)

Moves(r) ==
    \/ Starts(r) \/ Answers(r)
    \/ \E v \in GraphState : \E out \in Seq(Wants) : EndsWith(r, v, out)

LEMMA StepShape ==
    ASSUME RerunsTypeOK, VersionsBounded, MadeInv, FlowInv, Next, ~edited'
    PROVE  \E r \in DOMAIN runs :
              Moves(r) \/ \E n \in Nodes : Reruns(r, n) \/ NotStarted(r, n)
  <1>1. PICK r \in DOMAIN runs :
            \/ StartNode(r) \/ FinishNode(r) \/ FailNode(r) \/ Cut(r) \/ CutAfterRecord(r)
            \/ AnswerOutline(r) \/ AnswerFacts(r)
            \/ \E n \in Nodes : Rerun(r, n) \/ RerunNotStarted(r, n)
    BY DEF Next, EditedRerun
  <1>2. CASE StartNode(r) \/ AnswerOutline(r) \/ AnswerFacts(r)
    BY <1>2, StartDoes, AnswerOutlineDoes, AnswerFactsDoes DEF Moves
  <1>3. CASE FinishNode(r) \/ FailNode(r) \/ Cut(r) \/ CutAfterRecord(r)
    <2>1. \E v \in GraphState : \E out \in Seq(Wants) : EndsWith(r, v, out)
      BY <1>3, FinishDoes, RepeatDoes, FailDoes, StopDoes DEF EndsWith
    <2>2. QED
      BY <2>1 DEF Moves
  <1>4. ASSUME NEW n \in Nodes, Rerun(r, n) PROVE Reruns(r, n)
    BY <1>4, RerunDoes DEF Reruns
  <1>5. ASSUME NEW n \in Nodes, RerunNotStarted(r, n) PROVE NotStarted(r, n)
    BY <1>5, RerunNotStartedDoes DEF NotStarted
  <1>6. QED
    BY <1>1, <1>2, <1>3, <1>4, <1>5

\* No artifact changes or goes away.
Stable == \A id : Exists(id) => Exists(id)' /\ Get(id)' = Get(id)

LEMMA GrowsStable ==
    ASSUME RerunsTypeOK, NEW r \in RunIds, NEW out \in Seq(Wants), Grows(r, out)
    PROVE  /\ Stable
           /\ \A k \in 1..Len(out) : \A id :
                 id = <<r, Len(artifacts[r]) + k>> =>
                     /\ Exists(id)' /\ Get(id)'.slot = out[k].slot /\ Get(id)'.good = out[k].good
                     /\ Get(id)'.full = out[k].full /\ Get(id)'.version = NextVersion(r, out, k)
  <1>. DEFINE n == Len(artifacts[r])
  <1>1. /\ artifacts'[r] \in Seq(Artifact) /\ Len(artifacts'[r]) = n + Len(out)
        /\ n \in Nat /\ DOMAIN artifacts[r] = 1..n /\ Len(out) \in Nat
        /\ DOMAIN artifacts'[r] = 1..n + Len(out)
        /\ \A i \in 1..n : artifacts'[r][i] = artifacts[r][i]
    BY StoreShape, LenProperties DEF Grows, Made
  <1>2. ASSUME NEW id, Exists(id) PROVE Exists(id)' /\ Get(id)' = Get(id)
    <2>1. CASE id[1] = r
      <3>1. id[2] \in 1..n
        BY <1>1, <1>2, <2>1 DEF Exists
      <3>2. id[2] \in DOMAIN artifacts'[r] /\ artifacts'[r][id[2]] = artifacts[r][id[2]]
        BY <1>1, <3>1
      <3>3. QED
        BY <2>1, <3>2 DEF Exists, Get
    <2>2. CASE id[1] # r
      BY <1>2, <2>2 DEF Exists, Get, Grows
    <2>3. QED
      BY <2>1, <2>2
  <1>3. ASSUME NEW k \in 1..Len(out), NEW id, id = <<r, n + k>>
        PROVE  /\ Exists(id)' /\ Get(id)'.slot = out[k].slot /\ Get(id)'.good = out[k].good
               /\ Get(id)'.full = out[k].full /\ Get(id)'.version = NextVersion(r, out, k)
    <2>1. n + k \in DOMAIN artifacts'[r]
      BY <1>1
    <2>2. LET a == artifacts'[r][n + k]
          IN  /\ a.slot = out[k].slot /\ a.good = out[k].good /\ a.full = out[k].full
              /\ a.version = NextVersion(r, out, k)
      BY DEF Grows, Made
    <2>3. id[1] = r /\ id[2] = n + k
      BY <1>3
    <2>4. Exists(id)' /\ Get(id)' = artifacts'[r][n + k]
      BY <2>1, <2>3 DEF Exists, Get
    <2>5. QED
      BY <2>2, <2>4
  <1>4. QED
    BY <1>2, <1>3 DEF Stable

LEMMA GrowsBounded ==
    ASSUME RerunsTypeOK, VersionsBounded, NEW r \in RunIds, NEW out \in Seq(Wants), Grows(r, out),
           \A k \in 1..Len(out) : out[k].parent # NoArtifact => Exists(out[k].parent)
    PROVE  VersionsBounded'
  <1>1. PICK B \in Nat : BoundedBy(B)
    BY DEF VersionsBounded
  <1>. DEFINE n == Len(artifacts[r])
  <1>2. Len(out) \in Nat /\ n \in Nat /\ DOMAIN artifacts[r] = 1..n
    BY LenProperties, StoreShape
  <1>3. /\ DOMAIN artifacts'[r] = 1..n + Len(out)
        /\ \A i \in 1..n : artifacts'[r][i] = artifacts[r][i]
    BY <1>2, LenProperties DEF Grows, Made
  <1>4. \A k \in 1..n : artifacts[r][k].version \in Nat /\ artifacts[r][k].version <= B
    BY <1>1, <1>2, StoreShape DEF BoundedBy
  <1>5. \A k \in 1..Len(out) :
           /\ artifacts'[r][n + k].version = NextVersion(r, out, k)
           /\ NextVersion(r, out, k) \in Nat /\ NextVersion(r, out, k) <= B + Len(out)
    BY <1>1, VersionShape DEF Grows, Made
  <1>6. ASSUME NEW k \in DOMAIN artifacts'[r] PROVE artifacts'[r][k].version <= B + Len(out)
    <2>1. CASE k \in 1..n
      BY <1>2, <1>3, <1>4, <2>1, SMTT(60)
    <2>2. CASE k \notin 1..n
      <3>1. k - n \in 1..Len(out) /\ n + (k - n) = k
        BY <1>2, <1>3, <2>2, SMTT(60)
      <3>2. artifacts'[r][n + (k - n)].version <= B + Len(out)
        BY <1>5, <3>1
      <3>3. QED
        BY <3>1, <3>2
    <2>3. QED
      BY <2>1, <2>2
  <1>7. ASSUME NEW q \in RunIds, q # r, NEW k \in DOMAIN artifacts'[q]
        PROVE  artifacts'[q][k].version <= B + Len(out)
    <2>1. artifacts'[q] = artifacts[q]
      BY <1>7 DEF Grows
    <2>2. k \in DOMAIN artifacts[q] /\ artifacts[q][k].version \in Nat
      BY <1>7, <2>1, StoreShape
    <2>3. artifacts[q][k].version <= B
      BY <1>1, <2>2 DEF BoundedBy
    <2>4. QED
      BY <1>1, <1>2, <2>1, <2>2, <2>3
  <1>8. BoundedBy(B + Len(out))' /\ B + Len(out) \in Nat
    BY <1>2, <1>6, <1>7, SMTT(60) DEF BoundedBy
  <1>9. QED
    BY <1>8 DEF VersionsBounded

\* What a step of a run does to the store.
LEMMA MoveStore ==
    ASSUME RerunsTypeOK, VersionsBounded, MadeInv, NEW r \in DOMAIN runs, Moves(r)
    PROVE  /\ Touches(r) /\ artifacts' \in [RunIds -> Seq(Artifact)]
           /\ Stable /\ VersionsBounded'
  <1>1. r \in RunIds
    BY RunsShape
  <1>2. CASE artifacts' = artifacts
    <2>1. Stable
      BY <1>2 DEF Stable, Exists, Get
    <2>2. VersionsBounded'
      BY <1>2 DEF VersionsBounded, BoundedBy
    <2>3. Touches(r)
      BY DEF Moves, EndsWith, Starts, Answers, Finishes, Repeats, Records, Fails, Stops, Breaks,
             Leaves
    <2>4. artifacts' \in [RunIds -> Seq(Artifact)]
      BY <1>2 DEF RerunsTypeOK
    <2>5. QED
      BY <2>1, <2>2, <2>3, <2>4
  <1>3. CASE artifacts' # artifacts
    <2>1. \E v \in GraphState : \E out \in Seq(Wants) : EndsWith(r, v, out)
      BY <1>3 DEF Moves, Starts, Answers
    <2>2. PICK v \in GraphState, out \in Seq(Wants) : Leaves(r, v, out)
      BY <2>1 DEF EndsWith, Finishes, Repeats, Records, Fails, Stops, Breaks
    <2>3. /\ out \in Seq(Wants)
          /\ \A k \in 1..Len(out) : out[k].parent # NoArtifact => Exists(out[k].parent)
      BY <2>2, ParentsExist DEF Leaves
    <2>4. Stable
      BY <1>1, <2>2, <2>3, GrowsStable DEF Leaves
    <2>5. VersionsBounded'
      BY <1>1, <2>2, <2>3, GrowsBounded DEF Leaves
    <2>6. QED
      BY <2>2, <2>4, <2>5 DEF Leaves, Grows
  <1>4. QED
    BY <1>2, <1>3

-----------------------------------------------------------------------------
(* What the steps of a run do to its trace. *)

Kept(r) == runs'[r].trace = runs[r].trace

Grown(r, e) ==
    LET was == runs[r].trace
        is == runs'[r].trace
    IN  /\ Len(is) = Len(was) + 1 /\ DOMAIN is = 1..(Len(was) + 1)
        /\ \A k \in DOMAIN was : is[k] = was[k]
        /\ is[Len(was) + 1] = e

EndedWith(r, ids) ==
    LET was == runs[r].trace
        is == runs'[r].trace
    IN  /\ Len(is) = Len(was) /\ DOMAIN is = DOMAIN was /\ Len(was) # 0
        /\ was[Len(was)].node = runs[r].busy /\ was[Len(was)].outputs = {}
        /\ \A k \in DOMAIN was :
              /\ is[k].node = was[k].node /\ is[k].inputs = was[k].inputs
              /\ is[k].outputs = IF k = Len(was) THEN ids ELSE was[k].outputs

LEMMA StartTrace ==
    ASSUME RerunsTypeOK, NEW r \in DOMAIN runs, Starts(r)
    PROVE  \/ Kept(r)
           \/ /\ runs'[r].busy = Upcoming(r) /\ Recorded(Upcoming(r)) /\ runs'[r].status = "running"
              /\ ~MissingAtOnce(Upcoming(r), runs[r].refs)
              /\ Grown(r, Begun(Upcoming(r), runs[r].refs))
  <1>. DEFINE e == Begun(Upcoming(r), runs[r].refs)
  <1>1. CASE Recorded(Upcoming(r)) /\ ~MissingAtOnce(Upcoming(r), runs[r].refs)
    <2>1. /\ runs'[r].trace = Append(runs[r].trace, e) /\ runs'[r].busy = Upcoming(r)
          /\ runs'[r].status = "running"
      BY <1>1 DEF Starts
    <2>2. runs[r].trace \in Seq(NodeRun) /\ e \in NodeRun /\ DOMAIN runs[r].trace = 1..Len(runs[r].trace)
      BY TraceShape DEF Starts, NodeRun, Begun
    <2>. HIDE DEF e
    <2>3. /\ Len(runs'[r].trace) = Len(runs[r].trace) + 1
          /\ runs'[r].trace[Len(runs[r].trace) + 1] = e
          /\ \A k \in 1..Len(runs[r].trace) : runs'[r].trace[k] = runs[r].trace[k]
          /\ runs'[r].trace \in Seq(NodeRun)
      BY <2>1, <2>2, AppendProperties
    <2>4. DOMAIN runs'[r].trace = 1..Len(runs'[r].trace)
      BY <2>3, LenProperties
    <2>5. Grown(r, e)
      BY <2>2, <2>3, <2>4 DEF Grown
    <2>6. QED
      BY <1>1, <2>1, <2>5 DEF e
  <1>2. CASE ~Recorded(Upcoming(r)) \/ MissingAtOnce(Upcoming(r), runs[r].refs)
    BY <1>2 DEF Starts, Kept
  <1>3. QED
    BY <1>1, <1>2

LEMMA EndTrace ==
    ASSUME RerunsTypeOK, FlowInv, NEW r \in DOMAIN runs, NEW ids \in SUBSET Ids,
           NEW status \in {"completed", "interrupted", "failed"},
           runs[r].busy # "idle", Recorded(runs[r].busy),
           runs'[r].trace = Ended(runs[r].trace, status, ids)
    PROVE  EndedWith(r, ids)
  <1>1. /\ Len(runs[r].trace) # 0 /\ runs[r].trace[Len(runs[r].trace)].node = runs[r].busy
        /\ runs[r].trace[Len(runs[r].trace)].outputs = {}
    BY DEF FlowInv, FlowOf, BusyOf
  <1>2. runs[r].trace \in Seq(NodeRun) /\ DOMAIN runs[r].trace = 1..Len(runs[r].trace)
    BY TraceShape
  <1>3. PICK t : t = Ended(runs[r].trace, status, ids)
    OBVIOUS
  <1>4. /\ Len(t) = Len(runs[r].trace) /\ DOMAIN t = DOMAIN runs[r].trace
        /\ \A k \in 1..Len(runs[r].trace) :
              /\ t[k].node = runs[r].trace[k].node /\ t[k].inputs = runs[r].trace[k].inputs
              /\ t[k].outputs = IF k = Len(runs[r].trace) THEN ids ELSE runs[r].trace[k].outputs
    BY <1>1, <1>2, <1>3, EndedShape, SMTT(60)
  <1>5. QED
    BY <1>1, <1>2, <1>3, <1>4 DEF EndedWith

LEMMA LeaveIds ==
    ASSUME RerunsTypeOK, NEW r \in DOMAIN runs, NEW v, NEW out, Leaves(r, v, out)
    PROVE  /\ r \in RunIds /\ runs[r].busy # "idle" /\ NewIds(r, out) \in SUBSET Ids
           /\ NewIds(r, out) \in SUBSET ({r} \X (1..Len(artifacts'[r]))) /\ Len(artifacts'[r]) \in Nat
           /\ \A id \in NewIds(r, out) : id \notin {r} \X DOMAIN artifacts[r]
  <1>1. r \in RunIds /\ runs[r].busy # "idle" /\ out \in Seq(Wants)
    BY RunsShape DEF Leaves, Nodes
  <1>2. Made(r, out, artifacts'[r])
    BY DEF Leaves, Grows
  <1>3. QED
    BY <1>1, <1>2, NewIdsAre, LenProperties DEF Made

\* A node run that ends has made all the new ones.
LEMMA LeaveTrace ==
    ASSUME RerunsTypeOK, FlowInv, NEW r \in DOMAIN runs, NEW v, NEW out,
           Records(r, v, out) \/ Fails(r, v, out)
    PROVE  /\ Recorded(runs[r].busy) => EndedWith(r, NewIds(r, out))
           /\ ~Recorded(runs[r].busy) => Kept(r)
  <1>1. runs[r].busy # "idle" /\ NewIds(r, out) \in SUBSET Ids
    BY LeaveIds DEF Records, Fails, Breaks
  <1>2. CASE Recorded(runs[r].busy)
    <2>1. PICK status \in {"completed", "interrupted", "failed"} :
             runs'[r].trace = Ended(runs[r].trace, status, NewIds(r, out))
      BY <1>2 DEF Records, Fails, Status
    <2>2. QED
      BY <1>1, <1>2, <2>1, EndTrace
  <1>3. CASE ~Recorded(runs[r].busy)
    BY <1>3 DEF Records, Fails, Kept
  <1>4. QED
    BY <1>2, <1>3

-----------------------------------------------------------------------------
(* Artifacts that exist. *)

LEMMA MadeStays ==
    ASSUME Stable, NEW r, NEW run, MadeOf(r, run)
    PROVE  MadeOf(r, run)'
  <1>1. \A id : Exists(id) => Exists(id)' /\ Get(id)' = Get(id)
    BY DEF Stable
  <1>2. Stocked(run.refs)'
    BY <1>1 DEF MadeOf, Stocked, Exists, Get
  <1>3. ASSUME NEW k \in DOMAIN run.trace
        PROVE  Stocked(run.trace[k].inputs)' /\ MadeBy(r, run.trace[k])'
    BY <1>1 DEF MadeOf, Stocked, MadeBy, Exists, Get
  <1>4. QED
    BY <1>2, <1>3 DEF MadeOf

\* What a node has just made.
LEMMA LeaveMakes ==
    ASSUME RerunsTypeOK, NEW r \in DOMAIN runs, NEW v, NEW out, Leaves(r, v, out),
           NEW id \in NewIds(r, out)
    PROVE  /\ id[1] = r /\ Exists(id)' /\ id # NoArtifact
           /\ \E k \in 1..Len(out) :
                 /\ id = <<r, Len(artifacts[r]) + k>> /\ WantedBy(runs[r].busy, runs[r].refs, v, out[k])
                 /\ Get(id)'.slot = out[k].slot /\ Get(id)'.good = out[k].good
                 /\ Get(id)'.full = out[k].full /\ Get(id)'.version = NextVersion(r, out, k)
           /\ Get(id)'.slot \in Makes(runs[r].busy)
  <1>1. PICK k \in 1..Len(out) : id = <<r, Len(artifacts[r]) + k>>
    BY DEF NewIds
  <1>2. r \in RunIds /\ Grows(r, out) /\ out \in Seq(Wants) /\ r # 0
    BY RunsShape DEF Leaves, RunIds
  <1>3. WantedBy(runs[r].busy, runs[r].refs, v, out[k])
    BY DEF Leaves, AllWantedBy
  <1>4. /\ Exists(id)' /\ Get(id)'.slot = out[k].slot /\ Get(id)'.good = out[k].good
        /\ Get(id)'.full = out[k].full /\ Get(id)'.version = NextVersion(r, out, k)
    BY <1>1, <1>2, GrowsStable
  <1>5. id[1] = r /\ id # NoArtifact
    BY <1>1, <1>2 DEF NoArtifact
  <1>6. out[k].slot \in Makes(runs[r].busy)
    BY <1>3 DEF WantedBy
  <1>7. QED
    BY <1>1, <1>3, <1>4, <1>5, <1>6

\* What is held with the new ones is what the run held, or one of them.
LEMMA LeaveHolds ==
    ASSUME RerunsTypeOK, NEW r \in DOMAIN runs, NEW v, NEW out, Leaves(r, v, out),
           NEW slot \in Slots, NEW new,
           new = Hold(artifacts', runs[r].refs, NewIds(r, out))[slot]
    PROVE  \/ /\ new = runs[r].refs[slot]
              /\ \A id \in NewIds(r, out) : Get(id)'.slot # slot
           \/ new \in NewIds(r, out) /\ Get(new)'.slot = slot
  <1>1. PICK ids : ids = NewIds(r, out)
    OBVIOUS
  <1>2. PICK n \in Nat : n = Len(artifacts'[r])
    BY LeaveIds
  <1>3. ids \in SUBSET ({r} \X (1..n))
    BY <1>1, <1>2, LeaveIds
  <1>4. PICK store : store = artifacts'
    OBVIOUS
  <1>5. PICK refs : refs = runs[r].refs
    OBVIOUS
  <1>6. new = Hold(store, refs, ids)[slot]
    BY <1>1, <1>4, <1>5
  <1>7. CASE Placed(store, ids, slot) = {}
    <2>1. new = refs[slot]
      BY <1>3, <1>6, <1>7, HoldShape
    <2>2. \A id \in ids : store[id[1]][id[2]].slot # slot
      BY <1>7 DEF Placed
    <2>3. QED
      BY <1>1, <1>4, <1>5, <2>1, <2>2 DEF Get
  <1>8. CASE Placed(store, ids, slot) # {}
    <2>0. Hold(store, refs, ids)[slot] \in Placed(store, ids, slot)
      BY <1>2, <1>3, <1>8, HoldShape
    <2>1. new \in Placed(store, ids, slot)
      BY <1>6, <2>0, SMTT(60)
    <2>2. new \in ids /\ store[new[1]][new[2]].slot = slot
      BY <2>1, SMTT(60) DEF Placed
    <2>3. QED
      BY <1>1, <1>4, <2>2 DEF Get
  <1>9. QED
    BY <1>7, <1>8

LEMMA MadeNow ==
    ASSUME NEW q, NEW new, new = runs'[q], MadeOf(q, new)'
    PROVE  MadeOf(q, runs[q])'
  BY DEF MadeOf, MadeBy, Stocked, Exists, Get

LEMMA MadeMoves ==
    ASSUME RerunsTypeOK, VersionsBounded, MadeInv, FlowInv, NEW r \in DOMAIN runs, Moves(r)
    PROVE  MadeInv'
  <1>1. Touches(r) /\ Stable
    BY MoveStore
  <1>2. PICK run : run = runs[r]
    OBVIOUS
  <1>3. PICK new : new = runs'[r]
    OBVIOUS
  <1>4. MadeOf(r, run)'
    BY <1>1, <1>2, MadeStays DEF MadeInv
  <1>5. /\ Stocked(run.refs)'
        /\ \A k \in DOMAIN run.trace : Stocked(run.trace[k].inputs)' /\ MadeBy(r, run.trace[k])'
    BY <1>4 DEF MadeOf
  <1>6. ASSUME new.refs = run.refs, new.trace = run.trace
        PROVE  MadeOf(r, new)'
    BY <1>5, <1>6 DEF MadeOf, Stocked, MadeBy
  <1>7. ASSUME new.refs = run.refs, NEW e, e = Begun(Upcoming(r), runs[r].refs), Grown(r, e)
        PROVE  MadeOf(r, new)'
    <2>1. /\ DOMAIN new.trace = 1..(Len(run.trace) + 1) /\ DOMAIN run.trace = 1..Len(run.trace)
          /\ Len(run.trace) \in Nat
          /\ \A k \in DOMAIN run.trace : new.trace[k] = run.trace[k]
          /\ new.trace[Len(run.trace) + 1] = e
      BY <1>2, <1>3, <1>7, TraceShape DEF Grown
    <2>2. e.inputs = run.refs /\ e.outputs = {}
      BY <1>2, <1>7 DEF Begun
    <2>3. ASSUME NEW k \in DOMAIN new.trace
          PROVE  Stocked(new.trace[k].inputs)' /\ MadeBy(r, new.trace[k])'
      <3>1. CASE k \in DOMAIN run.trace
        BY <1>5, <2>1, <3>1 DEF Stocked, MadeBy
      <3>2. CASE k \notin DOMAIN run.trace
        <4>1. new.trace[k] = e
          BY <2>1, <3>2
        <4>2. QED
          BY <1>5, <2>2, <4>1 DEF Stocked, MadeBy
      <3>3. QED
        BY <3>1, <3>2
    <2>4. Stocked(new.refs)'
      BY <1>5, <1>7 DEF Stocked
    <2>5. QED
      BY <2>3, <2>4 DEF MadeOf
  <1>8. ASSUME NEW ids, EndedWith(r, ids), Stocked(new.refs)',
               \A id \in ids : id[1] = r /\ Exists(id)' /\ Get(id)'.slot \in Makes(run.busy)
        PROVE  MadeOf(r, new)'
    <2>1. /\ DOMAIN new.trace = DOMAIN run.trace
          /\ run.trace[Len(run.trace)].node = run.busy
          /\ \A k \in DOMAIN run.trace :
                /\ new.trace[k].node = run.trace[k].node /\ new.trace[k].inputs = run.trace[k].inputs
                /\ new.trace[k].outputs = IF k = Len(run.trace) THEN ids ELSE run.trace[k].outputs
      BY <1>2, <1>3, <1>8 DEF EndedWith
    <2>2. ASSUME NEW k \in DOMAIN new.trace
          PROVE  Stocked(new.trace[k].inputs)' /\ MadeBy(r, new.trace[k])'
      <3>1. Stocked(new.trace[k].inputs)'
        BY <1>5, <2>1 DEF Stocked
      <3>2. CASE k # Len(run.trace)
        <4>1. MadeBy(r, new.trace[k])'
          BY <1>5, <2>1, <3>2 DEF MadeBy
        <4>2. QED
          BY <3>1, <4>1
      <3>3. CASE k = Len(run.trace)
        <4>1. new.trace[k].outputs = ids /\ new.trace[k].node = run.busy
          BY <2>1, <3>3
        <4>2. MadeBy(r, new.trace[k])'
          BY <1>8, <4>1 DEF MadeBy
        <4>3. QED
          BY <3>1, <4>2
      <3>4. QED
        BY <3>2, <3>3
    <2>3. QED
      BY <1>8, <2>2 DEF MadeOf
  <1>9. MadeOf(r, new)'
    <2>1. CASE Starts(r)
      <3>1. new.refs = run.refs
        BY <1>2, <1>3, <2>1 DEF Starts
      <3>2. PICK e : e = Begun(Upcoming(r), runs[r].refs)
        OBVIOUS
      <3>3. new.trace = run.trace \/ Grown(r, e)
        BY <1>2, <1>3, <2>1, <3>2, StartTrace DEF Kept
      <3>4. QED
        BY <1>6, <1>7, <3>1, <3>2, <3>3
    <2>2. CASE Answers(r)
      BY <1>2, <1>3, <1>6, <2>2 DEF Answers
    <2>3. ASSUME NEW v \in GraphState, NEW out \in Seq(Wants), EndsWith(r, v, out)
          PROVE  MadeOf(r, new)'
      <3>1. PICK ids : ids = NewIds(r, out)
        OBVIOUS
      <3>2. Leaves(r, v, out)
        BY <2>3 DEF EndsWith, Finishes, Repeats, Records, Fails, Stops, Breaks
      <3>3. \A id \in ids : id[1] = r /\ Exists(id)' /\ Get(id)'.slot \in Makes(run.busy)
        BY <1>2, <3>1, <3>2, LeaveMakes
      <3>4. CASE Stops(r, v, out)
        BY <1>2, <1>3, <1>6, <3>4 DEF Stops, Breaks
      <3>5. CASE Records(r, v, out) \/ Fails(r, v, out)
        <4>1. new.trace = run.trace \/ EndedWith(r, ids)
          BY <1>2, <1>3, <3>1, <3>5, LeaveTrace DEF Kept
        <4>2. Stocked(new.refs)'
          <5>1. new.refs = run.refs \/ new.refs = Hold(artifacts', runs[r].refs, ids)
            BY <1>2, <1>3, <2>3, <3>1 DEF EndsWith, Finishes, Repeats, Fails, Stops, Breaks
          <5>2. CASE new.refs = run.refs
            BY <1>5, <5>2 DEF Stocked
          <5>3. CASE new.refs = Hold(artifacts', runs[r].refs, ids)
            <6>1. ASSUME NEW slot \in Slots, new.refs[slot] # NoArtifact
                  PROVE  Exists(new.refs[slot])'
              <7>1. PICK id : id = new.refs[slot]
                OBVIOUS
              <7>2. id = run.refs[slot] \/ id \in ids
                BY <1>2, <3>1, <3>2, <5>3, <7>1, LeaveHolds
              <7>3. \A s \in Slots : run.refs[s] # NoArtifact => Exists(run.refs[s])'
                BY <1>5 DEF Stocked
              <7>4. CASE id = run.refs[slot]
                BY <6>1, <7>1, <7>3, <7>4
              <7>5. CASE id \in ids
                BY <3>3, <7>1, <7>5
              <7>6. QED
                BY <7>2, <7>4, <7>5
            <6>2. QED
              BY <6>1 DEF Stocked
          <5>4. QED
            BY <5>1, <5>2, <5>3
        <4>3. CASE new.trace = run.trace
          BY <1>5, <4>2, <4>3 DEF MadeOf, Stocked, MadeBy
        <4>4. QED
          BY <1>8, <3>3, <4>1, <4>2, <4>3
      <3>6. QED
        BY <2>3, <3>4, <3>5 DEF EndsWith, Finishes, Repeats
    <2>4. QED
      BY <2>1, <2>2, <2>3 DEF Moves
  <1>10. ASSUME NEW q \in DOMAIN runs PROVE MadeOf(q, runs[q])'
    <2>1. CASE q = r
      BY <1>3, <1>9, <2>1, MadeNow
    <2>2. CASE q # r
      <3>1. PICK x : x = runs[q]
        OBVIOUS
      <3>2. x = runs'[q] /\ MadeOf(q, x)'
        BY <1>1, <2>2, <3>1, MadeStays DEF MadeInv, Touches
      <3>3. QED
        BY <3>2, MadeNow
    <2>3. QED
      BY <2>1, <2>2
  <1>11. DOMAIN runs' = DOMAIN runs
    BY <1>1 DEF Touches
  <1>12. QED
    BY <1>10, <1>11 DEF MadeInv

LEMMA MadeAdds ==
    ASSUME RerunsTypeOK, MadeInv, NEW p \in DOMAIN runs, NEW n \in Nodes, NEW ckpt, NEW refs,
           Adds(p, n, ckpt, refs), Stocked(refs)
    PROVE  MadeInv'
  <1>1. Stable
    BY DEF Adds, Stable, Exists, Get
  <1>2. DOMAIN runs = 1..p /\ DOMAIN runs' = 1..(p + 1) /\ p \in Nat
    BY RunsShape DEF Adds
  <1>3. PICK new : new = NewRun(p, n, ckpt, refs)
    OBVIOUS
  <1>4. new = runs'[p + 1] /\ new.refs = refs /\ new.trace = << >>
    BY <1>3 DEF Adds, NewRun
  <1>5. MadeOf(p + 1, new)
    BY <1>4 DEF MadeOf
  <1>6. ASSUME NEW q \in DOMAIN runs' PROVE MadeOf(q, runs[q])'
    <2>1. CASE q = p + 1
      <3>1. MadeOf(q, new)'
        BY <1>1, <1>5, <2>1, MadeStays
      <3>2. QED
        BY <1>4, <2>1, <3>1, MadeNow
    <2>2. CASE q \in DOMAIN runs
      <3>1. PICK x : x = runs[q]
        OBVIOUS
      <3>2. x = runs'[q] /\ MadeOf(q, x)'
        BY <1>1, <2>2, <3>1, MadeStays DEF MadeInv, Adds
      <3>3. QED
        BY <3>2, MadeNow
    <2>3. QED
      BY <1>2, <2>1, <2>2
  <1>7. QED
    BY <1>6 DEF MadeInv

-----------------------------------------------------------------------------
(* The way through the graph. *)

LEMMA OutcomeWaits ==
    ASSUME NEW pl \in Plan, NEW v \in GraphState, NEW n \in Nodes,
           NEW w \in NodeOutcomes(pl, n, v)
    PROVE  /\ w.awaiting_outline => v.awaiting_outline \/ n = "generate_outline"
           /\ w.awaiting_fact_check => v.awaiting_fact_check \/ n = "check_facts"
  <1>. USE DEF NodeOutcomes
  <1>1. CASE n = "parse_intent"
    BY <1>1 DEF ParseIntent, GraphState
  <1>2. CASE n = "clarify_intent"
    BY <1>2 DEF ClarifyIntent, GraphState
  <1>3. CASE n = "retrieve_knowledge"
    BY <1>3
  <1>4. CASE n = "generate_outline"
    BY <1>4 DEF GenerateOutline, GraphState
  <1>5. CASE n = "approve_outline"
    BY <1>5 DEF ApproveOutline, GraphState
  <1>6. CASE n = "generate_content"
    BY <1>6 DEF GenerateContent, GraphState
  <1>7. CASE n = "self_refine"
    BY <1>7 DEF SelfRefine, GraphState
  <1>8. CASE n = "check_facts"
    BY <1>8 DEF CheckFacts, GraphState
  <1>9. CASE n = "approve_fact_check"
    BY <1>9 DEF ApproveFactCheck, GraphState
  <1>10. CASE n = "finalize"
    BY <1>10 DEF Finalize, GraphState
  <1>11. QED
    BY <1>1, <1>2, <1>3, <1>4, <1>5, <1>6, <1>7, <1>8, <1>9, <1>10 DEF Nodes

\* A run that waits has no next node.
LEMMA WaitingEnds ==
    ASSUME NEW run, WaitsOf(run)
    PROVE  run.ckpt.vals.awaiting_outline \/ run.ckpt.vals.awaiting_fact_check
             => NextNode(plan, run.ckpt) = End
  BY DEF WaitsOf, NextNode, AfterOutline, AfterFactCheck, Entry

LEMMA FlowNow ==
    ASSUME plan' = plan, retrieval' = retrieval, NEW q, NEW new, new = runs'[q], FlowOf(new)
    PROVE  FlowOf(runs[q])'
  <1>1. BusyOf(runs[q])'
    BY DEF FlowOf, BusyOf, Recorded
  <1>2. TraceOf(runs[q])'
    BY DEF FlowOf, TraceOf, Recorded
  <1>3. EmptyOf(runs[q])' /\ WaitsOf(runs[q])'
    BY DEF FlowOf, EmptyOf, WaitsOf
  <1>4. QED
    BY <1>1, <1>2, <1>3 DEF FlowOf

LEMMA StartFlow ==
    ASSUME RerunsTypeOK, FlowInv, NEW r \in DOMAIN runs, Starts(r)
    PROVE  FlowOf(runs'[r])
  <1>1. PICK run : run = runs[r]
    OBVIOUS
  <1>2. PICK new : new = runs'[r]
    OBVIOUS
  <1>3. PICK n : n = Upcoming(r)
    OBVIOUS
  <1>4. /\ new.ckpt = run.ckpt /\ new.refs = run.refs /\ n = NextNode(plan, run.ckpt) /\ n \in Nodes
        /\ run.ckpt \in Checkpoint /\ plan \in Plan /\ run.ckpt.at # NoThread
        /\ new.busy \in {"idle", n} /\ n # "idle"
        /\ new.busy = n => new.status = "running" /\ ~MissingAtOnce(n, run.refs)
    BY <1>1, <1>2, <1>3, TraceShape DEF Starts, Upcoming, RerunsTypeOK, Nodes
  <1>5. FlowOf(run)
    BY <1>1 DEF FlowInv
  <1>6. /\ DOMAIN run.trace = 1..Len(run.trace) /\ Len(run.trace) \in Nat
        /\ \A k \in DOMAIN run.trace : run.trace[k] \in NodeRun
    BY <1>1, TraceShape
  <1>7. Stage(run.ckpt.at) <= Stage(n) /\ Stage(run.ckpt.at) \in 0..9 /\ Stage(n) \in 0..10
    BY <1>4, NextStage DEF Leads
  <1>8. PICK e : e = Begun(n, run.refs)
    OBVIOUS
  <1>9. e.node = n /\ e.inputs = run.refs /\ e.outputs = {}
    BY <1>8 DEF Begun
  <1>10. \/ new.trace = run.trace /\ (new.busy = n => ~Recorded(n))
         \/ /\ Recorded(n) /\ ~MissingAtOnce(n, run.refs)
            /\ Len(new.trace) = Len(run.trace) + 1 /\ DOMAIN new.trace = 1..(Len(run.trace) + 1)
            /\ \A k \in DOMAIN run.trace : new.trace[k] = run.trace[k]
            /\ new.trace[Len(run.trace) + 1] = e
    <2>1. CASE Recorded(n) /\ new.busy = n
      <3>1. new.trace = Append(run.trace, e)
        BY <1>1, <1>2, <1>3, <1>4, <1>8, <2>1 DEF Starts
      <3>2. new.trace # run.trace
        BY <1>1, <3>1, TraceShape
      <3>3. Grown(r, e) /\ Recorded(n) /\ ~MissingAtOnce(n, run.refs)
        BY <1>1, <1>2, <1>3, <1>8, <3>2, StartTrace DEF Kept
      <3>4. QED
        BY <1>1, <1>2, <3>3 DEF Grown
    <2>2. CASE ~ (Recorded(n) /\ new.busy = n)
      BY <1>1, <1>2, <1>3, <1>4, <2>2 DEF Starts
    <2>3. QED
      BY <2>1, <2>2
  <1>11. BusyOf(new)
    BY <1>4, <1>6, <1>9, <1>10 DEF BusyOf
  <1>12. ASSUME NEW k \in DOMAIN new.trace
         PROVE  LET f == new.trace[k]
                IN  /\ Recorded(f.node) /\ ~MissingAtOnce(f.node, f.inputs)
                    /\ Stage(f.node) <= Stage(new.ckpt.at) \/ f.node = NextNode(plan, new.ckpt)
                    /\ \A j \in 1..k : Stage(new.trace[j].node) <= Stage(f.node)
    <2>1. \A i \in DOMAIN run.trace :
             /\ Recorded(run.trace[i].node) /\ ~MissingAtOnce(run.trace[i].node, run.trace[i].inputs)
             /\ Stage(run.trace[i].node) <= Stage(run.ckpt.at) \/ run.trace[i].node = NextNode(plan, run.ckpt)
             /\ \A j \in 1..i : Stage(run.trace[j].node) <= Stage(run.trace[i].node)
      BY <1>5 DEF FlowOf, TraceOf
    <2>2. CASE k \in DOMAIN run.trace
      <3>1. new.trace[k] = run.trace[k] /\ \A j \in 1..k : new.trace[j] = run.trace[j]
        BY <1>6, <1>10, <2>2, SMTT(60)
      <3>2. QED
        BY <1>4, <2>1, <2>2, <3>1
    <2>3. CASE k \notin DOMAIN run.trace
      <3>1. /\ k = Len(run.trace) + 1 /\ new.trace[k] = e /\ Recorded(n) /\ ~MissingAtOnce(n, run.refs)
            /\ \A j \in DOMAIN run.trace : new.trace[j] = run.trace[j]
        BY <1>6, <1>10, <2>3
      <3>2. \A j \in DOMAIN run.trace : Stage(run.trace[j].node) \in 1..9
        BY <1>6, StageShape DEF NodeRun
      <3>3. \A j \in DOMAIN run.trace : Stage(run.trace[j].node) <= Stage(n)
        BY <1>4, <1>7, <2>1, <3>2
      <3>4. \A j \in 1..k : Stage(new.trace[j].node) <= Stage(n)
        BY <1>6, <1>7, <1>9, <3>1, <3>3, SMTT(60)
      <3>5. QED
        BY <1>4, <1>9, <3>1, <3>4
    <2>4. QED
      BY <2>2, <2>3
  <1>13. TraceOf(new)
    BY <1>4, <1>12 DEF TraceOf
  <1>14. EmptyOf(new) /\ WaitsOf(new)
    BY <1>4, <1>5 DEF FlowOf, EmptyOf, WaitsOf
  <1>15. QED
    BY <1>2, <1>11, <1>13, <1>14 DEF FlowOf

\* A trace whose nodes and inputs stay, at a checkpoint as far or farther.
LEMMA SameTrace ==
    ASSUME NEW run, NEW new, TraceOf(run), DOMAIN new.trace = DOMAIN run.trace,
           run.trace \in Seq(NodeRun), run.ckpt.at # NoThread, new.ckpt.at # NoThread,
           \A k \in DOMAIN run.trace : /\ new.trace[k].node = run.trace[k].node
                                       /\ new.trace[k].inputs = run.trace[k].inputs,
           \A n \in Nodes : Stage(n) <= Stage(run.ckpt.at) \/ n = NextNode(plan, run.ckpt) =>
                            Stage(n) <= Stage(new.ckpt.at) \/ n = NextNode(plan, new.ckpt)
    PROVE  TraceOf(new)
  <1>1. DOMAIN run.trace = 1..Len(run.trace) /\ Len(run.trace) \in Nat
    BY LenProperties
  <1>2. \A k \in DOMAIN run.trace : run.trace[k].node \in Nodes
    <2>1. \A k \in DOMAIN run.trace : run.trace[k] \in NodeRun
      BY <1>1, ElementOfSeq
    <2>2. QED
      BY <2>1 DEF NodeRun
  <1>3. ASSUME NEW k \in DOMAIN new.trace
        PROVE  LET f == new.trace[k]
               IN  /\ Recorded(f.node) /\ ~MissingAtOnce(f.node, f.inputs)
                   /\ Stage(f.node) <= Stage(new.ckpt.at) \/ f.node = NextNode(plan, new.ckpt)
                   /\ \A j \in 1..k : Stage(new.trace[j].node) <= Stage(f.node)
    <2>1. /\ Recorded(run.trace[k].node) /\ ~MissingAtOnce(run.trace[k].node, run.trace[k].inputs)
          /\ Stage(run.trace[k].node) <= Stage(run.ckpt.at) \/ run.trace[k].node = NextNode(plan, run.ckpt)
          /\ \A j \in 1..k : Stage(run.trace[j].node) <= Stage(run.trace[k].node)
      BY <1>3 DEF TraceOf
    <2>2. new.trace[k].node = run.trace[k].node /\ new.trace[k].inputs = run.trace[k].inputs
      BY <1>3
    <2>3. \A j \in 1..k : new.trace[j].node = run.trace[j].node
      BY <1>1, <1>3
    <2>4. Stage(run.trace[k].node) <= Stage(new.ckpt.at) \/ run.trace[k].node = NextNode(plan, new.ckpt)
      BY <1>2, <1>3, <2>1
    <2>5. QED
      BY <2>1, <2>2, <2>3, <2>4
  <1>4. QED
    BY <1>3 DEF TraceOf

LEMMA FinishFlow ==
    ASSUME RerunsTypeOK, FlowInv, NEW r \in DOMAIN runs, NEW v \in GraphState, NEW out \in Seq(Wants),
           Finishes(r, v, out)
    PROVE  FlowOf(runs'[r])
  <1>1. PICK run : run = runs[r]
    OBVIOUS
  <1>2. PICK new : new = runs'[r]
    OBVIOUS
  <1>3. PICK n : n = run.busy
    OBVIOUS
  <1>4. /\ n \in Nodes /\ new.busy = "idle" /\ new.ckpt = [at |-> n, vals |-> v]
        /\ v \in NodeOutcomes(plan, n, run.ckpt.vals)
    BY <1>1, <1>2, <1>3 DEF Finishes, Records, Leaves
  <1>5. FlowOf(run) /\ run.ckpt \in Checkpoint /\ run.trace \in Seq(NodeRun) /\ plan \in Plan
    BY <1>1, TraceShape DEF FlowInv, RerunsTypeOK
  <1>6. n # "idle" /\ n # NoThread /\ n # End /\ run.ckpt.vals \in GraphState
    BY <1>4, <1>5 DEF Nodes, NoThread, End, Checkpoint
  <1>7. run.ckpt.at # NoThread /\ n = NextNode(plan, run.ckpt)
    BY <1>3, <1>5, <1>6 DEF FlowOf, BusyOf
  <1>8. Stage(run.ckpt.at) <= Stage(n) /\ Stage(run.ckpt.at) \in 0..9 /\ Stage(n) \in 0..10
    BY <1>5, <1>7, NextStage DEF Leads
  <1>9. BusyOf(new)
    BY <1>4 DEF BusyOf
  <1>10. /\ DOMAIN new.trace = DOMAIN run.trace
         /\ \A k \in DOMAIN run.trace : /\ new.trace[k].node = run.trace[k].node
                                        /\ new.trace[k].inputs = run.trace[k].inputs
    <2>1. /\ Recorded(n) => EndedWith(r, NewIds(r, out))
          /\ ~Recorded(n) => Kept(r)
      BY <1>1, <1>3, LeaveTrace DEF Finishes
    <2>2. CASE Recorded(n)
      BY <1>1, <1>2, <2>1, <2>2 DEF EndedWith
    <2>3. CASE ~Recorded(n)
      BY <1>1, <1>2, <2>1, <2>3 DEF Kept
    <2>4. QED
      BY <2>2, <2>3
  <1>11. new.ckpt.at = n /\ new.ckpt.vals = v
    BY <1>4
  <1>12. TraceOf(new)
    <2>1. \A m \in Nodes : Stage(m) <= Stage(run.ckpt.at) \/ m = NextNode(plan, run.ckpt) =>
                           Stage(m) <= Stage(new.ckpt.at)
      BY <1>7, <1>8, <1>11, StageShape, SMTT(60)
    <2>2. TraceOf(run)
      BY <1>5 DEF FlowOf
    <2>3. QED
      BY <1>5, <1>6, <1>7, <1>10, <1>11, <2>1, <2>2, SameTrace
  <1>13. EmptyOf(new)
    <2>1. SUFFICES ASSUME NEW slot \in Slots, Stage(n) < First(slot)
                   PROVE  new.refs[slot] = NoArtifact
      BY <1>11 DEF EmptyOf
    <2>2. PICK id : id = new.refs[slot]
      OBVIOUS
    <2>3. id = run.refs[slot] \/ (id \in NewIds(r, out) /\ Get(id)'.slot = slot)
      BY <1>1, <1>2, <2>2, LeaveHolds DEF Finishes, Records
    <2>4. CASE id = run.refs[slot]
      <3>1. First(slot) \in Nat
        BY DEF First
      <3>2. Stage(run.ckpt.at) < First(slot)
        BY <1>8, <2>1, <3>1, SMTT(60)
      <3>3. QED
        BY <1>5, <2>2, <2>4, <3>2 DEF FlowOf, EmptyOf
    <2>5. CASE id \in NewIds(r, out) /\ Get(id)'.slot = slot
      <3>1. slot \in Makes(n)
        BY <1>1, <1>3, <2>5, LeaveMakes DEF Finishes, Records
      <3>2. First(slot) <= Stage(n) /\ First(slot) \in 0..7
        BY <1>4, <3>1, MakesByStage
      <3>3. QED
        BY <1>8, <2>1, <3>2
    <2>6. QED
      BY <2>3, <2>4, <2>5
  <1>14. WaitsOf(new)
    <2>1. ~run.ckpt.vals.awaiting_outline /\ ~run.ckpt.vals.awaiting_fact_check
      BY <1>5, <1>6, <1>7, WaitingEnds DEF FlowOf
    <2>2. QED
      BY <1>4, <1>5, <1>6, <1>11, <2>1, OutcomeWaits DEF WaitsOf
  <1>15. QED
    BY <1>2, <1>9, <1>12, <1>13, <1>14 DEF FlowOf

LEMMA StayFlow ==
    ASSUME RerunsTypeOK, FlowInv, NEW r \in DOMAIN runs, NEW v, NEW out,
           Repeats(r, v, out) \/ Fails(r, v, out) \/ Stops(r, v, out) \/ Answers(r)
    PROVE  FlowOf(runs'[r])
  <1>1. PICK run : run = runs[r]
    OBVIOUS
  <1>2. PICK new : new = runs'[r]
    OBVIOUS
  <1>3. /\ new.busy = "idle" /\ new.refs = run.refs /\ new.ckpt.at = run.ckpt.at
        /\ new.ckpt = run.ckpt \/ Answers(r)
    BY <1>1, <1>2 DEF Repeats, Records, Fails, Stops, Breaks, Leaves, Answers
  <1>4. FlowOf(run) /\ run.ckpt \in Checkpoint /\ run.trace \in Seq(NodeRun)
    BY <1>1, TraceShape DEF FlowInv
  <1>5. run.ckpt.at # NoThread
    <2>1. CASE Leaves(r, v, out)
      BY <1>1, <1>4, <2>1 DEF Leaves, FlowOf, BusyOf, Nodes
    <2>2. CASE Answers(r)
      BY <1>1, <1>4, <2>2 DEF Answers, FlowOf, WaitsOf, NoThread
    <2>3. QED
      BY <2>1, <2>2 DEF Repeats, Records, Fails, Stops, Breaks
  <1>6. BusyOf(new)
    BY <1>3 DEF BusyOf
  <1>7. /\ DOMAIN new.trace = DOMAIN run.trace
        /\ \A k \in DOMAIN run.trace : /\ new.trace[k].node = run.trace[k].node
                                       /\ new.trace[k].inputs = run.trace[k].inputs
    <2>1. CASE Repeats(r, v, out) \/ Fails(r, v, out)
      <3>1. EndedWith(r, NewIds(r, out)) \/ Kept(r)
        BY <2>1, LeaveTrace DEF Repeats
      <3>2. QED
        BY <1>1, <1>2, <3>1 DEF EndedWith, Kept
    <2>2. CASE Stops(r, v, out) \/ Answers(r)
      BY <1>1, <1>2, <2>2 DEF Stops, Answers
    <2>3. QED
      BY <2>1, <2>2
  <1>8. TraceOf(new)
    <2>1. ASSUME NEW m \in Nodes, Stage(m) <= Stage(run.ckpt.at) \/ m = NextNode(plan, run.ckpt)
          PROVE  Stage(m) <= Stage(new.ckpt.at) \/ m = NextNode(plan, new.ckpt)
      <3>1. CASE new.ckpt = run.ckpt
        BY <2>1, <3>1
      <3>2. CASE Answers(r)
        <4>1. NextNode(plan, run.ckpt) = End
          BY <1>1, <1>4, <3>2, WaitingEnds DEF Answers, FlowOf
        <4>2. m # End
          BY DEF Nodes, End
        <4>3. QED
          BY <1>3, <2>1, <4>1, <4>2
      <3>3. QED
        BY <1>3, <3>1, <3>2
    <2>2. TraceOf(run)
      BY <1>4 DEF FlowOf
    <2>3. QED
      BY <1>3, <1>4, <1>5, <1>7, <2>1, <2>2, SameTrace
  <1>9. EmptyOf(new)
    BY <1>3, <1>4 DEF FlowOf, EmptyOf
  <1>10. WaitsOf(new)
    <2>1. CASE new.ckpt = run.ckpt
      BY <1>4, <2>1 DEF FlowOf, WaitsOf
    <2>2. CASE Answers(r)
      BY <1>1, <1>2, <1>3, <1>4, <2>2 DEF Answers, FlowOf, WaitsOf
    <2>3. QED
      BY <1>3, <2>1, <2>2
  <1>11. QED
    BY <1>2, <1>6, <1>8, <1>9, <1>10 DEF FlowOf

LEMMA FlowMoves ==
    ASSUME RerunsTypeOK, VersionsBounded, MadeInv, FlowInv, NEW r \in DOMAIN runs, Moves(r)
    PROVE  FlowInv'
  <1>1. /\ DOMAIN runs' = DOMAIN runs /\ plan' = plan /\ retrieval' = retrieval
        /\ runs'[r].from = runs[r].from /\ \A q \in DOMAIN runs : q # r => runs'[q] = runs[q]
    BY MoveStore DEF Touches
  <1>2. FlowOf(runs'[r])
    BY StartFlow, FinishFlow, StayFlow DEF Moves, EndsWith
  <1>3. ASSUME NEW q \in DOMAIN runs PROVE FlowOf(runs[q])' /\ Recorded(runs[q].from)'
    <2>1. PICK new : new = runs'[q]
      OBVIOUS
    <2>2. FlowOf(new)
      BY <1>1, <1>2, <2>1 DEF FlowInv
    <2>3. FlowOf(runs[q])'
      BY <1>1, <2>1, <2>2, FlowNow
    <2>4. runs'[q].from = runs[q].from
      BY <1>1
    <2>5. Recorded(runs[q].from)
      BY DEF FlowInv
    <2>6. Recorded(runs[q].from)'
      BY <1>1, <2>4, <2>5 DEF Recorded
    <2>7. QED
      BY <2>3, <2>6
  <1>4. QED
    BY <1>1, <1>3 DEF FlowInv

\* What a rerun from n takes over was made before the original came to n.
LEMMA PreserveFrom ==
    ASSUME RerunsTypeOK, MadeInv, FlowInv, NEW p \in DOMAIN runs, NEW n \in Executed(p),
           NEW slot \in Slots, Preserve(p, n)[slot] # NoArtifact
    PROVE  /\ Exists(Preserve(p, n)[slot]) /\ Get(Preserve(p, n)[slot]).slot = slot
           /\ Preserve(p, n)[slot][1] = p
           /\ \E j \in DOMAIN runs[p].trace :
                 /\ j < FirstPlace(runs[p].trace, n)
                 /\ Preserve(p, n)[slot] \in runs[p].trace[j].outputs
                 /\ slot \in Makes(runs[p].trace[j].node)
                 /\ runs[p].trace[j].node \in Nodes \ {n}
                 /\ Stage(runs[p].trace[j].node) <= Stage(n)
  <1>1. PICK trace : trace = runs[p].trace
    OBVIOUS
  <1>2. PICK k : k = FirstPlace(trace, n)
    OBVIOUS
  <1>3. PICK ids : ids = MadeBefore(trace, k)
    OBVIOUS
  <1>4. PICK id : id = Preserve(p, n)[slot]
    OBVIOUS
  <1>5. /\ DOMAIN trace = 1..Len(trace) /\ Len(trace) \in Nat /\ p \in RunIds
        /\ \A j \in DOMAIN trace : trace[j] \in NodeRun
    BY <1>1, TraceShape, RunsShape
  <1>6. /\ k \in DOMAIN trace /\ k \in Nat \ {0} /\ trace[k].node = n
        /\ \A j \in DOMAIN trace : trace[j].node = n => j >= k
    BY <1>1, <1>2, FirstShape
  <1>7. k \in 1..(Len(trace) + 1)
    BY <1>5, <1>6
  <1>8. /\ ids \in SUBSET ({p} \X (1..Len(artifacts[p])))
        /\ \A i \in ids : /\ Exists(i)
                          /\ \E j \in 1..(k - 1) : /\ j \in DOMAIN trace /\ i \in trace[j].outputs
                                                   /\ Get(i).slot \in Makes(trace[j].node)
    BY <1>1, <1>3, <1>7, MadeShape
  <1>9. id \in ids /\ Get(id).slot = slot
    <2>1. NoRefs[slot] = NoArtifact /\ Len(artifacts[p]) \in Nat
      BY <1>5, NoRefsIs, StoreShape
    <2>2. Preserve(p, n) = Hold(artifacts, NoRefs, ids)
      BY <1>1, <1>2, <1>3 DEF Preserve
    <2>3. Hold(artifacts, NoRefs, ids)[slot] # NoArtifact
      BY <2>2
    <2>4. Hold(artifacts, NoRefs, ids)[slot] \in Placed(artifacts, ids, slot)
      BY <1>8, <2>1, <2>3, HoldShape
    <2>5. id \in Placed(artifacts, ids, slot)
      BY <1>4, <2>2, <2>4
    <2>6. QED
      BY <2>5 DEF Placed, Get
  <1>10. PICK j \in 1..(k - 1) : /\ j \in DOMAIN trace /\ id \in trace[j].outputs
                                 /\ slot \in Makes(trace[j].node)
    BY <1>8, <1>9
  <1>11. trace[j].node \in Nodes /\ trace[j].node # n /\ j < k /\ j \in 1..k
    BY <1>5, <1>6, <1>10 DEF NodeRun
  <1>12. Stage(trace[j].node) <= Stage(n)
    BY <1>1, <1>6, <1>11 DEF FlowInv, FlowOf, TraceOf
  <1>13. id[1] = p
    BY <1>8, <1>9
  <1>14. QED
    BY <1>1, <1>2, <1>4, <1>8, <1>9, <1>10, <1>11, <1>12, <1>13

\* What a stage makes is not taken over by a rerun from an earlier one.
LEMMA PreserveEmpty ==
    ASSUME RerunsTypeOK, MadeInv, FlowInv, NEW p \in DOMAIN runs, NEW n \in Allowed \cap Executed(p),
           NEW slot \in Slots, Stage(Enters(n, Preserve(p, n)).at) < First(slot)
    PROVE  Preserve(p, n)[slot] = NoArtifact
  <1>1. SUFFICES ASSUME Preserve(p, n)[slot] # NoArtifact PROVE FALSE
    OBVIOUS
  <1>2. n \in Nodes /\ Recorded(n) /\ n # "finalize" /\ plan \in Plan
    BY ExecutedNode DEF RerunsTypeOK
  <1>3. PICK m \in Nodes \ {n} : slot \in Makes(m) /\ Stage(m) <= Stage(n)
    BY <1>1, PreserveFrom
  <1>4. First(slot) <= Stage(m) /\ First(slot) \in {0, 1, 3, 5, 7}
    BY <1>3, MakesByStage DEF First
  <1>5. PICK at : at = Enters(n, Preserve(p, n)).at
    OBVIOUS
  <1>6. /\ n = "parse_intent" => at = Entry
        /\ n # "parse_intent" => at = Previous(plan, n)
    BY <1>2, <1>5, EnterShape DEF InputCheckpoint
  <1>7. Stage(m) \in 1..9 /\ Stage(n) \in 1..9 /\ (Stage(m) = Stage(n) => m \in OutlineNodes /\ n \in OutlineNodes)
    BY <1>2, <1>3, StageShape
  <1>8. m \in OutlineNodes => First(slot) = 0
    <2>1. m \in OutlineNodes => slot = Outline
      BY <1>3 DEF Makes, OutlineNodes
    <2>2. First(Outline) = 0
      BY DEF First, Outline, Intent, Evidence, Report, Section
    <2>3. QED
      BY <2>1, <2>2
  <1>9. First(slot) # 0 => First(slot) < Stage(n)
    BY <1>3, <1>4, <1>7, <1>8
  <1>10. First(slot) > Stage(at)
    BY <1>5
  <1>11. CASE n = "parse_intent"
    BY <1>4, <1>6, <1>9, <1>10, <1>11, StageIs
  <1>12. CASE n # "parse_intent"
    <2>1. Stage(at) \in 0..9
      BY <1>2, <1>6, <1>12, PreviousNode, StageShape
    <2>2. First(slot) < Stage(n) /\ First(slot) > Stage(at)
      BY <1>4, <1>9, <1>10, <2>1
    <2>3. QED
      BY <1>2, <1>4, <1>6, <1>12, <2>2, StageIs DEF Previous, Nodes
  <1>13. QED
    BY <1>11, <1>12

LEMMA NewFlow ==
    ASSUME RerunsTypeOK, NEW p, NEW n, NEW ckpt \in Checkpoint, NEW refs \in Refs,
           ckpt.at = NoThread => refs = NoRefs /\ ckpt = NoCheckpoint,
           \A slot \in Slots : Stage(ckpt.at) < First(slot) => refs[slot] = NoArtifact,
           ~ckpt.vals.awaiting_outline, ~ckpt.vals.awaiting_fact_check
    PROVE  FlowOf(NewRun(p, n, ckpt, refs))
  <1>1. PICK new : new = NewRun(p, n, ckpt, refs)
    OBVIOUS
  <1>2. new.busy = "idle" /\ new.trace = << >> /\ new.refs = refs /\ new.ckpt = ckpt
    BY <1>1 DEF NewRun
  <1>3. BusyOf(new)
    BY <1>2 DEF BusyOf
  <1>4. TraceOf(new)
    BY <1>2 DEF TraceOf
  <1>5. EmptyOf(new) /\ WaitsOf(new)
    BY <1>2 DEF EmptyOf, WaitsOf
  <1>6. QED
    BY <1>1, <1>3, <1>4, <1>5 DEF FlowOf

LEMMA FlowAdds ==
    ASSUME RerunsTypeOK, FlowInv, NEW p \in DOMAIN runs, NEW n, NEW ckpt, NEW refs,
           Adds(p, n, ckpt, refs), FlowOf(NewRun(p, n, ckpt, refs))
    PROVE  FlowInv'
  <1>1. /\ DOMAIN runs = 1..p /\ DOMAIN runs' = 1..(p + 1) /\ p \in Nat
        /\ plan' = plan /\ retrieval' = retrieval
    BY RunsShape DEF Adds
  <1>2. Recorded(n)
    BY ExecutedNode DEF Adds
  <1>3. ASSUME NEW q \in DOMAIN runs' PROVE FlowOf(runs[q])' /\ Recorded(runs[q].from)'
    <2>1. PICK new : new = runs'[q]
      OBVIOUS
    <2>2. FlowOf(new) /\ Recorded(new.from)
      <3>1. CASE q = p + 1
        BY <1>2, <2>1, <3>1 DEF Adds, NewRun
      <3>2. CASE q \in DOMAIN runs
        BY <2>1, <3>2 DEF Adds, FlowInv
      <3>3. QED
        BY <1>1, <3>1, <3>2
    <2>3. FlowOf(runs[q])'
      BY <1>1, <2>1, <2>2, FlowNow
    <2>4. Recorded(runs[q].from)'
      BY <1>1, <2>1, <2>2 DEF Recorded
    <2>5. QED
      BY <2>3, <2>4
  <1>4. QED
    BY <1>3 DEF FlowInv

LEMMA RerunFlow ==
    ASSUME RerunsTypeOK, MadeInv, FlowInv, NEW p \in DOMAIN runs, NEW n \in Nodes,
           Reruns(p, n) \/ NotStarted(p, n)
    PROVE  FlowInv'
  <1>1. CASE NotStarted(p, n)
    <2>1. \A slot \in Slots : NoRefs[slot] = NoArtifact
      BY NoRefsIs
    <2>2. ~NoCheckpoint.vals.awaiting_outline /\ ~NoCheckpoint.vals.awaiting_fact_check
      BY DEF NoCheckpoint, EmptyState
    <2>3. FlowOf(NewRun(p, n, NoCheckpoint, NoRefs))
      BY <2>1, <2>2, NewFlow, EmptyType, NoRefsIs
    <2>4. QED
      BY <1>1, <2>3, FlowAdds DEF NotStarted
  <1>2. CASE Reruns(p, n)
    <2>1. PICK refs \in Refs : refs = Preserve(p, n)
      BY <1>2 DEF Reruns
    <2>2. PICK ckpt \in Checkpoint : ckpt = Enters(n, refs)
      BY <1>2, <2>1 DEF Reruns
    <2>3. Adds(p, n, ckpt, refs) /\ n \in Allowed \cap Executed(p) /\ plan \in Plan
      BY <1>2, <2>1, <2>2 DEF Reruns, Adds, RerunsTypeOK
    <2>4. \A slot \in Slots : Stage(ckpt.at) < First(slot) => refs[slot] = NoArtifact
      BY <2>1, <2>2, <2>3, PreserveEmpty
    <2>5. /\ n = "parse_intent" => ckpt = InputCheckpoint
          /\ n # "parse_intent" => ckpt = [at |-> Previous(plan, n), vals |-> Restored(refs)]
          /\ n # "finalize"
      BY <2>2, <2>3, EnterShape, ExecutedNode
    <2>6. ckpt.at # NoThread
      BY <2>5, PreviousNode DEF InputCheckpoint, Entry, NoThread
    <2>7. ~ckpt.vals.awaiting_outline /\ ~ckpt.vals.awaiting_fact_check
      <3>1. CASE n = "parse_intent"
        BY <2>5, <3>1 DEF InputCheckpoint, EmptyState
      <3>2. CASE n # "parse_intent"
        BY <2>5, <3>2, RestoredType
      <3>3. QED
        BY <3>1, <3>2
    <2>8. FlowOf(NewRun(p, n, ckpt, refs))
      BY <2>4, <2>6, <2>7, NewFlow
    <2>9. QED
      BY <2>3, <2>8, FlowAdds
  <1>3. QED
    BY <1>1, <1>2

-----------------------------------------------------------------------------
(* The invariant the others rest on. *)

BaseInv == RerunsTypeOK /\ VersionsBounded /\ ParentInv /\ MadeInv /\ FlowInv

LEMMA BaseInit == Init => BaseInv
  <1>. SUFFICES ASSUME Init PROVE BaseInv
    OBVIOUS
  <1>1. PICK run : run = NewRun(0, Original, InputCheckpoint, NoRefs)
    OBVIOUS
  <1>2. runs = <<run>> /\ artifacts = [r \in RunIds |-> << >>]
    BY <1>1 DEF Init
  <1>3. Original \in Nodes /\ Original = "parse_intent"
    BY DEF Original, Nodes
  <1>4. /\ run \in Run /\ run.parent = 0 /\ run.from = Original /\ run.refs = NoRefs
        /\ run.trace = << >>
    <2>1. << >> \in Seq(NodeRun) /\ 0 \in Nat
      OBVIOUS
    <2>2. QED
      BY <1>1, <1>3, <2>1, EmptyType, NoRefsIs DEF NewRun, Run, RunStatus
  <1>5. runs \in Seq(Run) /\ Len(runs) = 1 /\ DOMAIN runs = {1} /\ runs[1] = run
    BY <1>2, <1>4
  <1>6. RerunsTypeOK
    <2>1. artifacts \in [RunIds -> Seq(Artifact)]
      BY <1>2
    <2>2. plan \in Plan /\ retrieval \in BOOLEAN /\ regenerations \in Nat /\ cuts \in Nat
      BY RerunsAssumption DEF Init
    <2>3. Len(runs) \in 1..MaxRuns
      BY <1>5, RerunsAssumption
    <2>4. edited = FALSE
      BY DEF Init
    <2>5. QED
      BY <1>5, <2>1, <2>2, <2>3, <2>4 DEF RerunsTypeOK
  <1>7. VersionsBounded
    <2>1. BoundedBy(0)
      BY <1>2 DEF BoundedBy
    <2>2. QED
      BY <2>1 DEF VersionsBounded
  <1>8. ParentInv
    BY <1>4, <1>5 DEF ParentInv
  <1>9. MadeInv
    <2>1. MadeOf(1, run)
      BY <1>4, NoRefsIs DEF MadeOf, Stocked
    <2>2. QED
      BY <1>5, <2>1 DEF MadeInv
  <1>10. FlowInv
    <2>1. ~InputCheckpoint.vals.awaiting_outline /\ ~InputCheckpoint.vals.awaiting_fact_check
      BY DEF InputCheckpoint, EmptyState
    <2>2. InputCheckpoint.at # NoThread
      BY DEF InputCheckpoint, Entry, NoThread
    <2>3. FlowOf(run)
      BY <1>1, <1>6, <2>1, <2>2, NewFlow, EmptyType, NoRefsIs
    <2>4. Recorded(run.from)
      BY <1>3, <1>4 DEF Recorded
    <2>5. QED
      BY <1>5, <2>3, <2>4 DEF FlowInv
  <1>11. QED
    BY <1>6, <1>7, <1>8, <1>9, <1>10 DEF BaseInv

LEMMA CountersStay ==
    ASSUME RerunsTypeOK, Next, ~edited'
    PROVE  regenerations' \in Nat /\ cuts' \in Nat /\ edited' = FALSE
  <1>1. regenerations \in Nat /\ cuts \in Nat /\ edited = FALSE
    BY DEF RerunsTypeOK
  <1>2. PICK r \in DOMAIN runs :
            \/ StartNode(r) \/ FinishNode(r) \/ FailNode(r) \/ Cut(r) \/ CutAfterRecord(r)
            \/ AnswerOutline(r) \/ AnswerFacts(r)
            \/ \E n \in Nodes : Rerun(r, n) \/ RerunNotStarted(r, n)
    BY DEF Next, EditedRerun
  <1>3. CASE AnswerOutline(r)
    <2>1. /\ cuts' = cuts /\ edited' = edited
          /\ (regenerations' = regenerations + 1 \/ regenerations' = regenerations + 0)
      BY <1>3 DEF AnswerOutline
    <2>2. QED
      BY <1>1, <2>1
  <1>4. CASE Cut(r) \/ CutAfterRecord(r)
    <2>1. cuts' = cuts + 1 /\ regenerations' = regenerations /\ edited' = edited
      BY <1>4 DEF Cut, CutAfterRecord
    <2>2. QED
      BY <1>1, <2>1
  <1>5. CASE ~AnswerOutline(r) /\ ~Cut(r) /\ ~CutAfterRecord(r)
    <2>1. regenerations' = regenerations /\ cuts' = cuts /\ edited' = edited
      BY <1>2, <1>5 DEF StartNode, FinishNode, FailNode, AnswerFacts, Rerun, RerunNotStarted
    <2>2. QED
      BY <1>1, <2>1, SMTT(60)
  <1>6. QED
    BY <1>3, <1>4, <1>5

\* A family that has had an edited rerun is one that had one.
LEMMA EditedStays == edited /\ [Next]_vars => edited'
  <1>. SUFFICES ASSUME edited, [Next]_vars PROVE edited'
    OBVIOUS
  <1>1. CASE UNCHANGED vars
    BY <1>1 DEF vars
  <1>2. CASE Next
    <2>1. PICK r \in DOMAIN runs :
              \/ StartNode(r) \/ FinishNode(r) \/ FailNode(r) \/ Cut(r) \/ CutAfterRecord(r)
              \/ AnswerOutline(r) \/ AnswerFacts(r)
              \/ \E n \in Nodes :
                   \/ Rerun(r, n) \/ RerunNotStarted(r, n)
                   \/ \E u \in Updates : EditedRerun(r, n, u)
      BY <1>2 DEF Next
    <2>2. edited' = edited \/ edited' = TRUE
      BY <2>1 DEF StartNode, FinishNode, FailNode, Cut, CutAfterRecord, AnswerOutline, AnswerFacts,
                  Rerun, RerunNotStarted, EditedRerun
    <2>3. QED
      BY <2>2
  <1>3. QED
    BY <1>1, <1>2

LEMMA AddedTypes ==
    ASSUME BaseInv, NEW p \in DOMAIN runs, NEW n \in Nodes, NEW ckpt, NEW refs,
           Adds(p, n, ckpt, refs), Stocked(refs)
    PROVE  /\ runs' \in Seq(Run) /\ Len(runs') \in 1..MaxRuns /\ plan' \in Plan /\ retrieval' \in BOOLEAN
           /\ artifacts' \in [RunIds -> Seq(Artifact)] /\ VersionsBounded' /\ ParentInv' /\ MadeInv'
  <1>1. /\ DOMAIN runs = 1..p /\ p \in Nat /\ p = Len(runs) /\ MaxRuns \in Nat
        /\ DOMAIN runs' = 1..(p + 1) /\ RerunsTypeOK /\ MadeInv
    BY RunsShape DEF Adds, BaseInv
  <1>2. /\ runs' \in Seq(Run) /\ Len(runs') \in 1..MaxRuns /\ plan' \in Plan /\ retrieval' \in BOOLEAN
        /\ artifacts' \in [RunIds -> Seq(Artifact)]
    BY <1>1 DEF Adds, RerunsTypeOK
  <1>3. VersionsBounded'
    BY DEF Adds, BaseInv, VersionsBounded, BoundedBy
  <1>4. ParentInv'
    <2>1. ASSUME NEW q \in DOMAIN runs' PROVE runs'[q].parent = q - 1
      <3>1. CASE q = p + 1
        BY <1>1, <3>1 DEF Adds, NewRun
      <3>2. CASE q \in DOMAIN runs
        BY <3>2 DEF Adds, BaseInv, ParentInv
      <3>3. QED
        BY <1>1, <3>1, <3>2
    <2>2. QED
      BY <2>1 DEF ParentInv
  <1>5. MadeInv'
    BY <1>1, MadeAdds
  <1>6. QED
    BY <1>2, <1>3, <1>4, <1>5

LEMMA BaseStep == BaseInv /\ Next /\ ~edited' => BaseInv'
  <1>. SUFFICES ASSUME BaseInv, Next, ~edited' PROVE BaseInv'
    OBVIOUS
  <1>1. RerunsTypeOK /\ VersionsBounded /\ ParentInv /\ MadeInv /\ FlowInv
    BY DEF BaseInv
  <1>2. regenerations' \in Nat /\ cuts' \in Nat /\ edited' = FALSE
    BY <1>1, CountersStay
  <1>3. PICK r \in DOMAIN runs : Moves(r) \/ \E n \in Nodes : Reruns(r, n) \/ NotStarted(r, n)
    BY <1>1, StepShape
  <1>4. CASE Moves(r)
    <2>1. /\ Touches(r) /\ artifacts' \in [RunIds -> Seq(Artifact)] /\ VersionsBounded'
          /\ MadeInv' /\ FlowInv'
      BY <1>1, <1>4, MoveStore, MadeMoves, FlowMoves
    <2>2. RerunsTypeOK'
      BY <1>1, <1>2, <2>1 DEF Touches, RerunsTypeOK
    <2>3. ParentInv'
      BY <1>1, <2>1 DEF Touches, ParentInv
    <2>4. QED
      BY <2>1, <2>2, <2>3 DEF BaseInv
  <1>5. ASSUME NEW n \in Nodes, Reruns(r, n) \/ NotStarted(r, n) PROVE BaseInv'
    <2>1. \E ckpt, refs : Adds(r, n, ckpt, refs) /\ Stocked(refs)
      <3>1. CASE Reruns(r, n)
        <4>1. Adds(r, n, Enters(n, Preserve(r, n)), Preserve(r, n)) /\ n \in Executed(r)
          BY <3>1 DEF Reruns, Adds
        <4>2. Stocked(Preserve(r, n))
          BY <1>1, <4>1, PreserveShape
        <4>3. QED
          BY <4>1, <4>2
      <3>2. CASE NotStarted(r, n)
        <4>1. Stocked(NoRefs)
          BY NoRefsIs DEF Stocked
        <4>2. QED
          BY <3>2, <4>1 DEF NotStarted
      <3>3. QED
        BY <1>5, <3>1, <3>2
    <2>2. PICK ckpt, refs : Adds(r, n, ckpt, refs) /\ Stocked(refs)
      BY <2>1
    <2>3. /\ runs' \in Seq(Run) /\ Len(runs') \in 1..MaxRuns /\ plan' \in Plan /\ retrieval' \in BOOLEAN
          /\ artifacts' \in [RunIds -> Seq(Artifact)] /\ VersionsBounded' /\ ParentInv' /\ MadeInv'
      BY <2>2, AddedTypes
    <2>4. FlowInv'
      BY <1>1, <1>5, RerunFlow
    <2>5. RerunsTypeOK'
      BY <1>2, <2>3 DEF RerunsTypeOK
    <2>6. QED
      BY <2>3, <2>4, <2>5 DEF BaseInv
  <1>6. QED
    BY <1>3, <1>4, <1>5

LEMMA BaseStutter == BaseInv /\ UNCHANGED vars => BaseInv'
  <1>. SUFFICES ASSUME BaseInv, UNCHANGED vars PROVE BaseInv'
    OBVIOUS
  <1>1. /\ plan' = plan /\ retrieval' = retrieval /\ runs' = runs /\ artifacts' = artifacts
        /\ regenerations' = regenerations /\ cuts' = cuts /\ edited' = edited
    BY DEF vars
  <1>2. RerunsTypeOK' /\ VersionsBounded' /\ ParentInv'
    BY <1>1 DEF BaseInv, RerunsTypeOK, VersionsBounded, BoundedBy, ParentInv
  <1>3. Stable
    BY <1>1 DEF Stable, Exists, Get
  <1>4. ASSUME NEW q \in DOMAIN runs' PROVE MadeOf(q, runs[q])' /\ FlowOf(runs[q])' /\ Recorded(runs[q].from)'
    <2>1. PICK x : x = runs[q] /\ x = runs'[q]
      BY <1>1
    <2>2. MadeOf(q, x)' /\ FlowOf(x) /\ Recorded(x.from)
      BY <1>1, <1>3, <1>4, <2>1, MadeStays DEF BaseInv, MadeInv, FlowInv
    <2>3. Recorded(runs[q].from)'
      BY <1>1, <2>1, <2>2 DEF Recorded
    <2>4. QED
      BY <1>1, <2>1, <2>2, <2>3, MadeNow, FlowNow
  <1>5. QED
    BY <1>2, <1>4 DEF BaseInv, MadeInv, FlowInv

\* Theorem: types, versions, parents, the maker of every artifact and the way
\* through the graph, on which all that follows rests, until a rerun is edited.
THEOREM BaseAlways == Spec => [](edited \/ BaseInv)
  <1>1. (edited \/ BaseInv) /\ [Next]_vars => (edited \/ BaseInv)'
    BY BaseStep, BaseStutter, EditedStays
  <1>2. QED
    BY <1>1, BaseInit, PTL DEF Spec

-----------------------------------------------------------------------------
(* Versions. *)

\* What replaces an artifact in the state of a run has the higher version.
LEMMA FinishGrows ==
    ASSUME BaseInv, NEW r \in DOMAIN runs, NEW v \in GraphState, NEW out \in Seq(Wants),
           Finishes(r, v, out), NEW slot \in Slots, NEW id, id = runs'[r].refs[slot],
           id # runs[r].refs[slot], runs[r].refs[slot] # NoArtifact
    PROVE  artifacts'[id[1]][id[2]].version > Get(runs[r].refs[slot]).version
  <1>1. PICK run : run = runs[r]
    OBVIOUS
  <1>2. PICK n : n = run.busy
    OBVIOUS
  <1>3. RerunsTypeOK /\ VersionsBounded /\ MadeInv /\ FlowInv
    BY DEF BaseInv
  <1>4. id \in NewIds(r, out) /\ Get(id)'.slot = slot
    BY <1>3, LeaveHolds DEF Finishes, Records
  <1>5. PICK k \in 1..Len(out) :
           /\ WantedBy(n, run.refs, v, out[k]) /\ Get(id)'.slot = out[k].slot
           /\ Get(id)'.version = NextVersion(r, out, k)
    BY <1>1, <1>2, <1>3, <1>4, LeaveMakes DEF Finishes, Records
  <1>6. out[k].slot = slot
    BY <1>4, <1>5
  <1>7. out[k].parent = run.refs[slot]
    <2>1. SUFFICES ASSUME n \notin OutlineNodes, First(slot) = Stage(n) PROVE FALSE
      BY <1>5, <1>6 DEF WantedBy
    <2>2. /\ run.ckpt \in Checkpoint /\ plan \in Plan /\ FlowOf(run) /\ n # "idle"
      BY <1>1, <1>2, <1>3, TraceShape DEF FlowInv, RerunsTypeOK, Finishes, Records, Leaves, Nodes
    <2>3. n = NextNode(plan, run.ckpt)
      BY <1>2, <2>2 DEF FlowOf, BusyOf
    <2>4. Stage(run.ckpt.at) < Stage(n)
      BY <2>1, <2>2, <2>3, NextStage DEF Leads
    <2>5. run.refs[slot] = NoArtifact
      BY <2>1, <2>2, <2>4 DEF FlowOf, EmptyOf
    <2>6. QED
      BY <1>1, <2>5
  <1>8. PICK B \in Nat : BoundedBy(B)
    BY <1>3 DEF VersionsBounded
  <1>9. out[k].parent # NoArtifact => Exists(out[k].parent)
    BY <1>1, <1>3, <1>7 DEF MadeInv, MadeOf, Stocked
  <1>10. NextVersion(r, out, k) > Get(out[k].parent).version
    BY <1>1, <1>3, <1>7, <1>8, <1>9, RunsShape, VersionShape
  <1>11. artifacts'[id[1]][id[2]].version = NextVersion(r, out, k)
    BY <1>5 DEF Get
  <1>12. QED
    BY <1>1, <1>7, <1>10, <1>11

LEMMA MovesGrow ==
    ASSUME BaseInv, Next, ~edited', NEW r \in DOMAIN runs, NEW slot \in Slots, NEW id,
           id = runs'[r].refs[slot], id # runs[r].refs[slot], runs[r].refs[slot] # NoArtifact
    PROVE  artifacts'[id[1]][id[2]].version > Get(runs[r].refs[slot]).version
  <1>1. RerunsTypeOK /\ VersionsBounded /\ MadeInv /\ FlowInv
    BY DEF BaseInv
  <1>2. PICK q \in DOMAIN runs : Moves(q) \/ \E n \in Nodes : Reruns(q, n) \/ NotStarted(q, n)
    BY <1>1, StepShape
  <1>3. CASE Moves(q)
    <2>1. Touches(q)
      BY <1>1, <1>3, MoveStore
    <2>2. q = r
      BY <2>1 DEF Touches
    <2>3. \E v \in GraphState : \E out \in Seq(Wants) : Finishes(r, v, out)
      BY <1>3, <2>2 DEF Moves, EndsWith, Starts, Repeats, Fails, Stops, Breaks, Answers
    <2>4. QED
      BY <2>3, FinishGrows
  <1>4. CASE \E n \in Nodes : Reruns(q, n) \/ NotStarted(q, n)
    BY <1>4 DEF Reruns, NotStarted, Adds
  <1>5. QED
    BY <1>2, <1>3, <1>4

\* Theorem: an artifact that takes another's place in the state of a run has the
\* higher version, whether the other came from the same run or from the original, and
\* also when a node is executed again after a server stop; all this until a rerun is
\* edited.
THEOREM VersionsAlwaysGrow == Spec => VersionsGrow
  <1>. DEFINE Grow == ~edited' =>
                       \A r \in DOMAIN runs, slot \in Slots :
                         LET was == runs[r].refs[slot]
                             is == runs'[r].refs[slot]
                         IN  was # is /\ was # NoArtifact =>
                                artifacts'[is[1]][is[2]].version > Get(was).version
  <1>1. BaseInv /\ Next => Grow
    <2>. SUFFICES ASSUME BaseInv, Next, ~edited', NEW r \in DOMAIN runs, NEW slot \in Slots, NEW id,
                         id = runs'[r].refs[slot], runs[r].refs[slot] # id,
                         runs[r].refs[slot] # NoArtifact
                  PROVE  artifacts'[id[1]][id[2]].version > Get(runs[r].refs[slot]).version
      OBVIOUS
    <2>. QED
      BY MovesGrow
  <1>2. edited /\ [Next]_vars => Grow
    BY EditedStays
  <1>3. (edited \/ BaseInv) /\ [Next]_vars => [Grow]_vars
    BY <1>1, <1>2
  <1>4. QED
    BY <1>3, BaseAlways, PTL DEF Spec, VersionsGrow

-----------------------------------------------------------------------------
(* What a run holds. *)

LEMMA OriginInit == Init => OriginInv
  <1>. SUFFICES ASSUME Init PROVE OriginInv
    OBVIOUS
  <1>1. runs = <<NewRun(0, Original, InputCheckpoint, NoRefs)>>
    BY DEF Init
  <1>2. DOMAIN runs = {1} /\ runs[1].parent = 0
    BY <1>1 DEF NewRun
  <1>3. QED
    BY <1>2 DEF OriginInv

LEMMA OriginStep == BaseInv /\ OriginInv /\ Next /\ ~edited' => OriginInv'
  <1>. SUFFICES ASSUME BaseInv, OriginInv, Next, ~edited' PROVE OriginInv'
    OBVIOUS
  <1>1. RerunsTypeOK /\ VersionsBounded /\ ParentInv /\ MadeInv /\ FlowInv
    BY DEF BaseInv
  <1>2. PICK r \in DOMAIN runs : Moves(r) \/ \E n \in Nodes : Reruns(r, n) \/ NotStarted(r, n)
    BY <1>1, StepShape
  <1>3. DOMAIN runs = 1..Len(runs) /\ Len(runs) \in Nat
    BY <1>1, RunsShape
  <1>4. CASE Moves(r)
    <2>1. Touches(r)
      BY <1>1, <1>4, MoveStore
    <2>2. Allowed' = Allowed
      BY <2>1 DEF Touches, Allowed
    <2>3. ASSUME NEW q \in DOMAIN runs, runs'[q].parent # 0
          PROVE  runs'[q].from \in Allowed /\ runs'[q].from \in {runs'[runs'[q].parent].trace[k].node :
                                                k \in DOMAIN runs'[runs'[q].parent].trace}
      <3>1. runs'[q].parent = runs[q].parent /\ runs'[q].from = runs[q].from
        BY <2>1 DEF Touches
      <3>2. PICK p : p = runs[q].parent
        OBVIOUS
      <3>3. p = q - 1 /\ p \in DOMAIN runs /\ p # r
        BY <1>1, <1>3, <2>1, <2>3, <3>1, <3>2 DEF ParentInv, Touches
      <3>4. runs'[p] = runs[p]
        BY <2>1, <3>3 DEF Touches
      <3>5. runs[q].from \in Allowed /\ runs[q].from \in Executed(p)
        BY <2>3, <3>1, <3>2 DEF OriginInv
      <3>6. QED
        BY <3>1, <3>2, <3>4, <3>5 DEF Executed
    <2>4. DOMAIN runs' = DOMAIN runs
      BY <2>1 DEF Touches
    <2>5. QED
      BY <2>2, <2>3, <2>4 DEF OriginInv, Executed
  <1>5. ASSUME NEW n \in Nodes, NEW ckpt, NEW refs, Adds(r, n, ckpt, refs) PROVE OriginInv'
    <2>1. Allowed' = Allowed
      BY <1>5 DEF Adds, Allowed
    <2>2. DOMAIN runs' = 1..(r + 1) /\ r = Len(runs) /\ n \in Allowed /\ n \in Executed(r)
      BY <1>5 DEF Adds
    <2>3. ASSUME NEW q \in DOMAIN runs', runs'[q].parent # 0
          PROVE  runs'[q].from \in Allowed /\ runs'[q].from \in {runs'[runs'[q].parent].trace[k].node :
                                                k \in DOMAIN runs'[runs'[q].parent].trace}
      <3>1. CASE q = r + 1
        <4>1. runs'[q].parent = r /\ runs'[q].from = n /\ runs'[r] = runs[r]
          BY <1>5, <3>1 DEF Adds, NewRun
        <4>2. QED
          BY <2>2, <4>1 DEF Executed
      <3>2. CASE q \in DOMAIN runs
        <4>1. runs'[q] = runs[q] /\ runs[q].parent = q - 1
          BY <1>1, <1>5, <3>2 DEF Adds, ParentInv
        <4>2. PICK p : p = runs[q].parent
          OBVIOUS
        <4>3. p \in DOMAIN runs
          BY <1>3, <2>3, <3>2, <4>1, <4>2
        <4>4. runs'[p] = runs[p]
          BY <1>5, <4>3 DEF Adds
        <4>5. runs[q].from \in Allowed /\ runs[q].from \in Executed(p)
          BY <2>3, <3>2, <4>1, <4>2 DEF OriginInv
        <4>6. QED
          BY <4>1, <4>2, <4>4, <4>5 DEF Executed
      <3>3. QED
        BY <1>3, <2>2, <3>1, <3>2
    <2>4. QED
      BY <2>1, <2>3 DEF OriginInv, Executed
  <1>6. QED
    BY <1>2, <1>4, <1>5 DEF Reruns, NotStarted

\* The store only grows, so what was taken over or made stays what it is.
LEMMA MadeHeld ==
    ASSUME RerunsTypeOK, MadeInv, Stable, NEW p \in DOMAIN runs,
           NEW k \in 1..(Len(runs[p].trace) + 1), NEW start
    PROVE  Hold(artifacts', start, MadeBefore(runs[p].trace, k)) =
             Hold(artifacts, start, MadeBefore(runs[p].trace, k))
  <1>1. PICK ids : ids = MadeBefore(runs[p].trace, k)
    OBVIOUS
  <1>2. \A id \in ids : Exists(id)
    BY <1>1, MadeShape
  <1>3. \A id \in ids : artifacts'[id[1]][id[2]] = artifacts[id[1]][id[2]]
    BY <1>2 DEF Stable, Get
  <1>4. PICK store : store = artifacts
    OBVIOUS
  <1>5. PICK other : other = artifacts'
    OBVIOUS
  <1>6. \A id \in ids : other[id[1]][id[2]].slot = store[id[1]][id[2]].slot
    BY <1>3, <1>4, <1>5
  <1>7. Hold(other, start, ids) = Hold(store, start, ids)
    BY <1>6, HoldAlike
  <1>8. QED
    BY <1>1, <1>4, <1>5, <1>7

LEMMA PreserveStays ==
    ASSUME RerunsTypeOK, MadeInv, Stable, NEW p \in DOMAIN runs, runs'[p] = runs[p],
           NEW n \in Executed(p)
    PROVE  Preserve(p, n)' = Preserve(p, n)
  <1>1. PICK trace : trace = runs[p].trace
    OBVIOUS
  <1>2. PICK k : k = FirstPlace(trace, n)
    OBVIOUS
  <1>3. k \in 1..(Len(trace) + 1)
    BY <1>1, <1>2, FirstShape, TraceShape
  <1>4. Preserve(p, n) = Hold(artifacts, NoRefs, MadeBefore(trace, k))
    BY <1>1, <1>2 DEF Preserve
  <1>5. Preserve(p, n)' = Hold(artifacts', NoRefs, MadeBefore(trace, k))
    BY <1>1, <1>2 DEF Preserve
  <1>6. QED
    BY <1>1, <1>3, <1>4, <1>5, MadeHeld

LEMMA StartStays ==
    ASSUME BaseInv, OriginInv, Stable, NEW q \in DOMAIN runs, NEW run,
           run.parent = runs[q].parent, run.from = runs[q].from,
           run.ckpt.at = NoThread <=> runs[q].ckpt.at = NoThread,
           runs[q].parent # 0 => runs'[runs[q].parent] = runs[runs[q].parent]
    PROVE  StartOf(run)' = StartOf(runs[q])
  <1>1. RerunsTypeOK /\ ParentInv /\ MadeInv /\ DOMAIN runs = 1..Len(runs) /\ Len(runs) \in Nat
    BY RunsShape DEF BaseInv
  <1>2. CASE run.parent = 0 \/ run.ckpt.at = NoThread
    BY <1>2 DEF StartOf
  <1>3. CASE ~ (run.parent = 0 \/ run.ckpt.at = NoThread)
    <2>1. PICK p : p = run.parent
      OBVIOUS
    <2>2. PICK n : n = run.from
      OBVIOUS
    <2>3. p = q - 1 /\ p \in DOMAIN runs /\ runs'[p] = runs[p] /\ n \in Executed(p)
      BY <1>1, <1>3, <2>1, <2>2 DEF ParentInv, OriginInv
    <2>4. Preserve(p, n)' = Preserve(p, n)
      BY <1>1, <2>3, PreserveStays
    <2>5. StartOf(run)' = Preserve(p, n)'
      BY <1>3, <2>1, <2>2 DEF StartOf
    <2>6. StartOf(runs[q]) = Preserve(p, n)
      BY <1>3, <2>1, <2>2 DEF StartOf
    <2>7. QED
      BY <2>4, <2>5, <2>6
  <1>4. QED
    BY <1>2, <1>3

\* What the nodes before a place made depends on those nodes only.
LEMMA SameMade ==
    ASSUME NEW was, NEW is, NEW k, \A j \in 1..(k - 1) : is[j].outputs = was[j].outputs
    PROVE  MadeBefore(is, k) = MadeBefore(was, k)
  <1>1. {is[j].outputs : j \in 1..(k - 1)} = {was[j].outputs : j \in 1..(k - 1)}
    OBVIOUS
  <1>2. QED
    BY <1>1 DEF MadeBefore

LEMMA MadeNext ==
    ASSUME NEW t, NEW k \in Nat \ {0}
    PROVE  MadeBefore(t, k + 1) = MadeBefore(t, k) \cup t[k].outputs
  <1>1. 1..(k + 1 - 1) = (1..(k - 1)) \cup {k}
    OBVIOUS
  <1>2. \A x : x \in MadeBefore(t, k + 1) <=> \E j \in 1..(k + 1 - 1) : x \in t[j].outputs
    BY DEF MadeBefore
  <1>3. \A x : x \in MadeBefore(t, k) <=> \E j \in 1..(k - 1) : x \in t[j].outputs
    BY DEF MadeBefore
  <1>4. \A x : x \in MadeBefore(t, k + 1) <=> x \in MadeBefore(t, k) \/ x \in t[k].outputs
    BY <1>1, <1>2, <1>3
  <1>5. QED
    BY <1>4

LEMMA HeldStays ==
    ASSUME RerunsTypeOK, MadeInv, Stable, NEW q \in DOMAIN runs, NEW start,
           HeldWith(runs[q], artifacts, start)
    PROVE  HeldWith(runs[q], artifacts', start)
  <1>1. PICK run : run = runs[q]
    OBVIOUS
  <1>2. DOMAIN run.trace = 1..Len(run.trace) /\ Len(run.trace) \in Nat
    BY <1>1, TraceShape
  <1>3. \A k \in 1..(Len(run.trace) + 1) :
           Hold(artifacts', start, MadeBefore(run.trace, k)) = Hold(artifacts, start, MadeBefore(run.trace, k))
    BY <1>1, MadeHeld
  <1>4. HeldWith(run, artifacts, start)
    BY <1>1
  <1>5. TraceHeld(run.trace, artifacts', start)
    <2>1. \A k \in DOMAIN run.trace :
             Hold(artifacts', start, MadeBefore(run.trace, k)) = Hold(artifacts, start, MadeBefore(run.trace, k))
      BY <1>2, <1>3
    <2>2. TraceHeld(run.trace, artifacts, start)
      BY <1>4 DEF HeldWith
    <2>3. QED
      BY <2>1, <2>2 DEF TraceHeld
  <1>6. RefsHeld(run, artifacts', start)
    <2>1. Hold(artifacts', start, MadeBefore(run.trace, Len(run.trace) + 1)) =
             Hold(artifacts, start, MadeBefore(run.trace, Len(run.trace) + 1))
      BY <1>2, <1>3
    <2>2. RefsHeld(run, artifacts, start)
      BY <1>4 DEF HeldWith
    <2>3. QED
      BY <2>1, <2>2 DEF RefsHeld
  <1>7. HeldWith(run, artifacts', start)
    BY <1>4, <1>5, <1>6 DEF HeldWith
  <1>8. QED
    BY <1>1, <1>7

\* A step that makes nothing, or nothing that is recorded.
LEMMA HeldKept ==
    ASSUME NEW run, NEW new, NEW store, NEW start, HeldWith(run, store, start),
           new.trace = run.trace,
           new.status = "running" => /\ run.status = "running" /\ new.refs = run.refs
                                     /\ \A slot \in Slots : Behind(run, slot) => Behind(new, slot),
           new.busy # "idle" => ~Recorded(new.busy)
    PROVE  HeldWith(new, store, start)
  <1>1. TraceHeld(new.trace, store, start)
    BY DEF HeldWith
  <1>2. RefsHeld(new, store, start)
    BY DEF HeldWith, RefsHeld, Fits
  <1>3. QED
    BY <1>1, <1>2 DEF HeldWith

\* A trace with one more node run.
LEMMA TraceGrown ==
    ASSUME NEW was \in Seq(NodeRun), NEW is, NEW m, m = Len(was), NEW store, NEW start,
           TraceHeld(was, store, start),
           DOMAIN is = 1..(m + 1), \A k \in DOMAIN was : is[k] = was[k], is[m + 1].outputs = {},
           \A slot \in Slots :
              Fits(is[m + 1].inputs[slot], Hold(store, start, MadeBefore(was, m + 1))[slot],
                   Again(is, m + 1, slot) \/ Twice(is, m + 1, slot))
    PROVE  /\ TraceHeld(is, store, start)
           /\ MadeBefore(is, m + 1 + 1) = MadeBefore(was, m + 1)
           /\ \A slot : Twice(was, m, slot) => Twice(is, m + 1, slot)
  <1>1. m \in Nat /\ DOMAIN was = 1..m
    BY LenProperties
  <1>2. \A k \in 1..(m + 1) : MadeBefore(is, k) = MadeBefore(was, k)
    <2>1. ASSUME NEW k \in 1..(m + 1) PROVE MadeBefore(is, k) = MadeBefore(was, k)
      <3>1. \A j \in 1..(k - 1) : is[j].outputs = was[j].outputs
        BY <1>1
      <3>2. QED
        BY <3>1, SameMade
    <2>2. QED
      BY <2>1
  <1>3. MadeBefore(is, m + 1 + 1) = MadeBefore(was, m + 1)
    <2>1. m + 1 \in Nat \ {0}
      BY <1>1
    <2>2. MadeBefore(is, m + 1 + 1) = MadeBefore(is, m + 1) \cup is[m + 1].outputs
      BY <2>1, MadeNext
    <2>3. MadeBefore(is, m + 1) = MadeBefore(was, m + 1)
      BY <1>1, <1>2
    <2>4. QED
      BY <2>2, <2>3
  <1>4. ASSUME NEW k \in DOMAIN is, NEW slot \in Slots
        PROVE  Fits(is[k].inputs[slot], Hold(store, start, MadeBefore(is, k))[slot],
                    Again(is, k, slot) \/ Twice(is, k, slot))
    <2>1. CASE k = m + 1
      <3>1. MadeBefore(is, k) = MadeBefore(was, m + 1)
        BY <1>1, <1>2, <2>1
      <3>2. QED
        BY <2>1, <3>1
    <2>2. CASE k # m + 1
      <3>1. k \in DOMAIN was /\ MadeBefore(is, k) = MadeBefore(was, k)
        BY <1>1, <1>2, <2>2
      <3>2. \A j \in 1..k : is[j] = was[j]
        BY <1>1, <3>1
      <3>3. Again(was, k, slot) => Again(is, k, slot)
        BY <1>1, <3>1, <3>2 DEF Again
      <3>4. Twice(was, k, slot) => Twice(is, k, slot)
        <4>1. SUFFICES ASSUME Twice(was, k, slot) PROVE Twice(is, k, slot)
          OBVIOUS
        <4>2. PICK j \in 1..(k - 1) : /\ was[j].node = "self_refine" /\ was[j + 1].node = "self_refine"
                                      /\ was[j].outputs # {}
          BY <4>1 DEF Twice
        <4>3. is[j] = was[j] /\ is[j + 1] = was[j + 1]
          BY <1>1, <3>1, <3>2
        <4>4. QED
          BY <4>1, <4>2, <4>3 DEF Twice
      <3>5. Fits(was[k].inputs[slot], Hold(store, start, MadeBefore(was, k))[slot],
                 Again(was, k, slot) \/ Twice(was, k, slot))
        BY <3>1 DEF TraceHeld
      <3>6. QED
        BY <3>1, <3>3, <3>4, <3>5 DEF Fits
    <2>3. QED
      BY <2>1, <2>2
  <1>5. ASSUME NEW slot, Twice(was, m, slot) PROVE Twice(is, m + 1, slot)
    <2>1. \A j \in 1..(m - 1) : is[j] = was[j] /\ is[j + 1] = was[j + 1] /\ j \in 1..(m + 1 - 1)
      BY <1>1
    <2>2. QED
      BY <1>5, <2>1 DEF Twice
  <1>6. QED
    BY <1>3, <1>4, <1>5 DEF TraceHeld

\* A trace whose last node run has ended.
LEMMA TraceEnded ==
    ASSUME RerunsTypeOK, NEW r \in DOMAIN runs, NEW store, NEW start, NEW ids,
           TraceHeld(runs[r].trace, store, start), EndedWith(r, ids)
    PROVE  LET was == runs[r].trace
               is == runs'[r].trace
               m == Len(was)
           IN  /\ TraceHeld(is, store, start)
               /\ Len(is) = m /\ m \in Nat \ {0} /\ is[m].node = was[m].node /\ is[m].outputs = ids
               /\ MadeBefore(is, m + 1) = MadeBefore(was, m + 1) \cup ids
               /\ \A slot : Twice(was, m, slot) => Twice(is, m, slot)
  <1>a. PICK was : was = runs[r].trace
    OBVIOUS
  <1>b. PICK is : is = runs'[r].trace
    OBVIOUS
  <1>c. PICK m : m = Len(was)
    OBVIOUS
  <1>1. m \in Nat \ {0} /\ DOMAIN was = 1..m /\ was[m].outputs = {} /\ m \in 1..m
    BY <1>a, <1>c, TraceShape DEF EndedWith
  <1>2. /\ Len(is) = m /\ DOMAIN is = 1..m
        /\ \A k \in 1..m : /\ is[k].inputs = was[k].inputs /\ is[k].node = was[k].node
                           /\ k # m => is[k].outputs = was[k].outputs
        /\ is[m].outputs = ids
    BY <1>1, <1>a, <1>b, <1>c DEF EndedWith
  <1>3. \A k \in 1..m : MadeBefore(is, k) = MadeBefore(was, k)
    <2>1. ASSUME NEW k \in 1..m PROVE MadeBefore(is, k) = MadeBefore(was, k)
      <3>1. \A j \in 1..(k - 1) : is[j].outputs = was[j].outputs
        BY <1>1, <1>2
      <3>2. QED
        BY <3>1, SameMade
    <2>2. QED
      BY <2>1
  <1>4. MadeBefore(is, m + 1) = MadeBefore(was, m + 1) \cup ids
    <2>1. MadeBefore(is, m + 1) = MadeBefore(is, m) \cup is[m].outputs
      BY <1>1, MadeNext
    <2>2. MadeBefore(was, m + 1) = MadeBefore(was, m) \cup was[m].outputs
      BY <1>1, MadeNext
    <2>3. QED
      BY <1>1, <1>2, <1>3, <2>1, <2>2
  <1>5. ASSUME NEW k \in 1..m, NEW slot, Twice(was, k, slot) PROVE Twice(is, k, slot)
    <2>1. PICK j \in 1..(k - 1) : /\ was[j].node = "self_refine" /\ was[j + 1].node = "self_refine"
                                  /\ was[j].outputs # {}
      BY <1>5 DEF Twice
    <2>2. j \in 1..m /\ j + 1 \in 1..m /\ j # m
      BY <1>1, <2>1
    <2>3. is[j].node = "self_refine" /\ is[j + 1].node = "self_refine" /\ is[j].outputs # {}
      BY <1>2, <2>1, <2>2
    <2>4. QED
      BY <1>5, <2>1, <2>3 DEF Twice
  <1>6. ASSUME NEW k \in DOMAIN is, NEW slot \in Slots
        PROVE  Fits(is[k].inputs[slot], Hold(store, start, MadeBefore(is, k))[slot],
                    Again(is, k, slot) \/ Twice(is, k, slot))
    <2>1. k \in 1..m /\ MadeBefore(is, k) = MadeBefore(was, k) /\ is[k].inputs = was[k].inputs
      BY <1>2, <1>3
    <2>2. Again(was, k, slot) => Again(is, k, slot)
      <3>1. SUFFICES ASSUME k > 1, was[k - 1].node = was[k].node PROVE is[k - 1].node = is[k].node
        BY <1>2, <2>1 DEF Again
      <3>2. k - 1 \in 1..m
        BY <1>1, <2>1, <3>1
      <3>3. QED
        BY <1>2, <2>1, <3>1, <3>2
    <2>3. Fits(was[k].inputs[slot], Hold(store, start, MadeBefore(was, k))[slot],
               Again(was, k, slot) \/ Twice(was, k, slot))
      BY <1>1, <1>a, <2>1 DEF TraceHeld
    <2>4. QED
      BY <1>5, <2>1, <2>2, <2>3 DEF Fits
  <1>7. \A slot : Twice(was, m, slot) => Twice(is, m, slot)
    BY <1>1, <1>5
  <1>8. TraceHeld(is, store, start)
    BY <1>6 DEF TraceHeld
  <1>9. QED
    BY <1>1, <1>2, <1>4, <1>7, <1>8, <1>a, <1>b, <1>c

\* After "finalize" the graph ends.
LEMMA BusyBefore ==
    ASSUME RerunsTypeOK, FlowInv, NEW r \in DOMAIN runs, runs[r].busy \in Nodes
    PROVE  /\ runs[r].ckpt.at # "finalize" /\ runs[r].ckpt.at # NoThread
           /\ runs[r].busy = NextNode(plan, runs[r].ckpt) /\ runs[r].status = "running"
  <1>1. /\ runs[r].busy = NextNode(plan, runs[r].ckpt) /\ runs[r].ckpt.at # NoThread
        /\ runs[r].status = "running"
    BY DEF FlowInv, FlowOf, BusyOf, Nodes
  <1>2. runs[r].ckpt.at = "finalize" => NextNode(plan, runs[r].ckpt) = End
    BY DEF NextNode, Entry
  <1>3. QED
    BY <1>1, <1>2 DEF Nodes, End

\* What is held while a node runs: it falls behind only in what that node, executed
\* again, makes for certain.
LEMMA BusyHolds ==
    ASSUME RerunsTypeOK, FlowInv, NEW r \in DOMAIN runs, runs[r].busy \in Nodes,
           NEW store, NEW start, HeldWith(runs[r], store, start), NEW slot \in Slots,
           NEW m, m = Len(runs[r].trace)
    PROVE  Fits(runs[r].refs[slot], Hold(store, start, MadeBefore(runs[r].trace, m + 1))[slot],
                \/ Twice(runs[r].trace, m, slot)
                \/ /\ Recorded(runs[r].busy) /\ m # 0
                   /\ slot \in Must(runs[r].busy, runs[r].ckpt.vals))
  <1>1. PICK run : run = runs[r]
    OBVIOUS
  <1>2. PICK n : n = run.busy
    OBVIOUS
  <1>3. n = NextNode(plan, run.ckpt) /\ run.status = "running" /\ n # "idle"
    BY <1>1, <1>2, BusyBefore DEF Nodes
  <1>4. Fits(run.refs[slot], Hold(store, start, MadeBefore(run.trace, m + 1))[slot], Behind(run, slot))
    BY <1>1, <1>3 DEF HeldWith, RefsHeld
  <1>5. \A k \in DOMAIN run.trace : Recorded(run.trace[k].node)
    BY <1>1 DEF FlowInv, FlowOf, TraceOf
  <1>6. DOMAIN run.trace = 1..m /\ m \in Nat
    BY <1>1, TraceShape
  <1>7. Recorded(n) => run.trace[m].outputs = {}
    BY <1>1, <1>2, <1>3 DEF FlowInv, FlowOf, BusyOf
  <1>8. SUFFICES ASSUME Behind(run, slot), ~Twice(run.trace, m, slot)
                 PROVE  Recorded(n) /\ m # 0 /\ slot \in Must(n, run.ckpt.vals)
    BY <1>1, <1>2, <1>4 DEF Fits
  <1>9. /\ m # 0 /\ run.trace[m].node = n
        /\ slot \in Must(n, run.ckpt.vals) \/ run.trace[m].outputs # {}
    BY <1>1, <1>3, <1>8 DEF Behind
  <1>10. Recorded(n)
    BY <1>5, <1>6, <1>9
  <1>11. QED
    BY <1>7, <1>9, <1>10

\* What is held after a node has recorded what it made, and what it has not made
\* is held as before.
LEMMA LeftHolds ==
    ASSUME RerunsTypeOK, MadeInv, FlowInv, NEW r \in DOMAIN runs, NEW v, NEW out, Leaves(r, v, out),
           NEW start, NEW slot \in Slots
    PROVE  LET was == MadeBefore(runs[r].trace, Len(runs[r].trace) + 1)
               is == Hold(artifacts', start, was \cup NewIds(r, out))[slot]
               new == Hold(artifacts', runs[r].refs, NewIds(r, out))[slot]
           IN  \/ /\ \A id \in NewIds(r, out) : Get(id)'.slot # slot
                  /\ is = Hold(artifacts', start, was)[slot] /\ new = runs[r].refs[slot]
               \/ /\ \E id \in NewIds(r, out) : Get(id)'.slot = slot
                  /\ is = new /\ new # NoArtifact
  <1>1. PICK store : store = artifacts'
    OBVIOUS
  <1>2. PICK ids : ids = NewIds(r, out)
    OBVIOUS
  <1>3. PICK refs : refs = runs[r].refs
    OBVIOUS
  <1>4. PICK S : S = MadeBefore(runs[r].trace, Len(runs[r].trace) + 1)
    OBVIOUS
  <1>5. PICK x \in Nat : x = Len(artifacts[r])
    BY LeaveIds, StoreShape
  <1>6. PICK y \in Nat : y = Len(artifacts'[r])
    BY LeaveIds
  <1>7. x <= y
    <2>1. Made(r, out, artifacts'[r]) /\ Len(out) \in Nat
      BY LenProperties DEF Leaves, Grows
    <2>2. y = x + Len(out)
      BY <1>5, <1>6, <2>1 DEF Made
    <2>3. QED
      BY <1>5, <1>6, <2>1, <2>2
  <1>8. S \in SUBSET ({r} \X (1..x))
    <2>1. Len(runs[r].trace) + 1 \in 1..(Len(runs[r].trace) + 1)
      BY TraceShape
    <2>2. MadeBefore(runs[r].trace, Len(runs[r].trace) + 1) \in SUBSET ({r} \X (1..Len(artifacts[r])))
      BY <2>1, MadeShape
    <2>3. QED
      BY <1>4, <1>5, <2>2
  <1>9. \A i \in S : i[2] \in 1..x
    BY <1>8
  <1>10. S \in SUBSET ({r} \X (1..y)) /\ ids \in SUBSET ({r} \X (1..y))
    BY <1>2, <1>5, <1>6, <1>7, <1>8, LeaveIds
  <1>11. \A t \in ids : t[2] \in Nat /\ t[2] > x
    <2>1. Len(out) \in Nat
      BY LenProperties DEF Leaves
    <2>2. QED
      BY <1>2, <1>5, <2>1 DEF NewIds
  <1>12. \A i \in S, t \in ids : i[2] < t[2]
    BY <1>9, <1>11
  <1>13. Follows(r, y, S, ids)
    BY <1>10, <1>12 DEF Follows
  <1>14. Hold(store, Hold(store, start, S), ids) = Hold(store, start, S \cup ids)
    BY <1>13, HoldTwice
  <1>15. PICK is : is = Hold(store, start, S \cup ids)[slot]
    OBVIOUS
  <1>16. PICK new : new = Hold(store, refs, ids)[slot]
    OBVIOUS
  <1>17. \A id : Get(id)' = store[id[1]][id[2]]
    BY <1>1 DEF Get
  <1>18. CASE Placed(store, ids, slot) = {}
    <2>1. new = refs[slot] /\ is = Hold(store, start, S)[slot]
      <3>1. Hold(store, refs, ids)[slot] = refs[slot]
        BY <1>18, HoldIs
      <3>2. Hold(store, Hold(store, start, S), ids)[slot] = Hold(store, start, S)[slot]
        BY <1>18, HoldIs
      <3>3. QED
        BY <1>14, <1>15, <1>16, <3>1, <3>2
    <2>2. \A id \in ids : Get(id)'.slot # slot
      BY <1>17, <1>18 DEF Placed
    <2>3. QED
      BY <1>1, <1>2, <1>3, <1>4, <1>15, <1>16, <2>1, <2>2
  <1>19. CASE Placed(store, ids, slot) # {}
    <2>1. /\ new = LastOf(Placed(store, ids, slot)) /\ is = LastOf(Placed(store, ids, slot))
          /\ new \in Placed(store, ids, slot)
      <3>1. Hold(store, refs, ids)[slot] = LastOf(Placed(store, ids, slot))
        BY <1>19, HoldIs
      <3>2. Hold(store, Hold(store, start, S), ids)[slot] = LastOf(Placed(store, ids, slot))
        BY <1>19, HoldIs
      <3>3. Hold(store, refs, ids)[slot] \in Placed(store, ids, slot)
        BY <1>10, <1>19, HoldShape
      <3>4. QED
        BY <1>14, <1>15, <1>16, <3>1, <3>2, <3>3
    <2>2. new \in ids /\ Get(new)'.slot = slot
      BY <1>17, <2>1 DEF Placed
    <2>3. new # NoArtifact
      BY <1>2, <2>2, LeaveMakes
    <2>4. QED
      BY <1>1, <1>2, <1>3, <1>4, <1>15, <1>16, <2>1, <2>2, <2>3
  <1>20. QED
    BY <1>18, <1>19

\* What a node that records its end has made.
LEMMA RecordMakes ==
    ASSUME RerunsTypeOK, NEW r \in DOMAIN runs, NEW v, NEW out, Records(r, v, out),
           Recorded(runs[r].busy), NEW must, must = Must(runs[r].busy, runs[r].ckpt.vals)
    PROVE  /\ \A slot \in must : \E id \in NewIds(r, out) : Get(id)'.slot = slot
           /\ \A id \in NewIds(r, out) :
                 Get(id)'.slot \in must \/ (runs[r].busy = "self_refine" /\ Get(id)'.slot \in SectionSlots)
  <1>1. PICK n : n = runs[r].busy
    OBVIOUS
  <1>2. PICK before : before = runs[r].ckpt.vals
    OBVIOUS
  <1>3. before \in GraphState
    BY <1>2, TraceShape DEF Checkpoint
  <1>4. n \in Nodes /\ Leaves(r, v, out)
    BY <1>1 DEF Records, Leaves
  <1>5. PICK revised \in Revisions : out = Outputs(r, n, v, revised)
    BY <1>1 DEF Records
  <1>6. v \in NodeOutcomes(plan, n, before)
    BY <1>1, <1>2 DEF Records
  <1>7. /\ \A slot \in must : \E k \in 1..Len(out) : out[k].slot = slot
        /\ \A k \in 1..Len(out) : out[k].slot \in must \/ (n = "self_refine" /\ out[k].slot \in SectionSlots)
    BY <1>1, <1>2, <1>3, <1>4, <1>5, <1>6, OutputsMade
  <1>8. r \in RunIds /\ Grows(r, out) /\ out \in Seq(Wants)
    BY <1>4, RunsShape DEF Leaves
  <1>9. ASSUME NEW k \in 1..Len(out)
        PROVE  \E id \in NewIds(r, out) : Get(id)'.slot = out[k].slot
    <2>1. PICK id : id = <<r, Len(artifacts[r]) + k>>
      OBVIOUS
    <2>2. id \in NewIds(r, out)
      BY <2>1 DEF NewIds
    <2>3. PICK j \in 1..Len(out) : id = <<r, Len(artifacts[r]) + j>> /\ Get(id)'.slot = out[j].slot
      BY <1>4, <2>2, LeaveMakes
    <2>4. Len(artifacts[r]) \in Nat
      BY <1>8, StoreShape
    <2>5. j = k
      BY <2>1, <2>3, <2>4
    <2>6. QED
      BY <2>1, <2>2, <2>3, <2>5
  <1>11. ASSUME NEW slot \in must PROVE \E id \in NewIds(r, out) : Get(id)'.slot = slot
    BY <1>7, <1>9
  <1>12. ASSUME NEW id \in NewIds(r, out)
         PROVE  \/ Get(id)'.slot \in must
                \/ runs[r].busy = "self_refine" /\ Get(id)'.slot \in SectionSlots
    <2>1. PICK k \in 1..Len(out) : id = <<r, Len(artifacts[r]) + k>> /\ Get(id)'.slot = out[k].slot
      BY <1>4, LeaveMakes
    <2>2. PICK made : made = Get(id)'.slot
      OBVIOUS
    <2>3. made \in must \/ (n = "self_refine" /\ made \in SectionSlots)
      BY <1>7, <2>1, <2>2
    <2>4. QED
      BY <1>1, <2>2, <2>3
  <1>13. QED
    BY <1>11, <1>12

LEMMA MustMakes ==
    ASSUME NEW n \in Nodes, NEW v, NEW slot \in Must(n, v)
    PROVE  slot \in Makes(n)
  BY DEF Must, Makes, SectionSlots, Nodes

LEMMA HeldStart ==
    ASSUME RerunsTypeOK, FlowInv, NEW r \in DOMAIN runs, Starts(r), NEW start, NEW store,
           HeldWith(runs[r], store, start)
    PROVE  HeldWith(runs'[r], store, start)
  <1>1. PICK run : run = runs[r]
    OBVIOUS
  <1>2. PICK new : new = runs'[r]
    OBVIOUS
  <1>3. PICK n : n = Upcoming(r)
    OBVIOUS
  <1>4. /\ new.refs = run.refs /\ new.ckpt = run.ckpt /\ run.status = "running"
        /\ n \in Nodes /\ n = NextNode(plan, run.ckpt)
    BY <1>1, <1>2, <1>3 DEF Starts, Upcoming
  <1>5. CASE Grown(r, Begun(n, run.refs))
    <2>1. PICK was : was = run.trace
      OBVIOUS
    <2>2. PICK is : is = new.trace
      OBVIOUS
    <2>3. PICK m : m = Len(was)
      OBVIOUS
    <2>4. was \in Seq(NodeRun) /\ m \in Nat /\ DOMAIN was = 1..m
      BY <1>1, <2>1, <2>3, TraceShape
    <2>5. /\ Len(is) = m + 1 /\ DOMAIN is = 1..(m + 1) /\ \A k \in DOMAIN was : is[k] = was[k]
          /\ is[m + 1].node = n /\ is[m + 1].inputs = run.refs /\ is[m + 1].outputs = {}
      BY <1>1, <1>2, <1>5, <2>1, <2>2, <2>3 DEF Grown, Begun
    <2>6. ASSUME NEW slot \in Slots, Behind(run, slot)
          PROVE  (Again(is, m + 1, slot) \/ Twice(is, m + 1, slot)) /\ Behind(new, slot)
      <3>1. /\ \/ Twice(was, m, slot)
               \/ /\ m # 0 /\ was[m].node = n
                  /\ \/ slot \in Must(n, run.ckpt.vals)
                     \/ slot \in SectionSlots /\ n = "self_refine" /\ was[m].outputs # {}
        BY <1>4, <2>1, <2>3, <2>6 DEF Behind
      <3>2. ASSUME Twice(is, m + 1, slot) PROVE Behind(new, slot)
        BY <2>2, <2>5, <3>2 DEF Behind
      <3>3. CASE Twice(was, m, slot)
        <4>1. PICK j \in 1..(m - 1) : /\ was[j].node = "self_refine" /\ was[j + 1].node = "self_refine"
                                      /\ was[j].outputs # {}
          BY <3>3 DEF Twice
        <4>2. j \in 1..(m + 1 - 1) /\ is[j] = was[j] /\ is[j + 1] = was[j + 1]
          BY <2>4, <2>5
        <4>3. Twice(is, m + 1, slot)
          <5>1. PICK q : q = m + 1
            OBVIOUS
          <5>2. slot \in SectionSlots
            BY <3>3 DEF Twice
          <5>3. /\ j \in 1..(q - 1) /\ is[j].node = "self_refine" /\ is[j + 1].node = "self_refine"
                /\ is[j].outputs # {}
            BY <2>4, <4>1, <4>2, <5>1
          <5>4. Twice(is, q, slot)
            BY <5>2, <5>3 DEF Twice
          <5>5. QED
            BY <5>1, <5>4
        <4>4. QED
          BY <3>2, <4>3
      <3>4. CASE m # 0 /\ was[m].node = n /\ slot \in Must(n, run.ckpt.vals)
        <4>1. slot \in Makes(n)
          BY <1>4, <3>4, MustMakes
        <4>2. m + 1 > 1 /\ m + 1 - 1 = m /\ is[m] = was[m] /\ m + 1 # 0
          BY <2>4, <2>5, <3>4
        <4>3. Again(is, m + 1, slot)
          <5>1. PICK q : q = m + 1
            OBVIOUS
          <5>2. q > 1 /\ q - 1 = m /\ is[m].node = n /\ is[q].node = n
            BY <2>4, <2>5, <3>4, <4>2, <5>1
          <5>3. Again(is, q, slot)
            BY <4>1, <5>2 DEF Again
          <5>4. QED
            BY <5>1, <5>3
        <4>4. Behind(new, slot)
          BY <1>4, <2>2, <2>5, <3>4, <4>2 DEF Behind
        <4>5. QED
          BY <4>3, <4>4
      <3>5. CASE /\ m # 0 /\ was[m].node = n
                 /\ slot \in SectionSlots /\ n = "self_refine" /\ was[m].outputs # {}
        <4>1. m \in 1..(m + 1 - 1) /\ is[m] = was[m]
          BY <2>4, <2>5, <3>5
        <4>2. Twice(is, m + 1, slot)
          BY <2>5, <3>5, <4>1 DEF Twice
        <4>3. QED
          BY <3>2, <4>2
      <3>6. QED
        BY <3>1, <3>3, <3>4, <3>5
    <2>7. \A slot \in Slots :
             Fits(run.refs[slot], Hold(store, start, MadeBefore(was, m + 1))[slot], Behind(run, slot))
      BY <1>1, <1>4, <2>1, <2>3 DEF HeldWith, RefsHeld
    <2>8. \A slot \in Slots :
             Fits(is[m + 1].inputs[slot], Hold(store, start, MadeBefore(was, m + 1))[slot],
                  Again(is, m + 1, slot) \/ Twice(is, m + 1, slot))
      BY <2>5, <2>6, <2>7 DEF Fits
    <2>9. TraceHeld(was, store, start)
      BY <1>1, <2>1 DEF HeldWith
    <2>10. TraceHeld(is, store, start) /\ MadeBefore(is, m + 1 + 1) = MadeBefore(was, m + 1)
      BY <2>3, <2>4, <2>5, <2>8, <2>9, TraceGrown
    <2>11. RefsHeld(new, store, start)
      <3>1. MadeBefore(new.trace, Len(new.trace) + 1) = MadeBefore(was, m + 1)
        BY <2>2, <2>5, <2>10
      <3>2. QED
        BY <1>4, <2>6, <2>7, <3>1 DEF RefsHeld, Fits
    <2>12. HeldWith(new, store, start)
      BY <1>4, <2>2, <2>5, <2>10, <2>11 DEF HeldWith
    <2>13. QED
      BY <1>2, <2>12
  <1>6. CASE ~Grown(r, Begun(n, run.refs))
    <2>1. new.trace = run.trace
      BY <1>1, <1>2, <1>3, <1>6, StartTrace DEF Kept
    <2>2. new.busy # "idle" => ~Recorded(new.busy)
      <3>1. SUFFICES ASSUME new.busy # "idle", Recorded(new.busy) PROVE FALSE
        OBVIOUS
      <3>2. new.busy = n /\ new.trace = Append(run.trace, Begun(n, run.refs))
        BY <1>1, <1>2, <1>3, <3>1 DEF Starts
      <3>3. PICK e : e = Begun(n, run.refs)
        OBVIOUS
      <3>4. e \in NodeRun
        BY <1>1, <1>4, <3>3, TraceShape DEF NodeRun, Begun
      <3>5. Len(new.trace) = Len(run.trace) + 1 /\ Len(run.trace) \in Nat
        BY <1>1, <3>2, <3>3, <3>4, TraceShape, AppendProperties
      <3>6. QED
        BY <2>1, <3>5
    <2>3. \A slot \in Slots : Behind(run, slot) => Behind(new, slot)
      BY <1>4, <2>1 DEF Behind
    <2>4. HeldWith(run, store, start)
      BY <1>1
    <2>5. HeldWith(new, store, start)
      BY <1>4, <2>1, <2>2, <2>3, <2>4, HeldKept
    <2>6. QED
      BY <1>2, <2>5
  <1>7. QED
    BY <1>5, <1>6

\* The node has recorded its end, or failed.
LEMMA HeldLeave ==
    ASSUME RerunsTypeOK, MadeInv, FlowInv, NEW r \in DOMAIN runs, NEW v, NEW out,
           Finishes(r, v, out) \/ Repeats(r, v, out) \/ Fails(r, v, out), NEW start,
           HeldWith(runs[r], artifacts', start)
    PROVE  HeldWith(runs'[r], artifacts', start)
  <1>1. PICK run : run = runs[r]
    OBVIOUS
  <1>2. PICK new : new = runs'[r]
    OBVIOUS
  <1>3. PICK n : n = run.busy
    OBVIOUS
  <1>4. PICK store : store = artifacts'
    OBVIOUS
  <1>5. PICK ids : ids = NewIds(r, out)
    OBVIOUS
  <1>6. PICK was : was = run.trace
    OBVIOUS
  <1>7. PICK is : is = new.trace
    OBVIOUS
  <1>8. PICK m : m = Len(was)
    OBVIOUS
  <1>9. Leaves(r, v, out) /\ n \in Nodes /\ new.busy = "idle" /\ HeldWith(run, store, start)
    BY <1>1, <1>2, <1>3, <1>4 DEF Finishes, Repeats, Records, Fails, Breaks, Leaves
  <1>10. n = NextNode(plan, run.ckpt) /\ run.status = "running"
    BY <1>1, <1>3, <1>9, BusyBefore DEF Leaves
  <1>11. /\ Recorded(n) => EndedWith(r, ids)
         /\ ~Recorded(n) => new.trace = run.trace
    BY <1>1, <1>2, <1>3, <1>5, LeaveTrace DEF Finishes, Repeats, Kept
  <1>12. ASSUME NEW slot \in Slots
         PROVE  Fits(run.refs[slot], Hold(store, start, MadeBefore(was, m + 1))[slot],
                     Twice(was, m, slot) \/ (Recorded(n) /\ slot \in Must(n, run.ckpt.vals)))
    <2>1. Fits(run.refs[slot], Hold(store, start, MadeBefore(was, m + 1))[slot],
               \/ Twice(was, m, slot)
               \/ Recorded(n) /\ m # 0 /\ slot \in Must(n, run.ckpt.vals))
      BY <1>1, <1>3, <1>4, <1>6, <1>8, <1>9, BusyHolds DEF Leaves
    <2>2. QED
      BY <2>1 DEF Fits
  <1>13. CASE Recorded(n)
    <2>1. /\ TraceHeld(is, store, start)
          /\ Len(is) = m /\ m \in Nat \ {0} /\ is[m].node = was[m].node /\ is[m].outputs = ids
          /\ MadeBefore(is, m + 1) = MadeBefore(was, m + 1) \cup ids
          /\ \A slot : Twice(was, m, slot) => Twice(is, m, slot)
      <3>1. TraceHeld(runs[r].trace, store, start)
        BY <1>1, <1>9 DEF HeldWith
      <3>2. was = runs[r].trace /\ is = runs'[r].trace /\ EndedWith(r, ids)
        BY <1>1, <1>2, <1>6, <1>7, <1>11, <1>13
      <3>3. QED
        BY <1>8, <3>1, <3>2, TraceEnded
    <2>2. was[m].node = n
      BY <1>1, <1>3, <1>6, <1>8, <1>11, <1>13 DEF EndedWith
    <2>3. ASSUME NEW slot \in Slots, new.status = "running"
          PROVE  Fits(new.refs[slot], Hold(store, start, MadeBefore(is, m + 1))[slot], Behind(new, slot))
      <3>1. Finishes(r, v, out) \/ Repeats(r, v, out)
        BY <1>2, <2>3 DEF Fails
      <3>2. Records(r, v, out)
        BY <3>1 DEF Finishes, Repeats
      <3>3. PICK must : must = Must(n, run.ckpt.vals)
        OBVIOUS
      <3>4. /\ slot \in must => \E id \in ids : Get(id)'.slot = slot
            /\ \A id \in ids : Get(id)'.slot \in must \/ (n = "self_refine" /\ Get(id)'.slot \in SectionSlots)
        BY <1>1, <1>3, <1>5, <1>13, <3>2, <3>3, RecordMakes
      <3>5. Twice(was, m, slot) => Behind(new, slot)
        BY <1>7, <2>1 DEF Behind
      <3>6. PICK after : after = Hold(store, start, MadeBefore(is, m + 1))[slot]
        OBVIOUS
      <3>7. PICK before : before = Hold(store, start, MadeBefore(was, m + 1))[slot]
        OBVIOUS
      <3>8. PICK held : held = Hold(store, run.refs, ids)[slot]
        OBVIOUS
      <3>9. \/ /\ \A id \in ids : Get(id)'.slot # slot
               /\ after = before /\ held = run.refs[slot]
            \/ /\ \E id \in ids : Get(id)'.slot = slot
               /\ after = held /\ held # NoArtifact
        <4>1. MadeBefore(is, m + 1) = MadeBefore(runs[r].trace, m + 1) \cup NewIds(r, out)
          BY <1>1, <1>5, <1>6, <2>1
        <4>2. m = Len(runs[r].trace)
          BY <1>1, <1>6, <1>8
        <4>3. PICK old : old = MadeBefore(runs[r].trace, Len(runs[r].trace) + 1)
          OBVIOUS
        <4>4. \/ /\ \A id \in NewIds(r, out) : Get(id)'.slot # slot
                 /\ Hold(artifacts', start, old \cup NewIds(r, out))[slot] = Hold(artifacts', start, old)[slot]
                 /\ Hold(artifacts', runs[r].refs, NewIds(r, out))[slot] = runs[r].refs[slot]
              \/ /\ \E id \in NewIds(r, out) : Get(id)'.slot = slot
                 /\ Hold(artifacts', start, old \cup NewIds(r, out))[slot] =
                      Hold(artifacts', runs[r].refs, NewIds(r, out))[slot]
                 /\ Hold(artifacts', runs[r].refs, NewIds(r, out))[slot] # NoArtifact
          BY <1>9, <4>3, LeftHolds
        <4>5. /\ after = Hold(artifacts', start, old \cup NewIds(r, out))[slot]
              /\ before = Hold(artifacts', start, old)[slot]
              /\ held = Hold(artifacts', runs[r].refs, NewIds(r, out))[slot]
              /\ run.refs[slot] = runs[r].refs[slot]
          BY <1>1, <1>4, <1>5, <1>6, <3>6, <3>7, <3>8, <4>1, <4>2, <4>3
        <4>6. QED
          BY <1>5, <4>4, <4>5
      <3>10. CASE \A id \in ids : Get(id)'.slot # slot
        <4>1. after = before /\ slot \notin must
          BY <3>4, <3>9, <3>10
        <4>2. new.refs[slot] = run.refs[slot]
          <5>1. CASE Finishes(r, v, out)
            <6>1. new.refs = Hold(store, run.refs, ids)
              BY <1>1, <1>2, <1>4, <1>5, <5>1 DEF Finishes
            <6>2. QED
              BY <3>8, <3>9, <3>10, <6>1
          <5>2. CASE Repeats(r, v, out)
            BY <1>1, <1>2, <5>2 DEF Repeats
          <5>3. QED
            BY <3>1, <5>1, <5>2
        <4>3. Fits(run.refs[slot], before, Twice(was, m, slot))
          BY <1>12, <3>3, <3>7, <4>1 DEF Fits
        <4>4. QED
          BY <3>5, <3>6, <4>1, <4>2, <4>3 DEF Fits
      <3>11. CASE \E id \in ids : Get(id)'.slot = slot
        <4>1. after = held /\ held # NoArtifact
          BY <3>9, <3>11
        <4>2. CASE Finishes(r, v, out)
          <5>1. new.refs = Hold(store, run.refs, ids)
            BY <1>1, <1>2, <1>4, <1>5, <4>2 DEF Finishes
          <5>2. QED
            BY <3>6, <3>8, <4>1, <5>1 DEF Fits
        <4>3. CASE Repeats(r, v, out)
          <5>1. NextNode(plan, new.ckpt) = n /\ new.ckpt.vals = run.ckpt.vals
            BY <1>1, <1>2, <1>10, <4>3 DEF Repeats
          <5>2. slot \in must \/ (n = "self_refine" /\ slot \in SectionSlots)
            BY <3>4, <3>11
          <5>3. ids # {}
            BY <3>11
          <5>4. Behind(new, slot)
            BY <1>7, <2>1, <2>2, <3>3, <5>1, <5>2, <5>3 DEF Behind
          <5>5. QED
            BY <3>6, <4>1, <5>4 DEF Fits
        <4>4. QED
          BY <3>1, <4>2, <4>3
      <3>12. QED
        BY <3>10, <3>11
    <2>4. RefsHeld(new, store, start)
      BY <1>7, <2>1, <2>3 DEF RefsHeld
    <2>5. HeldWith(new, store, start)
      BY <1>7, <1>9, <2>1, <2>4 DEF HeldWith
    <2>6. QED
      BY <1>2, <1>4, <2>5
  <1>14. CASE ~Recorded(n)
    <2>1. new.trace = run.trace
      BY <1>11, <1>14
    <2>2. ASSUME new.status = "running" PROVE new.refs = run.refs
      <3>1. Finishes(r, v, out) \/ Repeats(r, v, out)
        BY <1>2, <2>2 DEF Fails
      <3>2. Records(r, v, out) /\ n # "finalize"
        BY <1>1, <1>2, <1>3, <2>2, <3>1 DEF Finishes, Repeats, Records
      <3>3. n = "retrieve_knowledge" /\ ~retrieval
        BY <1>14, <3>2 DEF Recorded
      <3>4. out = << >>
        BY <1>1, <1>3, <3>2, <3>3 DEF Records, Outputs
      <3>5. ids = {}
        BY <1>5, <3>4 DEF NewIds
      <3>6. run.refs \in Refs
        BY <1>1, TraceShape
      <3>7. new.refs = Hold(store, run.refs, {}) \/ new.refs = run.refs
        BY <1>1, <1>2, <1>4, <1>5, <3>1, <3>5 DEF Finishes, Repeats
      <3>8. QED
        BY <3>6, <3>7, HoldNothing
    <2>3. ASSUME NEW slot \in Slots, new.status = "running"
          PROVE  Fits(new.refs[slot], Hold(store, start, MadeBefore(was, m + 1))[slot], Behind(new, slot))
      <3>1. Fits(run.refs[slot], Hold(store, start, MadeBefore(was, m + 1))[slot], Twice(was, m, slot))
        BY <1>12, <1>14 DEF Fits
      <3>2. Twice(was, m, slot) => Behind(new, slot)
        BY <1>6, <1>8, <2>1 DEF Behind
      <3>3. QED
        BY <2>2, <2>3, <3>1, <3>2 DEF Fits
    <2>4. RefsHeld(new, store, start)
      BY <1>6, <1>8, <2>1, <2>3 DEF RefsHeld
    <2>5. HeldWith(new, store, start)
      BY <1>9, <2>1, <2>4 DEF HeldWith
    <2>6. QED
      BY <1>2, <1>4, <2>5
  <1>15. QED
    BY <1>13, <1>14

LEMMA HeldMoves ==
    ASSUME RerunsTypeOK, MadeInv, FlowInv, NEW r \in DOMAIN runs, Moves(r), NEW start,
           HeldWith(runs[r], artifacts', start)
    PROVE  HeldWith(runs'[r], artifacts', start)
  <1>1. PICK store : store = artifacts'
    OBVIOUS
  <1>2. HeldWith(runs[r], store, start)
    BY <1>1
  <1>3. CASE Starts(r)
    BY <1>1, <1>2, <1>3, HeldStart
  <1>4. CASE \E v, out : Finishes(r, v, out) \/ Repeats(r, v, out) \/ Fails(r, v, out)
    BY <1>4, HeldLeave
  <1>5. CASE Answers(r) \/ \E v, out : Stops(r, v, out)
    <2>1. PICK run : run = runs[r]
      OBVIOUS
    <2>2. PICK new : new = runs'[r]
      OBVIOUS
    <2>3. /\ new.trace = run.trace /\ new.busy = "idle" /\ new.refs = run.refs
          /\ new.status = run.status
      BY <1>5, <2>1, <2>2 DEF Stops, Breaks, Leaves, Answers
    <2>4. ASSUME NEW slot \in Slots, Behind(run, slot) PROVE Behind(new, slot)
      <3>1. CASE new.ckpt = run.ckpt
        BY <2>3, <2>4, <3>1 DEF Behind
      <3>2. CASE Answers(r)
        <4>1. NextNode(plan, run.ckpt) = End
          BY <2>1, <3>2, WaitingEnds DEF FlowInv, FlowOf, Answers
        <4>2. \A k \in DOMAIN run.trace : run.trace[k].node # End
          BY <2>1, TraceShape DEF NodeRun, Nodes, End
        <4>3. DOMAIN run.trace = 1..Len(run.trace) /\ Len(run.trace) \in Nat
          BY <2>1, TraceShape
        <4>4. Twice(run.trace, Len(run.trace), slot)
          BY <2>4, <4>1, <4>2, <4>3 DEF Behind
        <4>5. QED
          BY <2>3, <4>4 DEF Behind
      <3>3. QED
        BY <1>5, <2>1, <2>2, <3>1, <3>2 DEF Stops, Breaks
    <2>5. HeldWith(run, store, start)
      BY <1>2, <2>1
    <2>6. HeldWith(new, store, start)
      BY <2>3, <2>4, <2>5, HeldKept
    <2>7. QED
      BY <1>1, <2>2, <2>6
  <1>6. QED
    BY <1>3, <1>4, <1>5 DEF Moves, EndsWith

\* A run stays on the thread it has, or without one.
LEMMA ThreadStays ==
    ASSUME RerunsTypeOK, FlowInv, NEW r \in DOMAIN runs, Moves(r)
    PROVE  runs'[r].ckpt.at = NoThread <=> runs[r].ckpt.at = NoThread
  <1>1. CASE Starts(r) \/ Answers(r) \/ runs'[r].ckpt = runs[r].ckpt
    BY <1>1 DEF Starts, Answers
  <1>2. CASE \E v, out : Finishes(r, v, out)
    <2>1. PICK v, out : Finishes(r, v, out)
      BY <1>2
    <2>2. runs[r].busy \in Nodes /\ runs'[r].ckpt.at = runs[r].busy
      BY <2>1 DEF Finishes, Records, Leaves
    <2>3. QED
      BY <2>2, BusyBefore DEF Nodes, NoThread
  <1>3. QED
    BY <1>1, <1>2 DEF Moves, EndsWith, Repeats, Fails, Stops, Breaks

LEMMA MadeNone == \A t : MadeBefore(t, 1) = {}
  BY DEF MadeBefore

LEMMA HeldNew ==
    ASSUME NEW p, NEW n, NEW ckpt, NEW refs \in Refs, NEW store
    PROVE  HeldWith(NewRun(p, n, ckpt, refs), store, refs)
  <1>1. PICK run : run = NewRun(p, n, ckpt, refs)
    OBVIOUS
  <1>2. run.trace = << >> /\ run.refs = refs /\ run.busy = "idle"
    BY <1>1 DEF NewRun
  <1>3. DOMAIN run.trace = {} /\ Len(run.trace) + 1 = 1
    BY <1>2
  <1>4. run.refs = Hold(store, refs, MadeBefore(run.trace, Len(run.trace) + 1))
    BY <1>2, <1>3, MadeNone, HoldNothing
  <1>5. TraceHeld(run.trace, store, refs) /\ RefsHeld(run, store, refs)
    BY <1>3, <1>4 DEF TraceHeld, RefsHeld, Fits
  <1>6. HeldWith(run, store, refs)
    BY <1>2, <1>5 DEF HeldWith
  <1>7. QED
    BY <1>1, <1>6

LEMMA HeldNow ==
    ASSUME plan' = plan, retrieval' = retrieval, NEW q, NEW new, new = runs'[q], NEW start,
           start = StartOf(new)', HeldWith(new, artifacts', start)
    PROVE  HeldWith(runs[q], artifacts, StartOf(runs[q]))'
  <1>1. start = StartOf(runs[q])'
    BY DEF StartOf, Preserve
  <1>2. TraceHeld(runs[q].trace, artifacts, StartOf(runs[q]))'
    BY <1>1 DEF HeldWith, TraceHeld
  <1>3. RefsHeld(runs[q], artifacts, StartOf(runs[q]))'
    <2>1. RefsHeld(new, artifacts', start)
      BY DEF HeldWith
    <2>2. \A slot : Behind(new, slot) <=> Behind(runs[q], slot)'
      BY DEF Behind
    <2>3. QED
      BY <1>1, <2>1, <2>2 DEF RefsHeld, Fits
  <1>4. QED
    BY <1>2, <1>3 DEF HeldWith, Recorded

LEMMA HeldInit == Init => HeldInv
  <1>. SUFFICES ASSUME Init PROVE HeldInv
    OBVIOUS
  <1>1. PICK run : run = NewRun(0, Original, InputCheckpoint, NoRefs)
    OBVIOUS
  <1>2. DOMAIN runs = {1} /\ runs[1] = run /\ run.parent = 0
    BY <1>1 DEF Init, NewRun
  <1>3. StartOf(run) = NoRefs
    BY <1>2 DEF StartOf
  <1>4. HeldWith(run, artifacts, NoRefs)
    BY <1>1, HeldNew, NoRefsIs
  <1>5. QED
    BY <1>2, <1>3, <1>4 DEF HeldInv

\* A run whose parent is left alone holds what it held.
LEMMA HeldSame ==
    ASSUME BaseInv, OriginInv, HeldInv, Stable, plan' = plan, retrieval' = retrieval,
           NEW q \in DOMAIN runs, runs'[q] = runs[q],
           runs[q].parent # 0 => runs'[runs[q].parent] = runs[runs[q].parent]
    PROVE  HeldWith(runs[q], artifacts, StartOf(runs[q]))'
  <1>1. RerunsTypeOK /\ MadeInv
    BY DEF BaseInv
  <1>2. PICK start : start = StartOf(runs[q])
    OBVIOUS
  <1>3. HeldWith(runs[q], artifacts, start)
    BY <1>2 DEF HeldInv
  <1>4. HeldWith(runs[q], artifacts', start)
    BY <1>1, <1>3, HeldStays
  <1>5. PICK new : new = runs'[q]
    OBVIOUS
  <1>6. new = runs[q]
    BY <1>5
  <1>7. StartOf(new)' = start
    BY <1>2, <1>6, StartStays
  <1>8. HeldWith(new, artifacts', start)
    BY <1>4, <1>6
  <1>9. QED
    BY <1>5, <1>7, <1>8, HeldNow

LEMMA HeldStep == BaseInv /\ OriginInv /\ HeldInv /\ Next /\ ~edited' => HeldInv'
  <1>. SUFFICES ASSUME BaseInv, OriginInv, HeldInv, Next, ~edited' PROVE HeldInv'
    OBVIOUS
  <1>1. /\ RerunsTypeOK /\ VersionsBounded /\ ParentInv /\ MadeInv /\ FlowInv
        /\ DOMAIN runs = 1..Len(runs) /\ Len(runs) \in Nat
    BY RunsShape DEF BaseInv
  <1>2. PICK r \in DOMAIN runs : Moves(r) \/ \E n \in Nodes : Reruns(r, n) \/ NotStarted(r, n)
    BY <1>1, StepShape
  <1>3. ASSUME Moves(r) PROVE HeldInv'
    <2>1. Touches(r) /\ Stable
      BY <1>1, <1>3, MoveStore
    <2>2. \A q \in DOMAIN runs :
             runs[q].parent # 0 => runs'[runs[q].parent] = runs[runs[q].parent]
      BY <1>1, <2>1 DEF ParentInv, Touches
    <2>3. HeldWith(runs[r], artifacts, StartOf(runs[r]))'
      <3>1. PICK start : start = StartOf(runs[r])
        OBVIOUS
      <3>2. HeldWith(runs[r], artifacts, start)
        BY <3>1 DEF HeldInv
      <3>3. HeldWith(runs[r], artifacts', start)
        BY <1>1, <2>1, <3>2, HeldStays
      <3>4. PICK new : new = runs'[r]
        OBVIOUS
      <3>5. HeldWith(new, artifacts', start)
        BY <1>1, <1>3, <3>3, <3>4, HeldMoves
      <3>6. /\ new.parent = runs[r].parent /\ new.from = runs[r].from
            /\ new.ckpt.at = NoThread <=> runs[r].ckpt.at = NoThread
        BY <1>1, <1>3, <2>1, <3>4, ThreadStays DEF Touches
      <3>7. StartOf(new)' = start
        BY <2>1, <2>2, <3>1, <3>6, StartStays
      <3>8. QED
        BY <2>1, <3>4, <3>5, <3>7, HeldNow DEF Touches
    <2>4. ASSUME NEW q \in DOMAIN runs, q # r
          PROVE  HeldWith(runs[q], artifacts, StartOf(runs[q]))'
      <3>1. runs'[q] = runs[q]
        BY <2>1, <2>4 DEF Touches
      <3>2. QED
        BY <2>1, <2>2, <3>1, HeldSame DEF Touches
    <2>5. DOMAIN runs' = DOMAIN runs
      BY <2>1 DEF Touches
    <2>6. QED
      BY <2>3, <2>4, <2>5 DEF HeldInv
  <1>4. ASSUME NEW n \in Nodes, NEW ckpt, NEW refs \in Refs, Adds(r, n, ckpt, refs),
               refs = IF ckpt.at = NoThread THEN NoRefs ELSE Preserve(r, n)
        PROVE  HeldInv'
    <2>1. Stable
      BY <1>4 DEF Adds, Stable, Exists, Get
    <2>2. /\ r = Len(runs) /\ DOMAIN runs' = 1..(r + 1) /\ n \in Executed(r)
          /\ plan' = plan /\ retrieval' = retrieval
          /\ \A q \in DOMAIN runs : runs'[q] = runs[q]
      BY <1>4 DEF Adds
    <2>3. ASSUME NEW q \in DOMAIN runs
          PROVE  HeldWith(runs[q], artifacts, StartOf(runs[q]))'
      <3>1. runs[q].parent # 0 => runs'[runs[q].parent] = runs[runs[q].parent]
        BY <1>1, <2>2 DEF ParentInv
      <3>2. QED
        BY <2>1, <2>2, <3>1, HeldSame
    <2>4. PICK q : q = r + 1
      OBVIOUS
    <2>5. HeldWith(runs[q], artifacts, StartOf(runs[q]))'
      <3>1. PICK new : new = NewRun(r, n, ckpt, refs)
        OBVIOUS
      <3>2. new = runs'[q] /\ HeldWith(new, artifacts', refs)
        BY <1>4, <2>4, <3>1, HeldNew DEF Adds
      <3>3. new.parent = r /\ new.from = n /\ new.ckpt = ckpt /\ r # 0
        BY <1>1, <3>1 DEF NewRun
      <3>4. Preserve(r, n)' = Preserve(r, n)
        BY <1>1, <2>1, <2>2, PreserveStays
      <3>5. StartOf(new)' = IF ckpt.at = NoThread THEN NoRefs ELSE Preserve(r, n)'
        BY <3>3 DEF StartOf
      <3>6. refs = StartOf(new)'
        BY <1>4, <3>4, <3>5
      <3>7. QED
        BY <2>2, <3>2, <3>6, HeldNow
    <2>6. \A x \in DOMAIN runs' : x \in DOMAIN runs \/ x = q
      BY <1>1, <2>2, <2>4
    <2>7. QED
      BY <2>3, <2>5, <2>6 DEF HeldInv
  <1>5. ASSUME NEW n \in Nodes, Reruns(r, n) PROVE HeldInv'
    <2>1. PICK refs : refs = Preserve(r, n)
      OBVIOUS
    <2>2. PICK ckpt : ckpt = Enters(n, refs)
      OBVIOUS
    <2>3. Adds(r, n, ckpt, refs) /\ refs \in Refs
      BY <1>5, <2>1, <2>2 DEF Reruns
    <2>4. n \in Allowed /\ Recorded(n) /\ n # "finalize"
      <3>1. n \in Allowed \cap Executed(r)
        BY <2>3 DEF Adds
      <3>2. QED
        BY <1>1, <3>1, ExecutedNode
    <2>5. plan \in Plan
      BY <1>1 DEF RerunsTypeOK
    <2>6. ckpt.at # NoThread
      <3>1. CASE n = "parse_intent"
        BY <2>2, <2>4, <2>5, <3>1, EnterShape DEF InputCheckpoint, Entry, NoThread
      <3>2. CASE n # "parse_intent"
        <4>1. ckpt.at = Previous(plan, n)
          BY <2>2, <2>4, <2>5, <3>2, EnterShape
        <4>2. QED
          BY <2>4, <3>2, <4>1, PreviousNode
      <3>3. QED
        BY <3>1, <3>2
    <2>7. QED
      BY <1>4, <2>1, <2>3, <2>6
  <1>6. ASSUME NEW n \in Nodes, NotStarted(r, n) PROVE HeldInv'
    <2>1. PICK ckpt : ckpt = NoCheckpoint
      OBVIOUS
    <2>2. Adds(r, n, ckpt, NoRefs) /\ ckpt.at = NoThread
      BY <1>6, <2>1 DEF NotStarted, NoCheckpoint
    <2>3. QED
      BY <1>4, <2>2, NoRefsIs
  <1>7. QED
    BY <1>2, <1>3, <1>5, <1>6

LEMMA HeldStutter ==
    BaseInv /\ OriginInv /\ HeldInv /\ UNCHANGED vars => OriginInv' /\ HeldInv'
  <1>. SUFFICES ASSUME BaseInv, OriginInv, HeldInv, UNCHANGED vars PROVE OriginInv' /\ HeldInv'
    OBVIOUS
  <1>1. OriginInv'
    BY DEF vars, OriginInv, Allowed, Executed
  <1>2. Stable /\ runs' = runs /\ plan' = plan /\ retrieval' = retrieval
    BY DEF vars, Stable, Exists, Get
  <1>3. HeldInv'
    BY <1>2, HeldSame DEF HeldInv
  <1>4. QED
    BY <1>1, <1>3

\* Theorem: what a run holds is always what it began with and what its nodes
\* have made, in the order of its trace, but for what a node makes again that was cut
\* short of its checkpoint.
THEOREM HeldAlways == Spec => [](edited \/ (BaseInv /\ OriginInv /\ HeldInv))
  <1>1. Init => BaseInv /\ OriginInv /\ HeldInv
    BY BaseInit, OriginInit, HeldInit
  <1>2. BaseInv /\ OriginInv /\ HeldInv /\ [Next]_vars => edited' \/ (BaseInv /\ OriginInv /\ HeldInv)'
    BY BaseStep, BaseStutter, OriginStep, HeldStep, HeldStutter
  <1>3. QED
    BY <1>1, <1>2, EditedStays, PTL DEF Spec

\* What the first place of a node in a trace was handed, but for the sections a
\* refinement made twice.
LEMMA FirstHolds ==
    ASSUME BaseInv, HeldInv, NEW p \in DOMAIN runs, NEW n \in Executed(p), NEW slot \in Slots
    PROVE  LET trace == runs[p].trace
               k == FirstPlace(trace, n)
               held == Hold(artifacts, StartOf(runs[p]), MadeBefore(trace, k))[slot]
           IN  Fits(trace[k].inputs[slot], held, slot \in SectionSlots /\ RefinedTwice(trace))
  <1>1. RerunsTypeOK
    BY DEF BaseInv
  <1>2. PICK trace : trace = runs[p].trace
    OBVIOUS
  <1>3. PICK k : k = FirstPlace(trace, n)
    OBVIOUS
  <1>4. /\ k \in DOMAIN trace /\ k \in Nat \ {0} /\ trace[k].node = n
        /\ \A j \in DOMAIN trace : trace[j].node = n => j >= k
    BY <1>1, <1>2, <1>3, FirstShape
  <1>5. DOMAIN trace = 1..Len(trace) /\ Len(trace) \in Nat
    BY <1>1, <1>2, TraceShape
  <1>6. PICK held : held = Hold(artifacts, StartOf(runs[p]), MadeBefore(trace, k))[slot]
    OBVIOUS
  <1>7. Fits(trace[k].inputs[slot], held, Again(trace, k, slot) \/ Twice(trace, k, slot))
    BY <1>2, <1>4, <1>6 DEF HeldInv, HeldWith, TraceHeld
  <1>8. ~Again(trace, k, slot)
    <2>1. SUFFICES ASSUME k > 1, trace[k - 1].node = n PROVE FALSE
      BY <1>4 DEF Again
    <2>2. k - 1 \in DOMAIN trace /\ ~ (k - 1 >= k)
      BY <1>4, <1>5, <2>1
    <2>3. QED
      BY <1>4, <2>1, <2>2
  <1>9. Twice(trace, k, slot) => slot \in SectionSlots /\ RefinedTwice(trace)
    <2>1. SUFFICES ASSUME slot \in SectionSlots,
                          NEW j \in 1..(k - 1), trace[j].node = "self_refine",
                          trace[j + 1].node = "self_refine", trace[j].outputs # {}
                   PROVE  RefinedTwice(trace)
      BY DEF Twice
    <2>2. j \in DOMAIN trace /\ j + 1 \in DOMAIN trace
      BY <1>4, <1>5
    <2>3. QED
      BY <2>1, <2>2 DEF RefinedTwice
  <1>10. QED
    BY <1>2, <1>3, <1>6, <1>7, <1>8, <1>9 DEF Fits

\* What a rerun of an original run takes over is what the node worked on.
LEMMA PreserveFits ==
    ASSUME BaseInv, HeldInv, NEW p \in DOMAIN runs, runs[p].parent = 0, NEW n \in Executed(p),
           NEW slot \in Slots
    PROVE  LET trace == runs[p].trace
           IN  Fits(trace[FirstPlace(trace, n)].inputs[slot], Preserve(p, n)[slot],
                    slot \in SectionSlots /\ RefinedTwice(trace))
  <1>1. StartOf(runs[p]) = NoRefs
    BY DEF StartOf
  <1>2. Preserve(p, n) = Hold(artifacts, StartOf(runs[p]), MadeBefore(runs[p].trace, FirstPlace(runs[p].trace, n)))
    BY <1>1 DEF Preserve
  <1>3. QED
    BY <1>2, FirstHolds

LEMMA KeepsInputs == BaseInv /\ OriginInv /\ HeldInv => RerunKeepsInputs
  <1>. SUFFICES ASSUME BaseInv, OriginInv, HeldInv,
                       NEW r \in DOMAIN runs, OfOriginal(r), runs[r].trace # << >>, NEW slot \in Slots
                PROVE  LET original == runs[runs[r].parent].trace
                           first == original[FirstPlace(original, runs[r].from)]
                       IN  \/ runs[r].trace[1].inputs[slot] = first.inputs[slot]
                           \/ RefinedTwice(original) /\ \E x \in Sections : slot = Section(x)
    BY DEF RerunKeepsInputs
  <1>1. /\ RerunsTypeOK /\ ParentInv /\ MadeInv /\ FlowInv
        /\ DOMAIN runs = 1..Len(runs) /\ Len(runs) \in Nat
    BY RunsShape DEF BaseInv
  <1>2. PICK p : p = runs[r].parent
    OBVIOUS
  <1>3. PICK n : n = runs[r].from
    OBVIOUS
  <1>4. p \in DOMAIN runs /\ p # 0 /\ runs[p].parent = 0 /\ n \in Executed(p)
    BY <1>1, <1>2, <1>3 DEF OfOriginal, ParentInv, OriginInv
  <1>5. PICK original : original = runs[p].trace
    OBVIOUS
  <1>6. PICK was : was = original[FirstPlace(original, n)].inputs
    OBVIOUS
  <1>7. PICK refs : refs = Preserve(p, n)
    OBVIOUS
  <1>8. Fits(was[slot], refs[slot], slot \in SectionSlots /\ RefinedTwice(original))
    BY <1>4, <1>5, <1>6, <1>7, PreserveFits
  <1>9. runs[r].ckpt.at # NoThread
    BY <1>1 DEF FlowInv, FlowOf, TraceOf
  <1>10. StartOf(runs[r]) = refs
    BY <1>2, <1>3, <1>4, <1>7, <1>9 DEF StartOf
  <1>11. refs \in Refs
    BY <1>1, <1>4, <1>7, PreserveShape
  <1>12. PICK trace : trace = runs[r].trace
    OBVIOUS
  <1>13. 1 \in DOMAIN trace
    BY <1>1, <1>12, TraceShape
  <1>14. Fits(trace[1].inputs[slot], Hold(artifacts, refs, MadeBefore(trace, 1))[slot],
              Again(trace, 1, slot) \/ Twice(trace, 1, slot))
    BY <1>10, <1>12, <1>13 DEF HeldInv, HeldWith, TraceHeld
  <1>15. Hold(artifacts, refs, MadeBefore(trace, 1)) = refs
    BY <1>11, MadeNone, HoldNothing
  <1>16. ~Again(trace, 1, slot) /\ ~Twice(trace, 1, slot)
    BY DEF Again, Twice
  <1>17. trace[1].inputs[slot] = refs[slot]
    BY <1>14, <1>15, <1>16 DEF Fits
  <1>18. trace[1].inputs[slot] = was[slot] \/ (slot \in SectionSlots /\ RefinedTwice(original))
    BY <1>8, <1>17 DEF Fits
  <1>19. slot \in SectionSlots => \E x \in Sections : slot = Section(x)
    BY DEF SectionSlots
  <1>20. QED
    BY <1>2, <1>3, <1>5, <1>6, <1>12, <1>18, <1>19

\* Theorem: a rerun's first node works on the very artifacts the same node
\* worked on when the original run first came to it, but for the sections of a
\* refinement that was executed twice; all this until a rerun is edited.
THEOREM InputsAlwaysKept == Spec => []RerunKeepsInputs
  <1>1. BaseInv /\ OriginInv /\ HeldInv => RerunKeepsInputs
    BY KeepsInputs
  <1>2. edited => RerunKeepsInputs
    BY DEF RerunKeepsInputs
  <1>3. QED
    BY <1>1, <1>2, HeldAlways, PTL

-----------------------------------------------------------------------------
(* What a rerun of an original run takes over. *)

\* What it takes over is what the node worked on, but for the sections.
LEMMA PreserveIsInput ==
    ASSUME BaseInv, HeldInv, NEW p \in DOMAIN runs, runs[p].parent = 0, NEW n \in Executed(p)
    PROVE  \E k \in DOMAIN runs[p].trace :
              /\ runs[p].trace[k].node = n /\ k = FirstPlace(runs[p].trace, n)
              /\ \A slot \in Slots \ SectionSlots : Preserve(p, n)[slot] = runs[p].trace[k].inputs[slot]
              /\ HasSections(runs[p].trace[k].inputs) => HasSections(Preserve(p, n))
  <1>1. RerunsTypeOK
    BY DEF BaseInv
  <1>2. PICK original : original = runs[p].trace
    OBVIOUS
  <1>3. PICK k : k = FirstPlace(original, n)
    OBVIOUS
  <1>4. k \in DOMAIN original /\ original[k].node = n
    BY <1>1, <1>2, <1>3, FirstShape
  <1>5. PICK was : was = original[k].inputs
    OBVIOUS
  <1>6. PICK refs : refs = Preserve(p, n)
    OBVIOUS
  <1>7. \A slot \in Slots : Fits(was[slot], refs[slot], slot \in SectionSlots /\ RefinedTwice(original))
    BY <1>2, <1>3, <1>5, <1>6, PreserveFits
  <1>8. \A slot \in Slots \ SectionSlots : refs[slot] = was[slot]
    BY <1>7 DEF Fits
  <1>9. HasSections(was) => HasSections(refs)
    <2>1. SUFFICES ASSUME NEW x \in Sections, was[Section(x)] # NoArtifact PROVE HasSections(refs)
      BY DEF HasSections
    <2>2. refs[Section(x)] # NoArtifact
      BY <1>7, <2>1, SlotsShape DEF Fits
    <2>3. QED
      BY <2>2 DEF HasSections
  <1>10. QED
    BY <1>2, <1>3, <1>4, <1>5, <1>6, <1>8, <1>9

\* The graph leads a rerun of an original run to the node it was asked for, or
\* past a gate.
LEMMA EntersAt ==
    ASSUME BaseInv, HeldInv, NEW p \in DOMAIN runs, runs[p].parent = 0,
           NEW n \in Allowed \cap Executed(p)
    PROVE  LET ckpt == Enters(n, Preserve(p, n))
           IN  /\ NextNode(plan, ckpt) \in Begins(n)
               /\ ~ckpt.vals.awaiting_outline /\ ~ckpt.vals.awaiting_fact_check
  <1>1. RerunsTypeOK /\ FlowInv /\ MadeInv /\ plan \in Plan
    BY DEF BaseInv, RerunsTypeOK
  <1>2. Recorded(n) /\ n \in Nodes
    BY <1>1, ExecutedNode
  <1>3. PICK refs : refs = Preserve(p, n)
    OBVIOUS
  <1>4. PICK ckpt : ckpt = Enters(n, refs)
    OBVIOUS
  <1>5. ~MissingAtOnce(n, refs)
    <2>1. PICK k \in DOMAIN runs[p].trace :
             /\ runs[p].trace[k].node = n
             /\ \A slot \in Slots \ SectionSlots : refs[slot] = runs[p].trace[k].inputs[slot]
      BY <1>3, PreserveIsInput
    <2>2. ~MissingAtOnce(runs[p].trace[k].node, runs[p].trace[k].inputs)
      BY <1>1 DEF FlowInv, FlowOf, TraceOf
    <2>3. {Intent, Outline, Report} \subseteq Slots \ SectionSlots
      BY SlotsShape DEF SectionSlots, Intent, Outline, Report, Section
    <2>4. QED
      BY <2>1, <2>2, <2>3 DEF MissingAtOnce
  <1>6. PICK v : v = Restored(refs)
    OBVIOUS
  <1>7. /\ ~v.awaiting_outline /\ ~v.awaiting_fact_check /\ ~v.needs_clarification
        /\ v.fact_answers = "none"
        /\ v.outline <=> refs[Outline] # NoArtifact
        /\ v.outline_approved <=> refs[Outline] # NoArtifact
    BY <1>6, RestoredType
  <1>8. /\ n = "parse_intent" => ckpt = InputCheckpoint
        /\ n # "parse_intent" => ckpt = [at |-> Previous(plan, n), vals |-> v]
        /\ Listed(plan, n)
    BY <1>1, <1>2, <1>4, <1>6, EnterShape
  <1>9. ~ckpt.vals.awaiting_outline /\ ~ckpt.vals.awaiting_fact_check
    <2>1. CASE n = "parse_intent"
      BY <1>8, <2>1 DEF InputCheckpoint, EmptyState
    <2>2. CASE n # "parse_intent"
      BY <1>7, <1>8, <2>2
    <2>3. QED
      BY <2>1, <2>2
  <1>10. NextNode(plan, ckpt) \in Begins(n)
    <2>1. CASE n = "parse_intent"
      BY <1>8, <2>1 DEF InputCheckpoint, NextNode, Begins, Entry
    <2>2. CASE n \in {"clarify_intent", "retrieve_knowledge"}
      <3>1. ckpt.at = "parse_intent" /\ ckpt.vals = v
        BY <1>8, <2>2 DEF Previous
      <3>2. NextNode(plan, ckpt) = "retrieve_knowledge"
        BY <1>7, <3>1 DEF NextNode, AfterParseIntent, Entry
      <3>3. QED
        BY <2>2, <3>2 DEF Begins
    <2>3. CASE n = "generate_outline"
      <3>1. ckpt.at = "retrieve_knowledge"
        BY <1>8, <2>3 DEF Previous
      <3>2. NextNode(plan, ckpt) = "generate_outline"
        BY <3>1 DEF NextNode, Entry
      <3>3. QED
        BY <2>3, <3>2 DEF Begins
    <2>4. CASE n \in {"approve_outline", "generate_content"}
      <3>1. ckpt.at \in {"generate_outline", "approve_outline"} /\ ckpt.vals = v
        BY <1>8, <2>4 DEF Previous
      <3>2. refs[Outline] # NoArtifact
        BY <1>5, <2>4 DEF MissingAtOnce
      <3>3. NextNode(plan, ckpt) = AfterOutline(v)
        BY <3>1 DEF NextNode, Entry
      <3>4. AfterOutline(v) = "generate_content"
        BY <1>7, <3>2 DEF AfterOutline
      <3>5. QED
        BY <2>4, <3>3, <3>4 DEF Begins
    <2>5. CASE n = "self_refine"
      <3>1. ckpt.at = "generate_content" /\ plan.self_refine
        BY <1>8, <2>5 DEF Previous, Listed
      <3>2. NextNode(plan, ckpt) = "self_refine"
        BY <3>1 DEF NextNode, AfterContent, Entry
      <3>3. QED
        BY <2>5, <3>2 DEF Begins
    <2>6. CASE n = "check_facts"
      <3>1. /\ plan.fact_check
            /\ ckpt.at = IF plan.self_refine THEN "self_refine" ELSE "generate_content"
        BY <1>8, <2>6 DEF Previous, Listed
      <3>2. NextNode(plan, ckpt) = "check_facts"
        BY <3>1 DEF NextNode, AfterContent, AfterRefine, Entry
      <3>3. QED
        BY <2>6, <3>2 DEF Begins
    <2>7. CASE n = "approve_fact_check"
      <3>1. ckpt.at = "check_facts" /\ ckpt.vals = v
        BY <1>8, <2>7 DEF Previous
      <3>2. NextNode(plan, ckpt) = AfterFactCheck(v)
        BY <3>1 DEF NextNode, Entry
      <3>3. QED
        BY <1>7, <2>7, <3>2 DEF AfterFactCheck, Begins
    <2>8. n # "finalize"
      BY <1>2 DEF Recorded
    <2>9. QED
      BY <1>2, <2>1, <2>2, <2>3, <2>4, <2>5, <2>6, <2>7, <2>8 DEF Nodes
  <1>11. QED
    BY <1>3, <1>4, <1>9, <1>10

-----------------------------------------------------------------------------
(* The first node of a rerun. *)

\* The node runs of a run after one has ended: the same, on the same inputs.
LEMMA EndsAlike ==
    ASSUME RerunsTypeOK, FlowInv, NEW r \in DOMAIN runs,
           Answers(r) \/ \E v, out : EndsWith(r, v, out)
    PROVE  /\ DOMAIN runs'[r].trace = DOMAIN runs[r].trace
           /\ (runs'[r].trace = << >>) <=> (runs[r].trace = << >>)
           /\ \A k \in DOMAIN runs[r].trace : /\ runs'[r].trace[k].node = runs[r].trace[k].node
                                              /\ runs'[r].trace[k].inputs = runs[r].trace[k].inputs
  <1>1. (\E ids : EndedWith(r, ids)) \/ Kept(r)
    <2>1. CASE Answers(r)
      BY <2>1 DEF Answers, Kept
    <2>2. ASSUME NEW v, NEW out, EndsWith(r, v, out) PROVE (\E ids : EndedWith(r, ids)) \/ Kept(r)
      <3>1. CASE Stops(r, v, out)
        BY <3>1 DEF Stops, Kept
      <3>2. CASE Records(r, v, out) \/ Fails(r, v, out)
        BY <3>2, LeaveTrace
      <3>3. QED
        BY <2>2, <3>1, <3>2 DEF EndsWith, Finishes, Repeats
    <2>3. QED
      BY <2>1, <2>2
  <1>2. CASE \E ids : EndedWith(r, ids)
    <2>1. PICK was : was = runs[r].trace
      OBVIOUS
    <2>2. PICK is : is = runs'[r].trace
      OBVIOUS
    <2>3. /\ Len(is) = Len(was) /\ DOMAIN is = DOMAIN was /\ Len(was) # 0
          /\ \A k \in DOMAIN was : is[k].node = was[k].node /\ is[k].inputs = was[k].inputs
      BY <1>2, <2>1, <2>2 DEF EndedWith
    <2>4. was # << >> /\ is # << >>
      BY <2>3
    <2>5. QED
      BY <2>1, <2>2, <2>3, <2>4
  <1>3. CASE Kept(r)
    BY <1>3 DEF Kept
  <1>4. QED
    BY <1>1, <1>2, <1>3

LEMMA BeginFinish ==
    ASSUME RerunsTypeOK, FlowInv, NEW r \in DOMAIN runs, NEW v, NEW out,
           Finishes(r, v, out), BeginOf(runs[r])
    PROVE  BeginOf(runs'[r])
  <1>1. PICK n : n = runs[r].busy
    OBVIOUS
  <1>2. PICK from : from = runs[r].from
    OBVIOUS
  <1>3. PICK new : new = runs'[r]
    OBVIOUS
  <1>4. /\ n \in Nodes /\ v \in NodeOutcomes(plan, n, runs[r].ckpt.vals) /\ new.from = from
        /\ new.ckpt.at = n /\ new.ckpt.vals = v /\ Records(r, v, out)
    BY <1>1, <1>2, <1>3 DEF Finishes, Records, Leaves, Touches
  <1>5. n = NextNode(plan, runs[r].ckpt)
    BY <1>1, <1>4, BusyBefore
  <1>6. CASE Recorded(n)
    <2>1. /\ EndedWith(r, NewIds(r, out)) /\ Len(runs[r].trace) \in Nat
          /\ DOMAIN runs[r].trace = 1..Len(runs[r].trace)
      BY <1>1, <1>4, <1>6, LeaveTrace, TraceShape
    <2>2. /\ Len(runs[r].trace) # 0 /\ Len(new.trace) = Len(runs[r].trace)
          /\ 1 \in DOMAIN runs[r].trace /\ new.trace[1].node = runs[r].trace[1].node
      BY <1>3, <2>1 DEF EndedWith
    <2>3. runs[r].trace # << >> /\ new.trace # << >>
      BY <2>2
    <2>4. runs[r].trace[1].node \in Begins(from)
      BY <1>2, <2>3 DEF BeginOf
    <2>5. BeginOf(new)
      BY <1>4, <2>2, <2>3, <2>4 DEF BeginOf
    <2>6. QED
      BY <1>3, <2>5
  <1>7. CASE ~Recorded(n)
    <2>1. new.trace = runs[r].trace
      BY <1>1, <1>3, <1>4, <1>7, LeaveTrace DEF Kept
    <2>2. ASSUME runs[r].trace = << >>
          PROVE  NextNode(plan, new.ckpt) \in Begins(from) /\ ~v.awaiting_outline /\ ~v.awaiting_fact_check
      <3>1. n \in Begins(from) /\ ~runs[r].ckpt.vals.awaiting_outline /\ ~runs[r].ckpt.vals.awaiting_fact_check
        BY <1>2, <1>5, <2>2 DEF BeginOf
      <3>2. n \in {"finalize", "retrieve_knowledge"}
        BY <1>7 DEF Recorded
      <3>3. ~v.awaiting_outline /\ ~v.awaiting_fact_check
        <4>1. plan \in Plan /\ runs[r].ckpt.vals \in GraphState
          BY TraceShape DEF RerunsTypeOK, Checkpoint
        <4>2. QED
          BY <1>4, <3>1, <3>2, <4>1, OutcomeWaits
      <3>4. Recorded(from)
        BY <1>2 DEF FlowInv
      <3>5. CASE n = "finalize"
        <4>1. from = "approve_fact_check"
          BY <3>1, <3>4, <3>5 DEF Begins, Recorded
        <4>2. NextNode(plan, new.ckpt) = End
          BY <1>4, <3>5 DEF NextNode, Entry
        <4>3. QED
          BY <3>3, <4>1, <4>2 DEF Begins
      <3>6. CASE n = "retrieve_knowledge"
        <4>1. from = "clarify_intent"
          <5>1. from # "retrieve_knowledge"
            BY <1>7, <3>4, <3>6
          <5>2. "retrieve_knowledge" \in Begins(from)
            BY <3>1, <3>6
          <5>3. QED
            BY <5>1, <5>2 DEF Begins, End
        <4>2. NextNode(plan, new.ckpt) = "generate_outline"
          BY <1>4, <3>6 DEF NextNode, Entry
        <4>3. QED
          BY <3>3, <4>1, <4>2 DEF Begins
      <3>7. QED
        BY <3>2, <3>5, <3>6
    <2>3. ASSUME runs[r].trace # << >> PROVE new.trace[1].node \in Begins(from)
      BY <1>2, <2>1, <2>3 DEF BeginOf
    <2>4. BeginOf(new)
      BY <1>4, <2>1, <2>2, <2>3 DEF BeginOf
    <2>5. QED
      BY <1>3, <2>4
  <1>8. QED
    BY <1>6, <1>7

LEMMA BeginStart ==
    ASSUME RerunsTypeOK, NEW r \in DOMAIN runs, Starts(r), BeginOf(runs[r])
    PROVE  BeginOf(runs'[r])
  <1>1. PICK new : new = runs'[r]
    OBVIOUS
  <1>2. PICK from : from = runs[r].from
    OBVIOUS
  <1>3. new.ckpt = runs[r].ckpt /\ new.from = from
    BY <1>1, <1>2 DEF Starts, Touches
  <1>4. CASE Kept(r)
    <2>1. new.trace = runs[r].trace
      BY <1>1, <1>4 DEF Kept
    <2>2. BeginOf(new)
      BY <1>2, <1>3, <2>1 DEF BeginOf
    <2>3. QED
      BY <1>1, <2>2
  <1>5. CASE Grown(r, Begun(Upcoming(r), runs[r].refs))
    <2>1. PICK e : e = Begun(Upcoming(r), runs[r].refs)
      OBVIOUS
    <2>2. /\ Len(new.trace) = Len(runs[r].trace) + 1 /\ DOMAIN runs[r].trace = 1..Len(runs[r].trace)
          /\ \A k \in DOMAIN runs[r].trace : new.trace[k] = runs[r].trace[k]
          /\ new.trace[Len(runs[r].trace) + 1] = e /\ Len(runs[r].trace) \in Nat
          /\ runs[r].trace = << >> <=> Len(runs[r].trace) = 0
      BY <1>1, <1>5, <2>1, TraceShape DEF Grown
    <2>3. new.trace # << >>
      BY <2>2
    <2>4. CASE runs[r].trace = << >>
      <3>1. new.trace[1].node = Upcoming(r)
        BY <2>1, <2>2, <2>4 DEF Begun
      <3>2. Upcoming(r) \in Begins(from)
        BY <1>2, <2>4 DEF BeginOf, Upcoming
      <3>3. BeginOf(new)
        BY <1>3, <2>3, <3>1, <3>2 DEF BeginOf
      <3>4. QED
        BY <1>1, <3>3
    <2>5. CASE runs[r].trace # << >>
      <3>1. 1 \in DOMAIN runs[r].trace
        BY <2>2, <2>5
      <3>2. new.trace[1] = runs[r].trace[1]
        BY <2>2, <3>1
      <3>3. runs[r].trace[1].node \in Begins(from)
        BY <1>2, <2>5 DEF BeginOf
      <3>4. BeginOf(new)
        BY <1>3, <2>3, <3>2, <3>3 DEF BeginOf
      <3>5. QED
        BY <1>1, <3>4
    <2>6. QED
      BY <2>4, <2>5
  <1>6. QED
    BY <1>4, <1>5, StartTrace

LEMMA BeginMoves ==
    ASSUME RerunsTypeOK, FlowInv, NEW r \in DOMAIN runs, Moves(r), BeginOf(runs[r])
    PROVE  BeginOf(runs'[r])
  <1>1. CASE Starts(r)
    BY <1>1, BeginStart
  <1>2. CASE \E v, out : Finishes(r, v, out)
    BY <1>2, BeginFinish
  <1>3. PICK new : new = runs'[r]
    OBVIOUS
  <1>4. PICK run : run = runs[r]
    OBVIOUS
  <1>5. ASSUME Answers(r) \/ \E v, out : EndsWith(r, v, out),
               run.trace = << >> => new.ckpt = run.ckpt
        PROVE  BeginOf(new)
    <2>1. /\ (new.trace = << >>) <=> (run.trace = << >>)
          /\ DOMAIN new.trace = DOMAIN run.trace
          /\ \A k \in DOMAIN run.trace : new.trace[k].node = run.trace[k].node
      BY <1>3, <1>4, <1>5, EndsAlike
    <2>2. new.from = run.from
      BY <1>3, <1>4, <1>5 DEF Answers, EndsWith, Finishes, Repeats, Records, Fails, Stops, Breaks,
                              Leaves, Touches
    <2>3. run.trace # << >> => 1 \in DOMAIN run.trace
      BY <1>4, TraceShape
    <2>4. BeginOf(run)
      BY <1>4
    <2>5. QED
      BY <1>5, <2>1, <2>2, <2>3, <2>4 DEF BeginOf
  <1>6. CASE \E v, out : Repeats(r, v, out) \/ Fails(r, v, out) \/ Stops(r, v, out)
    <2>1. new.ckpt = run.ckpt
      BY <1>3, <1>4, <1>6 DEF Repeats, Fails, Stops, Breaks
    <2>2. BeginOf(new)
      BY <1>5, <1>6, <2>1 DEF EndsWith
    <2>3. QED
      BY <1>3, <2>2
  <1>7. CASE Answers(r)
    <2>1. run.ckpt.vals.awaiting_outline \/ run.ckpt.vals.awaiting_fact_check
      BY <1>4, <1>7 DEF Answers
    <2>2. run.trace # << >>
      BY <1>4, <2>1 DEF BeginOf
    <2>3. BeginOf(new)
      BY <1>5, <1>7, <2>2
    <2>4. QED
      BY <1>3, <2>3
  <1>8. QED
    BY <1>1, <1>2, <1>6, <1>7 DEF Moves, EndsWith

LEMMA OriginalStays ==
    ASSUME RerunsTypeOK, ParentInv, NEW q \in DOMAIN runs,
           \A x \in DOMAIN runs : runs'[x].parent = runs[x].parent
    PROVE  /\ OfOriginal(q)' <=> OfOriginal(q)
           /\ runs'[q].parent = 0 <=> runs[q].parent = 0
  <1>1. DOMAIN runs = 1..Len(runs) /\ Len(runs) \in Nat /\ runs[q].parent = q - 1
    BY RunsShape DEF ParentInv
  <1>2. runs'[q].parent = q - 1
    BY <1>1
  <1>3. CASE q = 1
    BY <1>1, <1>2, <1>3 DEF OfOriginal
  <1>4. CASE q # 1
    <2>1. q - 1 \in DOMAIN runs
      BY <1>1, <1>4
    <2>2. runs'[q - 1].parent = runs[q - 1].parent
      BY <2>1
    <2>3. QED
      BY <1>1, <1>2, <2>2 DEF OfOriginal
  <1>5. QED
    BY <1>3, <1>4

\* The runs of a step: the parents stay, and only one run is followed.
LEMMA MovesParents ==
    ASSUME NEW r \in DOMAIN runs, Touches(r)
    PROVE  \A x \in DOMAIN runs : runs'[x].parent = runs[x].parent
  BY DEF Touches

LEMMA AddsParents ==
    ASSUME RerunsTypeOK, ParentInv, NEW p \in DOMAIN runs, NEW n, NEW ckpt, NEW refs,
           Adds(p, n, ckpt, refs), NEW q, q = p + 1
    PROVE  /\ \A x \in DOMAIN runs : runs'[x].parent = runs[x].parent
           /\ runs'[q] = NewRun(p, n, ckpt, refs) /\ runs'[q].parent = p /\ p # 0
           /\ OfOriginal(q)' <=> runs[p].parent = 0
           /\ \A x \in DOMAIN runs' : x \in DOMAIN runs \/ x = q
  <1>1. DOMAIN runs = 1..Len(runs) /\ Len(runs) \in Nat /\ p = Len(runs)
    BY RunsShape DEF Adds
  <1>2. /\ \A x \in DOMAIN runs : runs'[x] = runs[x]
        /\ runs'[q] = NewRun(p, n, ckpt, refs) /\ DOMAIN runs' = 1..q
    BY DEF Adds
  <1>3. runs'[q].parent = p /\ p # 0
    BY <1>1, <1>2 DEF NewRun
  <1>4. OfOriginal(q)' <=> runs[p].parent = 0
    BY <1>2, <1>3 DEF OfOriginal
  <1>5. QED
    BY <1>1, <1>2, <1>3, <1>4

LEMMA BeginNow ==
    ASSUME plan' = plan, NEW q, NEW new, new = runs'[q], BeginOf(new)
    PROVE  BeginOf(runs[q])'
  BY DEF BeginOf

LEMMA BeginInit == Init => BeginInv
  <1>. SUFFICES ASSUME Init PROVE BeginInv
    OBVIOUS
  <1>1. DOMAIN runs = {1} /\ runs[1].parent = 0
    BY DEF Init, NewRun
  <1>2. QED
    BY <1>1 DEF BeginInv, OfOriginal

LEMMA BeginAdds ==
    ASSUME BaseInv, HeldInv, BeginInv, NEW p \in DOMAIN runs, NEW n \in Nodes, NEW ckpt, NEW refs,
           Adds(p, n, ckpt, refs), ckpt.at = NoThread \/ (ckpt = Enters(n, refs) /\ refs = Preserve(p, n))
    PROVE  BeginInv'
  <1>1. RerunsTypeOK /\ ParentInv
    BY DEF BaseInv
  <1>2. PICK q : q = p + 1
    OBVIOUS
  <1>3. /\ \A x \in DOMAIN runs : runs'[x].parent = runs[x].parent /\ runs'[x] = runs[x]
        /\ runs'[q] = NewRun(p, n, ckpt, refs)
        /\ OfOriginal(q)' <=> runs[p].parent = 0
        /\ \A x \in DOMAIN runs' : x \in DOMAIN runs \/ x = q
        /\ plan' = plan
    BY <1>1, <1>2, AddsParents DEF Adds
  <1>4. ASSUME NEW x \in DOMAIN runs, OfOriginal(x)', runs'[x].ckpt.at # NoThread
        PROVE  BeginOf(runs[x])'
    <2>1. OfOriginal(x)
      BY <1>1, <1>3, <1>4, OriginalStays
    <2>2. PICK new : new = runs'[x]
      OBVIOUS
    <2>3. new = runs[x]
      BY <1>3, <2>2
    <2>4. BeginOf(new)
      BY <1>4, <2>1, <2>2, <2>3 DEF BeginInv
    <2>5. QED
      BY <1>3, <2>2, <2>4, BeginNow
  <1>5. ASSUME OfOriginal(q)', runs'[q].ckpt.at # NoThread PROVE BeginOf(runs[q])'
    <2>1. PICK new : new = runs'[q]
      OBVIOUS
    <2>2. new.ckpt = ckpt /\ new.from = n /\ new.trace = << >>
      BY <1>3, <2>1 DEF NewRun
    <2>3. runs[p].parent = 0 /\ n \in Allowed \cap Executed(p) /\ ckpt = Enters(n, Preserve(p, n))
      BY <1>3, <1>5, <2>1, <2>2 DEF Adds
    <2>4. /\ NextNode(plan, ckpt) \in Begins(n)
          /\ ~ckpt.vals.awaiting_outline /\ ~ckpt.vals.awaiting_fact_check
      BY <2>3, EntersAt
    <2>5. BeginOf(new)
      BY <2>2, <2>4 DEF BeginOf
    <2>6. QED
      BY <1>3, <2>1, <2>5, BeginNow
  <1>6. QED
    BY <1>3, <1>4, <1>5 DEF BeginInv

LEMMA BeginStep == BaseInv /\ HeldInv /\ BeginInv /\ Next /\ ~edited' => BeginInv'
  <1>. SUFFICES ASSUME BaseInv, HeldInv, BeginInv, Next, ~edited' PROVE BeginInv'
    OBVIOUS
  <1>1. RerunsTypeOK /\ VersionsBounded /\ ParentInv /\ MadeInv /\ FlowInv
    BY DEF BaseInv
  <1>2. PICK r \in DOMAIN runs : Moves(r) \/ \E n \in Nodes : Reruns(r, n) \/ NotStarted(r, n)
    BY <1>1, StepShape
  <1>3. ASSUME Moves(r) PROVE BeginInv'
    <2>1. Touches(r)
      BY <1>1, <1>3, MoveStore
    <2>2. \A x \in DOMAIN runs : runs'[x].parent = runs[x].parent
      BY <2>1, MovesParents
    <2>3. ASSUME NEW x \in DOMAIN runs, OfOriginal(x)', runs'[x].ckpt.at # NoThread
          PROVE  BeginOf(runs[x])'
      <3>1. OfOriginal(x)
        BY <1>1, <2>2, <2>3, OriginalStays
      <3>2. PICK new : new = runs'[x]
        OBVIOUS
      <3>3. CASE x = r
        <4>1. runs[r].ckpt.at # NoThread
          BY <1>1, <1>3, <2>3, <3>3, ThreadStays
        <4>2. BeginOf(runs[r])
          BY <3>1, <3>3, <4>1 DEF BeginInv
        <4>3. BeginOf(new)
          BY <1>1, <1>3, <3>2, <3>3, <4>2, BeginMoves
        <4>4. QED
          BY <2>1, <3>2, <4>3, BeginNow DEF Touches
      <3>4. CASE x # r
        <4>1. new = runs[x]
          BY <2>1, <3>2, <3>4 DEF Touches
        <4>2. BeginOf(new)
          BY <2>3, <3>1, <3>2, <4>1 DEF BeginInv
        <4>3. QED
          BY <2>1, <3>2, <4>2, BeginNow DEF Touches
      <3>5. QED
        BY <3>3, <3>4
    <2>4. DOMAIN runs' = DOMAIN runs
      BY <2>1 DEF Touches
    <2>5. QED
      BY <2>3, <2>4 DEF BeginInv
  <1>4. ASSUME NEW n \in Nodes, Reruns(r, n) PROVE BeginInv'
    <2>1. PICK refs : refs = Preserve(r, n)
      OBVIOUS
    <2>2. PICK ckpt : ckpt = Enters(n, refs)
      OBVIOUS
    <2>3. Adds(r, n, ckpt, refs)
      BY <1>4, <2>1, <2>2 DEF Reruns
    <2>4. QED
      BY <2>1, <2>2, <2>3, BeginAdds
  <1>5. ASSUME NEW n \in Nodes, NotStarted(r, n) PROVE BeginInv'
    <2>1. PICK ckpt : ckpt = NoCheckpoint
      OBVIOUS
    <2>2. Adds(r, n, ckpt, NoRefs) /\ ckpt.at = NoThread
      BY <1>5, <2>1 DEF NotStarted, NoCheckpoint
    <2>3. QED
      BY <2>2, BeginAdds
  <1>6. QED
    BY <1>2, <1>3, <1>4, <1>5

LEMMA BeginStutter == BeginInv /\ UNCHANGED vars => BeginInv'
  BY DEF vars, BeginInv, BeginOf, OfOriginal

LEMMA ReachesNode == BaseInv /\ BeginInv => RerunReachesNode
  <1>. SUFFICES ASSUME BaseInv, BeginInv,
                       NEW r \in DOMAIN runs, OfOriginal(r), runs[r].trace # << >>
                PROVE  LET first == runs[r].trace[1].node
                           from == runs[r].from
                       IN  CASE from = "clarify_intent" -> first \in {"retrieve_knowledge", "generate_outline"}
                             [] from = "approve_outline" -> first = "generate_content"
                             [] from = "approve_fact_check" -> FALSE
                             [] OTHER -> first = from
    BY DEF RerunReachesNode
  <1>1. PICK first : first = runs[r].trace[1].node
    OBVIOUS
  <1>2. PICK from : from = runs[r].from
    OBVIOUS
  <1>3. FlowOf(runs[r]) /\ RerunsTypeOK
    BY DEF BaseInv, FlowInv
  <1>4. runs[r].ckpt.at # NoThread
    BY <1>3 DEF FlowOf, TraceOf
  <1>5. first \in Begins(from)
    BY <1>1, <1>2, <1>4 DEF BeginInv, BeginOf
  <1>6. Recorded(first) /\ first \in Nodes
    <2>1. 1 \in DOMAIN runs[r].trace /\ runs[r].trace[1] \in NodeRun
      BY <1>3, TraceShape
    <2>2. QED
      BY <1>1, <1>3, <2>1 DEF FlowOf, TraceOf, NodeRun
  <1>7. first # "finalize" /\ first # End
    BY <1>6 DEF Recorded, Nodes, End
  <1>8. CASE from \in {"clarify_intent", "approve_outline", "approve_fact_check"}
    BY <1>1, <1>2, <1>5, <1>7, <1>8 DEF Begins
  <1>9. CASE from \notin {"clarify_intent", "approve_outline", "approve_fact_check"}
    <2>1. Begins(from) = {from}
      BY <1>9 DEF Begins
    <2>2. QED
      BY <1>1, <1>2, <1>5, <1>9, <2>1
  <1>10. QED
    BY <1>8, <1>9

\* Theorem: a rerun of an original run executes the node it was asked for first;
\* only a gate's node is passed over; all this until a rerun is edited.
THEOREM NodesAlwaysReached == Spec => []RerunReachesNode
  <1>1. Init => BaseInv /\ OriginInv /\ HeldInv /\ BeginInv
    BY BaseInit, OriginInit, HeldInit, BeginInit
  <1>2. BaseInv /\ OriginInv /\ HeldInv /\ BeginInv /\ [Next]_vars
          => edited' \/ (BaseInv /\ OriginInv /\ HeldInv /\ BeginInv)'
    BY BaseStep, BaseStutter, OriginStep, HeldStep, HeldStutter, BeginStep, BeginStutter
  <1>3. BaseInv /\ BeginInv => RerunReachesNode
    BY ReachesNode
  <1>4. edited => RerunReachesNode
    BY DEF RerunReachesNode
  <1>5. QED
    BY <1>1, <1>2, <1>3, <1>4, EditedStays, PTL DEF Spec

-----------------------------------------------------------------------------
(* What a finished node leaves. *)

LEMMA GoodStays ==
    ASSUME Stable, NEW id, Exists(id)
    PROVE  GoodIn(artifacts', id) = GoodIn(artifacts, id)
  <1>1. Get(id)' = Get(id)
    BY DEF Stable
  <1>2. QED
    BY <1>1 DEF Get, GoodIn

\* An artifact that is made goes into its slot.
LEMMA LeavePlaces ==
    ASSUME RerunsTypeOK, NEW r \in DOMAIN runs, NEW v, NEW out, Leaves(r, v, out),
           NEW slot \in Slots, NEW k \in 1..Len(out), out[k].slot = slot, NEW new,
           new = Hold(artifacts', runs[r].refs, NewIds(r, out))[slot]
    PROVE  new \in NewIds(r, out) /\ new # NoArtifact
  <1>1. PICK id : id = <<r, Len(artifacts[r]) + k>>
    OBVIOUS
  <1>2. id \in NewIds(r, out)
    BY <1>1 DEF NewIds
  <1>3. PICK j \in 1..Len(out) : id = <<r, Len(artifacts[r]) + j>> /\ Get(id)'.slot = out[j].slot
    BY <1>2, LeaveMakes
  <1>4. j = k
    <2>1. Len(artifacts[r]) \in Nat /\ Len(out) \in Nat
      BY RunsShape, StoreShape, LenProperties DEF Leaves
    <2>2. Len(artifacts[r]) + k = Len(artifacts[r]) + j
      BY <1>1, <1>3
    <2>3. QED
      BY <2>1, <2>2
  <1>5. Get(id)'.slot = slot
    BY <1>3, <1>4
  <1>6. new \in NewIds(r, out)
    BY <1>2, <1>5, LeaveHolds
  <1>7. QED
    BY <1>6, LeaveMakes

LEMMA LeaveGood ==
    ASSUME RerunsTypeOK, NEW r \in DOMAIN runs, NEW v, NEW out, Leaves(r, v, out),
           NEW id \in NewIds(r, out)
    PROVE  /\ runs[r].busy \notin {"generate_outline", "check_facts"} => GoodIn(artifacts', id)
           /\ runs[r].busy = "check_facts" /\ ~v.risky => GoodIn(artifacts', id)
  <1>1. PICK k \in 1..Len(out) :
           WantedBy(runs[r].busy, runs[r].refs, v, out[k]) /\ Get(id)'.good = out[k].good
    BY LeaveMakes
  <1>2. GoodIn(artifacts', id) = out[k].good
    BY <1>1 DEF GoodIn, Get
  <1>3. QED
    BY <1>1, <1>2 DEF WantedBy

-----------------------------------------------------------------------------
(* The outline gate. *)

LEMMA OutlineStays ==
    ASSUME RerunsTypeOK, MadeInv, Stable, NEW q \in DOMAIN runs, OutlineWith(q, runs[q], artifacts)
    PROVE  OutlineWith(q, runs[q], artifacts')
  <1>1. PICK run : run = runs[q]
    OBVIOUS
  <1>2. OutlineWith(q, run, artifacts)
    BY <1>1
  <1>3. Stocked(run.refs) /\ \A k \in DOMAIN run.trace : Stocked(run.trace[k].inputs)
    BY <1>1 DEF MadeInv, MadeOf
  <1>4. Outline \in Slots
    BY SlotsShape
  <1>5. ASSUME NEW refs, Stocked(refs), refs[Outline] # NoArtifact
        PROVE  GoodIn(artifacts', refs[Outline]) = GoodIn(artifacts, refs[Outline])
    BY <1>4, <1>5, GoodStays DEF Stocked
  <1>6. Bound(q, run.from, run.refs) => GoodIn(artifacts', run.refs[Outline]) = GoodIn(artifacts, run.refs[Outline])
    BY <1>3, <1>5 DEF Bound
  <1>7. \A k \in DOMAIN run.trace : Bound(q, run.from, run.trace[k].inputs) =>
           GoodIn(artifacts', run.trace[k].inputs[Outline]) = GoodIn(artifacts, run.trace[k].inputs[Outline])
    BY <1>3, <1>5 DEF Bound
  <1>8. OutlineWith(q, run, artifacts')
    BY <1>2, <1>6, <1>7 DEF OutlineWith
  <1>9. QED
    BY <1>1, <1>8

LEMMA OutlineStart ==
    ASSUME RerunsTypeOK, NEW r \in DOMAIN runs, Starts(r), NEW store,
           OutlineWith(r, runs[r], store)
    PROVE  OutlineWith(r, runs'[r], store)
  <1>1. PICK run : run = runs[r]
    OBVIOUS
  <1>2. PICK new : new = runs'[r]
    OBVIOUS
  <1>3. /\ new.refs = run.refs /\ new.ckpt = run.ckpt /\ new.from = run.from
        /\ OutlineWith(r, run, store)
    BY <1>1, <1>2 DEF Starts, Touches
  <1>4. CASE Kept(r)
    <2>1. new.trace = run.trace
      BY <1>1, <1>2, <1>4 DEF Kept
    <2>2. OutlineWith(r, new, store)
      BY <1>3, <2>1 DEF OutlineWith
    <2>3. QED
      BY <1>2, <2>2
  <1>5. CASE Grown(r, Begun(Upcoming(r), runs[r].refs))
    <2>1. PICK e : e = Begun(Upcoming(r), runs[r].refs)
      OBVIOUS
    <2>2. PICK m \in Nat : m = Len(run.trace)
      BY <1>1, TraceShape
    <2>3. /\ DOMAIN new.trace = 1..(m + 1) /\ DOMAIN run.trace = 1..m
          /\ \A k \in 1..m : new.trace[k] = run.trace[k]
          /\ new.trace[m + 1] = e /\ e.node = Upcoming(r) /\ e.inputs = run.refs
      BY <1>1, <1>2, <1>5, <2>1, <2>2, TraceShape DEF Grown, Begun
    <2>4. e.node = "generate_content" /\ Bound(r, run.from, e.inputs) => GoodIn(store, e.inputs[Outline])
      <3>1. Upcoming(r) = "generate_content" =>
               run.ckpt.at \in OutlineNodes /\ run.ckpt.vals.outline_approved
        <4>1. plan \in Plan /\ run.ckpt \in Checkpoint
          BY <1>1, TraceShape DEF RerunsTypeOK
        <4>2. Leads(plan, run.ckpt, Upcoming(r))
          BY <1>1, <4>1, NextStage DEF Upcoming
        <4>3. QED
          BY <4>2 DEF Leads
      <3>2. QED
        BY <1>3, <2>3, <3>1 DEF OutlineWith
    <2>5. \A k \in DOMAIN new.trace :
             new.trace[k].node = "generate_content" /\ Bound(r, run.from, new.trace[k].inputs)
               => GoodIn(store, new.trace[k].inputs[Outline])
      <3>1. ASSUME NEW k \in DOMAIN new.trace, new.trace[k].node = "generate_content",
                   Bound(r, run.from, new.trace[k].inputs)
            PROVE  GoodIn(store, new.trace[k].inputs[Outline])
        <4>1. CASE k \in 1..m
          BY <1>3, <2>3, <3>1, <4>1 DEF OutlineWith
        <4>2. CASE k = m + 1
          BY <2>3, <2>4, <3>1, <4>2
        <4>3. QED
          BY <2>2, <2>3, <4>1, <4>2
      <3>2. QED
        BY <3>1
    <2>6. OutlineWith(r, new, store)
      BY <1>3, <2>5 DEF OutlineWith
    <2>7. QED
      BY <1>2, <2>6
  <1>6. QED
    BY <1>4, <1>5, StartTrace

LEMMA OutlineKept ==
    ASSUME NEW r, NEW run, NEW new, NEW store, OutlineWith(r, run, store), new.from = run.from,
           DOMAIN new.trace = DOMAIN run.trace,
           \A k \in DOMAIN run.trace : /\ new.trace[k].node = run.trace[k].node
                                       /\ new.trace[k].inputs = run.trace[k].inputs,
           Bound(r, new.from, new.refs) /\ new.ckpt.at \in OutlineNodes /\ new.ckpt.vals.outline_approved
             => GoodIn(store, new.refs[Outline])
    PROVE  OutlineWith(r, new, store)
  BY DEF OutlineWith

LEMMA OutlineFinish ==
    ASSUME RerunsTypeOK, FlowInv, plan.outline_gate, NEW r \in DOMAIN runs, NEW v, NEW out,
           Finishes(r, v, out), OutlineWith(r, runs[r], artifacts')
    PROVE  OutlineWith(r, runs'[r], artifacts')
  <1>1. PICK run : run = runs[r]
    OBVIOUS
  <1>2. PICK new : new = runs'[r]
    OBVIOUS
  <1>3. PICK n : n = run.busy
    OBVIOUS
  <1>4. PICK store : store = artifacts'
    OBVIOUS
  <1>5. /\ new.from = run.from /\ new.ckpt.at = n /\ new.ckpt.vals = v
        /\ v \in NodeOutcomes(plan, n, run.ckpt.vals) /\ OutlineWith(r, run, store)
        /\ Leaves(r, v, out) /\ new.refs = Hold(store, run.refs, NewIds(r, out))
    BY <1>1, <1>2, <1>3, <1>4 DEF Finishes, Records, Leaves, Touches
  <1>6. ASSUME n \in OutlineNodes, v.outline_approved PROVE GoodIn(store, new.refs[Outline])
    <2>1. run.ckpt.vals \in GraphState
      BY <1>1, TraceShape DEF Checkpoint
    <2>2. n # "generate_outline"
      <3>1. SUFFICES ASSUME n = "generate_outline" PROVE FALSE
        OBVIOUS
      <3>2. v \in GenerateOutline(plan, run.ckpt.vals)
        BY <1>5, <3>1 DEF NodeOutcomes
      <3>3. ~v.outline_approved
        <4>1. PICK vals \in GraphState : vals = run.ckpt.vals
          BY <2>1
        <4>2. PICK some \in BOOLEAN :
                 v = [vals EXCEPT !.outline = TRUE, !.sections = some,
                                  !.awaiting_outline = plan.outline_gate,
                                  !.outline_approved = ~plan.outline_gate, !.user_decision = "none"]
          BY <3>2, <4>1 DEF GenerateOutline
        <4>3. v.outline_approved = ~plan.outline_gate
          BY <4>1, <4>2, Zenon DEF GraphState
        <4>4. QED
          BY <4>3
      <3>4. QED
        BY <1>6, <3>3
    <2>3. n = "approve_outline"
      BY <1>6, <2>2 DEF OutlineNodes
    <2>4. out = <<Wanted(Outline, run.refs[Outline], TRUE, v.sections)>>
      BY <1>1, <1>3, <1>6, <2>3 DEF Finishes, Records, Outputs
    <2>5. 1 \in 1..Len(out) /\ out[1].slot = Outline
      BY <2>4 DEF Wanted
    <2>6. PICK id : id = new.refs[Outline]
      OBVIOUS
    <2>7. id \in NewIds(r, out)
      BY <1>1, <1>4, <1>5, <2>5, <2>6, LeavePlaces, SlotsShape
    <2>8. QED
      BY <1>1, <1>3, <1>4, <1>5, <2>3, <2>6, <2>7, LeaveGood
  <1>7. /\ DOMAIN new.trace = DOMAIN run.trace
        /\ \A k \in DOMAIN run.trace : /\ new.trace[k].node = run.trace[k].node
                                       /\ new.trace[k].inputs = run.trace[k].inputs
    BY <1>1, <1>2, EndsAlike DEF EndsWith
  <1>8. OutlineWith(r, new, store)
    BY <1>5, <1>6, <1>7, OutlineKept
  <1>9. QED
    BY <1>2, <1>4, <1>8

LEMMA OutlineMoves ==
    ASSUME RerunsTypeOK, FlowInv, plan.outline_gate, NEW r \in DOMAIN runs, Moves(r),
           OutlineWith(r, runs[r], artifacts')
    PROVE  OutlineWith(r, runs'[r], artifacts')
  <1>1. PICK store : store = artifacts'
    OBVIOUS
  <1>2. CASE Starts(r)
    <2>1. OutlineWith(r, runs'[r], store)
      BY <1>1, <1>2, OutlineStart
    <2>2. QED
      BY <1>1, <2>1
  <1>3. CASE \E v, out : Finishes(r, v, out)
    BY <1>3, OutlineFinish
  <1>4. CASE Answers(r) \/ \E v, out : Repeats(r, v, out) \/ Fails(r, v, out) \/ Stops(r, v, out)
    <2>1. PICK run : run = runs[r]
      OBVIOUS
    <2>2. PICK new : new = runs'[r]
      OBVIOUS
    <2>3. /\ new.from = run.from /\ new.refs = run.refs /\ new.ckpt.at = run.ckpt.at
          /\ new.ckpt.vals.outline_approved = run.ckpt.vals.outline_approved
          /\ OutlineWith(r, run, store)
      BY <1>1, <1>4, <2>1, <2>2 DEF Repeats, Records, Fails, Stops, Breaks, Leaves, Answers, Touches
    <2>4. /\ DOMAIN new.trace = DOMAIN run.trace
          /\ \A k \in DOMAIN run.trace : /\ new.trace[k].node = run.trace[k].node
                                         /\ new.trace[k].inputs = run.trace[k].inputs
      BY <1>4, <2>1, <2>2, EndsAlike DEF EndsWith
    <2>5. Bound(r, new.from, new.refs) /\ new.ckpt.at \in OutlineNodes /\ new.ckpt.vals.outline_approved
             => GoodIn(store, new.refs[Outline])
      BY <2>3 DEF OutlineWith
    <2>6. OutlineWith(r, new, store)
      BY <2>3, <2>4, <2>5, OutlineKept
    <2>7. QED
      BY <1>1, <2>2, <2>6
  <1>5. QED
    BY <1>2, <1>3, <1>4 DEF Moves, EndsWith

\* What is placed is the same, whatever was held before.
LEMMA HoldOver ==
    ASSUME NEW store, NEW refs, NEW ids, NEW slot \in Slots,
           Hold(store, NoRefs, ids)[slot] # NoArtifact
    PROVE  Hold(store, refs, ids)[slot] = Hold(store, NoRefs, ids)[slot]
  <1>1. Placed(store, ids, slot) # {}
    BY HoldIs, NoRefsIs
  <1>2. QED
    BY <1>1, HoldIs

\* An outline a rerun takes over to generate content from is one its parent
\* generated content from.
LEMMA OutlineTaken ==
    ASSUME BaseInv, HeldInv, OutlineGateInv, plan.outline_gate, NEW p \in DOMAIN runs,
           "generate_content" \in Executed(p), NEW refs, refs = Preserve(p, "generate_content"),
           refs[Outline] # NoArtifact
    PROVE  GoodIn(artifacts, refs[Outline])
  <1>1. RerunsTypeOK /\ MadeInv /\ FlowInv
    BY DEF BaseInv
  <1>2. PICK trace : trace = runs[p].trace
    OBVIOUS
  <1>3. PICK k : k = FirstPlace(trace, "generate_content")
    OBVIOUS
  <1>4. k \in DOMAIN trace /\ trace[k].node = "generate_content"
    BY <1>1, <1>2, <1>3, FirstShape
  <1>5. PICK start : start = StartOf(runs[p])
    OBVIOUS
  <1>6. PICK ids : ids = MadeBefore(trace, k)
    OBVIOUS
  <1>7. trace[k].inputs[Outline] = Hold(artifacts, start, ids)[Outline]
    <2>1. Outline \in Slots \ SectionSlots
      BY SlotsShape DEF SectionSlots, Outline, Section
    <2>2. Fits(trace[k].inputs[Outline], Hold(artifacts, start, ids)[Outline],
               Outline \in SectionSlots /\ RefinedTwice(trace))
      BY <1>2, <1>3, <1>5, <1>6, <2>1, FirstHolds
    <2>3. QED
      BY <2>1, <2>2 DEF Fits
  <1>8. refs = Hold(artifacts, NoRefs, ids)
    BY <1>2, <1>3, <1>6 DEF Preserve
  <1>9. trace[k].inputs[Outline] = refs[Outline]
    BY <1>7, <1>8, HoldOver, SlotsShape
  <1>10. refs[Outline][1] = p
    BY <1>1, PreserveFrom, SlotsShape
  <1>11. Bound(p, runs[p].from, trace[k].inputs)
    BY <1>9, <1>10 DEF Bound
  <1>12. OutlineWith(p, runs[p], artifacts)
    BY DEF OutlineGateInv
  <1>13. GoodIn(artifacts, trace[k].inputs[Outline])
    BY <1>2, <1>4, <1>11, <1>12 DEF OutlineWith
  <1>14. QED
    BY <1>9, <1>13

LEMMA OutlineNew ==
    ASSUME BaseInv, HeldInv, OutlineGateInv, plan.outline_gate, NEW p \in DOMAIN runs,
           NEW n \in Nodes, NEW ckpt, NEW refs, Adds(p, n, ckpt, refs),
           ckpt.at = NoThread \/ (ckpt = Enters(n, refs) /\ refs = Preserve(p, n)),
           NEW q, q = p + 1
    PROVE  OutlineWith(q, NewRun(p, n, ckpt, refs), artifacts)
  <1>1. RerunsTypeOK /\ MadeInv /\ FlowInv /\ plan \in Plan
    BY DEF BaseInv, RerunsTypeOK
  <1>2. PICK new : new = NewRun(p, n, ckpt, refs)
    OBVIOUS
  <1>3. new.from = n /\ new.refs = refs /\ new.ckpt = ckpt /\ new.trace = << >>
    BY <1>2 DEF NewRun
  <1>4. n \in Allowed \cap Executed(p) /\ p \in Nat
    BY <1>1, RunsShape DEF Adds
  <1>5. ASSUME Bound(q, n, refs), ckpt.at \in OutlineNodes PROVE GoodIn(artifacts, refs[Outline])
    <2>1. ckpt = Enters(n, refs) /\ refs = Preserve(p, n)
      BY <1>5 DEF OutlineNodes, NoThread
    <2>2. Recorded(n) /\ refs[Outline] # NoArtifact
      BY <1>1, <1>4, <1>5, ExecutedNode DEF Bound
    <2>3. n # "parse_intent"
      BY <1>1, <1>4, <1>5, <2>1, <2>2, EnterShape DEF InputCheckpoint, OutlineNodes, Entry
    <2>4. Previous(plan, n) \in OutlineNodes
      BY <1>1, <1>4, <1>5, <2>1, <2>2, <2>3, EnterShape
    <2>5. n \in {"approve_outline", "generate_content"}
      BY <1>1, <2>3, <2>4 DEF Previous, OutlineNodes, Nodes
    <2>6. n # "approve_outline"
      <3>1. refs[Outline][1] = p
        BY <1>1, <1>4, <2>1, <2>2, PreserveFrom, SlotsShape
      <3>2. QED
        BY <1>4, <1>5, <3>1 DEF Bound
    <2>7. QED
      BY <1>4, <2>1, <2>2, <2>5, <2>6, OutlineTaken
  <1>6. DOMAIN new.trace = {}
    BY <1>3
  <1>7. OutlineWith(q, new, artifacts)
    BY <1>3, <1>5, <1>6 DEF OutlineWith
  <1>8. QED
    BY <1>2, <1>7

LEMMA OutlineNow ==
    ASSUME NEW q, NEW new, new = runs'[q], OutlineWith(q, new, artifacts')
    PROVE  OutlineWith(q, runs[q], artifacts)'
  BY DEF OutlineWith

LEMMA OutlineAdds ==
    ASSUME BaseInv, HeldInv, OutlineGateInv, plan.outline_gate, NEW p \in DOMAIN runs,
           NEW n \in Nodes, NEW ckpt, NEW refs, Adds(p, n, ckpt, refs),
           ckpt.at = NoThread \/ (ckpt = Enters(n, refs) /\ refs = Preserve(p, n))
    PROVE  OutlineGateInv'
  <1>1. RerunsTypeOK /\ ParentInv
    BY DEF BaseInv
  <1>2. PICK q : q = p + 1
    OBVIOUS
  <1>3. /\ \A x \in DOMAIN runs : runs'[x] = runs[x]
        /\ runs'[q] = NewRun(p, n, ckpt, refs)
        /\ \A x \in DOMAIN runs' : x \in DOMAIN runs \/ x = q
        /\ artifacts' = artifacts
    BY <1>1, <1>2, AddsParents DEF Adds
  <1>4. ASSUME NEW x \in DOMAIN runs PROVE OutlineWith(x, runs[x], artifacts)'
    <2>1. PICK new : new = runs'[x]
      OBVIOUS
    <2>2. OutlineWith(x, new, artifacts')
      BY <1>3, <2>1 DEF OutlineGateInv
    <2>3. QED
      BY <2>1, <2>2, OutlineNow
  <1>5. OutlineWith(q, runs[q], artifacts)'
    <2>1. PICK new : new = NewRun(p, n, ckpt, refs)
      OBVIOUS
    <2>2. OutlineWith(q, new, artifacts)
      BY <1>2, <2>1, OutlineNew
    <2>3. new = runs'[q] /\ OutlineWith(q, new, artifacts')
      BY <1>3, <2>1, <2>2
    <2>4. QED
      BY <2>3, OutlineNow
  <1>6. QED
    BY <1>3, <1>4, <1>5 DEF OutlineGateInv

LEMMA OutlineStep ==
    BaseInv /\ HeldInv /\ OutlineGateInv /\ Next /\ ~edited' => OutlineGateInv'
  <1>. SUFFICES ASSUME BaseInv, HeldInv, OutlineGateInv, Next, ~edited' PROVE OutlineGateInv'
    OBVIOUS
  <1>1. RerunsTypeOK /\ VersionsBounded /\ ParentInv /\ MadeInv /\ FlowInv
    BY DEF BaseInv
  <1>2. PICK r \in DOMAIN runs : Moves(r) \/ \E n \in Nodes : Reruns(r, n) \/ NotStarted(r, n)
    BY <1>1, StepShape
  <1>3. plan' = plan
    BY <1>1, <1>2, MoveStore DEF Reruns, NotStarted, Adds, Touches
  <1>4. CASE ~plan.outline_gate
    BY <1>3, <1>4 DEF OutlineGateInv
  <1>5. CASE plan.outline_gate
    <2>1. ASSUME Moves(r) PROVE OutlineGateInv'
      <3>1. Touches(r) /\ Stable
        BY <1>1, <2>1, MoveStore
      <3>2. ASSUME NEW x \in DOMAIN runs PROVE OutlineWith(x, runs[x], artifacts)'
        <4>1. OutlineWith(x, runs[x], artifacts')
          BY <1>1, <1>5, <3>1, OutlineStays DEF OutlineGateInv
        <4>2. PICK new : new = runs'[x]
          OBVIOUS
        <4>3. OutlineWith(x, new, artifacts')
          <5>1. CASE x = r
            BY <1>1, <1>5, <2>1, <4>1, <4>2, <5>1, OutlineMoves
          <5>2. CASE x # r
            BY <3>1, <4>1, <4>2, <5>2 DEF Touches
          <5>3. QED
            BY <5>1, <5>2
        <4>4. QED
          BY <4>2, <4>3, OutlineNow
      <3>3. DOMAIN runs' = DOMAIN runs
        BY <3>1 DEF Touches
      <3>4. QED
        BY <3>2, <3>3 DEF OutlineGateInv
    <2>2. ASSUME NEW n \in Nodes, Reruns(r, n) PROVE OutlineGateInv'
      <3>1. PICK refs : refs = Preserve(r, n)
        OBVIOUS
      <3>2. PICK ckpt : ckpt = Enters(n, refs)
        OBVIOUS
      <3>3. Adds(r, n, ckpt, refs)
        BY <2>2, <3>1, <3>2 DEF Reruns
      <3>4. QED
        BY <1>5, <3>1, <3>2, <3>3, OutlineAdds
    <2>3. ASSUME NEW n \in Nodes, NotStarted(r, n) PROVE OutlineGateInv'
      <3>1. PICK ckpt : ckpt = NoCheckpoint
        OBVIOUS
      <3>2. Adds(r, n, ckpt, NoRefs) /\ ckpt.at = NoThread
        BY <2>3, <3>1 DEF NotStarted, NoCheckpoint
      <3>3. QED
        BY <1>5, <3>2, OutlineAdds
    <2>4. QED
      BY <1>2, <2>1, <2>2, <2>3
  <1>6. QED
    BY <1>4, <1>5

LEMMA GateInit == Init => OutlineGateInv /\ FactGateInv /\ DoneInv
  <1>. SUFFICES ASSUME Init PROVE OutlineGateInv /\ FactGateInv /\ DoneInv
    OBVIOUS
  <1>1. PICK run : run = NewRun(0, Original, InputCheckpoint, NoRefs)
    OBVIOUS
  <1>2. DOMAIN runs = {1} /\ runs[1] = run
    BY <1>1 DEF Init
  <1>3. run.ckpt.at = Entry /\ DOMAIN run.trace = {} /\ run.status = "running"
    BY <1>1 DEF NewRun, InputCheckpoint
  <1>4. OutlineWith(1, run, artifacts)
    BY <1>3 DEF OutlineWith, OutlineNodes, Entry
  <1>5. FactsWith(run, artifacts)
    BY <1>3 DEF FactsWith, Entry
  <1>6. QED
    BY <1>2, <1>3, <1>4, <1>5 DEF OutlineGateInv, FactGateInv, DoneInv, DoneOf

-----------------------------------------------------------------------------
(* The fact-check gate. *)

LEMMA FactsStay ==
    ASSUME RerunsTypeOK, MadeInv, Stable, NEW q \in DOMAIN runs, FactsWith(runs[q], artifacts)
    PROVE  FactsWith(runs[q], artifacts')
  <1>1. PICK run : run = runs[q]
    OBVIOUS
  <1>2. FactsWith(run, artifacts) /\ Stocked(run.refs) /\ Report \in Slots
    BY <1>1, SlotsShape DEF MadeInv, MadeOf
  <1>3. run.refs[Report] # NoArtifact =>
           GoodIn(artifacts', run.refs[Report]) = GoodIn(artifacts, run.refs[Report])
    BY <1>2, GoodStays DEF Stocked
  <1>4. FactsWith(run, artifacts')
    BY <1>2, <1>3 DEF FactsWith
  <1>5. QED
    BY <1>1, <1>4

\* A run that goes on to "finalize" has come from a gate that was passed, or
\* from a stage before the report is made.
LEMMA FactsBefore ==
    ASSUME RerunsTypeOK, FlowInv, NEW r \in DOMAIN runs, NEW store, FactsWith(runs[r], store),
           NextNode(plan, runs[r].ckpt) = "finalize", runs[r].from # "approve_fact_check",
           ~runs[r].waived, runs[r].refs[Report] # NoArtifact
    PROVE  GoodIn(store, runs[r].refs[Report])
  <1>1. PICK run : run = runs[r]
    OBVIOUS
  <1>2. plan \in Plan /\ run.ckpt \in Checkpoint /\ FlowOf(run)
    BY <1>1, TraceShape DEF RerunsTypeOK, FlowInv
  <1>3. NextNode(plan, run.ckpt) = "finalize"
    BY <1>1
  <1>4. Leads(plan, run.ckpt, "finalize")
    BY <1>2, <1>3, NextStage
  <1>5. ~(Stage(run.ckpt.at) < 7)
    BY <1>1, <1>2, FirstIs, SlotsShape DEF FlowOf, EmptyOf
  <1>6. run.ckpt.at \in {"check_facts", "approve_fact_check"}
    <2>1. Stage(run.ckpt.at) \in {7, 8}
      BY <1>4, <1>5, StageIs DEF Leads, OutlineNodes
    <2>2. run.ckpt.at \in Nodes \cup {NoThread, Entry}
      BY <1>2 DEF Checkpoint
    <2>3. QED
      BY <2>1, <2>2, StageIs DEF Nodes
  <1>7. CASE run.ckpt.at = "approve_fact_check"
    BY <1>1, <1>7 DEF FactsWith
  <1>8. CASE run.ckpt.at = "check_facts"
    <2>1. AfterFactCheck(run.ckpt.vals) = "finalize"
      BY <1>4, <1>8 DEF Leads
    <2>2. /\ run.ckpt.vals.report
          /\ \/ GoodIn(store, run.refs[Report])
             \/ run.ckpt.vals.awaiting_fact_check \/ run.ckpt.vals.fact_answers # "none"
      BY <1>1, <1>8 DEF FactsWith
    <2>3. ~run.ckpt.vals.awaiting_fact_check /\ ~(run.ckpt.vals.fact_answers # "none")
      BY <2>1, <2>2 DEF AfterFactCheck, End
    <2>4. QED
      BY <1>1, <2>2, <2>3
  <1>9. QED
    BY <1>6, <1>7, <1>8

LEMMA FactsFinish ==
    ASSUME RerunsTypeOK, FlowInv, plan.fact_check_gate, NEW r \in DOMAIN runs, NEW v, NEW out,
           Finishes(r, v, out), FactsWith(runs[r], artifacts')
    PROVE  FactsWith(runs'[r], artifacts')
  <1>1. PICK new : new = runs'[r]
    OBVIOUS
  <1>2. PICK n : n = runs[r].busy
    OBVIOUS
  <1>3. PICK store : store = artifacts'
    OBVIOUS
  <1>4. PICK id : id = new.refs[Report]
    OBVIOUS
  <1>5. /\ new.from = runs[r].from /\ new.ckpt.at = n /\ new.ckpt.vals = v
        /\ v \in NodeOutcomes(plan, n, runs[r].ckpt.vals) /\ n \in Nodes
        /\ FactsWith(runs[r], store) /\ Report \in Slots
        /\ Leaves(r, v, out) /\ new.refs = Hold(store, runs[r].refs, NewIds(r, out))
        /\ ~new.waived => ~runs[r].waived
    BY <1>1, <1>2, <1>3, SlotsShape DEF Finishes, Records, Leaves, Touches
  <1>6. PICK revised \in Revisions : out = Outputs(r, n, v, revised)
    BY <1>2 DEF Finishes, Records
  <1>7. CASE n = "check_facts"
    <2>1. 1 \in 1..Len(out) /\ out[1].slot = Report
      BY <1>6, <1>7 DEF Outputs, Wanted
    <2>2. id \in NewIds(r, out) /\ id # NoArtifact
      BY <1>3, <1>4, <1>5, <2>1, LeavePlaces
    <2>3. ~v.risky => GoodIn(store, id)
      BY <1>2, <1>3, <1>5, <1>7, <2>2, LeaveGood
    <2>4. v.report /\ (v.risky => v.awaiting_fact_check)
      <3>1. runs[r].ckpt.vals \in GraphState
        BY TraceShape DEF Checkpoint
      <3>2. v \in CheckFacts(plan, runs[r].ckpt.vals)
        BY <1>5, <1>7 DEF NodeOutcomes
      <3>3. PICK vals \in GraphState : vals = runs[r].ckpt.vals
        BY <3>1
      <3>4. PICK risky \in BOOLEAN :
               v = [vals EXCEPT !.report = TRUE, !.risky = risky, !.fact_answers = "none",
                                !.awaiting_fact_check = risky /\ plan.fact_check_gate]
        BY <3>2, <3>3 DEF CheckFacts
      <3>5. PICK awaiting \in BOOLEAN : awaiting = (risky /\ plan.fact_check_gate)
        BY DEF Plan, RerunsTypeOK
      <3>6. v = [vals EXCEPT !.report = TRUE, !.risky = risky, !.fact_answers = "none",
                             !.awaiting_fact_check = awaiting]
        BY <3>4, <3>5
      <3>7. v.report /\ v.risky = risky /\ v.awaiting_fact_check = awaiting
        BY <3>3, <3>6 DEF GraphState
      <3>8. QED
        BY <3>5, <3>7
    <2>5. FactsWith(new, store)
      BY <1>4, <1>5, <1>7, <2>2, <2>3, <2>4 DEF FactsWith
    <2>6. QED
      BY <1>1, <1>3, <2>5
  <1>8. CASE n = "approve_fact_check"
    <2>1. 1 \in 1..Len(out) /\ out[1].slot = Report
      BY <1>6, <1>8 DEF Outputs, Wanted
    <2>2. id \in NewIds(r, out)
      BY <1>3, <1>4, <1>5, <2>1, LeavePlaces
    <2>3. GoodIn(store, id)
      BY <1>2, <1>3, <1>5, <1>8, <2>2, LeaveGood
    <2>4. FactsWith(new, store)
      BY <1>4, <1>5, <1>8, <2>3 DEF FactsWith
    <2>5. QED
      BY <1>1, <1>3, <2>4
  <1>9. CASE n = "finalize"
    <2>1. id = runs[r].refs[Report]
      <3>1. Report \notin Makes("finalize")
        BY DEF Makes, Report, Final
      <3>2. \A x \in NewIds(r, out) : Get(x)'.slot \in Makes("finalize")
        BY <1>2, <1>5, <1>9, LeaveMakes
      <3>3. \/ id = runs[r].refs[Report]
            \/ id \in NewIds(r, out) /\ Get(id)'.slot = Report
        BY <1>3, <1>4, <1>5, LeaveHolds
      <3>4. QED
        BY <3>1, <3>2, <3>3
    <2>2. new.from # "approve_fact_check" /\ ~new.waived /\ id # NoArtifact => GoodIn(store, id)
      <3>1. NextNode(plan, runs[r].ckpt) = "finalize"
        BY <1>2, <1>5, <1>9, BusyBefore
      <3>2. QED
        BY <1>5, <2>1, <3>1, FactsBefore
    <2>3. FactsWith(new, store)
      BY <1>4, <1>5, <1>9, <2>2 DEF FactsWith
    <2>4. QED
      BY <1>1, <1>3, <2>3
  <1>10. CASE n \notin {"check_facts", "approve_fact_check", "finalize"}
    <2>1. FactsWith(new, store)
      BY <1>5, <1>10 DEF FactsWith
    <2>2. QED
      BY <1>1, <1>3, <2>1
  <1>11. QED
    BY <1>7, <1>8, <1>9, <1>10

LEMMA FactsMove ==
    ASSUME RerunsTypeOK, FlowInv, plan.fact_check_gate, NEW r \in DOMAIN runs, Moves(r),
           FactsWith(runs[r], artifacts')
    PROVE  FactsWith(runs'[r], artifacts')
  <1>1. PICK store : store = artifacts'
    OBVIOUS
  <1>2. PICK run : run = runs[r]
    OBVIOUS
  <1>3. PICK new : new = runs'[r]
    OBVIOUS
  <1>4. FactsWith(run, store)
    BY <1>1, <1>2
  <1>5. CASE \/ Starts(r)
             \/ \E v, out : Repeats(r, v, out) \/ Fails(r, v, out) \/ Stops(r, v, out)
    <2>1. /\ new.from = run.from /\ new.refs = run.refs /\ new.ckpt = run.ckpt
          /\ ~new.waived => ~run.waived
      BY <1>2, <1>3, <1>5 DEF Starts, Repeats, Records, Fails, Stops, Breaks, Leaves, Touches
    <2>2. FactsWith(new, store)
      BY <1>4, <2>1 DEF FactsWith
    <2>3. QED
      BY <1>1, <1>3, <2>2
  <1>6. CASE Answers(r)
    <2>1. /\ new.from = run.from /\ new.refs = run.refs /\ new.ckpt.at = run.ckpt.at
          /\ new.ckpt.vals.report = run.ckpt.vals.report
          /\ \/ /\ new.ckpt.vals.awaiting_fact_check = run.ckpt.vals.awaiting_fact_check
                /\ new.ckpt.vals.fact_answers = run.ckpt.vals.fact_answers
             \/ new.ckpt.vals.fact_answers # "none" \/ new.waived
          /\ ~new.waived => ~run.waived
      BY <1>2, <1>3, <1>6 DEF Answers, Touches
    <2>2. FactsWith(new, store)
      BY <1>4, <2>1 DEF FactsWith
    <2>3. QED
      BY <1>1, <1>3, <2>2
  <1>7. CASE \E v, out : Finishes(r, v, out)
    BY <1>7, FactsFinish
  <1>8. QED
    BY <1>5, <1>6, <1>7 DEF Moves, EndsWith

LEMMA FactsNew ==
    ASSUME RerunsTypeOK, FlowInv, NEW p \in DOMAIN runs, NEW n \in Nodes, NEW ckpt, NEW refs,
           Adds(p, n, ckpt, refs), ckpt.at = NoThread \/ ckpt = Enters(n, refs), NEW store
    PROVE  FactsWith(NewRun(p, n, ckpt, refs), store)
  <1>1. PICK new : new = NewRun(p, n, ckpt, refs)
    OBVIOUS
  <1>2. new.from = n /\ new.ckpt = ckpt
    BY <1>1 DEF NewRun
  <1>3. n \in Allowed \cap Executed(p) /\ plan \in Plan
    BY DEF Adds, RerunsTypeOK
  <1>4. n # "approve_fact_check" => ckpt.at \notin {"check_facts", "approve_fact_check", "finalize"}
    <2>1. SUFFICES ASSUME n # "approve_fact_check", ckpt = Enters(n, refs)
                   PROVE  ckpt.at \notin {"check_facts", "approve_fact_check", "finalize"}
      BY DEF NoThread
    <2>2. Recorded(n) /\ n # "finalize"
      BY <1>3, ExecutedNode
    <2>3. CASE n = "parse_intent"
      BY <1>3, <2>1, <2>2, <2>3, EnterShape DEF InputCheckpoint, Entry
    <2>4. CASE n # "parse_intent"
      <3>1. ckpt.at = Previous(plan, n)
        BY <1>3, <2>1, <2>2, <2>4, EnterShape
      <3>2. QED
        BY <2>1, <2>2, <2>4, <3>1 DEF Previous, Nodes
    <2>5. QED
      BY <2>3, <2>4
  <1>5. FactsWith(new, store)
    BY <1>2, <1>4 DEF FactsWith
  <1>6. QED
    BY <1>1, <1>5

LEMMA DoneMove ==
    ASSUME RerunsTypeOK, FlowInv, NEW r \in DOMAIN runs, Moves(r)
    PROVE  DoneOf(runs'[r])
  <1>1. SUFFICES ASSUME runs'[r].status = "completed"
                 PROVE  \/ runs'[r].ckpt.at = "finalize"
                        \/ NextNode(plan, runs'[r].ckpt) = "finalize"
    BY DEF DoneOf
  <1>2. PICK v, out : EndsWith(r, v, out)
    BY <1>1 DEF Moves, Starts, Answers
  <1>3. runs[r].busy \in Nodes
    BY <1>2 DEF EndsWith, Finishes, Repeats, Records, Fails, Stops, Breaks, Leaves
  <1>4. runs[r].status = "running" /\ runs[r].busy = NextNode(plan, runs[r].ckpt)
    BY <1>3, BusyBefore
  <1>5. Finishes(r, v, out) \/ Repeats(r, v, out)
    <2>1. ~Fails(r, v, out)
      BY <1>1 DEF Fails
    <2>2. ~Stops(r, v, out)
      BY <1>1, <1>4 DEF Stops
    <2>3. QED
      BY <1>2, <2>1, <2>2 DEF EndsWith
  <1>6. runs[r].busy = "finalize"
    BY <1>1, <1>4, <1>5 DEF Finishes, Repeats, Records
  <1>7. CASE Finishes(r, v, out)
    BY <1>6, <1>7 DEF Finishes
  <1>8. CASE Repeats(r, v, out)
    <2>1. runs'[r].ckpt = runs[r].ckpt
      BY <1>8 DEF Repeats
    <2>2. QED
      BY <1>4, <1>6, <2>1
  <1>9. QED
    BY <1>5, <1>7, <1>8

LEMMA FactsAdds ==
    ASSUME BaseInv, FactGateInv, DoneInv, NEW p \in DOMAIN runs, NEW n \in Nodes, NEW ckpt,
           NEW refs, Adds(p, n, ckpt, refs), ckpt.at = NoThread \/ ckpt = Enters(n, refs)
    PROVE  FactGateInv' /\ DoneInv'
  <1>1. RerunsTypeOK /\ ParentInv /\ FlowInv
    BY DEF BaseInv
  <1>2. PICK q : q = p + 1
    OBVIOUS
  <1>3. PICK new : new = NewRun(p, n, ckpt, refs)
    OBVIOUS
  <1>4. /\ \A x \in DOMAIN runs : runs'[x] = runs[x]
        /\ runs'[q] = new
        /\ \A x \in DOMAIN runs' : x \in DOMAIN runs \/ x = q
        /\ artifacts' = artifacts /\ plan' = plan
    BY <1>1, <1>2, <1>3, AddsParents DEF Adds
  <1>5. FactsWith(new, artifacts) /\ new.status = "running"
    BY <1>1, <1>3, FactsNew DEF NewRun
  <1>6. FactGateInv'
    <2>1. plan.fact_check_gate => \A x \in DOMAIN runs' : FactsWith(runs'[x], artifacts)
      BY <1>4, <1>5 DEF FactGateInv
    <2>2. QED
      BY <1>4, <2>1 DEF FactGateInv
  <1>7. DoneInv'
    BY <1>4, <1>5 DEF DoneInv, DoneOf
  <1>8. QED
    BY <1>6, <1>7

LEMMA FactsStep ==
    BaseInv /\ FactGateInv /\ DoneInv /\ Next /\ ~edited' => FactGateInv' /\ DoneInv'
  <1>. SUFFICES ASSUME BaseInv, FactGateInv, DoneInv, Next, ~edited' PROVE FactGateInv' /\ DoneInv'
    OBVIOUS
  <1>1. RerunsTypeOK /\ VersionsBounded /\ ParentInv /\ MadeInv /\ FlowInv
    BY DEF BaseInv
  <1>2. PICK r \in DOMAIN runs : Moves(r) \/ \E n \in Nodes : Reruns(r, n) \/ NotStarted(r, n)
    BY <1>1, StepShape
  <1>3. ASSUME Moves(r) PROVE FactGateInv' /\ DoneInv'
    <2>1. Touches(r) /\ Stable
      BY <1>1, <1>3, MoveStore
    <2>2. DOMAIN runs' = DOMAIN runs /\ plan' = plan
      BY <2>1 DEF Touches
    <2>3. PICK store : store = artifacts'
      OBVIOUS
    <2>4. ASSUME plan.fact_check_gate, NEW x \in DOMAIN runs PROVE FactsWith(runs'[x], store)
      <3>1. FactsWith(runs[x], artifacts')
        BY <1>1, <2>1, <2>4, FactsStay DEF FactGateInv
      <3>2. CASE x = r
        <4>1. FactsWith(runs'[r], artifacts')
          BY <1>1, <1>3, <2>4, <3>1, <3>2, FactsMove
        <4>2. QED
          BY <2>3, <3>2, <4>1
      <3>3. CASE x # r
        <4>1. runs'[x] = runs[x]
          BY <2>1, <3>3 DEF Touches
        <4>2. QED
          BY <2>3, <3>1, <4>1
      <3>4. QED
        BY <3>2, <3>3
    <2>5. FactGateInv'
      BY <2>2, <2>3, <2>4 DEF FactGateInv
    <2>6. ASSUME NEW x \in DOMAIN runs PROVE DoneOf(runs'[x])
      <3>1. CASE x = r
        BY <1>1, <1>3, <2>6, <3>1, DoneMove
      <3>2. CASE x # r
        BY <2>1, <2>6, <3>2 DEF Touches, DoneInv
      <3>3. QED
        BY <3>1, <3>2
    <2>7. DoneInv'
      BY <2>2, <2>6 DEF DoneInv, DoneOf
    <2>8. QED
      BY <2>5, <2>7
  <1>4. ASSUME NEW n \in Nodes, Reruns(r, n) PROVE FactGateInv' /\ DoneInv'
    <2>1. PICK refs : refs = Preserve(r, n)
      OBVIOUS
    <2>2. PICK ckpt : ckpt = Enters(n, refs)
      OBVIOUS
    <2>3. Adds(r, n, ckpt, refs)
      BY <1>4, <2>1, <2>2 DEF Reruns
    <2>4. QED
      BY <2>2, <2>3, FactsAdds
  <1>5. ASSUME NEW n \in Nodes, NotStarted(r, n) PROVE FactGateInv' /\ DoneInv'
    <2>1. PICK ckpt : ckpt = NoCheckpoint
      OBVIOUS
    <2>2. Adds(r, n, ckpt, NoRefs) /\ ckpt.at = NoThread
      BY <1>5, <2>1 DEF NotStarted, NoCheckpoint
    <2>3. QED
      BY <2>2, FactsAdds
  <1>6. QED
    BY <1>2, <1>3, <1>4, <1>5

LEMMA GateStutter ==
    OutlineGateInv /\ FactGateInv /\ DoneInv /\ UNCHANGED vars
      => OutlineGateInv' /\ FactGateInv' /\ DoneInv'
  BY DEF vars, OutlineGateInv, FactGateInv, DoneInv, DoneOf

GateInv == OutlineGateInv /\ FactGateInv /\ DoneInv

LEMMA GatesBind == BaseInv /\ GateInv => GatesBindReruns
  <1>. SUFFICES ASSUME BaseInv, GateInv PROVE GatesBindReruns
    OBVIOUS
  <1>1. ASSUME NEW r \in DOMAIN runs, plan.outline_gate, runs[r].from # "approve_outline",
               NEW k \in DOMAIN runs[r].trace, runs[r].trace[k].node = "generate_content"
        PROVE  Get(runs[r].trace[k].inputs[Outline]).good
    <2>1. PICK e : e = runs[r].trace[k]
      OBVIOUS
    <2>2. ~MissingAtOnce(e.node, e.inputs)
      BY <2>1 DEF BaseInv, FlowInv, FlowOf, TraceOf
    <2>3. e.inputs[Outline] # NoArtifact
      BY <1>1, <2>1, <2>2 DEF MissingAtOnce
    <2>4. Bound(r, runs[r].from, e.inputs)
      BY <1>1, <2>3 DEF Bound
    <2>5. OutlineWith(r, runs[r], artifacts)
      BY <1>1 DEF GateInv, OutlineGateInv
    <2>6. GoodIn(artifacts, e.inputs[Outline])
      BY <1>1, <2>1, <2>4, <2>5 DEF OutlineWith
    <2>7. QED
      BY <2>1, <2>6 DEF GoodIn, Get
  <1>2. ASSUME NEW r \in DOMAIN runs, plan.fact_check_gate, runs[r].from # "approve_fact_check",
               ~runs[r].waived, runs[r].status = "completed", runs[r].refs[Report] # NoArtifact
        PROVE  Get(runs[r].refs[Report]).good
    <2>1. FactsWith(runs[r], artifacts) /\ DoneOf(runs[r])
      BY <1>2 DEF GateInv, FactGateInv, DoneInv
    <2>2. CASE runs[r].ckpt.at = "finalize"
      BY <1>2, <2>1, <2>2 DEF FactsWith, GoodIn, Get
    <2>3. CASE NextNode(plan, runs[r].ckpt) = "finalize"
      BY <1>2, <2>1, <2>3, FactsBefore DEF BaseInv, GoodIn, Get
    <2>4. QED
      BY <1>2, <2>1, <2>2, <2>3 DEF DoneOf
  <1>3. QED
    BY <1>1, <1>2 DEF GatesBindReruns

\* Theorem: content is generated from an accepted outline, and a run ends with an
\* open report only without the gate, or when the gate was answered without a
\* decision; in a rerun as well, unless the rerun was asked to start from the gate's
\* own node; all this until a rerun is edited.
THEOREM GatesAlwaysBind == Spec => []GatesBindReruns
  <1>1. Init => BaseInv /\ OriginInv /\ HeldInv /\ GateInv
    BY BaseInit, OriginInit, HeldInit, GateInit DEF GateInv
  <1>2. BaseInv /\ OriginInv /\ HeldInv /\ GateInv /\ [Next]_vars
          => edited' \/ (BaseInv /\ OriginInv /\ HeldInv /\ GateInv)'
    BY BaseStep, BaseStutter, OriginStep, HeldStep, HeldStutter, OutlineStep, FactsStep, GateStutter
       DEF GateInv
  <1>3. BaseInv /\ GateInv => GatesBindReruns
    BY GatesBind
  <1>4. edited => GatesBindReruns
    BY DEF GatesBindReruns
  <1>5. QED
    BY <1>1, <1>2, <1>3, <1>4, EditedStays, PTL DEF Spec

-----------------------------------------------------------------------------
(* Content. *)

LEMMA FullStays ==
    ASSUME Stable, NEW id, Exists(id)
    PROVE  FullIn(artifacts', id) = FullIn(artifacts, id)
  <1>1. Get(id)' = Get(id)
    BY DEF Stable
  <1>2. QED
    BY <1>1 DEF Get, FullIn

LEMMA WrittenStays ==
    ASSUME Stable, NEW refs, Stocked(refs), refs[Outline] # NoArtifact
    PROVE  FullIn(artifacts', refs[Outline]) = FullIn(artifacts, refs[Outline])
  <1>1. PICK id : id = refs[Outline]
    OBVIOUS
  <1>2. Exists(id)
    BY <1>1, SlotsShape DEF Stocked
  <1>3. FullIn(artifacts', id) = FullIn(artifacts, id)
    BY <1>2, FullStays
  <1>4. QED
    BY <1>1, <1>3

LEMMA ContentStays ==
    ASSUME RerunsTypeOK, MadeInv, Stable, NEW q \in DOMAIN runs, ContentWith(runs[q], artifacts)
    PROVE  ContentWith(runs[q], artifacts')
  <1>1. PICK run : run = runs[q]
    OBVIOUS
  <1>2. ContentWith(run, artifacts)
    BY <1>1
  <1>3. Stocked(run.refs) /\ \A k \in DOMAIN run.trace : Stocked(run.trace[k].inputs)
    BY <1>1 DEF MadeInv, MadeOf
  <1>4. ASSUME NEW refs, Stocked(refs) PROVE Written(artifacts', refs) <=> Written(artifacts, refs)
    BY <1>4, WrittenStays DEF Written
  <1>5. run.refs[Outline] # NoArtifact =>
           FullIn(artifacts', run.refs[Outline]) = FullIn(artifacts, run.refs[Outline])
    BY <1>3, WrittenStays
  <1>6. ContentWith(run, artifacts')
    BY <1>2, <1>3, <1>4, <1>5 DEF ContentWith
  <1>7. QED
    BY <1>1, <1>6

LEMMA ContentStart ==
    ASSUME RerunsTypeOK, NEW r \in DOMAIN runs, Starts(r), NEW store, ContentWith(runs[r], store)
    PROVE  ContentWith(runs'[r], store)
  <1>1. PICK run : run = runs[r]
    OBVIOUS
  <1>2. PICK new : new = runs'[r]
    OBVIOUS
  <1>3. /\ new.refs = run.refs /\ new.ckpt = run.ckpt /\ new.status # "completed"
        /\ ContentWith(run, store) /\ Upcoming(r) \in Nodes
    BY <1>1, <1>2 DEF Starts
  <1>4. CASE Kept(r)
    <2>1. new.trace = run.trace
      BY <1>1, <1>2, <1>4 DEF Kept
    <2>2. ContentWith(new, store)
      BY <1>3, <2>1 DEF ContentWith
    <2>3. QED
      BY <1>2, <2>2
  <1>5. CASE Grown(r, Begun(Upcoming(r), runs[r].refs))
    <2>1. PICK e : e = Begun(Upcoming(r), runs[r].refs)
      OBVIOUS
    <2>2. PICK m \in Nat : m = Len(run.trace)
      BY <1>1, TraceShape
    <2>3. /\ DOMAIN new.trace = 1..(m + 1) /\ DOMAIN run.trace = 1..m
          /\ \A k \in 1..m : new.trace[k] = run.trace[k]
          /\ new.trace[m + 1] = e /\ e.node = Upcoming(r) /\ e.inputs = run.refs
      BY <1>1, <1>2, <1>5, <2>1, <2>2, TraceShape DEF Grown, Begun
    <2>4. Stage(e.node) >= 6 => Written(store, e.inputs)
      <3>1. plan \in Plan /\ run.ckpt \in Checkpoint
        BY <1>1, TraceShape DEF RerunsTypeOK
      <3>2. Leads(plan, run.ckpt, Upcoming(r))
        BY <1>1, <3>1, NextStage DEF Upcoming
      <3>3. Stage(e.node) >= 6 => Stage(run.ckpt.at) >= 5
        BY <1>3, <2>3, <3>2 DEF Leads, Nodes, End
      <3>4. QED
        BY <1>3, <2>3, <3>3 DEF ContentWith
    <2>5. ASSUME NEW k \in DOMAIN new.trace, Stage(new.trace[k].node) >= 6
          PROVE  Written(store, new.trace[k].inputs)
      <3>1. CASE k \in 1..m
        BY <1>3, <2>3, <2>5, <3>1 DEF ContentWith
      <3>2. CASE k = m + 1
        BY <2>3, <2>4, <2>5, <3>2
      <3>3. QED
        BY <2>2, <2>3, <2>5, <3>1, <3>2
    <2>6. ContentWith(new, store)
      BY <1>3, <2>5 DEF ContentWith
    <2>7. QED
      BY <1>2, <2>6
  <1>6. QED
    BY <1>4, <1>5, StartTrace

\* A run keeps what it knows of its contents when its node runs stay, and its
\* checkpoint, its artifacts and its end say what they should.
LEMMA ContentKept ==
    ASSUME NEW run, NEW new, NEW store, ContentWith(run, store), DOMAIN new.trace = DOMAIN run.trace,
           \A k \in DOMAIN run.trace : /\ new.trace[k].node = run.trace[k].node
                                       /\ new.trace[k].inputs = run.trace[k].inputs,
           Stage(new.ckpt.at) >= 5 =>
             Written(store, new.refs) /\ (new.ckpt.vals.sections => new.ckpt.vals.draft),
           new.ckpt.at \in OutlineNodes /\ new.ckpt.vals.outline_approved
             /\ new.refs[Outline] # NoArtifact /\ FullIn(store, new.refs[Outline])
             => new.ckpt.vals.sections,
           new.status = "completed" /\ new.ckpt.vals.sections => new.final # NoArtifact
    PROVE  ContentWith(new, store)
  BY DEF ContentWith

\* The last node of a run with drafts makes a final content, or has one already.
LEMMA LastHolds ==
    ASSUME RerunsTypeOK, FlowInv, NEW r \in DOMAIN runs, NEW v, NEW out, Records(r, v, out),
           ContentWith(runs[r], artifacts'), runs'[r].status = "completed",
           runs[r].ckpt.vals.sections
    PROVE  runs'[r].final # NoArtifact
  <1>1. PICK run : run = runs[r]
    OBVIOUS
  <1>2. PICK new : new = runs'[r]
    OBVIOUS
  <1>3. PICK store : store = artifacts'
    OBVIOUS
  <1>4. Leaves(r, v, out) /\ run.busy \in Nodes /\ ContentWith(run, store)
    BY <1>1, <1>3 DEF Records, Leaves
  <1>5. run.busy = NextNode(plan, run.ckpt) /\ run.status = "running"
    BY <1>1, <1>4, BusyBefore
  <1>6. run.busy = "finalize" /\ new.final = Hold(store, run.refs, NewIds(r, out))[Final]
    BY <1>1, <1>2, <1>3, <1>5 DEF Records
  <1>7. run.ckpt \in Checkpoint /\ plan \in Plan /\ run.ckpt.vals \in GraphState
    BY <1>1, TraceShape DEF RerunsTypeOK, Checkpoint
  <1>8. Stage(run.ckpt.at) >= 5
    <2>1. Leads(plan, run.ckpt, "finalize")
      BY <1>5, <1>6, <1>7, NextStage
    <2>2. QED
      BY <2>1, StageIs DEF Leads
  <1>9. run.ckpt.vals.draft
    BY <1>1, <1>4, <1>8 DEF ContentWith
  <1>10. v.draft
    <2>1. v \in NodeOutcomes(plan, "finalize", run.ckpt.vals) /\ "finalize" \in Nodes
      BY <1>1, <1>6 DEF Records, Nodes
    <2>2. v.draft = run.ckpt.vals.draft
      BY <1>7, <2>1, OutcomeKeeps
    <2>3. QED
      BY <1>9, <2>2
  <1>11. Final \in Slots
    BY SlotsShape
  <1>12. PICK id : id = Hold(store, run.refs, NewIds(r, out))[Final]
    OBVIOUS
  <1>13. CASE run.refs[Final] # NoArtifact
    <2>1. id = run.refs[Final] \/ id \in NewIds(r, out)
      BY <1>1, <1>3, <1>4, <1>11, <1>12, LeaveHolds
    <2>2. id # NoArtifact
      BY <1>4, <1>13, <2>1, LeaveMakes
    <2>3. QED
      BY <1>2, <1>6, <1>12, <2>2
  <1>14. CASE run.refs[Final] = NoArtifact
    <2>1. PICK revised : out = Outputs(r, "finalize", v, revised)
      BY <1>1, <1>6 DEF Records
    <2>2. 1 \in 1..Len(out) /\ out[1].slot = Final
      BY <1>1, <1>10, <1>14, <2>1, LastMade
    <2>3. id # NoArtifact
      BY <1>1, <1>3, <1>4, <1>11, <1>12, <2>2, LeavePlaces
    <2>4. QED
      BY <1>2, <1>6, <1>12, <2>3
  <1>15. QED
    BY <1>13, <1>14

\* What is held stays held, and nothing is held that the node does not make.
LEMMA LeaveKeeps ==
    ASSUME RerunsTypeOK, NEW r \in DOMAIN runs, NEW v, NEW out, Leaves(r, v, out),
           NEW slot \in Slots, NEW new,
           new = Hold(artifacts', runs[r].refs, NewIds(r, out))[slot]
    PROVE  /\ runs[r].refs[slot] # NoArtifact => new # NoArtifact
           /\ slot \notin Makes(runs[r].busy) => new = runs[r].refs[slot]
  <1>1. \/ new = runs[r].refs[slot]
        \/ new \in NewIds(r, out) /\ Get(new)'.slot = slot
    BY LeaveHolds
  <1>2. new \in NewIds(r, out) => new # NoArtifact /\ Get(new)'.slot \in Makes(runs[r].busy)
    BY LeaveMakes
  <1>3. QED
    BY <1>1, <1>2

LEMMA ContentFinish ==
    ASSUME RerunsTypeOK, FlowInv, NEW r \in DOMAIN runs, NEW v, NEW out, Finishes(r, v, out),
           ContentWith(runs[r], artifacts')
    PROVE  ContentWith(runs'[r], artifacts')
  <1>1. PICK run : run = runs[r]
    OBVIOUS
  <1>2. PICK new : new = runs'[r]
    OBVIOUS
  <1>3. PICK n : n = run.busy
    OBVIOUS
  <1>4. PICK store : store = artifacts'
    OBVIOUS
  <1>5. PICK ids : ids = NewIds(r, out)
    OBVIOUS
  <1>6. PICK before : before = run.ckpt.vals
    OBVIOUS
  <1>7. /\ n \in Nodes /\ new.ckpt.at = n /\ new.ckpt.vals = v /\ new.refs = Hold(store, run.refs, ids)
        /\ v \in NodeOutcomes(plan, n, before) /\ ContentWith(run, store)
        /\ Leaves(r, v, out) /\ Records(r, v, out)
    BY <1>1, <1>2, <1>3, <1>4, <1>5, <1>6 DEF Finishes, Records, Leaves
  <1>8. PICK revised \in Revisions : out = Outputs(r, n, v, revised)
    BY <1>1, <1>3, <1>7 DEF Records
  <1>9. /\ n = NextNode(plan, run.ckpt) /\ run.ckpt \in Checkpoint /\ plan \in Plan
        /\ run.status = "running" /\ before \in GraphState
    BY <1>1, <1>3, <1>6, <1>7, BusyBefore, TraceShape DEF RerunsTypeOK, Checkpoint
  <1>10. Leads(plan, run.ckpt, n)
    BY <1>9, NextStage
  <1>11. /\ n \notin OutlineNodes => v.sections = before.sections
         /\ n = "generate_content" => v.draft = before.sections
         /\ n # "generate_content" => v.draft = before.draft
         /\ n = "approve_outline" => (v.outline_approved <=> before.user_decision = "accept")
    BY <1>7, <1>9, OutcomeKeeps
  <1>12. ASSUME NEW slot \in Slots
         PROVE  /\ run.refs[slot] # NoArtifact => new.refs[slot] # NoArtifact
                /\ slot \notin Makes(n) => new.refs[slot] = run.refs[slot]
    <2>1. PICK is : is = new.refs[slot]
      OBVIOUS
    <2>2. is = Hold(artifacts', runs[r].refs, NewIds(r, out))[slot]
      BY <1>1, <1>4, <1>5, <1>7, <2>1
    <2>3. /\ runs[r].refs[slot] # NoArtifact => is # NoArtifact
          /\ slot \notin Makes(runs[r].busy) => is = runs[r].refs[slot]
      BY <1>7, <2>2, LeaveKeeps
    <2>4. QED
      BY <1>1, <1>3, <2>1, <2>3
  <1>13. HasSections(run.refs) => HasSections(new.refs)
    <2>1. SUFFICES ASSUME NEW s \in Sections, run.refs[Section(s)] # NoArtifact
                   PROVE  new.refs[Section(s)] # NoArtifact
      BY DEF HasSections
    <2>2. QED
      BY <1>12, <2>1, SlotsShape
  <1>14. n \notin OutlineNodes => new.refs[Outline] = run.refs[Outline]
    <2>1. n \notin OutlineNodes => Outline \notin Makes(n)
      <3>1. /\ Outline # Intent /\ Outline # Evidence /\ Outline # Report /\ Outline # Final
            /\ \A s \in Sections : Outline # Section(s)
        BY DEF Outline, Intent, Evidence, Report, Final, Section
      <3>2. QED
        BY <1>7, <3>1 DEF Makes, OutlineNodes, Nodes
    <2>2. QED
      BY <1>12, <2>1, SlotsShape
  <1>15. Stage(n) >= 5 => Written(store, new.refs) /\ (v.sections => v.draft)
    <2>1. Stage(n) >= 5 => Stage(n) >= 6 \/ n = "generate_content"
      BY <1>7, StageIs DEF Nodes
    <2>2. CASE Stage(n) >= 6
      <3>1. n # "generate_content" /\ n \notin OutlineNodes /\ n # End
        BY <1>7, <2>2, StageIs DEF OutlineNodes, Nodes, End
      <3>2. Stage(run.ckpt.at) >= 5
        BY <1>10, <2>2, <3>1 DEF Leads
      <3>3. Written(store, run.refs) /\ (before.sections => before.draft)
        BY <1>6, <1>7, <3>2 DEF ContentWith
      <3>4. Written(store, new.refs)
        BY <1>13, <1>14, <3>1, <3>3 DEF Written
      <3>5. QED
        BY <1>11, <3>1, <3>3, <3>4
    <2>3. CASE n = "generate_content"
      <3>1. n \notin OutlineNodes /\ run.ckpt.at \in OutlineNodes /\ before.outline_approved
        BY <1>6, <1>10, <2>3 DEF Leads, OutlineNodes
      <3>2. SUFFICES ASSUME new.refs[Outline] # NoArtifact, FullIn(store, new.refs[Outline])
                     PROVE  HasSections(new.refs)
        BY <1>11, <2>3, <3>1 DEF Written
      <3>3. before.sections
        BY <1>6, <1>7, <1>14, <3>1, <3>2 DEF ContentWith
      <3>4. Section(1) \in Slots /\ 1 \in Sections
        BY SlotsShape
      <3>5. v.sections
        BY <1>11, <3>1, <3>3
      <3>6. out = [s \in Sections |-> Wanted(Section(s), NoArtifact, TRUE, TRUE)]
        BY <1>8, <2>3, <3>5 DEF Outputs
      <3>7. 1 \in 1..Len(out) /\ out[1].slot = Section(1)
        <4>1. NumSections \in Nat
          BY RerunsAssumption
        <4>2. DOMAIN out = 1..NumSections /\ out \in Seq(Wants)
          BY <1>7, <3>6 DEF Sections, Leaves
        <4>3. DOMAIN out = 1..Len(out)
          BY <4>2, LenProperties
        <4>4. QED
          BY <3>4, <3>6, <4>3 DEF Wanted
      <3>8. new.refs[Section(1)] # NoArtifact
        <4>1. PICK is : is = new.refs[Section(1)]
          OBVIOUS
        <4>2. is = Hold(artifacts', runs[r].refs, NewIds(r, out))[Section(1)]
          BY <1>1, <1>4, <1>5, <1>7, <4>1
        <4>3. is # NoArtifact
          BY <1>7, <3>4, <3>7, <4>2, LeavePlaces
        <4>4. QED
          BY <4>1, <4>3
      <3>9. QED
        BY <3>4, <3>8 DEF HasSections
    <2>4. QED
      BY <2>1, <2>2, <2>3
  <1>16. n \in OutlineNodes /\ v.outline_approved /\ FullIn(store, new.refs[Outline]) => v.sections
    <2>1. SUFFICES ASSUME n \in OutlineNodes, v.outline_approved, FullIn(store, new.refs[Outline])
                   PROVE  v.sections
      OBVIOUS
    <2>2. \E good : out = <<Wanted(Outline, run.refs[Outline], good, v.sections)>>
      <3>1. CASE n = "generate_outline"
        BY <1>1, <1>8, <3>1 DEF Outputs
      <3>2. CASE n = "approve_outline"
        BY <1>1, <1>8, <2>1, <3>2 DEF Outputs
      <3>3. QED
        BY <2>1, <3>1, <3>2 DEF OutlineNodes
    <2>3. 1 \in 1..Len(out) /\ Len(out) = 1 /\ out[1].slot = Outline /\ out[1].full = v.sections
      BY <2>2 DEF Wanted
    <2>4. PICK id : id = new.refs[Outline]
      OBVIOUS
    <2>5. id \in NewIds(r, out)
      BY <1>1, <1>4, <1>5, <1>7, <2>3, <2>4, LeavePlaces, SlotsShape
    <2>6. PICK k \in 1..Len(out) : Get(id)'.full = out[k].full
      BY <1>7, <2>5, LeaveMakes
    <2>7. FullIn(store, id) = v.sections
      BY <1>4, <2>3, <2>6 DEF FullIn, Get
    <2>8. QED
      BY <2>1, <2>4, <2>7
  <1>17. new.status = "completed" /\ v.sections => new.final # NoArtifact
    <2>1. SUFFICES ASSUME new.status = "completed", v.sections PROVE new.final # NoArtifact
      OBVIOUS
    <2>2. n = "finalize"
      BY <1>1, <1>2, <1>3, <1>7, <1>9, <2>1 DEF Records
    <2>3. before.sections
      BY <1>11, <2>1, <2>2 DEF OutlineNodes
    <2>4. QED
      BY <1>1, <1>2, <1>6, <1>7, <2>1, <2>3, LastHolds
  <1>18. /\ DOMAIN new.trace = DOMAIN run.trace
         /\ \A k \in DOMAIN run.trace : /\ new.trace[k].node = run.trace[k].node
                                        /\ new.trace[k].inputs = run.trace[k].inputs
    BY <1>1, <1>2, EndsAlike DEF EndsWith
  <1>19. ContentWith(new, store)
    BY <1>7, <1>15, <1>16, <1>17, <1>18, ContentKept
  <1>20. QED
    BY <1>2, <1>4, <1>19

LEMMA ContentMove ==
    ASSUME RerunsTypeOK, FlowInv, NEW r \in DOMAIN runs, Moves(r), ContentWith(runs[r], artifacts')
    PROVE  ContentWith(runs'[r], artifacts')
  <1>1. PICK store : store = artifacts'
    OBVIOUS
  <1>2. CASE Starts(r)
    <2>1. ContentWith(runs'[r], store)
      BY <1>1, <1>2, ContentStart
    <2>2. QED
      BY <1>1, <2>1
  <1>3. CASE \E v, out : Finishes(r, v, out)
    BY <1>3, ContentFinish
  <1>4. CASE Answers(r) \/ \E v, out : Repeats(r, v, out) \/ Fails(r, v, out) \/ Stops(r, v, out)
    <2>1. PICK run : run = runs[r]
      OBVIOUS
    <2>2. PICK new : new = runs'[r]
      OBVIOUS
    <2>3. /\ new.refs = run.refs /\ new.ckpt.at = run.ckpt.at
          /\ new.ckpt.vals.sections = run.ckpt.vals.sections
          /\ new.ckpt.vals.draft = run.ckpt.vals.draft
          /\ new.ckpt.vals.outline_approved = run.ckpt.vals.outline_approved
          /\ ContentWith(run, store)
      BY <1>1, <1>4, <2>1, <2>2 DEF Repeats, Fails, Stops, Breaks, Answers
    <2>4. new.status = "completed" /\ new.ckpt.vals.sections => new.final # NoArtifact
      <3>1. CASE Answers(r) \/ \E v, out : Fails(r, v, out)
        BY <2>2, <3>1 DEF Answers, Fails
      <3>2. CASE \E v, out : Stops(r, v, out)
        <4>1. new.status = run.status /\ new.final = run.final
          BY <2>1, <2>2, <3>2 DEF Stops, Breaks
        <4>2. QED
          BY <2>3, <4>1 DEF ContentWith
      <3>3. ASSUME NEW v, NEW out, Repeats(r, v, out), new.status = "completed",
                   new.ckpt.vals.sections
            PROVE  new.final # NoArtifact
        <4>1. Records(r, v, out) /\ run.ckpt.vals.sections
          BY <2>3, <3>3 DEF Repeats
        <4>2. QED
          BY <2>1, <2>2, <3>3, <4>1, LastHolds
      <3>4. QED
        BY <1>4, <3>1, <3>2, <3>3
    <2>5. /\ DOMAIN new.trace = DOMAIN run.trace
          /\ \A k \in DOMAIN run.trace : /\ new.trace[k].node = run.trace[k].node
                                         /\ new.trace[k].inputs = run.trace[k].inputs
      BY <1>4, <2>1, <2>2, EndsAlike DEF EndsWith
    <2>6. ContentWith(new, store)
      <3>1. /\ Stage(new.ckpt.at) >= 5 =>
                 Written(store, new.refs) /\ (new.ckpt.vals.sections => new.ckpt.vals.draft)
            /\ new.ckpt.at \in OutlineNodes /\ new.ckpt.vals.outline_approved
               /\ new.refs[Outline] # NoArtifact /\ FullIn(store, new.refs[Outline])
               => new.ckpt.vals.sections
        BY <2>3 DEF ContentWith
      <3>2. QED
        BY <2>3, <2>4, <2>5, <3>1, ContentKept
    <2>7. QED
      BY <1>1, <2>2, <2>6
  <1>5. QED
    BY <1>2, <1>3, <1>4 DEF Moves, EndsWith

LEMMA ContentNew ==
    ASSUME BaseInv, HeldInv, ContentInv, NEW p \in DOMAIN runs, runs[p].parent = 0,
           NEW n \in Nodes, NEW ckpt, NEW refs, Adds(p, n, ckpt, refs),
           ckpt.at = NoThread \/ (ckpt = Enters(n, refs) /\ refs = Preserve(p, n))
    PROVE  ContentWith(NewRun(p, n, ckpt, refs), artifacts)
  <1>1. PICK new : new = NewRun(p, n, ckpt, refs)
    OBVIOUS
  <1>2. new.refs = refs /\ new.ckpt = ckpt /\ DOMAIN new.trace = {} /\ new.status = "running"
    BY <1>1 DEF NewRun
  <1>3. RerunsTypeOK /\ FlowInv /\ plan \in Plan /\ n \in Allowed \cap Executed(p)
    BY DEF BaseInv, RerunsTypeOK, Adds
  <1>4. ASSUME Stage(ckpt.at) >= 4
        PROVE  ckpt = [at |-> Previous(plan, n), vals |-> Restored(refs)] /\ refs = Preserve(p, n)
               /\ n \notin {"parse_intent", "finalize"}
    <2>1. ckpt = Enters(n, refs) /\ refs = Preserve(p, n)
      BY <1>4, StageIs
    <2>2. Recorded(n) /\ n # "finalize"
      BY <1>3, ExecutedNode
    <2>3. n # "parse_intent"
      BY <1>3, <1>4, <2>1, <2>2, EnterShape, StageIs DEF InputCheckpoint
    <2>4. QED
      BY <1>3, <2>1, <2>2, <2>3, EnterShape
  <1>5. PICK w : w = Restored(refs)
    OBVIOUS
  <1>6. /\ w.sections <=> refs[Outline] # NoArtifact /\ FullIn(artifacts, refs[Outline])
        /\ w.draft <=> HasSections(refs)
    BY <1>5, RestoredType DEF FullIn, Get
  <1>7. ASSUME Stage(ckpt.at) >= 5
        PROVE  Written(artifacts, refs) /\ (ckpt.vals.sections => ckpt.vals.draft)
    <2>1. Stage(ckpt.at) \in 0..10 /\ Stage(ckpt.at) >= 4
      BY <1>7 DEF Stage
    <2>2. ckpt.at = Previous(plan, n) /\ ckpt.vals = w /\ refs = Preserve(p, n)
          /\ n \notin {"parse_intent", "finalize"}
      BY <1>4, <1>5, <2>1
    <2>3. n \in {"self_refine", "check_facts", "approve_fact_check"}
      <3>1. n = "generate_content" => Stage(Previous(plan, n)) = 4
        BY StageIs DEF Previous
      <3>2. n \in {"clarify_intent", "retrieve_knowledge", "generate_outline", "approve_outline"}
              => Stage(Previous(plan, n)) \in {1, 3, 4}
        BY StageIs DEF Previous
      <3>3. ~ (Stage(Previous(plan, n)) \in {1, 3, 4})
        BY <1>7, <2>2
      <3>4. QED
        BY <2>2, <3>1, <3>2, <3>3 DEF Nodes
    <2>4. Stage(n) >= 6
      BY <2>3, StageIs
    <2>5. PICK k \in DOMAIN runs[p].trace :
             /\ runs[p].trace[k].node = n
             /\ \A slot \in Slots \ SectionSlots : refs[slot] = runs[p].trace[k].inputs[slot]
             /\ HasSections(runs[p].trace[k].inputs) => HasSections(refs)
      BY <1>3, <2>2, PreserveIsInput
    <2>6. Written(artifacts, runs[p].trace[k].inputs)
      BY <2>4, <2>5 DEF ContentInv, NearOriginal, ContentWith
    <2>7. Outline \in Slots \ SectionSlots
      BY SlotsShape DEF SectionSlots, Outline, Section
    <2>8. Written(artifacts, refs)
      BY <2>5, <2>6, <2>7 DEF Written
    <2>9. QED
      BY <1>6, <2>2, <2>8 DEF Written
  <1>8. ckpt.at \in OutlineNodes /\ refs[Outline] # NoArtifact /\ FullIn(artifacts, refs[Outline])
          => ckpt.vals.sections
    <2>1. SUFFICES ASSUME ckpt.at \in OutlineNodes, refs[Outline] # NoArtifact,
                          FullIn(artifacts, refs[Outline])
                   PROVE  ckpt.vals.sections
      OBVIOUS
    <2>2. Stage(ckpt.at) >= 4
      BY <2>1, StageIs DEF OutlineNodes
    <2>3. ckpt.vals = w
      BY <1>4, <1>5, <2>2
    <2>4. QED
      BY <1>6, <2>1, <2>3
  <1>9. ContentWith(new, artifacts)
    BY <1>2, <1>7, <1>8, SMTT(60) DEF ContentWith
  <1>10. QED
    BY <1>1, <1>9

LEMMA ContentNow ==
    ASSUME NEW q, NEW new, new = runs'[q], ContentWith(new, artifacts')
    PROVE  ContentWith(runs[q], artifacts)'
  BY DEF ContentWith, Written, FullIn, HasSections

LEMMA ContentInit == Init => ContentInv
  <1>. SUFFICES ASSUME Init PROVE ContentInv
    OBVIOUS
  <1>1. PICK run : run = NewRun(0, Original, InputCheckpoint, NoRefs)
    OBVIOUS
  <1>2. DOMAIN runs = {1} /\ runs[1] = run
    BY <1>1 DEF Init
  <1>3. run.ckpt.at = Entry /\ DOMAIN run.trace = {} /\ run.status = "running"
    BY <1>1 DEF NewRun, InputCheckpoint
  <1>4. ContentWith(run, artifacts)
    BY <1>3, StageIs DEF ContentWith, OutlineNodes, Entry
  <1>5. QED
    BY <1>2, <1>4 DEF ContentInv

LEMMA ContentAdds ==
    ASSUME BaseInv, HeldInv, ContentInv, NEW p \in DOMAIN runs, NEW n \in Nodes, NEW ckpt,
           NEW refs, Adds(p, n, ckpt, refs),
           ckpt.at = NoThread \/ (ckpt = Enters(n, refs) /\ refs = Preserve(p, n))
    PROVE  ContentInv'
  <1>1. RerunsTypeOK /\ ParentInv
    BY DEF BaseInv
  <1>2. PICK q : q = p + 1
    OBVIOUS
  <1>3. /\ \A x \in DOMAIN runs : runs'[x].parent = runs[x].parent /\ runs'[x] = runs[x]
        /\ runs'[q] = NewRun(p, n, ckpt, refs) /\ runs'[q].parent = p /\ p # 0
        /\ OfOriginal(q)' <=> runs[p].parent = 0
        /\ \A x \in DOMAIN runs' : x \in DOMAIN runs \/ x = q
        /\ artifacts' = artifacts
    BY <1>1, <1>2, AddsParents DEF Adds
  <1>4. ASSUME NEW x \in DOMAIN runs, NearOriginal(x)' PROVE ContentWith(runs[x], artifacts)'
    <2>1. NearOriginal(x)
      BY <1>1, <1>3, <1>4, OriginalStays DEF NearOriginal
    <2>2. PICK new : new = runs'[x]
      OBVIOUS
    <2>3. new = runs[x]
      BY <1>3, <2>2
    <2>4. ContentWith(new, artifacts')
      BY <1>3, <2>1, <2>3 DEF ContentInv
    <2>5. QED
      BY <2>2, <2>4, ContentNow
  <1>5. ASSUME NearOriginal(q)' PROVE ContentWith(runs[q], artifacts)'
    <2>1. runs[p].parent = 0
      BY <1>3, <1>5 DEF NearOriginal
    <2>2. PICK new : new = NewRun(p, n, ckpt, refs)
      OBVIOUS
    <2>3. ContentWith(new, artifacts)
      BY <2>1, <2>2, ContentNew
    <2>4. new = runs'[q] /\ ContentWith(new, artifacts')
      BY <1>3, <2>2, <2>3
    <2>5. QED
      BY <2>4, ContentNow
  <1>6. QED
    BY <1>3, <1>4, <1>5 DEF ContentInv

LEMMA ContentStep == BaseInv /\ HeldInv /\ ContentInv /\ Next /\ ~edited' => ContentInv'
  <1>. SUFFICES ASSUME BaseInv, HeldInv, ContentInv, Next, ~edited' PROVE ContentInv'
    OBVIOUS
  <1>1. RerunsTypeOK /\ VersionsBounded /\ ParentInv /\ MadeInv /\ FlowInv
    BY DEF BaseInv
  <1>2. PICK r \in DOMAIN runs : Moves(r) \/ \E n \in Nodes : Reruns(r, n) \/ NotStarted(r, n)
    BY <1>1, StepShape
  <1>3. ASSUME Moves(r) PROVE ContentInv'
    <2>1. Touches(r) /\ Stable
      BY <1>1, <1>3, MoveStore
    <2>2. \A x \in DOMAIN runs : runs'[x].parent = runs[x].parent
      BY <2>1, MovesParents
    <2>3. ASSUME NEW x \in DOMAIN runs, NearOriginal(x)' PROVE ContentWith(runs[x], artifacts)'
      <3>1. ContentWith(runs[x], artifacts)
        BY <1>1, <2>2, <2>3, OriginalStays DEF NearOriginal, ContentInv
      <3>2. ContentWith(runs[x], artifacts')
        BY <1>1, <2>1, <3>1, ContentStays
      <3>3. PICK new : new = runs'[x]
        OBVIOUS
      <3>4. ContentWith(new, artifacts')
        <4>1. CASE x = r
          BY <1>1, <1>3, <3>2, <3>3, <4>1, ContentMove
        <4>2. CASE x # r
          BY <2>1, <3>2, <3>3, <4>2 DEF Touches
        <4>3. QED
          BY <4>1, <4>2
      <3>5. QED
        BY <3>3, <3>4, ContentNow
    <2>4. DOMAIN runs' = DOMAIN runs
      BY <2>1 DEF Touches
    <2>5. QED
      BY <2>3, <2>4 DEF ContentInv
  <1>4. ASSUME NEW n \in Nodes, Reruns(r, n) PROVE ContentInv'
    <2>1. PICK refs : refs = Preserve(r, n)
      OBVIOUS
    <2>2. PICK ckpt : ckpt = Enters(n, refs)
      OBVIOUS
    <2>3. Adds(r, n, ckpt, refs)
      BY <1>4, <2>1, <2>2 DEF Reruns
    <2>4. QED
      BY <2>1, <2>2, <2>3, ContentAdds
  <1>5. ASSUME NEW n \in Nodes, NotStarted(r, n) PROVE ContentInv'
    <2>1. PICK ckpt : ckpt = NoCheckpoint
      OBVIOUS
    <2>2. Adds(r, n, ckpt, NoRefs) /\ ckpt.at = NoThread
      BY <1>5, <2>1 DEF NotStarted, NoCheckpoint
    <2>3. QED
      BY <2>2, ContentAdds
  <1>6. QED
    BY <1>2, <1>3, <1>4, <1>5

LEMMA ContentStutter == ContentInv /\ UNCHANGED vars => ContentInv'
  <1>. SUFFICES ASSUME ContentInv, UNCHANGED vars PROVE ContentInv'
    OBVIOUS
  <1>1. runs' = runs /\ artifacts' = artifacts
    BY DEF vars
  <1>2. ASSUME NEW r \in DOMAIN runs, NearOriginal(r)' PROVE ContentWith(runs[r], artifacts)'
    <2>1. NearOriginal(r)
      BY <1>1, <1>2 DEF NearOriginal, OfOriginal
    <2>2. ContentWith(runs[r], artifacts)
      BY <1>2, <2>1 DEF ContentInv
    <2>3. PICK new : new = runs'[r]
      OBVIOUS
    <2>4. ContentWith(new, artifacts')
      BY <1>1, <2>2, <2>3
    <2>5. QED
      BY <2>3, <2>4, ContentNow
  <1>3. QED
    BY <1>1, <1>2 DEF ContentInv

LEMMA HasContent == ContentInv => CompletedHasContent
  BY DEF ContentInv, NearOriginal, ContentWith, CompletedHasContent

\* Theorem: an original run and a rerun of one complete with a final artifact when
\* their outline has a section; all this until a rerun is edited.
THEOREM CompletedAlwaysHasContent == Spec => []CompletedHasContent
  <1>1. Init => BaseInv /\ OriginInv /\ HeldInv /\ ContentInv
    BY BaseInit, OriginInit, HeldInit, ContentInit
  <1>2. BaseInv /\ OriginInv /\ HeldInv /\ ContentInv /\ [Next]_vars
          => edited' \/ (BaseInv /\ OriginInv /\ HeldInv /\ ContentInv)'
    BY BaseStep, BaseStutter, OriginStep, HeldStep, HeldStutter, ContentStep, ContentStutter
  <1>3. ContentInv => CompletedHasContent
    BY HasContent
  <1>4. edited => CompletedHasContent
    BY DEF CompletedHasContent
  <1>5. QED
    BY <1>1, <1>2, <1>3, <1>4, EditedStays, PTL DEF Spec

===============================================================================
