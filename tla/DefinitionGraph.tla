--------------------------- MODULE DefinitionGraph ---------------------------
(***************************************************************************)
(* A workflow definition as the visual editor stores it, the checks of     *)
(* WorkflowDefinitionService.validate and the compiler of                  *)
(* graph/runtime_plan.py that turns a published definition into the        *)
(* runtime plan of a run.                                                  *)
(*                                                                         *)
(* A node is its position in the list of nodes, so `types[i]` is the type  *)
(* of node i; an edge is a pair of node identifiers, and may name a node   *)
(* that does not exist.  Names, labels and the configuration of the nodes  *)
(* are kept as two flags, since only their absence is ever tested.         *)
(***************************************************************************)
EXTENDS ContentGraph, SequencesExt

Definition == [types: Seq(STRING), edges: Seq(Nat \X Nat),
               named: BOOLEAN,       \* labels are there, identifiers are unique
               configured: BOOLEAN]  \* required configuration fields are there

NodeIds(d) == DOMAIN d.types

\* The types the editor offers that stand for each of the five kinds of node
\* the runtime knows; an alias is enough of each family.
RuntimeType(type) ==
    CASE type \in {"llm", "knowledge", "rag_retrieve"} -> "process"
      [] type = "approval" -> "gate"
      [] type = "fact_check" -> "checker"
      [] type = "start" -> "input"
      [] type = "end" -> "output"
      [] OTHER -> type

RuntimeTypes == {"input", "process", "gate", "checker", "output"}

OfType(d, type) == {i \in NodeIds(d) : RuntimeType(d.types[i]) = type}

-----------------------------------------------------------------------------
(* Graph algorithms of the validator. *)

\* The edges both loops of the graph algorithms keep: their end points exist.
Connected(d) == {e \in ToSet(d.edges) : {e[1], e[2]} \subseteq NodeIds(d)}

\* The edges the validator's own adjacency lists keep.
Adjacent(d) == {e \in Connected(d) : e[1] # e[2]}

Backwards(edges) == {<<e[2], e[1]>> : e \in edges}

CollectNeighbours(seeds, edges) ==
    seeds \cup {e[2] : e \in {x \in edges : x[1] \in seeds}}

\* A search that does not go on from the nodes it adds.
CollectOneRound(seeds, edges) == CollectNeighbours(seeds, edges)

\* _collect_reachable: breadth first, at most one round per edge.
CollectReachable(seeds, edges) ==
    LET visited[k \in 0..Cardinality(edges)] ==
            IF k = 0 THEN seeds
            ELSE CollectNeighbours(visited[k - 1], edges)
    IN  visited[Cardinality(edges)]

\* The nodes whose in-degree has dropped to zero once `done` is taken out.
Ready(d, done) ==
    {i \in NodeIds(d) \ done : \A e \in Connected(d) : e[2] = i => e[1] \in done}

\* _has_cycle: nodes are peeled off; what is left lies on or behind a cycle.
HasCycle(d) ==
    LET peeled[k \in 0..Len(d.types)] ==
            IF k = 0 THEN {} ELSE LET done == peeled[k - 1] IN done \cup Ready(d, done)
    IN  peeled[Len(d.types)] # NodeIds(d)

-----------------------------------------------------------------------------
(* Validation. *)

StructureErrors(d) ==
    LET publish(cond, name) == IF cond THEN {name} ELSE {}
        reached == CollectReachable(OfType(d, "input"), Adjacent(d))
        returning == CollectReachable(OfType(d, "output"), Backwards(Adjacent(d)))
    IN  IF d.edges = << >> THEN {}
        ELSE publish(HasCycle(d), "cycle")
             \cup publish(NodeIds(d) \ reached # {}, "unreachable")
             \cup publish(NodeIds(d) \ returning # {}, "dead_end")

\* Publishing checks that look at the edges only through the path search.
PublishErrorsWithoutPaths(d) ==
    {name \in {"many_inputs", "no_output", "no_process", "unconfigured"} :
        \/ name = "many_inputs" /\ Cardinality(OfType(d, "input")) > 1
        \/ name = "no_output" /\ OfType(d, "output") = {}
        \/ name = "no_process" /\ OfType(d, "process") = {}
        \/ name = "unconfigured" /\ ~d.configured}

PublishErrors(d) ==
    LET unconnected(type, side) ==
            \E i \in NodeIds(d) \ OfType(d, type) : \A e \in Adjacent(d) : e[side] # i
    IN  {name \in {"many_inputs", "no_output", "no_process", "unconfigured",
                   "no_upstream", "no_downstream"} :
            \/ name = "many_inputs" /\ Cardinality(OfType(d, "input")) > 1
            \/ name = "no_output" /\ OfType(d, "output") = {}
            \/ name = "no_process" /\ OfType(d, "process") = {}
            \/ name = "unconfigured" /\ ~d.configured
            \/ name = "no_upstream" /\ unconnected("input", 2)
            \/ name = "no_downstream" /\ unconnected("output", 1)}
        \cup StructureErrors(d)

\* WorkflowDefinitionService.validate: the errors it reports.
Validate(d, mode) ==
    {name \in {"empty", "unsupported", "no_input", "unnamed", "bad_edge"} :
        \/ name = "empty" /\ d.types = << >>
        \/ name = "unsupported"
           /\ \E i \in NodeIds(d) : RuntimeType(d.types[i]) \notin RuntimeTypes
        \/ name = "no_input" /\ OfType(d, "input") = {}
        \/ name = "unnamed" /\ ~d.named
        \/ name = "bad_edge" /\ ToSet(d.edges) # Adjacent(d)}
    \cup (IF mode = "publish" THEN PublishErrors(d) ELSE {})

Publishable(d) == Validate(d, "publish") = {}

-----------------------------------------------------------------------------
(* Compilation. *)

\* An order that keeps the nodes as the editor stored them.
EagerNodes(d) == [i \in NodeIds(d) |-> i]

\* One turn of _topological_nodes: among the nodes that are ready the one that
\* comes first in the definition.
NextSorted(d, before) ==
    LET ready == Ready(d, ToSet(before))
    IN  IF ready = {} THEN before ELSE Append(before, Min(ready))

SortedNodes(d) ==
    LET ordered[k \in 0..Len(d.types)] ==
            IF k = 0 THEN << >> ELSE NextSorted(d, ordered[k - 1])
    IN  ordered[Len(d.types)]

\* Then the nodes on or behind a cycle, in the order of the definition.
AppendMissing(order, i) == IF i \in ToSet(order) THEN order ELSE Append(order, i)

TopologicalNodes(d) ==
    LET ordered[k \in 0..Len(d.types)] ==
            IF k = 0 THEN SortedNodes(d) ELSE AppendMissing(ordered[k - 1], k)
    IN  ordered[Len(d.types)]

\* A search that takes the node's place in the definition for its position.
GateByPlace(d, order, after, before) ==
    \E k \in DOMAIN order : /\ RuntimeType(d.types[order[k]]) = "gate"
                            /\ after < order[k] /\ order[k] < before

\* _first_gate over the nodes in order: is there a gate strictly between the
\* two positions?
GateBetween(d, order, after, before) ==
    \E k \in DOMAIN order : /\ RuntimeType(d.types[order[k]]) = "gate"
                            /\ after < k /\ k < before

\* compile_workflow_runtime_plan: the features the graph's routers test.
CompiledPlan(d) ==
    LET order == TopologicalNodes(d)
        beyond == Len(order) + 1
        checkers == {k \in DOMAIN order : order[k] \in OfType(d, "checker")}
        checker == IF checkers = {} THEN beyond ELSE Min(checkers)
        content == {i \in OfType(d, "process") : d.types[i] \notin {"knowledge", "rag_retrieve"}}
    IN  [outline_gate |-> GateBetween(d, order, 0, checker),
         self_refine |-> Cardinality(content) > 1,
         fact_check |-> checkers # {},
         fact_check_gate |-> GateBetween(d, order, checker, beyond)]

\* A list of steps that leaves the refinement out.
StepsWithoutRefinement(plan) ==
    LET optional(feature, step) == IF feature THEN <<step>> ELSE << >>
    IN  <<"parse_intent", "retrieve_knowledge", "generate_outline">>
        \o optional(plan.outline_gate, "approve_outline")
        \o <<"generate_content">>
        \o optional(plan.fact_check, "check_facts")
        \o optional(plan.fact_check /\ plan.fact_check_gate, "approve_fact_check")
        \o <<"finalize">>

\* The steps of a compiled plan, which the progress view and a rerun go by.
PlanSteps(plan) ==
    LET optional(feature, step) == IF feature THEN <<step>> ELSE << >>
    IN  <<"parse_intent", "retrieve_knowledge", "generate_outline">>
        \o optional(plan.outline_gate, "approve_outline")
        \o <<"generate_content">>
        \o optional(plan.self_refine, "self_refine")
        \o optional(plan.fact_check, "check_facts")
        \o optional(plan.fact_check /\ plan.fact_check_gate, "approve_fact_check")
        \o <<"finalize">>

-----------------------------------------------------------------------------
(* Reference definitions and properties, over the definitions in Samples.  *)
CONSTANT Samples

ASSUME SamplesAssumption == \A d \in Samples : d \in Definition

\* The nodes on the ways that leave node i: the least set that holds its
\* successors and is closed under the edges.
Following(d, i, edges) ==
    LET closed == {S \in SUBSET NodeIds(d) :
                      \A e \in edges : e[1] \in S \cup {i} => e[2] \in S}
    IN  {j \in NodeIds(d) : \A S \in closed : j \in S}

Below(d, i) == Following(d, i, Connected(d))
Above(d, i) == Following(d, i, Backwards(Connected(d)))

\* The cycle test and the search agree with the transitive closure of the edges,
\* whatever the edges: self loops, parallel edges and unknown end points too.
GraphSearchesAreRight ==
    \A d \in Samples :
        /\ HasCycle(d) <=> \E i \in NodeIds(d) : i \in Below(d, i)
        /\ \A i \in NodeIds(d) :
              CollectReachable({i}, Adjacent(d)) = {i} \cup Below(d, i)

\* What passes the publishing checks is a graph a run can follow: it has one
\* input, no cycle, and every node lies on a way from the input to an output.
PublishedGraphsRun ==
    \A d \in Samples : Publishable(d) =>
        /\ \A i \in NodeIds(d) : i \notin Below(d, i)
        /\ \E start \in OfType(d, "input") :
              \A i \in NodeIds(d) :
                  /\ i = start \/ start \in Above(d, i)
                  /\ i \in OfType(d, "output")
                     \/ Below(d, i) \cap OfType(d, "output") # {}

\* The compiler's order lists every node once and keeps every edge forward when
\* the definition has no cycle.
OrderIsTopological ==
    \A d \in Samples :
        LET order == TopologicalNodes(d)
        IN  /\ ToSet(order) = NodeIds(d) /\ Len(order) = Len(d.types)
            /\ (\A i \in NodeIds(d) : i \notin Below(d, i)) =>
                  \A j, k \in DOMAIN order :
                      <<order[j], order[k]>> \in Connected(d) => j < k

\* A gate drawn before the first checker stays an outline gate and a gate drawn
\* behind every checker stays a fact-check gate, whatever the order of the
\* parallel branches.
GatesKeepTheirSide ==
    \A d \in Samples : Publishable(d) =>
        \A g \in OfType(d, "gate") :
            LET checkers == OfType(d, "checker")
                plan == CompiledPlan(d)
            IN  /\ (checkers \subseteq Below(d, g)) => plan.outline_gate
                /\ (checkers # {} /\ checkers \subseteq Above(d, g)) => plan.fact_check_gate

\* The checkpoints a run under `plan` can pass through when every answer to a
\* gate is given: an answer is written as the node whose router leads to the
\* gate.
RunFrom(plan, c) ==
    LET next == NextNode(plan, c)
        answered(at, v) == [at |-> at, vals |-> v]
    IN  IF next # End
        THEN {answered(next, v) : v \in NodeOutcomes(plan, next, c.vals)}
        ELSE IF c.vals.awaiting_outline
        THEN {answered("generate_outline",
                       [c.vals EXCEPT !.awaiting_outline = FALSE, !.user_decision = "accept"])}
        ELSE IF c.vals.awaiting_fact_check
        THEN {answered("check_facts",
                       [c.vals EXCEPT !.awaiting_fact_check = FALSE, !.fact_answers = "full"])}
        ELSE {}

CheckpointsOf(plan) ==
    LET passed[k \in 0..Cardinality(Nodes) + 2] ==
            IF k = 0 THEN {InputCheckpoint}
            ELSE LET before == passed[k - 1]
                 IN  before \cup UNION {RunFrom(plan, c) : c \in before}
    IN  passed[Cardinality(Nodes) + 2]

\* The steps a plan lists are the nodes its run can execute: the progress view
\* never misses a step, and a rerun always finds the step before the one asked
\* for.  The clarification is the only node no plan lists.
PlanListsWhatRuns ==
    \A plan \in {CompiledPlan(d) : d \in Samples} :
        LET run == {c.at : c \in CheckpointsOf(plan)} \ {Entry, "clarify_intent"}
        IN  run = ToSet(PlanSteps(plan))

=============================================================================
