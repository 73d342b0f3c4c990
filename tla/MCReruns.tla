------------------------------ MODULE MCReruns ------------------------------
(* A small instance of Reruns for TLC. *)
EXTENDS Reruns

\* Every step and gate; no gate at all; and the checker and its gate without the
\* refinement, so that finalize makes the final artifact.
FullPlan == [outline_gate |-> TRUE, self_refine |-> TRUE,
             fact_check |-> TRUE, fact_check_gate |-> TRUE]
UngatedPlan == [FullPlan EXCEPT !.outline_gate = FALSE, !.fact_check_gate = FALSE]
UnrefinedPlan == [FullPlan EXCEPT !.self_refine = FALSE]

RerunSettings == {[plan |-> FullPlan, retrieval |-> TRUE],
                  [plan |-> UngatedPlan, retrieval |-> TRUE],
                  [plan |-> UnrefinedPlan, retrieval |-> FALSE]}
\* No revision, and the first section in both rounds.
FewRevisions == {<< >>, <<1, 1>>}

\* Updates that take the outline away, answer the fact-check gate beforehand with
\* drafts of their own, or give another plan.
Update(names, state) == [names |-> names, state |-> state, plan |-> UngatedPlan]
FewUpdates ==
    {Update({"outline", "outline_approved"}, EmptyState),
     Update({"fact_answers", "draft"}, [EmptyState EXCEPT !.fact_answers = "full", !.draft = TRUE]),
     Update({"runtime_plan"}, EmptyState)}

\* What the youngest run and a rerun of it can still read: for each node executed,
\* what it worked on first and what a rerun from it would find; what the run holds,
\* and the last version of each type.  Of the older runs it is only what the original
\* worked on at the node of a rerun that starts.  Artifacts are told apart
\* by their places among those read.  Nothing reads what the last node of a failed
\* run made, and once a rerun was edited nothing is claimed and only its control
\* state decides what follows.
RerunView ==
    LET r == Len(runs)
        run == runs[r]
        failed == run.status = "failed"
        starting == r = 2 /\ Len(run.trace) <= 1
        held == IF failed THEN NoRefs ELSE run.refs
        made == IF failed THEN NoRefs
                ELSE Hold(artifacts, NoRefs, MadeBefore(run.trace, Len(run.trace) + 1))
        first == [n \in Executed(r) |-> run.trace[FirstPlace(run.trace, n)].inputs]
        found == [n \in Executed(r) |-> Preserve(r, n)]
        origin == IF starting THEN runs[1].trace[FirstPlace(runs[1].trace, run.from)].inputs
                  ELSE NoRefs
        read == UNION {{refs[slot] : slot \in Slots} :
                       refs \in {held, made, origin} \cup {first[n] : n \in Executed(r)}
                                                   \cup {found[n] : n \in Executed(r)}}
        place(id) == Cardinality({other \in read : other[1] = id[1] /\ other[2] <= id[2]})
        seen(refs) == [slot \in Slots |->
                         IF refs[slot] = NoArtifact THEN << >>
                         ELSE LET a == Get(refs[slot])
                              IN  <<refs[slot][1] = r, place(refs[slot]), a.version, a.good, a.full>>]
        lastVersion(type) == {a.version : a \in {a \in OfType(r, type) :
                                 ~failed /\ \A b \in OfType(r, type) : b.version <= a.version}}
        last == IF run.trace = << >> THEN << >>
                ELSE <<run.trace[Len(run.trace)].node,
                       run.trace[Len(run.trace)].outputs # {}>>
    IN  IF edited
        THEN <<plan, retrieval, regenerations, cuts, run.ckpt, run.status, run.busy>>
        ELSE <<plan, retrieval, regenerations, cuts, r, seen(origin),
               starting /\ RefinedTwice(runs[1].trace),
               [run EXCEPT !.refs = NoRefs, !.final = NoArtifact, !.trace = << >>],
               run.final # NoArtifact, seen(held), seen(made),
               [n \in Executed(r) |-> <<seen(first[n]), seen(found[n])>>],
               [slot \in Slots |-> lastVersion(slot[1])],
               IF failed THEN << >> ELSE last, RefinedTwice(run.trace)>>

=============================================================================
