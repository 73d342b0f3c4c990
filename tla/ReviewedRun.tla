----------------------------- MODULE ReviewedRun -----------------------------
(* What a run of the content workflow promises the people who review it, with  *)
(* no word of checkpoints, locks, drives, requests or retries: one piece of    *)
(* work is done at a time, any piece may be broken off, and where the plan has *)
(* an outline gate the gated pieces begin only once an outline was accepted.   *)

CONSTANTS Work,   \* the pieces of work: the nodes of the content graph
          Gated,  \* the pieces behind the outline gate
          Nothing \* no work is under way

VARIABLES reviewed, \* the plan has an outline gate
          approved, \* a reviewer has accepted an outline
          doing     \* the piece of work under way, or Nothing

rvars == <<reviewed, approved, doing>>

Init == reviewed \in BOOLEAN /\ approved = FALSE /\ doing = Nothing

Begin(w) ==
    /\ doing = Nothing
    /\ reviewed /\ w \in Gated => approved
    /\ doing' = w
    /\ UNCHANGED <<reviewed, approved>>

\* The work is done, has failed or was lost with the process.
Stop ==
    /\ doing # Nothing
    /\ doing' = Nothing
    /\ UNCHANGED <<reviewed, approved>>

\* The acceptance of an outline, also while something is under way.
Approve ==
    /\ ~approved
    /\ approved' = TRUE
    /\ UNCHANGED <<reviewed, doing>>

Next == (\E w \in Work : Begin(w)) \/ Stop \/ Approve

Spec == Init /\ [][Next]_rvars

=============================================================================
