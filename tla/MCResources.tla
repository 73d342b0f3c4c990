---------------------------- MODULE MCResources ----------------------------
(* A small instance of Resources for TLC.  Its parts share no variable, so     *)
(* each is explored while the others rest: "part" says which one moves.        *)
EXTENDS Resources, TLC

CONSTANTS client1, client2, lead, guest, page1, page2, page3

VARIABLE part

Team == {lead, guest}
TeamRoles == [u \in Team |-> IF u = lead THEN "admin" ELSE "viewer"]
Symmetry == Permutations({client1, client2}) \cup Permutations({page1, page2, page3})

MCInit == ResourcesInit /\ part \in {"knowledge", "models", "sockets"}

MCNext ==
    /\ UNCHANGED part
    /\ \/ part = "knowledge" /\ KnowledgeStep
       \/ part = "models" /\ ProvidersStep
       \/ part = "sockets" /\ SocketsStep

MCSpec == MCInit /\ [][MCNext]_<<part, vars, modelVars, socketVars>>

=============================================================================
