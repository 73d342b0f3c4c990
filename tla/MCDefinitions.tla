--------------------------- MODULE MCDefinitions ---------------------------
(* Small instances of DefinitionVersions for TLC. *)
EXTENDS DefinitionVersions, TLC

LOCAL INSTANCE FiniteSetsExt

CONSTANTS designer1, designer2, reader

Team == {designer1, designer2, reader}
TeamRoles == [c \in Team |-> IF c = reader THEN "viewer" ELSE "admin"]
SameRole == Permutations({designer1, designer2})

AsSeq(S) == FoldSet(LAMBDA e, acc : Append(acc, e), << >>, S)
Drawn(types, edges) ==
    [types |-> types, edges |-> AsSeq(edges), named |-> TRUE, configured |-> TRUE]

\* Two definitions that can be published and a draft that cannot.
Short == Drawn(<<"input", "llm", "output">>, {<<1, 2>>, <<2, 3>>})
Gated == Drawn(<<"input", "llm", "approval", "output">>, {<<1, 2>>, <<2, 3>>, <<3, 4>>})
Broken == Drawn(<<"input", "llm", "output">>, {<<1, 2>>, <<2, 1>>})
FewDrafts == {Short, Gated, Broken}

\* All graphs on an input, a process and an output, with self loops; the same
\* with an edge from or to a node that does not exist; and the graphs on five
\* nodes whose edges agree with an order, which is the order of the list in two
\* of the lists and the reverse of it in the third.
Forward == {p \in (1..5) \X (1..5) : p[1] < p[2]}

\* One line of nodes for each choice of the features a plan can have.
Optional(flag, type) == IF flag THEN <<type>> ELSE << >>
Line(types) == Drawn(types, {<<i, i + 1>> : i \in 1..Len(types) - 1})
Chains ==
    {Line(<<"input", "llm">> \o Optional(a, "approval") \o Optional(b, "llm")
          \o Optional(c, "fact_check") \o Optional(d, "approval") \o <<"output">>) :
        a \in BOOLEAN, b \in BOOLEAN, c \in BOOLEAN, d \in BOOLEAN}

SmallDefinitions ==
    {Drawn(<<"input", "llm", "output">>, e) : e \in SUBSET ((1..3) \X (1..3))}
    \cup {Drawn(<<"input", "llm", "output">>, {<<1, 2>>, e, <<2, 3>>}) : e \in (1..4) \X (1..4)}
    \cup {Drawn(t, e) : t \in {<<"input", "llm", "gate", "fact_check", "output">>,
                               <<"llm", "start", "fact_check", "gate", "output">>},
                        e \in SUBSET Forward}
    \cup {Drawn(<<"output", "gate", "fact_check", "llm", "input">>,
                {<<p[2], p[1]>> : p \in e}) : e \in SUBSET Forward}
    \cup Chains

=============================================================================
