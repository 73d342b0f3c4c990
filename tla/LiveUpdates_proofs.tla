------------------------- MODULE LiveUpdates_proofs -------------------------
(* Proofs about LiveUpdates, for every choice of its constants.               *)
EXTENDS LiveUpdates, TLAPS

-----------------------------------------------------------------------------
(* The way of an event to the page: what is sent, what is queued, and the event *)
(* that the node at work would publish next.                                    *)

EventTypes == {"section_started", "token", "section_completed"}

Msg == [type: EventTypes \cup {"status", "stream_error", "snapshot", "app_error"},
        take: 0..MaxTakes, n: Nat, moment: 0..LastMoment]

Coming == IF work.pc = "streaming" THEN Event("token", work.sent + 1) ELSE Message("status", 0)

Pipe == IF Open THEN conn.wire \o conn.queue ELSE << >>

Line == Append(Pipe, Coming)

\* The first n tokens of take k.
Whole(k, n) == [i \in 1..n |-> <<k, i>>]

\* The place of an event in its take; len are the lengths of the completed takes.
Rank(e, len) == IF e.type = "section_completed" THEN len[e.take] + 1 ELSE e.n

\* The page has everything of the take of e that comes before e, or does not need it.
Holds(pg, e, len) ==
    \/ pg.newest = LastMoment
    \/ pg.state = "streaming" /\ pg.text = Whole(e.take, Rank(e, len) - 1)

\* In the line L the event at place j comes next after the one at i in their take.
Follows(L, i, j, len) ==
    /\ L[i].take = L[j].take /\ L[i].type # "section_completed"
    /\ Rank(L[j], len) = L[i].n + 1
    /\ \A l \in i + 1..j - 1 : L[l].take = 0

\* The event at place j of the line L has no gap before it: the one that precedes it
\* in its take is the last event before it in L, or the page has received it.
Preceded(L, j, len, pg) ==
    \/ \E i \in 1..j - 1 : Follows(L, i, j, len)
    \/ (\A l \in 1..j - 1 : L[l].take = 0) /\ Holds(pg, L[j], len)

Chained(L, G, len, pg) ==
    \A j \in 1..Len(L) : L[j].take \notin G \cup {0} /\ L[j].type # "section_started" =>
        Preceded(L, j, len, pg)

-----------------------------------------------------------------------------
(* Chains.  The lines are changed at the end by the nodes, between the wire and  *)
(* the queue by snapshots, and at the front by the page.                         *)

\* More gaps, and a page that holds at least as much, make nothing worse.
LEMMA ChainedWeaker ==
    ASSUME NEW L \in Seq(Msg), NEW G, NEW G2, NEW len, NEW pg, NEW pg2, G \subseteq G2,
           \A e \in Msg : Holds(pg, e, len) => Holds(pg2, e, len),
           Chained(L, G, len, pg)
    PROVE  Chained(L, G2, len, pg2)
  BY DEF Chained, Preceded, Follows

\* The length of a take matters only where its completion is on the way.
LEMMA ChainedLengths ==
    ASSUME NEW L \in Seq(Msg), NEW G, NEW len, NEW len2, NEW pg,
           \A j \in 1..Len(L) : L[j].type = "section_completed" => len2[L[j].take] = len[L[j].take],
           Chained(L, G, len, pg)
    PROVE  Chained(L, G, len2, pg)
  <1>1. \A j \in 1..Len(L) : Rank(L[j], len2) = Rank(L[j], len)
    BY DEF Rank
  <1>2. QED
    BY <1>1 DEF Chained, Preceded, Follows, Holds

\* An event that is no token and no completion is put in somewhere.
LEMMA ChainedInsert ==
    ASSUME NEW L \in Seq(Msg), NEW M \in Seq(Msg), NEW k \in 0..Len(L), NEW G, NEW len, NEW pg,
           Len(M) = Len(L) + 1,
           \A i \in 1..k : M[i] = L[i],
           \A i \in k + 1..Len(L) : M[i + 1] = L[i],
           M[k + 1].take = 0,
           Chained(L, G, len, pg)
    PROVE  Chained(M, G, len, pg)
  <1>. SUFFICES ASSUME NEW j \in 1..Len(M), M[j].take \notin G \cup {0},
                       M[j].type # "section_started"
                PROVE  Preceded(M, j, len, pg)
    BY DEF Chained
  <1>0. Len(L) \in Nat /\ Len(M) \in Nat
    OBVIOUS
  <1>1. CASE j \in 1..k
    <2>1. Preceded(L, j, len, pg)
      BY <1>0, <1>1 DEF Chained
    <2>2. \A i \in 1..j : M[i] = L[i]
      BY <1>1
    <2>3. QED
      BY <1>1, <2>1, <2>2, SMTT(60) DEF Preceded, Follows
  <1>2. CASE j \in k + 2..Len(M)
    <2>. DEFINE h == j - 1
    <2>1. h \in 1..Len(L) /\ M[j] = L[h]
      BY <1>0, <1>2
    <2>2. Preceded(L, h, len, pg)
      BY <2>1 DEF Chained
    <2>3. CASE \E i \in 1..h - 1 : Follows(L, i, h, len)
      <3>1. PICK i \in 1..h - 1 : Follows(L, i, h, len)
        BY <2>3
      <3>2. CASE i <= k
        <4>1. M[i] = L[i] /\ i \in 1..j - 1
          BY <1>0, <2>1, <3>2, SMTT(60)
        <4>2. ASSUME NEW l \in i + 1..j - 1 PROVE M[l].take = 0
          <5>1. CASE l <= k
            BY <1>2, <3>1, <5>1, SMTT(60) DEF Follows
          <5>2. CASE l = k + 1
            BY <5>2
          <5>3. CASE l > k + 1
            <6>1. l - 1 \in k + 1..Len(L) /\ l - 1 \in i + 1..h - 1
              BY <1>0, <2>1, <3>2, <5>3
            <6>2. M[(l - 1) + 1] = L[l - 1]
              BY <6>1
            <6>3. QED
              BY <3>1, <6>1, <6>2, SMTT(60) DEF Follows
          <5>4. QED
            BY <5>1, <5>2, <5>3
        <4>3. QED
          BY <2>1, <3>1, <4>1, <4>2 DEF Preceded, Follows
      <3>3. CASE i > k
        <4>0. i \in k + 1..Len(L)
          BY <1>0, <2>1, <3>3, SMTT(60)
        <4>1. M[i + 1] = L[i] /\ i + 1 \in 1..j - 1
          BY <1>0, <2>1, <3>3, <4>0
        <4>2. ASSUME NEW l \in (i + 1) + 1..j - 1 PROVE M[l].take = 0
          <5>1. l - 1 \in k + 1..Len(L) /\ l - 1 \in i + 1..h - 1
            BY <1>0, <2>1, <3>3
          <5>2. M[(l - 1) + 1] = L[l - 1]
            BY <5>1
          <5>3. QED
            BY <3>1, <5>1, <5>2 DEF Follows
        <4>3. QED
          BY <2>1, <3>1, <4>1, <4>2 DEF Preceded, Follows
      <3>4. QED
        BY <3>2, <3>3
    <2>4. CASE (\A l \in 1..h - 1 : L[l].take = 0) /\ Holds(pg, L[h], len)
      <3>1. ASSUME NEW l \in 1..j - 1 PROVE M[l].take = 0
        <4>1. CASE l <= k
          BY <1>2, <2>4, <4>1
        <4>2. CASE l = k + 1
          BY <4>2
        <4>3. CASE l > k + 1
          <5>1. l - 1 \in k + 1..Len(L) /\ l - 1 \in 1..h - 1
            BY <1>0, <2>1, <4>3
          <5>2. M[(l - 1) + 1] = L[l - 1]
            BY <5>1
          <5>3. QED
            BY <2>4, <5>1, <5>2
        <4>4. QED
          BY <4>1, <4>2, <4>3
      <3>2. QED
        BY <2>1, <2>4, <3>1 DEF Preceded
    <2>5. QED
      BY <2>2, <2>3, <2>4 DEF Preceded
  <1>3. QED
    BY <1>0, <1>1, <1>2

\* The queue is given back, and what was in it leaves a gap.
LEMMA ChainedCut ==
    ASSUME NEW L \in Seq(Msg), NEW M \in Seq(Msg), NEW k \in 0..Len(L) - 1,
           NEW G, NEW G2, NEW len, NEW pg, G \subseteq G2,
           Len(M) = k + 1,
           \A i \in 1..k : M[i] = L[i],
           M[k + 1] = L[Len(L)],
           \A i \in k + 1..Len(L) - 1 : L[i].take \in G2 \cup {0},
           Chained(L, G, len, pg)
    PROVE  Chained(M, G2, len, pg)
  <1>. SUFFICES ASSUME NEW j \in 1..Len(M), M[j].take \notin G2 \cup {0},
                       M[j].type # "section_started"
                PROVE  Preceded(M, j, len, pg)
    BY DEF Chained
  <1>0. Len(L) \in Nat \ {0} /\ Len(M) \in Nat
    OBVIOUS
  <1>1. CASE j \in 1..k
    <2>1. Preceded(L, j, len, pg)
      BY <1>0, <1>1, SMTT(60) DEF Chained
    <2>2. \A i \in 1..j : M[i] = L[i]
      BY <1>1
    <2>3. \A i \in 1..j - 1 : i + 1..j - 1 \subseteq 1..j /\ i \in 1..j
      OBVIOUS
    <2>4. QED
      BY <2>1, <2>2, <2>3, SMTT(60) DEF Preceded, Follows
  <1>2. CASE j = k + 1
    <2>. DEFINE h == Len(L)
    <2>1. h \in 1..Len(L) /\ M[j] = L[h] /\ Preceded(L, h, len, pg)
      BY <1>0, <1>2 DEF Chained
    <2>2. CASE \E i \in 1..h - 1 : Follows(L, i, h, len)
      <3>1. PICK i \in 1..h - 1 : Follows(L, i, h, len)
        BY <2>2
      <3>2. i \in 1..k
        <4>1. i \notin k + 1..Len(L) - 1
          BY <2>1, <3>1 DEF Follows
        <4>2. QED
          BY <1>0, <3>1, <4>1
      <3>3. M[i] = L[i] /\ \A l \in i + 1..k : M[l] = L[l]
        BY <3>2
      <3>4. \A l \in i + 1..k : l \in i + 1..h - 1
        BY <1>0, <3>2
      <3>5. Follows(M, i, j, len)
        BY <1>2, <2>1, <3>1, <3>2, <3>3, <3>4, SMTT(60) DEF Follows
      <3>6. QED
        BY <1>2, <3>2, <3>5 DEF Preceded
    <2>3. CASE (\A l \in 1..h - 1 : L[l].take = 0) /\ Holds(pg, L[h], len)
      <3>1. \A l \in 1..j - 1 : M[l] = L[l] /\ l \in 1..h - 1
        BY <1>0, <1>2
      <3>2. \A l \in 1..j - 1 : M[l].take = 0
        BY <2>3, <3>1
      <3>3. Holds(pg, M[j], len)
        BY <2>1, <2>3
      <3>4. QED
        BY <3>2, <3>3 DEF Preceded
    <2>4. QED
      BY <2>1, <2>2, <2>3 DEF Preceded
  <1>3. QED
    BY <1>0, <1>1, <1>2

\* The page reads the first event, and then holds what comes before the next one.
LEMMA ChainedTail ==
    ASSUME NEW L \in Seq(Msg), NEW M \in Seq(Msg), NEW G, NEW len, NEW pg, NEW pg2,
           Len(L) = Len(M) + 1,
           \A i \in 1..Len(M) : M[i] = L[i + 1],
           Chained(L, G, len, pg),
           L[1].take = 0 => \A e \in Msg : Holds(pg, e, len) => Holds(pg2, e, len),
           \A e \in Msg : /\ e.take = L[1].take /\ e.take \notin G \cup {0}
                          /\ L[1].type # "section_completed" /\ Rank(e, len) = L[1].n + 1
                          => Holds(pg2, e, len)
    PROVE  Chained(M, G, len, pg2)
  <1>. SUFFICES ASSUME NEW j \in 1..Len(M), M[j].take \notin G \cup {0},
                       M[j].type # "section_started"
                PROVE  Preceded(M, j, len, pg2)
    BY DEF Chained
  <1>0. Len(L) \in Nat /\ Len(M) \in Nat /\ M[j] \in Msg
    OBVIOUS
  <1>. DEFINE h == j + 1
  <1>1. h \in 1..Len(L) /\ M[j] = L[h] /\ Preceded(L, h, len, pg)
    BY <1>0 DEF Chained
  <1>2. CASE \E i \in 1..h - 1 : Follows(L, i, h, len)
    <2>1. PICK i \in 1..h - 1 : Follows(L, i, h, len)
      BY <1>2
    <2>2. CASE i = 1
      <3>1. Holds(pg2, M[j], len)
        BY <1>0, <1>1, <2>1, <2>2 DEF Follows
      <3>2. \A l \in 1..j - 1 : l \in 1..Len(M) /\ l + 1 \in i + 1..h - 1
        BY <1>0, <2>2, SMTT(60)
      <3>3. \A l \in 1..j - 1 : M[l].take = 0
        BY <2>1, <3>2 DEF Follows
      <3>4. QED
        BY <3>1, <3>3 DEF Preceded
    <2>3. CASE i > 1
      <3>1. i - 1 \in 1..Len(M) /\ i - 1 \in 1..j - 1
        BY <1>0, <2>3
      <3>2. M[i - 1] = L[(i - 1) + 1]
        BY <3>1
      <3>3. \A l \in (i - 1) + 1..j - 1 : M[l] = L[l + 1] /\ l + 1 \in i + 1..h - 1
        BY <1>0, <2>3
      <3>4. M[i - 1] = L[i]
        BY <3>2
      <3>5. Follows(M, i - 1, j, len)
        BY <1>1, <2>1, <3>3, <3>4, SMTT(60) DEF Follows
      <3>6. QED
        BY <3>1, <3>5 DEF Preceded
    <2>4. QED
      BY <2>2, <2>3
  <1>3. CASE (\A l \in 1..h - 1 : L[l].take = 0) /\ Holds(pg, L[h], len)
    <2>1. L[1].take = 0 /\ Holds(pg2, M[j], len)
      BY <1>0, <1>1, <1>3
    <2>2. \A l \in 1..j - 1 : M[l] = L[l + 1] /\ l + 1 \in 1..h - 1
      BY <1>0
    <2>3. QED
      BY <1>3, <2>1, <2>2, ZenonT(90) DEF Preceded
  <1>4. QED
    BY <1>1, <1>2, <1>3 DEF Preceded


\* The event at the end of a line gives way to one with the same place in its take, or
\* to one that needs nothing before it.
LEMMA ChainedEnd ==
    ASSUME NEW P \in Seq(Msg), NEW c \in Msg, NEW d \in Msg, NEW G, NEW len, NEW pg,
           \/ d.take \in G \cup {0} \/ d.type = "section_started"
           \/ /\ d.take = c.take /\ c.type # "section_started"
              /\ Rank(d, len) = Rank(c, len),
           Chained(Append(P, c), G, len, pg)
    PROVE  Chained(Append(P, d), G, len, pg)
  <1>. DEFINE L == Append(P, c)
              M == Append(P, d)
              h == Len(P) + 1
  <1>1. /\ L \in Seq(Msg) /\ M \in Seq(Msg) /\ Len(L) = h /\ Len(M) = h
        /\ L[h] = c /\ M[h] = d
        /\ \A i \in 1..h - 1 : L[i] = M[i]
        /\ h \in Nat \ {0}
    OBVIOUS
  <1>. HIDE DEF L, M, h
  <1>. SUFFICES ASSUME NEW j \in 1..h, M[j].take \notin G \cup {0},
                       M[j].type # "section_started"
                PROVE  Preceded(M, j, len, pg)
    BY <1>1 DEF Chained, L, M
  <1>2. L[j].take \notin G \cup {0} /\ L[j].type # "section_started"
    BY <1>1
  <1>3. Preceded(L, j, len, pg)
    BY <1>1, <1>2 DEF Chained, L
  <1>4. L[j].take = M[j].take /\ Rank(L[j], len) = Rank(M[j], len)
    BY <1>1, SMTT(60)
  <1>5. \A i \in 1..j - 1 : L[i] = M[i]
    BY <1>1
  <1>6. \A i \in 1..j - 1 : i + 1..j - 1 \subseteq 1..j - 1
    BY <1>1
  <1>7. QED
    BY <1>3, <1>4, <1>5, <1>6 DEF Preceded, Follows, Holds

\* An event is added that comes next in the take of the last one, or that needs nothing
\* before it.
LEMMA ChainedNext ==
    ASSUME NEW P \in Seq(Msg), NEW c \in Msg, NEW d \in Msg, NEW G, NEW len, NEW pg,
           \/ d.take \in G \cup {0}
           \/ /\ d.take = c.take /\ c.type # "section_completed"
              /\ Rank(d, len) = c.n + 1,
           Chained(Append(P, c), G, len, pg)
    PROVE  Chained(Append(Append(P, c), d), G, len, pg)
  <1>. DEFINE L == Append(P, c)
              M == Append(L, d)
              h == Len(P) + 1
  <1>1. /\ L \in Seq(Msg) /\ M \in Seq(Msg) /\ Len(L) = h /\ Len(M) = h + 1
        /\ L[h] = c /\ M[h + 1] = d
        /\ \A i \in 1..h : M[i] = L[i]
        /\ h \in Nat \ {0}
    OBVIOUS
  <1>. HIDE DEF L, M, h
  <1>. SUFFICES ASSUME NEW j \in 1..h + 1, M[j].take \notin G \cup {0},
                       M[j].type # "section_started"
                PROVE  Preceded(M, j, len, pg)
    BY <1>1 DEF Chained, M, L
  <1>2. CASE j \in 1..h
    <2>1. Preceded(L, j, len, pg)
      BY <1>1, <1>2 DEF Chained, L
    <2>2. \A i \in 1..j : M[i] = L[i]
      BY <1>1, <1>2
    <2>3. \A i \in 1..j - 1 : i + 1..j - 1 \subseteq 1..j /\ i \in 1..j
      BY <1>1
    <2>4. QED
      BY <2>1, <2>2, <2>3 DEF Preceded, Follows
  <1>3. CASE j = h + 1
    <2>1. M[h] = c
      BY <1>1
    <2>2. Follows(M, h, j, len)
      BY <1>1, <1>3, <2>1 DEF Follows
    <2>3. QED
      BY <1>1, <1>3, <2>2 DEF Preceded
  <1>4. QED
    BY <1>1, <1>2, <1>3

-----------------------------------------------------------------------------
(* The types of the variables. *)

Conns == [pc: {"loop", "over"}, due: BOOLEAN, sent: Int, queue: Seq(Msg), wire: Seq(Msg),
          sub: {"pending", "on", "lost"}]

Pages == [shown: Int, polling: BOOLEAN, text: Seq(Nat \X Nat),
          state: {"none", "streaming", "complete"}, take: Nat, newest: Int, deaf: BOOLEAN]

Asks(m) == [kind: {"load", "act"}, read: 0..m] \cup {NoAsk}

TypeOK ==
    /\ moment \in 0..LastMoment
    /\ work \in [take: 0..MaxTakes, sent: Nat, pc: {"idle", "streaming", "retry", "failing"}]
    /\ work.pc \in {"streaming", "retry"} => work.take # 0
    /\ lengths \in [Takes -> Nat]
    /\ conn \in Conns \cup {NoConn}
    /\ page \in Pages
    /\ polls \subseteq 0..moment
    /\ ask \in Asks(moment)

USE ConstantsAssumption

LEMMA OpenConn == TypeOK /\ Open => conn \in Conns
  BY DEF TypeOK, Open

LEMMA ConnIsOpen == \A c \in Conns : c # NoConn
  BY SMTT(60) DEF Conns, NoConn

LEMMA ConnParts == \A c \in Conns : c.queue \in Seq(Msg) /\ c.wire \in Seq(Msg)
  BY DEF Conns

LEMMA QueuedConn ==
    ASSUME NEW c \in Conns, NEW e \in Msg, NEW d,
           d = [c EXCEPT !.queue = Append(@, e)]
    PROVE  d \in Conns /\ d.wire = c.wire /\ d.queue = Append(c.queue, e)
  <1>1. PICK q : q = Append(c.queue, e)
    OBVIOUS
  <1>2. q \in Seq(Msg)
    <2>1. PICK v \in Seq(Msg) : v = c.queue
      BY ConnParts
    <2>2. QED
      BY <1>1, <2>1
  <1>3. d = [c EXCEPT !.queue = q]
    BY <1>1
  <1>4. QED
    BY <1>1, <1>2, <1>3 DEF Conns

LEMMA ConcatAppend ==
    ASSUME NEW S, NEW v \in Seq(S), NEW w \in Seq(S), NEW e \in S
    PROVE  v \o Append(w, e) = Append(v \o w, e)
  BY SMTT(60)

\* What is published is queued or leaves a gap.
LEMMA EmitLine ==
    ASSUME TypeOK, NEW e \in Msg, Emit(e)
    PROVE  /\ conn' \in Conns \cup {NoConn} /\ (Open <=> Open')
           /\ UNCHANGED <<page, polls, ask>>
           /\ \/ Pipe' = Append(Pipe, e) /\ gaps' = gaps
              \/ Pipe' = Pipe /\ gaps' = gaps \cup Missed(e)
  <1>1. UNCHANGED <<page, polls, ask>>
    BY DEF Emit, clientSide
  <1>2. CASE UNCHANGED conn /\ gaps' = gaps \cup Missed(e)
    BY <1>1, <1>2 DEF Pipe, Open, TypeOK
  <1>3. CASE /\ Subscribed /\ gaps' = gaps
             /\ conn' = [conn EXCEPT !.queue = Append(@, e)]
    <2>1. conn \in Conns
      BY <1>3, OpenConn DEF Subscribed
    <2>2. /\ conn' \in Conns /\ conn'.wire = conn.wire
          /\ conn'.queue = Append(conn.queue, e)
      BY <1>3, <2>1, QueuedConn
    <2>3. conn.wire \o Append(conn.queue, e) = Append(conn.wire \o conn.queue, e)
      <3>1. PICK v \in Seq(Msg), w \in Seq(Msg) : v = conn.wire /\ w = conn.queue
        BY <2>1, ConnParts
      <3>2. v \o Append(w, e) = Append(v \o w, e)
        BY ConcatAppend, SMTT(60)
      <3>3. QED
        BY <3>1, <3>2
    <2>4. QED
      BY <1>1, <1>3, <2>1, <2>2, <2>3, ConnIsOpen DEF Pipe, Open
  <1>4. QED
    BY <1>2, <1>3 DEF Emit, Publish, PublishLost


\* A message is put in between the wire and the queue, or behind them.
Posted(P, Q, e) ==
    \E v, w \in Seq(Msg) : P = v \o w /\ Q = Append(v, e) \o w

\* The queue is given up, with gaps G, and a message closes the wire.
Cleared(P, Q, e, G) ==
    \E v, w \in Seq(Msg) :
        /\ P = v \o w /\ Q = Append(v, e)
        /\ \A i \in 1..Len(w) : w[i].take \in G \cup {0}

\* A message that belongs to no take.
Notices == {e \in Msg : e.take = 0 /\ e.type \notin EventTypes}

LEMMA ChainedPosted ==
    ASSUME NEW P \in Seq(Msg), NEW Q, NEW e \in Notices, NEW c \in Msg,
           NEW G, NEW len, NEW pg,
           Posted(P, Q, e), Chained(Append(P, c), G, len, pg)
    PROVE  Q \in Seq(Msg) /\ Chained(Append(Q, c), G, len, pg)
  <1>1. PICK v \in Seq(Msg), w \in Seq(Msg) : P = v \o w /\ Q = Append(v, e) \o w
    BY DEF Posted
  <1>2. e \in Msg /\ e.take = 0
    BY DEF Notices
  <1>. DEFINE L == Append(v \o w, c)
              M == Append(Append(v, e) \o w, c)
              k == Len(v)
  <1>3. /\ L \in Seq(Msg) /\ M \in Seq(Msg) /\ k \in 0..Len(L)
        /\ Len(M) = Len(L) + 1 /\ M[k + 1] = e
        /\ \A i \in 1..k : M[i] = L[i]
        /\ \A i \in k + 1..Len(L) : M[i + 1] = L[i]
    <2>1. /\ v \o w \in Seq(Msg) /\ L \in Seq(Msg) /\ k \in Nat /\ Len(w) \in Nat
          /\ Len(L) = k + Len(w) + 1 /\ L[Len(L)] = c
          /\ \A i \in 1..k : L[i] = v[i]
      BY SMTT(60)
    <2>2. \A i \in k + 1..k + Len(w) : L[i] = w[i - k]
      BY SMTT(60)
    <2>. DEFINE u == Append(v, e)
    <2>3. u \in Seq(Msg) /\ Len(u) = k + 1 /\ u[k + 1] = e /\ \A i \in 1..k : u[i] = v[i]
      BY <1>2
    <2>. HIDE DEF u
    <2>4. /\ u \o w \in Seq(Msg) /\ M \in Seq(Msg) /\ Len(M) = k + 1 + Len(w) + 1
          /\ M[Len(M)] = c
          /\ \A i \in 1..k + 1 : M[i] = u[i]
      BY <2>1, <2>3, SMTT(60) DEF u
    <2>5. \A i \in k + 2..k + 1 + Len(w) : M[i] = w[i - (k + 1)]
      BY <2>1, <2>3, SMTT(60) DEF u
    <2>. HIDE DEF L, M, k
    <2>6. \A i \in 1..k : M[i] = L[i]
      BY <2>1, <2>3, <2>4
    <2>7. ASSUME NEW i \in k + 1..Len(L) PROVE M[i + 1] = L[i]
      <3>1. CASE i = Len(L)
        BY <2>1, <2>4, <3>1, SMTT(60)
      <3>2. CASE i < Len(L)
        <4>1. i \in k + 1..k + Len(w) /\ i + 1 \in k + 2..k + 1 + Len(w)
          BY <2>1, <3>2, SMTT(60)
        <4>2. M[i + 1] = w[(i + 1) - (k + 1)] /\ L[i] = w[i - k]
          BY <2>2, <2>5, <4>1
        <4>3. (i + 1) - (k + 1) = i - k
          BY <2>1, SMTT(60)
        <4>4. QED
          BY <4>2, <4>3
      <3>3. QED
        BY <2>1, <3>1, <3>2, SMTT(60)
    <2>8. QED
      BY <2>1, <2>3, <2>4, <2>6, <2>7, SMTT(60)
  <1>4. Chained(L, G, len, pg)
    BY <1>1
  <1>. HIDE DEF L, M, k
  <1>5. Chained(M, G, len, pg)
    BY <1>2, <1>3, <1>4, ChainedInsert
  <1>6. Q \in Seq(Msg)
    BY <1>1, <1>2
  <1>7. QED
    BY <1>1, <1>5, <1>6 DEF M

LEMMA ChainedCleared ==
    ASSUME NEW P \in Seq(Msg), NEW Q, NEW e \in Notices, NEW c \in Msg,
           NEW G, NEW G2, NEW len, NEW pg, G \subseteq G2,
           Cleared(P, Q, e, G2), Chained(Append(P, c), G, len, pg)
    PROVE  Q \in Seq(Msg) /\ Chained(Append(Q, c), G2, len, pg)
  <1>1. PICK v \in Seq(Msg), w \in Seq(Msg) :
            /\ P = v \o w /\ Q = Append(v, e)
            /\ \A i \in 1..Len(w) : w[i].take \in G2 \cup {0}
    BY DEF Cleared
  <1>2. e \in Msg /\ e.take = 0
    BY DEF Notices
  <1>. DEFINE L == Append(v \o w, c)
              M == Append(v, c)
              k == Len(v)
  <1>3. /\ L \in Seq(Msg) /\ M \in Seq(Msg) /\ k \in 0..Len(L) - 1
        /\ Len(M) = k + 1 /\ M[k + 1] = L[Len(L)]
        /\ \A i \in 1..k : M[i] = L[i]
    BY SMTT(60)
  <1>4. ASSUME NEW i \in k + 1..Len(L) - 1 PROVE L[i].take \in G2 \cup {0}
    <2>1. i - k \in 1..Len(w) /\ L[i] = w[i - k]
      BY SMTT(60)
    <2>2. QED
      BY <1>1, <2>1
  <1>5. Chained(L, G, len, pg)
    BY <1>1
  <1>. HIDE DEF L, M, k
  <1>6. Chained(M, G2, len, pg)
    BY <1>3, <1>4, <1>5, ChainedCut, ZenonT(90)
  <1>7. Posted(v, Q, e)
    <2>1. v = v \o << >> /\ Append(v, e) = Append(v, e) \o << >> /\ << >> \in Seq(Msg)
      BY <1>2
    <2>2. QED
      BY <1>1, <2>1 DEF Posted
  <1>8. QED
    BY <1>6, <1>7, ChainedPosted DEF M

\* The stream is closed: everything on the way leaves a gap.
LEMMA ChainedClosed ==
    ASSUME NEW P \in Seq(Msg), NEW c \in Msg, NEW G, NEW G2, NEW len, NEW pg, G \subseteq G2,
           \A i \in 1..Len(P) : P[i].take \in G2 \cup {0},
           Chained(Append(P, c), G, len, pg)
    PROVE  Chained(Append(<< >>, c), G2, len, pg)
  <1>. DEFINE L == Append(P, c)
              M == Append(<< >>, c)
  <1>1. /\ L \in Seq(Msg) /\ M \in Seq(Msg) /\ Len(L) \in Nat \ {0}
        /\ Len(M) = 1 /\ M[1] = L[Len(L)]
        /\ \A i \in 1..Len(L) - 1 : L[i].take \in G2 \cup {0}
    OBVIOUS
  <1>. HIDE DEF L, M
  <1>2. 0 \in 0..Len(L) - 1
    BY <1>1
  <1>3. Len(M) = 0 + 1 /\ M[0 + 1] = L[Len(L)] /\ \A i \in 1..0 : M[i] = L[i]
    BY <1>1
  <1>4. \A i \in 0 + 1..Len(L) - 1 : L[i].take \in G2 \cup {0}
    BY <1>1
  <1>5. Chained(L, G, len, pg)
    BY DEF L
  <1>6. QED
    BY <1>1, <1>2, <1>3, <1>4, <1>5, ChainedCut DEF M


-----------------------------------------------------------------------------
(* What the actions do to the line. *)

LEMMA Grown ==
    ASSUME NEW v \in Seq(Msg), NEW e \in Msg
    PROVE  Append(v, e) \in Seq(Msg)
  OBVIOUS

LEMMA SameSequence ==
    ASSUME NEW s \in Seq(Msg), NEW t \in Seq(Msg), Len(s) = Len(t),
           \A i \in 1..Len(s) : s[i] = t[i]
    PROVE  s = t
  BY SMTT(60)

LEMMA Joined ==
    ASSUME NEW v \in Seq(Msg), NEW w \in Seq(Msg)
    PROVE  /\ v \o w \in Seq(Msg) /\ Len(v \o w) = Len(v) + Len(w)
           /\ Len(v) \in Nat /\ Len(w) \in Nat
           /\ \A i \in 1..Len(v) : (v \o w)[i] = v[i]
           /\ \A i \in Len(v) + 1..Len(v) + Len(w) : (v \o w)[i] = w[i - Len(v)]
  BY SMTT(60)

LEMMA HeadMoves ==
    ASSUME NEW v \in Seq(Msg), NEW w \in Seq(Msg), w # << >>
    PROVE  /\ Append(v, Head(w)) \in Seq(Msg) /\ Tail(w) \in Seq(Msg)
           /\ Append(v, Head(w)) \o Tail(w) = v \o w
  <1>1. /\ Head(w) \in Msg /\ Tail(w) \in Seq(Msg) /\ Len(w) \in Nat \ {0}
        /\ Len(Tail(w)) = Len(w) - 1
        /\ \A i \in 1..Len(w) - 1 : Tail(w)[i] = w[i + 1]
        /\ Head(w) = w[1]
    OBVIOUS
  <1>. DEFINE a == Append(v, Head(w))
              q == Tail(w)
  <1>2. /\ a \in Seq(Msg) /\ Len(a) = Len(v) + 1 /\ a[Len(v) + 1] = w[1]
        /\ \A i \in 1..Len(v) : a[i] = v[i]
        /\ Len(v) \in Nat
    BY <1>1
  <1>3. q \in Seq(Msg) /\ Len(q) = Len(w) - 1 /\ \A i \in 1..Len(w) - 1 : q[i] = w[i + 1]
    BY <1>1
  <1>. HIDE DEF a, q
  <1>4. /\ a \o q \in Seq(Msg) /\ v \o w \in Seq(Msg) /\ Len(v \o w) = Len(v) + Len(w)
        /\ Len(a \o q) = Len(v) + Len(w)
    <2>1. Len(a \o q) = Len(a) + Len(q) /\ a \o q \in Seq(Msg)
      BY <1>2, <1>3, Joined
    <2>2. Len(v \o w) = Len(v) + Len(w) /\ v \o w \in Seq(Msg)
      BY Joined
    <2>3. QED
      BY <1>1, <1>2, <1>3, <2>1, <2>2
  <1>5. ASSUME NEW i \in 1..Len(v \o w) PROVE (a \o q)[i] = (v \o w)[i]
    <2>1. CASE i <= Len(v)
      <3>1. i \in 1..Len(v) /\ i \in 1..Len(a)
        BY <1>2, <2>1, SMTT(60)
      <3>2. (a \o q)[i] = a[i] /\ (v \o w)[i] = v[i]
        BY <1>2, <1>3, <3>1, Joined
      <3>3. QED
        BY <1>2, <3>1, <3>2
    <2>2. CASE i = Len(v) + 1
      <3>1. i \in 1..Len(a) /\ i \in Len(v) + 1..Len(v) + Len(w) /\ i - Len(v) = 1
        BY <1>1, <1>2, <2>2
      <3>2. (a \o q)[i] = a[i] /\ (v \o w)[i] = w[i - Len(v)]
        BY <1>2, <1>3, <3>1, Joined, ZenonT(90)
      <3>3. QED
        BY <1>2, <2>2, <3>1, <3>2
    <2>3. CASE i > Len(v) + 1
      <3>1. /\ i \in Len(a) + 1..Len(a) + Len(q) /\ i \in Len(v) + 1..Len(v) + Len(w)
            /\ i - Len(a) \in 1..Len(w) - 1 /\ (i - Len(a)) + 1 = i - Len(v)
        BY <1>1, <1>2, <1>3, <1>4, <2>3, SMTT(60)
      <3>2. (a \o q)[i] = q[i - Len(a)] /\ (v \o w)[i] = w[i - Len(v)]
        BY <1>2, <1>3, <3>1, Joined, ZenonT(90)
      <3>3. QED
        BY <1>3, <3>1, <3>2
    <2>4. i \in Int /\ Len(v) \in Int
      BY <1>2, <1>4
    <2>5. i <= Len(v) \/ i = Len(v) + 1 \/ i > Len(v) + 1
      BY <2>4, SMTT(60)
    <2>6. QED
      BY <2>1, <2>2, <2>3, <2>5
  <1>6. a \o q = v \o w
    BY <1>4, <1>5, SameSequence
  <1>7. QED
    BY <1>2, <1>3, <1>6 DEF a, q

LEMMA TailJoined ==
    ASSUME NEW v \in Seq(Msg), NEW w \in Seq(Msg), v # << >>
    PROVE  Tail(v \o w) = Tail(v) \o w /\ Head(v \o w) = Head(v) /\ v \o w # << >>
  <1>. DEFINE u == Tail(v)
              s == v \o w
              t == u \o w
  <1>1. /\ u \in Seq(Msg) /\ Len(u) = Len(v) - 1 /\ Len(v) \in Nat \ {0} /\ Len(w) \in Nat
        /\ \A i \in 1..Len(v) - 1 : u[i] = v[i + 1]
    OBVIOUS
  <1>. HIDE DEF u
  <1>2. /\ s \in Seq(Msg) /\ Len(s) = Len(v) + Len(w)
        /\ \A i \in 1..Len(v) : s[i] = v[i]
        /\ \A i \in Len(v) + 1..Len(v) + Len(w) : s[i] = w[i - Len(v)]
    BY Joined
  <1>3. /\ t \in Seq(Msg) /\ Len(t) = Len(u) + Len(w)
        /\ \A i \in 1..Len(u) : t[i] = u[i]
        /\ \A i \in Len(u) + 1..Len(u) + Len(w) : t[i] = w[i - Len(u)]
    BY <1>1, Joined
  <1>. HIDE DEF s, t
  <1>4. s # << >> /\ Head(s) = s[1] /\ Head(v) = v[1] /\ 1 \in 1..Len(v)
    BY <1>1, <1>2, SMTT(60)
  <1>5. /\ Tail(s) \in Seq(Msg) /\ Len(Tail(s)) = Len(s) - 1
        /\ \A i \in 1..Len(s) - 1 : Tail(s)[i] = s[i + 1]
    BY <1>2, <1>4
  <1>6. ASSUME NEW i \in 1..Len(t) PROVE Tail(s)[i] = t[i]
    <2>0. i \in 1..Len(s) - 1 /\ Len(v) \in Nat /\ Len(u) \in Nat /\ i \in Nat
      BY <1>1, <1>2, <1>3
    <2>1. CASE i \in 1..Len(u)
      <3>1. i + 1 \in 1..Len(v) /\ i \in 1..Len(v) - 1
        BY <1>1, <2>1
      <3>2. QED
        BY <1>1, <1>2, <1>3, <1>5, <2>0, <2>1, <3>1
    <2>2. CASE i \notin 1..Len(u)
      <3>1. /\ i + 1 \in Len(v) + 1..Len(v) + Len(w) /\ i \in Len(u) + 1..Len(u) + Len(w)
            /\ (i + 1) - Len(v) = i - Len(u)
        BY <1>1, <1>3, <2>0, <2>2
      <3>2. s[i + 1] = w[(i + 1) - Len(v)] /\ t[i] = w[i - Len(u)]
        BY <1>2, <1>3, <3>1
      <3>3. QED
        BY <1>5, <2>0, <3>1, <3>2
    <2>3. QED
      BY <2>1, <2>2
  <1>7. Len(Tail(s)) = Len(t)
    BY <1>1, <1>2, <1>3, <1>5
  <1>8. Tail(s) = t
    BY <1>3, <1>5, <1>6, <1>7, SameSequence
  <1>9. QED
    BY <1>2, <1>4, <1>8 DEF s, t, u

LEMMA PipeTyped == TypeOK => Pipe \in Seq(Msg)
  <1>. SUFFICES ASSUME TypeOK PROVE Pipe \in Seq(Msg)
    OBVIOUS
  <1>1. CASE Open
    <2>1. PICK v \in Seq(Msg), w \in Seq(Msg) : v = conn.wire /\ w = conn.queue
      BY <1>1, OpenConn, ConnParts
    <2>2. v \o w \in Seq(Msg)
      OBVIOUS
    <2>3. QED
      BY <1>1, <2>1, <2>2 DEF Pipe
  <1>2. CASE ~Open
    <2>1. << >> \in Seq(Msg)
      OBVIOUS
    <2>2. QED
      BY <1>2, <2>1 DEF Pipe
  <1>3. QED
    BY <1>1, <1>2

\* Behind the events of a queue that is given up, all takes in it have gaps.
LEMMA MissedTakes ==
    ASSUME NEW q \in Seq(Msg), NEW i \in 1..Len(q), NEW G, MissedIn(q) \subseteq G
    PROVE  q[i].take \in G \cup {0}
  <1>1. q[i].take = 0 \/ q[i].take \in Missed(q[i])
    BY DEF Missed
  <1>2. Missed(q[i]) \subseteq MissedIn(q)
    BY DEF MissedIn
  <1>3. QED
    BY <1>1, <1>2

LEMMA LeaveLine ==
    ASSUME TypeOK, Open, NEW e \in Msg, Leave(e)
    PROVE  /\ conn' \in Conns /\ Cleared(Pipe, Pipe', e, gaps')
           /\ gaps \subseteq gaps'
           /\ UNCHANGED <<moment, work, lengths, page, polls, ask>>
  <1>1. PICK v \in Seq(Msg), w \in Seq(Msg) : v = conn.wire /\ w = conn.queue
    BY OpenConn, ConnParts
  <1>2. PICK u : u = Append(v, e)
    OBVIOUS
  <1>3. u \in Seq(Msg) /\ u \o << >> = u
    BY <1>2
  <1>4. conn' = [conn EXCEPT !.pc = "over", !.due = FALSE, !.queue = << >>, !.wire = u]
    BY <1>1, <1>2 DEF Leave
  <1>5. conn' \in Conns /\ conn'.wire = u /\ conn'.queue = << >>
    <2>1. conn \in Conns /\ << >> \in Seq(Msg)
      BY OpenConn
    <2>2. QED
      BY <1>3, <1>4, <2>1 DEF Conns
  <1>6. Pipe' = Append(v, e) /\ Pipe = v \o w
    BY <1>1, <1>2, <1>3, <1>5, ConnIsOpen DEF Pipe, Open
  <1>7. gaps' = gaps \cup MissedIn(w)
    BY <1>1 DEF Leave
  <1>8. \A i \in 1..Len(w) : w[i].take \in gaps' \cup {0}
    BY <1>7, MissedTakes
  <1>9. Cleared(Pipe, Pipe', e, gaps')
    BY <1>6, <1>8 DEF Cleared
  <1>10. QED
    BY <1>5, <1>7, <1>9 DEF Leave, serverSide, clientSide

LEMMA CloseLine ==
    ASSUME TypeOK, Close
    PROVE  /\ conn' = NoConn /\ Pipe' = << >> /\ gaps \subseteq gaps'
           /\ \A i \in 1..Len(Pipe) : Pipe[i].take \in gaps' \cup {0}
  <1>1. conn' = NoConn /\ Pipe' = << >>
    BY DEF Close, Pipe, Open
  <1>2. CASE Open
    <2>1. PICK v \in Seq(Msg), w \in Seq(Msg) : v = conn.wire /\ w = conn.queue
      BY <1>2, OpenConn, ConnParts
    <2>2. gaps' = gaps \cup MissedIn(w) \cup MissedIn(v)
      BY <1>2, <2>1 DEF Close
    <2>3. Pipe = v \o w
      BY <1>2, <2>1 DEF Pipe
    <2>4. ASSUME NEW i \in 1..Len(v \o w) PROVE (v \o w)[i].take \in gaps' \cup {0}
      <3>1. CASE i \in 1..Len(v)
        <4>1. (v \o w)[i] = v[i]
          BY <3>1
        <4>2. QED
          BY <2>2, <3>1, <4>1, MissedTakes
      <3>2. CASE i \notin 1..Len(v)
        <4>1. (v \o w)[i] = w[i - Len(v)] /\ i - Len(v) \in 1..Len(w)
          BY <3>2, SMTT(60)
        <4>2. PICK h \in 1..Len(w) : (v \o w)[i] = w[h]
          BY <4>1
        <4>3. QED
          BY <2>2, <4>2, MissedTakes
      <3>3. QED
        BY <3>1, <3>2
    <2>5. QED
      BY <1>1, <2>2, <2>3, <2>4
  <1>3. CASE ~Open
    <2>1. Pipe = << >> /\ gaps' = gaps
      BY <1>3 DEF Close, Pipe
    <2>2. QED
      BY <1>1, <2>1
  <1>4. QED
    BY <1>2, <1>3

LEMMA NoticeTyped ==
    ASSUME NEW t \in {"status", "stream_error", "snapshot", "app_error"},
           NEW m \in 0..LastMoment
    PROVE  Message(t, m) \in Notices /\ Message(t, m) \in Msg /\ Message(t, m).moment = m
           /\ Message(t, m).take = 0 /\ Message(t, m).type = t
  BY DEF Message, Notices, Msg, EventTypes


\* What the steps of the stream do to the line.
Served ==
    \/ SubscriptionMade \/ SecondPasses \/ SendSnapshot \/ SnapshotFails
    \/ PassEvent \/ SubscriptionLost

LEMMA ServedLine ==
    ASSUME TypeOK, Served
    PROVE  /\ conn' \in Conns /\ Open
           /\ gaps \subseteq gaps'
           /\ UNCHANGED <<moment, work, lengths, page, polls, ask>>
           /\ \/ Pipe' = Pipe
              \/ \E e \in Notices :
                     /\ e.moment <= moment
                     /\ Posted(Pipe, Pipe', e) \/ Cleared(Pipe, Pipe', e, gaps')
  <1>0. /\ Open /\ conn \in Conns
        /\ UNCHANGED <<moment, work, lengths, page, polls, ask>>
    BY OpenConn DEF Served, SubscriptionMade, SecondPasses, SendSnapshot, SnapshotFails,
       PassEvent, SubscriptionLost, Loop, Leave, serverSide, clientSide
  <1>1. PICK v \in Seq(Msg), w \in Seq(Msg) : v = conn.wire /\ w = conn.queue
    BY <1>0, ConnParts
  <1>2. Pipe = v \o w
    BY <1>0, <1>1 DEF Pipe
  <1>3. moment \in 0..LastMoment /\ 0 \in 0..LastMoment /\ moment \in Nat
    BY DEF TypeOK
  <1>4. ASSUME conn' \in Conns PROVE Pipe' = conn'.wire \o conn'.queue
    BY <1>4, ConnIsOpen DEF Pipe, Open
  <1>5. CASE SubscriptionMade \/ SecondPasses
    <2>1. conn' \in Conns /\ conn'.wire = v /\ conn'.queue = w /\ gaps' = gaps
      BY <1>0, <1>1, <1>5 DEF SubscriptionMade, SecondPasses, Loop, Conns
    <2>2. QED
      BY <1>0, <1>2, <1>4, <2>1
  <1>6. CASE SendSnapshot
    <2>. DEFINE e == Message("snapshot", moment)
    <2>1. e \in Notices /\ e \in Msg /\ e.moment = moment
      BY <1>3, NoticeTyped
    <2>. HIDE DEF e
    <2>2. CASE Leave(e)
      BY <1>0, <1>3, <2>1, <2>2, LeaveLine
    <2>3. CASE conn' = [conn EXCEPT !.due = FALSE, !.sent = moment] /\ gaps' = gaps
      <3>0. conn \in Conns /\ moment \in Int
        BY <1>0, <1>3
      <3>1. conn' \in Conns /\ conn'.wire = conn.wire /\ conn'.queue = conn.queue
        BY <2>3, <3>0 DEF Conns
      <3>2. QED
        BY <1>0, <1>1, <1>2, <1>4, <2>3, <3>1
    <2>4. CASE /\ conn' = [conn EXCEPT !.due = FALSE, !.sent = moment, !.wire = Append(@, e)]
               /\ gaps' = gaps
      <3>1. PICK u : u = Append(v, e)
        OBVIOUS
      <3>2. u \in Seq(Msg)
        BY <2>1, <3>1, Grown
      <3>3. conn' = [conn EXCEPT !.due = FALSE, !.sent = moment, !.wire = u]
        BY <1>1, <2>4, <3>1
      <3>0. conn \in Conns /\ moment \in Int
        BY <1>0, <1>3
      <3>4. conn' \in Conns /\ conn'.wire = u /\ conn'.queue = conn.queue
        BY <3>0, <3>2, <3>3 DEF Conns
      <3>5. Pipe' = Append(v, e) \o w
        BY <1>1, <1>4, <3>1, <3>4
      <3>6. Posted(Pipe, Pipe', e)
        BY <1>2, <3>5 DEF Posted
      <3>7. QED
        BY <1>0, <1>3, <2>1, <2>4, <3>4, <3>6, SMTT(60)
    <2>5. \/ Leave(e)
          \/ gaps' = gaps /\ conn' = [conn EXCEPT !.due = FALSE, !.sent = moment]
          \/ /\ conn' = [conn EXCEPT !.due = FALSE, !.sent = moment, !.wire = Append(@, e)]
             /\ gaps' = gaps
      <3>1. CASE Ended /\ Leave(Message("snapshot", moment))
        BY <3>1 DEF e
      <3>2. CASE /\ gaps' = gaps
                 /\ conn' = [conn EXCEPT !.due = FALSE, !.sent = moment,
                                         !.wire = IF conn.sent = moment THEN @
                                                  ELSE Append(@, Message("snapshot", moment))]
        <4>1. CASE conn.sent = moment
          BY <1>0, <3>2, <4>1 DEF Conns
        <4>2. CASE conn.sent # moment
          BY <3>2, <4>2 DEF e
        <4>3. QED
          BY <4>1, <4>2
      <3>3. QED
        BY <1>6, <3>1, <3>2 DEF SendSnapshot, Loop
    <2>6. QED
      BY <2>2, <2>3, <2>4, <2>5
  <1>7. CASE SnapshotFails
    <2>. DEFINE e == Message("app_error", 0)
    <2>1. e \in Notices /\ e \in Msg /\ e.moment = 0
      BY <1>3, NoticeTyped
    <2>2. Leave(e)
      BY <1>7 DEF SnapshotFails
    <2>. HIDE DEF e
    <2>3. QED
      BY <1>0, <1>3, <2>1, <2>2, LeaveLine
  <1>8. CASE PassEvent
    <2>1. PICK a, q : a = Append(v, Head(w)) /\ q = Tail(w)
      OBVIOUS
    <2>2. w # << >>
      BY <1>1, <1>8 DEF PassEvent
    <2>3. a \in Seq(Msg) /\ q \in Seq(Msg) /\ a \o q = v \o w
      BY <2>1, <2>2, HeadMoves
    <2>4. conn' = [conn EXCEPT !.queue = q, !.wire = a] /\ gaps' = gaps
      BY <1>1, <1>8, <2>1 DEF PassEvent, Loop
    <2>5. conn' \in Conns /\ conn'.wire = a /\ conn'.queue = q
      BY <1>0, <2>3, <2>4 DEF Conns
    <2>6. QED
      BY <1>0, <1>2, <1>4, <2>3, <2>4, <2>5
  <1>9. CASE SubscriptionLost
    <2>. DEFINE e == Message("stream_error", 0)
    <2>1. e \in Notices /\ e \in Msg /\ e.moment = 0
      BY <1>3, NoticeTyped
    <2>. HIDE DEF e
    <2>2. gaps' = gaps
      BY <1>9 DEF SubscriptionLost
    <2>3. CASE conn' = [conn EXCEPT !.sub = "lost"]
      <3>1. conn' \in Conns /\ conn'.wire = v /\ conn'.queue = w
        BY <1>0, <1>1, <2>3 DEF Conns
      <3>2. QED
        BY <1>0, <1>2, <1>4, <2>2, <3>1
    <2>4. CASE conn' = [conn EXCEPT !.sub = "lost", !.queue = Append(@, e)]
      <3>0. PICK q : q = Append(w, e)
        OBVIOUS
      <3>1. q \in Seq(Msg) /\ q = Append(w, e)
        BY <2>1, <3>0, Grown
      <3>2. conn' = [conn EXCEPT !.sub = "lost", !.queue = q]
        BY <1>1, <2>4, <3>1
      <3>3. conn' \in Conns /\ conn'.wire = v /\ conn'.queue = q
        <4>1. conn \in Conns
          BY <1>0
        <4>2. conn' \in Conns /\ conn'.wire = conn.wire /\ conn'.queue = q
          BY <3>1, <3>2, <4>1 DEF Conns
        <4>3. QED
          BY <1>1, <4>2
      <3>4. v \o q = Append(v \o w, e) \o << >> /\ v \o w = (v \o w) \o << >>
            /\ v \o w \in Seq(Msg) /\ << >> \in Seq(Msg)
        BY <2>1, <3>1, SMTT(60)
      <3>5. Posted(Pipe, Pipe', e)
        BY <1>2, <1>4, <3>3, <3>4 DEF Posted
      <3>6. QED
        BY <1>0, <1>3, <2>1, <2>2, <3>3, <3>5
    <2>5. QED
      <3>1. CASE conn.pc # "over" /\ Len(conn.queue) < QueueSize
        BY <1>9, <2>4, <3>1 DEF SubscriptionLost, e
      <3>2. CASE ~(conn.pc # "over" /\ Len(conn.queue) < QueueSize)
        <4>1. conn' = [conn EXCEPT !.sub = "lost"]
          BY <1>0, <1>9, <3>2 DEF SubscriptionLost, Conns
        <4>2. QED
          BY <2>3, <4>1
      <3>3. QED
        BY <3>1, <3>2
  <1>10. QED
    BY <1>5, <1>6, <1>7, <1>8, <1>9 DEF Served


-----------------------------------------------------------------------------
(* The inductive invariant. *)

Elems(P) == {P[i] : i \in 1..Len(P)}

Busy == work.pc \in {"streaming", "retry"}

\* The text of take k will not change any more.
Done(k) == k < work.take \/ ~Busy

\* What may be said of every event under way.
Sound(e) ==
    /\ e.take \in 0..work.take /\ e.moment <= moment
    /\ e.take # 0 <=> e.type \in EventTypes
    /\ e.type = "section_started" => e.n = 0
    /\ e.type = "token" => e.n > 0
    /\ e.type = "section_completed" => Done(e.take)

PipeInv == \A e \in Elems(Pipe) : Sound(e)

\* A run that has ended is not worked on, and a page that polls has no stream.
OrderInv ==
    /\ page.shown <= page.newest /\ page.newest <= moment
    /\ Ended => ~Busy
    /\ page.polling => ~Open
    /\ page.state = "complete" => page.take \in 1..work.take /\ Done(page.take)

\* Nothing of the section is under way or will be.
Quiet == work.pc # "streaming" /\ \A e \in Elems(Pipe) : e.take = 0

\* The end of the run reaches a page that polls when nothing is under way, so that an
\* older answer, which puts the page back, finds no text and no event that has lost its
\* beginning.
EndInv ==
    /\ LastMoment \in polls => Quiet
    /\ page.newest = LastMoment /\ ask.kind # "none" /\ Live(ask.read) =>
           Quiet /\ page.state = "none"

ChainInv == Chained(Line, gaps, lengths, page)

IInv == TypeOK /\ PipeInv /\ OrderInv /\ EndInv /\ ChainInv /\ CompleteTextIsWhole

LEMMA ElemsAppend ==
    ASSUME NEW P \in Seq(Msg), NEW e \in Msg
    PROVE  Elems(Append(P, e)) = Elems(P) \cup {e}
  <1>1. /\ Len(Append(P, e)) = Len(P) + 1 /\ Append(P, e)[Len(P) + 1] = e /\ Len(P) \in Nat
        /\ \A i \in 1..Len(P) : Append(P, e)[i] = P[i]
    OBVIOUS
  <1>2. \A i \in 1..Len(P) + 1 : i \in 1..Len(P) \/ i = Len(P) + 1
    BY <1>1
  <1>3. Len(P) + 1 \in 1..Len(P) + 1 /\ \A i \in 1..Len(P) : i \in 1..Len(P) + 1
    BY <1>1
  <1>. DEFINE Q == Append(P, e)
  <1>. HIDE DEF Q
  <1>4. Elems(Q) = Elems(P) \cup {e}
    BY <1>1, <1>2, <1>3 DEF Elems, Q
  <1>5. QED
    BY <1>4 DEF Q

LEMMA ElemsJoined ==
    ASSUME NEW v \in Seq(Msg), NEW w \in Seq(Msg)
    PROVE  Elems(v \o w) = Elems(v) \cup Elems(w)
  <1>. DEFINE Q == v \o w
  <1>1. /\ Len(Q) = Len(v) + Len(w) /\ Len(v) \in Nat /\ Len(w) \in Nat
        /\ \A i \in 1..Len(v) : Q[i] = v[i]
        /\ \A i \in Len(v) + 1..Len(v) + Len(w) : Q[i] = w[i - Len(v)]
    BY Joined
  <1>. HIDE DEF Q
  <1>2. ASSUME NEW i \in 1..Len(Q) PROVE Q[i] \in Elems(v) \cup Elems(w)
    <2>1. CASE i \in 1..Len(v)
      BY <1>1, <2>1 DEF Elems
    <2>2. CASE i \notin 1..Len(v)
      <3>1. i \in Len(v) + 1..Len(v) + Len(w) /\ i - Len(v) \in 1..Len(w)
        BY <1>1, <2>2
      <3>2. QED
        BY <1>1, <3>1 DEF Elems
    <2>3. QED
      BY <2>1, <2>2
  <1>3. ASSUME NEW i \in 1..Len(v) PROVE v[i] \in Elems(Q)
    <2>1. i \in 1..Len(Q)
      BY <1>1, SMTT(60)
    <2>2. QED
      BY <1>1, <2>1 DEF Elems
  <1>4. ASSUME NEW i \in 1..Len(w) PROVE w[i] \in Elems(Q)
    <2>1. /\ Len(v) + i \in 1..Len(Q) /\ Len(v) + i \in Len(v) + 1..Len(v) + Len(w)
          /\ (Len(v) + i) - Len(v) = i
      BY <1>1
    <2>2. Q[Len(v) + i] = w[i]
      BY <1>1, <2>1
    <2>3. QED
      BY <2>1, <2>2 DEF Elems
  <1>5. Elems(Q) = Elems(v) \cup Elems(w)
    BY <1>2, <1>3, <1>4 DEF Elems
  <1>6. QED
    BY <1>5 DEF Q

LEMMA ElemsOfStream ==
    ASSUME NEW P, NEW Q, NEW e \in Msg, NEW G,
           Posted(P, Q, e) \/ Cleared(P, Q, e, G)
    PROVE  Elems(Q) \subseteq Elems(P) \cup {e}
  <1>1. PICK v \in Seq(Msg), w \in Seq(Msg) :
            P = v \o w /\ (Q = Append(v, e) \o w \/ Q = Append(v, e))
    BY DEF Posted, Cleared
  <1>2. PICK u : u = Append(v, e)
    OBVIOUS
  <1>3. u \in Seq(Msg) /\ Elems(u) = Elems(v) \cup {e}
    BY <1>2, Grown, ElemsAppend
  <1>4. Elems(u \o w) = Elems(u) \cup Elems(w) /\ Elems(v \o w) = Elems(v) \cup Elems(w)
    BY <1>3, ElemsJoined
  <1>5. QED
    BY <1>1, <1>2, <1>3, <1>4

LEMMA ElemsTail ==
    ASSUME NEW P \in Seq(Msg), P # << >>
    PROVE  /\ Head(P) \in Elems(P) /\ Elems(Tail(P)) \subseteq Elems(P)
           /\ Tail(P) \in Seq(Msg) /\ Head(P) \in Msg
  <1>1. /\ Head(P) = P[1] /\ Head(P) \in Msg /\ Len(P) \in Nat \ {0} /\ Tail(P) \in Seq(Msg)
        /\ Len(Tail(P)) = Len(P) - 1
        /\ \A i \in 1..Len(P) - 1 : Tail(P)[i] = P[i + 1]
    OBVIOUS
  <1>2. \A i \in 1..Len(P) - 1 : i + 1 \in 1..Len(P)
    BY <1>1
  <1>3. 1 \in 1..Len(P)
    BY <1>1
  <1>4. QED
    BY <1>1, <1>2, <1>3 DEF Elems


-----------------------------------------------------------------------------
(* The steps of the run. *)

\* A step changes nothing that has been said of the takes that are done, and publishes one
\* event or nothing.
LEMMA RunParts ==
    ASSUME TypeOK, OrderInv, RunStep
    PROVE  /\ moment' \in moment..LastMoment /\ ~Ended /\ (Ended' => ~Busy')
           /\ work' \in [take: 0..MaxTakes, sent: Nat,
                         pc: {"idle", "streaming", "retry", "failing"}]
           /\ Busy' => work'.take # 0
           /\ work.take <= work'.take /\ lengths' \in [Takes -> Nat]
           /\ \A k \in 1..work.take : Done(k) => Done(k)' /\ lengths'[k] = lengths[k]
           /\ \/ UNCHANGED <<gaps, conn, page, polls, ask>>
              \/ \E e \in Msg : Emit(e) /\ Sound(e)'
  <1>1. PICK t \in 0..MaxTakes, n \in Nat, p \in {"idle", "streaming", "retry", "failing"} :
            work = [take |-> t, sent |-> n, pc |-> p]
    BY DEF TypeOK
  <1>2. /\ work.take = t /\ work.sent = n /\ work.pc = p
        /\ p \in {"streaming", "retry"} => t # 0
        /\ moment \in Nat /\ LastMoment \in Nat /\ MaxTakes \in Nat
        /\ moment <= LastMoment /\ lengths \in [Takes -> Nat]
    BY <1>1 DEF TypeOK
  <1>3. Ended => p \notin {"streaming", "retry"}
    BY <1>2 DEF OrderInv, Busy
  <1>4. CASE Generate \/ Retry
    <2>. DEFINE e == [type |-> "section_started", take |-> t + 1, n |-> 0, moment |-> 0]
    <2>1. /\ p \in {"idle", "retry"} /\ t < MaxTakes /\ ~Ended /\ Emit(e)
          /\ work' = [take |-> t + 1, sent |-> 0, pc |-> "streaming"]
          /\ moment' = moment /\ lengths' = lengths
      BY <1>2, <1>4 DEF Generate, Retry, Begin
    <2>2. e \in Msg /\ e.take = t + 1 /\ e.moment = 0 /\ e.type = "section_started" /\ e.n = 0
      BY <1>2, <2>1 DEF Msg, EventTypes
    <2>. HIDE DEF e
    <2>3. Sound(e)'
      BY <1>2, <2>1, <2>2 DEF Sound, EventTypes
    <2>4. \A k \in 1..t : Done(k)'
      BY <1>2, <2>1 DEF Done
    <2>5. QED
      BY <1>2, <2>1, <2>2, <2>3, <2>4 DEF Busy, Ended
  <1>5. CASE Token
    <2>e. PICK e : e = Event("token", n + 1)
      OBVIOUS
    <2>1. /\ p = "streaming" /\ Emit(e)
          /\ work' = [take |-> t, sent |-> n + 1, pc |-> p]
          /\ moment' = moment /\ lengths' = lengths
      BY <1>1, <1>2, <1>5, <2>e DEF Token
    <2>2. e \in Msg /\ e.take = t /\ e.moment = 0 /\ e.type = "token" /\ e.n = n + 1
      BY <1>2, <2>1, <2>e DEF Msg, EventTypes, Event
    <2>0. /\ work'.take = t /\ work'.pc = p
          /\ work' \in [take: 0..MaxTakes, sent: Nat, pc: {"idle", "streaming", "retry", "failing"}]
      BY <1>2, <2>1
    <2>3. Sound(e)'
      <3>1. t # 0 /\ n + 1 > 0 /\ 0 <= moment
        BY <1>2, <2>1
      <3>2. QED
        BY <2>0, <2>1, <2>2, <3>1 DEF Sound, EventTypes
    <2>4. \A k \in 1..t : Done(k) => Done(k)'
      BY <1>2, <2>1 DEF Done, Busy
    <2>5. QED
      BY <1>2, <1>3, <2>0, <2>1, <2>2, <2>3, <2>4 DEF Busy, Ended
  <1>6. CASE Interrupted
    <2>1. /\ p = "streaming" /\ work' = [take |-> t, sent |-> n, pc |-> "retry"]
          /\ moment' = moment /\ lengths' = lengths
          /\ UNCHANGED <<gaps, conn, page, polls, ask>>
      BY <1>1, <1>2, <1>6 DEF Interrupted, clientSide
    <2>2. \A k \in 1..t : Done(k) => Done(k)'
      BY <1>2, <2>1 DEF Done, Busy
    <2>3. QED
      BY <1>2, <1>3, <2>1, <2>2 DEF Busy, Ended
  <1>7. CASE Completed
    <2>e. PICK e : e = Event("section_completed", 0)
      OBVIOUS
    <2>1. /\ p = "streaming" /\ Emit(e)
          /\ work' = [take |-> t, sent |-> n, pc |-> "idle"]
          /\ moment' = moment /\ lengths' = [lengths EXCEPT ![t] = n]
      BY <1>1, <1>2, <1>7, <2>e DEF Completed
    <2>2. e \in Msg /\ e.take = t /\ e.moment = 0 /\ e.type = "section_completed"
      BY <1>2, <2>1, <2>e DEF Msg, EventTypes, Event
    <2>0. /\ work'.take = t /\ work'.pc = "idle"
          /\ work' \in [take: 0..MaxTakes, sent: Nat, pc: {"idle", "streaming", "retry", "failing"}]
      BY <1>2, <2>1
    <2>3. Sound(e)'
      <3>1. t # 0 /\ 0 <= moment /\ Done(t)'
        BY <1>2, <2>0, <2>1 DEF Done, Busy
      <3>2. QED
        BY <2>0, <2>1, <2>2, <3>1 DEF Sound, EventTypes
    <2>4. \A k \in 1..t : Done(k) => k # t /\ Done(k)'
      BY <1>2, <2>1 DEF Done, Busy
    <2>5. lengths' \in [Takes -> Nat] /\ \A k \in 1..t : k # t => lengths'[k] = lengths[k]
      BY <1>2, <2>1, SMTT(60) DEF Takes
    <2>6. QED
      BY <1>2, <1>3, <2>0, <2>1, <2>2, <2>3, <2>4, <2>5 DEF Busy, Ended
  <1>8. CASE StreamFails \/ Move
    <2>1. PICK e \in Msg : Emit(e) /\ e.moment = 0 /\ e.take = 0 /\ e.type \notin EventTypes
      <3>1. 0 \in 0..LastMoment
        BY <1>2
      <3>2. CASE StreamFails
        BY <3>1, <3>2, NoticeTyped DEF StreamFails, Notices
      <3>3. CASE Move
        BY <3>1, <3>3, NoticeTyped DEF Move, Notices
      <3>4. QED
        BY <1>8, <3>2, <3>3
    <2>2. /\ work' \in {work, [take |-> t, sent |-> n, pc |-> "failing"]} /\ lengths' = lengths
          /\ ~Ended
          /\ \/ moment' = moment
             \/ moment' \in {LastMoment, moment + 1} /\ work' = work /\ p \in {"idle", "failing"}
      BY <1>1, <1>2, <1>3, <1>8 DEF StreamFails, Move
    <2>3. moment' \in moment..LastMoment
      BY <1>2, <2>2 DEF Ended
    <2>4. Sound(e)'
      BY <1>2, <2>1, <2>2, <2>3 DEF Sound, EventTypes
    <2>5. \A k \in 1..t : Done(k) => Done(k)'
      BY <1>2, <2>2 DEF Done, Busy
    <2>6. Ended' => ~Busy'
      BY <1>1, <1>2, <2>2 DEF Ended, Busy
    <2>7. work'.take = t /\ work' \in [take: 0..MaxTakes, sent: Nat,
                         pc: {"idle", "streaming", "retry", "failing"}]
          /\ (Busy' => t # 0)
      BY <1>1, <1>2, <2>2 DEF Busy
    <2>8. QED
      BY <1>2, <2>1, <2>2, <2>3, <2>4, <2>5, <2>6, <2>7
  <1>9. QED
    BY <1>4, <1>5, <1>6, <1>7, <1>8 DEF RunStep


LEMMA SoundOn ==
    ASSUME NEW e \in Msg, Sound(e), TypeOK, moment' \in moment..LastMoment,
           work'.take \in 0..MaxTakes, work.take <= work'.take,
           \A k \in 1..work.take : Done(k) => Done(k)'
    PROVE  Sound(e)'
  <1>1. e.moment \in Nat /\ moment \in Nat /\ work.take \in Nat /\ moment' \in Nat
    BY DEF Msg, TypeOK
  <1>2. e.take \in 0..work'.take /\ e.moment <= moment'
    BY <1>1 DEF Sound
  <1>3. e.type = "section_completed" => e.take \in 1..work.take /\ Done(e.take)
    BY <1>1 DEF Sound, EventTypes
  <1>4. QED
    BY <1>2, <1>3 DEF Sound

LEMMA ElemsTyped == \A P \in Seq(Msg) : Elems(P) \subseteq Msg
  BY DEF Elems

LEMMA RunKeeps ==
    ASSUME TypeOK, PipeInv, OrderInv, CompleteTextIsWhole, RunStep
    PROVE  TypeOK' /\ PipeInv' /\ OrderInv' /\ EndInv' /\ CompleteTextIsWhole'
  <1>1. /\ moment' \in moment..LastMoment /\ ~Ended /\ (Ended' => ~Busy')
        /\ work' \in [take: 0..MaxTakes, sent: Nat,
                      pc: {"idle", "streaming", "retry", "failing"}]
        /\ Busy' => work'.take # 0
        /\ work.take <= work'.take /\ lengths' \in [Takes -> Nat]
        /\ \A k \in 1..work.take : Done(k) => Done(k)' /\ lengths'[k] = lengths[k]
    BY RunParts
  <1>2. /\ moment \in Nat /\ moment < LastMoment /\ moment' \in Nat
        /\ work.take \in 0..MaxTakes /\ work'.take \in 0..MaxTakes
        /\ page \in Pages /\ polls \subseteq 0..moment
        /\ ask \in Asks(moment)
    BY <1>1 DEF TypeOK, Ended
  <1>3. /\ conn' \in Conns \cup {NoConn} /\ (Open <=> Open') /\ gaps \subseteq gaps'
        /\ UNCHANGED <<page, polls, ask>>
        /\ \A e \in Elems(Pipe') : Sound(e)'
    <2>1. \A e \in Elems(Pipe) : Sound(e)'
      BY <1>1, <1>2, SoundOn, ElemsTyped, PipeTyped DEF PipeInv
    <2>2. CASE UNCHANGED <<gaps, conn, page, polls, ask>>
      <3>1. Pipe' = Pipe
        BY <2>2 DEF Pipe, Open
      <3>2. QED
        BY <2>1, <2>2, <3>1 DEF TypeOK, Open
    <2>3. ASSUME NEW e \in Msg, Emit(e), Sound(e)'
          PROVE  /\ conn' \in Conns \cup {NoConn} /\ (Open <=> Open') /\ gaps \subseteq gaps'
                 /\ UNCHANGED <<page, polls, ask>>
                 /\ \A f \in Elems(Pipe') : Sound(f)'
      <3>1. Pipe' = Append(Pipe, e) \/ Pipe' = Pipe
        BY <2>3, EmitLine
      <3>2. Elems(Pipe') \subseteq Elems(Pipe) \cup {e}
        BY <3>1, PipeTyped, ElemsAppend
      <3>3. QED
        BY <2>1, <2>3, <3>2, EmitLine
    <2>4. QED
      BY <2>2, <2>3, RunParts
  <1>4. TypeOK'
    <2>1. 0..moment \subseteq 0..moment'
      BY <1>1, <1>2
    <2>2. polls' \subseteq 0..moment' /\ ask' \in Asks(moment')
      BY <1>2, <1>3, <2>1 DEF Asks
    <2>3. QED
      BY <1>1, <1>2, <1>3, <2>2 DEF TypeOK, Busy
  <1>5. page.shown \in Int /\ page.newest \in Int /\ page.take \in Nat
    BY <1>2 DEF Pages
  <1>6. OrderInv'
    <2>1. page'.shown <= page'.newest /\ page'.newest <= moment'
      BY <1>1, <1>2, <1>3, <1>5 DEF OrderInv
    <2>2. page'.state = "complete" => page'.take \in 1..work'.take /\ Done(page.take)'
      <3>1. PICK k : k = page.take /\ k = page'.take
        BY <1>3
      <3>2. page.state = "complete" => k \in 1..work.take /\ Done(k)
        BY <3>1 DEF OrderInv
      <3>3. page.state = "complete" => k \in 1..work'.take /\ Done(k)'
        BY <1>1, <1>2, <3>2
      <3>4. QED
        BY <1>3, <3>1, <3>3 DEF Done
    <2>3. QED
      BY <1>1, <1>3, <2>1, <2>2 DEF OrderInv
  <1>7. EndInv'
    <2>1. LastMoment \notin polls' /\ page'.newest # LastMoment
      BY <1>2, <1>3, <1>5 DEF OrderInv
    <2>2. QED
      BY <2>1 DEF EndInv
  <1>8. CompleteTextIsWhole'
    <2>0. page.state = "complete" => page.take \in 1..work.take /\ Done(page.take)
      BY DEF OrderInv
    <2>1. page.state = "complete" => lengths'[page.take] = lengths[page.take]
      BY <1>1, <2>0
    <2>2. QED
      BY <1>3, <2>1 DEF CompleteTextIsWhole
  <1>9. QED
    BY <1>3, <1>4, <1>6, <1>7, <1>8 DEF PipeInv

LEMMA ComingTyped ==
    TypeOK => /\ Coming \in Msg
              /\ work.pc = "streaming" => /\ Coming.take = work.take /\ Coming.n = work.sent + 1
                                          /\ Coming.type = "token"
              /\ work.pc # "streaming" => Coming.take = 0 /\ Coming.type = "status"
  <1>1. SUFFICES ASSUME TypeOK
        PROVE  /\ Coming \in Msg
               /\ work.pc = "streaming" => /\ Coming.take = work.take /\ Coming.n = work.sent + 1
                                           /\ Coming.type = "token"
               /\ work.pc # "streaming" => Coming.take = 0 /\ Coming.type = "status"
    OBVIOUS
  <1>2. 0 \in 0..LastMoment /\ work.take \in 0..MaxTakes /\ work.sent + 1 \in Nat
    BY <1>1 DEF TypeOK
  <1>3. CASE work.pc = "streaming"
    BY <1>2, <1>3 DEF Coming, Event, Msg, EventTypes
  <1>4. CASE work.pc # "streaming"
    BY <1>2, <1>4, NoticeTyped DEF Coming
  <1>5. QED
    BY <1>3, <1>4


\* The line after an event e was published, or lost, and d is the next one to come.
LEMMA PublishedChain ==
    ASSUME TypeOK, NEW e \in Msg, Emit(e), NEW d \in Msg, Coming' = d, lengths' \in [Takes -> Nat],
           Chained(Line, gaps, lengths', page),
           \/ e.take = 0 \/ e.type = "section_started"
           \/ /\ e.take = Coming.take /\ Coming.type # "section_started"
              /\ Rank(e, lengths') = Rank(Coming, lengths'),
           \/ d.take = 0
           \/ d.take = e.take /\ e.type # "section_completed" /\ Rank(d, lengths') = e.n + 1
    PROVE  ChainInv'
  <1>. DEFINE c == Coming
  <1>1. c \in Msg /\ Pipe \in Seq(Msg) /\ Line = Append(Pipe, c)
    BY ComingTyped, PipeTyped DEF Line
  <1>2. page' = page /\ Line' = Append(Pipe', d)
    BY EmitLine DEF Line
  <1>. HIDE DEF c
  <1>3. CASE Pipe' = Append(Pipe, e) /\ gaps' = gaps
    <2>1. e.take \in gaps \cup {0} \/ e.type = "section_started"
          \/ (/\ e.take = c.take /\ c.type # "section_started"
              /\ Rank(e, lengths') = Rank(c, lengths'))
      BY DEF c
    <2>2. Chained(Append(Pipe, e), gaps, lengths', page)
      BY <1>1, <2>1, ChainedEnd
    <2>3. Chained(Append(Append(Pipe, e), d), gaps, lengths', page)
      BY <1>1, <2>2, ChainedNext
    <2>4. QED
      BY <1>2, <1>3, <2>3 DEF ChainInv
  <1>4. CASE Pipe' = Pipe /\ gaps' = gaps \cup Missed(e)
    <2>1. d.take \in gaps' \cup {0}
      BY <1>4 DEF Missed
    <2>2. Chained(Append(Pipe, c), gaps', lengths', page)
      <3>1. Append(Pipe, c) \in Seq(Msg) /\ gaps \subseteq gaps'
        BY <1>1, <1>4
      <3>2. QED
        BY <1>1, <3>1, ChainedWeaker
    <2>3. Chained(Append(Pipe, d), gaps', lengths', page)
      BY <1>1, <2>1, <2>2, ChainedEnd
    <2>4. QED
      BY <1>2, <1>4, <2>3 DEF ChainInv
  <1>5. QED
    BY <1>3, <1>4, EmitLine

LEMMA RunChains ==
    ASSUME TypeOK, PipeInv, OrderInv, ChainInv, RunStep
    PROVE  ChainInv'
  <1>1. PICK t \in 0..MaxTakes, n \in Nat, p \in {"idle", "streaming", "retry", "failing"} :
            work = [take |-> t, sent |-> n, pc |-> p]
    BY DEF TypeOK
  <1>2. /\ work.take = t /\ work.sent = n /\ work.pc = p
        /\ p \in {"streaming", "retry"} => t # 0
        /\ MaxTakes \in Nat /\ 0 \in 0..LastMoment /\ lengths \in [Takes -> Nat]
    BY <1>1 DEF TypeOK
  <1>3. Chained(Line, gaps, lengths, page) /\ Pipe \in Seq(Msg) /\ Coming \in Msg
    BY ComingTyped, PipeTyped DEF ChainInv
  <1>4. ASSUME work'.pc # "streaming"
        PROVE  Coming' \in Msg /\ Coming'.take = 0
    BY <1>2, <1>4, NoticeTyped DEF Coming
  <1>5. CASE Generate \/ Retry
    <2>. DEFINE e == [type |-> "section_started", take |-> t + 1, n |-> 0, moment |-> 0]
                d == [type |-> "token", take |-> t + 1, n |-> 1, moment |-> 0]
    <2>1. /\ t < MaxTakes /\ Emit(e) /\ lengths' = lengths
          /\ work' = [take |-> t + 1, sent |-> 0, pc |-> "streaming"]
      BY <1>2, <1>5 DEF Generate, Retry, Begin
    <2>2. e \in Msg /\ e.take = t + 1 /\ e.type = "section_started" /\ e.n = 0
      BY <1>2, <2>1 DEF Msg, EventTypes
    <2>3. d \in Msg /\ d.take = t + 1 /\ d.type = "token" /\ d.n = 1
      BY <1>2, <2>1 DEF Msg, EventTypes
    <2>4. Coming' = d
      BY <2>1 DEF Coming, Event
    <2>. HIDE DEF e, d
    <2>5. Rank(d, lengths') = e.n + 1
      BY <2>2, <2>3 DEF Rank
    <2>6. QED
      BY <1>2, <1>3, <2>1, <2>2, <2>3, <2>4, <2>5, PublishedChain
  <1>6. CASE Token
    <2>. DEFINE d == [type |-> "token", take |-> t, n |-> (n + 1) + 1, moment |-> 0]
    <2>1. /\ p = "streaming" /\ Emit(Coming) /\ lengths' = lengths
          /\ work' = [take |-> t, sent |-> n + 1, pc |-> p]
      BY <1>1, <1>2, <1>6 DEF Token, Coming
    <2>2. d \in Msg /\ d.take = t /\ d.type = "token" /\ d.n = (n + 1) + 1
      BY <1>2 DEF Msg, EventTypes
    <2>3. Coming' = d
      BY <2>1 DEF Coming, Event
    <2>. HIDE DEF d
    <2>4. Coming.take = t /\ Coming.type = "token" /\ Coming.n = n + 1
      BY <1>2, <2>1, ComingTyped
    <2>5. Rank(d, lengths') = Coming.n + 1
      BY <2>2, <2>4 DEF Rank
    <2>6. PICK e \in Msg : e = Coming
      BY <1>3
    <2>7. QED
      BY <1>2, <1>3, <2>1, <2>2, <2>3, <2>4, <2>5, <2>6, PublishedChain
  <1>7. CASE Interrupted
    <2>1. Pipe' = Pipe /\ gaps' = gaps /\ lengths' = lengths /\ page' = page /\ work'.pc = "retry"
      BY <1>1, <1>7 DEF Interrupted, clientSide, Pipe, Open
    <2>2. PICK d \in Msg : d = Coming' /\ d.take = 0
      BY <1>4, <2>1
    <2>3. Chained(Append(Pipe, d), gaps, lengths, page)
      BY <1>3, <2>2, ChainedEnd DEF Line
    <2>4. QED
      BY <2>1, <2>2, <2>3 DEF ChainInv, Line
  <1>8. CASE Completed
    <2>1. PICK e : e = Event("section_completed", 0)
      OBVIOUS
    <2>2. /\ p = "streaming" /\ Emit(e) /\ work'.pc = "idle"
          /\ lengths' = [lengths EXCEPT ![t] = n]
      BY <1>1, <1>2, <1>8, <2>1 DEF Completed
    <2>3. e \in Msg /\ e.take = t /\ e.type = "section_completed"
      BY <1>2, <2>1 DEF Msg, EventTypes, Event
    <2>4. PICK d \in Msg : d = Coming' /\ d.take = 0
      BY <1>4, <2>2
    <2>5. Coming.take = t /\ Coming.type = "token" /\ Coming.n = n + 1
      BY <1>2, <2>2, ComingTyped
    <2>6. lengths' \in [Takes -> Nat] /\ lengths'[t] = n
      BY <1>2, <2>2, SMTT(60) DEF Takes
    <2>7. Rank(e, lengths') = Rank(Coming, lengths')
      BY <2>3, <2>5, <2>6 DEF Rank
    <2>8. ASSUME NEW j \in 1..Len(Line), Line[j].type = "section_completed"
          PROVE  lengths'[Line[j].take] = lengths[Line[j].take]
      <3>1. Line[j] \in Elems(Pipe) \cup {Coming}
        <4>1. Line[j] \in Elems(Line)
          BY DEF Elems
        <4>2. QED
          BY <1>3, <4>1, ElemsAppend DEF Line
      <3>2. Line[j] \in Elems(Pipe)
        BY <2>5, <2>8, <3>1
      <3>3. Line[j].take \in 1..t - 1
        BY <1>2, <2>2, <2>8, <3>2, SMTT(60) DEF PipeInv, Sound, Done, Busy, EventTypes
      <3>4. QED
        BY <1>2, <2>2, <3>3, SMTT(60) DEF Takes
    <2>9. Chained(Line, gaps, lengths', page)
      <3>1. Line \in Seq(Msg)
        BY <1>3, Grown DEF Line
      <3>2. QED
        BY <1>3, <2>8, <3>1, ChainedLengths
    <2>10. QED
      BY <1>2, <2>2, <2>3, <2>4, <2>5, <2>6, <2>7, <2>9, PublishedChain
  <1>9. CASE StreamFails \/ Move
    <2>1. PICK e \in Msg : Emit(e) /\ e.take = 0
      <3>2. CASE StreamFails
        BY <1>2, <3>2, NoticeTyped DEF StreamFails
      <3>3. CASE Move
        BY <1>2, <3>3, NoticeTyped DEF Move
      <3>4. QED
        BY <1>9, <3>2, <3>3
    <2>2. lengths' = lengths /\ work'.pc # "streaming"
      BY <1>1, <1>2, <1>9 DEF StreamFails, Move
    <2>3. PICK d \in Msg : d = Coming' /\ d.take = 0
      BY <1>4, <2>2
    <2>4. QED
      BY <1>2, <1>3, <2>1, <2>2, <2>3, PublishedChain
  <1>10. QED
    BY <1>5, <1>6, <1>7, <1>8, <1>9 DEF RunStep


-----------------------------------------------------------------------------
(* The steps of the stream. *)

LEMMA StreamKeeps ==
    ASSUME IInv, Served
    PROVE  IInv'
  <1>1. /\ TypeOK /\ PipeInv /\ OrderInv /\ EndInv /\ ChainInv /\ CompleteTextIsWhole
    BY DEF IInv
  <1>2. /\ conn' \in Conns /\ Open /\ Open' /\ gaps \subseteq gaps'
        /\ UNCHANGED <<moment, work, lengths, page, polls, ask>>
    BY <1>1, ServedLine, ConnIsOpen DEF Open
  <1>3. Pipe \in Seq(Msg) /\ Coming \in Msg /\ Coming' = Coming
    BY <1>1, <1>2, PipeTyped, ComingTyped DEF Coming, Event
  <1>4. /\ \A e \in Elems(Pipe') : Sound(e) /\ (e.take = 0 \/ e \in Elems(Pipe))
        /\ Chained(Append(Pipe', Coming), gaps', lengths, page)
    <2>1. Chained(Append(Pipe, Coming), gaps, lengths, page)
      BY <1>1 DEF ChainInv, Line
    <2>2. CASE Pipe' = Pipe
      <3>1. Append(Pipe, Coming) \in Seq(Msg)
        BY <1>3, Grown
      <3>2. Chained(Append(Pipe, Coming), gaps', lengths, page)
        BY <1>2, <2>1, <3>1, ChainedWeaker
      <3>3. QED
        BY <1>1, <2>2, <3>2 DEF PipeInv
    <2>3. ASSUME NEW e \in Notices, e.moment <= moment,
                 Posted(Pipe, Pipe', e) \/ Cleared(Pipe, Pipe', e, gaps')
          PROVE  /\ \A f \in Elems(Pipe') : Sound(f) /\ (f.take = 0 \/ f \in Elems(Pipe))
                 /\ Chained(Append(Pipe', Coming), gaps', lengths, page)
      <3>1. e \in Msg /\ e.take = 0 /\ e.type \notin EventTypes
        BY DEF Notices
      <3>2. Elems(Pipe') \subseteq Elems(Pipe) \cup {e}
        BY <2>3, <3>1, ElemsOfStream
      <3>3. Sound(e)
        BY <1>1, <2>3, <3>1 DEF Sound, EventTypes, TypeOK
      <3>4. CASE Posted(Pipe, Pipe', e)
        <4>1. Pipe' \in Seq(Msg) /\ Chained(Append(Pipe', Coming), gaps, lengths, page)
          BY <1>3, <2>1, <3>4, ChainedPosted
        <4>2. Append(Pipe', Coming) \in Seq(Msg)
          BY <1>3, <4>1, Grown
        <4>3. Chained(Append(Pipe', Coming), gaps', lengths, page)
          BY <1>2, <4>1, <4>2, ChainedWeaker
        <4>4. QED
          BY <1>1, <3>1, <3>2, <3>3, <4>3 DEF PipeInv
      <3>5. CASE Cleared(Pipe, Pipe', e, gaps')
        <4>1. Chained(Append(Pipe', Coming), gaps', lengths, page)
          BY <1>2, <1>3, <2>1, <3>5, ChainedCleared
        <4>2. QED
          BY <1>1, <3>1, <3>2, <3>3, <4>1 DEF PipeInv
      <3>6. QED
        BY <2>3, <3>4, <3>5
    <2>4. QED
      BY <1>1, <2>2, <2>3, ServedLine
  <1>5. TypeOK'
    BY <1>1, <1>2 DEF TypeOK
  <1>6. PipeInv'
    BY <1>2, <1>4 DEF PipeInv, Sound, Done, Busy
  <1>7. OrderInv'
    BY <1>1, <1>2 DEF OrderInv, Done, Busy, Ended
  <1>8. EndInv'
    <2>1. Quiet => Quiet'
      BY <1>2, <1>4 DEF Quiet
    <2>2. QED
      BY <1>1, <1>2, <2>1 DEF EndInv, Live
  <1>9. ChainInv'
    BY <1>2, <1>3, <1>4 DEF ChainInv, Line
  <1>10. CompleteTextIsWhole'
    BY <1>1, <1>2 DEF CompleteTextIsWhole
  <1>11. QED
    BY <1>5, <1>6, <1>7, <1>8, <1>9, <1>10 DEF IInv

-----------------------------------------------------------------------------
(* The steps of the page. *)

\* Without anything of the section there is nothing to follow.
LEMMA QuietChained ==
    ASSUME TypeOK, Quiet, NEW P \in Seq(Msg), Elems(P) \subseteq Elems(Pipe),
           NEW G, NEW len, NEW pg
    PROVE  Chained(Append(P, Coming), G, len, pg)
  <1>1. Coming \in Msg /\ Coming.take = 0
    BY ComingTyped DEF Quiet
  <1>. DEFINE L == Append(P, Coming)
  <1>2. Elems(L) \subseteq Elems(Pipe) \cup {Coming}
    BY <1>1, ElemsAppend
  <1>3. \A e \in Elems(L) : e.take = 0
    BY <1>1, <1>2 DEF Quiet
  <1>. HIDE DEF L
  <1>4. \A j \in 1..Len(L) : L[j].take = 0
    BY <1>3 DEF Elems
  <1>5. Chained(L, G, len, pg)
    BY <1>4 DEF Chained
  <1>6. QED
    BY <1>5 DEF L

\* A step of the page that adds nothing to the text.
LEMMA PageChange ==
    ASSUME IInv, UNCHANGED <<moment, work, lengths>>,
           conn' \in Conns \cup {NoConn}, gaps \subseteq gaps',
           Pipe' \in Seq(Msg), Elems(Pipe') \subseteq Elems(Pipe),
           Chained(Append(Pipe', Coming), gaps', lengths, page),
           page' \in Pages, polls' \subseteq 0..moment,
           ask' \in Asks(moment),
           page'.shown <= page'.newest, page'.newest <= moment,
           page'.polling => ~Open',
           page'.take = page.take,
           \/ page'.text = page.text /\ page'.state = page.state
           \/ page'.state = "none" /\ page'.newest = LastMoment,
           page.newest = LastMoment /\ page'.newest # LastMoment =>
               Quiet /\ page.state = "none",
           LastMoment \in polls' => Quiet,
           page'.newest = LastMoment /\ ask'.kind # "none" /\ Live(ask'.read) =>
               (Quiet \/ Quiet') /\ page'.state = "none"
    PROVE  IInv'
  <1>1. /\ TypeOK /\ PipeInv /\ OrderInv /\ EndInv /\ ChainInv /\ CompleteTextIsWhole
    BY DEF IInv
  <1>2. Coming' = Coming /\ Coming \in Msg /\ (Quiet => Quiet')
    BY <1>1, ComingTyped DEF Coming, Event, Quiet
  <1>3. TypeOK'
    BY <1>1 DEF TypeOK
  <1>4. PipeInv'
    BY <1>1 DEF PipeInv, Sound, Done, Busy
  <1>5. OrderInv'
    BY <1>1 DEF OrderInv, Done, Busy, Ended
  <1>6. EndInv'
    BY <1>2 DEF EndInv, Live
  <1>7. ChainInv'
    <2>1. Append(Pipe', Coming) \in Seq(Msg)
      BY <1>2, Grown
    <2>2. CASE page'.newest # LastMoment /\ page.newest = LastMoment
      BY <1>1, <1>2, <2>2, QuietChained DEF ChainInv, Line
    <2>3. CASE page'.newest = LastMoment \/ page.newest # LastMoment
      <3>1. \A e \in Msg : Holds(page, e, lengths) => Holds(page', e, lengths)
        BY <2>3 DEF Holds
      <3>2. Chained(Append(Pipe', Coming), gaps', lengths, page')
        BY <2>1, <3>1, ChainedWeaker
      <3>3. QED
        BY <1>2, <3>2 DEF ChainInv, Line
    <2>4. QED
      BY <2>2, <2>3
  <1>8. CompleteTextIsWhole'
    BY <1>1 DEF CompleteTextIsWhole
  <1>9. QED
    BY <1>3, <1>4, <1>5, <1>6, <1>7, <1>8 DEF IInv


LEMMA ShownParts ==
    ASSUME page \in Pages, NEW m \in 0..LastMoment
    PROVE  /\ Showing(m) \in Pages /\ Showing(m).shown = m
           /\ Showing(m).newest = IF m > page.newest THEN m ELSE page.newest
           /\ Showing(m).polling = page.polling /\ Showing(m).take = page.take
           /\ \/ Showing(m).text = page.text /\ Showing(m).state = page.state
              \/ Showing(m).state = "none" /\ m = LastMoment
           /\ m = LastMoment /\ page.shown # LastMoment => Showing(m).state = "none"
  <1>1. << >> \in Seq(Nat \X Nat) /\ m \in Int
    OBVIOUS
  <1>2. PICK n \in Int : n = (IF m > page.newest THEN m ELSE page.newest)
    BY <1>1 DEF Pages
  <1>3. CASE m = LastMoment /\ page.shown # LastMoment
    <2>1. Showing(m) = [page EXCEPT !.shown = m, !.newest = n, !.text = << >>, !.state = "none"]
      BY <1>2, <1>3 DEF Showing
    <2>2. QED
      BY <1>1, <1>2, <1>3, <2>1, ZenonT(90) DEF Pages
  <1>4. CASE ~(m = LastMoment /\ page.shown # LastMoment)
    <2>1. Showing(m) = [page EXCEPT !.shown = m, !.newest = n]
      BY <1>2, <1>4 DEF Showing, Pages
    <2>2. QED
      BY <1>1, <1>2, <1>4, <2>1 DEF Pages
  <1>5. QED
    BY <1>3, <1>4

\* What every step of the page starts from.
LEMMA PageFacts ==
    ASSUME IInv
    PROVE  /\ TypeOK /\ PipeInv /\ OrderInv /\ EndInv /\ ChainInv /\ CompleteTextIsWhole
           /\ Pipe \in Seq(Msg) /\ Coming \in Msg
           /\ Chained(Append(Pipe, Coming), gaps, lengths, page)
           /\ page \in Pages /\ page.newest \in Int /\ page.shown \in Int
           /\ moment \in Nat /\ moment <= LastMoment /\ LastMoment \in Nat
           /\ polls \subseteq 0..moment /\ conn \in Conns \cup {NoConn}
           /\ ask \in Asks(moment)
           /\ page.shown <= page.newest /\ page.newest <= moment
           /\ page.polling => ~Open
           /\ Open => conn \in Conns
  <1>1. /\ TypeOK /\ PipeInv /\ OrderInv /\ EndInv /\ ChainInv /\ CompleteTextIsWhole
    BY DEF IInv
  <1>2. Pipe \in Seq(Msg) /\ Coming \in Msg /\ (Open => conn \in Conns)
    BY <1>1, PipeTyped, ComingTyped, OpenConn
  <1>3. page \in Pages /\ page.newest \in Int /\ page.shown \in Int
    BY <1>1 DEF TypeOK, Pages
  <1>4. QED
    BY <1>1, <1>2, <1>3, SMTT(60) DEF TypeOK, OrderInv, ChainInv, Line

LEMMA ClosedLine ==
    ASSUME IInv, Close
    PROVE  /\ conn' \in Conns \cup {NoConn} /\ gaps \subseteq gaps' /\ ~Open'
           /\ Pipe' \in Seq(Msg) /\ Elems(Pipe') = {}
           /\ Chained(Append(Pipe', Coming), gaps', lengths, page)
  <1>1. /\ conn' = NoConn /\ Pipe' = << >> /\ gaps \subseteq gaps'
        /\ \A i \in 1..Len(Pipe) : Pipe[i].take \in gaps' \cup {0}
    BY PageFacts, CloseLine
  <1>2. << >> \in Seq(Msg) /\ Elems(<< >>) = {}
    BY DEF Elems
  <1>3. Chained(Append(<< >>, Coming), gaps', lengths, page)
    BY <1>1, PageFacts, ChainedClosed
  <1>4. QED
    BY <1>1, <1>2, <1>3 DEF Open

\* The page reads the first event of the wire.
LEMMA ReadLine ==
    ASSUME IInv, Open, conn.wire # << >>, conn' = [conn EXCEPT !.wire = Tail(conn.wire)]
    PROVE  /\ conn' \in Conns /\ Open' /\ Pipe # << >>
           /\ Pipe' = Tail(Pipe) /\ Head(Pipe) = Head(conn.wire)
  <1>1. conn \in Conns
    BY PageFacts
  <1>2. PICK v \in Seq(Msg), w \in Seq(Msg) : v = conn.wire /\ w = conn.queue
    BY <1>1, ConnParts
  <1>3. PICK u : u = Tail(v)
    OBVIOUS
  <1>4. u \in Seq(Msg) /\ v # << >>
    BY <1>2, <1>3
  <1>5. conn' = [conn EXCEPT !.wire = u]
    BY <1>2, <1>3
  <1>6. conn' \in Conns /\ conn'.wire = u /\ conn'.queue = conn.queue
    BY <1>1, <1>4, <1>5 DEF Conns
  <1>7. Pipe = v \o w /\ Pipe' = u \o w /\ Open'
    BY <1>2, <1>6, ConnIsOpen DEF Pipe, Open
  <1>8. Tail(v \o w) = Tail(v) \o w /\ Head(v \o w) = Head(v) /\ v \o w # << >>
    BY <1>4, TailJoined
  <1>9. QED
    BY <1>2, <1>3, <1>6, <1>7, <1>8


\* The stream is closed and the page is not shown anything new.
LEMMA FallbackKeeps ==
    ASSUME IInv, Close, page' = Fallback, UNCHANGED <<serverSide, polls, ask>>
    PROVE  IInv'
  <1>1. /\ page' = [page EXCEPT !.polling = TRUE]
        /\ UNCHANGED <<moment, work, lengths, polls, ask>>
    BY DEF Fallback, serverSide
  <1>2. /\ page' \in Pages /\ page'.take = page.take /\ page'.text = page.text
        /\ page'.state = page.state /\ page'.newest = page.newest /\ page'.shown = page.shown
    BY <1>1, PageFacts DEF Pages
  <1>3. /\ conn' \in Conns \cup {NoConn} /\ gaps \subseteq gaps' /\ ~Open'
        /\ Pipe' \in Seq(Msg) /\ Elems(Pipe') \subseteq Elems(Pipe)
        /\ Chained(Append(Pipe', Coming), gaps', lengths, page)
    BY ClosedLine
  <1>4. /\ LastMoment \in polls' => Quiet
        /\ page'.newest = LastMoment /\ ask'.kind # "none" /\ Live(ask'.read) =>
               Quiet /\ page'.state = "none"
    BY <1>1, <1>2, PageFacts DEF EndInv, Live
  <1>5. QED
    BY <1>1, <1>2, <1>3, <1>4, PageFacts, PageChange

\* A step that leaves the stream alone.
LEMMA SameLine ==
    ASSUME IInv, UNCHANGED <<conn, gaps>>
    PROVE  /\ conn' \in Conns \cup {NoConn} /\ gaps \subseteq gaps' /\ (Open' <=> Open)
           /\ Pipe' \in Seq(Msg) /\ Elems(Pipe') \subseteq Elems(Pipe)
           /\ Chained(Append(Pipe', Coming), gaps', lengths, page)
  <1>1. Pipe' = Pipe /\ (Open' <=> Open)
    BY DEF Pipe, Open
  <1>2. QED
    BY <1>1, PageFacts

LEMMA PollKeeps ==
    ASSUME IInv, Poll
    PROVE  IInv'
  <1>1. /\ page.polling /\ polls' = polls \cup {moment}
        /\ UNCHANGED <<moment, work, lengths, gaps, conn, page, ask>>
    BY DEF Poll, serverSide
  <1>2. LastMoment \in polls' => Quiet
    <2>1. CASE LastMoment \in polls
      BY <2>1, PageFacts DEF EndInv
    <2>2. CASE Ended
      <3>1. Pipe = << >> /\ work.pc # "streaming"
        BY <1>1, <2>2, PageFacts DEF Pipe, OrderInv, Busy
      <3>2. QED
        BY <3>1 DEF Quiet, Elems
    <2>3. QED
      BY <1>1, <2>1, <2>2 DEF Ended
  <1>3. page'.newest = LastMoment /\ ask'.kind # "none" /\ Live(ask'.read) =>
            Quiet /\ page'.state = "none"
    BY <1>1, PageFacts DEF EndInv, Live
  <1>4. polls' \subseteq 0..moment
    BY <1>1, PageFacts, SMTT(60)
  <1>5. QED
    BY <1>1, <1>2, <1>3, <1>4, PageFacts, SameLine, PageChange

LEMMA PollFailsKeeps ==
    ASSUME IInv, NEW m \in 0..LastMoment, PollFails(m)
    PROVE  IInv'
  <1>1. /\ polls' \subseteq polls
        /\ page' = [page EXCEPT !.polling = FALSE, !.deaf = page.deaf \/ ~Open]
        /\ UNCHANGED <<moment, work, lengths, gaps, conn, ask>>
    BY PageFacts DEF PollFails, serverSide
  <1>2. PICK b \in BOOLEAN : b = (page.deaf \/ ~Open)
    OBVIOUS
  <1>3. page' = [page EXCEPT !.polling = FALSE, !.deaf = b]
    BY <1>1, <1>2
  <1>4. /\ page' \in Pages /\ page'.take = page.take /\ page'.text = page.text
        /\ page'.state = page.state /\ page'.newest = page.newest /\ page'.shown = page.shown
        /\ page'.polling = FALSE
    BY <1>3, PageFacts DEF Pages
  <1>5. /\ LastMoment \in polls' => Quiet
        /\ page'.newest = LastMoment /\ ask'.kind # "none" /\ Live(ask'.read) =>
               Quiet /\ page'.state = "none"
    BY <1>1, <1>4, PageFacts DEF EndInv, Live
  <1>6. polls' \subseteq 0..moment
    BY <1>1, PageFacts
  <1>7. QED
    BY <1>1, <1>4, <1>5, <1>6, PageFacts, SameLine, PageChange

\* The page is shown the end of the run, or an answer to an older poll: a request under
\* way that has read an older state finds nothing left of the section.
LEMMA ShowingEnds ==
    ASSUME IInv, NEW m \in 0..moment
    PROVE  /\ Showing(m).newest = LastMoment /\ ask.kind # "none" /\ Live(ask.read) =>
                  (Quiet \/ m = LastMoment) /\ Showing(m).state = "none"
           /\ Showing(m).shown <= Showing(m).newest /\ Showing(m).newest <= moment
           /\ Showing(m).newest \in Int
           /\ page.newest = LastMoment => Showing(m).newest = LastMoment
           /\ Live(m) => Showing(m).text = page.text /\ Showing(m).state = page.state
           /\ \/ Showing(m).text = page.text /\ Showing(m).state = page.state
              \/ Showing(m).state = "none" /\ Showing(m).newest = LastMoment
  <1>1. m \in 0..LastMoment /\ m \in Int
    BY PageFacts, SMTT(60)
  <1>2. /\ Showing(m).shown = m
        /\ Showing(m).newest = IF m > page.newest THEN m ELSE page.newest
        /\ \/ Showing(m).text = page.text /\ Showing(m).state = page.state
           \/ Showing(m).state = "none" /\ m = LastMoment
        /\ m = LastMoment /\ page.shown # LastMoment => Showing(m).state = "none"
    BY <1>1, PageFacts, ShownParts
  <1>3. ASSUME Showing(m).newest = LastMoment, ask.kind # "none", Live(ask.read)
        PROVE  (Quiet \/ m = LastMoment) /\ Showing(m).state = "none"
    <2>1. CASE page.newest = LastMoment
      BY <1>2, <1>3, <2>1, PageFacts DEF EndInv
    <2>2. CASE page.newest # LastMoment
      <3>1. m = LastMoment /\ page.shown # LastMoment
        BY <1>1, <1>2, <1>3, <2>2, PageFacts, SMTT(60)
      <3>2. QED
        BY <1>2, <3>1
    <2>3. QED
      BY <2>1, <2>2
  <1>4. PICK n : n = page.newest /\ n \in Int /\ n <= moment
    BY PageFacts
  <1>5. /\ Showing(m).newest \in Int /\ m <= Showing(m).newest /\ n <= Showing(m).newest
        /\ Showing(m).newest <= moment
    BY <1>1, <1>2, <1>4, PageFacts, SMTT(60)
  <1>6. (n = LastMoment \/ m = LastMoment) => Showing(m).newest = LastMoment
    BY <1>1, <1>4, <1>5, PageFacts, SMTT(60)
  <1>7. QED
    BY <1>2, <1>3, <1>4, <1>5, <1>6 DEF Live


LEMMA PollAnsweredKeeps ==
    ASSUME IInv, NEW m \in 0..LastMoment, PollAnswered(m)
    PROVE  IInv'
  <1>1. /\ m \in polls /\ polls' \subseteq polls
        /\ page' = [Showing(m) EXCEPT !.polling = @ /\ Live(m)]
        /\ UNCHANGED <<moment, work, lengths, gaps, conn, ask>>
    BY DEF PollAnswered, serverSide
  <1>2. PICK b \in BOOLEAN : b = (page.polling /\ Live(m))
    OBVIOUS
  <1>3. Showing(m) \in Pages /\ Showing(m).take = page.take /\ Showing(m).polling = page.polling
    BY PageFacts, ShownParts
  <1>4. page' = [Showing(m) EXCEPT !.polling = b]
    BY <1>1, <1>2, <1>3
  <1>5. PICK sp \in Pages : sp = Showing(m)
    BY <1>3
  <1>6. /\ page' \in Pages /\ page'.take = sp.take /\ page'.text = sp.text
        /\ page'.state = sp.state /\ page'.newest = sp.newest /\ page'.shown = sp.shown
        /\ page'.polling = b
    BY <1>4, <1>5 DEF Pages
  <1>7. m \in 0..moment /\ (LastMoment \in polls => Quiet)
    BY <1>1, PageFacts DEF EndInv
  <1>8. m = LastMoment => Quiet
    BY <1>1, <1>7
  <1>9. /\ page'.newest = LastMoment /\ ask.kind # "none" /\ Live(ask.read) =>
               Quiet /\ page'.state = "none"
        /\ page'.shown <= page'.newest /\ page'.newest <= moment
        /\ page.newest = LastMoment => page'.newest = LastMoment
        /\ \/ page'.text = page.text /\ page'.state = page.state
           \/ page'.state = "none" /\ page'.newest = LastMoment
    BY <1>5, <1>6, <1>7, <1>8, ShowingEnds
  <1>10. polls' \subseteq 0..moment /\ (LastMoment \in polls' => Quiet) /\ page'.take = page.take
         /\ (page'.polling => ~Open)
    BY <1>1, <1>2, <1>3, <1>5, <1>6, <1>7, PageFacts
  <1>11. page'.newest = LastMoment /\ ask'.kind # "none" /\ Live(ask'.read) =>
             Quiet /\ page'.state = "none"
    BY <1>1, <1>9 DEF Live
  <1>12. QED
    BY <1>1, <1>6, <1>9, <1>10, <1>11, PageFacts, SameLine, PageChange

LEMMA AskKeeps ==
    ASSUME IInv, Ask
    PROVE  IInv'
  <1>1. /\ ask' \in [kind: {"load", "act"}, read: {moment}]
        /\ UNCHANGED <<moment, work, lengths, gaps, conn, page, polls>>
    BY DEF Ask, serverSide
  <1>2. ask' \in Asks(moment) /\ ask'.read = moment
    BY <1>1, PageFacts DEF Asks
  <1>3. /\ LastMoment \in polls' => Quiet
        /\ page'.newest = LastMoment /\ ask'.kind # "none" /\ Live(ask'.read) =>
               Quiet /\ page'.state = "none"
    BY <1>1, <1>2, PageFacts DEF EndInv, Live
  <1>4. QED
    BY <1>1, <1>2, <1>3, PageFacts, SameLine, PageChange

\* A stream is opened, if there is none, with nothing under way.
LEMMA OpenedLine ==
    ASSUME IInv, OpenStream
    PROVE  /\ conn' \in Conns /\ Open' /\ Pipe' = Pipe
  <1>1. CASE Open
    BY <1>1, PageFacts DEF OpenStream, Pipe, Open
  <1>2. CASE ~Open
    <2>1. << >> \in Seq(Msg)
      OBVIOUS
    <2>2. conn' \in Conns /\ conn'.wire = << >> /\ conn'.queue = << >>
      BY <1>2, <2>1 DEF OpenStream, Conns
    <2>3. << >> \o << >> = << >>
      OBVIOUS
    <2>4. QED
      BY <1>2, <2>2, <2>3, ConnIsOpen DEF Pipe, Open
  <1>3. QED
    BY <1>1, <1>2

LEMMA AskAnsweredKeeps ==
    ASSUME IInv, AskAnswered
    PROVE  IInv'
  <1>1. PICK m \in 0..moment, k \in {"load", "act"} : ask.read = m /\ ask.kind = k
    BY PageFacts DEF Asks, AskAnswered, NoAsk
  <1>. DEFINE Told(b, d) == page' = [Showing(m) EXCEPT !.polling = b, !.newest = m, !.deaf = d]
  <1>2. /\ ask' = [kind |-> "none", read |-> 0]
        /\ UNCHANGED <<moment, work, lengths, polls>>
    BY DEF AskAnswered, NoAsk, serverSide
  <1>3. m \in 0..LastMoment /\ m \in Int
    BY PageFacts, SMTT(60)
  <1>4. PICK sp \in Pages : sp = Showing(m)
    BY <1>3, PageFacts, ShownParts
  <1>5. /\ sp.shown = m /\ sp.take = page.take /\ sp.polling = page.polling /\ sp.deaf \in BOOLEAN
        /\ \/ sp.text = page.text /\ sp.state = page.state
           \/ sp.state = "none" /\ m = LastMoment
    BY <1>3, <1>4, PageFacts, ShownParts DEF Pages
  <1>6. ASSUME NEW b \in BOOLEAN, NEW d \in BOOLEAN, Told(b, d)
        PROVE  /\ page' \in Pages /\ page'.take = page.take /\ page'.newest = m
               /\ page'.shown = m /\ page'.polling = b
               /\ \/ page'.text = page.text /\ page'.state = page.state
                  \/ page'.state = "none" /\ page'.newest = LastMoment
    <2>1. page' = [sp EXCEPT !.polling = b, !.newest = m, !.deaf = d]
      BY <1>4, <1>6
    <2>2. /\ page' \in Pages /\ page'.take = sp.take /\ page'.text = sp.text
          /\ page'.state = sp.state /\ page'.newest = m /\ page'.shown = sp.shown
          /\ page'.polling = b
      BY <1>3, <2>1 DEF Pages
    <2>3. QED
      BY <1>5, <2>2
  <1>7. ASSUME NEW b \in BOOLEAN, NEW d \in BOOLEAN, Told(b, d), b => ~Open',
               conn' \in Conns \cup {NoConn}, gaps \subseteq gaps',
               Pipe' \in Seq(Msg), Elems(Pipe') \subseteq Elems(Pipe),
               Chained(Append(Pipe', Coming), gaps', lengths, page)
        PROVE  IInv'
    <2>1. /\ page' \in Pages /\ page'.take = page.take /\ page'.newest = m
          /\ page'.shown = m /\ page'.polling = b
          /\ \/ page'.text = page.text /\ page'.state = page.state
             \/ page'.state = "none" /\ page'.newest = LastMoment
      BY <1>6, <1>7
    <2>2. page'.shown <= page'.newest /\ page'.newest <= moment
      BY <1>3, <2>1, PageFacts
    <2>3. page.newest = LastMoment /\ page'.newest # LastMoment => Quiet /\ page.state = "none"
      BY <1>1, <2>1, PageFacts DEF EndInv, Live
    <2>4. ask' \in Asks(moment) /\ ask'.kind = "none"
      BY <1>2, PageFacts DEF Asks, NoAsk
    <2>5. LastMoment \in polls' => Quiet
      BY <1>2, PageFacts DEF EndInv
    <2>. HIDE DEF Told
    <2>6. QED
      BY <1>2, <1>7, <2>1, <2>2, <2>3, <2>4, <2>5, PageFacts, PageChange
  <1>8. CASE /\ Live(m) /\ OpenStream /\ UNCHANGED gaps
             /\ page' = [Showing(m) EXCEPT !.polling = @ /\ Open, !.newest = m, !.deaf = FALSE]
    <2>1. Told(FALSE, FALSE)
      <3>1. (sp.polling /\ Open) = FALSE
        BY <1>5, PageFacts
      <3>2. QED
        BY <1>4, <1>8, <3>1
    <2>2. /\ conn' \in Conns \cup {NoConn} /\ gaps \subseteq gaps'
          /\ Pipe' \in Seq(Msg) /\ Elems(Pipe') \subseteq Elems(Pipe)
          /\ Chained(Append(Pipe', Coming), gaps', lengths, page)
      BY <1>8, PageFacts, OpenedLine
    <2>. HIDE DEF Told
    <2>3. QED
      BY <1>7, <2>1, <2>2
  <1>9. CASE /\ Close
             /\ page' = [Showing(m) EXCEPT !.polling = FALSE, !.newest = m]
    <2>1. Told(FALSE, sp.deaf)
      BY <1>4, <1>9 DEF Pages
    <2>. HIDE DEF Told
    <2>2. QED
      BY <1>5, <1>7, <1>9, <2>1, ClosedLine
  <1>10. CASE /\ UNCHANGED <<conn, gaps>>
              /\ page' = [Showing(m) EXCEPT !.newest = m]
    <2>1. Told(sp.polling, sp.deaf)
      BY <1>4, <1>10 DEF Pages
    <2>. HIDE DEF Told
    <2>2. QED
      BY <1>4, <1>5, <1>7, <1>10, <2>1, SameLine, PageFacts DEF Pages
  <1>11. QED
    BY <1>1, <1>8, <1>9, <1>10 DEF AskAnswered


LEMMA AskFailsKeeps ==
    ASSUME IInv, AskFails
    PROVE  IInv'
  <1>1. /\ ask' = NoAsk /\ ask'.kind = "none" /\ ask' \in Asks(moment)
        /\ UNCHANGED <<moment, work, lengths, polls>>
    BY DEF AskFails, NoAsk, Asks, serverSide
  <1>2. LastMoment \in polls' => Quiet
    BY <1>1, PageFacts DEF EndInv
  <1>3. polls' \subseteq 0..moment
    BY <1>1, PageFacts
  <1>4. CASE Close /\ page' = [page EXCEPT !.polling = FALSE, !.deaf = TRUE]
    <2>1. /\ page' \in Pages /\ page'.take = page.take /\ page'.text = page.text
          /\ page'.state = page.state /\ page'.newest = page.newest /\ page'.shown = page.shown
          /\ page'.polling = FALSE
      BY <1>4, PageFacts DEF Pages
    <2>2. QED
      BY <1>1, <1>2, <1>3, <1>4, <2>1, PageFacts, ClosedLine, PageChange
  <1>5. CASE UNCHANGED <<conn, gaps, page>>
    BY <1>1, <1>2, <1>3, <1>5, PageFacts, SameLine, PageChange
  <1>6. QED
    BY <1>4, <1>5 DEF AskFails

\* The first event of the line has no gap before it but the page's own.
LEMMA FirstHolds ==
    ASSUME IInv, Pipe # << >>, Head(Pipe).take \notin gaps \cup {0},
           Head(Pipe).type # "section_started"
    PROVE  Holds(page, Head(Pipe), lengths)
  <1>1. Pipe \in Seq(Msg) /\ Coming \in Msg /\ Chained(Append(Pipe, Coming), gaps, lengths, page)
    BY PageFacts
  <1>. DEFINE L == Append(Pipe, Coming)
  <1>2. L[1] = Head(Pipe) /\ 1 \in 1..Len(L)
    BY <1>1
  <1>. HIDE DEF L
  <1>3. Preceded(L, 1, lengths, page)
    BY <1>1, <1>2 DEF Chained, L
  <1>4. 1..1 - 1 = {}
    OBVIOUS
  <1>5. QED
    BY <1>2, <1>3, <1>4 DEF Preceded

LEMMA TailChain ==
    ASSUME IInv, Pipe # << >>, NEW pg2,
           Head(Pipe).take = 0 => \A e \in Msg : Holds(page, e, lengths) => Holds(pg2, e, lengths),
           \A e \in Msg : /\ e.take = Head(Pipe).take /\ e.take \notin gaps \cup {0}
                          /\ Head(Pipe).type # "section_completed"
                          /\ Rank(e, lengths) = Head(Pipe).n + 1
                          => Holds(pg2, e, lengths)
    PROVE  Chained(Append(Tail(Pipe), Coming), gaps, lengths, pg2)
  <1>1. Pipe \in Seq(Msg) /\ Coming \in Msg /\ Chained(Append(Pipe, Coming), gaps, lengths, page)
    BY PageFacts
  <1>. DEFINE L == Append(Pipe, Coming)
              M == Append(Tail(Pipe), Coming)
  <1>2. /\ Tail(Pipe) \in Seq(Msg) /\ Len(Tail(Pipe)) = Len(Pipe) - 1 /\ Len(Pipe) \in Nat \ {0}
        /\ \A i \in 1..Len(Pipe) - 1 : Tail(Pipe)[i] = Pipe[i + 1]
    BY <1>1
  <1>3. /\ L \in Seq(Msg) /\ Len(L) = Len(Pipe) + 1 /\ L[1] = Head(Pipe)
        /\ L[Len(Pipe) + 1] = Coming
        /\ \A i \in 1..Len(Pipe) : L[i] = Pipe[i]
    BY <1>1
  <1>4. /\ M \in Seq(Msg) /\ Len(M) = Len(Pipe) /\ M[Len(Pipe)] = Coming
        /\ \A i \in 1..Len(Pipe) - 1 : M[i] = Tail(Pipe)[i]
    BY <1>1, <1>2
  <1>5. Chained(L, gaps, lengths, page)
    BY <1>1
  <1>. HIDE DEF L, M
  <1>6. ASSUME NEW i \in 1..Len(M) PROVE M[i] = L[i + 1]
    <2>1. CASE i = Len(Pipe)
      BY <1>3, <1>4, <2>1
    <2>2. CASE i # Len(Pipe)
      <3>1. i \in 1..Len(Pipe) - 1 /\ i + 1 \in 1..Len(Pipe)
        <4>1. Len(Pipe) \in Nat /\ i \in 1..Len(Pipe)
          BY <1>2, <1>4
        <4>2. QED
          BY <2>2, <4>1
      <3>2. QED
        BY <1>2, <1>3, <1>4, <3>1
    <2>3. QED
      BY <2>1, <2>2
  <1>7. Len(L) = Len(M) + 1
    BY <1>3, <1>4
  <1>8. L[1].take = 0 => \A e \in Msg : Holds(page, e, lengths) => Holds(pg2, e, lengths)
    BY <1>3
  <1>9. \A e \in Msg : /\ e.take = L[1].take /\ e.take \notin gaps \cup {0}
                       /\ L[1].type # "section_completed" /\ Rank(e, lengths) = L[1].n + 1
                       => Holds(pg2, e, lengths)
    BY <1>3
  <1>10. Chained(M, gaps, lengths, pg2)
    BY <1>3, <1>4, <1>5, <1>6, <1>7, <1>8, <1>9, ChainedTail
  <1>11. QED
    BY <1>10 DEF M

\* The next token makes the text longer, and the first one begins it.
LEMMA WholeGrows ==
    ASSUME NEW k, NEW n \in Nat \ {0}
    PROVE  Append(Whole(k, n - 1), <<k, n>>) = Whole(k, n)
  <1>. DEFINE s == Whole(k, n - 1)
              t == Whole(k, n)
              S == {<<k, i>> : i \in 1..n}
  <1>1. s \in Seq(S) /\ Len(s) = n - 1 /\ \A i \in 1..n - 1 : s[i] = <<k, i>>
    BY DEF Whole
  <1>2. t \in Seq(S) /\ Len(t) = n /\ \A i \in 1..n : t[i] = <<k, i>>
    BY DEF Whole
  <1>3. <<k, n>> \in S
    OBVIOUS
  <1>. HIDE DEF s, t, S
  <1>4. /\ Append(s, <<k, n>>) \in Seq(S) /\ Len(Append(s, <<k, n>>)) = n
        /\ \A i \in 1..n : Append(s, <<k, n>>)[i] = t[i]
    <2>1. PICK e \in S : e = <<k, n>>
      BY <1>3
    <2>2. PICK u : u = Append(s, e)
      OBVIOUS
    <2>3. /\ u \in Seq(S) /\ Len(u) = n /\ u[n] = e
          /\ \A i \in 1..n - 1 : u[i] = s[i]
      BY <1>1, <2>1, <2>2, SMTT(60)
    <2>4. \A i \in 1..n : i = n \/ i \in 1..n - 1
      OBVIOUS
    <2>5. n \in 1..n
      OBVIOUS
    <2>6. \A i \in 1..n : u[i] = t[i]
      BY <1>1, <1>2, <2>1, <2>3, <2>4, <2>5
    <2>7. QED
      BY <2>1, <2>2, <2>3, <2>6
  <1>5. Append(s, <<k, n>>) = t
    BY <1>2, <1>4, SMTT(60)
  <1>6. QED
    BY <1>5 DEF s, t

LEMMA WholeEmpty == \A k : Whole(k, 0) = << >>
  BY DEF Whole


\* The page reads an event of the section.
LEMMA EntryParts ==
    ASSUME page \in Pages, NEW e \in Msg, e.type \in EventTypes, e.take # 0
    PROVE  /\ Entry(e) \in Pages /\ Entry(e).newest = page.newest
           /\ Entry(e).shown = page.shown /\ Entry(e).polling = page.polling
           /\ e.type = "section_started" =>
                  Entry(e).text = << >> /\ Entry(e).state = "streaming"
           /\ e.type = "token" =>
                  /\ Entry(e).text = Append(page.text, <<e.take, e.n>>)
                  /\ Entry(e).state = "streaming"
           /\ e.type = "section_completed" =>
                  \/ Entry(e) = page /\ page.state = "none"
                  \/ /\ Entry(e).text = page.text /\ Entry(e).state = "complete"
                     /\ Entry(e).take = e.take
  <1>1. CASE e.type = "section_started"
    <2>1. Entry(e) = [page EXCEPT !.text = << >>, !.state = "streaming"]
      BY <1>1 DEF Entry
    <2>2. << >> \in Seq(Nat \X Nat)
      OBVIOUS
    <2>3. QED
      BY <1>1, <2>1, <2>2 DEF Pages
  <1>2. CASE e.type = "token"
    <2>1. PICK t : t = Append(page.text, <<e.take, e.n>>)
      OBVIOUS
    <2>2. t \in Seq(Nat \X Nat)
      <3>0. page.text \in Seq(Nat \X Nat) /\ e.take \in Nat /\ e.n \in Nat
        BY DEF Pages, Msg
      <3>1. PICK u \in Seq(Nat \X Nat), p \in Nat \X Nat : u = page.text /\ p = <<e.take, e.n>>
        BY <3>0
      <3>2. Append(u, p) \in Seq(Nat \X Nat)
        OBVIOUS
      <3>3. QED
        BY <2>1, <3>1, <3>2
    <2>3. Entry(e) = [page EXCEPT !.text = t, !.state = "streaming"]
      BY <1>2, <2>1 DEF Entry
    <2>4. QED
      BY <1>2, <2>1, <2>2, <2>3 DEF Pages
  <1>3. CASE e.type = "section_completed" /\ page.state # "none"
    <2>1. Entry(e) = [page EXCEPT !.state = "complete", !.take = e.take]
      BY <1>3 DEF Entry
    <2>2. e.take \in Nat
      BY DEF Msg
    <2>3. QED
      BY <1>3, <2>1, <2>2 DEF Pages
  <1>4. CASE e.type = "section_completed" /\ page.state = "none"
    BY <1>4 DEF Entry
  <1>5. QED
    BY <1>1, <1>2, <1>3, <1>4 DEF EventTypes

LEMMA EntryKeeps ==
    ASSUME IInv, Open, conn.wire # << >>, Head(conn.wire).type \in EventTypes,
           page' = Entry(Head(conn.wire)), UNCHANGED <<serverSide, polls, ask, gaps>>,
           conn' = [conn EXCEPT !.wire = Tail(conn.wire)]
    PROVE  IInv'
  <1>1. /\ TypeOK /\ PipeInv /\ OrderInv /\ EndInv /\ CompleteTextIsWhole
        /\ Pipe \in Seq(Msg) /\ page \in Pages /\ Coming \in Msg
    BY PageFacts
  <1>2. /\ conn' \in Conns /\ Open' /\ Pipe # << >>
        /\ Pipe' = Tail(Pipe) /\ Head(Pipe) = Head(conn.wire)
    BY ReadLine
  <1>3. PICK e \in Msg : e = Head(Pipe)
    BY <1>1, <1>2, ElemsTail
  <1>4. /\ e \in Elems(Pipe) /\ Elems(Pipe') \subseteq Elems(Pipe) /\ Pipe' \in Seq(Msg)
        /\ page' = Entry(e) /\ e.type \in EventTypes
    BY <1>1, <1>2, <1>3, ElemsTail
  <1>5. /\ Sound(e) /\ e.take \in 1..work.take /\ e.n \in Nat
        /\ e.type = "section_completed" => Done(e.take)
    <2>1. Sound(e) /\ e.take \in Nat /\ e.n \in Nat /\ work.take \in Nat
      <3>1. Sound(e)
        BY <1>1, <1>4 DEF PipeInv
      <3>2. e.take \in Nat /\ e.n \in Nat
        BY DEF Msg
      <3>3. work.take \in Nat
        BY <1>1 DEF TypeOK
      <3>4. QED
        BY <3>1, <3>2, <3>3
    <2>2. QED
      BY <1>4, <2>1, SMTT(60) DEF Sound, EventTypes
  <1>6. UNCHANGED <<moment, work, lengths, polls, ask, gaps>>
    BY DEF serverSide
  <1>7. ~Quiet
    BY <1>4, <1>5 DEF Quiet
  <1>8. Coming' = Coming
    BY <1>6 DEF Coming, Event
  <1>9. e.take # 0
    BY <1>5
  <1>10. /\ page' \in Pages /\ page'.newest = page.newest
         /\ page'.shown = page.shown /\ page'.polling = page.polling
         /\ e.type = "section_started" => page'.text = << >> /\ page'.state = "streaming"
         /\ e.type = "token" =>
                page'.text = Append(page.text, <<e.take, e.n>>) /\ page'.state = "streaming"
         /\ e.type = "section_completed" =>
                \/ page' = page /\ page.state = "none"
                \/ page'.text = page.text /\ page'.state = "complete" /\ page'.take = e.take
    BY <1>1, <1>3, <1>4, <1>9, EntryParts
  <1>11. e.take \notin gaps /\ e.type # "section_started" => Holds(page, e, lengths)
    BY <1>2, <1>3, <1>9, FirstHolds
  <1>12. TypeOK'
    BY <1>1, <1>2, <1>6, <1>10 DEF TypeOK
  <1>13. PipeInv'
    BY <1>1, <1>4, <1>6 DEF PipeInv, Sound, Done, Busy
  <1>14. OrderInv'
    <2>1. page'.state = "complete" => page'.take \in 1..work.take /\ Done(page'.take)
      BY <1>1, <1>4, <1>5, <1>10 DEF OrderInv, EventTypes
    <2>2. QED
      BY <1>1, <1>2, <1>6, <1>10, <2>1 DEF OrderInv, Done, Busy, Ended
  <1>15. EndInv'
    BY <1>1, <1>6, <1>7, <1>10 DEF EndInv, Live
  <1>16. ChainInv'
    <2>1. ASSUME NEW f \in Msg, f.take = e.take, f.take \notin gaps \cup {0},
                 e.type # "section_completed", Rank(f, lengths) = e.n + 1
          PROVE  Holds(page', f, lengths)
      <3>1. Rank(f, lengths) - 1 = e.n
        BY <1>5, <2>1
      <3>2. CASE e.type = "section_started"
        <4>1. e.n = 0
          BY <1>5, <3>2 DEF Sound
        <4>2. QED
          BY <1>10, <3>1, <3>2, <4>1, WholeEmpty DEF Holds
      <3>3. CASE e.type = "token"
        <4>1. Holds(page, e, lengths) /\ e.n \in Nat \ {0}
          BY <1>5, <1>11, <2>1, <3>3 DEF Sound
        <4>2. CASE page.newest = LastMoment
          BY <1>10, <4>2 DEF Holds
        <4>3. CASE page.text = Whole(e.take, e.n - 1)
          <5>1. page'.text = Whole(e.take, e.n)
            BY <1>10, <3>3, <4>1, <4>3, WholeGrows
          <5>2. QED
            BY <1>10, <2>1, <3>1, <3>3, <5>1 DEF Holds
        <4>4. QED
          BY <3>3, <4>1, <4>2, <4>3 DEF Holds, Rank
      <3>4. QED
        BY <1>4, <2>1, <3>2, <3>3 DEF EventTypes
    <2>2. PICK pg2 : pg2 = page'
      OBVIOUS
    <2>3. Chained(Append(Tail(Pipe), Coming), gaps, lengths, pg2)
      BY <1>2, <1>3, <1>9, <2>1, <2>2, TailChain
    <2>4. QED
      BY <1>2, <1>6, <1>8, <2>2, <2>3 DEF ChainInv, Line
  <1>17. CompleteTextIsWhole'
    <2>1. SUFFICES ASSUME page'.state = "complete", page'.take \notin gaps,
                          page'.newest # LastMoment
                   PROVE  page'.text = Whole(page'.take, lengths[page'.take])
      BY <1>6 DEF CompleteTextIsWhole, Whole
    <2>2. /\ e.type = "section_completed" /\ page'.text = page.text /\ page'.take = e.take
      BY <1>4, <1>10, <2>1 DEF EventTypes
    <2>3. page.text = Whole(e.take, (lengths[e.take] + 1) - 1)
      BY <1>10, <1>11, <2>1, <2>2 DEF Holds, Rank
    <2>4. lengths[e.take] \in Nat
      BY <1>1, <1>5, SMTT(60) DEF TypeOK, Takes
    <2>5. (lengths[e.take] + 1) - 1 = lengths[e.take]
      BY <2>4, SMTT(60)
    <2>6. QED
      BY <2>2, <2>3, <2>5
  <1>18. QED
    BY <1>12, <1>13, <1>14, <1>15, <1>16, <1>17 DEF IInv

LEMMA ReceiveKeeps ==
    ASSUME IInv, Receive
    PROVE  IInv'
  <1>. DEFINE Rest == [conn EXCEPT !.wire = Tail(conn.wire)]
  <1>1. /\ Open /\ conn.wire # << >> /\ UNCHANGED <<serverSide, polls, ask>>
        /\ UNCHANGED <<moment, work, lengths>>
    BY DEF Receive, serverSide
  <1>2. PICK e : e = Head(conn.wire)
    OBVIOUS
  <1>3. \/ /\ e.type = "snapshot" /\ page' = Showing(e.moment) /\ Live(e.moment)
           /\ conn' = Rest /\ UNCHANGED gaps
        \/ e.type = "snapshot" /\ page' = Showing(e.moment) /\ ~Live(e.moment) /\ Close
        \/ e.type = "app_error" /\ Close /\ page' = Fallback
        \/ /\ e.type \notin {"snapshot", "app_error"}
           /\ page' = Entry(e) /\ conn' = Rest /\ UNCHANGED gaps
    BY <1>2 DEF Receive
  <1>4. PICK v \in Seq(Msg), w \in Seq(Msg) : v = conn.wire /\ w = conn.queue
    BY <1>1, PageFacts, ConnParts
  <1>5. Head(Pipe) = e /\ Pipe # << >>
    <2>1. Pipe = v \o w
      BY <1>1, <1>4 DEF Pipe
    <2>2. QED
      BY <1>1, <1>2, <1>4, <2>1, TailJoined
  <1>6. e \in Msg /\ Sound(e) /\ e.moment \in 0..moment /\ (e.take # 0 <=> e.type \in EventTypes)
    <2>1. e \in Elems(Pipe) /\ e \in Msg
      BY <1>5, PageFacts, ElemsTail
    <2>2. Sound(e) /\ e.moment \in Nat
      BY <2>1, PageFacts DEF PipeInv, Msg
    <2>3. QED
      BY <2>1, <2>2, PageFacts, SMTT(60) DEF Sound
  <1>7. ASSUME conn' = Rest, e.type \notin EventTypes
        PROVE  /\ conn' \in Conns /\ Open'
               /\ Pipe' \in Seq(Msg) /\ Elems(Pipe') \subseteq Elems(Pipe)
               /\ Chained(Append(Pipe', Coming), gaps, lengths, page)
    <2>1. /\ conn' \in Conns /\ Open' /\ Pipe' = Tail(Pipe)
      BY <1>1, <1>7, ReadLine
    <2>2. Pipe' \in Seq(Msg) /\ Elems(Pipe') \subseteq Elems(Pipe)
      BY <1>5, <2>1, PageFacts, ElemsTail
    <2>3. Chained(Append(Tail(Pipe), Coming), gaps, lengths, page)
      BY <1>5, <1>6, <1>7, TailChain
    <2>4. QED
      BY <2>1, <2>2, <2>3
  <1>8. LastMoment \in polls' => Quiet
    BY <1>1, PageFacts DEF EndInv
  <1>9. polls' \subseteq 0..moment /\ ask' \in Asks(moment) /\ ask' = ask
    BY <1>1, PageFacts
  <1>10. PICK m \in 0..moment : m = e.moment
    BY <1>6
  <1>11. page' = Showing(m) =>
           /\ page' \in Pages /\ page'.take = page.take /\ page'.polling = page.polling
           /\ page'.shown <= page'.newest /\ page'.newest <= moment
           /\ page.newest = LastMoment => page'.newest = LastMoment
           /\ \/ page'.text = page.text /\ page'.state = page.state
              \/ page'.state = "none" /\ page'.newest = LastMoment
           /\ page'.newest = LastMoment /\ ask.kind # "none" /\ Live(ask.read) =>
                  (Quiet \/ m = LastMoment) /\ page'.state = "none"
    <2>1. PICK sp : sp = Showing(m)
      OBVIOUS
    <2>2. m \in 0..LastMoment
      BY PageFacts, SMTT(60)
    <2>3. sp \in Pages /\ sp.take = page.take /\ sp.polling = page.polling
      BY <2>1, <2>2, PageFacts, ShownParts
    <2>4. /\ sp.shown <= sp.newest /\ sp.newest <= moment
          /\ page.newest = LastMoment => sp.newest = LastMoment
          /\ \/ sp.text = page.text /\ sp.state = page.state
             \/ sp.state = "none" /\ sp.newest = LastMoment
          /\ sp.newest = LastMoment /\ ask.kind # "none" /\ Live(ask.read) =>
                 (Quiet \/ m = LastMoment) /\ sp.state = "none"
      BY <2>1, ShowingEnds
    <2>5. QED
      BY <2>1, <2>3, <2>4
  <1>12. CASE /\ e.type = "snapshot" /\ page' = Showing(e.moment) /\ Live(e.moment)
              /\ conn' = Rest /\ UNCHANGED gaps
    <2>1. /\ conn' \in Conns /\ Open'
          /\ Pipe' \in Seq(Msg) /\ Elems(Pipe') \subseteq Elems(Pipe)
          /\ Chained(Append(Pipe', Coming), gaps, lengths, page)
      BY <1>7, <1>12 DEF EventTypes
    <2>2. m # LastMoment /\ page'.polling = FALSE
      BY <1>1, <1>10, <1>11, <1>12, PageFacts DEF Live, Pages
    <2>3. page'.newest = LastMoment /\ ask'.kind # "none" /\ Live(ask'.read) =>
              Quiet /\ page'.state = "none"
      BY <1>9, <1>10, <1>11, <1>12, <2>2 DEF Live
    <2>. HIDE DEF Rest
    <2>4. QED
      BY <1>1, <1>8, <1>9, <1>10, <1>11, <1>12, <2>1, <2>2, <2>3, PageChange
  <1>13. CASE e.type = "snapshot" /\ page' = Showing(e.moment) /\ ~Live(e.moment) /\ Close
    <2>1. /\ conn' \in Conns \cup {NoConn} /\ gaps \subseteq gaps' /\ ~Open'
          /\ Pipe' \in Seq(Msg) /\ Elems(Pipe') = {}
          /\ Chained(Append(Pipe', Coming), gaps', lengths, page)
      BY <1>13, ClosedLine
    <2>2. Ended
      BY <1>10, <1>13, PageFacts, SMTT(60) DEF Live, Ended
    <2>3. Quiet'
      BY <1>1, <2>1, <2>2, PageFacts DEF Quiet, OrderInv, Busy
    <2>4. page'.newest = LastMoment /\ ask'.kind # "none" /\ Live(ask'.read) =>
              Quiet' /\ page'.state = "none"
      BY <1>9, <1>10, <1>11, <1>13, <2>3 DEF Live
    <2>. HIDE DEF Rest
    <2>5. QED
      BY <1>1, <1>8, <1>9, <1>10, <1>11, <1>13, <2>1, <2>4, PageChange
  <1>14. CASE e.type = "app_error" /\ Close /\ page' = Fallback
    BY <1>1, <1>14, FallbackKeeps
  <1>15. CASE /\ e.type \notin {"snapshot", "app_error"}
              /\ page' = Entry(e) /\ conn' = Rest /\ UNCHANGED gaps
    <2>1. CASE e.type \in EventTypes
      BY <1>1, <1>2, <1>15, <2>1, EntryKeeps
    <2>2. CASE e.type \notin EventTypes
      <3>1. page' = page
        BY <1>15, <2>2 DEF Entry, EventTypes
      <3>2. /\ conn' \in Conns /\ Open'
            /\ Pipe' \in Seq(Msg) /\ Elems(Pipe') \subseteq Elems(Pipe)
            /\ Chained(Append(Pipe', Coming), gaps, lengths, page)
        BY <1>7, <1>15, <2>2
      <3>3. page'.newest = LastMoment /\ ask'.kind # "none" /\ Live(ask'.read) =>
                Quiet /\ page'.state = "none"
        BY <1>9, <3>1, PageFacts DEF EndInv, Live
      <3>. HIDE DEF Rest
      <3>4. QED
        BY <1>1, <1>8, <1>9, <1>15, <3>1, <3>2, <3>3, PageFacts, PageChange
    <2>3. QED
      BY <2>1, <2>2
  <1>16. QED
    BY <1>3, <1>12, <1>13, <1>14, <1>15


-----------------------------------------------------------------------------

LEMMA InitHolds == Init => IInv
  <1>. SUFFICES ASSUME Init PROVE IInv
    OBVIOUS
  <1>1. /\ Pipe = << >> /\ work.pc = "idle" /\ moment = 0 /\ polls = {} /\ work.take = 0
        /\ page.state = "none" /\ page.newest = -1 /\ page.shown = -1 /\ page.polling = FALSE
    BY DEF Init, Pipe, Open
  <1>2. TypeOK
    <2>1. << >> \in Seq(Nat \X Nat) /\ -1 \in Int
      OBVIOUS
    <2>2. page \in Pages
      BY <2>1 DEF Init, Pages
    <2>3. QED
      BY <1>1, <2>2 DEF Init, TypeOK, Asks
  <1>3. Elems(Pipe) = {}
    BY <1>1 DEF Elems
  <1>4. Quiet
    BY <1>1, <1>3 DEF Quiet
  <1>5. ChainInv
    BY <1>2, <1>4, PipeTyped, QuietChained DEF ChainInv, Line
  <1>6. QED
    BY <1>1, <1>2, <1>3, <1>4, <1>5
       DEF IInv, PipeInv, OrderInv, EndInv, CompleteTextIsWhole, Busy, Live

LEMMA StepHolds == IInv /\ [Next]_vars => IInv'
  <1>. SUFFICES ASSUME IInv, [Next]_vars PROVE IInv'
    OBVIOUS
  <1>1. CASE RunStep
    <2>1. TypeOK /\ PipeInv /\ OrderInv /\ EndInv /\ ChainInv /\ CompleteTextIsWhole
      BY DEF IInv
    <2>2. QED
      BY <1>1, <2>1, RunKeeps, RunChains DEF IInv
  <1>2. CASE StreamStep \/ SecondPasses \/ SnapshotFails \/ SubscriptionLost
    BY <1>2, StreamKeeps DEF StreamStep, Served
  <1>3. CASE Receive
    BY <1>3, ReceiveKeeps
  <1>4. CASE Disconnect
    <2>1. Close /\ page' = Fallback /\ UNCHANGED <<serverSide, polls, ask>>
      BY <1>4 DEF Disconnect
    <2>2. QED
      BY <2>1, FallbackKeeps
  <1>5. CASE Poll \/ Ask \/ AskAnswered \/ AskFails
    BY <1>5, PollKeeps, AskKeeps, AskAnsweredKeeps, AskFailsKeeps
  <1>6. CASE \E m \in 0..LastMoment : PollAnswered(m) \/ PollFails(m)
    BY <1>6, PollAnsweredKeeps, PollFailsKeeps
  <1>7. CASE UNCHANGED vars
    <2>1. UNCHANGED <<moment, work, lengths, gaps, conn, page, polls, ask>>
      BY <1>7 DEF vars
    <2>2. LastMoment \in polls' => Quiet
      BY <2>1, PageFacts DEF EndInv
    <2>3. page'.newest = LastMoment /\ ask'.kind # "none" /\ Live(ask'.read) =>
              Quiet /\ page'.state = "none"
      BY <2>1, PageFacts DEF EndInv, Live
    <2>4. QED
      BY <2>1, <2>2, <2>3, PageFacts, SameLine, PageChange
  <1>8. QED
    BY <1>1, <1>2, <1>3, <1>4, <1>5, <1>6, <1>7 DEF Next

\* A text that the page shows as complete is the whole text of the take that was
\* completed, for every size of the queue and of the wire, any number of attempts and of
\* tokens, of lost events and connections, and of requests and polls whose answers come
\* in any order (_stream_once, WorkflowEventBus.publish, stream_workflow_events, page.tsx).
THEOREM CompleteTextsAreWhole == Spec => []CompleteTextIsWhole
  <1>1. Spec => []IInv
    BY InitHolds, StepHolds, PTL DEF Spec
  <1>2. IInv => CompleteTextIsWhole
    BY DEF IInv
  <1>3. QED
    BY <1>1, <1>2, PTL

=============================================================================
