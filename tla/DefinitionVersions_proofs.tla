----------------------- MODULE DefinitionVersions_proofs -----------------------
(* What viewers see of a definition was validated, and while saves do not overlap *)
(* every version keeps its content and its origin, for any number of clients,     *)
(* drafts and requests. What validation and compilation compute of a graph is     *)
(* right for a draft of any size: the searches, the order, the gates, the steps.  *)
EXTENDS DefinitionVersions, FiniteSetTheorems, SequenceTheorems, TLAPS

-----------------------------------------------------------------------------
(* What is bounded ends: a set of numbers has a smallest member and, under a     *)
(* bound, a largest one; what holds at 0 and at each next number holds up to the *)
(* bound; a function defined from each number to the next one is there; and a    *)
(* chain of growing sets stops after as many steps as it can find members.       *)

LEMMA HasSmallest ==
    ASSUME NEW T \in SUBSET Nat, T # {}
    PROVE  \E m \in T : \A x \in T : m <= x
  <1>. DEFINE R == OpToRel(<, Nat)
  <1>1. IsWellFoundedOn(R, Nat)
    BY NatLessThanWellFounded
  <1>2. \A x, y \in Nat : x < y => <<x, y>> \in R
    BY DEF OpToRel
  <1>. HIDE DEF R
  <1>3. PICK m \in T : \A y \in T : ~ (<<y, m>> \in R)
    BY <1>1, WFMin
  <1>4. \A y \in T : y \in Nat /\ m \in Nat /\ ~ (y < m)
    BY <1>2, <1>3
  <1>5. QED
    BY <1>4

LEMMA HasLargest ==
    ASSUME NEW S \in SUBSET Nat, NEW n \in Nat, S # {}, \A s \in S : s <= n
    PROVE  \E m \in S : \A s \in S : s <= m
  <1>. DEFINE T == {n - s : s \in S}
  <1>1. T \in SUBSET Nat /\ T # {}
    <2>1. \A s \in S : n - s \in Nat /\ n - s \in T
      OBVIOUS
    <2>2. QED
      BY <2>1
  <1>2. PICK x \in T : \A y \in T : x <= y
    <2>. HIDE DEF T
    <2>1. QED
      BY <1>1, HasSmallest
  <1>3. PICK m \in S : x = n - m
    OBVIOUS
  <1>4. \A s \in S : n - m <= n - s /\ s \in Nat /\ m \in Nat
    BY <1>2, <1>3
  <1>5. QED
    BY <1>4

\* Induction over the numbers up to n, for a property given as a set.
LEMMA HoldsUpTo ==
    ASSUME NEW n \in Nat, NEW P, 0 \in P, \A k \in 1..n : k - 1 \in P => k \in P
    PROVE  \A k \in 0..n : k \in P
  <1>. DEFINE T == {k \in 0..n : k \notin P}
  <1>1. SUFFICES ASSUME T # {} PROVE FALSE
    OBVIOUS
  <1>2. PICK m \in T : \A x \in T : m <= x
    <2>1. T \in SUBSET Nat
      OBVIOUS
    <2>. HIDE DEF T
    <2>2. QED
      BY <1>1, <2>1, HasSmallest
  <1>3. m \in 1..n /\ m - 1 \in 0..n /\ ~ (m <= m - 1)
    OBVIOUS
  <1>4. m - 1 \in P
    BY <1>2, <1>3
  <1>5. QED
    BY <1>3, <1>4

\* The ends of finitely many edges, and the members of a sequence, are finite.
LEMMA FiniteEnds ==
    ASSUME NEW edges, IsFiniteSet(edges)
    PROVE  /\ IsFiniteSet({e[2] : e \in edges})
           /\ Cardinality({e[2] : e \in edges}) <= Cardinality(edges)
  <1>. DEFINE T == {e[2] : e \in edges}
  <1>1. PICK f : f = [e \in edges |-> e[2]]
    OBVIOUS
  <1>2. f \in Surjection(edges, T)
    BY <1>1 DEF Surjection
  <1>. HIDE DEF T
  <1>3. IsFiniteSet(T) /\ Cardinality(T) <= Cardinality(edges)
    BY <1>2, FS_Surjection
  <1>4. QED
    BY <1>3 DEF T

LEMMA FiniteBackwards ==
    ASSUME NEW edges, IsFiniteSet(edges)
    PROVE  IsFiniteSet({<<e[2], e[1]>> : e \in edges})
  <1>. DEFINE T == {<<e[2], e[1]>> : e \in edges}
  <1>1. PICK f : f = [e \in edges |-> <<e[2], e[1]>>]
    OBVIOUS
  <1>2. f \in Surjection(edges, T)
    BY <1>1 DEF Surjection
  <1>. HIDE DEF T
  <1>3. IsFiniteSet(T)
    BY <1>2, FS_Surjection
  <1>4. QED
    BY <1>3 DEF T

LEMMA FiniteRange ==
    ASSUME NEW f, NEW n \in Nat, f = [i \in 1..n |-> f[i]]
    PROVE  /\ IsFiniteSet({f[i] : i \in 1..n})
           /\ Cardinality({f[i] : i \in 1..n}) <= n
           /\ Cardinality({f[i] : i \in 1..n}) = n <=> \A i, j \in 1..n : f[i] = f[j] => i = j
  <1>. DEFINE T == {f[i] : i \in 1..n}
  <1>0. f \in [1..n -> T] /\ \A t \in T : \E i \in 1..n : f[i] = t
    OBVIOUS
  <1>1. f \in Surjection(1..n, T)
    BY <1>0 DEF Surjection
  <1>2. f \in Injection(1..n, T) <=> \A i, j \in 1..n : f[i] = f[j] => i = j
    <2>. HIDE DEF T
    <2>1. QED
      BY <1>0 DEF Injection, IsInjective
  <1>3. IsFiniteSet(1..n) /\ Cardinality(1..n) = n
    BY FS_Interval
  <1>. HIDE DEF T
  <1>4. /\ IsFiniteSet(T) /\ Cardinality(T) <= n
        /\ Cardinality(T) = n <=> f \in Injection(1..n, T)
    BY <1>1, <1>3, FS_Surjection
  <1>5. QED
    BY <1>2, <1>4 DEF T

\* A function defined from its value at 0 and a step from each number to the next.
Stepwise(n, S, b, R, f) ==
    f \in [0..n -> S] /\ f[0] = b /\ \A k \in 1..n : <<k, f[k - 1], f[k]>> \in R

LEMMA RecursionExists ==
    ASSUME NEW n \in Nat, NEW S, NEW b \in S, NEW R,
           \A k \in 1..n : \A x \in S : \E y \in S : <<k, x, y>> \in R
    PROVE  \E f : Stepwise(n, S, b, R, f)
  <1>. DEFINE P == {m \in 0..n : \E f : Stepwise(m, S, b, R, f)}
  <1>1. 0 \in P
    <2>1. Stepwise(0, S, b, R, [k \in 0..0 |-> b])
      BY DEF Stepwise
    <2>2. QED
      BY <2>1
  <1>2. ASSUME NEW k \in 1..n, k - 1 \in P PROVE k \in P
    <2>1. PICK f : Stepwise(k - 1, S, b, R, f)
      BY <1>2
    <2>2. f \in [0..(k - 1) -> S] /\ k - 1 \in 0..(k - 1) /\ f[k - 1] \in S
      BY <2>1 DEF Stepwise
    <2>3. PICK y \in S : <<k, f[k - 1], y>> \in R
      BY <2>2
    <2>. DEFINE h == [j \in 0..k |-> IF j = k THEN y ELSE f[j]]
    <2>4. h \in [0..k -> S]
      <3>1. \A j \in 0..k : j # k => j \in 0..(k - 1)
        OBVIOUS
      <3>2. QED
        BY <2>2, <3>1
    <2>5. h[0] = b /\ h[k] = y /\ \A j \in 0..(k - 1) : h[j] = f[j]
      BY <2>1 DEF Stepwise
    <2>6. ASSUME NEW j \in 1..k PROVE <<j, h[j - 1], h[j]>> \in R
      <3>1. CASE j = k
        BY <2>2, <2>3, <2>5, <3>1
      <3>2. CASE j # k
        <4>1. j \in 0..(k - 1) /\ j - 1 \in 0..(k - 1) /\ j \in 1..(k - 1)
          BY <3>2
        <4>2. QED
          BY <2>1, <2>5, <4>1 DEF Stepwise
      <3>3. QED
        BY <3>1, <3>2
    <2>. HIDE DEF h
    <2>7. Stepwise(k, S, b, R, h)
      BY <2>4, <2>5, <2>6 DEF Stepwise
    <2>8. QED
      BY <2>7
  <1>3. n \in P
    <2>. HIDE DEF P
    <2>1. QED
      BY <1>1, <1>2, HoldsUpTo
  <1>4. QED
    BY <1>3

\* Its values are where each step leads.
LEMMA RecursionTyped ==
    ASSUME NEW n \in Nat, NEW S, NEW f, f = [k \in 0..n |-> f[k]], f[0] \in S,
           \A k \in 1..n : f[k - 1] \in S => f[k] \in S
    PROVE  f \in [0..n -> S]
  <1>. DEFINE P == {k \in 0..n : f[k] \in S}
  <1>1. 0 \in P /\ \A k \in 1..n : k - 1 \in P => k \in P
    OBVIOUS
  <1>2. \A k \in 0..n : k \in P
    <2>. HIDE DEF P
    <2>1. QED
      BY <1>1, HoldsUpTo
  <1>3. QED
    BY <1>2

\* Sets that grow with every step until they stop, and find no more than T.
LEMMA ChainStops ==
    ASSUME NEW n \in Nat, NEW T, IsFiniteSet(T), Cardinality(T) <= n, NEW f, NEW Stop,
           \A k \in 0..n : f[k] \subseteq f[0] \cup T,
           \A k \in 1..n : f[k - 1] \subseteq f[k],
           \A k \in 1..n : k - 1 \in Stop => k \in Stop,
           \A k \in 1..n : k - 1 \notin Stop => f[k] # f[k - 1],
           f[n] = f[0] \cup T => n \in Stop
    PROVE  n \in Stop
  <1>. DEFINE New(k) == f[k] \ f[0]
              P == {k \in 0..n : f[0] \subseteq f[k] /\ (k \in Stop \/ Cardinality(New(k)) >= k)}
  <1>1. \A k \in 0..n : IsFiniteSet(New(k)) /\ Cardinality(New(k)) \in Nat /\ New(k) \in SUBSET T
    <2>1. \A k \in 0..n : New(k) \in SUBSET T
      OBVIOUS
    <2>. HIDE DEF New
    <2>2. QED
      BY <2>1, FS_Subset, FS_CardinalityType
  <1>2. 0 \in P
    <2>. HIDE DEF New
    <2>1. 0 \in 0..n /\ Cardinality(New(0)) >= 0
      BY <1>1
    <2>2. QED
      BY <2>1
  <1>3. ASSUME NEW k \in 1..n, k - 1 \in P PROVE k \in P
    <2>1. k - 1 \in 0..n /\ k \in 0..n /\ f[k - 1] \subseteq f[k]
      OBVIOUS
    <2>2. f[0] \subseteq f[k] /\ New(k - 1) \subseteq New(k)
      BY <1>3, <2>1
    <2>3. CASE k - 1 \in Stop
      BY <2>1, <2>2, <2>3
    <2>4. CASE k - 1 \notin Stop /\ Cardinality(New(k - 1)) >= k - 1
      <3>0. f[k] # f[k - 1]
        BY <2>4
      <3>1. PICK x \in f[k] : x \notin f[k - 1]
        BY <2>1, <3>0
      <3>2. x \in New(k) /\ x \notin New(k - 1)
        BY <1>3, <3>1
      <3>3. New(k - 1) # New(k)
        BY <3>2
      <3>4. Cardinality(New(k - 1)) <= Cardinality(New(k))
            /\ Cardinality(New(k)) # Cardinality(New(k - 1))
        <4>1. New(k - 1) \in SUBSET New(k)
          BY <2>2
        <4>. HIDE DEF New
        <4>2. QED
          BY <1>1, <2>1, <3>3, <4>1, FS_Subset
      <3>5. Cardinality(New(k)) >= k
        <4>. HIDE DEF New
        <4>1. QED
          BY <1>1, <2>1, <2>4, <3>4
      <3>6. QED
        BY <2>1, <2>2, <3>5
    <2>5. QED
      BY <1>3, <2>3, <2>4
  <1>4. n \in P
    <2>. HIDE DEF P
    <2>1. QED
      BY <1>2, <1>3, HoldsUpTo
  <1>5. CASE Cardinality(New(n)) >= n
    <2>1. Cardinality(New(n)) <= Cardinality(T) /\ (Cardinality(T) = Cardinality(New(n)) => T = New(n))
      <3>. HIDE DEF New
      <3>1. QED
        BY <1>1, FS_Subset
    <2>2. Cardinality(T) \in Nat
      BY FS_CardinalityType
    <2>3. T = New(n)
      <3>. HIDE DEF New
      <3>1. QED
        BY <1>1, <1>5, <2>1, <2>2
    <2>4. f[n] = f[0] \cup T
      BY <1>4, <2>3
    <2>5. QED
      BY <2>4
  <1>6. QED
    BY <1>4, <1>5

-----------------------------------------------------------------------------
(* Finding the newest snapshot. *)

\* Versions without a bound would have no newest one.
BoundedBy(all, B) == \A s \in DOMAIN all : all[s].version <= B

LEMMA SnapshotsShape ==
    ASSUME NEW all \in Seq(Snapshot)
    PROVE  /\ DOMAIN all = 1..Len(all) /\ Len(all) \in Nat
           /\ \A s \in DOMAIN all : all[s] \in Snapshot /\ all[s].version \in Nat /\ s \in Nat /\ s # 0
  <1>1. DOMAIN all = 1..Len(all) /\ Len(all) \in Nat
    BY LenProperties
  <1>2. \A s \in 1..Len(all) : all[s] \in Snapshot
    BY ElementOfSeq
  <1>3. \A x \in Snapshot : x.version \in Nat
    BY DEF Snapshot
  <1>4. QED
    BY <1>1, <1>2, <1>3

LEMMA NewestFound ==
    ASSUME NEW all \in Seq(Snapshot), NEW B \in Nat, BoundedBy(all, B),
           NEW S \in SUBSET DOMAIN all
    PROVE  /\ S = {} => Newest(all, S) = 0
           /\ S # {} => /\ Newest(all, S) \in S
                        /\ \A t \in S : all[Newest(all, S)].version >= all[t].version
  <1>1. CASE S = {}
    BY <1>1 DEF Newest
  <1>2. CASE S # {}
    <2>. DEFINE V == {all[s].version : s \in S}
    <2>1. V \in SUBSET Nat /\ V # {} /\ \A v \in V : v <= B
      BY <1>2, SnapshotsShape DEF BoundedBy
    <2>2. PICK m \in V : \A v \in V : v <= m
      <3>. HIDE DEF V
      <3>1. QED
        BY <2>1, HasLargest
    <2>. DEFINE T == {s \in S : all[s].version = m}
    <2>3. T \in SUBSET Nat /\ T # {} /\ \A s \in T : s <= Len(all)
      BY SnapshotsShape
    <2>4. PICK n \in T : \A s \in T : s <= n
      <3>. HIDE DEF T
      <3>1. QED
        BY <2>3, HasLargest, SnapshotsShape
    <2>5. n \in S /\ \A t \in S : \/ all[n].version > all[t].version
                                  \/ all[n].version = all[t].version /\ n >= t
      <3>1. n \in S /\ all[n].version = m /\ m \in Nat /\ n \in Nat
        BY SnapshotsShape
      <3>2. ASSUME NEW t \in S
            PROVE  \/ all[n].version > all[t].version
                   \/ all[n].version = all[t].version /\ n >= t
        <4>1. all[t].version \in Nat /\ t \in Nat /\ all[t].version <= m
          BY <2>2, SnapshotsShape
        <4>2. all[t].version = m => t <= n
          BY <2>4
        <4>3. QED
          BY <3>1, <4>1, <4>2
      <3>3. QED
        BY <3>1, <3>2
    <2>6. /\ Newest(all, S) \in S
          /\ \A t \in S : \/ all[Newest(all, S)].version > all[t].version
                          \/ all[Newest(all, S)].version = all[t].version /\ Newest(all, S) >= t
      <3>. DEFINE Q(s) == \A t \in S : \/ all[s].version > all[t].version
                                       \/ all[s].version = all[t].version /\ s >= t
      <3>1. Newest(all, S) = CHOOSE s \in S : Q(s)
        BY <1>2 DEF Newest
      <3>2. n \in S /\ Q(n)
        BY <2>5
      <3>. HIDE DEF Q
      <3>3. Newest(all, S) \in S /\ Q(Newest(all, S))
        BY <3>1, <3>2
      <3>4. QED
        BY <3>3 DEF Q
    <2>. HIDE DEF V, T
    <2>7. \A s \in S : all[s].version \in Nat
      BY SnapshotsShape
    <2>8. QED
      BY <1>2, <2>6, <2>7
  <1>3. QED
    BY <1>1, <1>2

LEMMA SnapshotOfFound ==
    ASSUME NEW all \in Seq(Snapshot), NEW B \in Nat, BoundedBy(all, B), NEW v
    PROVE  /\ SnapshotOf(all, v) \in Nat
           /\ SnapshotOf(all, v) = 0 => \A s \in DOMAIN all : all[s].version # v
           /\ SnapshotOf(all, v) # 0 => /\ SnapshotOf(all, v) \in DOMAIN all
                                        /\ all[SnapshotOf(all, v)].version = v
  <1>. DEFINE S == {s \in DOMAIN all : all[s].version = v}
  <1>1. S \in SUBSET DOMAIN all /\ SnapshotOf(all, v) = Newest(all, S)
    BY DEF SnapshotOf
  <1>2. /\ S = {} => Newest(all, S) = 0
        /\ S # {} => Newest(all, S) \in S
    <2>. HIDE DEF S
    <2>1. QED
      BY <1>1, NewestFound
  <1>3. QED
    BY <1>1, <1>2, SnapshotsShape

-----------------------------------------------------------------------------
(* What a session may rely on, and what a snapshot keeps when it is touched. *)

\* What was published holds a validated content, and so does a snapshot of a row
\* published before versions were kept.
Sound(s) == s.type = "publish" \/ s.legacy => Publishable(s.content)

AllSound(all) == \A s \in DOMAIN all : Sound(all[s])

Valid(all, i) == i \in DOMAIN all /\ Publishable(all[i].content)

\* Snapshots stay, and their contents change to validated ones only.
Kept(all, new) ==
    /\ DOMAIN all \subseteq DOMAIN new
    /\ \A s \in DOMAIN all :
           /\ new[s].version = all[s].version /\ new[s].legacy = all[s].legacy
           /\ new[s].content = all[s].content \/ Publishable(new[s].content)

\* Without overlapping saves their contents and origins do not change at all.
Grown(all, new) ==
    /\ DOMAIN all \subseteq DOMAIN new
    /\ \A s \in DOMAIN all : /\ new[s].version = all[s].version
                             /\ new[s].content = all[s].content /\ new[s].from = all[s].from

\* What _ensure_snapshot makes of the snapshots.
Ensured(all, id, loaded, new, force, e) ==
    /\ id = 0 => /\ DOMAIN e = DOMAIN all \cup {Len(all) + 1}
                 /\ Len(all) + 1 \notin DOMAIN all /\ Len(e) = Len(all) + 1
                 /\ \A s \in DOMAIN all : e[s] = all[s]
                 /\ e[Len(all) + 1] = new
    /\ id # 0 => /\ DOMAIN e = DOMAIN all /\ Len(e) = Len(all)
                 /\ \A s \in DOMAIN all \ {id} : e[s] = all[s]
                 /\ e[id].version = all[id].version /\ e[id].legacy = all[id].legacy
                 /\ e[id].from = new.from
                 /\ ~(force /\ new.content # loaded.content) => e[id].content = all[id].content
                 /\ force /\ new.content # loaded.content => e[id].content = new.content
                 /\ e[id].type = "publish" => "publish" \in {new.type, all[id].type}

LEMMA EnsureShape ==
    ASSUME NEW all \in Seq(Snapshot), NEW id \in {0} \cup DOMAIN all, NEW loaded,
           id # 0 => loaded \in Snapshot, NEW new \in Snapshot, NEW force \in BOOLEAN,
           NEW e, e = Ensure(all, id, loaded, new, force)
    PROVE  e \in Seq(Snapshot) /\ Ensured(all, id, loaded, new, force, e)
  <1>1. CASE id = 0
    <2>1. e = Append(all, new)
      BY <1>1 DEF Ensure
    <2>2. /\ e \in Seq(Snapshot) /\ Len(e) = Len(all) + 1
          /\ \A s \in 1..Len(all) : e[s] = all[s]
          /\ e[Len(all) + 1] = new
      BY <2>1, AppendProperties
    <2>3. DOMAIN e = 1..Len(e) /\ DOMAIN all = 1..Len(all) /\ Len(all) \in Nat
      BY <2>2, SnapshotsShape
    <2>4. DOMAIN e = DOMAIN all \cup {Len(all) + 1} /\ Len(all) + 1 \notin DOMAIN all
      BY <2>2, <2>3, SMTT(60)
    <2>5. QED
      BY <1>1, <2>2, <2>3, <2>4 DEF Ensured
  <1>2. CASE id # 0
    <2>1. id \in DOMAIN all /\ all[id] \in Snapshot /\ loaded \in Snapshot
      BY <1>2, SnapshotsShape
    <2>2. PICK type : type = IF loaded.type # "publish" \/ new.type = "publish"
                             THEN new.type ELSE loaded.type
      OBVIOUS
    <2>3. PICK t : t = IF type # loaded.type THEN type ELSE all[id].type
      OBVIOUS
    <2>4. PICK d : d = IF force /\ new.content # loaded.content THEN new.content ELSE all[id].content
      OBVIOUS
    <2>5. PICK x : x = [all[id] EXCEPT !.type = t, !.content = d, !.from = new.from]
      OBVIOUS
    <2>6. e = [all EXCEPT ![id] = x]
      <3>1. e = [all EXCEPT ![id].type = t, ![id].content = d, ![id].from = new.from]
        BY <1>2, <2>2, <2>3, <2>4 DEF Ensure
      <3>2. QED
        BY <2>1, <2>5, <3>1
    <2>7. t \in Types /\ d \in Drafts /\ new.from \in Nat
      BY <2>1, <2>2, <2>3, <2>4 DEF Snapshot
    <2>8. t = "publish" => "publish" \in {new.type, all[id].type}
      BY <2>2, <2>3
    <2>9. /\ x \in Snapshot /\ x.version = all[id].version /\ x.legacy = all[id].legacy
          /\ x.type = t /\ x.content = d /\ x.from = new.from
      BY <2>1, <2>5, <2>7 DEF Snapshot
    <2>10. /\ e \in Seq(Snapshot) /\ DOMAIN e = DOMAIN all /\ Len(e) = Len(all)
           /\ e[id] = x /\ \A s \in DOMAIN all \ {id} : e[s] = all[s]
      BY <2>1, <2>6, <2>9, ExceptSeq, SnapshotsShape
    <2>11. QED
      BY <1>2, <2>4, <2>8, <2>9, <2>10 DEF Ensured
  <1>3. QED
    BY <1>1, <1>2

LEMMA EnsureSound ==
    ASSUME NEW all \in Seq(Snapshot), NEW id \in {0} \cup DOMAIN all, NEW loaded,
           id # 0 => loaded \in Snapshot, NEW new \in Snapshot, NEW force \in BOOLEAN,
           NEW e, e = Ensure(all, id, loaded, new, force),
           AllSound(all), ~new.legacy,
           new.type = "publish" => force,
           force => Publishable(new.content),
           id # 0 => all[id].content = loaded.content \/ Publishable(all[id].content)
    PROVE  /\ AllSound(e) /\ Kept(all, e)
           /\ force => Valid(e, IF id = 0 THEN Len(all) + 1 ELSE id)
  <1>0. Ensured(all, id, loaded, new, force, e)
    BY EnsureShape
  <1>1. CASE id = 0
    <2>1. /\ DOMAIN e = DOMAIN all \cup {Len(all) + 1}
          /\ \A s \in DOMAIN all : e[s] = all[s]
          /\ e[Len(all) + 1] = new
      BY <1>0, <1>1 DEF Ensured
    <2>2. Sound(new)
      BY DEF Sound
    <2>3. QED
      BY <1>1, <2>1, <2>2 DEF AllSound, Kept, Valid
  <1>2. CASE id # 0
    <2>1. /\ DOMAIN e = DOMAIN all
          /\ \A s \in DOMAIN all \ {id} : e[s] = all[s]
          /\ e[id].version = all[id].version /\ e[id].legacy = all[id].legacy
          /\ ~(force /\ new.content # loaded.content) => e[id].content = all[id].content
          /\ force /\ new.content # loaded.content => e[id].content = new.content
          /\ e[id].type = "publish" => "publish" \in {new.type, all[id].type}
      BY <1>0, <1>2 DEF Ensured
    <2>2. id \in DOMAIN all /\ Sound(all[id])
      BY <1>2 DEF AllSound
    <2>3. e[id].content = all[id].content \/ Publishable(e[id].content)
      BY <2>1
    <2>4. force => Publishable(e[id].content)
      BY <1>2, <2>1
    <2>5. Sound(e[id])
      BY <2>1, <2>2, <2>3, <2>4 DEF Sound
    <2>6. QED
      BY <1>2, <2>1, <2>2, <2>3, <2>4, <2>5, SMTT(60) DEF AllSound, Kept, Valid
  <1>3. QED
    BY <1>1, <1>2

LEMMA EnsureGrows ==
    ASSUME NEW all \in Seq(Snapshot), NEW id \in {0} \cup DOMAIN all, NEW loaded,
           id # 0 => loaded \in Snapshot, NEW new \in Snapshot, NEW force \in BOOLEAN,
           NEW e, e = Ensure(all, id, loaded, new, force),
           id # 0 => new.from = all[id].from /\ (force => new.content = all[id].content)
    PROVE  Grown(all, e)
  <1>0. Ensured(all, id, loaded, new, force, e)
    BY EnsureShape
  <1>1. CASE id = 0
    BY <1>0, <1>1 DEF Ensured, Grown
  <1>2. CASE id # 0
    <2>1. /\ DOMAIN e = DOMAIN all
          /\ \A s \in DOMAIN all \ {id} : e[s] = all[s]
          /\ e[id].version = all[id].version /\ e[id].from = new.from
          /\ ~(force /\ new.content # loaded.content) => e[id].content = all[id].content
          /\ force /\ new.content # loaded.content => e[id].content = new.content
      BY <1>0, <1>2 DEF Ensured
    <2>2. e[id].content = all[id].content
      BY <1>2, <2>1
    <2>3. QED
      BY <1>2, <2>1, <2>2, SMTT(60) DEF Grown
  <1>3. QED
    BY <1>1, <1>2

LEMMA SnapType ==
    ASSUME NEW v \in Nat, NEW d \in Drafts, NEW t \in Types, NEW from \in Nat
    PROVE  /\ Snap(v, d, t, from) \in Snapshot /\ Snap(v, d, t, from).version = v
           /\ Snap(v, d, t, from).content = d /\ Snap(v, d, t, from).type = t
           /\ Snap(v, d, t, from).from = from /\ ~Snap(v, d, t, from).legacy
  BY DEF Snap, Snapshot

\* What the second _ensure_snapshot of a save or a restore makes of them.
NextEnsured(all, v, d, from, e) ==
    /\ (\A s \in DOMAIN all : all[s].version # v) =>
           /\ Grown(all, e) /\ DOMAIN e = DOMAIN all \cup {Len(all) + 1}
           /\ e[Len(all) + 1] = Snap(v, d, "draft", from)
    /\ \A s \in DOMAIN e \ DOMAIN all : e[s].version = v
    /\ \A s \in DOMAIN all : e[s].content = all[s].content

LEMMA EnsureNextSound ==
    ASSUME NEW all \in Seq(Snapshot), NEW B \in Nat, BoundedBy(all, B), AllSound(all),
           NEW v \in Nat, NEW d \in Drafts, NEW from \in Nat,
           NEW e, e = EnsureNext(all, v, d, from)
    PROVE  /\ e \in Seq(Snapshot) /\ AllSound(e) /\ Kept(all, e)
           /\ NextEnsured(all, v, d, from, e)
  <1>1. PICK id : id = SnapshotOf(all, v)
    OBVIOUS
  <1>2. /\ id \in Nat
        /\ id = 0 => \A s \in DOMAIN all : all[s].version # v
        /\ id # 0 => id \in DOMAIN all /\ all[id].version = v
    BY <1>1, SnapshotOfFound
  <1>3. PICK new \in Snapshot : /\ new = Snap(v, d, "draft", from)
                                /\ new.version = v /\ new.content = d /\ new.type = "draft"
                                /\ new.from = from /\ ~new.legacy
    BY SnapType DEF Types
  <1>4. PICK loaded : loaded = IF id = 0 THEN 0 ELSE all[id]
    OBVIOUS
  <1>5. e = Ensure(all, id, loaded, new, FALSE)
    BY <1>1, <1>3, <1>4 DEF EnsureNext
  <1>6. id # 0 => loaded \in Snapshot /\ all[id].content = loaded.content
    BY <1>2, <1>4, SnapshotsShape
  <1>7. id \in {0} \cup DOMAIN all
    BY <1>2
  <1>8. /\ e \in Seq(Snapshot)
        /\ id = 0 => /\ DOMAIN e = DOMAIN all \cup {Len(all) + 1}
                     /\ e[Len(all) + 1] = new
        /\ id # 0 => DOMAIN e = DOMAIN all
        /\ \A s \in DOMAIN all : e[s].content = all[s].content
    <2>1. e \in Seq(Snapshot) /\ Ensured(all, id, loaded, new, FALSE, e)
      BY <1>5, <1>6, <1>7, EnsureShape
    <2>2. QED
      BY <2>1 DEF Ensured
  <1>9. AllSound(e) /\ Kept(all, e)
    BY <1>3, <1>5, <1>6, <1>7, EnsureSound
  <1>10. id = 0 => Grown(all, e)
    BY <1>3, <1>5, <1>7, EnsureGrows
  <1>11. QED
    BY <1>2, <1>3, <1>8, <1>9, <1>10 DEF NextEnsured

LEMMA KeptTwice ==
    ASSUME NEW a, NEW b, NEW d, Kept(a, b), Kept(b, d)
    PROVE  Kept(a, d)
  BY DEF Kept

LEMMA KeptSame == \A all : Kept(all, all)
  BY DEF Kept

-----------------------------------------------------------------------------
(* What viewers see. *)

Active(s) == s.pc \in {"find", "resolve", "commit"}

SessionSound(all, s) ==
    /\ Active(s) => s.read \in Row /\ (s.read.pointer # 0 => Valid(all, s.read.pointer))
    /\ s.pc = "resolve" /\ DOMAIN all = {} => Publishable(s.read.content)
    /\ s.pc \in {"find", "commit"} =>
           /\ s.op = "save" => s.arg \in Drafts
           /\ s.op = "restore" => s.arg.content \in Drafts /\ s.arg.id \in Nat
           /\ s.op = "publish" => Publishable(s.read.content)
    /\ s.pc = "commit" =>
           /\ s.id \in {0} \cup DOMAIN all
           /\ s.id # 0 => /\ s.loaded \in Snapshot
                          /\ \/ all[s.id].content = s.loaded.content
                             \/ Publishable(all[s.id].content)

TypeInv ==
    /\ row \in Row /\ snaps \in Seq(Snapshot) /\ saved \in Seq(Drafts) /\ overlapped \in BOOLEAN
    /\ session = [c \in Clients |-> session[c]]

ViewInv ==
    /\ AllSound(snaps)
    /\ row.pointer # 0 => Valid(snaps, row.pointer)
    /\ DOMAIN snaps = {} /\ row.published => Publishable(row.content)
    /\ \A c \in Clients : SessionSound(snaps, session[c])
    /\ ViewersSeeValidated

BoundInv ==
    \E B \in Nat : /\ BoundedBy(snaps, B) /\ row.version <= B
                   /\ \A c \in Clients : Active(session[c]) => session[c].read.version <= B

LEMMA SessionStays ==
    ASSUME NEW all \in Seq(Snapshot), NEW new \in Seq(Snapshot), Kept(all, new),
           NEW s, SessionSound(all, s)
    PROVE  SessionSound(new, s)
  <1>1. DOMAIN new = {} => DOMAIN all = {}
    BY DEF Kept
  <1>2. \A i : Valid(all, i) => Valid(new, i)
    BY DEF Kept, Valid
  <1>3. \A i \in DOMAIN all : /\ i \in DOMAIN new
                              /\ \/ new[i].content = all[i].content
                                 \/ Publishable(new[i].content)
    BY DEF Kept
  <1>4. QED
    BY <1>1, <1>2, <1>3 DEF SessionSound

LEMMA IdleSound == \A all : SessionSound(all, Idle) /\ ~Active(Idle)
  BY DEF SessionSound, Idle, Active

\* A request has ended.
LEMMA Finished ==
    ASSUME TypeInv, ViewInv, BoundInv, NEW c \in Clients, Finish(c),
           row' \in Row, snaps' \in Seq(Snapshot), saved' \in Seq(Drafts), overlapped' \in BOOLEAN,
           AllSound(snaps'), Kept(snaps, snaps'),
           row'.pointer = row.pointer \/ Valid(snaps', row'.pointer),
           DOMAIN snaps' = {} /\ row'.published => Publishable(row'.content),
           \A B \in Nat : BoundedBy(snaps, B) /\ row.version <= B /\ session[c].read.version <= B =>
               BoundedBy(snaps', B + 1) /\ row'.version <= B + 1,
           Active(session[c]), ViewersSeeValidated'
    PROVE  TypeInv' /\ ViewInv' /\ BoundInv'
  <1>1. \A d \in Clients : session'[d] = IF d = c THEN Idle ELSE session[d]
    BY DEF Finish, TypeInv
  <1>2. session' = [d \in Clients |-> session'[d]]
    BY DEF Finish, TypeInv
  <1>3. \A d \in Clients : SessionSound(snaps', session'[d])
    BY <1>1, SessionStays, IdleSound DEF TypeInv, ViewInv
  <1>4. row'.pointer # 0 => Valid(snaps', row'.pointer)
    BY DEF ViewInv, Valid, Kept
  <1>5. BoundInv'
    <2>1. PICK B \in Nat : /\ BoundedBy(snaps, B) /\ row.version <= B
                           /\ \A d \in Clients : Active(session[d]) => session[d].read.version <= B
      BY DEF BoundInv
    <2>2. B + 1 \in Nat /\ BoundedBy(snaps', B + 1) /\ row'.version <= B + 1
      BY <2>1
    <2>3. ASSUME NEW d \in Clients, Active(session'[d]) PROVE session'[d].read.version <= B + 1
      <3>1. session'[d] = session[d] /\ Active(session[d])
        BY <1>1, <2>3, IdleSound
      <3>2. session[d].read.version \in Nat
        BY <3>1 DEF ViewInv, SessionSound, Row
      <3>3. QED
        BY <2>1, <3>1, <3>2
    <2>4. QED
      BY <2>2, <2>3 DEF BoundInv
  <1>6. QED
    BY <1>2, <1>3, <1>4, <1>5 DEF TypeInv, ViewInv

\* A request has read something.
LEMMA Reads ==
    ASSUME TypeInv, ViewInv, BoundInv, NEW c \in Clients, NEW s,
           session' = [session EXCEPT ![c] = s], UNCHANGED <<row, snaps, runs, served, saved, overlapped>>,
           SessionSound(snaps, s), s.read = row \/ (Active(session[c]) /\ s.read = session[c].read)
    PROVE  TypeInv' /\ ViewInv' /\ BoundInv'
  <1>1. \A d \in Clients : session'[d] = IF d = c THEN s ELSE session[d]
    BY DEF TypeInv
  <1>2. session' = [d \in Clients |-> session'[d]]
    BY DEF TypeInv
  <1>3. \A d \in Clients : SessionSound(snaps', session'[d])
    BY <1>1 DEF ViewInv
  <1>4. BoundInv'
    <2>1. PICK B \in Nat : /\ BoundedBy(snaps, B) /\ row.version <= B
                           /\ \A d \in Clients : Active(session[d]) => session[d].read.version <= B
      BY DEF BoundInv
    <2>2. \A d \in Clients : Active(session'[d]) => session'[d].read.version <= B
      BY <1>1, <2>1
    <2>3. BoundedBy(snaps', B) /\ row'.version <= B
      BY <2>1 DEF BoundedBy
    <2>4. QED
      BY <2>2, <2>3 DEF BoundInv
  <1>5. QED
    BY <1>2, <1>3, <1>4 DEF TypeInv, ViewInv, ViewersSeeValidated

LEMMA ViewOfBegin ==
    ASSUME TypeInv, ViewInv, BoundInv, NEW c \in Clients,
           BeginSave(c) \/ BeginPublish(c) \/ BeginRestore(c) \/ BeginView(c)
    PROVE  TypeInv' /\ ViewInv' /\ BoundInv'
  <1>1. row \in Row /\ (row.pointer # 0 => Valid(snaps, row.pointer))
    BY DEF TypeInv, ViewInv
  <1>2. ASSUME NEW s, Begin(c, s), s.read = row, SessionSound(snaps, s)
        PROVE  TypeInv' /\ ViewInv' /\ BoundInv'
    BY <1>2, Reads DEF Begin
  <1>3. CASE BeginSave(c)
    <2>1. PICK d \in Drafts : Begin(c, [pc |-> "find", op |-> "save", read |-> row, arg |-> d])
      BY <1>3 DEF BeginSave
    <2>2. SessionSound(snaps, [pc |-> "find", op |-> "save", read |-> row, arg |-> d])
      BY <1>1 DEF SessionSound
    <2>3. QED
      BY <1>2, <2>1, <2>2
  <1>4. CASE BeginPublish(c)
    <2>1. /\ Publishable(row.content)
          /\ Begin(c, [pc |-> "find", op |-> "publish", read |-> row, arg |-> 0])
      BY <1>4 DEF BeginPublish
    <2>2. SessionSound(snaps, [pc |-> "find", op |-> "publish", read |-> row, arg |-> 0])
      BY <1>1, <2>1 DEF SessionSound
    <2>3. QED
      BY <1>2, <2>1, <2>2
  <1>5. CASE BeginRestore(c)
    <2>1. PICK s \in DOMAIN snaps :
             Begin(c, [pc |-> "find", op |-> "restore", read |-> row,
                       arg |-> [id |-> s, content |-> snaps[s].content]])
      BY <1>5 DEF BeginRestore
    <2>2. s \in Nat /\ snaps[s].content \in Drafts
      BY SnapshotsShape DEF TypeInv, Snapshot
    <2>3. SessionSound(snaps, [pc |-> "find", op |-> "restore", read |-> row,
                               arg |-> [id |-> s, content |-> snaps[s].content]])
      BY <1>1, <2>2 DEF SessionSound
    <2>4. QED
      BY <1>2, <2>1, <2>3
  <1>6. CASE BeginView(c)
    <2>1. /\ Begin(c, [pc |-> "resolve", op |-> "view", read |-> row, arg |-> 0])
          /\ row.published
      BY <1>6 DEF BeginView, Begin, Visible
    <2>2. DOMAIN snaps = {} => Publishable(row.content)
      BY <2>1 DEF ViewInv
    <2>3. SessionSound(snaps, [pc |-> "resolve", op |-> "view", read |-> row, arg |-> 0])
      BY <1>1, <2>2 DEF SessionSound
    <2>4. QED
      BY <1>2, <2>1, <2>3
  <1>7. QED
    BY <1>3, <1>4, <1>5, <1>6

LEMMA ViewOfFind ==
    ASSUME TypeInv, ViewInv, BoundInv, NEW c \in Clients, FindSnapshot(c)
    PROVE  TypeInv' /\ ViewInv' /\ BoundInv'
  <1>1. PICK s : s = session[c]
    OBVIOUS
  <1>2. s.pc = "find" /\ SessionSound(snaps, s)
    BY <1>1 DEF FindSnapshot, ViewInv
  <1>3. PICK id : id = VersionSnapshot(s.read.version)
    OBVIOUS
  <1>4. id \in {0} \cup DOMAIN snaps
    BY <1>3, SnapshotOfFound DEF VersionSnapshot, BoundInv, TypeInv
  <1>5. PICK loaded : loaded = IF id = 0 THEN 0 ELSE snaps[id]
    OBVIOUS
  <1>6. id # 0 => loaded \in Snapshot /\ loaded = snaps[id]
    BY <1>4, <1>5, SnapshotsShape DEF TypeInv
  <1>7. PICK t : t = [pc |-> "commit", op |-> s.op, read |-> s.read, arg |-> s.arg,
                      id |-> id, loaded |-> loaded]
    OBVIOUS
  <1>8. session' = [session EXCEPT ![c] = t]
    BY <1>1, <1>3, <1>5, <1>7 DEF FindSnapshot, TypeInv
  <1>9. /\ t.pc = "commit" /\ t.op = s.op /\ t.read = s.read /\ t.arg = s.arg
        /\ t.id = id /\ t.loaded = loaded
    BY <1>7
  <1>10. SessionSound(snaps, t)
    BY <1>2, <1>4, <1>6, <1>9 DEF SessionSound, Active
  <1>11. Active(s)
    BY <1>2 DEF Active
  <1>12. QED
    BY <1>1, <1>8, <1>9, <1>10, <1>11, Reads DEF FindSnapshot

\* The first _ensure_snapshot of a commit, for the version that was read.
LEMMA FirstEnsured ==
    ASSUME TypeInv, NEW s, SessionSound(snaps, s), AllSound(snaps), s.pc = "commit",
           NEW type \in Types, NEW force \in BOOLEAN, NEW from \in Nat,
           type = "publish" => force, force => Publishable(s.read.content),
           NEW first, first = Ensure(snaps, s.id, s.loaded,
                                     Snap(s.read.version, s.read.content, type, from), force)
    PROVE  /\ first \in Seq(Snapshot) /\ AllSound(first) /\ Kept(snaps, first) /\ DOMAIN first # {}
           /\ \A B \in Nat : BoundedBy(snaps, B) /\ s.read.version <= B => BoundedBy(first, B)
           /\ force => Valid(first, IF s.id = 0 THEN Len(snaps) + 1 ELSE s.id)
  <1>1. s.read \in Row /\ s.read.version \in Nat /\ s.read.content \in Drafts
    BY DEF SessionSound, Active, Row
  <1>2. PICK new \in Snapshot : /\ new = Snap(s.read.version, s.read.content, type, from)
                                /\ new.version = s.read.version /\ new.content = s.read.content
                                /\ new.type = type /\ ~new.legacy
    BY <1>1, SnapType
  <1>3. PICK id \in {0} \cup DOMAIN snaps : id = s.id
    BY DEF SessionSound
  <1>4. PICK loaded : loaded = s.loaded
    OBVIOUS
  <1>5. /\ id # 0 => loaded \in Snapshot
        /\ id # 0 => snaps[id].content = loaded.content \/ Publishable(snaps[id].content)
    BY <1>3, <1>4 DEF SessionSound
  <1>6. snaps \in Seq(Snapshot) /\ first = Ensure(snaps, id, loaded, new, force)
    BY <1>2, <1>3, <1>4 DEF TypeInv
  <1>7. first \in Seq(Snapshot) /\ Ensured(snaps, id, loaded, new, force, first)
    BY <1>5, <1>6, EnsureShape
  <1>8. /\ AllSound(first) /\ Kept(snaps, first)
        /\ force => Valid(first, IF id = 0 THEN Len(snaps) + 1 ELSE id)
    BY <1>2, <1>5, <1>6, EnsureSound, ZenonT(90)
  <1>9. DOMAIN first # {}
    BY <1>3, <1>7 DEF Ensured
  <1>10. ASSUME NEW B \in Nat, BoundedBy(snaps, B), s.read.version <= B PROVE BoundedBy(first, B)
    BY <1>2, <1>7, <1>10 DEF Ensured, BoundedBy
  <1>11. QED
    BY <1>3, <1>7, <1>8, <1>9, <1>10

LEMMA OneMore == \A a, b \in Nat : a <= b => a <= b + 1 /\ a + 1 <= b + 1
  OBVIOUS

LEMMA ProvenanceType ==
    ASSUME NEW s, SessionSound(snaps, s), s.pc = "commit"
    PROVE  Provenance(s) \in Nat
  BY DEF Provenance, SessionSound, Snapshot

LEMMA Advanced ==
    ASSUME TypeInv, NEW s, s.read \in Row, NEW d \in Drafts, Advance(s, d)
    PROVE  /\ row' \in Row /\ row'.version = s.read.version + 1 /\ row'.pointer = row.pointer
           /\ row'.content = IF d # s.read.content THEN d ELSE row.content
           /\ saved' \in Seq(Drafts) /\ overlapped' \in BOOLEAN
           /\ ~overlapped' => /\ ~overlapped /\ row.version = s.read.version
                              /\ saved' = Append(saved, row'.content)
  <1>1. PICK x : x = IF d # s.read.content THEN d ELSE row.content
    OBVIOUS
  <1>2. x \in Drafts
    BY <1>1 DEF TypeInv, Row
  <1>3. PICK n \in Nat : n = s.read.version + 1
    BY DEF Row
  <1>4. /\ row' \in Row /\ row'.version = s.read.version + 1 /\ row'.content = x
        /\ row'.pointer = row.pointer
    <2>1. row' = [row EXCEPT !.version = n, !.content = x]
      BY <1>1, <1>3 DEF Advance, TypeInv, Row
    <2>2. /\ row' \in Row /\ row'.version = n /\ row'.content = x /\ row'.pointer = row.pointer
      BY <1>2, <2>1 DEF TypeInv, Row
    <2>3. QED
      BY <1>3, <2>2
  <1>5. PICK o \in BOOLEAN : o = (overlapped \/ row.version # s.read.version)
    OBVIOUS
  <1>6. overlapped' = o
    BY <1>5 DEF Advance
  <1>7. saved' = IF overlapped' THEN saved ELSE Append(saved, row'.content)
    BY DEF Advance
  <1>8. row'.content \in Drafts
    BY <1>4 DEF Row
  <1>9. saved' \in Seq(Drafts)
    BY <1>7, <1>8, AppendProperties DEF TypeInv
  <1>10. ASSUME ~overlapped'
         PROVE  ~overlapped /\ row.version = s.read.version /\ saved' = Append(saved, row'.content)
    BY <1>5, <1>6, <1>7, <1>10
  <1>11. QED
    BY <1>1, <1>4, <1>5, <1>6, <1>9, <1>10

\* What a save or a restore writes after the first _ensure_snapshot.
LEMMA ViewOfAdvance ==
    ASSUME TypeInv, ViewInv, BoundInv, NEW c \in Clients, NEW s, s = session[c], s.pc = "commit",
           NEW type \in {"draft", "restore_backup"}, NEW from \in Nat, NEW next \in Nat,
           NEW d \in Drafts,
           NEW first, first = Ensure(snaps, s.id, s.loaded,
                                     Snap(s.read.version, s.read.content, type, from), FALSE),
           \/ snaps' = first
           \/ snaps' = EnsureNext(first, s.read.version + 1, d, next),
           Advance(s, d), Finish(c), UNCHANGED <<runs, served>>
    PROVE  TypeInv' /\ ViewInv' /\ BoundInv'
  <1>1. SessionSound(snaps, s) /\ AllSound(snaps)
    BY DEF ViewInv
  <1>2. s.read \in Row /\ s.read.version \in Nat /\ Active(s)
    BY <1>1 DEF SessionSound, Active, Row
  <1>3. type \in Types /\ type # "publish"
    BY DEF Types
  <1>4. /\ first \in Seq(Snapshot) /\ AllSound(first) /\ Kept(snaps, first) /\ DOMAIN first # {}
        /\ \A B \in Nat : BoundedBy(snaps, B) /\ s.read.version <= B => BoundedBy(first, B)
    BY <1>1, <1>3, FirstEnsured
  <1>5. PICK v \in Nat : v = s.read.version + 1
    BY <1>2
  <1>6. ASSUME NEW B \in Nat, BoundedBy(snaps, B), s.read.version <= B
        PROVE  /\ snaps' \in Seq(Snapshot) /\ AllSound(snaps') /\ Kept(first, snaps')
               /\ BoundedBy(snaps', B + 1)
    <2>1. BoundedBy(first, B)
      BY <1>4, <1>6
    <2>2. \A x \in DOMAIN first : first[x].version \in Nat
      BY <1>4, SnapshotsShape
    <2>3. CASE snaps' = first
      <3>1. BoundedBy(first, B + 1)
        BY <2>1, <2>2, OneMore DEF BoundedBy
      <3>2. QED
        BY <1>4, <2>3, <3>1, KeptSame
    <2>4. CASE snaps' = EnsureNext(first, v, d, next)
      <3>1. PICK new : new = EnsureNext(first, v, d, next)
        OBVIOUS
      <3>2. /\ new \in Seq(Snapshot) /\ AllSound(new) /\ Kept(first, new)
            /\ \A x \in DOMAIN new \ DOMAIN first : new[x].version = v
        <4>1. /\ new \in Seq(Snapshot) /\ AllSound(new) /\ Kept(first, new)
              /\ NextEnsured(first, v, d, next, new)
          BY <1>4, <2>1, <3>1, EnsureNextSound
        <4>2. QED
          BY <4>1 DEF NextEnsured
      <3>3. \A x \in DOMAIN first : new[x].version = first[x].version
        BY <3>2 DEF Kept
      <3>4. BoundedBy(new, B + 1)
        <4>1. v <= B + 1
          BY <1>2, <1>5, <1>6, OneMore
        <4>2. ASSUME NEW x \in DOMAIN new PROVE new[x].version <= B + 1
          <5>1. CASE x \in DOMAIN first
            <6>1. first[x].version <= B /\ first[x].version \in Nat /\ new[x].version = first[x].version
              BY <2>1, <2>2, <3>3, <5>1, ZenonT(90) DEF BoundedBy
            <6>2. QED
              BY <6>1, OneMore
          <5>2. CASE x \notin DOMAIN first
            BY <3>2, <4>1, <5>2
          <5>3. QED
            BY <5>1, <5>2
        <4>3. QED
          BY <4>2 DEF BoundedBy
      <3>5. QED
        BY <2>4, <3>1, <3>2, <3>4
    <2>5. QED
      BY <1>5, <2>3, <2>4
  <1>7. PICK B \in Nat : BoundedBy(snaps, B) /\ s.read.version <= B
    BY <1>2 DEF BoundInv
  <1>8. snaps' \in Seq(Snapshot) /\ AllSound(snaps') /\ Kept(first, snaps')
    BY <1>6, <1>7
  <1>9. Kept(snaps, snaps') /\ DOMAIN snaps' # {}
    <2>1. PICK new : new = snaps'
      OBVIOUS
    <2>2. Kept(snaps, new)
      BY <1>4, <1>8, <2>1, KeptTwice
    <2>3. DOMAIN new # {}
      BY <1>4, <1>8, <2>1 DEF Kept
    <2>4. QED
      BY <2>1, <2>2, <2>3
  <1>10. /\ row' \in Row /\ row'.version = s.read.version + 1 /\ row'.pointer = row.pointer
         /\ saved' \in Seq(Drafts) /\ overlapped' \in BOOLEAN
    BY <1>2, Advanced
  <1>11. ASSUME NEW C \in Nat, BoundedBy(snaps, C), row.version <= C, session[c].read.version <= C
         PROVE  BoundedBy(snaps', C + 1) /\ row'.version <= C + 1
    <2>1. s.read.version <= C
      BY <1>11
    <2>2. BoundedBy(snaps', C + 1)
      BY <1>6, <1>11, <2>1
    <2>3. row'.version <= C + 1
      BY <1>2, <1>10, <2>1, OneMore
    <2>4. QED
      BY <2>2, <2>3
  <1>12. ViewersSeeValidated'
    BY DEF ViewInv, ViewersSeeValidated
  <1>13. QED
    BY <1>2, <1>8, <1>9, <1>10, <1>11, <1>12, Finished

LEMMA ViewOfSave ==
    ASSUME TypeInv, ViewInv, BoundInv, NEW c \in Clients, CommitSave(c)
    PROVE  TypeInv' /\ ViewInv' /\ BoundInv'
  <1>1. PICK s : s = session[c]
    OBVIOUS
  <1>2. s.pc = "commit" /\ s.op = "save" /\ SessionSound(snaps, s)
    BY <1>1 DEF CommitSave, ViewInv
  <1>3. Provenance(s) \in Nat /\ s.arg \in Drafts
    BY <1>2, ProvenanceType DEF SessionSound
  <1>4. PICK first : first = Ensure(snaps, s.id, s.loaded,
                                    Snap(s.read.version, s.read.content, "draft", Provenance(s)), FALSE)
    OBVIOUS
  <1>5. /\ \/ snaps' = first
           \/ snaps' = EnsureNext(first, s.read.version + 1, s.arg, Provenance(s))
        /\ Advance(s, s.arg) /\ Finish(c) /\ UNCHANGED <<runs, served>>
    BY <1>1, <1>4 DEF CommitSave
  <1>6. QED
    BY <1>1, <1>2, <1>3, <1>4, <1>5, ViewOfAdvance

LEMMA ViewOfRestore ==
    ASSUME TypeInv, ViewInv, BoundInv, NEW c \in Clients, CommitRestore(c)
    PROVE  TypeInv' /\ ViewInv' /\ BoundInv'
  <1>1. PICK s : s = session[c]
    OBVIOUS
  <1>2. s.pc = "commit" /\ s.op = "restore" /\ SessionSound(snaps, s)
    BY <1>1 DEF CommitRestore, ViewInv
  <1>3. Provenance(s) \in Nat /\ s.arg.content \in Drafts /\ s.arg.id \in Nat
    BY <1>2, ProvenanceType DEF SessionSound
  <1>4. PICK first : first = Ensure(snaps, s.id, s.loaded,
                                    Snap(s.read.version, s.read.content, "restore_backup",
                                         Provenance(s)), FALSE)
    OBVIOUS
  <1>5. /\ snaps' = EnsureNext(first, s.read.version + 1, s.arg.content, s.arg.id)
        /\ Advance(s, s.arg.content) /\ Finish(c) /\ UNCHANGED <<runs, served>>
    BY <1>1, <1>4 DEF CommitRestore
  <1>6. QED
    BY <1>1, <1>2, <1>3, <1>4, <1>5, ViewOfAdvance

LEMMA ViewOfPublish ==
    ASSUME TypeInv, ViewInv, BoundInv, NEW c \in Clients, CommitPublish(c)
    PROVE  TypeInv' /\ ViewInv' /\ BoundInv'
  <1>1. PICK s : s = session[c]
    OBVIOUS
  <1>2. s.pc = "commit" /\ s.op = "publish" /\ SessionSound(snaps, s)
    BY <1>1 DEF CommitPublish, ViewInv
  <1>3. Provenance(s) \in Nat /\ Publishable(s.read.content) /\ Active(s) /\ s.read \in Row
    BY <1>2, ProvenanceType DEF SessionSound, Active
  <1>4. PICK first : first = Ensure(snaps, s.id, s.loaded,
                                    Snap(s.read.version, s.read.content, "publish", Provenance(s)), TRUE)
    OBVIOUS
  <1>5. PICK id : id = IF s.id = 0 THEN Len(snaps) + 1 ELSE s.id
    OBVIOUS
  <1>6. /\ first \in Seq(Snapshot) /\ AllSound(first) /\ Kept(snaps, first) /\ DOMAIN first # {}
        /\ \A B \in Nat : BoundedBy(snaps, B) /\ s.read.version <= B => BoundedBy(first, B)
        /\ Valid(first, id)
    <2>1. AllSound(snaps) /\ "publish" \in Types
      BY DEF ViewInv, Types
    <2>2. QED
      BY <1>2, <1>3, <1>4, <1>5, <2>1, FirstEnsured
  <1>7. /\ snaps' = first /\ Finish(c) /\ UNCHANGED <<runs, served, saved, overlapped>>
        /\ row' = [row EXCEPT !.published = TRUE,
                              !.pointer = IF id # s.read.pointer THEN id ELSE row.pointer]
    BY <1>1, <1>4, <1>5 DEF CommitPublish, TypeInv, Row
  <1>8. id \in Nat
    BY <1>6, SnapshotsShape DEF Valid
  <1>9. PICK p \in Nat : p = IF id # s.read.pointer THEN id ELSE row.pointer
    BY <1>8 DEF TypeInv, Row
  <1>10. /\ row' \in Row /\ row'.pointer = p /\ row'.version = row.version
    BY <1>7, <1>9 DEF TypeInv, Row
  <1>11. row'.pointer = row.pointer \/ Valid(snaps', row'.pointer)
    BY <1>6, <1>7, <1>9, <1>10
  <1>12. ASSUME NEW B \in Nat, BoundedBy(snaps, B), row.version <= B, session[c].read.version <= B
         PROVE  BoundedBy(snaps', B + 1) /\ row'.version <= B + 1
    <2>1. BoundedBy(first, B) /\ row.version \in Nat
      BY <1>1, <1>6, <1>12 DEF TypeInv, Row
    <2>2. \A x \in DOMAIN first : first[x].version \in Nat
      BY <1>6, SnapshotsShape
    <2>3. BoundedBy(first, B + 1)
      BY <2>1, <2>2, OneMore DEF BoundedBy
    <2>4. QED
      BY <1>7, <1>10, <1>12, <2>1, <2>3, OneMore
  <1>13. /\ ViewersSeeValidated' /\ saved' \in Seq(Drafts) /\ overlapped' \in BOOLEAN
         /\ snaps' \in Seq(Snapshot) /\ AllSound(snaps') /\ Kept(snaps, snaps')
         /\ DOMAIN snaps' # {}
    BY <1>6, <1>7 DEF ViewInv, ViewersSeeValidated, TypeInv
  <1>14. QED
    BY <1>1, <1>3, <1>7, <1>10, <1>11, <1>12, <1>13, Finished

\* The definition is deleted, or a run is started: no session changes.
LEMMA ViewOfOthers ==
    ASSUME TypeInv, ViewInv, BoundInv, NEW c \in Clients, Delete(c) \/ Run(c)
    PROVE  TypeInv' /\ ViewInv' /\ BoundInv'
  <1>1. UNCHANGED <<snaps, session, saved, overlapped, served>>
    BY DEF Delete, Run
  <1>2. /\ row' \in Row /\ row'.pointer = row.pointer /\ row'.version = row.version
        /\ row'.published = row.published /\ row'.content = row.content
    BY DEF Delete, Run, TypeInv, Row
  <1>3. ViewersSeeValidated'
    <2>1. CASE Delete(c)
      BY <2>1 DEF Delete, ViewInv, ViewersSeeValidated
    <2>2. CASE Run(c)
      <3>1. PICK named \in BOOLEAN, id \in DOMAIN snaps :
               /\ ~named => id = row.pointer
               /\ runs' = runs \cup {[named |-> named, version |-> id, content |-> snaps[id].content]}
        BY <2>2 DEF Run
      <3>2. ~named => Publishable(snaps[id].content)
        BY <3>1, SnapshotsShape DEF ViewInv, Valid, TypeInv
      <3>3. QED
        BY <1>1, <3>1, <3>2 DEF ViewInv, ViewersSeeValidated
    <2>3. QED
      BY <2>1, <2>2
  <1>4. BoundInv'
    BY <1>1, <1>2 DEF BoundInv, BoundedBy
  <1>5. QED
    BY <1>1, <1>2, <1>3, <1>4 DEF TypeInv, ViewInv

\* A viewer is shown the published snapshot, or a backfilled one.
LEMMA ViewOfResolve ==
    ASSUME TypeInv, ViewInv, BoundInv, NEW c \in Clients, Resolve(c)
    PROVE  TypeInv' /\ ViewInv' /\ BoundInv'
  <1>1. PICK s : s = session[c]
    OBVIOUS
  <1>2. PICK r : r = s.read
    OBVIOUS
  <1>3. s.pc = "resolve" /\ SessionSound(snaps, s) /\ Active(s)
    BY <1>1 DEF Resolve, ViewInv, Active
  <1>4. /\ r \in Row /\ (r.pointer # 0 => Valid(snaps, r.pointer))
        /\ DOMAIN snaps = {} => Publishable(r.content)
    BY <1>2, <1>3 DEF SessionSound
  <1>5. PICK B \in Nat : BoundedBy(snaps, B) /\ row.version <= B /\ r.version <= B
    BY <1>1, <1>2, <1>3 DEF BoundInv
  <1>6. /\ \A x \in DOMAIN snaps : /\ snaps[x] \in Snapshot /\ snaps[x].version \in Nat
                                   /\ x \in Nat /\ x # 0
        /\ row.version \in Nat /\ snaps \in Seq(Snapshot) /\ AllSound(snaps)
    BY SnapshotsShape DEF TypeInv, ViewInv, Row
  <1>7. PICK id : id = PublishedSnapshot(r)
    OBVIOUS
  <1>8. id # 0 => Valid(snaps, id)
    <2>1. CASE r.pointer # 0
      BY <1>4, <1>7, <2>1 DEF PublishedSnapshot
    <2>2. CASE r.pointer = 0
      <3>1. PICK S \in SUBSET DOMAIN snaps : S = {x \in DOMAIN snaps : snaps[x].type = "publish"}
        OBVIOUS
      <3>2. id = Newest(snaps, S)
        BY <1>7, <2>2, <3>1 DEF PublishedSnapshot
      <3>3. id # 0 => id \in S
        BY <1>5, <1>6, <3>2, NewestFound
      <3>4. QED
        BY <1>6, <3>1, <3>3 DEF AllSound, Sound, Valid
    <2>3. QED
      BY <2>1, <2>2
  <1>9. PICK made : made = Backfill(r)
    OBVIOUS
  <1>10. ASSUME NEW x \in made
         PROVE  /\ x \in Snapshot /\ Publishable(x.content)
                /\ \A C \in Nat : BoundedBy(snaps, C) /\ r.version <= C => x.version <= C
    <2>1. PICK S \in SUBSET DOMAIN snaps :
             S = {y \in DOMAIN snaps : snaps[y].legacy /\ snaps[y].type # "restore_backup"}
      OBVIOUS
    <2>2. PICK old : old = Newest(snaps, S)
      OBVIOUS
    <2>3. made = IF old # 0 THEN {[snaps[old] EXCEPT !.type = "publish"]}
                 ELSE IF snaps = << >> THEN {Snap(r.version, r.content, "publish", 0)}
                 ELSE {}
      BY <1>9, <2>1, <2>2 DEF Backfill
    <2>4. CASE old # 0
      <3>1. old \in S /\ old \in DOMAIN snaps
        BY <1>5, <1>6, <2>2, <2>4, NewestFound
      <3>2. Publishable(snaps[old].content)
        BY <1>6, <2>1, <3>1 DEF AllSound, Sound
      <3>3. x = [snaps[old] EXCEPT !.type = "publish"]
        BY <2>3, <2>4
      <3>4. snaps[old] \in Snapshot
        BY <1>6, <3>1
      <3>5. /\ x \in Snapshot /\ x.content = snaps[old].content
            /\ x.version = snaps[old].version
        BY <3>3, <3>4 DEF Snapshot, Types
      <3>6. QED
        BY <3>1, <3>2, <3>5 DEF BoundedBy
    <2>5. CASE old = 0
      <3>1. snaps = << >> /\ x = Snap(r.version, r.content, "publish", 0)
        BY <2>3, <2>5
      <3>2. Publishable(r.content)
        BY <1>4, <3>1
      <3>3. x \in Snapshot /\ x.content = r.content /\ x.version = r.version
        BY <1>4, <3>1, SnapType DEF Types, Row
      <3>4. QED
        BY <3>2, <3>3
    <2>6. QED
      BY <2>4, <2>5
  <1>11. Finish(c) /\ UNCHANGED <<runs, saved, overlapped>>
    BY DEF Resolve
  <1>12. saved' \in Seq(Drafts) /\ overlapped' \in BOOLEAN
    BY <1>11 DEF TypeInv
  <1>13. ASSUME UNCHANGED <<row, snaps>>, ViewersSeeValidated'
         PROVE  TypeInv' /\ ViewInv' /\ BoundInv'
    <2>1. row' \in Row /\ snaps' \in Seq(Snapshot) /\ AllSound(snaps') /\ Kept(snaps, snaps')
      BY <1>6, <1>13, KeptSame DEF TypeInv
    <2>2. DOMAIN snaps' = {} /\ row'.published => Publishable(row'.content)
      BY <1>13 DEF ViewInv
    <2>3. ASSUME NEW C \in Nat, BoundedBy(snaps, C), row.version <= C
          PROVE  BoundedBy(snaps', C + 1) /\ row'.version <= C + 1
      <3>1. BoundedBy(snaps, C + 1) /\ row.version <= C + 1
        BY <1>6, <2>3, OneMore DEF BoundedBy
      <3>2. QED
        BY <1>13, <3>1
    <2>4. QED
      BY <1>1, <1>3, <1>11, <1>12, <1>13, <2>1, <2>2, <2>3, Finished
  <1>14. CASE id # 0 /\ served' = served \cup {snaps[id].content} /\ UNCHANGED <<row, snaps>>
    <2>1. ViewersSeeValidated'
      BY <1>8, <1>11, <1>14 DEF Valid, ViewInv, ViewersSeeValidated
    <2>2. QED
      BY <1>13, <1>14, <2>1
  <1>15. CASE UNCHANGED <<row, snaps, served>>
    <2>1. ViewersSeeValidated'
      BY <1>11, <1>15 DEF ViewInv, ViewersSeeValidated
    <2>2. QED
      BY <1>13, <1>15, <2>1
  <1>16. ASSUME NEW x \in made, snaps' = Append(snaps, x), served' = served \cup {x.content},
                row' = [row EXCEPT !.pointer = Len(snaps) + 1]
         PROVE  TypeInv' /\ ViewInv' /\ BoundInv'
    <2>1. x \in Snapshot /\ Publishable(x.content)
      BY <1>10
    <2>2. PICK new \in Seq(Snapshot) : new = Append(snaps, x)
      BY <1>6, <2>1, AppendProperties
    <2>3. PICK n \in Nat : n = Len(snaps) + 1
      BY <1>6, SnapshotsShape
    <2>4. /\ DOMAIN new = DOMAIN snaps \cup {n} /\ new[n] = x
          /\ \A y \in DOMAIN snaps : new[y] = snaps[y]
      <3>1. /\ Len(new) = Len(snaps) + 1 /\ new[Len(snaps) + 1] = x
            /\ \A y \in 1..Len(snaps) : new[y] = snaps[y]
        BY <1>6, <2>1, <2>2, AppendProperties
      <3>2. DOMAIN new = 1..Len(new) /\ DOMAIN snaps = 1..Len(snaps) /\ Len(snaps) \in Nat
        BY <1>6, SnapshotsShape
      <3>3. QED
        BY <2>3, <3>1, <3>2
    <2>5. AllSound(new) /\ Kept(snaps, new) /\ Valid(new, n)
      BY <1>6, <2>1, <2>4 DEF AllSound, Sound, Kept, Valid
    <2>6. row' \in Row /\ row'.pointer = n /\ row'.version = row.version
      <3>1. row' = [row EXCEPT !.pointer = n] /\ row \in Row
        BY <1>16, <2>3 DEF TypeInv
      <3>2. QED
        BY <3>1 DEF Row
    <2>7. snaps' = new
      BY <1>16, <2>2
    <2>8. ASSUME NEW C \in Nat, BoundedBy(snaps, C), row.version <= C, session[c].read.version <= C
          PROVE  BoundedBy(snaps', C + 1) /\ row'.version <= C + 1
      <3>1. x.version <= C /\ x.version \in Nat
        BY <1>1, <1>2, <1>10, <2>1, <2>8 DEF Snapshot
      <3>2. \A y \in DOMAIN new : new[y].version <= C /\ new[y].version \in Nat
        BY <1>6, <2>4, <2>8, <3>1 DEF BoundedBy
      <3>3. BoundedBy(new, C + 1)
        BY <3>2, OneMore DEF BoundedBy
      <3>4. QED
        BY <1>6, <2>6, <2>7, <2>8, <3>3, OneMore
    <2>9. ViewersSeeValidated'
      BY <1>11, <1>16, <2>1 DEF ViewInv, ViewersSeeValidated
    <2>10. /\ snaps' \in Seq(Snapshot) /\ AllSound(snaps') /\ Kept(snaps, snaps')
           /\ Valid(snaps', row'.pointer) /\ DOMAIN snaps' # {}
      BY <2>4, <2>5, <2>6, <2>7
    <2>11. QED
      BY <1>1, <1>3, <1>11, <1>12, <2>6, <2>8, <2>9, <2>10, Finished
  <1>17. \/ id # 0 /\ served' = served \cup {snaps[id].content} /\ UNCHANGED <<row, snaps>>
         \/ UNCHANGED <<row, snaps, served>>
         \/ \E x \in made : /\ snaps' = Append(snaps, x) /\ served' = served \cup {x.content}
                            /\ row' = [row EXCEPT !.pointer = Len(snaps) + 1]
    BY <1>1, <1>2, <1>7, <1>9 DEF Resolve
  <1>18. QED
    BY <1>14, <1>15, <1>16, <1>17

LEMMA FirstRow ==
    ASSUME NEW v \in {1, 2}, NEW d \in Drafts, NEW p \in BOOLEAN,
           NEW r, r = [version |-> v, content |-> d, published |-> p,
                       pointer |-> 0, deleted |-> FALSE]
    PROVE  r \in Row /\ r.version = v /\ r.pointer = 0
  <1>1. v \in Nat /\ 0 \in Nat /\ FALSE \in BOOLEAN
    OBVIOUS
  <1>2. QED
    BY <1>1 DEF Row

LEMMA ViewOfInit == Init => TypeInv /\ ViewInv /\ BoundInv
  <1>1. SUFFICES ASSUME Init PROVE TypeInv /\ ViewInv /\ BoundInv
    OBVIOUS
  <1>2. /\ session = [c \in Clients |-> Idle] /\ runs = {} /\ served = {} /\ overlapped = FALSE
    BY <1>1 DEF Init
  <1>3. \A c \in Clients : session[c] = Idle
    BY <1>2
  <1>4. /\ row \in Row /\ row.version \in {1, 2} /\ row.pointer = 0 /\ saved \in Seq(Drafts)
        /\ \/ /\ snaps = << >> /\ (row.published => Publishable(row.content))
           \/ \E d \in Drafts : /\ Publishable(d)
                                /\ snaps = <<[Snap(1, d, "draft", 0) EXCEPT !.legacy = TRUE]>>
    <2>1. PICK d \in Drafts, e \in Drafts :
           \/ /\ row = [version |-> 1, content |-> d, published |-> FALSE,
                        pointer |-> 0, deleted |-> FALSE]
              /\ snaps = << >> /\ saved = <<d>>
           \/ /\ Publishable(d)
              /\ row = [version |-> 1, content |-> d, published |-> TRUE,
                        pointer |-> 0, deleted |-> FALSE]
              /\ snaps = << >> /\ saved = <<d>>
           \/ /\ Publishable(d)
              /\ row = [version |-> 2, content |-> e, published |-> TRUE,
                        pointer |-> 0, deleted |-> FALSE]
              /\ snaps = <<[Snap(1, d, "draft", 0) EXCEPT !.legacy = TRUE]>>
              /\ saved = <<d, e>>
      BY <1>1 DEF Init
    <2>2. <<d>> \in Seq(Drafts) /\ <<d, e>> \in Seq(Drafts)
      OBVIOUS
    <2>3. \/ row = [version |-> 1, content |-> d, published |-> FALSE,
                    pointer |-> 0, deleted |-> FALSE]
          \/ row = [version |-> 1, content |-> d, published |-> TRUE,
                    pointer |-> 0, deleted |-> FALSE]
          \/ row = [version |-> 2, content |-> e, published |-> TRUE,
                    pointer |-> 0, deleted |-> FALSE]
      BY <2>1
    <2>6. row \in Row /\ row.version \in {1, 2} /\ row.pointer = 0
      BY <2>3, FirstRow
    <2>7. saved = <<d>> \/ saved = <<d, e>>
      BY <2>1
    <2>4. \/ /\ snaps = << >> /\ (row.published => Publishable(row.content))
          \/ /\ Publishable(d)
             /\ snaps = <<[Snap(1, d, "draft", 0) EXCEPT !.legacy = TRUE]>>
      BY <2>1
    <2>5. QED
      BY <2>2, <2>4, <2>6, <2>7
  <1>5. /\ snaps \in Seq(Snapshot) /\ AllSound(snaps) /\ BoundedBy(snaps, 2)
        /\ DOMAIN snaps = {} /\ row.published => Publishable(row.content)
    <2>1. CASE snaps = << >> /\ (row.published => Publishable(row.content))
      <3>1. snaps \in Seq(Snapshot) /\ DOMAIN snaps = {}
        BY <2>1, EmptySeq, SnapshotsShape
      <3>2. QED
        BY <2>1, <3>1 DEF AllSound, BoundedBy
    <2>2. CASE \E d \in Drafts : /\ Publishable(d)
                                 /\ snaps = <<[Snap(1, d, "draft", 0) EXCEPT !.legacy = TRUE]>>
      <3>1. PICK d \in Drafts : /\ Publishable(d)
                                /\ snaps = <<[Snap(1, d, "draft", 0) EXCEPT !.legacy = TRUE]>>
        BY <2>2
      <3>2. PICK x : x = [Snap(1, d, "draft", 0) EXCEPT !.legacy = TRUE]
        OBVIOUS
      <3>3. x \in Snapshot /\ x.version = 1 /\ x.content = d
        BY <3>2 DEF Snap, Snapshot, Types
      <3>4. snaps = <<x>> /\ DOMAIN snaps = {1} /\ snaps[1] = x
        BY <3>1, <3>2
      <3>5. Publishable(d)
        BY <3>1
      <3>6. snaps \in Seq(Snapshot)
        BY <3>3, <3>4
      <3>7. QED
        BY <3>3, <3>4, <3>5, <3>6 DEF AllSound, Sound, BoundedBy
    <2>3. QED
      BY <1>4, <2>1, <2>2
  <1>6. BoundInv
    BY <1>3, <1>4, <1>5, IdleSound DEF BoundInv
  <1>7. QED
    BY <1>2, <1>3, <1>4, <1>5, <1>6, IdleSound DEF TypeInv, ViewInv, ViewersSeeValidated

LEMMA ViewOfNext ==
    ASSUME TypeInv, ViewInv, BoundInv, [Next]_vars
    PROVE  TypeInv' /\ ViewInv' /\ BoundInv'
  <1>1. CASE UNCHANGED vars
    BY <1>1 DEF vars, TypeInv, ViewInv, BoundInv, ViewersSeeValidated
  <1>2. CASE Next
    <2>1. PICK c \in Clients :
             \/ BeginSave(c) \/ BeginPublish(c) \/ BeginRestore(c) \/ BeginView(c)
             \/ FindSnapshot(c)
             \/ CommitSave(c) \/ CommitRestore(c) \/ CommitPublish(c)
             \/ Delete(c) \/ Resolve(c) \/ Run(c)
      BY <1>2 DEF Next
    <2>2. QED
      BY <2>1, ViewOfBegin, ViewOfFind, ViewOfSave, ViewOfRestore, ViewOfPublish, ViewOfOthers,
         ViewOfResolve
  <1>3. QED
    BY <1>1, <1>2

\* Whatever a viewer was shown, and whatever a run that named no version runs,
\* passed the publishing checks: get_by_id and get_workflow_context, through every
\* interleaving of saves, publications, restores and backfills.
THEOREM ViewersAlwaysSeeValidated == Spec => []ViewersSeeValidated
  <1>1. TypeInv /\ ViewInv /\ BoundInv /\ [Next]_vars => (TypeInv /\ ViewInv /\ BoundInv)'
    BY ViewOfNext
  <1>2. TypeInv /\ ViewInv /\ BoundInv => ViewersSeeValidated
    BY DEF ViewInv
  <1>3. QED
    BY ViewOfInit, <1>1, <1>2, PTL DEF Spec

-----------------------------------------------------------------------------
(* What the versions recorded, until two saves overlap. *)

\* Every snapshot has the content that was saved under its version.
Recorded(all, hist) ==
    \A s \in DOMAIN all : /\ all[s].version \in DOMAIN hist
                          /\ all[s].content = hist[all[s].version]

\* Every version but the current one has a snapshot.
Complete(all, hist, current) ==
    \A v \in DOMAIN hist : v = current \/ \E s \in DOMAIN all : all[s].version = v

\* What a request has read is still so.
Remembers(all, hist, s) ==
    /\ Active(s) => /\ s.read.version \in DOMAIN hist
                    /\ s.read.content = hist[s.read.version]
    /\ s.pc = "commit" /\ s.id # 0 => /\ all[s.id].version = s.read.version
                                      /\ all[s.id].content = s.loaded.content
                                      /\ all[s.id].from = s.loaded.from

History ==
    /\ row.version = Len(saved) /\ row.version \in DOMAIN saved
    /\ saved[row.version] = row.content
    /\ Recorded(snaps, saved) /\ Complete(snaps, saved, row.version)
    /\ \A c \in Clients : Remembers(snaps, saved, session[c])

HistoryInv == ~overlapped => History

SameContents(all, new) == \A s \in DOMAIN all : new[s].content = all[s].content

Extends(hist, new) ==
    /\ DOMAIN hist \subseteq DOMAIN new
    /\ \A v \in DOMAIN hist : new[v] = hist[v]

LEMMA Appended ==
    ASSUME NEW h \in Seq(Drafts), NEW d \in Drafts, NEW g, g = Append(h, d)
    PROVE  /\ g \in Seq(Drafts) /\ Len(g) = Len(h) + 1
           /\ DOMAIN g = DOMAIN h \cup {Len(h) + 1} /\ Len(h) + 1 \notin DOMAIN h
           /\ g[Len(h) + 1] = d /\ Extends(h, g)
  <1>1. /\ g \in Seq(Drafts) /\ Len(g) = Len(h) + 1 /\ g[Len(h) + 1] = d
        /\ \A y \in 1..Len(h) : g[y] = h[y]
    BY AppendProperties
  <1>2. DOMAIN g = 1..Len(g) /\ DOMAIN h = 1..Len(h) /\ Len(h) \in Nat
    BY <1>1, LenProperties
  <1>3. DOMAIN g = DOMAIN h \cup {Len(h) + 1} /\ Len(h) + 1 \notin DOMAIN h
    BY <1>1, <1>2
  <1>4. QED
    BY <1>1, <1>2, <1>3 DEF Extends

LEMMA GrownTwice ==
    ASSUME NEW a, NEW b, NEW d, Grown(a, b), Grown(b, d)
    PROVE  Grown(a, d)
  BY DEF Grown

LEMMA GrownSame == \A all : Grown(all, all) /\ Extends(all, all)
  BY DEF Grown, Extends

LEMMA RemembersStays ==
    ASSUME NEW all, NEW new, Grown(all, new), NEW hist, NEW h, Extends(hist, h),
           NEW s, SessionSound(all, s), Remembers(all, hist, s)
    PROVE  Remembers(new, h, s)
  <1>1. Active(s) => /\ s.read.version \in DOMAIN h
                     /\ s.read.content = h[s.read.version]
    BY DEF Remembers, Extends
  <1>2. s.pc = "commit" /\ s.id # 0 => /\ new[s.id].version = s.read.version
                                       /\ new[s.id].content = s.loaded.content
                                       /\ new[s.id].from = s.loaded.from
    BY DEF Remembers, Grown, SessionSound
  <1>3. QED
    BY <1>1, <1>2 DEF Remembers

LEMMA IdleRemembers == \A all, hist : Remembers(all, hist, Idle)
  BY DEF Remembers, Idle, Active

\* A request has ended, and the snapshots have grown.
LEMMA HistoryOfFinish ==
    ASSUME TypeInv, ViewInv, History, NEW c \in Clients, Finish(c),
           Grown(snaps, snaps'), Extends(saved, saved'),
           row'.version = Len(saved'), row'.version \in DOMAIN saved',
           saved'[row'.version] = row'.content,
           Recorded(snaps', saved'), Complete(snaps', saved', row'.version)
    PROVE  History'
  <1>1. ASSUME NEW d \in Clients PROVE Remembers(snaps', saved', session'[d])
    <2>1. session'[d] = IF d = c THEN Idle ELSE session[d]
      BY DEF Finish, TypeInv
    <2>2. SessionSound(snaps, session[d]) /\ Remembers(snaps, saved, session[d])
      BY DEF ViewInv, History
    <2>3. Remembers(snaps', saved', session[d])
      BY <2>2, RemembersStays
    <2>4. QED
      BY <2>1, <2>3, IdleRemembers
  <1>2. QED
    BY <1>1 DEF History

\* A request has read something, or the definition was deleted.
LEMMA HistoryOfRead ==
    ASSUME TypeInv, HistoryInv, NEW c \in Clients, NEW s,
           session' = [session EXCEPT ![c] = s], UNCHANGED <<snaps, saved, overlapped>>,
           row'.version = row.version, row'.content = row.content,
           History => Remembers(snaps, saved, s)
    PROVE  HistoryInv' /\ SameContents(snaps, snaps')
  <1>1. ASSUME History PROVE History'
    <2>1. \A d \in Clients : session'[d] = IF d = c THEN s ELSE session[d]
      BY DEF TypeInv
    <2>2. \A d \in Clients : Remembers(snaps', saved', session'[d])
      BY <1>1, <2>1 DEF History
    <2>3. QED
      BY <1>1, <2>2 DEF History
  <1>2. QED
    BY <1>1 DEF HistoryInv, SameContents

LEMMA HistoryOfBegin ==
    ASSUME TypeInv, HistoryInv, NEW c \in Clients,
           BeginSave(c) \/ BeginPublish(c) \/ BeginRestore(c) \/ BeginView(c)
    PROVE  HistoryInv' /\ SameContents(snaps, snaps')
  <1>1. ASSUME NEW s, Begin(c, s), s.read = row, s.pc # "commit"
        PROVE  HistoryInv' /\ SameContents(snaps, snaps')
    <2>1. History => Remembers(snaps, saved, s)
      BY <1>1 DEF History, Remembers
    <2>2. /\ session' = [session EXCEPT ![c] = s] /\ UNCHANGED <<snaps, saved, overlapped>>
          /\ row' = row
      BY <1>1 DEF Begin
    <2>3. QED
      BY <2>1, <2>2, HistoryOfRead
  <1>2. \E s : Begin(c, s) /\ s.read = row /\ s.pc # "commit"
    <2>1. CASE BeginSave(c)
      <3>1. PICK d \in Drafts : Begin(c, [pc |-> "find", op |-> "save", read |-> row, arg |-> d])
        BY <2>1 DEF BeginSave
      <3>2. QED
        BY <3>1
    <2>2. CASE BeginPublish(c)
      BY <2>2 DEF BeginPublish
    <2>3. CASE BeginRestore(c)
      <3>1. PICK s \in DOMAIN snaps :
               Begin(c, [pc |-> "find", op |-> "restore", read |-> row,
                         arg |-> [id |-> s, content |-> snaps[s].content]])
        BY <2>3 DEF BeginRestore
      <3>2. QED
        BY <3>1
    <2>4. CASE BeginView(c)
      BY <2>4 DEF BeginView
    <2>5. QED
      BY <2>1, <2>2, <2>3, <2>4
  <1>3. QED
    BY <1>1, <1>2

LEMMA HistoryOfFind ==
    ASSUME TypeInv, ViewInv, BoundInv, HistoryInv, NEW c \in Clients, FindSnapshot(c)
    PROVE  HistoryInv' /\ SameContents(snaps, snaps')
  <1>1. PICK s : s = session[c]
    OBVIOUS
  <1>2. s.pc = "find" /\ Active(s)
    BY <1>1 DEF FindSnapshot, Active
  <1>3. PICK id : id = VersionSnapshot(s.read.version)
    OBVIOUS
  <1>4. id # 0 => snaps[id].version = s.read.version
    BY <1>3, SnapshotOfFound DEF VersionSnapshot, BoundInv, TypeInv
  <1>5. PICK loaded : loaded = IF id = 0 THEN 0 ELSE snaps[id]
    OBVIOUS
  <1>6. PICK t : t = [pc |-> "commit", op |-> s.op, read |-> s.read, arg |-> s.arg,
                      id |-> id, loaded |-> loaded]
    OBVIOUS
  <1>7. /\ session' = [session EXCEPT ![c] = t] /\ UNCHANGED <<snaps, saved, overlapped>>
        /\ row' = row
    BY <1>1, <1>3, <1>5, <1>6 DEF FindSnapshot, TypeInv
  <1>8. t.pc = "commit" /\ t.read = s.read /\ t.id = id /\ t.loaded = loaded
    BY <1>6
  <1>9. ASSUME History PROVE Remembers(snaps, saved, t)
    <2>1. Remembers(snaps, saved, s)
      BY <1>1, <1>9 DEF History
    <2>2. QED
      BY <1>2, <1>4, <1>5, <1>8, <2>1 DEF Remembers
  <1>10. QED
    BY <1>7, <1>9, HistoryOfRead

\* The snapshots with one of the version that was read, none of them changed.
Continues(all, version) ==
    /\ Grown(snaps, all) /\ Recorded(all, saved)
    /\ \E x \in DOMAIN all : all[x].version = version

\* The first _ensure_snapshot of a commit changes no content and no origin.
LEMMA FirstGrown ==
    ASSUME TypeInv, NEW s, SessionSound(snaps, s), Remembers(snaps, saved, s),
           Recorded(snaps, saved), s.pc = "commit",
           NEW type \in Types, NEW force \in BOOLEAN, NEW from, from = Provenance(s),
           NEW first, first = Ensure(snaps, s.id, s.loaded,
                                     Snap(s.read.version, s.read.content, type, from), force)
    PROVE  Continues(first, s.read.version)
  <1>1. /\ s.read \in Row /\ s.read.version \in Nat /\ s.read.content \in Drafts
        /\ from \in Nat /\ Active(s)
    BY ProvenanceType DEF SessionSound, Active, Row
  <1>2. PICK new \in Snapshot : /\ new = Snap(s.read.version, s.read.content, type, from)
                                /\ new.version = s.read.version /\ new.content = s.read.content
                                /\ new.from = from
    BY <1>1, SnapType
  <1>3. PICK id \in {0} \cup DOMAIN snaps : id = s.id
    BY DEF SessionSound
  <1>4. PICK loaded : loaded = s.loaded
    OBVIOUS
  <1>5. snaps \in Seq(Snapshot) /\ first = Ensure(snaps, id, loaded, new, force)
    BY <1>2, <1>3, <1>4 DEF TypeInv
  <1>6. /\ s.read.version \in DOMAIN saved /\ s.read.content = saved[s.read.version]
        /\ id # 0 => /\ snaps[id].version = s.read.version
                     /\ snaps[id].from = loaded.from /\ loaded \in Snapshot
    BY <1>1, <1>3, <1>4 DEF Remembers, SessionSound
  <1>7. id # 0 => new.from = snaps[id].from /\ new.content = snaps[id].content
    BY <1>2, <1>3, <1>4, <1>6 DEF Provenance, Recorded
  <1>8. Grown(snaps, first)
    BY <1>5, <1>6, <1>7, EnsureGrows, ZenonT(90)
  <1>9. Ensured(snaps, id, loaded, new, force, first)
    BY <1>5, <1>6, EnsureShape
  <1>10. CASE id = 0
    <2>1. DOMAIN first = DOMAIN snaps \cup {Len(snaps) + 1} /\ first[Len(snaps) + 1] = new
      BY <1>9, <1>10 DEF Ensured
    <2>2. \A x \in DOMAIN snaps : /\ first[x].version = snaps[x].version
                                  /\ first[x].content = snaps[x].content
      BY <1>8 DEF Grown
    <2>3. Recorded(first, saved)
      BY <1>2, <1>6, <2>1, <2>2 DEF Recorded
    <2>4. QED
      BY <1>2, <1>8, <2>1, <2>3 DEF Continues
  <1>11. CASE id # 0
    <2>1. DOMAIN first = DOMAIN snaps
      BY <1>9, <1>11 DEF Ensured
    <2>2. \A x \in DOMAIN snaps : /\ first[x].version = snaps[x].version
                                  /\ first[x].content = snaps[x].content
      BY <1>8 DEF Grown
    <2>3. QED
      BY <1>3, <1>6, <1>8, <1>11, <2>1, <2>2 DEF Recorded, Continues
  <1>12. QED
    BY <1>10, <1>11

\* The versions after one more was saved, with or without its snapshot.
OneVersionMore(first, hist, v, d, next, h, e) ==
    /\ Extends(hist, h) /\ Len(h) = v /\ v \in DOMAIN h /\ h[v] = d
    /\ Recorded(first, h) /\ Complete(first, h, v)
    /\ Recorded(e, h) /\ Complete(e, h, v) /\ Grown(first, e)
    /\ \E t \in DOMAIN e : e[t].version = v /\ e[t].from = next

LEMMA NextGrown ==
    ASSUME NEW first \in Seq(Snapshot), NEW hist \in Seq(Drafts), NEW v \in Nat, v = Len(hist) + 1,
           NEW d \in Drafts, NEW next \in Nat, NEW h, h = Append(hist, d), NEW e,
           NextEnsured(first, v, d, next, e), Recorded(first, hist), NEW current,
           Complete(first, hist, current), \E x \in DOMAIN first : first[x].version = current
    PROVE  OneVersionMore(first, hist, v, d, next, h, e)
  <1>1. /\ Len(h) = v /\ DOMAIN h = DOMAIN hist \cup {v} /\ v \notin DOMAIN hist
        /\ h[v] = d /\ Extends(hist, h)
    BY Appended
  <1>2. Recorded(first, h) /\ Complete(first, h, v)
    BY <1>1 DEF Recorded, Complete, Extends
  <1>3. \A x \in DOMAIN first : first[x].version # v
    BY <1>1 DEF Recorded
  <1>4. PICK n : n = Len(first) + 1
    OBVIOUS
  <1>5. /\ Grown(first, e) /\ DOMAIN e = DOMAIN first \cup {n}
        /\ e[n] = Snap(v, d, "draft", next)
    BY <1>3, <1>4 DEF NextEnsured
  <1>6. e[n].version = v /\ e[n].content = d /\ e[n].from = next
    BY <1>5, SnapType, SMTT(60) DEF Types
  <1>7. \A x \in DOMAIN first : e[x].version = first[x].version /\ e[x].content = first[x].content
    BY <1>5 DEF Grown
  <1>8. Recorded(e, h)
    BY <1>1, <1>2, <1>5, <1>6, <1>7 DEF Recorded
  <1>9. Complete(e, h, v)
    BY <1>2, <1>5, <1>7, SMTT(60) DEF Complete
  <1>10. QED
    BY <1>1, <1>2, <1>5, <1>6, <1>8, <1>9 DEF OneVersionMore

LEMMA GrownSameContents ==
    ASSUME NEW a, NEW b, Grown(a, b)
    PROVE  SameContents(a, b)
  BY DEF Grown, SameContents

LEMMA GrownComplete ==
    ASSUME NEW a, NEW b, Grown(a, b), NEW hist, NEW current, Complete(a, hist, current)
    PROVE  Complete(b, hist, current)
  BY DEF Grown, Complete

LEMMA SameContentsTwice ==
    ASSUME NEW a, NEW b, Grown(a, b), NEW d, SameContents(b, d)
    PROVE  SameContents(a, d)
  BY DEF Grown, SameContents

\* What a save or a restore leaves of the versions, given the snapshots it writes.
Advances(all, next, e) ==
    /\ HistoryInv' /\ (~overlapped => SameContents(snaps, all))
    /\ ~overlapped' /\ all = e =>
          \E t \in DOMAIN e : e[t].version = row'.version /\ e[t].from = next

LEMMA AdvanceKeeps ==
    ASSUME TypeInv, ViewInv, History, NEW c \in Clients, NEW s, s = session[c], Active(s),
           s.read \in Row, NEW v \in Nat, v = s.read.version + 1, NEW d \in Drafts,
           NEW next \in Nat, NEW first \in Seq(Snapshot), Continues(first, s.read.version),
           NEW e, NextEnsured(first, v, d, next, e),
           NEW all, all = first \/ all = e, snaps' = all, Advance(s, d), Finish(c)
    PROVE  Advances(all, next, e)
  <1>1. /\ row'.version = v
        /\ row'.content = IF d # s.read.content THEN d ELSE row.content
        /\ ~overlapped' => row.version = s.read.version /\ saved' = Append(saved, row'.content)
    BY Advanced
  <1>2. /\ Grown(snaps, first) /\ Recorded(first, saved)
        /\ \E x \in DOMAIN first : first[x].version = s.read.version
    BY DEF Continues
  <1>3. SameContents(first, e)
    BY DEF NextEnsured, SameContents
  <1>4. SameContents(snaps, first) /\ SameContents(snaps, e)
    BY <1>2, <1>3, GrownSameContents, SameContentsTwice
  <1>5. ASSUME ~overlapped'
        PROVE  History' /\ \E t \in DOMAIN e : e[t].version = row'.version /\ e[t].from = next
    <2>1. row.version = Len(saved) /\ s.read.version = row.version /\ saved \in Seq(Drafts)
      BY <1>1, <1>5 DEF History, TypeInv
    <2>2. v = Len(saved) + 1
      BY <2>1
    <2>3. row.content = s.read.content
      <3>1. Remembers(snaps, saved, s) /\ saved[row.version] = row.content
        BY DEF History
      <3>2. QED
        BY <2>1, <3>1 DEF Remembers
    <2>4. PICK h : h = Append(saved, d)
      OBVIOUS
    <2>5. row'.content = d /\ saved' = h
      BY <1>1, <1>5, <2>3, <2>4
    <2>6. Complete(first, saved, s.read.version)
      <3>1. Complete(snaps, saved, s.read.version)
        BY <2>1 DEF History
      <3>2. QED
        BY <1>2, <3>1, GrownComplete
    <2>7. OneVersionMore(first, saved, v, d, next, h, e)
      BY <1>2, <2>1, <2>2, <2>4, <2>6, NextGrown
    <2>8. /\ Extends(saved, h) /\ Len(h) = v /\ v \in DOMAIN h /\ h[v] = d
          /\ Recorded(first, h) /\ Complete(first, h, v)
          /\ Recorded(e, h) /\ Complete(e, h, v) /\ Grown(first, e)
          /\ \E t \in DOMAIN e : e[t].version = v /\ e[t].from = next
      BY <2>7 DEF OneVersionMore
    <2>9. Grown(snaps, e)
      BY <1>2, <2>8, GrownTwice
    <2>10. Recorded(snaps', saved') /\ Complete(snaps', saved', row'.version) /\ Grown(snaps, snaps')
      BY <1>1, <1>2, <2>5, <2>8, <2>9
    <2>11. /\ row'.version = Len(saved') /\ row'.version \in DOMAIN saved'
           /\ saved'[row'.version] = row'.content /\ Extends(saved, saved')
      BY <1>1, <2>5, <2>8
    <2>12. History'
      BY <2>10, <2>11, HistoryOfFinish
    <2>13. QED
      BY <1>1, <2>8, <2>12
  <1>6. QED
    BY <1>4, <1>5 DEF Advances, HistoryInv

LEMMA HistoryOfAdvance ==
    ASSUME TypeInv, ViewInv, BoundInv, HistoryInv, NEW c \in Clients, NEW s, s = session[c],
           s.pc = "commit", NEW type \in {"draft", "restore_backup"}, NEW next \in Nat,
           NEW d \in Drafts, NEW from, from = Provenance(s),
           NEW first, first = Ensure(snaps, s.id, s.loaded,
                                     Snap(s.read.version, s.read.content, type, from), FALSE),
           NEW e, e = EnsureNext(first, s.read.version + 1, d, next),
           NEW all, all = first \/ all = e, snaps' = all, Advance(s, d), Finish(c)
    PROVE  Advances(all, next, e)
  <1>1. SessionSound(snaps, s) /\ AllSound(snaps)
    BY DEF ViewInv
  <1>2. s.read \in Row /\ s.read.version \in Nat /\ Active(s)
    BY <1>1 DEF SessionSound, Active, Row
  <1>3. CASE overlapped
    <2>1. overlapped'
      BY <1>2, <1>3, Advanced, SMTT(60)
    <2>2. QED
      BY <1>3, <2>1 DEF Advances, HistoryInv
  <1>4. CASE ~overlapped
    <2>1. History /\ Remembers(snaps, saved, s) /\ Recorded(snaps, saved)
      BY <1>4 DEF HistoryInv, History
    <2>2. type \in Types /\ type # "publish" /\ from \in Nat
      BY <1>1, ProvenanceType DEF Types
    <2>3. /\ first \in Seq(Snapshot) /\ AllSound(first)
          /\ \A B \in Nat : BoundedBy(snaps, B) /\ s.read.version <= B => BoundedBy(first, B)
      BY <1>1, <2>2, FirstEnsured
    <2>4. Continues(first, s.read.version)
      BY <1>1, <2>1, <2>2, FirstGrown
    <2>5. PICK B \in Nat : BoundedBy(first, B)
      BY <1>2, <2>3 DEF BoundInv
    <2>6. PICK v \in Nat : v = s.read.version + 1
      BY <1>2
    <2>7. e = EnsureNext(first, v, d, next)
      BY <2>6
    <2>8. NextEnsured(first, v, d, next, e)
      BY <2>3, <2>5, <2>7, EnsureNextSound
    <2>9. QED
      BY <1>2, <2>1, <2>3, <2>4, <2>6, <2>8, AdvanceKeeps
  <1>5. QED
    BY <1>3, <1>4

\* What a save of a client leaves of the origin of the version it read.
Inherits(c) ==
    LET s == session[c]
    IN  ~overlapped' /\ s.id # 0 /\ snaps[s.id].from # 0 =>
            \E t \in DOMAIN snaps' : /\ snaps'[t].version = row'.version
                                     /\ snaps'[t].from = snaps[s.id].from

LEMMA HistoryOfSave ==
    ASSUME TypeInv, ViewInv, BoundInv, HistoryInv, NEW c \in Clients, CommitSave(c)
    PROVE  HistoryInv' /\ (~overlapped => SameContents(snaps, snaps')) /\ Inherits(c)
  <1>1. PICK s : s = session[c]
    OBVIOUS
  <1>2. s.pc = "commit" /\ s.op = "save" /\ SessionSound(snaps, s)
    BY <1>1 DEF CommitSave, ViewInv
  <1>3. PICK from \in Nat : from = Provenance(s)
    BY <1>2, ProvenanceType
  <1>4. s.arg \in Drafts /\ s.read \in Row
    BY <1>2 DEF SessionSound, Active
  <1>5. PICK first : first = Ensure(snaps, s.id, s.loaded,
                                    Snap(s.read.version, s.read.content, "draft", from), FALSE)
    OBVIOUS
  <1>6. PICK e : e = EnsureNext(first, s.read.version + 1, s.arg, from)
    OBVIOUS
  <1>7. PICK all : all = IF from = 0 THEN first ELSE e
    OBVIOUS
  <1>8. snaps' = all /\ Advance(s, s.arg) /\ Finish(c)
    BY <1>1, <1>3, <1>5, <1>6, <1>7 DEF CommitSave
  <1>9. Advances(all, from, e)
    <2>1. all = first \/ all = e
      BY <1>7
    <2>2. QED
      BY <1>1, <1>2, <1>3, <1>4, <1>5, <1>6, <1>8, <2>1, HistoryOfAdvance, ZenonT(90)
  <1>10. ASSUME ~overlapped', s.id # 0 PROVE from = snaps[s.id].from
    <2>1. ~overlapped
      BY <1>4, <1>8, <1>10, Advanced
    <2>2. Remembers(snaps, saved, s)
      BY <1>1, <2>1 DEF HistoryInv, History
    <2>3. QED
      BY <1>2, <1>3, <1>10, <2>2 DEF Remembers, Provenance
  <1>11. QED
    BY <1>1, <1>7, <1>8, <1>9, <1>10 DEF Inherits, Advances

LEMMA HistoryOfRestore ==
    ASSUME TypeInv, ViewInv, BoundInv, HistoryInv, NEW c \in Clients, CommitRestore(c)
    PROVE  HistoryInv' /\ (~overlapped => SameContents(snaps, snaps'))
  <1>1. PICK s : s = session[c]
    OBVIOUS
  <1>2. s.pc = "commit" /\ s.op = "restore" /\ SessionSound(snaps, s)
    BY <1>1 DEF CommitRestore, ViewInv
  <1>3. PICK d \in Drafts, next \in Nat : d = s.arg.content /\ next = s.arg.id
    BY <1>2 DEF SessionSound
  <1>4. PICK from : from = Provenance(s)
    OBVIOUS
  <1>5. PICK first : first = Ensure(snaps, s.id, s.loaded,
                                    Snap(s.read.version, s.read.content, "restore_backup", from), FALSE)
    OBVIOUS
  <1>6. PICK e : e = EnsureNext(first, s.read.version + 1, d, next)
    OBVIOUS
  <1>7. snaps' = e /\ Advance(s, d) /\ Finish(c)
    BY <1>1, <1>3, <1>4, <1>5, <1>6 DEF CommitRestore
  <1>8. Advances(e, next, e)
    BY <1>1, <1>2, <1>4, <1>5, <1>6, <1>7, HistoryOfAdvance, ZenonT(90)
  <1>9. QED
    BY <1>7, <1>8 DEF Advances

LEMMA HistoryOfPublish ==
    ASSUME TypeInv, ViewInv, BoundInv, HistoryInv, NEW c \in Clients, CommitPublish(c)
    PROVE  HistoryInv' /\ (~overlapped => SameContents(snaps, snaps'))
  <1>1. PICK s : s = session[c]
    OBVIOUS
  <1>2. s.pc = "commit" /\ SessionSound(snaps, s)
    BY <1>1 DEF CommitPublish, ViewInv
  <1>3. PICK from : from = Provenance(s)
    OBVIOUS
  <1>4. PICK first : first = Ensure(snaps, s.id, s.loaded,
                                    Snap(s.read.version, s.read.content, "publish", from), TRUE)
    OBVIOUS
  <1>5. snaps' = first /\ Finish(c) /\ UNCHANGED <<saved, overlapped>>
    BY <1>1, <1>3, <1>4 DEF CommitPublish
  <1>6. row'.version = row.version /\ row'.content = row.content
    BY DEF CommitPublish, TypeInv, Row
  <1>7. ASSUME ~overlapped PROVE History' /\ SameContents(snaps, snaps')
    <2>1. History /\ Remembers(snaps, saved, s) /\ Recorded(snaps, saved)
      BY <1>1, <1>7 DEF HistoryInv, History
    <2>2. "publish" \in Types
      BY DEF Types
    <2>3. Continues(first, s.read.version)
      BY <1>2, <1>3, <1>4, <2>1, <2>2, FirstGrown
    <2>4. Grown(snaps, snaps') /\ Recorded(snaps', saved') /\ Extends(saved, saved')
      BY <1>5, <2>3, GrownSame DEF Continues
    <2>5. Complete(snaps, saved, row.version)
      BY <2>1 DEF History
    <2>6. Complete(snaps', saved', row'.version)
      <3>1. PICK new : new = snaps'
        OBVIOUS
      <3>2. Complete(new, saved, row.version)
        BY <2>4, <2>5, <3>1, GrownComplete
      <3>3. QED
        BY <1>5, <1>6, <3>1, <3>2
    <2>7. /\ row'.version = Len(saved') /\ row'.version \in DOMAIN saved'
          /\ saved'[row'.version] = row'.content
      BY <1>5, <1>6, <2>1 DEF History
    <2>8. History'
      BY <1>5, <2>1, <2>4, <2>6, <2>7, HistoryOfFinish
    <2>9. SameContents(snaps, snaps')
      BY <2>4 DEF Grown, SameContents
    <2>10. QED
      BY <2>8, <2>9
  <1>8. QED
    BY <1>5, <1>7 DEF HistoryInv

LEMMA HistoryOfResolve ==
    ASSUME TypeInv, ViewInv, BoundInv, HistoryInv, NEW c \in Clients, Resolve(c)
    PROVE  HistoryInv' /\ (~overlapped => SameContents(snaps, snaps'))
  <1>1. PICK s : s = session[c]
    OBVIOUS
  <1>2. PICK r : r = s.read
    OBVIOUS
  <1>3. s.pc = "resolve" /\ Active(s) /\ r \in Row
    BY <1>1, <1>2 DEF Resolve, ViewInv, SessionSound, Active
  <1>4. PICK made : made = Backfill(r)
    OBVIOUS
  <1>5. /\ Finish(c) /\ UNCHANGED <<saved, overlapped>>
        /\ row'.version = row.version /\ row'.content = row.content
        /\ snaps' = snaps \/ \E x \in made : snaps' = Append(snaps, x)
    <2>1. row' = row \/ row' = [row EXCEPT !.pointer = Len(snaps) + 1]
      BY DEF Resolve
    <2>2. row'.version = row.version /\ row'.content = row.content
      BY <2>1 DEF TypeInv, Row
    <2>3. QED
      BY <1>1, <1>2, <1>4, <2>2 DEF Resolve
  <1>6. ASSUME History, NEW x \in made
        PROVE  /\ x \in Snapshot /\ x.version \in DOMAIN saved
               /\ x.content = saved[x.version]
    <2>1. PICK S \in SUBSET DOMAIN snaps :
             S = {y \in DOMAIN snaps : snaps[y].legacy /\ snaps[y].type # "restore_backup"}
      OBVIOUS
    <2>2. PICK old : old = Newest(snaps, S)
      OBVIOUS
    <2>3. made = IF old # 0 THEN {[snaps[old] EXCEPT !.type = "publish"]}
                 ELSE IF snaps = << >> THEN {Snap(r.version, r.content, "publish", 0)}
                 ELSE {}
      BY <1>4, <2>1, <2>2 DEF Backfill
    <2>4. CASE old # 0
      <3>1. snaps \in Seq(Snapshot) /\ \E B \in Nat : BoundedBy(snaps, B)
        BY DEF TypeInv, BoundInv
      <3>2. old \in DOMAIN snaps
        BY <2>2, <2>4, <3>1, NewestFound
      <3>3. x = [snaps[old] EXCEPT !.type = "publish"]
        BY <2>3, <2>4
      <3>4. snaps[old] \in Snapshot
        BY <3>1, <3>2, SnapshotsShape
      <3>5. /\ x \in Snapshot /\ x.content = snaps[old].content
            /\ x.version = snaps[old].version
        BY <3>3, <3>4 DEF Snapshot, Types
      <3>6. Recorded(snaps, saved)
        BY <1>6 DEF History
      <3>7. QED
        BY <3>2, <3>5, <3>6 DEF Recorded
    <2>5. CASE old = 0
      <3>1. x = Snap(r.version, r.content, "publish", 0)
        BY <2>3, <2>5
      <3>2. x \in Snapshot /\ x.content = r.content /\ x.version = r.version
        BY <1>3, <3>1, SnapType DEF Types, Row
      <3>3. Remembers(snaps, saved, s)
        BY <1>1, <1>6 DEF History
      <3>4. QED
        BY <1>2, <1>3, <3>2, <3>3 DEF Remembers
    <2>6. QED
      BY <2>4, <2>5
  <1>7. ASSUME History PROVE History' /\ SameContents(snaps, snaps')
    <2>1. PICK new : new = snaps'
      OBVIOUS
    <2>2. Grown(snaps, new) /\ Recorded(new, saved)
      <3>1. Recorded(snaps, saved)
        BY <1>7 DEF History
      <3>2. CASE new = snaps
        BY <3>1, <3>2, GrownSame
      <3>3. CASE \E x \in made : new = Append(snaps, x)
        <4>1. PICK x \in Snapshot : /\ new = Append(snaps, x) /\ x.version \in DOMAIN saved
                                    /\ x.content = saved[x.version]
          BY <1>6, <1>7, <3>3
        <4>2. PICK n : n = Len(snaps) + 1
          OBVIOUS
        <4>3. /\ DOMAIN new = DOMAIN snaps \cup {n} /\ new[n] = x
              /\ \A y \in DOMAIN snaps : new[y] = snaps[y]
          <5>1. snaps \in Seq(Snapshot)
            BY DEF TypeInv
          <5>2. /\ Len(new) = Len(snaps) + 1 /\ new[Len(snaps) + 1] = x /\ new \in Seq(Snapshot)
                /\ \A y \in 1..Len(snaps) : new[y] = snaps[y]
            BY <4>1, <5>1, AppendProperties
          <5>3. DOMAIN new = 1..Len(new) /\ DOMAIN snaps = 1..Len(snaps) /\ Len(snaps) \in Nat
            BY <5>1, <5>2, SnapshotsShape
          <5>4. QED
            BY <4>2, <5>2, <5>3
        <4>4. QED
          BY <3>1, <4>1, <4>3 DEF Grown, Recorded
      <3>4. QED
        BY <1>5, <2>1, <3>2, <3>3
    <2>3. Complete(new, saved, row.version)
      <3>1. Complete(snaps, saved, row.version)
        BY <1>7 DEF History
      <3>2. QED
        BY <2>2, <3>1, GrownComplete
    <2>4. /\ Grown(snaps, snaps') /\ Recorded(snaps', saved') /\ Extends(saved, saved')
          /\ Complete(snaps', saved', row'.version)
      BY <1>5, <2>1, <2>2, <2>3, GrownSame
    <2>5. /\ row'.version = Len(saved') /\ row'.version \in DOMAIN saved'
          /\ saved'[row'.version] = row'.content
      BY <1>5, <1>7 DEF History
    <2>6. History'
      BY <1>5, <1>7, <2>4, <2>5, HistoryOfFinish
    <2>7. SameContents(snaps, snaps')
      BY <2>1, <2>2, GrownSameContents
    <2>8. QED
      BY <2>6, <2>7
  <1>8. QED
    BY <1>5, <1>7 DEF HistoryInv

LEMMA HistoryOfOthers ==
    ASSUME TypeInv, HistoryInv, NEW c \in Clients, Delete(c) \/ Run(c)
    PROVE  HistoryInv' /\ SameContents(snaps, snaps')
  <1>1. UNCHANGED <<snaps, session, saved, overlapped>>
    BY DEF Delete, Run
  <1>2. row'.version = row.version /\ row'.content = row.content
    BY DEF Delete, Run, TypeInv, Row
  <1>3. QED
    BY <1>1, <1>2 DEF HistoryInv, History, SameContents

LEMMA HistoryOfInit == Init => HistoryInv
  <1>1. SUFFICES ASSUME Init PROVE History
    BY DEF HistoryInv
  <1>2. \A c \in Clients : session[c] = Idle
    BY <1>1 DEF Init
  <1>3. PICK d \in Drafts, e \in Drafts :
           \/ row.version = 1 /\ row.content = d /\ snaps = << >> /\ saved = <<d>>
           \/ /\ row.version = 2 /\ row.content = e
              /\ snaps = <<[Snap(1, d, "draft", 0) EXCEPT !.legacy = TRUE]>> /\ saved = <<d, e>>
    <2>1. PICK d \in Drafts, e \in Drafts :
           \/ /\ row = [version |-> 1, content |-> d, published |-> FALSE,
                        pointer |-> 0, deleted |-> FALSE]
              /\ snaps = << >> /\ saved = <<d>>
           \/ /\ Publishable(d)
              /\ row = [version |-> 1, content |-> d, published |-> TRUE,
                        pointer |-> 0, deleted |-> FALSE]
              /\ snaps = << >> /\ saved = <<d>>
           \/ /\ Publishable(d)
              /\ row = [version |-> 2, content |-> e, published |-> TRUE,
                        pointer |-> 0, deleted |-> FALSE]
              /\ snaps = <<[Snap(1, d, "draft", 0) EXCEPT !.legacy = TRUE]>>
              /\ saved = <<d, e>>
      BY <1>1 DEF Init
    <2>2. \/ row.version = 1 /\ row.content = d /\ snaps = << >> /\ saved = <<d>>
          \/ /\ row.version = 2 /\ row.content = e
             /\ snaps = <<[Snap(1, d, "draft", 0) EXCEPT !.legacy = TRUE]>> /\ saved = <<d, e>>
      BY <2>1
    <2>3. QED
      BY <2>2
  <1>4. PICK x : x = [Snap(1, d, "draft", 0) EXCEPT !.legacy = TRUE]
    OBVIOUS
  <1>5. x.version = 1 /\ x.content = d
    BY <1>4 DEF Snap
  <1>6. CASE row.version = 1 /\ row.content = d /\ snaps = << >> /\ saved = <<d>>
    <2>1. DOMAIN saved = {1} /\ saved[1] = d /\ Len(saved) = 1 /\ DOMAIN snaps = {}
      BY <1>6
    <2>2. QED
      BY <1>2, <1>6, <2>1, IdleRemembers DEF History, Recorded, Complete
  <1>7. CASE row.version = 2 /\ row.content = e /\ snaps = <<x>> /\ saved = <<d, e>>
    <2>1. /\ DOMAIN saved = {1, 2} /\ saved[1] = d /\ saved[2] = e /\ Len(saved) = 2
          /\ DOMAIN snaps = {1} /\ snaps[1] = x
      BY <1>7
    <2>2. QED
      BY <1>2, <1>5, <1>7, <2>1, IdleRemembers DEF History, Recorded, Complete
  <1>8. QED
    BY <1>3, <1>4, <1>6, <1>7

LEMMA HistoryOfNext ==
    ASSUME TypeInv, ViewInv, BoundInv, HistoryInv, [Next]_vars
    PROVE  /\ HistoryInv' /\ (~overlapped => SameContents(snaps, snaps'))
           /\ UNCHANGED session \/ \E c \in Clients :
                 /\ \A d \in Clients \ {c} : session'[d] = session[d]
                 /\ session[c].pc = "commit" /\ session[c].op = "save" => Inherits(c)
  <1>1. CASE UNCHANGED vars
    BY <1>1 DEF vars, HistoryInv, History, SameContents
  <1>2. CASE Next
    <2>1. PICK c \in Clients :
             \/ BeginSave(c) \/ BeginPublish(c) \/ BeginRestore(c) \/ BeginView(c)
             \/ FindSnapshot(c)
             \/ CommitSave(c) \/ CommitRestore(c) \/ CommitPublish(c)
             \/ Delete(c) \/ Resolve(c) \/ Run(c)
      BY <1>2 DEF Next
    <2>2. HistoryInv' /\ (~overlapped => SameContents(snaps, snaps'))
      BY <2>1, HistoryOfBegin, HistoryOfFind, HistoryOfSave, HistoryOfRestore, HistoryOfPublish,
         HistoryOfOthers, HistoryOfResolve
    <2>3. \E t : session' = [session EXCEPT ![c] = t]
      <3>1. session = [session EXCEPT ![c] = session[c]]
        BY DEF TypeInv
      <3>2. QED
        BY <2>1, <3>1 DEF BeginSave, BeginPublish, BeginRestore, BeginView, Begin, FindSnapshot,
           CommitSave, CommitRestore, CommitPublish, Finish, Delete, Resolve, Run
    <2>4. \A d \in Clients \ {c} : session'[d] = session[d]
      BY <2>3 DEF TypeInv
    <2>5. session[c].pc = "commit" /\ session[c].op = "save" => Inherits(c) \/ UNCHANGED session
      <3>1. ASSUME session[c].pc = "commit", session[c].op = "save"
            PROVE  CommitSave(c) \/ UNCHANGED session
        <4>1. session[c] # Idle
          BY <3>1 DEF Idle
        <4>2. QED
          BY <2>1, <3>1, <4>1 DEF BeginSave, BeginPublish, BeginRestore, BeginView, Begin,
             FindSnapshot, CommitRestore, CommitPublish, Delete, Resolve, Run
      <3>2. QED
        BY <3>1, HistoryOfSave
    <2>6. QED
      BY <2>2, <2>4, <2>5
  <1>3. QED
    BY <1>1, <1>2

LEMMA SafeNext ==
    /\ Init => TypeInv /\ ViewInv /\ BoundInv /\ HistoryInv
    /\ TypeInv /\ ViewInv /\ BoundInv /\ HistoryInv /\ [Next]_vars =>
           (TypeInv /\ ViewInv /\ BoundInv /\ HistoryInv)'
  BY ViewOfInit, HistoryOfInit, ViewOfNext, HistoryOfNext

\* As long as no save was committed over a newer one, compare_versions finds every
\* version that was ever saved, with the content it was saved with.
THEOREM EveryVersionAlwaysKept == Spec => []EveryVersionKept
  <1>1. TypeInv /\ BoundInv /\ HistoryInv => EveryVersionKept
    <2>1. SUFFICES ASSUME TypeInv, BoundInv, History, NEW v \in DOMAIN saved
                   PROVE  Comparable(v, v) /\ LoadVersion(v) = saved[v]
      BY DEF EveryVersionKept, HistoryInv
    <2>2. PICK id : id = VersionSnapshot(v)
      OBVIOUS
    <2>3. /\ id = 0 => \A s \in DOMAIN snaps : snaps[s].version # v
          /\ id # 0 => id \in DOMAIN snaps /\ snaps[id].version = v
      BY <2>1, <2>2, SnapshotOfFound DEF VersionSnapshot, BoundInv, TypeInv
    <2>4. v # row.version => id # 0 /\ snaps[id].content = saved[v]
      BY <2>1, <2>3 DEF History, Recorded, Complete
    <2>5. v = row.version => row.content = saved[v]
      BY <2>1 DEF History
    <2>6. QED
      BY <2>2, <2>4, <2>5 DEF Comparable, LoadVersion
  <1>2. QED
    BY SafeNext, <1>1, PTL DEF Spec

\* Until two saves overlap, no snapshot of a version changes its content: a save
\* does not refresh it, and a publication finds what it would write there already.
THEOREM VersionsStayFrozen == Spec => VersionsFrozen
  <1>1. TypeInv /\ ViewInv /\ BoundInv /\ HistoryInv /\ [Next]_vars =>
           [\A s \in DOMAIN snaps : snaps'[s].content # snaps[s].content => overlapped]_vars
    BY HistoryOfNext DEF SameContents
  <1>2. QED
    BY SafeNext, <1>1, PTL DEF Spec, VersionsFrozen

\* A save passes the origin of the version it read on to the one it makes, so a
\* restored draft is still known as one when it is published.
THEOREM LineageAlwaysKept == Spec => LineageKept
  <1>. DEFINE Step == \A c \in Clients :
                         LET s == session[c]
                         IN  /\ s.pc = "commit" /\ session'[c] = Idle /\ s.op = "save"
                             /\ ~overlapped' /\ s.id # 0 /\ snaps[s.id].from # 0
                             => \E t \in DOMAIN snaps' : /\ snaps'[t].version = row'.version
                                                         /\ snaps'[t].from = snaps[s.id].from
  <1>1. TypeInv /\ ViewInv /\ BoundInv /\ HistoryInv /\ [Next]_vars => [Step]_vars
    <2>1. SUFFICES ASSUME TypeInv, ViewInv, BoundInv, HistoryInv, [Next]_vars, NEW c \in Clients,
                          session[c].pc = "commit", session'[c] = Idle, session[c].op = "save"
                   PROVE  Inherits(c)
      BY DEF Inherits
    <2>2. session'[c] # session[c]
      BY <2>1 DEF Idle
    <2>3. QED
      BY <2>1, <2>2, HistoryOfNext
  <1>2. QED
    BY SafeNext, <1>1, PTL DEF Spec, LineageKept

-----------------------------------------------------------------------------
(* The searches of the validator. *)

Searches(visited, U, seeds, edges) ==
    /\ visited \in [0..Cardinality(edges) -> SUBSET U] /\ visited[0] = seeds
    /\ \A k \in 1..Cardinality(edges) : visited[k] = CollectNeighbours(visited[k - 1], edges)
    /\ CollectReachable(seeds, edges) = visited[Cardinality(edges)]

LEMMA SearchRounds ==
    ASSUME NEW U, NEW seeds \in SUBSET U, NEW edges \in SUBSET (U \X U), IsFiniteSet(edges)
    PROVE  \E visited : Searches(visited, U, seeds, edges)
  <1>. DEFINE n == Cardinality(edges)
              R == {<<k, X, CollectNeighbours(X, edges)>> : k \in 1..n, X \in SUBSET U}
              visited[k \in 0..n] ==
                IF k = 0 THEN seeds ELSE CollectNeighbours(visited[k - 1], edges)
  <1>1. n \in Nat
    BY FS_CardinalityType
  <1>2. CollectReachable(seeds, edges) = visited[n]
    BY DEF CollectReachable
  <1>3. \A X \in SUBSET U : CollectNeighbours(X, edges) \in SUBSET U
    BY DEF CollectNeighbours
  <1>4. PICK f : Stepwise(n, SUBSET U, seeds, R, f)
    <2>1. \A k \in 1..n : \A X \in SUBSET U : <<k, X, CollectNeighbours(X, edges)>> \in R
      OBVIOUS
    <2>. HIDE DEF n, R
    <2>2. \A k \in 1..n : \A X \in SUBSET U : \E Y \in SUBSET U : <<k, X, Y>> \in R
      BY <1>3, <2>1
    <2>3. QED
      BY <1>1, <2>2, RecursionExists
  <1>5. f = [k \in 0..n |-> IF k = 0 THEN seeds ELSE CollectNeighbours(f[k - 1], edges)]
    <2>1. f \in [0..n -> SUBSET U] /\ f[0] = seeds
          /\ \A k \in 1..n : f[k] = CollectNeighbours(f[k - 1], edges)
      BY <1>4 DEF Stepwise
    <2>. HIDE DEF n
    <2>2. \A k \in 0..n : k # 0 => k \in 1..n
      BY <1>1
    <2>3. QED
      BY <2>1, <2>2
  <1>6. visited = [k \in 0..n |-> IF k = 0 THEN seeds ELSE CollectNeighbours(visited[k - 1], edges)]
    <2>. HIDE DEF n
    <2>1. QED
     BY <1>5, Zenon
  <1>. HIDE DEF visited, n, R
  <1>7. /\ visited = [k \in 0..n |-> visited[k]] /\ visited[0] = seeds
        /\ \A k \in 1..n : visited[k] = CollectNeighbours(visited[k - 1], edges)
    BY <1>1, <1>6
  <1>8. visited \in [0..n -> SUBSET U]
    <2>1. \A X \in SUBSET U : CollectNeighbours(X, edges) \in SUBSET U
      BY DEF CollectNeighbours
    <2>. DEFINE S == SUBSET U
    <2>2. visited[0] \in S /\ \A k \in 1..n : visited[k - 1] \in S => visited[k] \in S
      BY <1>7, <2>1
    <2>. HIDE DEF S
    <2>3. visited \in [0..n -> S]
      BY <1>1, <1>7, <2>2, RecursionTyped
    <2>4. QED
      BY <2>3 DEF S
  <1>9. QED
    BY <1>2, <1>7, <1>8 DEF Searches, n

\* A search finds what the edges lead to, and no more.
Closed(S, edges) == \A e \in edges : e[1] \in S => e[2] \in S

Found(R, U, seeds, edges) ==
    /\ R \in SUBSET U /\ seeds \subseteq R /\ Closed(R, edges)
    /\ \A S : seeds \subseteq S /\ Closed(S, edges) => R \subseteq S

LEMMA SearchClosed ==
    ASSUME NEW U, NEW seeds \in SUBSET U, NEW edges \in SUBSET (U \X U), IsFiniteSet(edges)
    PROVE  Found(CollectReachable(seeds, edges), U, seeds, edges)
  <1>. DEFINE n == Cardinality(edges)
  <1>1. n \in Nat
    BY FS_CardinalityType
  <1>. PICK visited : Searches(visited, U, seeds, edges)
    BY SearchRounds
  <1>2. /\ visited \in [0..n -> SUBSET U] /\ visited[0] = seeds
        /\ \A k \in 1..n : visited[k] = CollectNeighbours(visited[k - 1], edges)
        /\ CollectReachable(seeds, edges) = visited[n]
    BY DEF Searches
  <1>. HIDE DEF n
  <1>3. \A X \in SUBSET U : X \subseteq CollectNeighbours(X, edges)
    BY DEF CollectNeighbours
  <1>4. seeds \subseteq visited[n]
    <2>. DEFINE P == {k \in 0..n : seeds \subseteq visited[k]}
    <2>1. 0 \in P /\ \A k \in 1..n : k - 1 \in P => k \in P
      BY <1>1, <1>2, <1>3
    <2>2. \A k \in 0..n : k \in P
      <3>. HIDE DEF P
      <3>1. QED
        BY <1>1, <2>1, HoldsUpTo
    <2>3. QED
      BY <1>1, <2>2
  <1>5. ASSUME NEW S, seeds \subseteq S, Closed(S, edges) PROVE visited[n] \subseteq S
    <2>. DEFINE P == {k \in 0..n : visited[k] \subseteq S}
    <2>1. 0 \in P
      BY <1>1, <1>2, <1>5
    <2>2. ASSUME NEW k \in 1..n, k - 1 \in P PROVE k \in P
      BY <1>2, <1>5, <2>2 DEF CollectNeighbours, Closed
    <2>3. \A k \in 0..n : k \in P
      <3>. HIDE DEF P
      <3>1. QED
        BY <1>1, <2>1, <2>2, HoldsUpTo
    <2>4. QED
      BY <1>1, <2>3
  <1>6. CollectNeighbours(visited[n], edges) = visited[n]
    <2>. DEFINE T == {e[2] : e \in edges}
                Stop == {k \in 0..n : CollectNeighbours(visited[k], edges) = visited[k]}
    <2>1. IsFiniteSet(T) /\ Cardinality(T) <= n
      BY FiniteEnds DEF n
    <2>2. \A k \in 0..n : visited[k] \subseteq visited[0] \cup T
      <3>. DEFINE P == {k \in 0..n : visited[k] \subseteq visited[0] \cup T}
      <3>1. 0 \in P
        BY <1>1
      <3>2. \A X : CollectNeighbours(X, edges) \subseteq X \cup T
        BY DEF CollectNeighbours
      <3>3. \A k \in 1..n : k - 1 \in P => k \in P
        BY <1>2, <3>2
      <3>4. \A k \in 0..n : k \in P
        <4>. HIDE DEF P
        <4>1. QED
          BY <1>1, <3>1, <3>3, HoldsUpTo
      <3>5. QED
        BY <3>4
    <2>3. ASSUME NEW k \in 1..n
          PROVE  /\ visited[k - 1] \subseteq visited[k] /\ (k - 1 \in Stop => k \in Stop)
                 /\ k - 1 \notin Stop => visited[k] # visited[k - 1]
      <3>1. k \in 0..n /\ k - 1 \in 0..n /\ visited[k] = CollectNeighbours(visited[k - 1], edges)
        BY <1>1, <1>2
      <3>2. QED
        BY <3>1 DEF CollectNeighbours
    <2>4. visited[n] = visited[0] \cup T => n \in Stop
      BY <1>1 DEF CollectNeighbours
    <2>. HIDE DEF T, Stop
    <2>5. n \in Stop
      BY <1>1, <2>1, <2>2, <2>3, <2>4, ChainStops
    <2>6. QED
      BY <2>5 DEF Stop
  <1>7. Closed(visited[n], edges)
    BY <1>6 DEF CollectNeighbours, Closed
  <1>8. visited[n] \in SUBSET U
    BY <1>1, <1>2
  <1>9. QED
    BY <1>2, <1>4, <1>5, <1>7, <1>8 DEF Found

-----------------------------------------------------------------------------
(* What lies behind a node, and cycles. *)

LEMMA DefinitionShape ==
    ASSUME NEW d \in Definition
    PROVE  /\ Len(d.types) \in Nat /\ NodeIds(d) = 1..Len(d.types)
           /\ IsFiniteSet(NodeIds(d)) /\ Cardinality(NodeIds(d)) = Len(d.types)
           /\ Connected(d) \in SUBSET (NodeIds(d) \X NodeIds(d)) /\ IsFiniteSet(Connected(d))
           /\ Adjacent(d) = {e \in Connected(d) : e[1] # e[2]} /\ IsFiniteSet(Adjacent(d))
  <1>1. d.types \in Seq(STRING) /\ d.edges \in Seq(Nat \X Nat)
    BY DEF Definition
  <1>2. Len(d.types) \in Nat /\ NodeIds(d) = 1..Len(d.types)
    BY <1>1, LenProperties DEF NodeIds
  <1>3. IsFiniteSet(NodeIds(d)) /\ Cardinality(NodeIds(d)) = Len(d.types)
    BY <1>2, FS_Interval
  <1>4. /\ ToSet(d.edges) = {d.edges[i] : i \in 1..Len(d.edges)}
        /\ Len(d.edges) \in Nat /\ d.edges = [i \in 1..Len(d.edges) |-> d.edges[i]]
    BY <1>1, LenProperties DEF ToSet
  <1>5. IsFiniteSet(ToSet(d.edges))
    BY <1>4, FiniteRange
  <1>6. Connected(d) \subseteq ToSet(d.edges) /\ ToSet(d.edges) \subseteq Nat \X Nat
    BY <1>1, <1>4, ElementOfSeq, SMTT(60) DEF Connected
  <1>7. Connected(d) \in SUBSET (NodeIds(d) \X NodeIds(d))
    BY <1>6 DEF Connected
  <1>8. Adjacent(d) = {e \in Connected(d) : e[1] # e[2]}
    BY DEF Adjacent
  <1>9. IsFiniteSet(Connected(d)) /\ IsFiniteSet(Adjacent(d))
    BY <1>5, <1>6, <1>8, FS_Subset
  <1>10. QED
    BY <1>2, <1>3, <1>7, <1>8, <1>9

LEMMA FollowingClosed ==
    ASSUME NEW d, NEW edges \in SUBSET (NodeIds(d) \X NodeIds(d)), NEW i \in NodeIds(d)
    PROVE  /\ Following(d, i, edges) \in SUBSET NodeIds(d)
           /\ \A e \in edges : e[1] \in Following(d, i, edges) \cup {i} => e[2] \in Following(d, i, edges)
           /\ \A S \in SUBSET NodeIds(d) :
                (\A e \in edges : e[1] \in S \cup {i} => e[2] \in S) => Following(d, i, edges) \subseteq S
  BY DEF Following

\* Every node behind i has an edge from i or from another node behind i.
LEMMA FollowingReached ==
    ASSUME NEW d, NEW edges \in SUBSET (NodeIds(d) \X NodeIds(d)), NEW i \in NodeIds(d),
           NEW j \in Following(d, i, edges)
    PROVE  \E e \in edges : e[2] = j /\ e[1] \in Following(d, i, edges) \cup {i}
  <1>. DEFINE F == Following(d, i, edges)
              S == {k \in F : \E e \in edges : e[2] = k /\ e[1] \in F \cup {i}}
  <1>1. /\ F \in SUBSET NodeIds(d) /\ \A e \in edges : e[1] \in F \cup {i} => e[2] \in F
        /\ \A T \in SUBSET NodeIds(d) : (\A e \in edges : e[1] \in T \cup {i} => e[2] \in T) => F \subseteq T
    BY FollowingClosed
  <1>. HIDE DEF F
  <1>2. S \in SUBSET NodeIds(d) /\ S \subseteq F
    BY <1>1
  <1>3. \A e \in edges : e[1] \in S \cup {i} => e[2] \in S
    BY <1>1
  <1>4. F \subseteq S
    <2>. HIDE DEF S
    <2>1. QED
      BY <1>1, <1>2, <1>3
  <1>5. QED
    BY <1>4 DEF F

LEMMA FollowingGrows ==
    ASSUME NEW d, NEW edges \in SUBSET (NodeIds(d) \X NodeIds(d)), NEW i \in NodeIds(d),
           NEW j \in Following(d, i, edges)
    PROVE  Following(d, j, edges) \subseteq Following(d, i, edges)
  <1>. DEFINE F == Following(d, i, edges)
  <1>1. j \in NodeIds(d)
    BY FollowingClosed
  <1>2. F \in SUBSET NodeIds(d) /\ \A e \in edges : e[1] \in F \cup {j} => e[2] \in F
    <2>1. F \in SUBSET NodeIds(d) /\ \A e \in edges : e[1] \in F \cup {i} => e[2] \in F
      BY FollowingClosed
    <2>2. j \in F
      OBVIOUS
    <2>. HIDE DEF F
    <2>3. QED
      BY <2>1, <2>2
  <1>. HIDE DEF F
  <1>3. Following(d, j, edges) \subseteq F
    BY <1>1, <1>2, FollowingClosed
  <1>4. QED
    BY <1>3 DEF F

\* What lies on a way from i to j: i is above j when j is below i.
LEMMA FollowingBackwards ==
    ASSUME NEW d, NEW edges \in SUBSET (NodeIds(d) \X NodeIds(d)), NEW i \in NodeIds(d),
           NEW j \in Following(d, i, edges)
    PROVE  i \in Following(d, j, Backwards(edges))
  <1>. DEFINE B == Backwards(edges)
              S == {k \in NodeIds(d) : i \in Following(d, k, B)}
  <1>1. B \in SUBSET (NodeIds(d) \X NodeIds(d)) /\ \A e \in edges : <<e[2], e[1]>> \in B
    BY DEF Backwards
  <1>. HIDE DEF B
  <1>2. ASSUME NEW e \in edges, e[1] \in S \cup {i} PROVE e[2] \in S
    <2>1. e[1] \in NodeIds(d) /\ e[2] \in NodeIds(d) /\ <<e[2], e[1]>> \in B
      BY <1>1
    <2>2. e[1] \in Following(d, e[2], B)
      BY <1>1, <2>1, FollowingClosed
    <2>3. Following(d, e[1], B) \subseteq Following(d, e[2], B)
      BY <1>1, <2>1, <2>2, FollowingGrows
    <2>4. QED
      BY <1>2, <2>1, <2>2, <2>3
  <1>3. Following(d, i, edges) \subseteq S
    <2>1. S \in SUBSET NodeIds(d)
      OBVIOUS
    <2>. HIDE DEF S
    <2>2. QED
      BY <1>2, <2>1, FollowingClosed
  <1>4. QED
    BY <1>3 DEF B

\* A set whose members all have an edge from a member: none of them is ever ready.
Knot(d, R) ==
    /\ R \in SUBSET NodeIds(d) /\ R # {}
    /\ \A i \in R : \E e \in Connected(d) : e[2] = i /\ e[1] \in R

LEMMA KnotIsCycle ==
    ASSUME NEW d \in Definition
    PROVE  (\E R : Knot(d, R)) <=> \E i \in NodeIds(d) : i \in Below(d, i)
  <1>. DEFINE N == NodeIds(d)
              E == Connected(d)
  <1>1. IsFiniteSet(N) /\ E \in SUBSET (N \X N)
    BY DefinitionShape
  <1>2. ASSUME NEW i \in N, i \in Below(d, i) PROVE Knot(d, Below(d, i))
    <2>1. Below(d, i) \in SUBSET N
      BY <1>1, FollowingClosed DEF Below
    <2>2. \A j \in Below(d, i) : \E e \in E : e[2] = j /\ e[1] \in Below(d, i) \cup {i}
      BY <1>1, FollowingReached DEF Below
    <2>3. QED
      BY <1>2, <2>1, <2>2 DEF Knot
  <1>3. ASSUME NEW R, Knot(d, R), \A i \in N : i \notin Below(d, i) PROVE FALSE
    <2>. DEFINE Size(i) == Cardinality(Below(d, i))
                T == {Size(i) : i \in R}
    <2>1. R \in SUBSET N /\ R # {}
      BY <1>3 DEF Knot
    <2>2. \A i \in N : Below(d, i) \in SUBSET N
      BY <1>1, FollowingClosed DEF Below
    <2>3. \A i \in N : IsFiniteSet(Below(d, i)) /\ Size(i) \in Nat /\ Size(i) <= Cardinality(N)
      BY <1>1, <2>2, FS_Subset, FS_CardinalityType
    <2>4. PICK m \in T : \A s \in T : s <= m
      <3>. HIDE DEF Size
      <3>1. T \in SUBSET Nat /\ T # {} /\ \A s \in T : s <= Cardinality(N)
        BY <2>1, <2>3
      <3>2. Cardinality(N) \in Nat
        BY <1>1, FS_CardinalityType
      <3>. HIDE DEF T
      <3>3. QED
        BY <3>1, <3>2, HasLargest
    <2>5. PICK i \in R : m = Size(i)
      OBVIOUS
    <2>6. PICK e \in E : e[2] = i /\ e[1] \in R
      BY <1>3 DEF Knot
    <2>7. e[1] \in N /\ i \in N /\ i \in Below(d, e[1])
      BY <1>1, <2>1, <2>6, FollowingClosed DEF Below
    <2>8. Below(d, i) \subseteq Below(d, e[1])
      BY <1>1, <2>7, FollowingGrows DEF Below
    <2>9. Below(d, i) # Below(d, e[1])
      BY <1>3, <2>7
    <2>10. Size(i) < Size(e[1])
      <3>1. Size(i) <= Size(e[1]) /\ Size(i) # Size(e[1])
        BY <2>3, <2>7, <2>8, <2>9, FS_Subset
      <3>. HIDE DEF Size
      <3>2. QED
        BY <2>3, <2>7, <3>1
    <2>11. Size(e[1]) <= Size(i)
      BY <2>4, <2>5, <2>6
    <2>. HIDE DEF Size
    <2>12. QED
      BY <2>3, <2>7, <2>10, <2>11
  <1>4. QED
    BY <1>2, <1>3

\* The search from a node.
LEMMA SearchFindsBelow ==
    ASSUME NEW d \in Definition, NEW i \in NodeIds(d)
    PROVE  CollectReachable({i}, Adjacent(d)) = {i} \cup Below(d, i)
  <1>. DEFINE N == NodeIds(d)
              A == Adjacent(d)
              R == CollectReachable({i}, A)
              F == Below(d, i)
  <1>1. /\ A \in SUBSET (N \X N) /\ IsFiniteSet(A) /\ A = {e \in Connected(d) : e[1] # e[2]}
        /\ Connected(d) \in SUBSET (N \X N)
    BY DefinitionShape
  <1>2. /\ F \in SUBSET N /\ \A e \in Connected(d) : e[1] \in F \cup {i} => e[2] \in F
        /\ \A S \in SUBSET N : (\A e \in Connected(d) : e[1] \in S \cup {i} => e[2] \in S) => F \subseteq S
    BY <1>1, FollowingClosed DEF Below
  <1>3. /\ R \in SUBSET N /\ i \in R /\ Closed(R, A)
        /\ \A S : {i} \subseteq S /\ Closed(S, A) => R \subseteq S
    <2>1. {i} \in SUBSET N
      OBVIOUS
    <2>2. Found(R, N, {i}, A)
      BY <1>1, <2>1, SearchClosed
    <2>. HIDE DEF N, A, R
    <2>3. QED
      BY <2>2 DEF Found
  <1>. HIDE DEF A, R, F
  <1>4. R \subseteq {i} \cup F
    <2>1. Closed({i} \cup F, A)
      BY <1>1, <1>2 DEF Closed
    <2>2. QED
      BY <1>3, <2>1
  <1>5. \A e \in Connected(d) : e[1] \in R \cup {i} => e[2] \in R
    BY <1>1, <1>3 DEF Closed
  <1>6. F \subseteq R
    BY <1>2, <1>3, <1>5
  <1>7. R = {i} \cup F
    BY <1>3, <1>4, <1>6
  <1>8. QED
    BY <1>7 DEF A, R, F

\* The rounds of the peeling.
Peels(d, peeled) ==
    /\ peeled \in [0..Len(d.types) -> SUBSET NodeIds(d)] /\ peeled[0] = {}
    /\ \A k \in 1..Len(d.types) : peeled[k] = peeled[k - 1] \cup Ready(d, peeled[k - 1])
    /\ HasCycle(d) <=> peeled[Len(d.types)] # NodeIds(d)

LEMMA PeelingRounds ==
    ASSUME NEW d \in Definition
    PROVE  \E peeled : Peels(d, peeled)
  <1>. DEFINE n == Len(d.types)
              S == SUBSET NodeIds(d)
              R == {<<k, X, X \cup Ready(d, X)>> : k \in 1..n, X \in S}
              peeled[k \in 0..n] ==
                IF k = 0 THEN {} ELSE LET done == peeled[k - 1] IN done \cup Ready(d, done)
  <1>1. n \in Nat
    BY DefinitionShape
  <1>2. HasCycle(d) <=> peeled[n] # NodeIds(d)
    BY DEF HasCycle
  <1>3. \A X \in S : X \cup Ready(d, X) \in S
    BY DEF Ready
  <1>4. PICK f : Stepwise(n, S, {}, R, f)
    <2>1. \A k \in 1..n : \A X \in S : <<k, X, X \cup Ready(d, X)>> \in R
      OBVIOUS
    <2>2. {} \in S
      OBVIOUS
    <2>. HIDE DEF n, R, S
    <2>3. \A k \in 1..n : \A X \in S : \E Y \in S : <<k, X, Y>> \in R
      BY <1>3, <2>1
    <2>4. QED
      BY <1>1, <2>2, <2>3, RecursionExists
  <1>5. f = [k \in 0..n |-> IF k = 0 THEN {} ELSE f[k - 1] \cup Ready(d, f[k - 1])]
    <2>1. f \in [0..n -> S] /\ f[0] = {} /\ \A k \in 1..n : f[k] = f[k - 1] \cup Ready(d, f[k - 1])
      BY <1>4 DEF Stepwise
    <2>. HIDE DEF n, S
    <2>2. \A k \in 0..n : k # 0 => k \in 1..n
      BY <1>1
    <2>3. QED
      BY <2>1, <2>2
  <1>6. peeled = [k \in 0..n |-> IF k = 0 THEN {} ELSE peeled[k - 1] \cup Ready(d, peeled[k - 1])]
    <2>. HIDE DEF n
    <2>1. QED
      BY <1>5, Zenon
  <1>. HIDE DEF peeled, n, S, R
  <1>7. /\ peeled = [k \in 0..n |-> peeled[k]] /\ peeled[0] = {}
        /\ \A k \in 1..n : peeled[k] = peeled[k - 1] \cup Ready(d, peeled[k - 1])
    <2>1. \A k \in 0..n : peeled[k] = IF k = 0 THEN {} ELSE peeled[k - 1] \cup Ready(d, peeled[k - 1])
      BY <1>6, Zenon
    <2>2. peeled = [k \in 0..n |-> peeled[k]]
      BY <1>6, <2>1
    <2>3. 0 \in 0..n /\ \A k \in 1..n : k \in 0..n /\ k # 0
      BY <1>1
    <2>4. QED
      BY <2>1, <2>2, <2>3
  <1>8. peeled[0] \in S /\ \A k \in 1..n : peeled[k - 1] \in S => peeled[k] \in S
    BY <1>3, <1>7 DEF S
  <1>9. peeled \in [0..n -> S]
    BY <1>1, <1>7, <1>8, RecursionTyped
  <1>10. QED
    BY <1>2, <1>7, <1>9 DEF Peels, n, S

\* What is left after the peeling is a knot, and a knot is never peeled off.
LEMMA CyclesFound ==
    ASSUME NEW d \in Definition
    PROVE  HasCycle(d) <=> \E R : Knot(d, R)
  <1>. DEFINE n == Len(d.types)
              N == NodeIds(d)
  <1>. PICK peeled : Peels(d, peeled)
    BY PeelingRounds
  <1>1. /\ n \in Nat /\ IsFiniteSet(N) /\ Cardinality(N) = n
        /\ Connected(d) \in SUBSET (N \X N)
    BY DefinitionShape
  <1>2. /\ peeled \in [0..n -> SUBSET N] /\ peeled[0] = {}
        /\ \A k \in 1..n : peeled[k] = peeled[k - 1] \cup Ready(d, peeled[k - 1])
        /\ HasCycle(d) <=> peeled[n] # N
    BY DEF Peels
  <1>. HIDE DEF n
  <1>3. Ready(d, peeled[n]) = {}
    <2>. DEFINE Stop == {k \in 0..n : Ready(d, peeled[k]) = {}}
    <2>1. \A k \in 0..n : peeled[k] \subseteq peeled[0] \cup N
      BY <1>2
    <2>2. ASSUME NEW k \in 1..n
          PROVE  /\ peeled[k - 1] \subseteq peeled[k] /\ (k - 1 \in Stop => k \in Stop)
                 /\ k - 1 \notin Stop => peeled[k] # peeled[k - 1]
      <3>1. k \in 0..n /\ k - 1 \in 0..n /\ peeled[k] = peeled[k - 1] \cup Ready(d, peeled[k - 1])
        BY <1>1, <1>2
      <3>2. Ready(d, peeled[k - 1]) \cap peeled[k - 1] = {}
        BY DEF Ready
      <3>3. QED
        BY <3>1, <3>2
    <2>3. peeled[n] = peeled[0] \cup N => n \in Stop
      BY <1>1, <1>2 DEF Ready
    <2>. HIDE DEF Stop, N
    <2>4. n \in Stop
      BY <1>1, <2>1, <2>2, <2>3, ChainStops
    <2>5. QED
      BY <2>4 DEF Stop
  <1>4. ASSUME peeled[n] # N PROVE Knot(d, N \ peeled[n])
    <2>0. peeled[n] \in SUBSET N
      BY <1>1, <1>2
    <2>1. N \ peeled[n] # {} /\ N \ peeled[n] \in SUBSET N
      BY <1>4, <2>0
    <2>2. \A i \in N \ peeled[n] : \E e \in Connected(d) : e[2] = i /\ e[1] \in N \ peeled[n]
      BY <1>1, <1>3 DEF Ready
    <2>3. QED
      BY <2>1, <2>2 DEF Knot
  <1>5. ASSUME NEW R, Knot(d, R) PROVE peeled[n] # N
    <2>. DEFINE P == {k \in 0..n : peeled[k] \cap R = {}}
    <2>1. 0 \in P
      BY <1>1, <1>2
    <2>2. \A X : X \cap R = {} => (X \cup Ready(d, X)) \cap R = {}
      BY <1>5 DEF Knot, Ready
    <2>3. \A k \in 1..n : k - 1 \in P => k \in P
      BY <1>2, <2>2
    <2>4. \A k \in 0..n : k \in P
      <3>. HIDE DEF P
      <3>1. QED
        BY <1>1, <2>1, <2>3, HoldsUpTo
    <2>5. QED
      BY <1>1, <1>5, <2>4 DEF Knot
  <1>6. QED
    BY <1>2, <1>4, <1>5

-----------------------------------------------------------------------------
(* The compiler's order. *)

LEMMA MinFound ==
    ASSUME NEW S \in SUBSET Nat, S # {}
    PROVE  Min(S) \in S
  BY HasSmallest DEF Min

\* A part of an order: no node twice, every edge into it from a node before.
Ordered(d, s) ==
    /\ s \in Seq(NodeIds(d))
    /\ \A p, q \in 1..Len(s) : s[p] = s[q] => p = q
    /\ \A p \in 1..Len(s) : \A e \in Connected(d) :
          e[2] = s[p] => \E q \in 1..Len(s) : q < p /\ s[q] = e[1]

LEMMA SeqShape ==
    ASSUME NEW S, NEW s \in Seq(S)
    PROVE  /\ Len(s) \in Nat /\ DOMAIN s = 1..Len(s) /\ s = [p \in 1..Len(s) |-> s[p]]
           /\ \A p \in 1..Len(s) : s[p] \in S
           /\ ToSet(s) = {s[p] : p \in 1..Len(s)} /\ ToSet(s) \in SUBSET S
  <1>1. Len(s) \in Nat /\ DOMAIN s = 1..Len(s) /\ s = [p \in 1..Len(s) |-> s[p]]
    BY LenProperties
  <1>2. \A p \in 1..Len(s) : s[p] \in S
    BY ElementOfSeq
  <1>3. QED
    BY <1>1, <1>2 DEF ToSet

LEMMA OnceEach ==
    ASSUME NEW S, NEW s \in Seq(S), \A p, q \in 1..Len(s) : s[p] = s[q] => p = q
    PROVE  Cardinality(ToSet(s)) = Len(s)
  <1>1. Len(s) \in Nat /\ s = [p \in 1..Len(s) |-> s[p]] /\ ToSet(s) = {s[p] : p \in 1..Len(s)}
    BY SeqShape
  <1>2. PICK n : n = Len(s)
    OBVIOUS
  <1>3. Cardinality({s[p] : p \in 1..n}) = n
    BY <1>1, <1>2, FiniteRange
  <1>4. QED
    BY <1>1, <1>2, <1>3

LEMMA AppendShape ==
    ASSUME NEW S, NEW s \in Seq(S), NEW x \in S
    PROVE  /\ Append(s, x) \in Seq(S) /\ Len(Append(s, x)) = Len(s) + 1
           /\ \A p \in 1..Len(s) : Append(s, x)[p] = s[p]
           /\ Append(s, x)[Len(s) + 1] = x
           /\ ToSet(Append(s, x)) = ToSet(s) \cup {x}
  <1>1. /\ Append(s, x) \in Seq(S) /\ Len(Append(s, x)) = Len(s) + 1
        /\ \A p \in 1..Len(s) : Append(s, x)[p] = s[p]
        /\ Append(s, x)[Len(s) + 1] = x
    BY AppendProperties
  <1>2. PICK t : t = Append(s, x)
    OBVIOUS
  <1>3. /\ ToSet(t) = {t[p] : p \in 1..Len(t)} /\ ToSet(s) = {s[p] : p \in 1..Len(s)}
        /\ Len(s) \in Nat
    <2>1. t \in Seq(S)
      BY <1>1, <1>2
    <2>2. QED
      BY <2>1, SeqShape
  <1>4. ToSet(t) = ToSet(s) \cup {x}
    <2>1. \A p \in 1..Len(t) : p \in 1..Len(s) \/ p = Len(s) + 1
      BY <1>1, <1>2, <1>3
    <2>2. \A p \in 1..Len(s) : p \in 1..Len(t)
      BY <1>1, <1>2, <1>3
    <2>3. Len(s) + 1 \in 1..Len(t)
      BY <1>1, <1>2, <1>3
    <2>4. QED
      BY <1>1, <1>2, <1>3, <2>1, <2>2, <2>3
  <1>5. QED
    BY <1>1, <1>2, <1>4

\* The order of an acyclic part grows by a ready node.
LEMMA NextSortedOrdered ==
    ASSUME NEW d \in Definition, NEW s, Ordered(d, s)
    PROVE  /\ Ordered(d, NextSorted(d, s))
           /\ Ready(d, ToSet(s)) = {} => NextSorted(d, s) = s
           /\ Ready(d, ToSet(s)) # {} => Len(NextSorted(d, s)) = Len(s) + 1
  <1>. DEFINE ready == Ready(d, ToSet(s))
  <1>1. NodeIds(d) \in SUBSET Nat
    BY DefinitionShape
  <1>2. CASE ready = {}
    BY <1>2 DEF NextSorted
  <1>3. CASE ready # {}
    <2>1. PICK m : m = Min(ready)
      OBVIOUS
    <2>2. m \in ready
      <3>1. ready \in SUBSET Nat
        BY <1>1 DEF Ready
      <3>. HIDE DEF ready
      <3>2. QED
        BY <1>3, <2>1, <3>1, MinFound
    <2>3. PICK t : t = Append(s, m)
      OBVIOUS
    <2>4. NextSorted(d, s) = t
      BY <1>3, <2>1, <2>3 DEF NextSorted
    <2>5. m \in NodeIds(d) /\ m \notin ToSet(s) /\ \A e \in Connected(d) : e[2] = m => e[1] \in ToSet(s)
      BY <2>2 DEF Ready
    <2>6. s \in Seq(NodeIds(d)) /\ Len(s) \in Nat /\ ToSet(s) = {s[p] : p \in 1..Len(s)}
      BY SeqShape DEF Ordered
    <2>7. /\ t \in Seq(NodeIds(d)) /\ Len(t) = Len(s) + 1
          /\ \A p \in 1..Len(s) : t[p] = s[p]
          /\ t[Len(t)] = m
      BY <2>3, <2>5, <2>6, AppendShape
    <2>8. \A p \in 1..Len(t) : p \in 1..Len(s) \/ p = Len(t)
      BY <2>6, <2>7
    <2>9. \A p \in 1..Len(s) : p \in 1..Len(t) /\ p < Len(t) /\ s[p] # m
      BY <2>5, <2>6, <2>7
    <2>10. \A p, q \in 1..Len(t) : t[p] = t[q] => p = q
      BY <2>7, <2>8, <2>9 DEF Ordered
    <2>11. ASSUME NEW p \in 1..Len(t), NEW e \in Connected(d), e[2] = t[p]
           PROVE  \E q \in 1..Len(t) : q < p /\ t[q] = e[1]
      <3>1. CASE p \in 1..Len(s)
        <4>1. PICK q \in 1..Len(s) : q < p /\ s[q] = e[1]
          BY <2>7, <2>11, <3>1, SMTT(60) DEF Ordered
        <4>2. QED
          BY <2>7, <2>9, <4>1
      <3>2. CASE p = Len(t)
        <4>1. PICK q \in 1..Len(s) : s[q] = e[1]
          BY <2>5, <2>6, <2>7, <2>11, <3>2
        <4>2. QED
          BY <2>7, <2>9, <3>2, <4>1
      <3>3. QED
        BY <2>8, <3>1, <3>2
    <2>12. QED
      BY <1>3, <2>4, <2>7, <2>10, <2>11 DEF Ordered
  <1>4. QED
    BY <1>2, <1>3

\* Once nothing is ready any more, an acyclic definition is listed as a whole.
LEMMA OrderedWhole ==
    ASSUME NEW d \in Definition, ~ \E R : Knot(d, R), NEW s, Ordered(d, s),
           Len(s) = Len(d.types) \/ Ready(d, ToSet(s)) = {}
    PROVE  Len(s) = Len(d.types) /\ ToSet(s) = NodeIds(d)
  <1>. DEFINE N == NodeIds(d)
              n == Len(d.types)
  <1>1. n \in Nat /\ IsFiniteSet(N) /\ Cardinality(N) = n /\ Connected(d) \in SUBSET (N \X N)
    BY DefinitionShape
  <1>2. /\ Len(s) \in Nat /\ s = [p \in 1..Len(s) |-> s[p]]
        /\ ToSet(s) = {s[p] : p \in 1..Len(s)} /\ ToSet(s) \in SUBSET N
    BY SeqShape DEF Ordered
  <1>3. Cardinality(ToSet(s)) = Len(s)
    BY OnceEach DEF Ordered
  <1>4. CASE Len(s) = n
    BY <1>1, <1>2, <1>3, <1>4, FS_Subset
  <1>5. CASE Ready(d, ToSet(s)) = {}
    <2>. DEFINE R == N \ ToSet(s)
    <2>1. \A i \in R : \E e \in Connected(d) : e[2] = i /\ e[1] \in R
      BY <1>1, <1>5 DEF Ready
    <2>2. R \in SUBSET N
      OBVIOUS
    <2>3. R = {}
      <3>. HIDE DEF R, N
      <3>1. QED
        BY <2>1, <2>2 DEF Knot, N
    <2>4. ToSet(s) = N
      BY <1>2, <2>3
    <2>5. QED
      BY <1>1, <1>3, <2>4
  <1>6. QED
    BY <1>4, <1>5

LEMMA SortedNodesOrdered ==
    ASSUME NEW d \in Definition
    PROVE  /\ Ordered(d, SortedNodes(d))
           /\ (~ \E R : Knot(d, R)) => Len(SortedNodes(d)) = Len(d.types)
  <1>. DEFINE n == Len(d.types)
              S == {s \in Seq(NodeIds(d)) : Ordered(d, s)}
              R == {<<k, s, NextSorted(d, s)>> : k \in 1..n, s \in S}
              ordered[k \in 0..n] == IF k = 0 THEN << >> ELSE NextSorted(d, ordered[k - 1])
  <1>1. n \in Nat
    BY DefinitionShape
  <1>2. SortedNodes(d) = ordered[n]
    BY DEF SortedNodes
  <1>3. \A s \in S : NextSorted(d, s) \in S
    BY NextSortedOrdered DEF Ordered
  <1>4. << >> \in S
    BY DEF Ordered
  <1>5. PICK f : Stepwise(n, S, << >>, R, f)
    <2>1. \A k \in 1..n : \A s \in S : <<k, s, NextSorted(d, s)>> \in R
      OBVIOUS
    <2>. HIDE DEF n, R, S
    <2>2. \A k \in 1..n : \A s \in S : \E t \in S : <<k, s, t>> \in R
      BY <1>3, <2>1
    <2>3. QED
      BY <1>1, <1>4, <2>2, RecursionExists
  <1>6. f = [k \in 0..n |-> IF k = 0 THEN << >> ELSE NextSorted(d, f[k - 1])]
    <2>1. f \in [0..n -> S] /\ f[0] = << >> /\ \A k \in 1..n : f[k] = NextSorted(d, f[k - 1])
      BY <1>5 DEF Stepwise
    <2>. HIDE DEF n, S
    <2>2. \A k \in 0..n : k # 0 => k \in 1..n
      BY <1>1
    <2>3. QED
      BY <2>1, <2>2
  <1>7. ordered = [k \in 0..n |-> IF k = 0 THEN << >> ELSE NextSorted(d, ordered[k - 1])]
    <2>. HIDE DEF n
    <2>1. QED
      BY <1>6, Zenon
  <1>. HIDE DEF ordered, n, S, R
  <1>8. /\ ordered = [k \in 0..n |-> ordered[k]] /\ ordered[0] = << >>
        /\ \A k \in 1..n : ordered[k] = NextSorted(d, ordered[k - 1])
    BY <1>1, <1>7
  <1>9. ordered[0] \in S /\ \A k \in 1..n : ordered[k - 1] \in S => ordered[k] \in S
    BY <1>3, <1>4, <1>8
  <1>10. ordered \in [0..n -> S]
    BY <1>1, <1>8, <1>9, RecursionTyped
  <1>11. \A k \in 0..n : Ordered(d, ordered[k]) /\ Len(ordered[k]) \in Nat
    BY <1>10, LenProperties DEF S
  <1>12. Len(ordered[n]) = n \/ Ready(d, ToSet(ordered[n])) = {}
    <2>. DEFINE P == {k \in 0..n : Len(ordered[k]) = k \/ Ready(d, ToSet(ordered[k])) = {}}
    <2>1. 0 \in P
      BY <1>1, <1>8
    <2>2. ASSUME NEW k \in 1..n, k - 1 \in P PROVE k \in P
      <3>0. k - 1 \in 0..n /\ k \in 0..n
        BY <1>1
      <3>1. k - 1 \in 0..n /\ k \in 0..n /\ ordered[k] = NextSorted(d, ordered[k - 1])
        BY <1>8, <3>0, Zenon
      <3>2. CASE Ready(d, ToSet(ordered[k - 1])) = {}
        <4>1. ordered[k] = ordered[k - 1]
          BY <1>11, <3>1, <3>2, NextSortedOrdered
        <4>2. QED
          BY <3>1, <3>2, <4>1
      <3>3. CASE Ready(d, ToSet(ordered[k - 1])) # {} /\ Len(ordered[k - 1]) = k - 1
        <4>1. Len(ordered[k]) = k
          BY <1>11, <3>1, <3>3, NextSortedOrdered
        <4>2. QED
          BY <3>1, <4>1
      <3>4. QED
        BY <2>2, <3>2, <3>3
    <2>3. \A k \in 0..n : k \in P
      <3>. HIDE DEF P
      <3>1. QED
        BY <1>1, <2>1, <2>2, HoldsUpTo
    <2>4. QED
      BY <1>1, <2>3
  <1>13. Ordered(d, ordered[n])
    BY <1>1, <1>11
  <1>14. QED
    BY <1>2, <1>12, <1>13, OrderedWhole DEF n

\* The whole order begins with the sorted nodes and lists every node once.
ListsUpTo(d, s, k) ==
    /\ s \in Seq(NodeIds(d)) /\ \A p, q \in 1..Len(s) : s[p] = s[q] => p = q
    /\ Len(SortedNodes(d)) <= Len(s) /\ \A p \in 1..Len(SortedNodes(d)) : s[p] = SortedNodes(d)[p]
    /\ \A i \in 1..k : i \in ToSet(s)

LEMMA AppendMissingLists ==
    ASSUME NEW d \in Definition, NEW k \in NodeIds(d), NEW s, ListsUpTo(d, s, k - 1)
    PROVE  ListsUpTo(d, AppendMissing(s, k), k)
  <1>1. NodeIds(d) \in SUBSET Nat /\ Len(SortedNodes(d)) \in Nat
    BY DefinitionShape, SortedNodesOrdered, SeqShape DEF Ordered
  <1>2. \A i \in 1..k : i \in 1..(k - 1) \/ i = k
    BY <1>1
  <1>3. CASE k \in ToSet(s)
    BY <1>2, <1>3 DEF AppendMissing, ListsUpTo
  <1>4. CASE k \notin ToSet(s)
    <2>1. PICK t : t = Append(s, k)
      OBVIOUS
    <2>2. AppendMissing(s, k) = t
      BY <1>4, <2>1 DEF AppendMissing
    <2>3. s \in Seq(NodeIds(d)) /\ Len(s) \in Nat /\ ToSet(s) = {s[p] : p \in 1..Len(s)}
      BY SeqShape DEF ListsUpTo
    <2>4. /\ t \in Seq(NodeIds(d)) /\ Len(t) = Len(s) + 1
          /\ \A p \in 1..Len(s) : t[p] = s[p]
          /\ t[Len(t)] = k
          /\ ToSet(t) = ToSet(s) \cup {k}
      BY <2>1, <2>3, AppendShape
    <2>5. \A p \in 1..Len(t) : p \in 1..Len(s) \/ p = Len(t)
      BY <2>3, <2>4
    <2>6. \A p \in 1..Len(s) : s[p] # k
      BY <1>4, <2>3
    <2>7. \A p, q \in 1..Len(t) : t[p] = t[q] => p = q
      BY <2>4, <2>5, <2>6 DEF ListsUpTo
    <2>8. /\ Len(SortedNodes(d)) <= Len(t)
          /\ \A p \in 1..Len(SortedNodes(d)) : p \in 1..Len(s) /\ t[p] = SortedNodes(d)[p]
      BY <1>1, <2>3, <2>4, SMTT(60) DEF ListsUpTo
    <2>9. \A i \in 1..k : i \in ToSet(t)
      BY <1>2, <2>4 DEF ListsUpTo
    <2>10. QED
      BY <2>2, <2>4, <2>7, <2>8, <2>9 DEF ListsUpTo
  <1>5. QED
    BY <1>3, <1>4

LEMMA TopologicalNodesList ==
    ASSUME NEW d \in Definition
    PROVE  ListsUpTo(d, TopologicalNodes(d), Len(d.types))
  <1>. DEFINE n == Len(d.types)
              S == Seq(NodeIds(d))
              b == SortedNodes(d)
              R == {<<k, s, AppendMissing(s, k)>> : k \in 1..n, s \in S}
              ordered[k \in 0..n] == IF k = 0 THEN b ELSE AppendMissing(ordered[k - 1], k)
  <1>1. n \in Nat /\ NodeIds(d) = 1..n
    BY DefinitionShape
  <1>2. TopologicalNodes(d) = ordered[n]
    BY DEF TopologicalNodes
  <1>3. \A s \in S : \A k \in 1..n : AppendMissing(s, k) \in S
    BY <1>1, AppendShape DEF AppendMissing
  <1>4. b \in S /\ ListsUpTo(d, b, 0)
    <2>1. b \in S /\ \A p, q \in 1..Len(b) : b[p] = b[q] => p = q
      BY SortedNodesOrdered DEF Ordered
    <2>2. Len(b) \in Nat
      BY <2>1, SeqShape
    <2>3. \A i \in 1..0 : i \in ToSet(b)
      OBVIOUS
    <2>4. QED
      BY <2>1, <2>2, <2>3 DEF ListsUpTo
  <1>5. PICK f : Stepwise(n, S, b, R, f)
    <2>1. \A k \in 1..n : \A s \in S : <<k, s, AppendMissing(s, k)>> \in R
      OBVIOUS
    <2>. HIDE DEF n, R, S, b
    <2>2. \A k \in 1..n : \A s \in S : \E t \in S : <<k, s, t>> \in R
      BY <1>3, <2>1
    <2>3. QED
      BY <1>1, <1>4, <2>2, RecursionExists
  <1>6. f = [k \in 0..n |-> IF k = 0 THEN b ELSE AppendMissing(f[k - 1], k)]
    <2>1. f \in [0..n -> S] /\ f[0] = b /\ \A k \in 1..n : f[k] = AppendMissing(f[k - 1], k)
      BY <1>5 DEF Stepwise
    <2>. HIDE DEF n, S, b
    <2>2. \A k \in 0..n : k # 0 => k \in 1..n
      BY <1>1
    <2>3. QED
      BY <2>1, <2>2
  <1>7. ordered = [k \in 0..n |-> IF k = 0 THEN b ELSE AppendMissing(ordered[k - 1], k)]
    <2>. HIDE DEF n, b
    <2>1. QED
      BY <1>6, Zenon
  <1>. HIDE DEF ordered, n, S, R, b
  <1>8. ordered[0] = b /\ \A k \in 1..n : ordered[k] = AppendMissing(ordered[k - 1], k)
    BY <1>1, <1>7
  <1>9. \A k \in 0..n : ListsUpTo(d, ordered[k], k)
    <2>. DEFINE P == {k \in 0..n : ListsUpTo(d, ordered[k], k)}
    <2>1. 0 \in P
      BY <1>1, <1>4, <1>8
    <2>2. ASSUME NEW k \in 1..n, k - 1 \in P PROVE k \in P
      <3>1. k \in 0..n /\ k \in NodeIds(d) /\ ListsUpTo(d, ordered[k - 1], k - 1)
        BY <1>1, <2>2
      <3>2. ListsUpTo(d, AppendMissing(ordered[k - 1], k), k)
        BY <3>1, AppendMissingLists
      <3>3. QED
        BY <1>8, <3>1, <3>2
    <2>3. \A k \in 0..n : k \in P
      <3>. HIDE DEF P
      <3>1. QED
        BY <1>1, <2>1, <2>2, HoldsUpTo
    <2>4. QED
      BY <2>3
  <1>10. QED
    BY <1>1, <1>2, <1>9 DEF n

LEMMA OrderShape ==
    ASSUME NEW d \in Definition, NEW s, s = TopologicalNodes(d)
    PROVE  /\ DOMAIN s = 1..Len(d.types) /\ Len(s) = Len(d.types) /\ Len(s) \in Nat
           /\ ToSet(s) = NodeIds(d) /\ \A p \in 1..Len(s) : s[p] \in NodeIds(d)
           /\ \A i \in NodeIds(d) : \E p \in 1..Len(s) : s[p] = i
           /\ \A p, q \in 1..Len(s) : s[p] = s[q] => p = q
           /\ (~ \E R : Knot(d, R)) =>
                 \A p, q \in 1..Len(s) : <<s[p], s[q]>> \in Connected(d) => p < q
  <1>. DEFINE n == Len(d.types)
              N == NodeIds(d)
              b == SortedNodes(d)
  <1>1. n \in Nat /\ N = 1..n /\ IsFiniteSet(N) /\ Cardinality(N) = n
    BY DefinitionShape
  <1>2. ListsUpTo(d, s, n)
    BY TopologicalNodesList
  <1>3. /\ Len(s) \in Nat /\ DOMAIN s = 1..Len(s) /\ s = [p \in 1..Len(s) |-> s[p]]
        /\ ToSet(s) = {s[p] : p \in 1..Len(s)} /\ ToSet(s) \in SUBSET N
        /\ \A p \in 1..Len(s) : s[p] \in N
    BY <1>2, SeqShape DEF ListsUpTo
  <1>4. ToSet(s) = N
    BY <1>1, <1>2, <1>3 DEF ListsUpTo
  <1>5. \A p, q \in 1..Len(s) : s[p] = s[q] => p = q
    BY <1>2 DEF ListsUpTo
  <1>6. Cardinality(ToSet(s)) = Len(s)
    BY <1>2, <1>5, OnceEach DEF ListsUpTo
  <1>7. Len(s) = n
    BY <1>1, <1>4, <1>6
  <1>8. \A i \in N : \E p \in 1..Len(s) : s[p] = i
    BY <1>3, <1>4
  <1>9. ASSUME ~ \E R : Knot(d, R), NEW p \in 1..Len(s), NEW q \in 1..Len(s),
               <<s[p], s[q]>> \in Connected(d)
        PROVE  p < q
    <2>1. Len(b) = n /\ Ordered(d, b)
      BY <1>9, SortedNodesOrdered
    <2>2. \A k \in 1..n : s[k] = b[k]
      BY <1>2, <2>1 DEF ListsUpTo
    <2>3. PICK e \in Connected(d) : e = <<s[p], s[q]>>
      BY <1>9
    <2>4. e[2] = b[q] /\ e[1] = s[p]
      BY <1>7, <2>2, <2>3
    <2>5. PICK k \in 1..n : k < q /\ b[k] = e[1]
      BY <1>7, <2>1, <2>4 DEF Ordered
    <2>6. s[k] = s[p]
      BY <2>2, <2>4, <2>5
    <2>7. QED
      BY <1>5, <1>7, <2>5, <2>6
  <1>10. QED
    BY <1>3, <1>4, <1>5, <1>7, <1>8, <1>9

\* In the order of an acyclic definition what lies behind a node comes later.
LEMMA OrderFollowsWays ==
    ASSUME NEW d \in Definition, ~ \E R : Knot(d, R), NEW s, s = TopologicalNodes(d),
           NEW p \in 1..Len(s), NEW q \in 1..Len(s), s[q] \in Below(d, s[p])
    PROVE  p < q
  <1>. DEFINE N == NodeIds(d)
              S == {i \in N : \A k \in 1..Len(s) : s[k] = i => p < k}
  <1>1. /\ Len(s) \in Nat /\ \A k \in 1..Len(s) : s[k] \in N
        /\ \A i \in N : \E k \in 1..Len(s) : s[k] = i
        /\ \A k, l \in 1..Len(s) : s[k] = s[l] => k = l
        /\ \A k, l \in 1..Len(s) : <<s[k], s[l]>> \in Connected(d) => k < l
    BY OrderShape, SMTT(60)
  <1>2. Connected(d) \in SUBSET (N \X N)
    BY DefinitionShape
  <1>3. ASSUME NEW e \in Connected(d), e[1] \in S \cup {s[p]} PROVE e[2] \in S
    <2>1. e[1] \in N /\ e[2] \in N /\ e = <<e[1], e[2]>>
      BY <1>2
    <2>2. PICK k \in 1..Len(s) : s[k] = e[1]
      BY <1>1, <2>1
    <2>3. ASSUME NEW l \in 1..Len(s), s[l] = e[2] PROVE p < l
      <3>1. k < l
        BY <1>1, <2>1, <2>2, <2>3, SMTT(60)
      <3>2. p < k \/ p = k
        BY <1>1, <1>3, <2>2
      <3>3. QED
        BY <1>1, <3>1, <3>2
    <2>4. QED
      BY <2>1, <2>3
  <1>4. Below(d, s[p]) \subseteq S
    <2>1. S \in SUBSET N /\ s[p] \in N
      BY <1>1
    <2>. HIDE DEF S
    <2>2. QED
      BY <1>2, <1>3, <2>1, FollowingClosed DEF Below
  <1>5. QED
    BY <1>4

-----------------------------------------------------------------------------
(* What validation and compilation promise. *)

LEMMA CyclesAreWays ==
    ASSUME NEW d \in Definition
    PROVE  HasCycle(d) <=> \E i \in NodeIds(d) : i \in Below(d, i)
  BY CyclesFound, KnotIsCycle

LEMMA SearchesRight == GraphSearchesAreRight
  BY SamplesAssumption, CyclesAreWays, SearchFindsBelow DEF GraphSearchesAreRight

LEMMA OrderTopological == OrderIsTopological
  <1>1. SUFFICES ASSUME NEW d \in Samples
                 PROVE  LET order == TopologicalNodes(d)
                        IN  /\ ToSet(order) = NodeIds(d) /\ Len(order) = Len(d.types)
                            /\ (\A i \in NodeIds(d) : i \notin Below(d, i)) =>
                                  \A j, k \in DOMAIN order :
                                      <<order[j], order[k]>> \in Connected(d) => j < k
    BY DEF OrderIsTopological
  <1>2. d \in Definition
    BY SamplesAssumption
  <1>3. PICK s : s = TopologicalNodes(d)
    OBVIOUS
  <1>4. (\A i \in NodeIds(d) : i \notin Below(d, i)) => ~ \E R : Knot(d, R)
    BY <1>2, KnotIsCycle
  <1>5. QED
    BY <1>2, <1>3, <1>4, OrderShape

\* What the checks of a publication leave.
LEMMA PublishableShape ==
    ASSUME NEW d \in Definition, Publishable(d)
    PROVE  /\ ~ HasCycle(d)
           /\ \E start \in NodeIds(d) : OfType(d, "input") = {start}
           /\ NodeIds(d) \subseteq CollectReachable(OfType(d, "input"), Adjacent(d))
           /\ NodeIds(d) \subseteq CollectReachable(OfType(d, "output"), Backwards(Adjacent(d)))
  <1>. DEFINE inputs == OfType(d, "input")
              unconnected(type, side) ==
                \E i \in NodeIds(d) \ OfType(d, type) : \A e \in Adjacent(d) : e[side] # i
  <1>1. PublishErrors(d) = {} /\ inputs # {}
    BY DEF Publishable, Validate
  <1>2. /\ StructureErrors(d) = {} /\ ~ (Cardinality(inputs) > 1)
        /\ OfType(d, "process") # {} /\ ~ unconnected("input", 2)
    BY <1>1 DEF PublishErrors
  <1>3. inputs \in SUBSET NodeIds(d) /\ IsFiniteSet(inputs)
    <2>1. inputs \in SUBSET NodeIds(d)
      BY DEF OfType
    <2>2. QED
      BY <2>1, DefinitionShape, FS_Subset
  <1>4. PICK start \in inputs : inputs = {start}
    <2>1. Cardinality(inputs) = 1
      <3>1. Cardinality(inputs) \in Nat /\ Cardinality(inputs) # 0
        BY <1>1, <1>3, FS_CardinalityType, FS_EmptySet
      <3>2. QED
        BY <1>2, <3>1
    <2>2. QED
      BY <1>3, <2>1, FS_Singleton
  <1>5. d.edges # << >>
    <2>1. SUFFICES ASSUME d.edges = << >> PROVE FALSE
      OBVIOUS
    <2>2. Adjacent(d) = {}
      BY <2>1 DEF Adjacent, Connected, ToSet
    <2>3. PICK i \in NodeIds(d) : RuntimeType(d.types[i]) = "process"
      BY <1>2 DEF OfType
    <2>4. i \notin inputs
      BY <2>3 DEF OfType
    <2>5. QED
      BY <1>2, <2>2, <2>4
  <1>6. /\ ~ HasCycle(d)
        /\ NodeIds(d) \subseteq CollectReachable(inputs, Adjacent(d))
        /\ NodeIds(d) \subseteq CollectReachable(OfType(d, "output"), Backwards(Adjacent(d)))
    BY <1>2, <1>5 DEF StructureErrors
  <1>7. QED
    BY <1>3, <1>4, <1>6

LEMMA PublishedRun == PublishedGraphsRun
  <1>1. SUFFICES ASSUME NEW d \in Samples, Publishable(d)
                 PROVE  /\ \A i \in NodeIds(d) : i \notin Below(d, i)
                        /\ \E start \in OfType(d, "input") :
                              \A i \in NodeIds(d) :
                                  /\ i = start \/ start \in Above(d, i)
                                  /\ i \in OfType(d, "output")
                                     \/ Below(d, i) \cap OfType(d, "output") # {}
    BY DEF PublishedGraphsRun
  <1>. DEFINE N == NodeIds(d)
              outputs == OfType(d, "output")
              A == Adjacent(d)
              S == {i \in N : i \in outputs \/ Below(d, i) \cap outputs # {}}
  <1>2. d \in Definition
    BY SamplesAssumption
  <1>3. /\ Connected(d) \in SUBSET (N \X N) /\ IsFiniteSet(A)
        /\ A = {e \in Connected(d) : e[1] # e[2]}
    BY <1>2, DefinitionShape
  <1>4. \A i \in N : i \notin Below(d, i)
    BY <1>1, <1>2, PublishableShape, CyclesAreWays
  <1>5. PICK start \in N : OfType(d, "input") = {start}
    BY <1>1, <1>2, PublishableShape
  <1>6. ASSUME NEW i \in N PROVE i = start \/ start \in Above(d, i)
    <2>1. i \in {start} \cup Below(d, start)
      BY <1>1, <1>2, <1>5, PublishableShape, SearchFindsBelow
    <2>2. CASE i \in Below(d, start)
      BY <1>3, <2>2, FollowingBackwards DEF Below, Above
    <2>3. QED
      BY <2>1, <2>2
  <1>7. N \subseteq S
    <2>1. outputs \in SUBSET N
      BY DEF OfType
    <2>2. Backwards(A) \in SUBSET (N \X N) /\ IsFiniteSet(Backwards(A))
      BY <1>3, FiniteBackwards DEF Backwards
    <2>3. PICK R : R = CollectReachable(outputs, Backwards(A))
      OBVIOUS
    <2>4. Found(R, N, outputs, Backwards(A))
      <3>. HIDE DEF N, A, outputs
      <3>1. QED
        BY <2>1, <2>2, <2>3, SearchClosed
    <2>5. N \subseteq R
      BY <1>1, <1>2, <2>3, PublishableShape
    <2>6. ASSUME NEW e \in Backwards(A), e[1] \in S PROVE e[2] \in S
      <3>1. PICK x \in A : e = <<x[2], x[1]>>
        BY DEF Backwards
      <3>2. x \in Connected(d) /\ x[1] \in N /\ x[2] \in N /\ x[2] \in S
        BY <1>3, <2>6, <3>1
      <3>3. x[2] \in Below(d, x[1])
        BY <1>3, <3>2, FollowingClosed DEF Below
      <3>4. Below(d, x[2]) \subseteq Below(d, x[1])
        BY <1>3, <3>2, <3>3, FollowingGrows DEF Below
      <3>5. x[1] \in S
        <4>. HIDE DEF outputs
        <4>1. QED
          BY <3>2, <3>3, <3>4
      <3>6. QED
        BY <3>1, <3>5
    <2>7. outputs \subseteq S
      BY <2>1
    <2>. HIDE DEF S, N, A, outputs
    <2>8. R \subseteq S
      BY <2>4, <2>6, <2>7 DEF Found, Closed
    <2>9. QED
      BY <2>5, <2>8
  <1>8. \A i \in N : i \in outputs \/ Below(d, i) \cap outputs # {}
    BY <1>7
  <1>9. QED
    BY <1>4, <1>5, <1>6, <1>8

LEMMA BackwardsTwice ==
    ASSUME NEW N, NEW E \in SUBSET (N \X N)
    PROVE  Backwards(E) \in SUBSET (N \X N) /\ Backwards(Backwards(E)) = E
  <1>. DEFINE B == Backwards(E)
              C == Backwards(B)
  <1>1. \A e \in E : e = <<e[1], e[2]>> /\ e[1] \in N /\ e[2] \in N
    OBVIOUS
  <1>2. (\A e \in E : <<e[2], e[1]>> \in B) /\ \A b \in B : \E e \in E : b = <<e[2], e[1]>>
    BY DEF Backwards
  <1>3. (\A b \in B : <<b[2], b[1]>> \in C) /\ \A c \in C : \E b \in B : c = <<b[2], b[1]>>
    BY DEF Backwards
  <1>. HIDE DEF B, C
  <1>4. B \in SUBSET (N \X N)
    BY <1>1, <1>2
  <1>5. ASSUME NEW e \in E PROVE e \in C
    <2>1. PICK b \in B : b = <<e[2], e[1]>>
      BY <1>2
    <2>2. <<b[2], b[1]>> \in C /\ b[2] = e[1] /\ b[1] = e[2]
      BY <1>3, <2>1
    <2>3. QED
      BY <1>1, <2>2
  <1>6. ASSUME NEW c \in C PROVE c \in E
    <2>1. PICK b \in B : c = <<b[2], b[1]>>
      BY <1>3
    <2>2. PICK e \in E : b = <<e[2], e[1]>>
      BY <1>2
    <2>3. c = <<e[1], e[2]>>
      BY <2>1, <2>2
    <2>4. QED
      BY <1>1, <2>3
  <1>7. C = E
    BY <1>5, <1>6
  <1>8. QED
    BY <1>4, <1>7 DEF B, C

LEMMA GatesKept == GatesKeepTheirSide
  <1>1. SUFFICES ASSUME NEW d \in Samples, Publishable(d), NEW g \in OfType(d, "gate")
                 PROVE  LET checkers == OfType(d, "checker")
                            plan == CompiledPlan(d)
                        IN  /\ (checkers \subseteq Below(d, g)) => plan.outline_gate
                            /\ (checkers # {} /\ checkers \subseteq Above(d, g)) => plan.fact_check_gate
    BY DEF GatesKeepTheirSide
  <1>. DEFINE N == NodeIds(d)
              checkers == OfType(d, "checker")
  <1>2. d \in Definition
    BY SamplesAssumption
  <1>3. ~ \E R : Knot(d, R)
    BY <1>1, <1>2, PublishableShape, CyclesFound
  <1>4. PICK s : s = TopologicalNodes(d)
    OBVIOUS
  <1>5. /\ DOMAIN s = 1..Len(s) /\ Len(s) \in Nat
        /\ \A p \in 1..Len(s) : s[p] \in N
        /\ \A i \in N : \E p \in 1..Len(s) : s[p] = i
    BY <1>2, <1>4, OrderShape
  <1>6. PICK p \in 1..Len(s) : s[p] = g
    BY <1>5 DEF OfType
  <1>. DEFINE places == {k \in DOMAIN s : s[k] \in checkers}
              beyond == Len(s) + 1
  <1>7. PICK checker : checker = IF places = {} THEN beyond ELSE Min(places)
    OBVIOUS
  <1>8. /\ CompiledPlan(d).outline_gate <=> GateBetween(d, s, 0, checker)
        /\ CompiledPlan(d).fact_check_gate <=> GateBetween(d, s, checker, beyond)
    BY <1>4, <1>7 DEF CompiledPlan
  <1>9. \A after, before : after < p /\ p < before => GateBetween(d, s, after, before)
    BY <1>1, <1>5, <1>6 DEF GateBetween, OfType
  <1>10. places # {} => checker \in 1..Len(s) /\ s[checker] \in checkers
    <2>1. places \in SUBSET Nat /\ \A k \in places : k \in 1..Len(s) /\ s[k] \in checkers
      BY <1>5
    <2>. HIDE DEF places
    <2>2. QED
      BY <1>7, <2>1, MinFound
  <1>11. ASSUME checkers \subseteq Below(d, g) PROVE p < checker
    <2>1. CASE places = {}
      BY <1>5, <1>7, <2>1
    <2>2. CASE places # {}
      <3>1. checker \in 1..Len(s) /\ s[checker] \in Below(d, s[p])
        BY <1>6, <1>10, <1>11, <2>2
      <3>2. QED
        BY <1>2, <1>3, <1>4, <3>1, OrderFollowsWays
    <2>3. QED
      BY <2>1, <2>2
  <1>12. ASSUME checkers # {}, checkers \subseteq Above(d, g) PROVE checker < p
    <2>1. places # {}
      BY <1>5, <1>12 DEF OfType
    <2>2. checker \in 1..Len(s) /\ s[checker] \in Above(d, g)
      BY <1>10, <1>12, <2>1
    <2>3. Connected(d) \in SUBSET (N \X N)
      BY <1>2, DefinitionShape
    <2>4. Backwards(Connected(d)) \in SUBSET (N \X N) /\ Backwards(Backwards(Connected(d))) = Connected(d)
      BY <2>3, BackwardsTwice
    <2>5. g \in N
      BY DEF OfType
    <2>6. g \in Below(d, s[checker])
      BY <2>2, <2>4, <2>5, FollowingBackwards DEF Above, Below
    <2>7. QED
      BY <1>2, <1>3, <1>4, <1>6, <2>2, <2>6, OrderFollowsWays
  <1>13. 0 < p /\ p < beyond
    BY <1>5
  <1>14. QED
    BY <1>8, <1>9, <1>11, <1>12, <1>13

-----------------------------------------------------------------------------
(* A compiled plan, the steps it lists, and the nodes its run goes through. *)

LEMMA PlanType ==
    ASSUME NEW d \in Definition
    PROVE  CompiledPlan(d) \in Plan
  <1>. DEFINE content == {i \in OfType(d, "process") : d.types[i] \notin {"knowledge", "rag_retrieve"}}
  <1>1. content \in SUBSET NodeIds(d)
    BY DEF OfType
  <1>2. Cardinality(content) \in Nat
    <2>. HIDE DEF content
    <2>1. QED
      BY <1>1, DefinitionShape, FS_Subset, FS_CardinalityType
  <1>3. (Cardinality(content) > 1) \in BOOLEAN
    <2>. HIDE DEF content
    <2>1. QED
      BY <1>2
  <1>4. \A s, after, before : GateBetween(d, s, after, before) \in BOOLEAN
    BY DEF GateBetween
  <1>5. QED
    BY <1>3, <1>4 DEF CompiledPlan, Plan

LEMMA TenNodes == IsFiniteSet(Nodes) /\ Cardinality(Nodes) = 10
  <1>. DEFINE N1 == {"parse_intent"}
              N2 == N1 \cup {"clarify_intent"}
              N3 == N2 \cup {"retrieve_knowledge"}
              N4 == N3 \cup {"generate_outline"}
              N5 == N4 \cup {"approve_outline"}
              N6 == N5 \cup {"generate_content"}
              N7 == N6 \cup {"self_refine"}
              N8 == N7 \cup {"check_facts"}
              N9 == N8 \cup {"approve_fact_check"}
              N10 == N9 \cup {"finalize"}
  <1>0. /\ "clarify_intent" \notin N1
        /\ "retrieve_knowledge" \notin N2
        /\ "generate_outline" \notin N3
        /\ "approve_outline" \notin N4
        /\ "generate_content" \notin N5
        /\ "self_refine" \notin N6
        /\ "check_facts" \notin N7
        /\ "approve_fact_check" \notin N8
        /\ "finalize" \notin N9
    OBVIOUS
  <1>1. IsFiniteSet(N1) /\ Cardinality(N1) = 1
    BY FS_Singleton
  <1>2. Nodes = N10
    BY DEF Nodes
  <1>. HIDE DEF N1
  <1>3. IsFiniteSet(N2) /\ Cardinality(N2) = 2
    BY <1>0, <1>1, FS_AddElement
  <1>. HIDE DEF N2
  <1>4. IsFiniteSet(N3) /\ Cardinality(N3) = 3
    BY <1>0, <1>3, FS_AddElement
  <1>. HIDE DEF N3
  <1>5. IsFiniteSet(N4) /\ Cardinality(N4) = 4
    BY <1>0, <1>4, FS_AddElement
  <1>. HIDE DEF N4
  <1>6. IsFiniteSet(N5) /\ Cardinality(N5) = 5
    BY <1>0, <1>5, FS_AddElement
  <1>. HIDE DEF N5
  <1>7. IsFiniteSet(N6) /\ Cardinality(N6) = 6
    BY <1>0, <1>6, FS_AddElement
  <1>. HIDE DEF N6
  <1>8. IsFiniteSet(N7) /\ Cardinality(N7) = 7
    BY <1>0, <1>7, FS_AddElement
  <1>. HIDE DEF N7
  <1>9. IsFiniteSet(N8) /\ Cardinality(N8) = 8
    BY <1>0, <1>8, FS_AddElement
  <1>. HIDE DEF N8
  <1>10. IsFiniteSet(N9) /\ Cardinality(N9) = 9
    BY <1>0, <1>9, FS_AddElement
  <1>. HIDE DEF N9
  <1>11. IsFiniteSet(N10) /\ Cardinality(N10) = 10
    BY <1>0, <1>10, FS_AddElement
  <1>12. QED
    BY <1>2, <1>11

\* What a plan lists of the nodes.
Listed(pl, n) ==
    /\ n = "approve_outline" => pl.outline_gate
    /\ n = "self_refine" => pl.self_refine
    /\ n = "check_facts" => pl.fact_check
    /\ n = "approve_fact_check" => pl.fact_check /\ pl.fact_check_gate

LEMMA ListsJoin ==
    ASSUME NEW S, NEW s \in Seq(S), NEW t \in Seq(S)
    PROVE  s \o t \in Seq(S) /\ ToSet(s \o t) = ToSet(s) \cup ToSet(t)
  <1>1. /\ Len(s) \in Nat /\ Len(t) \in Nat /\ DOMAIN s = 1..Len(s) /\ DOMAIN t = 1..Len(t)
        /\ s \o t \in Seq(S) /\ Len(s \o t) = Len(s) + Len(t)
        /\ DOMAIN (s \o t) = 1..(Len(s) + Len(t))
    BY ConcatProperties, LenProperties
  <1>2. \A i \in 1..Len(s) : i \in 1..(Len(s) + Len(t)) /\ (s \o t)[i] = s[i]
    BY <1>1, ConcatProperties
  <1>3. \A i \in 1..Len(t) : Len(s) + i \in 1..(Len(s) + Len(t)) /\ (s \o t)[Len(s) + i] = t[i]
    BY <1>1, ConcatProperties
  <1>4. \A i \in 1..(Len(s) + Len(t)) : i \in 1..Len(s) \/ (i - Len(s) \in 1..Len(t) /\ i = Len(s) + (i - Len(s)))
    BY <1>1
  <1>5. /\ ToSet(s) = {s[i] : i \in 1..Len(s)} /\ ToSet(t) = {t[i] : i \in 1..Len(t)}
        /\ ToSet(s \o t) = {(s \o t)[i] : i \in 1..(Len(s) + Len(t))}
    BY <1>1 DEF ToSet
  <1>6. QED
    BY <1>1, <1>2, <1>3, <1>4, <1>5, SMTT(60)

Optionally(s, feature, step) == s \o (IF feature THEN <<step>> ELSE << >>)
Names(s, R) == s \in Seq(Nodes) /\ ToSet(s) = R

LEMMA ListsOptional ==
    ASSUME NEW s, NEW R, Names(s, R), NEW feature \in BOOLEAN, NEW step \in Nodes
    PROVE  Names(Optionally(s, feature, step), IF feature THEN R \cup {step} ELSE R)
  <1>1. CASE feature
    <2>1. PICK t : t = <<step>>
      OBVIOUS
    <2>2. t \in Seq(Nodes) /\ ToSet(t) = {step}
      BY <2>1 DEF ToSet
    <2>3. s \o t \in Seq(Nodes) /\ ToSet(s \o t) = R \cup {step}
      BY <2>2, ListsJoin DEF Names
    <2>4. Optionally(s, feature, step) = s \o t
      BY <1>1, <2>1 DEF Optionally
    <2>5. QED
      BY <1>1, <2>3, <2>4 DEF Names
  <1>2. CASE ~feature
    <2>1. << >> \in Seq(Nodes) /\ ToSet(<< >>) = {}
      BY DEF ToSet
    <2>2. s \o << >> \in Seq(Nodes) /\ ToSet(s \o << >>) = R
      BY <2>1, ListsJoin DEF Names
    <2>3. Optionally(s, feature, step) = s \o << >>
      BY <1>2 DEF Optionally
    <2>4. QED
      BY <1>2, <2>2, <2>3 DEF Names
  <1>3. QED
    BY <1>1, <1>2

LEMMA StepsListed ==
    ASSUME NEW pl \in Plan
    PROVE  ToSet(PlanSteps(pl)) = {n \in Nodes \ {"clarify_intent"} : Listed(pl, n)}
  <1>. DEFINE s1 == <<"parse_intent", "retrieve_knowledge", "generate_outline">>
              s2 == Optionally(s1, pl.outline_gate, "approve_outline")
              s3 == Optionally(s2, TRUE, "generate_content")
              s4 == Optionally(s3, pl.self_refine, "self_refine")
              s5 == Optionally(s4, pl.fact_check, "check_facts")
              s6 == Optionally(s5, pl.fact_check /\ pl.fact_check_gate, "approve_fact_check")
              s7 == Optionally(s6, TRUE, "finalize")
              R1 == {"parse_intent", "retrieve_knowledge", "generate_outline"}
              R2 == IF pl.outline_gate THEN R1 \cup {"approve_outline"} ELSE R1
              R3 == IF TRUE THEN R2 \cup {"generate_content"} ELSE R2
              R4 == IF pl.self_refine THEN R3 \cup {"self_refine"} ELSE R3
              R5 == IF pl.fact_check THEN R4 \cup {"check_facts"} ELSE R4
              R6 == IF pl.fact_check /\ pl.fact_check_gate THEN R5 \cup {"approve_fact_check"} ELSE R5
              R7 == IF TRUE THEN R6 \cup {"finalize"} ELSE R6
  <1>1. /\ pl.outline_gate \in BOOLEAN /\ pl.self_refine \in BOOLEAN /\ pl.fact_check \in BOOLEAN
        /\ (pl.fact_check /\ pl.fact_check_gate) \in BOOLEAN /\ TRUE \in BOOLEAN
    BY DEF Plan
  <1>2. PlanSteps(pl) = s7
    BY DEF PlanSteps, Optionally
  <1>3. /\ "approve_outline" \in Nodes /\ "generate_content" \in Nodes /\ "self_refine" \in Nodes
        /\ "check_facts" \in Nodes /\ "approve_fact_check" \in Nodes /\ "finalize" \in Nodes
    BY DEF Nodes
  <1>4. R7 = {n \in Nodes \ {"clarify_intent"} : Listed(pl, n)}
    BY <1>1 DEF Nodes, Listed
  <1>5. Names(s1, R1)
    <2>1. s1 \in Seq(Nodes) /\ Len(s1) = 3 /\ DOMAIN s1 = 1..3
          /\ s1[1] = "parse_intent" /\ s1[2] = "retrieve_knowledge" /\ s1[3] = "generate_outline"
      BY DEF Nodes
    <2>. HIDE DEF s1
    <2>2. ToSet(s1) = {s1[k] : k \in 1..3}
      BY <2>1 DEF ToSet
    <2>3. \A k \in 1..3 : k = 1 \/ k = 2 \/ k = 3
      OBVIOUS
    <2>4. QED
      BY <2>1, <2>2, <2>3 DEF Names
  <1>. HIDE DEF s1, R1
  <1>6. Names(s2, R2)
    BY <1>1, <1>3, <1>5, ListsOptional
  <1>. HIDE DEF s2, R2
  <1>7. Names(s3, R3)
    BY <1>1, <1>3, <1>6, ListsOptional
  <1>. HIDE DEF s3, R3
  <1>8. Names(s4, R4)
    BY <1>1, <1>3, <1>7, ListsOptional
  <1>. HIDE DEF s4, R4
  <1>9. Names(s5, R5)
    BY <1>1, <1>3, <1>8, ListsOptional
  <1>. HIDE DEF s5, R5
  <1>10. Names(s6, R6)
    BY <1>1, <1>3, <1>9, ListsOptional
  <1>. HIDE DEF s6, R6
  <1>11. Names(s7, R7)
    BY <1>1, <1>3, <1>10, ListsOptional
  <1>12. QED
    BY <1>2, <1>4, <1>11 DEF Names

\* Where a run under the plan can be.
Within(pl, c) ==
    /\ c \in Checkpoint /\ c.at # NoThread
    /\ c.at # Entry => Listed(pl, c.at)
    /\ c.vals.awaiting_outline => pl.outline_gate
    /\ c.vals.awaiting_fact_check => pl.fact_check /\ pl.fact_check_gate
    /\ c.at = "generate_outline" => pl.outline_gate \/ (c.vals.outline /\ c.vals.outline_approved)
    /\ c.at = "check_facts" => pl.fact_check_gate \/ c.vals.fact_answers = "none"

LEMMA OutcomeType ==
    ASSUME NEW pl \in Plan, NEW v \in GraphState, NEW n \in Nodes,
           NEW w \in NodeOutcomes(pl, n, v)
    PROVE  w \in GraphState
  <1>1. CASE n = "parse_intent"
    BY <1>1 DEF NodeOutcomes, ParseIntent, GraphState
  <1>2. CASE n = "clarify_intent"
    BY <1>2 DEF NodeOutcomes, ClarifyIntent, GraphState
  <1>3. CASE n = "retrieve_knowledge"
    BY <1>3 DEF NodeOutcomes
  <1>4. CASE n = "generate_outline"
    <2>1. PICK some \in BOOLEAN :
             w = [v EXCEPT !.outline = TRUE, !.sections = some, !.awaiting_outline = pl.outline_gate,
                           !.outline_approved = ~pl.outline_gate, !.user_decision = "none"]
      BY <1>4 DEF NodeOutcomes, GenerateOutline
    <2>2. pl.outline_gate \in BOOLEAN /\ (~pl.outline_gate) \in BOOLEAN
      BY DEF Plan
    <2>3. QED
      BY <2>1, <2>2, ZenonT(60) DEF GraphState, OutlineActions
  <1>5. CASE n = "approve_outline"
    <2>1. w \in ApproveOutline(v)
      BY <1>5 DEF NodeOutcomes
    <2>2. CASE v.user_decision = "accept"
      <3>1. PICK some \in BOOLEAN :
               w = [v EXCEPT !.sections = some, !.outline_approved = TRUE,
                             !.awaiting_outline = FALSE, !.user_decision = "none"]
        BY <2>1, <2>2 DEF ApproveOutline
      <3>2. QED
        BY <3>1, Zenon DEF GraphState, OutlineActions
    <2>3. CASE v.user_decision # "accept"
      <3>1. w = [v EXCEPT !.outline = FALSE, !.sections = FALSE, !.outline_approved = FALSE,
                          !.awaiting_outline = FALSE, !.user_decision = "none"]
        BY <2>1, <2>3 DEF ApproveOutline
      <3>2. QED
        BY <3>1, Zenon DEF GraphState, OutlineActions
    <2>4. QED
      BY <2>2, <2>3
  <1>6. CASE n = "generate_content"
    <2>1. w = [v EXCEPT !.draft = v.sections] /\ v.sections \in BOOLEAN
      BY <1>6 DEF NodeOutcomes, GenerateContent, GraphState
    <2>2. QED
      BY <1>6, <2>1 DEF GraphState
  <1>7. CASE n = "self_refine"
    <2>1. w = [v EXCEPT !.final = v.draft] /\ v.draft \in BOOLEAN
      BY <1>7 DEF NodeOutcomes, SelfRefine, GraphState
    <2>2. QED
      BY <1>7, <2>1 DEF GraphState
  <1>8. CASE n = "check_facts"
    <2>1. PICK r \in BOOLEAN :
             w = [v EXCEPT !.report = TRUE, !.risky = r, !.fact_answers = "none",
                           !.awaiting_fact_check = r /\ pl.fact_check_gate]
      BY <1>8 DEF NodeOutcomes, CheckFacts
    <2>2. (r /\ pl.fact_check_gate) \in BOOLEAN
      OBVIOUS
    <2>3. QED
      BY <2>1, <2>2, ZenonT(60) DEF GraphState, FactAnswers
  <1>9. CASE n = "approve_fact_check"
    <2>1. w = [v EXCEPT !.risky = FALSE, !.awaiting_fact_check = FALSE,
                        !.fact_answers = "none", !.final = v.final \/ v.draft]
      BY <1>9 DEF NodeOutcomes, ApproveFactCheck
    <2>2. (v.final \/ v.draft) \in BOOLEAN
      OBVIOUS
    <2>3. QED
      BY <2>1, <2>2, ZenonT(60) DEF GraphState, FactAnswers
  <1>10. CASE n = "finalize"
    <2>1. w = [v EXCEPT !.final = v.final \/ v.draft] /\ (v.final \/ v.draft) \in BOOLEAN
      BY <1>10 DEF NodeOutcomes, Finalize
    <2>2. QED
      BY <2>1 DEF GraphState
  <1>11. QED
    BY <1>1, <1>2, <1>3, <1>4, <1>5, <1>6, <1>7, <1>8, <1>9, <1>10 DEF Nodes

\* What the nodes do to the gates.
LEMMA OutcomeShape ==
    ASSUME NEW pl \in Plan, NEW v \in GraphState, NEW n \in Nodes,
           NEW w \in NodeOutcomes(pl, n, v)
    PROVE  /\ w.awaiting_outline => v.awaiting_outline \/ (n = "generate_outline" /\ pl.outline_gate)
           /\ w.awaiting_fact_check =>
                v.awaiting_fact_check \/ (n = "check_facts" /\ pl.fact_check_gate)
           /\ n = "generate_outline" => w.outline /\ w.outline_approved = ~pl.outline_gate
           /\ n = "check_facts" => w.fact_answers = "none"
  <1>1. CASE n = "parse_intent"
    BY <1>1 DEF NodeOutcomes, ParseIntent, GraphState
  <1>2. CASE n = "clarify_intent"
    BY <1>2 DEF NodeOutcomes, ClarifyIntent, GraphState
  <1>3. CASE n = "retrieve_knowledge"
    BY <1>3 DEF NodeOutcomes
  <1>4. CASE n = "generate_outline"
    <2>1. PICK some \in BOOLEAN :
             w = [v EXCEPT !.outline = TRUE, !.sections = some, !.awaiting_outline = pl.outline_gate,
                           !.outline_approved = ~pl.outline_gate, !.user_decision = "none"]
      BY <1>4 DEF NodeOutcomes, GenerateOutline
    <2>2. /\ w.outline = TRUE /\ w.awaiting_outline = pl.outline_gate
          /\ w.outline_approved = (~pl.outline_gate)
          /\ w.awaiting_fact_check = v.awaiting_fact_check
      BY <2>1 DEF GraphState
    <2>3. QED
      BY <1>4, <2>2
  <1>5. CASE n = "approve_outline"
    <2>1. w \in ApproveOutline(v)
      BY <1>5 DEF NodeOutcomes
    <2>2. w.awaiting_outline = FALSE /\ w.awaiting_fact_check = v.awaiting_fact_check
      <3>1. CASE v.user_decision = "accept"
        <4>1. PICK some \in BOOLEAN :
               w = [v EXCEPT !.sections = some, !.outline_approved = TRUE,
                             !.awaiting_outline = FALSE, !.user_decision = "none"]
          BY <2>1, <3>1 DEF ApproveOutline
        <4>2. QED
          BY <4>1 DEF GraphState
      <3>2. CASE v.user_decision # "accept"
        <4>1. w = [v EXCEPT !.outline = FALSE, !.sections = FALSE, !.outline_approved = FALSE,
                            !.awaiting_outline = FALSE, !.user_decision = "none"]
          BY <2>1, <3>2 DEF ApproveOutline
        <4>2. QED
          BY <4>1 DEF GraphState
      <3>3. QED
        BY <3>1, <3>2
    <2>3. QED
      BY <1>5, <2>2
  <1>6. CASE n = "generate_content"
    <2>1. w = [v EXCEPT !.draft = v.sections] /\ v.sections \in BOOLEAN
      BY <1>6 DEF NodeOutcomes, GenerateContent, GraphState
    <2>2. QED
      BY <1>6, <2>1 DEF GraphState
  <1>7. CASE n = "self_refine"
    <2>1. w = [v EXCEPT !.final = v.draft] /\ v.draft \in BOOLEAN
      BY <1>7 DEF NodeOutcomes, SelfRefine, GraphState
    <2>2. QED
      BY <1>7, <2>1 DEF GraphState
  <1>8. CASE n = "check_facts"
    <2>1. PICK r \in BOOLEAN :
             w = [v EXCEPT !.report = TRUE, !.risky = r, !.fact_answers = "none",
                           !.awaiting_fact_check = r /\ pl.fact_check_gate]
      BY <1>8 DEF NodeOutcomes, CheckFacts
    <2>2. /\ w.fact_answers = "none" /\ w.awaiting_fact_check = (r /\ pl.fact_check_gate)
          /\ w.awaiting_outline = v.awaiting_outline
      BY <2>1 DEF GraphState
    <2>3. QED
      BY <1>8, <2>2
  <1>9. CASE n = "approve_fact_check"
    <2>1. w = [v EXCEPT !.risky = FALSE, !.awaiting_fact_check = FALSE,
                        !.fact_answers = "none", !.final = v.final \/ v.draft]
      BY <1>9 DEF NodeOutcomes, ApproveFactCheck
    <2>2. w.awaiting_fact_check = FALSE /\ w.awaiting_outline = v.awaiting_outline
      BY <2>1 DEF GraphState
    <2>3. QED
      BY <1>9, <2>2
  <1>10. CASE n = "finalize"
    <2>1. w = [v EXCEPT !.final = v.final \/ v.draft]
      BY <1>10 DEF NodeOutcomes, Finalize
    <2>2. w.awaiting_fact_check = v.awaiting_fact_check /\ w.awaiting_outline = v.awaiting_outline
      BY <2>1 DEF GraphState
    <2>3. QED
      BY <1>10, <2>2
  <1>11. QED
    BY <1>1, <1>2, <1>3, <1>4, <1>5, <1>6, <1>7, <1>8, <1>9, <1>10 DEF Nodes

LEMMA NextWithin ==
    ASSUME NEW pl \in Plan, NEW c, Within(pl, c)
    PROVE  /\ NextNode(pl, c) \in Nodes \cup {End}
           /\ Listed(pl, NextNode(pl, c))
  <1>1. c.at \in Nodes \cup {Entry} /\ c.vals \in GraphState
    BY DEF Within, Checkpoint
  <1>2. CASE c.at \in {"generate_outline", "approve_outline"}
    <2>1. NextNode(pl, c) = AfterOutline(c.vals)
      BY <1>2 DEF NextNode, Entry
    <2>2. AfterOutline(c.vals) = "approve_outline" => pl.outline_gate
      BY <1>2 DEF Within, AfterOutline, Listed, End, Entry
    <2>3. AfterOutline(c.vals) \in {End, "generate_outline", "generate_content", "approve_outline"}
      BY DEF AfterOutline
    <2>4. QED
      BY <2>1, <2>2, <2>3 DEF Nodes, Listed, End
  <1>3. CASE c.at = "check_facts"
    <2>1. NextNode(pl, c) = AfterFactCheck(c.vals)
      BY <1>3 DEF NextNode, Entry
    <2>2. AfterFactCheck(c.vals) = "approve_fact_check" => pl.fact_check /\ pl.fact_check_gate
      BY <1>3 DEF Within, AfterFactCheck, Listed, End, Entry
    <2>3. AfterFactCheck(c.vals) \in {End, "approve_fact_check", "finalize"}
      BY DEF AfterFactCheck
    <2>4. QED
      BY <2>1, <2>2, <2>3 DEF Nodes, Listed, End
  <1>4. CASE c.at \notin {"generate_outline", "approve_outline", "check_facts"}
    BY <1>1, <1>4 DEF NextNode, AfterParseIntent, AfterContent, AfterRefine, Nodes, Listed, End, Entry
  <1>5. QED
    BY <1>2, <1>3, <1>4

LEMMA RunStaysWithin ==
    ASSUME NEW pl \in Plan, NEW c, Within(pl, c), NEW e \in RunFrom(pl, c)
    PROVE  Within(pl, e)
  <1>. DEFINE n == NextNode(pl, c)
  <1>1. n \in Nodes \cup {End} /\ Listed(pl, n) /\ c.vals \in GraphState
    BY NextWithin DEF Within, Checkpoint
  <1>2. CASE n # End
    <2>1. PICK v \in NodeOutcomes(pl, n, c.vals) : e = [at |-> n, vals |-> v]
      BY <1>2 DEF RunFrom
    <2>2. n \in Nodes
      BY <1>1, <1>2
    <2>. HIDE DEF n
    <2>3. /\ v \in GraphState
          /\ v.awaiting_outline => c.vals.awaiting_outline \/ (n = "generate_outline" /\ pl.outline_gate)
          /\ v.awaiting_fact_check =>
                c.vals.awaiting_fact_check \/ (n = "check_facts" /\ pl.fact_check_gate)
          /\ n = "generate_outline" => v.outline /\ v.outline_approved = ~pl.outline_gate
          /\ n = "check_facts" => v.fact_answers = "none"
      BY <1>1, <2>1, <2>2, OutcomeShape, OutcomeType
    <2>4. e \in Checkpoint /\ e.at = n /\ e.vals = v /\ n # NoThread
      BY <2>1, <2>2, <2>3 DEF Checkpoint, Nodes, NoThread
    <2>5. pl.outline_gate \in BOOLEAN
      BY DEF Plan
    <2>6. QED
      BY <1>1, <2>3, <2>4, <2>5 DEF Within, Listed
  <1>3. CASE n = End /\ c.vals.awaiting_outline
    <2>1. e = [at |-> "generate_outline",
               vals |-> [c.vals EXCEPT !.awaiting_outline = FALSE, !.user_decision = "accept"]]
      BY <1>3 DEF RunFrom
    <2>2. e \in Checkpoint /\ e.at = "generate_outline" /\ ~e.vals.awaiting_outline
          /\ e.vals.awaiting_fact_check = c.vals.awaiting_fact_check
      BY <1>1, <2>1 DEF Checkpoint, Nodes, GraphState, OutlineActions
    <2>3. QED
      BY <1>3, <2>2 DEF Within, Listed, NoThread, Entry
  <1>4. CASE n = End /\ ~c.vals.awaiting_outline /\ c.vals.awaiting_fact_check
    <2>1. e = [at |-> "check_facts",
               vals |-> [c.vals EXCEPT !.awaiting_fact_check = FALSE, !.fact_answers = "full"]]
      BY <1>4 DEF RunFrom
    <2>2. e \in Checkpoint /\ e.at = "check_facts" /\ ~e.vals.awaiting_fact_check
          /\ e.vals.awaiting_outline = c.vals.awaiting_outline
      BY <1>1, <2>1 DEF Checkpoint, Nodes, GraphState, FactAnswers
    <2>3. QED
      BY <1>4, <2>2 DEF Within, Listed, NoThread, Entry
  <1>5. CASE n = End /\ ~c.vals.awaiting_outline /\ ~c.vals.awaiting_fact_check
    BY <1>5 DEF RunFrom
  <1>6. QED
    BY <1>2, <1>3, <1>4, <1>5

\* The checkpoints passed by a run, round by round.
Rounds(pl, n, f) ==
    /\ f \in [0..n -> SUBSET {c \in Checkpoint : Within(pl, c)}]
    /\ f[0] = {InputCheckpoint}
    /\ \A k \in 1..n : f[k] = f[k - 1] \cup UNION {RunFrom(pl, c) : c \in f[k - 1]}

LEMMA CheckpointsPassed ==
    ASSUME NEW pl \in Plan
    PROVE  \E f : Rounds(pl, 12, f) /\ CheckpointsOf(pl) = f[12]
  <1>. DEFINE W == {c \in Checkpoint : Within(pl, c)}
              S == SUBSET W
              Round(s) == s \cup UNION {RunFrom(pl, c) : c \in s}
              R == {<<k, s, Round(s)>> : k \in 1..12, s \in S}
              passed[k \in 0..Cardinality(Nodes) + 2] ==
                IF k = 0 THEN {InputCheckpoint}
                ELSE LET before == passed[k - 1]
                     IN  before \cup UNION {RunFrom(pl, c) : c \in before}
  <1>1. CheckpointsOf(pl) = passed[Cardinality(Nodes) + 2]
    BY DEF CheckpointsOf
  <1>2. Cardinality(Nodes) + 2 = 12
    BY TenNodes
  <1>3. ASSUME NEW s \in S PROVE Round(s) \in S
    BY <1>3, RunStaysWithin DEF Within
  <1>4. {InputCheckpoint} \in S
    <2>1. /\ InputCheckpoint \in Checkpoint /\ InputCheckpoint.at = Entry
          /\ ~InputCheckpoint.vals.awaiting_outline /\ ~InputCheckpoint.vals.awaiting_fact_check
      BY DEF InputCheckpoint, EmptyState, Checkpoint, GraphState, OutlineActions, FactAnswers
    <2>2. Within(pl, InputCheckpoint)
      BY <2>1 DEF Within, Entry, NoThread
    <2>3. QED
      BY <2>1, <2>2
  <1>5. PICK f : Stepwise(12, S, {InputCheckpoint}, R, f)
    <2>1. \A k \in 1..12 : \A s \in S : <<k, s, Round(s)>> \in R
      OBVIOUS
    <2>. HIDE DEF S, R, Round
    <2>2. \A k \in 1..12 : \A s \in S : \E t \in S : <<k, s, t>> \in R
      BY <1>3, <2>1
    <2>3. QED
      BY <1>4, <2>2, RecursionExists
  <1>6. /\ f \in [0..12 -> S] /\ f[0] = {InputCheckpoint}
        /\ \A k \in 1..12 : f[k] = Round(f[k - 1])
    <2>. HIDE DEF S, Round
    <2>1. QED
      BY <1>5 DEF Stepwise, R
  <1>7. f = [k \in 0..12 |-> IF k = 0 THEN {InputCheckpoint} ELSE Round(f[k - 1])]
    <2>. HIDE DEF S, Round
    <2>1. \A k \in 0..12 : k # 0 => k \in 1..12
      OBVIOUS
    <2>2. QED
      BY <1>6, <2>1
  <1>8. passed = [k \in 0..12 |-> IF k = 0 THEN {InputCheckpoint} ELSE Round(passed[k - 1])]
    BY <1>2, <1>7, ZenonT(90)
  <1>. HIDE DEF passed
  <1>9. /\ passed = [k \in 0..12 |-> passed[k]] /\ passed[0] = {InputCheckpoint}
        /\ \A k \in 1..12 : passed[k] = Round(passed[k - 1])
    <2>. HIDE DEF Round
    <2>1. QED
      BY <1>8
  <1>10. passed \in [0..12 -> S]
    <2>. HIDE DEF S, Round
    <2>1. passed[0] \in S /\ \A k \in 1..12 : passed[k - 1] \in S => passed[k] \in S
      BY <1>3, <1>4, <1>9
    <2>2. QED
      BY <1>9, <2>1, RecursionTyped
  <1>11. QED
    BY <1>1, <1>2, <1>9, <1>10 DEF Rounds

\* One node later.
LEMMA NextRound ==
    ASSUME NEW pl, NEW f, Rounds(pl, 12, f), NEW k \in 1..12, NEW c \in f[k - 1]
    PROVE  c \in f[k] /\ RunFrom(pl, c) \subseteq f[k]
  BY DEF Rounds

LEMMA NextRuns ==
    ASSUME NEW pl, NEW f, Rounds(pl, 12, f), NEW k \in 1..12, NEW c \in f[k - 1],
           NEW n, NextNode(pl, c) = n, n # End, c.vals.input, NEW v \in NodeOutcomes(pl, n, c.vals)
    PROVE  [at |-> n, vals |-> v] \in f[k]
  BY NextRound, ZenonT(90) DEF RunFrom

\* A state without an open gate.
Settled(v) ==
    /\ v \in GraphState /\ v.input /\ ~v.awaiting_outline /\ ~v.awaiting_fact_check

\* A state with a draft, on which claims can be found.
Drafted(v) == Settled(v) /\ v.draft

\* The run goes through the outline, with or without its gate, and drafts its sections.
LEMMA RunsToContent ==
    ASSUME NEW pl \in Plan, NEW f, Rounds(pl, 12, f)
    PROVE  /\ \A n \in {"parse_intent", "retrieve_knowledge", "generate_outline"} :
                \E k \in 0..6 : \E c \in f[k] : c.at = n
           /\ pl.outline_gate => \E k \in 0..6 : \E c \in f[k] : c.at = "approve_outline"
           /\ \E c \in f[6] : c.at = "generate_content" /\ Drafted(c.vals)
  <1>. DEFINE c0 == InputCheckpoint
              v1 == [c0.vals EXCEPT !.needs_clarification = FALSE]
              c1 == [at |-> "parse_intent", vals |-> v1]
              c2 == [at |-> "retrieve_knowledge", vals |-> v1]
              v3 == [v1 EXCEPT !.outline = TRUE, !.sections = TRUE,
                               !.awaiting_outline = pl.outline_gate,
                               !.outline_approved = ~pl.outline_gate, !.user_decision = "none"]
              c3 == [at |-> "generate_outline", vals |-> v3]
              v4 == [v3 EXCEPT !.awaiting_outline = FALSE, !.user_decision = "accept"]
              c4 == [at |-> "generate_outline", vals |-> v4]
              v5 == [v4 EXCEPT !.sections = TRUE, !.outline_approved = TRUE,
                               !.awaiting_outline = FALSE, !.user_decision = "none"]
              c5 == [at |-> "approve_outline", vals |-> v5]
  <1>0. /\ c0.vals \in GraphState /\ c0.vals.input /\ ~c0.vals.awaiting_outline
        /\ ~c0.vals.awaiting_fact_check /\ c0.at = Entry /\ c0 \in f[0]
    BY DEF Rounds, InputCheckpoint, EmptyState, GraphState, OutlineActions, FactAnswers
  <1>1. v1 \in GraphState /\ v1.input /\ ~v1.needs_clarification /\ Settled(v1)
    BY <1>0 DEF GraphState, Settled
  <1>2. c1 \in f[1]
    <2>1. v1 \in NodeOutcomes(pl, "parse_intent", c0.vals)
      BY <1>0 DEF NodeOutcomes, ParseIntent
    <2>2. NextNode(pl, c0) = "parse_intent" /\ "parse_intent" # End
      BY <1>0 DEF NextNode, End, Entry
    <2>. HIDE DEF c0, v1
    <2>3. QED
      BY <1>0, <2>1, <2>2, NextRuns
  <1>. HIDE DEF c0
  <1>3. c2 \in f[2]
    <2>1. v1 \in NodeOutcomes(pl, "retrieve_knowledge", v1)
      BY <1>1 DEF NodeOutcomes
    <2>. HIDE DEF v1
    <2>2. NextNode(pl, c1) = "retrieve_knowledge" /\ "retrieve_knowledge" # End
      BY <1>1 DEF NextNode, AfterParseIntent, End, Entry
    <2>3. QED
      BY <1>1, <1>2, <2>1, <2>2, NextRuns
  <1>. HIDE DEF v1
  <1>4. pl.outline_gate \in BOOLEAN
    BY DEF Plan
  <1>5. /\ v3 \in GraphState /\ v3.input /\ v3.outline /\ v3.sections /\ v3.awaiting_outline = pl.outline_gate
        /\ v3.outline_approved = ~pl.outline_gate /\ ~v3.awaiting_fact_check
    BY <1>1, <1>4 DEF GraphState, OutlineActions, Settled
  <1>6. c3 \in f[3]
    <2>1. v3 \in NodeOutcomes(pl, "generate_outline", v1)
      BY <1>1 DEF NodeOutcomes, GenerateOutline
    <2>. HIDE DEF v3
    <2>2. NextNode(pl, c2) = "generate_outline" /\ "generate_outline" # End
      BY DEF NextNode, End, Entry
    <2>3. QED
      BY <1>1, <1>3, <2>1, <2>2, NextRuns
  <1>7. ASSUME NEW k \in 1..12, NEW c \in f[k - 1], c.vals \in GraphState, Settled(c.vals),
               c.at \in {"generate_outline", "approve_outline"}, c.vals.outline, c.vals.sections,
               c.vals.outline_approved
        PROVE  \E e \in f[k] : e.at = "generate_content" /\ Drafted(e.vals)
    <2>. DEFINE w == [c.vals EXCEPT !.draft = c.vals.sections]
    <2>1. Drafted(w)
      BY <1>7 DEF Drafted, Settled, GraphState
    <2>2. w \in NodeOutcomes(pl, "generate_content", c.vals)
      BY <1>7 DEF NodeOutcomes, GenerateContent, Settled
    <2>3. NextNode(pl, c) = "generate_content" /\ "generate_content" # End
      BY <1>7 DEF NextNode, AfterOutline, End, Entry, Settled
    <2>. HIDE DEF w
    <2>4. [at |-> "generate_content", vals |-> w] \in f[k]
      BY <1>7, <2>2, <2>3, NextRuns DEF Settled
    <2>5. QED
      BY <2>1, <2>4
  <1>8. CASE pl.outline_gate
    <2>. HIDE DEF v3
    <2>1. /\ v4 \in GraphState /\ Settled(v4) /\ v4.outline /\ ~v4.outline_approved
          /\ v4.user_decision = "accept"
      BY <1>5, <1>8 DEF GraphState, OutlineActions, Settled
    <2>2. c4 \in f[4]
      <3>1. NextNode(pl, c3) = End
        BY <1>5, <1>8 DEF NextNode, AfterOutline, End, Entry
      <3>2. c4 \in RunFrom(pl, c3)
        BY <1>5, <1>8, <3>1 DEF RunFrom
      <3>. HIDE DEF c3, c4
      <3>3. QED
        BY <1>6, <3>2, NextRound
    <2>. HIDE DEF v4
    <2>3. v5 \in GraphState /\ Settled(v5) /\ v5.outline /\ v5.sections /\ v5.outline_approved
      BY <2>1 DEF GraphState, OutlineActions, Settled
    <2>4. c5 \in f[5]
      <3>1. v5 \in NodeOutcomes(pl, "approve_outline", v4)
        BY <2>1 DEF NodeOutcomes, ApproveOutline, Settled
      <3>. HIDE DEF v5
      <3>2. NextNode(pl, c4) = "approve_outline" /\ "approve_outline" # End
        BY <2>1 DEF NextNode, AfterOutline, End, Entry, Settled
      <3>3. QED
        BY <2>1, <2>2, <3>1, <3>2, NextRuns DEF Settled
    <2>. HIDE DEF v5
    <2>5. \E e \in f[6] : e.at = "generate_content" /\ Drafted(e.vals)
      BY <1>7, <2>3, <2>4
    <2>6. QED
      BY <1>2, <1>3, <1>6, <2>4, <2>5
  <1>9. CASE ~pl.outline_gate
    <2>. HIDE DEF v3
    <2>1. Settled(v3) /\ v3.outline /\ v3.sections /\ v3.outline_approved
      BY <1>5, <1>9 DEF Settled
    <2>2. c3 \in f[4]
      <3>. HIDE DEF c3
      <3>1. QED
        BY <1>6, NextRound
    <2>3. c3 \in f[5]
      <3>. HIDE DEF c3
      <3>1. QED
        BY <2>2, NextRound
    <2>4. \E e \in f[6] : e.at = "generate_content" /\ Drafted(e.vals)
      BY <1>7, <2>1, <2>3, <1>5
    <2>5. QED
      BY <1>2, <1>3, <1>6, <1>9, <2>4
  <1>10. QED
    BY <1>4, <1>8, <1>9

\* From there it refines, checks and asks as the plan says, and comes to its end.
LEMMA RunsToEnd ==
    ASSUME NEW pl \in Plan, NEW f, Rounds(pl, 12, f)
    PROVE  /\ pl.self_refine => \E k \in 0..11 : \E c \in f[k] : c.at = "self_refine"
           /\ pl.fact_check => \E k \in 0..11 : \E c \in f[k] : c.at = "check_facts"
           /\ pl.fact_check /\ pl.fact_check_gate =>
                \E k \in 0..11 : \E c \in f[k] : c.at = "approve_fact_check"
           /\ \E c \in f[11] : c.at = "finalize"
  <1>1. PICK c6 \in f[6] : c6.at = "generate_content" /\ Drafted(c6.vals) /\ Settled(c6.vals)
    BY RunsToContent DEF Drafted
  <1>2. \E c \in f[7] : /\ Drafted(c.vals) /\ NextNode(pl, c) = AfterRefine(pl)
                        /\ pl.self_refine => c.at = "self_refine"
    <2>1. CASE pl.self_refine
      <3>. DEFINE w == [c6.vals EXCEPT !.final = c6.vals.draft]
                  e == [at |-> "self_refine", vals |-> w]
      <3>1. Drafted(w)
        BY <1>1 DEF Drafted, Settled, GraphState
      <3>2. w \in NodeOutcomes(pl, "self_refine", c6.vals)
        BY <1>1 DEF NodeOutcomes, SelfRefine, Settled
      <3>3. NextNode(pl, c6) = "self_refine" /\ "self_refine" # End
        BY <1>1, <2>1 DEF NextNode, AfterContent, End, Entry
      <3>. HIDE DEF w
      <3>4. e \in f[7]
        BY <1>1, <3>2, <3>3, NextRuns DEF Settled
      <3>5. NextNode(pl, e) = AfterRefine(pl)
        BY DEF NextNode, Entry
      <3>6. e.at = "self_refine" /\ e.vals = w
        OBVIOUS
      <3>. HIDE DEF e
      <3>7. QED
        BY <3>1, <3>4, <3>5, <3>6
    <2>2. CASE ~pl.self_refine
      <3>1. c6 \in f[7]
        BY <1>1, NextRound
      <3>2. NextNode(pl, c6) = AfterRefine(pl)
        BY <1>1, <2>2 DEF NextNode, AfterContent, Entry
      <3>3. QED
        BY <1>1, <2>2, <3>1, <3>2
    <2>3. QED
      BY <2>1, <2>2
  <1>3. PICK c7 \in f[7] : /\ Drafted(c7.vals) /\ Settled(c7.vals)
                           /\ NextNode(pl, c7) = AfterRefine(pl)
                           /\ pl.self_refine => c7.at = "self_refine"
    BY <1>2 DEF Drafted
  <1>4. pl.fact_check_gate \in BOOLEAN
    BY DEF Plan
  <1>5. ASSUME NEW k \in 1..11, NEW c \in f[k - 1], NextNode(pl, c) = "finalize", c.vals.input
        PROVE  \E e \in f[k] : e.at = "finalize"
    <2>1. PICK w : w \in NodeOutcomes(pl, "finalize", c.vals)
      BY <1>5 DEF NodeOutcomes, Finalize
    <2>2. "finalize" # End /\ k \in 1..12
      BY DEF End
    <2>3. [at |-> "finalize", vals |-> w] \in f[k]
      BY <1>5, <2>1, <2>2, NextRuns
    <2>4. QED
      BY <2>3
  <1>6. ASSUME NEW k \in 1..11, NEW c \in f[k - 1], c.at = "finalize"
        PROVE  \E e \in f[k] : e.at = "finalize"
    BY <1>6, NextRound
  <1>7. CASE ~pl.fact_check
    <2>1. \E e \in f[8] : e.at = "finalize"
      <3>1. NextNode(pl, c7) = "finalize" /\ c7.vals.input
        BY <1>3, <1>7 DEF AfterRefine, Settled
      <3>2. QED
        BY <1>3, <1>5, <3>1
    <2>2. \E e \in f[9] : e.at = "finalize"
      BY <1>6, <2>1
    <2>3. \E e \in f[10] : e.at = "finalize"
      BY <1>6, <2>2
    <2>4. \E e \in f[11] : e.at = "finalize"
      BY <1>6, <2>3
    <2>5. QED
      BY <1>3, <1>7, <2>4
  <1>8. CASE pl.fact_check
    <2>. DEFINE v8 == [c7.vals EXCEPT !.report = TRUE, !.risky = pl.fact_check_gate,
                                      !.fact_answers = "none",
                                      !.awaiting_fact_check = pl.fact_check_gate /\ pl.fact_check_gate]
                c8 == [at |-> "check_facts", vals |-> v8]
    <2>1. /\ v8 \in GraphState /\ v8.input /\ v8.report /\ v8.risky = pl.fact_check_gate
          /\ v8.awaiting_fact_check = pl.fact_check_gate /\ ~v8.awaiting_outline
          /\ v8.fact_answers = "none"
      BY <1>3, <1>4 DEF GraphState, FactAnswers, Settled
    <2>2. c8 \in f[8]
      <3>1. v8 \in NodeOutcomes(pl, "check_facts", c7.vals)
        BY <1>3, <1>4 DEF NodeOutcomes, CheckFacts, Drafted, Settled
      <3>. HIDE DEF v8
      <3>2. NextNode(pl, c7) = "check_facts" /\ "check_facts" # End
        BY <1>3, <1>8 DEF AfterRefine, End
      <3>3. QED
        BY <1>3, <3>1, <3>2, NextRuns DEF Settled
    <2>. HIDE DEF v8
    <2>3. CASE ~pl.fact_check_gate
      <3>1. NextNode(pl, c8) = "finalize"
        BY <2>1, <2>3 DEF NextNode, AfterFactCheck, End, Entry
      <3>2. \E e \in f[9] : e.at = "finalize"
        BY <1>5, <2>1, <2>2, <3>1
      <3>3. \E e \in f[10] : e.at = "finalize"
        BY <1>6, <3>2
      <3>4. \E e \in f[11] : e.at = "finalize"
        BY <1>6, <3>3
      <3>5. QED
        BY <1>3, <2>2, <2>3, <3>4
    <2>4. CASE pl.fact_check_gate
      <3>. DEFINE v9 == [v8 EXCEPT !.awaiting_fact_check = FALSE, !.fact_answers = "full"]
                  c9 == [at |-> "check_facts", vals |-> v9]
                  v10 == [v9 EXCEPT !.risky = FALSE, !.awaiting_fact_check = FALSE,
                                    !.fact_answers = "none", !.final = v9.final \/ v9.draft]
                  c10 == [at |-> "approve_fact_check", vals |-> v10]
      <3>1. /\ v9 \in GraphState /\ v9.input /\ v9.report /\ ~v9.awaiting_fact_check
            /\ v9.fact_answers = "full"
        BY <2>1 DEF GraphState, FactAnswers
      <3>2. c9 \in f[9]
        <4>1. NextNode(pl, c8) = End
          BY <2>1, <2>4 DEF NextNode, AfterFactCheck, Entry
        <4>2. c9 \in RunFrom(pl, c8)
          BY <2>1, <2>4, <4>1 DEF RunFrom
        <4>. HIDE DEF c8, c9
        <4>3. QED
          BY <2>2, <4>2, NextRound
      <3>. HIDE DEF v9
      <3>3. v10.input /\ v10 \in NodeOutcomes(pl, "approve_fact_check", v9)
        BY <3>1 DEF NodeOutcomes, ApproveFactCheck, GraphState
      <3>. HIDE DEF v10
      <3>4. c10 \in f[10]
        <4>1. NextNode(pl, c9) = "approve_fact_check" /\ "approve_fact_check" # End
          BY <3>1 DEF NextNode, AfterFactCheck, End, Entry
        <4>2. QED
          BY <3>1, <3>2, <3>3, <4>1, NextRuns
      <3>5. NextNode(pl, c10) = "finalize"
        BY DEF NextNode, Entry
      <3>6. \E e \in f[11] : e.at = "finalize"
        BY <1>5, <3>3, <3>4, <3>5
      <3>7. QED
        BY <1>3, <2>2, <3>4, <3>6
    <2>5. QED
      BY <1>4, <2>3, <2>4
  <1>9. QED
    BY <1>7, <1>8

LEMMA RoundsGrow ==
    ASSUME NEW pl, NEW f, Rounds(pl, 12, f), NEW k \in 0..12, NEW c \in f[k]
    PROVE  c \in f[12]
  <1>. DEFINE P == {i \in 0..12 : c \in f[12 - i] => c \in f[12]}
  <1>1. 0 \in P
    OBVIOUS
  <1>2. ASSUME NEW i \in 1..12, i - 1 \in P PROVE i \in P
    <2>1. 13 - i \in 1..12 /\ (13 - i) - 1 = 12 - i /\ 12 - (i - 1) = 13 - i /\ i \in 0..12
      OBVIOUS
    <2>2. c \in f[12 - i] => c \in f[13 - i]
      BY <2>1 DEF Rounds
    <2>3. QED
      BY <1>2, <2>1, <2>2
  <1>3. \A i \in 0..12 : i \in P
    <2>. HIDE DEF P
    <2>1. QED
      BY <1>1, <1>2, HoldsUpTo
  <1>4. 12 - k \in 0..12 /\ 12 - (12 - k) = k
    OBVIOUS
  <1>5. QED
    BY <1>3, <1>4

LEMMA PlansListed == PlanListsWhatRuns
  <1>1. SUFFICES ASSUME NEW pl \in {CompiledPlan(d) : d \in Samples}
                 PROVE  {c.at : c \in CheckpointsOf(pl)} \ {Entry, "clarify_intent"}
                          = ToSet(PlanSteps(pl))
    BY DEF PlanListsWhatRuns
  <1>2. pl \in Plan
    BY SamplesAssumption, PlanType
  <1>3. PICK f : Rounds(pl, 12, f) /\ CheckpointsOf(pl) = f[12]
    BY <1>2, CheckpointsPassed
  <1>4. \A c \in f[12] : c.at \in Nodes \cup {Entry} /\ (c.at # Entry => Listed(pl, c.at))
    BY <1>3 DEF Rounds, Within, Checkpoint
  <1>5. ASSUME NEW n \in Nodes, n # "clarify_intent", Listed(pl, n)
        PROVE  \E c \in f[12] : c.at = n
    <2>1. \E k \in 0..12 : \E c \in f[k] : c.at = n
      <3>1. \A k \in 0..11 : k \in 0..12
        OBVIOUS
      <3>2. \A k \in 0..6 : k \in 0..12
        OBVIOUS
      <3>3. CASE n \in {"parse_intent", "retrieve_knowledge", "generate_outline"}
        BY <1>2, <1>3, <3>2, <3>3, RunsToContent
      <3>4. CASE n = "approve_outline"
        BY <1>2, <1>3, <1>5, <3>2, <3>4, RunsToContent DEF Listed
      <3>5. CASE n = "generate_content"
        BY <1>2, <1>3, <3>5, RunsToContent
      <3>6. CASE n \in {"self_refine", "check_facts", "approve_fact_check"}
        BY <1>2, <1>3, <1>5, <3>1, <3>6, RunsToEnd DEF Listed
      <3>7. CASE n = "finalize"
        BY <1>2, <1>3, <3>7, RunsToEnd
      <3>8. QED
        BY <1>5, <3>3, <3>4, <3>5, <3>6, <3>7 DEF Nodes
    <2>2. QED
      BY <1>3, <2>1, RoundsGrow
  <1>6. Entry \notin Nodes
    BY DEF Entry, Nodes
  <1>7. QED
    BY <1>2, <1>3, <1>4, <1>5, <1>6, StepsListed

-----------------------------------------------------------------------------
(* The graph algorithms, as properties of the specification: the facts above hold *)
(* of every set of drafts, so they hold in every state.                           *)

\* For every draft the cycle test finds a cycle exactly when an edge leads back,
\* and the search from the inputs reaches exactly what the edges reach
\* (validate_definition).
THEOREM SearchesAlwaysRight == Spec => []SearchesAreRight
  <1>1. SearchesAreRight
    BY SearchesRight DEF SearchesAreRight
  <1>2. QED
    BY <1>1, PTL

\* Whatever passes the publishing checks has a way from its input to an output,
\* through every node, and no cycle (validate_definition).
THEOREM PublishedAlwaysRun == Spec => []PublishableGraphsRun
  <1>1. PublishableGraphsRun
    BY PublishedRun DEF PublishableGraphsRun
  <1>2. QED
    BY <1>1, PTL

\* The order the plan is compiled from lists every node of a draft without a cycle
\* once, and a node never before one it depends on (_topological_nodes).
THEOREM OrdersAlwaysTopological == Spec => []OrdersAreTopological
  <1>1. OrdersAreTopological
    BY OrderTopological DEF OrdersAreTopological
  <1>2. QED
    BY <1>1, PTL

\* A gate before every checker is compiled as the outline gate and one behind them
\* as the fact gate, whatever else is drawn beside it (compile_workflow_runtime_plan).
THEOREM GatesAlwaysStay == Spec => []GatesStay
  <1>1. GatesStay
    BY GatesKept DEF GatesStay
  <1>2. QED
    BY <1>1, PTL

\* The steps a compiled plan lists are the nodes a run of it can execute, but for
\* the clarification, which no plan lists (compile_workflow_runtime_plan).
THEOREM PlansAlwaysListed == Spec => []PlansListWhatRuns
  <1>1. PlansListWhatRuns
    BY PlansListed DEF PlansListWhatRuns
  <1>2. QED
    BY <1>1, PTL

===============================================================================
