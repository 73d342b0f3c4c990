-------------------------- MODULE Resources_proofs --------------------------
(* Every document has its file, one version of a file answers and the uploads of *)
(* a run stay with it, for any number of clients, users and bases, and whenever  *)
(* the server stops.  What ModelProviders_proofs and Connections_proofs show is  *)
(* carried over to the whole, and the test of a provider is right.               *)
EXTENDS Resources, SequenceTheorems, WellFoundedInduction, NaturalsInduction, TLAPS

-----------------------------------------------------------------------------
(* Bounded sets of numbers. *)

LEMMA HasSmallest ==
    ASSUME NEW T \in SUBSET Nat, T # {}
    PROVE  \E m \in T : \A x \in T : m <= x
  <1>. DEFINE R == OpToRel(<, Nat)
  <1>1. IsWellFoundedOn(R, Nat)
    BY NatLessThanWellFounded
  <1>2. \A x, y \in Nat : x < y => <<x, y>> \in R
    BY DEF OpToRel
  <1>. HIDE DEF R
  <1>3. PICK m \in T : \A y \in T : ~ (<<y, m>> \in R)
    BY <1>1, WFMin
  <1>4. \A y \in T : y \in Nat /\ m \in Nat /\ ~ (y < m)
    BY <1>2, <1>3
  <1>5. QED
    BY <1>4

LEMMA HasLargest ==
    ASSUME NEW S \in SUBSET Nat, NEW n \in Nat, S # {}, \A s \in S : s <= n
    PROVE  \E m \in S : \A s \in S : s <= m
  <1>. DEFINE T == {n - s : s \in S}
  <1>1. T \in SUBSET Nat /\ T # {}
    <2>1. \A s \in S : n - s \in Nat /\ n - s \in T
      OBVIOUS
    <2>2. QED
      BY <2>1
  <1>2. PICK x \in T : \A y \in T : x <= y
    <2>. HIDE DEF T
    <2>1. QED
      BY <1>1, HasSmallest
  <1>3. PICK m \in S : x = n - m
    OBVIOUS
  <1>4. \A s \in S : n - m <= n - s /\ s \in Nat /\ m \in Nat
    BY <1>2, <1>3
  <1>5. QED
    BY <1>4

-----------------------------------------------------------------------------
(* The inductive invariant. *)

TypeInv ==
    /\ bases \in Seq(Base)
    /\ docs \in Seq(Doc)
    /\ \A d \in DOMAIN docs : docs[d].version <= Len(docs)
    /\ runs \in Seq(Users)
    /\ request \in [Clients -> Request]

Uploading(c) == request[c].op = "upload"
Unlinking(c) == request[c].op = "unlink"

\* The files that are under way belong to one request each: an upload has written
\* its file and not yet its row, and what a deletion is going to remove has no row and
\* never gets one again.
FileInv ==
    /\ Rows \subseteq disk
    /\ \A c \in Clients :
           /\ Uploading(c) => /\ request[c].doc \in DOMAIN docs
                              /\ request[c].doc \in disk \ Rows
           /\ Unlinking(c) => request[c].files \subseteq DOMAIN docs \ Rows
    /\ \A c, d \in Clients :
           /\ Uploading(c) /\ Uploading(d) /\ request[c].doc = request[d].doc => c = d
           /\ Uploading(c) /\ Unlinking(d) => request[c].doc \notin request[d].files

-----------------------------------------------------------------------------
(* Sequences that keep their length. *)

LEMMA SameLength ==
    ASSUME NEW S, NEW s \in Seq(S), NEW f \in [DOMAIN s -> S]
    PROVE  f \in Seq(S) /\ DOMAIN f = DOMAIN s /\ Len(f) = Len(s)
  <1>1. DOMAIN s = 1..Len(s) /\ Len(s) \in Nat
    BY LenProperties
  <1>2. f \in Seq(S)
    BY <1>1, SeqDef
  <1>3. DOMAIN f = 1..Len(f) /\ Len(f) \in Nat
    BY <1>2, LenProperties
  <1>4. QED
    BY <1>1, <1>2, <1>3

LEMMA DocsShape ==
    ASSUME TypeInv
    PROVE  DOMAIN docs = 1..Len(docs) /\ Len(docs) \in Nat /\ docs \in [DOMAIN docs -> Doc]
           /\ DOMAIN bases = 1..Len(bases) /\ Len(bases) \in Nat /\ bases \in [DOMAIN bases -> Base]
  BY LenProperties DEF TypeInv

\* One document is replaced.
LEMMA OneDoc ==
    ASSUME TypeInv, NEW d \in DOMAIN docs, NEW x \in Doc, docs' = WithDoc(d, x),
           x.version = docs[d].version
    PROVE  /\ docs' \in Seq(Doc) /\ DOMAIN docs' = DOMAIN docs
           /\ \A e \in DOMAIN docs' : docs'[e].version <= Len(docs')
           /\ Rows' = (Rows \ {d}) \cup (IF x.row THEN {d} ELSE {})
  <1>1. docs' \in [DOMAIN docs -> Doc] /\ docs'[d] = x /\ \A e \in DOMAIN docs \ {d} : docs'[e] = docs[e]
    BY DocsShape DEF WithDoc
  <1>2. docs' \in Seq(Doc) /\ DOMAIN docs' = DOMAIN docs /\ Len(docs') = Len(docs)
    BY <1>1, SameLength DEF TypeInv
  <1>3. \A e \in DOMAIN docs' : docs'[e].version <= Len(docs')
    BY <1>1, <1>2 DEF TypeInv
  <1>4. QED
    BY <1>1, <1>2, <1>3 DEF Rows

\* A document without a row is added.
LEMMA NewDoc ==
    ASSUME TypeInv, NEW x \in Doc, ~x.row, x.version <= Len(docs) + 1, docs' = Append(docs, x)
    PROVE  /\ docs' \in Seq(Doc) /\ Rows' = Rows
           /\ \A e \in DOMAIN docs' : docs'[e].version <= Len(docs')
           /\ DOMAIN docs' = DOMAIN docs \cup {Len(docs) + 1}
           /\ Len(docs) + 1 \notin DOMAIN docs /\ Len(docs) + 1 \in Nat
  <1>1. /\ docs' \in Seq(Doc) /\ Len(docs') = Len(docs) + 1
        /\ \A e \in 1..Len(docs) : docs'[e] = docs[e]
        /\ docs'[Len(docs) + 1] = x
    BY DocsShape, AppendProperties DEF TypeInv
  <1>2. DOMAIN docs' = 1..(Len(docs) + 1)
    BY <1>1, LenProperties
  <1>3. \A e \in DOMAIN docs' : docs'[e].version <= Len(docs')
    <2>1. \A e \in DOMAIN docs : docs[e].version \in Nat
      BY DocsShape DEF Doc
    <2>2. QED
      BY <1>1, <1>2, <2>1, DocsShape DEF TypeInv
  <1>4. QED
    BY <1>1, <1>2, <1>3, DocsShape DEF Rows

LEMMA IdleRequest == NoRequest \in Request /\ NoRequest.op = "idle"
  BY DEF NoRequest, Request

\* A client begins or ends something without a file.
LEMMA OtherRequest ==
    ASSUME TypeInv, FileInv, NEW c \in Clients, NEW x \in Request, x.op \notin {"upload", "unlink"},
           request' = [request EXCEPT ![c] = x],
           DOMAIN docs' = DOMAIN docs, Rows' \subseteq disk', disk' = disk,
           \A a \in Clients \ {c} : Uploading(a) => request[a].doc \notin Rows',
           \A a \in Clients \ {c} : Unlinking(a) => request[a].files \cap Rows' = {}
    PROVE  FileInv'
  BY DEF TypeInv, FileInv, Uploading, Unlinking

-----------------------------------------------------------------------------
(* The operations. *)

LEMMA NewBaseType ==
    ASSUME TypeInv, NEW s \in {"workspace", "personal", "run_upload"}, NEW u \in Users, NEW r \in Nat
    PROVE  NewBase(s, u, r) \in Seq(Base)
  <1>. DEFINE x == [scope |-> s, run |-> r, status |-> "active",
                    owner |-> IF s = "workspace" THEN "nobody" ELSE u]
  <1>1. x \in Base
    BY DEF Base
  <1>. HIDE DEF x
  <1>2. Append(bases, x) \in Seq(Base)
    BY <1>1, AppendProperties DEF TypeInv
  <1>3. QED
    BY <1>2 DEF NewBase, x

\* The latest version of a file is one of its versions.
LEMMA LatestType ==
    ASSUME TypeInv, NEW b, NEW f
    PROVE  Latest(b, f) \in Nat /\ Latest(b, f) <= Len(docs)
  <1>1. Versions(b, f) \in SUBSET Nat /\ \A v \in Versions(b, f) : v <= Len(docs)
    BY DocsShape DEF Versions, Rows, Doc, TypeInv
  <1>2. CASE Versions(b, f) = {}
    BY <1>2, DocsShape DEF Latest
  <1>3. CASE Versions(b, f) # {}
    <2>1. \E m \in Versions(b, f) : \A v \in Versions(b, f) : v <= m
      BY <1>1, <1>3, DocsShape, HasLargest
    <2>2. Latest(b, f) \in Versions(b, f)
      BY <1>3, <2>1 DEF Latest
    <2>3. QED
      BY <1>1, <2>2
  <1>4. QED
    BY <1>2, <1>3

LEMMA UploadKeeps ==
    ASSUME TypeInv, FileInv, NEW c \in Clients, Idle(c), NEW x \in Doc, ~x.row,
           x.version <= Len(docs) + 1,
           docs' = Append(docs, x), disk' = disk \cup {Len(docs) + 1},
           NEW new \in Request, new.op = "upload", new.doc = Len(docs) + 1,
           request' = [request EXCEPT ![c] = new]
    PROVE  /\ docs' \in Seq(Doc) /\ \A e \in DOMAIN docs' : docs'[e].version <= Len(docs')
           /\ request' \in [Clients -> Request] /\ FileInv'
  <1>1. /\ docs' \in Seq(Doc) /\ Rows' = Rows
        /\ \A e \in DOMAIN docs' : docs'[e].version <= Len(docs')
        /\ DOMAIN docs' = DOMAIN docs \cup {Len(docs) + 1}
        /\ Len(docs) + 1 \notin DOMAIN docs /\ Len(docs) + 1 \in Nat
    BY NewDoc
  <1>2. request' \in [Clients -> Request]
    BY DEF TypeInv
  <1>3. Len(docs) + 1 \notin Rows
    BY <1>1 DEF Rows
  <1>4. FileInv'
    BY <1>1, <1>3 DEF FileInv, Uploading, Unlinking, TypeInv
  <1>5. QED
    BY <1>1, <1>2, <1>4

\* Documents lose their rows, and a deletion is going to remove their files.
LEMMA DeleteKeeps ==
    ASSUME TypeInv, FileInv, NEW c \in Clients, Idle(c), NEW lost \in SUBSET Rows,
           docs' \in Seq(Doc), DOMAIN docs' = DOMAIN docs, Rows' = Rows \ lost, disk' = disk,
           request' = [request EXCEPT ![c] = [NoRequest EXCEPT !.op = "unlink", !.files = lost]]
    PROVE  request' \in [Clients -> Request] /\ FileInv'
  <1>. DEFINE new == [NoRequest EXCEPT !.op = "unlink", !.files = lost]
  <1>1. lost \subseteq DOMAIN docs /\ DOMAIN docs \subseteq Nat
    BY DocsShape DEF Rows
  <1>2. new \in Request /\ new.op = "unlink" /\ new.files = lost
    BY <1>1 DEF NoRequest, Request
  <1>. HIDE DEF new
  <1>3. request' = [request EXCEPT ![c] = new]
    BY DEF new
  <1>4. request' \in [Clients -> Request]
    BY <1>2, <1>3 DEF TypeInv
  <1>5. FileInv'
    BY <1>1, <1>2, <1>3 DEF FileInv, Uploading, Unlinking, TypeInv
  <1>6. QED
    BY <1>4, <1>5

LEMMA CommitKeeps ==
    ASSUME TypeInv, FileInv, NEW c \in Clients, CommitUpload(c)
    PROVE  TypeInv' /\ FileInv'
  <1>. DEFINE r == request[c]
              d == r.doc
              new == [docs[d] EXCEPT !.row = TRUE, !.committed = TRUE,
                                     !.status = IF docs[d].parses THEN "active" ELSE "disabled",
                                     !.index = IF docs[d].parses THEN "ready" ELSE "failed"]
              old(e) == [docs[e] EXCEPT !.status = IF e \in r.hide THEN "archived" ELSE @,
                                        !.raced = @ \/ e \in Blind(d)]
  <1>1. /\ r.op = "upload" /\ d \in DOMAIN docs /\ d \in disk \ Rows
        /\ request' = [request EXCEPT ![c] = NoRequest] /\ UNCHANGED <<bases, disk, runs>>
        /\ docs' = docs \/ docs' = [e \in DOMAIN docs |-> IF e = d THEN new ELSE old(e)]
    BY DEF CommitUpload, Finish, FileInv, Uploading
  <1>2. /\ docs' \in Seq(Doc) /\ DOMAIN docs' = DOMAIN docs
        /\ \A e \in DOMAIN docs' : docs'[e].version <= Len(docs')
        /\ Rows' = Rows \/ Rows' = Rows \cup {d}
    <2>1. CASE docs' = docs
      BY <2>1 DEF TypeInv, Rows
    <2>2. CASE docs' = [e \in DOMAIN docs |-> IF e = d THEN new ELSE old(e)]
      <3>1. new \in Doc /\ new.row /\ new.version = docs[d].version
        <4>1. docs[d] \in Doc
          BY <1>1, DocsShape
        <4>2. PICK s \in {"active", "disabled"}, i \in {"ready", "failed"} :
                 new = [docs[d] EXCEPT !.row = TRUE, !.committed = TRUE, !.status = s, !.index = i]
          OBVIOUS
        <4>. HIDE DEF new
        <4>3. QED
          BY <4>1, <4>2 DEF Doc
      <3>2. ASSUME NEW e \in DOMAIN docs
            PROVE  /\ old(e) \in Doc
                   /\ old(e).row = docs[e].row /\ old(e).version = docs[e].version
        <4>1. docs[e] \in Doc
          BY DocsShape
        <4>2. PICK s \in {"active", "archived", "disabled"}, b \in BOOLEAN :
                 old(e) = [docs[e] EXCEPT !.status = s, !.raced = b]
          <5>1. (docs[e].raced \/ e \in Blind(d)) \in BOOLEAN
            OBVIOUS
          <5>2. (IF e \in r.hide THEN "archived" ELSE docs[e].status)
                   \in {"active", "archived", "disabled"}
            BY <4>1 DEF Doc
          <5>3. QED
            BY <5>1, <5>2
        <4>. HIDE DEF old
        <4>3. QED
          BY <4>1, <4>2 DEF Doc
      <3>. HIDE DEF new, old
      <3>3. docs' \in [DOMAIN docs -> Doc]
        BY <2>2, <3>1, <3>2
      <3>4. docs' \in Seq(Doc) /\ DOMAIN docs' = DOMAIN docs /\ Len(docs') = Len(docs)
        BY <3>3, SameLength DEF TypeInv
      <3>5. Rows' = Rows \cup {d}
        BY <1>1, <2>2, <3>1, <3>2, <3>4 DEF Rows
      <3>6. \A e \in DOMAIN docs' : docs'[e].version <= Len(docs')
        BY <1>1, <2>2, <3>1, <3>2, <3>4 DEF TypeInv
      <3>7. QED
        BY <3>4, <3>5, <3>6
    <2>3. QED
      BY <1>1, <2>1, <2>2
  <1>. HIDE DEF new, old
  <1>3. TypeInv'
    BY <1>1, <1>2, IdleRequest DEF TypeInv
  <1>4. /\ \A a \in Clients \ {c} : Uploading(a) => request[a].doc # d
        /\ \A a \in Clients : Unlinking(a) => d \notin request[a].files
    BY <1>1 DEF FileInv, Uploading
  <1>5. Rows' \subseteq disk'
    BY <1>1, <1>2 DEF FileInv
  <1>6. \A a \in Clients \ {c} : /\ Uploading(a) => request[a].doc \notin Rows'
                                 /\ Unlinking(a) => request[a].files \cap Rows' = {}
    BY <1>2, <1>4 DEF FileInv
  <1>7. FileInv'
    BY <1>1, <1>2, <1>5, <1>6, IdleRequest, OtherRequest
  <1>8. QED
    BY <1>3, <1>7

\* A step that leaves the rows, the files and the requests alone.
LEMMA Frame ==
    ASSUME FileInv, UNCHANGED <<disk, request>>, Rows' = Rows, DOMAIN docs' = DOMAIN docs
    PROVE  FileInv'
  BY DEF FileInv, Uploading, Unlinking

LEMMA AskKeeps == TypeInv /\ FileInv /\ Ask => TypeInv' /\ FileInv'
  <1>. SUFFICES ASSUME TypeInv, FileInv, Ask PROVE TypeInv' /\ FileInv'
    OBVIOUS
  <1>1. ASSUME NEW u \in Users, CreateBase(u) PROVE TypeInv' /\ FileInv'
    <2>1. bases' \in Seq(Base)
      BY <1>1, NewBaseType DEF CreateBase
    <2>2. QED
      BY <1>1, <2>1, Frame DEF CreateBase, TypeInv, Rows
  <1>2. ASSUME NEW u \in Users, UpdateBase(u) PROVE TypeInv' /\ FileInv'
    <2>1. PICK b \in DOMAIN bases, s \in {"active", "archived"} :
             bases' = [bases EXCEPT ![b].status = s]
      BY <1>2 DEF UpdateBase
    <2>2. bases' \in [DOMAIN bases -> Base]
      BY <2>1, DocsShape, ZenonT(90) DEF Base
    <2>3. bases' \in Seq(Base)
      BY <2>2, SameLength DEF TypeInv
    <2>4. QED
      BY <1>2, <2>3, Frame DEF UpdateBase, TypeInv, Rows
  <1>3. ASSUME NEW u \in Users, UpdateStatus(u) PROVE TypeInv' /\ FileInv'
    <2>1. PICK d \in DOMAIN docs, s \in {"active", "archived", "disabled"} :
             d \in Rows /\ docs' = WithDoc(d, [docs[d] EXCEPT !.status = s, !.hand = TRUE])
      BY <1>3 DEF UpdateStatus, Reachable
    <2>. DEFINE x == [docs[d] EXCEPT !.status = s, !.hand = TRUE]
    <2>2. x \in Doc /\ x.row /\ x.version = docs[d].version
      BY <2>1, DocsShape DEF Doc, Rows
    <2>. HIDE DEF x
    <2>3. docs' = WithDoc(d, x)
      BY <2>1 DEF x
    <2>4. /\ docs' \in Seq(Doc) /\ DOMAIN docs' = DOMAIN docs /\ Rows' = Rows
          /\ \A e \in DOMAIN docs' : docs'[e].version <= Len(docs')
      <3>1. Rows' = (Rows \ {d}) \cup {d}
        BY <2>2, <2>3, OneDoc
      <3>2. QED
        BY <2>1, <2>2, <2>3, <3>1, OneDoc
    <2>5. QED
      BY <1>3, <2>4, Frame DEF UpdateStatus, TypeInv
  <1>4. ASSUME NEW c \in Clients, NEW u \in Users, DeleteBase(c, u) PROVE TypeInv' /\ FileInv'
    <2>1. PICK b \in DOMAIN bases :
             /\ bases' = [bases EXCEPT ![b].status = "gone"]
             /\ docs' = [d \in DOMAIN docs |-> IF d \in {e \in Rows : docs[e].base = b}
                                               THEN [docs[d] EXCEPT !.row = FALSE] ELSE docs[d]]
             /\ request' = [request EXCEPT ![c] =
                   [NoRequest EXCEPT !.op = "unlink", !.files = {e \in Rows : docs[e].base = b}]]
      BY <1>4 DEF DeleteBase
    <2>. DEFINE lost == {e \in Rows : docs[e].base = b}
    <2>2. Idle(c) /\ UNCHANGED <<disk, runs>> /\ lost \in SUBSET Rows
      BY <1>4 DEF DeleteBase
    <2>. HIDE DEF lost
    <2>3. \A d \in DOMAIN docs :
             /\ [docs[d] EXCEPT !.row = FALSE] \in Doc
             /\ ~[docs[d] EXCEPT !.row = FALSE].row
             /\ [docs[d] EXCEPT !.row = FALSE].version = docs[d].version
      BY DocsShape, ZenonT(90) DEF Doc
    <2>4. docs' = [d \in DOMAIN docs |-> IF d \in lost
                                         THEN [docs[d] EXCEPT !.row = FALSE] ELSE docs[d]]
      BY <2>1 DEF lost
    <2>5. docs' \in [DOMAIN docs -> Doc]
      BY <2>3, <2>4, DocsShape
    <2>6. docs' \in Seq(Doc) /\ DOMAIN docs' = DOMAIN docs /\ Len(docs') = Len(docs)
      BY <2>5, SameLength DEF TypeInv
    <2>7. /\ Rows' = Rows \ lost
          /\ \A e \in DOMAIN docs' : docs'[e].version <= Len(docs')
      BY <2>3, <2>4, <2>6 DEF Rows, TypeInv
    <2>8. bases' \in [DOMAIN bases -> Base]
      BY <2>1, DocsShape DEF Base
    <2>9. bases' \in Seq(Base)
      BY <2>8, SameLength DEF TypeInv
    <2>10. request' \in [Clients -> Request] /\ FileInv'
      BY <2>1, <2>2, <2>6, <2>7, DeleteKeeps DEF lost
    <2>11. QED
      BY <2>2, <2>6, <2>7, <2>9, <2>10 DEF TypeInv
  <1>5. ASSUME NEW c \in Clients, NEW u \in Users, BeginUpload(c, u) PROVE TypeInv' /\ FileInv'
    <2>1. PICK b \in DOMAIN bases, f \in FileNames, p \in BOOLEAN : Upload(c, b, f, p)
      BY <1>5 DEF BeginUpload
    <2>2. PICK l \in Nat : l = (IF bases[b].status = "gone" THEN 0 ELSE Latest(b, f)) /\ l <= Len(docs)
      <3>1. Latest(b, f) \in Nat /\ Latest(b, f) <= Len(docs)
        BY LatestType
      <3>2. QED
        BY <3>1, DocsShape
    <2>. DEFINE x == [base |-> b, file |-> f, version |-> l + 1, row |-> FALSE, status |-> "active",
                      index |-> "ready", parses |-> p, committed |-> FALSE,
                      hand |-> FALSE, raced |-> FALSE]
    <2>3. x \in Doc /\ ~x.row /\ x.version <= Len(docs) + 1
      BY <2>2, DocsShape DEF Doc
    <2>4. /\ Idle(c) /\ docs' = Append(docs, x) /\ disk' = disk \cup {Len(docs) + 1}
          /\ request' = [request EXCEPT ![c] =
                            [NoRequest EXCEPT !.op = "upload", !.pc = "archive",
                                              !.doc = Len(docs) + 1, !.latest = l]]
      BY <2>1, <2>2 DEF Upload
    <2>. DEFINE new == [NoRequest EXCEPT !.op = "upload", !.pc = "archive",
                                         !.doc = Len(docs) + 1, !.latest = l]
    <2>5. new \in Request /\ new.op = "upload" /\ new.doc = Len(docs) + 1
      <3>1. Len(docs) + 1 \in Nat
        BY DocsShape
      <3>2. QED
        BY <2>2, <3>1 DEF NoRequest, Request
    <2>. HIDE DEF x, new
    <2>6. request' = [request EXCEPT ![c] = new]
      BY <2>4 DEF new
    <2>7. /\ docs' \in Seq(Doc) /\ \A e \in DOMAIN docs' : docs'[e].version <= Len(docs')
          /\ request' \in [Clients -> Request] /\ FileInv'
      BY <2>3, <2>4, <2>5, <2>6, UploadKeeps
    <2>8. QED
      BY <1>5, <2>7 DEF BeginUpload, TypeInv
  <1>6. ASSUME NEW c \in Clients, NEW u \in Users, StartWithUploads(c, u) PROVE TypeInv' /\ FileInv'
    <2>1. PICK f \in FileNames, p \in BOOLEAN :
             /\ docs' = Append(docs, [base |-> Len(bases) + 1, file |-> f, version |-> 1,
                                      row |-> FALSE, status |-> "active", index |-> "ready",
                                      parses |-> p, committed |-> FALSE,
                                      hand |-> FALSE, raced |-> FALSE])
             /\ disk' = disk \cup {Len(docs) + 1}
             /\ request' = [request EXCEPT ![c] =
                               [NoRequest EXCEPT !.op = "upload", !.pc = "archive",
                                                 !.doc = Len(docs) + 1]]
      BY <1>6 DEF StartWithUploads
    <2>. DEFINE x == [base |-> Len(bases) + 1, file |-> f, version |-> 1, row |-> FALSE,
                      status |-> "active", index |-> "ready", parses |-> p,
                      committed |-> FALSE, hand |-> FALSE, raced |-> FALSE]
    <2>2. x \in Doc /\ ~x.row /\ x.version <= Len(docs) + 1
      BY DocsShape DEF Doc
    <2>3. docs' = Append(docs, x)
      BY <2>1
    <2>. DEFINE new == [NoRequest EXCEPT !.op = "upload", !.pc = "archive", !.doc = Len(docs) + 1]
    <2>4. new \in Request /\ new.op = "upload" /\ new.doc = Len(docs) + 1
      <3>1. Len(docs) + 1 \in Nat
        BY DocsShape
      <3>2. QED
        BY <2>2, <3>1 DEF NoRequest, Request
    <2>. HIDE DEF x, new
    <2>5. /\ docs' \in Seq(Doc) /\ \A e \in DOMAIN docs' : docs'[e].version <= Len(docs')
          /\ request' \in [Clients -> Request] /\ FileInv'
      <3>1. Idle(c) /\ disk' = disk \cup {Len(docs) + 1} /\ request' = [request EXCEPT ![c] = new]
        BY <1>6, <2>1 DEF StartWithUploads, new
      <3>2. QED
        BY <2>2, <2>3, <2>4, <3>1, UploadKeeps
    <2>6. /\ bases' = NewBase("run_upload", u, Len(runs) + 1) /\ runs' = Append(runs, u)
          /\ Len(runs) + 1 \in Nat
      BY <1>6, LenProperties DEF StartWithUploads, TypeInv
    <2>7. bases' \in Seq(Base) /\ runs' \in Seq(Users)
      BY <2>6, NewBaseType, AppendProperties DEF TypeInv
    <2>8. QED
      BY <2>5, <2>7 DEF TypeInv
  <1>7. ASSUME NEW c \in Clients, NEW u \in Users, BeginReindex(c, u) PROVE TypeInv' /\ FileInv'
    <2>1. PICK d \in DOMAIN docs :
             request' = [request EXCEPT ![c] = [NoRequest EXCEPT !.op = "reindex", !.doc = d]]
      BY <1>7 DEF BeginReindex
    <2>. DEFINE x == [NoRequest EXCEPT !.op = "reindex", !.doc = d]
    <2>2. x \in Request /\ x.op = "reindex"
      <3>1. d \in Nat
        BY DocsShape
      <3>2. QED
        BY <3>1 DEF NoRequest, Request
    <2>. HIDE DEF x
    <2>3. request' = [request EXCEPT ![c] = x]
      BY <2>1 DEF x
    <2>4. Rows' = Rows /\ UNCHANGED <<bases, docs, disk, runs>>
      BY <1>7 DEF BeginReindex, Rows
    <2>5. FileInv'
      BY <2>2, <2>3, <2>4, OtherRequest DEF FileInv
    <2>6. QED
      BY <2>2, <2>3, <2>4, <2>5 DEF TypeInv
  <1>8. ASSUME NEW c \in Clients, NEW u \in Users, DeleteDocument(c, u) PROVE TypeInv' /\ FileInv'
    <2>1. PICK d \in DOMAIN docs :
             /\ d \in Rows /\ docs' = WithDoc(d, [docs[d] EXCEPT !.row = FALSE])
             /\ request' = [request EXCEPT ![c] =
                               [NoRequest EXCEPT !.op = "unlink", !.files = {d}]]
      BY <1>8 DEF DeleteDocument, Reachable
    <2>. DEFINE x == [docs[d] EXCEPT !.row = FALSE]
    <2>2. x \in Doc /\ ~x.row /\ x.version = docs[d].version
      BY DocsShape, ZenonT(90) DEF Doc
    <2>. HIDE DEF x
    <2>3. docs' = WithDoc(d, x)
      BY <2>1 DEF x
    <2>4. /\ docs' \in Seq(Doc) /\ DOMAIN docs' = DOMAIN docs /\ Rows' = Rows \ {d}
          /\ \A e \in DOMAIN docs' : docs'[e].version <= Len(docs')
      BY <2>2, <2>3, OneDoc
    <2>5. Idle(c) /\ disk' = disk /\ {d} \in SUBSET Rows
      BY <1>8, <2>1 DEF DeleteDocument
    <2>6. request' \in [Clients -> Request] /\ FileInv'
      BY <2>1, <2>4, <2>5, DeleteKeeps
    <2>7. QED
      BY <1>8, <2>4, <2>6 DEF DeleteDocument, TypeInv
  <1>9. CASE Rerun
    <2>1. PICK r \in DOMAIN runs : runs' = Append(runs, runs[r])
      BY <1>9 DEF Rerun
    <2>2. runs[r] \in Users
      BY <2>1, LenProperties DEF TypeInv
    <2>3. runs' \in Seq(Users)
      BY <2>1, <2>2, AppendProperties DEF TypeInv
    <2>4. QED
      BY <1>9, <2>3, Frame DEF Rerun, TypeInv, Rows
  <1>10. QED
    BY <1>1, <1>2, <1>3, <1>4, <1>5, <1>6, <1>7, <1>8, <1>9 DEF Ask

LEMMA ProceedKeeps == TypeInv /\ FileInv /\ Proceed => TypeInv' /\ FileInv'
  <1>. SUFFICES ASSUME TypeInv, FileInv, Proceed PROVE TypeInv' /\ FileInv'
    OBVIOUS
  <1>1. ASSUME NEW c \in Clients, Unlink(c) PROVE TypeInv' /\ FileInv'
    <2>1. /\ request[c].op = "unlink" /\ disk' = disk \ request[c].files
          /\ request' = [request EXCEPT ![c] = NoRequest] /\ UNCHANGED <<bases, docs, runs>>
          /\ Rows' = Rows
      BY <1>1 DEF Unlink, Finish, Rows
    <2>2. FileInv'
      BY <2>1, IdleRequest DEF FileInv, Uploading, Unlinking, TypeInv
    <2>3. QED
      BY <2>1, <2>2, IdleRequest DEF TypeInv
  <1>2. ASSUME NEW c \in Clients, Archive(c) PROVE TypeInv' /\ FileInv'
    <2>. DEFINE hide == IF docs[request[c].doc].parses
                        THEN Hidden(request[c].doc, request[c].latest) ELSE {}
    <2>1. hide \in SUBSET Nat
      BY DocsShape DEF Hidden, Rows
    <2>. HIDE DEF hide
    <2>2. /\ request' = [request EXCEPT ![c].pc = "commit", ![c].hide = hide]
          /\ UNCHANGED <<bases, docs, disk, runs>> /\ Rows' = Rows
      BY <1>2 DEF Archive, hide, Rows
    <2>3. /\ request' \in [Clients -> Request]
          /\ \A a \in Clients : /\ request'[a].op = request[a].op /\ request'[a].doc = request[a].doc
                                /\ request'[a].files = request[a].files
      BY <2>1, <2>2, ZenonT(90) DEF TypeInv, Request
    <2>4. FileInv'
      BY <2>2, <2>3 DEF FileInv, Uploading, Unlinking
    <2>5. QED
      BY <2>2, <2>3, <2>4 DEF TypeInv
  <1>3. ASSUME NEW c \in Clients, CommitUpload(c) PROVE TypeInv' /\ FileInv'
    BY <1>3, CommitKeeps
  <1>4. ASSUME NEW c \in Clients, FinishReindex(c) PROVE TypeInv' /\ FileInv'
    <2>. DEFINE d == request[c].doc
    <2>1. /\ request[c].op = "reindex" /\ request' = [request EXCEPT ![c] = NoRequest]
          /\ UNCHANGED <<bases, disk, runs>>
          /\ \/ UNCHANGED docs
             \/ \E i \in {"ready", "failed"} :
                   d \in Rows /\ docs' = WithDoc(d, [docs[d] EXCEPT !.index = i])
      BY <1>4 DEF FinishReindex, Finish
    <2>2. /\ docs' \in Seq(Doc) /\ DOMAIN docs' = DOMAIN docs /\ Rows' = Rows
          /\ \A e \in DOMAIN docs' : docs'[e].version <= Len(docs')
      <3>1. CASE UNCHANGED docs
        BY <3>1 DEF TypeInv, Rows
      <3>2. ASSUME NEW i \in {"ready", "failed"}, d \in Rows,
                   docs' = WithDoc(d, [docs[d] EXCEPT !.index = i])
            PROVE  /\ docs' \in Seq(Doc) /\ DOMAIN docs' = DOMAIN docs /\ Rows' = Rows
                   /\ \A e \in DOMAIN docs' : docs'[e].version <= Len(docs')
        <4>. DEFINE x == [docs[d] EXCEPT !.index = i]
        <4>1. d \in DOMAIN docs /\ x \in Doc /\ x.row /\ x.version = docs[d].version
          BY <3>2, DocsShape, ZenonT(90) DEF Doc, Rows
        <4>. HIDE DEF x
        <4>2. docs' = WithDoc(d, x)
          BY <3>2 DEF x
        <4>3. QED
          <5>1. Rows' = (Rows \ {d}) \cup {d}
            BY <4>1, <4>2, OneDoc
          <5>2. QED
            BY <3>2, <4>1, <4>2, <5>1, OneDoc
      <3>3. QED
        BY <2>1, <3>1, <3>2
    <2>3. FileInv'
      BY <2>1, <2>2, IdleRequest, OtherRequest DEF FileInv
    <2>4. QED
      BY <2>1, <2>2, <2>3, IdleRequest DEF TypeInv
  <1>5. CASE Crash
    BY <1>5, IdleRequest DEF Crash, TypeInv, FileInv, Rows, Uploading, Unlinking
  <1>6. QED
    BY <1>1, <1>2, <1>3, <1>4, <1>5 DEF Proceed

LEMMA FilesInvariant == Spec => [](TypeInv /\ FileInv)
  <1>1. Init => TypeInv /\ FileInv
    <2>. SUFFICES ASSUME Init PROVE TypeInv /\ FileInv
      OBVIOUS
    <2>1. bases \in Seq(Base) /\ docs \in Seq(Doc) /\ runs \in Seq(Users) /\ DOMAIN docs = {}
      BY EmptySeq, LenProperties DEF Init
    <2>2. QED
      BY <2>1, IdleRequest DEF Init, TypeInv, FileInv, Rows, Uploading, Unlinking
  <1>2. TypeInv /\ FileInv /\ [Next]_vars => (TypeInv /\ FileInv)'
    <2>1. TypeInv /\ FileInv /\ UNCHANGED vars => (TypeInv /\ FileInv)'
      BY Frame DEF vars, TypeInv, Rows
    <2>2. QED
      BY <2>1, AskKeeps, ProceedKeeps DEF Next
  <1>3. QED
    BY <1>1, <1>2, PTL DEF Spec

\* A document that has a row has its file, for any number of clients, users, bases
\* and uploads, whichever request is cut off between its commit and its file.
THEOREM RowsAlwaysHaveFiles == Spec => []RowsHaveFiles
  <1>1. FileInv => RowsHaveFiles
    BY DEF FileInv, RowsHaveFiles
  <1>2. QED
    BY <1>1, FilesInvariant, PTL

-----------------------------------------------------------------------------
(* One version of a file answers.  What an upload is going to hide is not all that *)
(* answers beside it, so the invariant speaks of the uploads under way: as long as *)
(* one has not looked for older versions it will see every row there is, and once  *)
(* it has, a row it does not hide belongs to an upload that marked it as raced.    *)

Excused(d) == docs[d].hand \/ docs[d].raced

Active(d) == docs[d].status = "active"

Covered(c, e) ==
    \/ request[c].pc = "archive" /\ request[c].latest # 0
    \/ request[c].pc = "commit" /\ e \in request[c].hide

Pending(c) ==
    /\ request[c].pc \in {"archive", "commit"}
    /\ docs[request[c].doc].parses =>
          \A e \in Rows : SameFile(request[c].doc, e) /\ Active(e)
                           => Excused(request[c].doc) \/ Excused(e) \/ Covered(c, e)
    /\ \A e \in request[c].hide :
          /\ e \in DOMAIN docs /\ e # request[c].doc /\ SameFile(e, request[c].doc)
          /\ docs[request[c].doc].parses

Replaced(d) ==
    \E e \in DOMAIN docs : /\ SameFile(d, e) /\ e # d
                           /\ docs[e].committed /\ docs[e].parses

OneActive ==
    \A d, e \in Rows : d # e /\ SameFile(d, e) /\ Active(d) /\ Active(e) => Excused(d) \/ Excused(e)

AllReplaced ==
    \A d \in DOMAIN docs : docs[d].status = "archived" /\ ~docs[d].hand => Replaced(d)

AllPending == \A c \in Clients : Uploading(c) => Pending(c)

Numbered == \A d \in DOMAIN docs : docs[d].version # 0

Placed == \A d \in DOMAIN docs : docs[d].base \in DOMAIN bases

VersionInv == Numbered /\ Placed /\ OneActive /\ AllReplaced /\ AllPending

\* What every step but the commit of an upload does to the documents there are.
DocKept(d) ==
    /\ docs'[d].base = docs[d].base /\ docs'[d].file = docs[d].file
    /\ docs'[d].version = docs[d].version /\ docs'[d].parses = docs[d].parses
    /\ docs'[d].committed = docs[d].committed
    /\ docs[d].hand => docs'[d].hand
    /\ docs'[d].raced = docs[d].raced
    /\ docs'[d].row => docs[d].row
    /\ docs'[d].status = docs[d].status \/ docs'[d].hand

DocsKept ==
    /\ DOMAIN docs \subseteq DOMAIN docs'
    /\ \A d \in DOMAIN docs : DocKept(d)
    /\ \A d \in DOMAIN docs' \ DOMAIN docs :
          /\ ~docs'[d].row /\ docs'[d].status = "active" /\ docs'[d].version # 0
          /\ docs'[d].base \in DOMAIN bases'
    /\ DOMAIN bases \subseteq DOMAIN bases'

LEMMA VersionsKept ==
    ASSUME TypeInv, FileInv, VersionInv, DocsKept,
           \A a \in Clients : Uploading(a)' => request'[a] = request[a] \/ Pending(a)'
    PROVE  VersionInv'
  <1>1. Rows' \subseteq Rows /\ Rows \subseteq DOMAIN docs /\ Rows' \subseteq DOMAIN docs
    BY DEF Rows, DocsKept, DocKept
  <1>2. \A d, e \in DOMAIN docs : SameFile(d, e)' <=> SameFile(d, e)
    BY DEF DocsKept, DocKept, SameFile
  <1>3. \A d \in DOMAIN docs : /\ Excused(d) => Excused(d)'
                               /\ Active(d)' => Active(d) \/ Excused(d)'
    BY DEF DocsKept, DocKept, Excused, Active
  <1>4. Numbered' /\ Placed'
    BY DEF DocsKept, DocKept, Numbered, Placed, VersionInv
  <1>5. OneActive'
    BY <1>1, <1>2, <1>3 DEF OneActive, VersionInv
  <1>6. AllReplaced'
    <2>. SUFFICES ASSUME NEW d \in DOMAIN docs', docs'[d].status = "archived", ~docs'[d].hand
                  PROVE  Replaced(d)'
      BY DEF AllReplaced
    <2>1. d \in DOMAIN docs
      BY DEF DocsKept
    <2>2. docs[d].status = "archived" /\ ~docs[d].hand
      BY <2>1 DEF DocsKept, DocKept
    <2>3. PICK e \in DOMAIN docs : SameFile(d, e) /\ e # d /\ docs[e].committed /\ docs[e].parses
      BY <2>1, <2>2 DEF VersionInv, AllReplaced, Replaced
    <2>4. e \in DOMAIN docs' /\ SameFile(d, e)' /\ docs'[e].committed /\ docs'[e].parses
      BY <1>2, <2>1, <2>3 DEF DocsKept, DocKept
    <2>5. QED
      BY <2>3, <2>4 DEF Replaced
  <1>7. AllPending'
    <2>. SUFFICES ASSUME NEW c \in Clients, Uploading(c)', request'[c] = request[c]
                  PROVE  Pending(c)'
      BY DEF AllPending
    <2>0. PICK d \in Nat : d = request[c].doc
      BY DEF TypeInv, Request
    <2>1. Uploading(c) /\ Pending(c) /\ d \in DOMAIN docs
      BY <2>0 DEF Uploading, VersionInv, AllPending, FileInv
    <2>2. docs'[d].parses = docs[d].parses
      BY <2>1 DEF DocsKept, DocKept
    <2>3. ASSUME NEW e \in Rows', SameFile(d, e), Active(e)', docs[d].parses
          PROVE  Excused(d)' \/ Excused(e)' \/ Covered(c, e)
      BY <1>1, <1>3, <2>0, <2>1, <2>3 DEF Pending
    <2>4. \A e : Covered(c, e)' <=> Covered(c, e)
      BY DEF Covered
    <2>5. \A e \in request[c].hide : /\ e \in DOMAIN docs' /\ e # d /\ docs'[d].parses
                                     /\ SameFile(e, d)'
      BY <1>2, <2>0, <2>1, <2>2 DEF Pending, DocsKept
    <2>6. ASSUME NEW e \in Rows', SameFile(d, e)', Active(e)', docs'[d].parses
          PROVE  Excused(d)' \/ Excused(e)' \/ Covered(c, e)'
      BY <1>1, <1>2, <2>1, <2>2, <2>3, <2>4, <2>6
    <2>7. request'[c].pc \in {"archive", "commit"} /\ request'[c].doc = d /\ request'[c].hide = request[c].hide
      BY <2>0, <2>1 DEF Pending
    <2>8. QED
      BY <2>5, <2>6, <2>7 DEF Pending
  <1>8. QED
    BY <1>4, <1>5, <1>6, <1>7 DEF VersionInv

LEMMA SameDocs == docs' = docs /\ DOMAIN bases \subseteq DOMAIN bases' => DocsKept
  BY DEF DocsKept, DocKept

LEMMA OneDocKept ==
    ASSUME TypeInv, NEW d \in DOMAIN docs, NEW x, docs' = WithDoc(d, x),
           x.base = docs[d].base, x.file = docs[d].file, x.version = docs[d].version,
           x.parses = docs[d].parses, x.committed = docs[d].committed, x.raced = docs[d].raced,
           docs[d].hand => x.hand, x.row => docs[d].row, x.status = docs[d].status \/ x.hand,
           DOMAIN bases' = DOMAIN bases
    PROVE  DocsKept
  <1>1. DOMAIN docs' = DOMAIN docs /\ docs'[d] = x /\ \A e \in DOMAIN docs \ {d} : docs'[e] = docs[e]
    BY DocsShape DEF WithDoc
  <1>2. QED
    BY <1>1 DEF DocsKept, DocKept

LEMMA NewDocKept ==
    ASSUME TypeInv, NEW x, docs' = Append(docs, x),
           ~x.row, x.status = "active", x.version # 0, x.base \in DOMAIN bases',
           DOMAIN bases \subseteq DOMAIN bases'
    PROVE  /\ DocsKept
           /\ docs'[Len(docs) + 1] = x /\ \A e \in DOMAIN docs : docs'[e] = docs[e]
  <1>1. docs \in Seq(Doc \cup {x})
    BY DocsShape, SeqDef DEF TypeInv
  <1>2. /\ DOMAIN docs' = DOMAIN docs \cup {Len(docs) + 1}
        /\ docs'[Len(docs) + 1] = x /\ \A e \in DOMAIN docs : docs'[e] = docs[e]
    <2>1. /\ docs' \in Seq(Doc \cup {x}) /\ Len(docs') = Len(docs) + 1
          /\ \A e \in 1..Len(docs) : docs'[e] = docs[e]
          /\ docs'[Len(docs) + 1] = x
      BY <1>1, AppendProperties
    <2>2. DOMAIN docs' = 1..(Len(docs) + 1)
      BY <2>1, LenProperties
    <2>3. QED
      BY <2>1, <2>2, DocsShape
  <1>3. QED
    BY <1>2 DEF DocsKept, DocKept

\* The first step of an upload: with a version number above 1 it will look for the
\* older ones, and without one there are none.
LEMMA VersionsOfUpload ==
    ASSUME TypeInv, FileInv, VersionInv, NEW c \in Clients, NEW x, NEW new,
           ~x.row, x.status = "active", x.version # 0, x.base \in DOMAIN bases',
           DOMAIN bases \subseteq DOMAIN bases', docs' = Append(docs, x),
           new.pc = "archive", new.doc = Len(docs) + 1, new.hide = {},
           new.latest = 0 => \A e \in Rows : docs[e].base = x.base => docs[e].file # x.file,
           request' = [request EXCEPT ![c] = new]
    PROVE  VersionInv'
  <1>1. /\ DocsKept
        /\ docs'[Len(docs) + 1] = x /\ \A e \in DOMAIN docs : docs'[e] = docs[e]
    BY NewDocKept
  <1>2. request'[c] = new /\ \A a \in Clients \ {c} : request'[a] = request[a]
    BY DEF TypeInv
  <1>3. PICK n \in Nat : n = Len(docs) + 1
    BY DocsShape
  <1>4. Rows' \subseteq Rows /\ Rows \subseteq DOMAIN docs
    BY <1>1 DEF Rows, DocsKept, DocKept
  <1>5. ASSUME NEW e \in Rows', SameFile(n, e)' PROVE new.latest # 0
    <2>1. docs[e].base = x.base /\ docs[e].file = x.file
      BY <1>1, <1>3, <1>4, <1>5 DEF SameFile
    <2>2. QED
      BY <1>4, <2>1
  <1>6. Pending(c)'
    BY <1>2, <1>3, <1>5 DEF Pending, Covered
  <1>7. QED
    BY <1>1, <1>2, <1>6, VersionsKept

LEMMA VersionsOfCommit ==
    ASSUME TypeInv, FileInv, VersionInv, NEW c \in Clients, CommitUpload(c)
    PROVE  VersionInv'
  <1>1. PICK d \in DOMAIN docs : d = request[c].doc /\ d \notin Rows
    BY DEF CommitUpload, FileInv, Uploading
  <1>2. PICK hide : hide = request[c].hide
    OBVIOUS
  <1>3. /\ request[c].op = "upload" /\ request[c].pc = "commit"
        /\ request' = [request EXCEPT ![c] = NoRequest] /\ bases' = bases
    BY DEF CommitUpload, Finish
  <1>4. /\ request'[c] = NoRequest /\ \A a \in Clients \ {c} : request'[a] = request[a]
        /\ ~Uploading(c)'
    BY <1>3, IdleRequest DEF TypeInv, Uploading
  <1>5. CASE docs' = docs
    BY <1>3, <1>4, <1>5, SameDocs, VersionsKept
  <1>6. CASE docs' # docs
    <2>. DEFINE new == [docs[d] EXCEPT !.row = TRUE, !.committed = TRUE,
                                     !.status = IF docs[d].parses THEN "active" ELSE "disabled",
                                     !.index = IF docs[d].parses THEN "ready" ELSE "failed"]
                old(e) == [docs[e] EXCEPT !.status = IF e \in hide THEN "archived" ELSE @,
                                          !.raced = @ \/ e \in Blind(d)]
    <2>1. docs' = [e \in DOMAIN docs |-> IF e = d THEN new ELSE old(e)]
      BY <1>1, <1>2, <1>6 DEF CommitUpload
    <2>2. /\ new.row /\ new.committed /\ new.hand = docs[d].hand /\ new.raced = docs[d].raced
          /\ new.base = docs[d].base /\ new.file = docs[d].file
          /\ new.version = docs[d].version /\ new.parses = docs[d].parses
          /\ new.status = IF docs[d].parses THEN "active" ELSE "disabled"
      BY DocsShape DEF Doc
    <2>3. ASSUME NEW e \in DOMAIN docs
          PROVE  /\ old(e).row = docs[e].row /\ old(e).committed = docs[e].committed
                 /\ old(e).hand = docs[e].hand
                 /\ old(e).base = docs[e].base /\ old(e).file = docs[e].file
                 /\ old(e).version = docs[e].version /\ old(e).parses = docs[e].parses
                 /\ old(e).status = (IF e \in hide THEN "archived" ELSE docs[e].status)
                 /\ docs[e].raced \/ e \in Blind(d) => old(e).raced
      BY DocsShape, ZenonT(90) DEF Doc
    <2>. HIDE DEF new, old
    <2>4. DOMAIN docs' = DOMAIN docs /\ docs'[d] = new /\ \A e \in DOMAIN docs \ {d} : docs'[e] = old(e)
      BY <2>1
    <2>5. \A e \in DOMAIN docs :
             /\ docs'[e].base = docs[e].base /\ docs'[e].file = docs[e].file
             /\ docs'[e].version = docs[e].version /\ docs'[e].parses = docs[e].parses
             /\ docs'[e].hand = docs[e].hand
             /\ docs[e].committed => docs'[e].committed
             /\ docs[e].raced => docs'[e].raced
      BY <2>2, <2>3, <2>4
    <2>6. /\ Rows' = Rows \cup {d} /\ Rows \subseteq DOMAIN docs
          /\ docs'[d].committed
          /\ docs'[d].status = IF docs[d].parses THEN "active" ELSE "disabled"
          /\ \A e \in DOMAIN docs \ {d} :
                /\ docs'[e].status = (IF e \in hide THEN "archived" ELSE docs[e].status)
                /\ e \in Blind(d) => docs'[e].raced
      BY <2>2, <2>3, <2>4 DEF Rows
    <2>7. \A e, f \in DOMAIN docs : SameFile(e, f)' <=> SameFile(e, f)
      BY <2>5 DEF SameFile
    <2>8. \A e \in DOMAIN docs : Excused(e) => Excused(e)'
      BY <2>5 DEF Excused
    <2>9. \A e \in DOMAIN docs \ {d} : Active(e)' => Active(e) /\ e \notin hide
      BY <2>6 DEF Active
    <2>10. Pending(c)
      BY <1>3 DEF VersionInv, AllPending, Uploading
    <2>11. ASSUME NEW e \in Rows, SameFile(d, e), Active(d)', Active(e)'
           PROVE  Excused(d) \/ Excused(e)
      <3>1. docs[d].parses
        BY <2>6, <2>11 DEF Active
      <3>2. Active(e) /\ e \notin hide /\ e # d
        BY <1>1, <2>6, <2>9, <2>11
      <3>3. ~Covered(c, e)
        BY <1>2, <1>3, <3>2 DEF Covered
      <3>4. QED
        BY <1>1, <2>10, <2>11, <3>1, <3>2, <3>3 DEF Pending
    <2>12. OneActive'
      <3>1. SUFFICES ASSUME NEW e \in Rows', NEW f \in Rows', e # f,
                            SameFile(e, f)', Active(e)', Active(f)'
                     PROVE  Excused(e)' \/ Excused(f)'
        BY DEF OneActive
      <3>2. e \in DOMAIN docs /\ f \in DOMAIN docs /\ SameFile(e, f) /\ SameFile(f, e)
        BY <2>6, <2>7, <3>1 DEF SameFile
      <3>3. CASE e = d
        <4>1. f \in Rows
          BY <2>6, <3>1, <3>3
        <4>2. Excused(d) \/ Excused(f)
          BY <2>11, <3>1, <3>2, <3>3, <4>1
        <4>3. QED
          BY <2>8, <3>2, <3>3, <4>2
      <3>4. CASE f = d
        <4>1. e \in Rows
          BY <2>6, <3>1, <3>4
        <4>2. Excused(d) \/ Excused(e)
          BY <2>11, <3>1, <3>2, <3>4, <4>1
        <4>3. QED
          BY <2>8, <3>2, <3>4, <4>2
      <3>5. CASE e # d /\ f # d
        <4>1. e \in Rows /\ f \in Rows /\ Active(e) /\ Active(f)
          BY <2>6, <2>9, <3>1, <3>2, <3>5
        <4>2. Excused(e) \/ Excused(f)
          BY <3>1, <3>2, <4>1 DEF VersionInv, OneActive
        <4>3. QED
          BY <2>8, <3>2, <4>2
      <3>6. QED
        BY <3>3, <3>4, <3>5
    <2>13. AllReplaced'
      <3>1. SUFFICES ASSUME NEW e \in DOMAIN docs, docs'[e].status = "archived", ~docs'[e].hand
                     PROVE  \E f \in DOMAIN docs : /\ SameFile(e, f)' /\ f # e
                                                   /\ docs'[f].committed /\ docs'[f].parses
        BY <2>4 DEF AllReplaced, Replaced
      <3>2. e # d /\ ~docs[e].hand
        BY <2>5, <2>6, <3>1
      <3>3. CASE e \in hide
        <4>1. SameFile(e, d) /\ docs[d].parses
          BY <1>1, <1>2, <2>10, <3>3 DEF Pending
        <4>2. SameFile(e, d)' /\ docs'[d].committed /\ docs'[d].parses
          BY <2>5, <2>6, <2>7, <4>1
        <4>3. QED
          BY <3>2, <4>2
      <3>4. CASE e \notin hide
        <4>1. docs[e].status = "archived"
          BY <2>6, <3>1, <3>2, <3>4
        <4>2. PICK f \in DOMAIN docs : SameFile(e, f) /\ f # e /\ docs[f].committed /\ docs[f].parses
          BY <3>2, <4>1 DEF VersionInv, AllReplaced, Replaced
        <4>3. SameFile(e, f)' /\ docs'[f].committed /\ docs'[f].parses
          BY <2>5, <2>7, <4>2
        <4>4. QED
          BY <4>2, <4>3
      <3>5. QED
        BY <3>3, <3>4
    <2>14. AllPending'
      <3>1. SUFFICES ASSUME NEW a \in Clients \ {c}, Uploading(a) PROVE Pending(a)'
        BY <1>4 DEF AllPending, Uploading
      <3>2. PICK g \in DOMAIN docs : g = request[a].doc /\ g # d
        BY <1>1, <1>3, <3>1 DEF FileInv, Uploading
      <3>3. Pending(a) /\ request'[a] = request[a]
        BY <1>4, <3>1 DEF VersionInv, AllPending
      <3>4. \A e : Covered(a, e)' <=> Covered(a, e)
        BY <3>3 DEF Covered
      <3>5. ASSUME NEW e \in Rows', SameFile(g, e)', Active(e)', docs[g].parses
            PROVE  Excused(g)' \/ Excused(e)' \/ Covered(a, e)
        <4>1. e \in DOMAIN docs /\ SameFile(g, e)
          BY <2>6, <2>7, <3>5
        <4>2. CASE e # d
          <5>1. e \in Rows /\ Active(e)
            BY <2>6, <2>9, <3>5, <4>1, <4>2
          <5>2. Excused(g) \/ Excused(e) \/ Covered(a, e)
            BY <3>2, <3>3, <3>5, <4>1, <5>1 DEF Pending
          <5>3. QED
            BY <2>8, <4>1, <5>2
        <4>3. CASE e = d
          <5>1. CASE request[a].pc = "archive" /\ request[a].latest # 0
            BY <5>1 DEF Covered
          <5>2. CASE ~(request[a].pc = "archive" /\ request[a].latest # 0)
            <6>1. request[a].pc = "commit" \/ request[a].latest = 0
              BY <3>3, <5>2 DEF Pending
            <6>2. SameFile(d, g)
              BY <4>1, <4>3 DEF SameFile
            <6>3. g \in Blind(d)
              BY <3>1, <3>2, <6>1, <6>2 DEF Blind, Uploading
            <6>4. QED
              BY <2>6, <3>2, <6>3 DEF Excused
          <5>3. QED
            BY <5>1, <5>2
        <4>4. QED
          BY <4>2, <4>3
      <3>6. \A e \in request[a].hide : /\ e \in DOMAIN docs' /\ e # g /\ docs'[g].parses
                                       /\ SameFile(e, g)'
        BY <2>4, <2>5, <2>7, <3>2, <3>3 DEF Pending
      <3>7. docs'[g].parses = docs[g].parses /\ request[a].pc \in {"archive", "commit"}
        BY <2>5, <3>3 DEF Pending
      <3>8. QED
        BY <3>2, <3>3, <3>4, <3>5, <3>6, <3>7 DEF Pending
    <2>15. Numbered' /\ Placed'
      BY <1>3, <2>4, <2>5 DEF Numbered, Placed, VersionInv
    <2>16. QED
      BY <2>12, <2>13, <2>14, <2>15 DEF VersionInv
  <1>7. QED
    BY <1>5, <1>6

\* A file without a version to look for has no row.
LEMMA NoVersionNoRow ==
    ASSUME TypeInv, VersionInv, NEW b, NEW f, Latest(b, f) = 0, NEW e \in Rows, docs[e].base = b
    PROVE  docs[e].file # f
  <1>. SUFFICES ASSUME docs[e].file = f PROVE FALSE
    OBVIOUS
  <1>1. Versions(b, f) # {}
    BY DEF Versions
  <1>2. Versions(b, f) \in SUBSET Nat /\ \A v \in Versions(b, f) : v <= Len(docs) /\ v # 0
    BY DocsShape, SMTT(60) DEF Versions, Rows, Doc, TypeInv, VersionInv, Numbered
  <1>3. \E m \in Versions(b, f) : \A v \in Versions(b, f) : v <= m
    BY <1>1, <1>2, DocsShape, HasLargest
  <1>4. Latest(b, f) \in Versions(b, f)
    BY <1>1, <1>3 DEF Latest
  <1>5. QED
    BY <1>2, <1>4

LEMMA VersionsOfAsk ==
    ASSUME TypeInv, FileInv, VersionInv, TypeInv', Ask
    PROVE  VersionInv'
  <1>1. ASSUME NEW u \in Users, CreateBase(u) PROVE VersionInv'
    <2>1. \E x : bases' = Append(bases, x)
      BY <1>1 DEF CreateBase, NewBase
    <2>2. DOMAIN bases \subseteq DOMAIN bases'
      <3>1. PICK x : bases' = Append(bases, x)
        BY <2>1
      <3>2. bases \in Seq(Base \cup {x})
        BY DocsShape, SeqDef DEF TypeInv
      <3>3. Len(bases') = Len(bases) + 1 /\ DOMAIN bases' = 1..Len(bases')
        BY <3>1, <3>2, AppendProperties, LenProperties
      <3>4. QED
        BY <3>3, DocsShape
    <2>3. QED
      BY <1>1, <2>2, SameDocs, VersionsKept DEF CreateBase
  <1>2. ASSUME NEW u \in Users, UpdateBase(u) PROVE VersionInv'
    <2>1. DOMAIN bases' = DOMAIN bases
      BY <1>2 DEF UpdateBase
    <2>2. QED
      BY <1>2, <2>1, SameDocs, VersionsKept DEF UpdateBase
  <1>3. ASSUME NEW u \in Users, UpdateStatus(u) PROVE VersionInv'
    <2>1. PICK d \in DOMAIN docs, s \in {"active", "archived", "disabled"} :
             docs' = WithDoc(d, [docs[d] EXCEPT !.status = s, !.hand = TRUE])
      BY <1>3 DEF UpdateStatus
    <2>. DEFINE x == [docs[d] EXCEPT !.status = s, !.hand = TRUE]
    <2>2. /\ x.base = docs[d].base /\ x.file = docs[d].file /\ x.version = docs[d].version
          /\ x.parses = docs[d].parses /\ x.committed = docs[d].committed
          /\ x.raced = docs[d].raced /\ x.row = docs[d].row /\ x.hand
      BY DocsShape DEF Doc
    <2>. HIDE DEF x
    <2>3. docs' = WithDoc(d, x)
      BY <2>1 DEF x
    <2>4. DocsKept
      BY <1>3, <2>2, <2>3, OneDocKept DEF UpdateStatus
    <2>5. QED
      BY <1>3, <2>4, VersionsKept DEF UpdateStatus
  <1>4. ASSUME NEW c \in Clients, NEW u \in Users, DeleteBase(c, u) PROVE VersionInv'
    <2>1. PICK b \in DOMAIN bases :
             /\ bases' = [bases EXCEPT ![b].status = "gone"]
             /\ docs' = [d \in DOMAIN docs |-> IF d \in {e \in Rows : docs[e].base = b}
                                               THEN [docs[d] EXCEPT !.row = FALSE] ELSE docs[d]]
             /\ request' = [request EXCEPT ![c] =
                   [NoRequest EXCEPT !.op = "unlink", !.files = {e \in Rows : docs[e].base = b}]]
      BY <1>4 DEF DeleteBase
    <2>2. \A d \in DOMAIN docs :
             LET x == [docs[d] EXCEPT !.row = FALSE]
             IN  /\ x.base = docs[d].base /\ x.file = docs[d].file /\ x.version = docs[d].version
                 /\ x.parses = docs[d].parses /\ x.committed = docs[d].committed
                 /\ x.raced = docs[d].raced /\ x.hand = docs[d].hand
                 /\ x.status = docs[d].status /\ ~x.row
      BY DocsShape DEF Doc
    <2>3. \A d \in DOMAIN docs : docs'[d] \in {docs[d], [docs[d] EXCEPT !.row = FALSE]}
      BY <2>1
    <2>4. DOMAIN docs' = DOMAIN docs /\ DOMAIN bases' = DOMAIN bases
      BY <2>1
    <2>5. DocsKept
      BY <2>2, <2>3, <2>4, ZenonT(90) DEF DocsKept, DocKept
    <2>6. ~Uploading(c)' /\ \A a \in Clients \ {c} : request'[a] = request[a]
      BY <2>1 DEF TypeInv, NoRequest, Uploading
    <2>7. QED
      BY <2>5, <2>6, VersionsKept
  <1>5. ASSUME NEW c \in Clients, NEW u \in Users, BeginUpload(c, u) PROVE VersionInv'
    <2>1. PICK b \in DOMAIN bases, f \in FileNames, p \in BOOLEAN :
             MayTouch(b, u, "update") /\ Upload(c, b, f, p)
      BY <1>5 DEF BeginUpload
    <2>2. PICK l \in Nat : l = Latest(b, f)
      BY LatestType
    <2>3. bases[b].status # "gone" /\ bases' = bases
      BY <1>5, <2>1 DEF MayTouch, CanSee, BeginUpload
    <2>4. /\ docs' = Append(docs, [base |-> b, file |-> f, version |-> l + 1, row |-> FALSE,
                                   status |-> "active", index |-> "ready", parses |-> p,
                                   committed |-> FALSE, hand |-> FALSE, raced |-> FALSE])
          /\ request' = [request EXCEPT ![c] =
                            [NoRequest EXCEPT !.op = "upload", !.pc = "archive",
                                              !.doc = Len(docs) + 1, !.latest = l]]
      BY <2>1, <2>2, <2>3 DEF Upload
    <2>5. l = 0 => \A e \in Rows : docs[e].base = b => docs[e].file # f
      BY <2>2, NoVersionNoRow
    <2>. DEFINE x == [base |-> b, file |-> f, version |-> l + 1, row |-> FALSE,
                      status |-> "active", index |-> "ready", parses |-> p,
                      committed |-> FALSE, hand |-> FALSE, raced |-> FALSE]
    <2>6. b \in DOMAIN bases' /\ DOMAIN bases \subseteq DOMAIN bases'
      BY <2>3
    <2>. DEFINE new == [NoRequest EXCEPT !.op = "upload", !.pc = "archive",
                                         !.doc = Len(docs) + 1, !.latest = l]
    <2>7. /\ new.op = "upload" /\ new.pc = "archive" /\ new.doc = Len(docs) + 1
          /\ new.latest = l /\ new.hide = {} /\ request' = [request EXCEPT ![c] = new]
          /\ docs' = Append(docs, x) /\ ~x.row /\ x.status = "active" /\ x.version # 0
          /\ x.base = b /\ x.file = f
      BY <2>4 DEF NoRequest
    <2>. HIDE DEF new, x
    <2>8. QED
      BY <2>5, <2>6, <2>7, VersionsOfUpload
  <1>6. ASSUME NEW c \in Clients, NEW u \in Users, StartWithUploads(c, u) PROVE VersionInv'
    <2>1. PICK f \in FileNames, p \in BOOLEAN :
             /\ docs' = Append(docs, [base |-> Len(bases) + 1, file |-> f, version |-> 1,
                                      row |-> FALSE, status |-> "active", index |-> "ready",
                                      parses |-> p, committed |-> FALSE,
                                      hand |-> FALSE, raced |-> FALSE])
             /\ request' = [request EXCEPT ![c] =
                               [NoRequest EXCEPT !.op = "upload", !.pc = "archive",
                                                 !.doc = Len(docs) + 1]]
      BY <1>6 DEF StartWithUploads
    <2>2. PICK b \in Nat : b = Len(bases) + 1
      BY DocsShape
    <2>3. b \notin DOMAIN bases /\ b \in DOMAIN bases' /\ DOMAIN bases \subseteq DOMAIN bases'
      <3>1. PICK x : bases' = Append(bases, x)
        BY <1>6 DEF StartWithUploads, NewBase
      <3>2. bases \in Seq(Base \cup {x})
        BY DocsShape, SeqDef DEF TypeInv
      <3>3. Len(bases') = Len(bases) + 1 /\ DOMAIN bases' = 1..Len(bases')
        BY <3>1, <3>2, AppendProperties, LenProperties
      <3>4. QED
        BY <2>2, <3>3, DocsShape
    <2>4. \A e \in Rows : docs[e].base # b
      BY <2>3 DEF VersionInv, Placed, Rows
    <2>. DEFINE x == [base |-> Len(bases) + 1, file |-> f, version |-> 1, row |-> FALSE,
                      status |-> "active", index |-> "ready", parses |-> p,
                      committed |-> FALSE, hand |-> FALSE, raced |-> FALSE]
                new == [NoRequest EXCEPT !.op = "upload", !.pc = "archive", !.doc = Len(docs) + 1]
    <2>5. /\ new.pc = "archive" /\ new.doc = Len(docs) + 1 /\ new.hide = {}
          /\ request' = [request EXCEPT ![c] = new] /\ docs' = Append(docs, x)
          /\ ~x.row /\ x.status = "active" /\ x.version # 0 /\ x.base = b
      BY <2>1, <2>2 DEF NoRequest
    <2>. HIDE DEF new, x
    <2>6. QED
      BY <2>3, <2>4, <2>5, VersionsOfUpload
  <1>7. ASSUME NEW c \in Clients, NEW u \in Users, BeginReindex(c, u) PROVE VersionInv'
    <2>1. PICK d : request' = [request EXCEPT ![c] = [NoRequest EXCEPT !.op = "reindex", !.doc = d]]
      BY <1>7 DEF BeginReindex
    <2>2. ~Uploading(c)' /\ \A a \in Clients \ {c} : request'[a] = request[a]
      BY <2>1 DEF TypeInv, NoRequest, Uploading
    <2>3. QED
      BY <1>7, <2>2, SameDocs, VersionsKept DEF BeginReindex
  <1>8. ASSUME NEW c \in Clients, NEW u \in Users, DeleteDocument(c, u) PROVE VersionInv'
    <2>1. PICK d \in DOMAIN docs :
             /\ docs' = WithDoc(d, [docs[d] EXCEPT !.row = FALSE])
             /\ request' = [request EXCEPT ![c] =
                               [NoRequest EXCEPT !.op = "unlink", !.files = {d}]]
      BY <1>8 DEF DeleteDocument
    <2>. DEFINE x == [docs[d] EXCEPT !.row = FALSE]
    <2>2. /\ x.base = docs[d].base /\ x.file = docs[d].file /\ x.version = docs[d].version
          /\ x.parses = docs[d].parses /\ x.committed = docs[d].committed
          /\ x.raced = docs[d].raced /\ ~x.row /\ x.hand = docs[d].hand
          /\ x.status = docs[d].status
      BY DocsShape DEF Doc
    <2>. HIDE DEF x
    <2>3. docs' = WithDoc(d, x) /\ bases' = bases
      BY <1>8, <2>1 DEF x, DeleteDocument
    <2>4. DocsKept
      BY <2>2, <2>3, OneDocKept
    <2>5. ~Uploading(c)' /\ \A a \in Clients \ {c} : request'[a] = request[a]
      BY <2>1 DEF TypeInv, NoRequest, Uploading
    <2>6. QED
      BY <2>4, <2>5, VersionsKept
  <1>9. CASE Rerun
    BY <1>9, SameDocs, VersionsKept DEF Rerun
  <1>10. QED
    BY <1>1, <1>2, <1>3, <1>4, <1>5, <1>6, <1>7, <1>8, <1>9 DEF Ask

LEMMA VersionsOfProceed ==
    ASSUME TypeInv, FileInv, VersionInv, Proceed
    PROVE  VersionInv'
  <1>1. ASSUME NEW c \in Clients, Unlink(c) PROVE VersionInv'
    <2>1. ~Uploading(c)' /\ \A a \in Clients \ {c} : request'[a] = request[a]
      BY <1>1, IdleRequest DEF Unlink, Finish, TypeInv, Uploading
    <2>2. QED
      BY <1>1, <2>1, SameDocs, VersionsKept DEF Unlink
  <1>2. ASSUME NEW c \in Clients, Archive(c) PROVE VersionInv'
    <2>1. PICK d \in DOMAIN docs : d = request[c].doc /\ d \notin Rows
      BY <1>2 DEF Archive, FileInv, Uploading
    <2>2. PICK l : l = request[c].latest
      OBVIOUS
    <2>3. PICK hide : hide = IF docs[d].parses THEN Hidden(d, l) ELSE {}
      OBVIOUS
    <2>4. /\ request' = [request EXCEPT ![c].pc = "commit", ![c].hide = hide]
          /\ UNCHANGED <<bases, docs>> /\ Rows' = Rows /\ Uploading(c)
      BY <1>2, <2>1, <2>2, <2>3 DEF Archive, Rows, Uploading
    <2>5. /\ request'[c].pc = "commit" /\ request'[c].hide = hide /\ request'[c].doc = d
          /\ \A a \in Clients \ {c} : request'[a] = request[a]
      BY <2>1, <2>4 DEF TypeInv, Request
    <2>6. \A e \in hide : /\ e \in DOMAIN docs /\ e # d /\ SameFile(e, d) /\ docs[d].parses
      BY <2>1, <2>3 DEF Hidden, SameFile, Rows
    <2>7. ASSUME NEW e \in Rows, SameFile(d, e), Active(e), docs[d].parses
          PROVE  Excused(d) \/ Excused(e) \/ e \in hide
      <3>1. CASE l = 0
        <4>1. Pending(c) /\ request[c].pc = "archive"
          BY <1>2, <2>4 DEF VersionInv, AllPending, Archive
        <4>2. ~Covered(c, e)
          BY <2>2, <3>1, <4>1 DEF Covered
        <4>3. QED
          BY <2>1, <2>7, <4>1, <4>2 DEF Pending
      <3>2. CASE l # 0
        BY <2>3, <2>7, <3>2 DEF Hidden, Active
      <3>3. QED
        BY <3>1, <3>2
    <2>8. /\ \A e, f : SameFile(e, f)' <=> SameFile(e, f)
          /\ \A e : (Active(e)' <=> Active(e)) /\ (Excused(e)' <=> Excused(e))
      BY <2>4 DEF SameFile, Active, Excused
    <2>9. Pending(c)'
      BY <2>4, <2>5, <2>6, <2>7, <2>8 DEF Pending, Covered
    <2>10. QED
      BY <2>4, <2>5, <2>9, SameDocs, VersionsKept
  <1>3. ASSUME NEW c \in Clients, CommitUpload(c) PROVE VersionInv'
    BY <1>3, VersionsOfCommit
  <1>4. ASSUME NEW c \in Clients, FinishReindex(c) PROVE VersionInv'
    <2>1. ~Uploading(c)' /\ \A a \in Clients \ {c} : request'[a] = request[a]
      BY <1>4, IdleRequest DEF FinishReindex, Finish, TypeInv, Uploading
    <2>2. DocsKept
      <3>1. CASE docs' = docs
        BY <1>4, <3>1, SameDocs DEF FinishReindex
      <3>2. CASE docs' # docs
        <4>1. PICK d \in DOMAIN docs, i \in {"ready", "failed"} :
                 docs' = WithDoc(d, [docs[d] EXCEPT !.index = i]) /\ bases' = bases
          BY <1>4, <3>2 DEF FinishReindex, Rows
        <4>. DEFINE x == [docs[d] EXCEPT !.index = i]
        <4>2. /\ x.base = docs[d].base /\ x.file = docs[d].file /\ x.version = docs[d].version
              /\ x.parses = docs[d].parses /\ x.committed = docs[d].committed
              /\ x.raced = docs[d].raced /\ x.row = docs[d].row /\ x.hand = docs[d].hand
              /\ x.status = docs[d].status
          BY DocsShape DEF Doc
        <4>. HIDE DEF x
        <4>3. docs' = WithDoc(d, x)
          BY <4>1 DEF x
        <4>4. QED
          BY <4>1, <4>2, <4>3, OneDocKept
      <3>3. QED
        BY <3>1, <3>2
    <2>3. QED
      BY <2>1, <2>2, VersionsKept
  <1>5. CASE Crash
    <2>1. \A a \in Clients : ~Uploading(a)'
      BY <1>5, IdleRequest DEF Crash, Uploading
    <2>2. QED
      BY <1>5, <2>1, SameDocs, VersionsKept DEF Crash
  <1>6. QED
    BY <1>1, <1>2, <1>3, <1>4, <1>5 DEF Proceed

LEMMA VersionsInvariant == Spec => []VersionInv
  <1>1. Init => VersionInv
    <2>. SUFFICES ASSUME Init PROVE VersionInv
      OBVIOUS
    <2>1. DOMAIN docs = {} /\ Rows = {}
      BY EmptySeq, LenProperties DEF Init, Rows
    <2>2. \A c \in Clients : ~Uploading(c)
      BY IdleRequest DEF Init, Uploading
    <2>3. QED
      BY <2>1, <2>2
         DEF VersionInv, Numbered, Placed, OneActive, AllReplaced, AllPending
  <1>2. TypeInv /\ FileInv /\ TypeInv' /\ VersionInv /\ [Next]_vars => VersionInv'
    <2>1. TypeInv /\ FileInv /\ VersionInv /\ UNCHANGED vars => VersionInv'
      BY SameDocs, VersionsKept DEF vars
    <2>2. QED
      BY <2>1, VersionsOfAsk, VersionsOfProceed DEF Next
  <1>3. QED
    BY <1>1, <1>2, FilesInvariant, PTL DEF Spec

\* A search finds one version of a file, unless a person set the status of one or two
\* uploads of it crossed, and none was archived but for one that could be read: for
\* any number of clients, bases, files and uploads, crossing as they may.
THEOREM OneVersionAlwaysAnswers == Spec => []OneVersionAnswers
  <1>1. VersionInv => OneVersionAnswers
    <2>1. Rows \subseteq DOMAIN docs
      BY DEF Rows
    <2>2. QED
      BY <2>1 DEF VersionInv, OneActive, AllReplaced, Replaced, OneVersionAnswers, Active, Excused
  <1>2. QED
    BY <1>1, VersionsInvariant, PTL

-----------------------------------------------------------------------------
(* The uploads of a run are its own: the base a run was started with keeps the   *)
(* run and its user, and runs are never renumbered.                              *)

OwnedByRun(b) ==
    bases[b].scope = "run_upload" =>
        bases[b].run \in DOMAIN runs /\ bases[b].owner = runs[bases[b].run]

RunInv == \A b \in DOMAIN bases : OwnedByRun(b)

RunsKept == DOMAIN runs \subseteq DOMAIN runs' /\ \A r \in DOMAIN runs : runs'[r] = runs[r]

BaseKept(b) ==
    /\ bases'[b].scope = bases[b].scope
    /\ bases'[b].run = bases[b].run /\ bases'[b].owner = bases[b].owner

\* Every step keeps the bases there are but for their status, and adds at most one.
LEMMA OwnersKept ==
    ASSUME RunInv, RunsKept,
           \A b \in DOMAIN bases' \cap DOMAIN bases : BaseKept(b),
           \A b \in DOMAIN bases' \ DOMAIN bases : OwnedByRun(b)'
    PROVE  RunInv'
  BY DEF RunInv, RunsKept, BaseKept, OwnedByRun

LEMMA SameRuns == runs' = runs => RunsKept
  BY DEF RunsKept

LEMMA NewRunKept ==
    ASSUME runs \in Seq(Users), NEW u \in Users, runs' = Append(runs, u)
    PROVE  /\ RunsKept
           /\ Len(runs) + 1 \in DOMAIN runs' /\ runs'[Len(runs) + 1] = u
  BY AppendProperties DEF RunsKept

LEMMA OneBaseKept ==
    ASSUME bases \in Seq(Base), NEW b \in DOMAIN bases, NEW status \in {"active", "archived", "gone"},
           bases' = [bases EXCEPT ![b].status = status]
    PROVE  /\ DOMAIN bases' = DOMAIN bases
           /\ \A x \in DOMAIN bases : BaseKept(x)
  <1>1. \A x \in DOMAIN bases : bases[x] \in Base
    BY ElementOfSeq
  <1>2. QED
    BY <1>1 DEF Base, BaseKept

LEMMA NewBaseKept ==
    ASSUME bases \in Seq(Base), NEW scope \in {"workspace", "personal", "run_upload"},
           NEW u \in Users, NEW run \in Nat, bases' = NewBase(scope, u, run)
    PROVE  /\ DOMAIN bases \subseteq DOMAIN bases'
           /\ \A b \in DOMAIN bases : BaseKept(b)
           /\ \A b \in DOMAIN bases' \ DOMAIN bases :
                 /\ bases'[b].scope = scope /\ bases'[b].run = run
                 /\ scope # "workspace" => bases'[b].owner = u
  <1>. DEFINE new == [scope |-> scope, run |-> run, status |-> "active",
                      owner |-> IF scope = "workspace" THEN "nobody" ELSE u]
  <1>1. new \in Base /\ bases' = Append(bases, new)
    BY DEF NewBase, Base
  <1>2. new.scope = scope /\ new.run = run /\ (scope # "workspace" => new.owner = u)
    OBVIOUS
  <1>. HIDE DEF new
  <1>3. DOMAIN bases = 1..Len(bases) /\ DOMAIN bases' = 1..(Len(bases) + 1)
        /\ bases'[Len(bases) + 1] = new
        /\ \A b \in 1..Len(bases) : bases'[b] = bases[b]
    BY <1>1, AppendProperties, LenProperties
  <1>4. \A b \in DOMAIN bases' \ DOMAIN bases : bases'[b] = new
    BY <1>3, LenProperties
  <1>5. QED
    BY <1>2, <1>3, <1>4, LenProperties DEF BaseKept

LEMMA OwnersOfStep == TypeInv /\ RunInv /\ [Next]_vars => RunInv'
  <1>. SUFFICES ASSUME TypeInv, RunInv, [Next]_vars PROVE RunInv'
    OBVIOUS
  <1>0. bases \in Seq(Base) /\ runs \in Seq(Users)
    BY DEF TypeInv
  <1>1. ASSUME UNCHANGED <<bases, runs>> PROVE RunInv'
    BY <1>1, SameRuns, OwnersKept DEF BaseKept
  <1>2. ASSUME NEW u \in Users, CreateBase(u) PROVE RunInv'
    <2>1. PICK scope \in {"workspace", "personal"} : bases' = NewBase(scope, u, 0)
      BY <1>2 DEF CreateBase
    <2>2. \A b \in DOMAIN bases' \ DOMAIN bases : OwnedByRun(b)'
      BY <1>0, <2>1, NewBaseKept DEF OwnedByRun
    <2>3. \A b \in DOMAIN bases : BaseKept(b)
      BY <1>0, <2>1, NewBaseKept
    <2>4. QED
      BY <1>2, <2>2, <2>3, SameRuns, OwnersKept DEF CreateBase
  <1>3. ASSUME NEW u \in Users, UpdateBase(u) PROVE RunInv'
    <2>1. PICK b \in DOMAIN bases, status \in {"active", "archived"} :
             bases' = [bases EXCEPT ![b].status = status]
      BY <1>3 DEF UpdateBase
    <2>2. QED
      BY <1>0, <1>3, <2>1, OneBaseKept, SameRuns, OwnersKept DEF UpdateBase
  <1>4. ASSUME NEW c \in Clients, NEW u \in Users, DeleteBase(c, u) PROVE RunInv'
    <2>1. PICK b \in DOMAIN bases : bases' = [bases EXCEPT ![b].status = "gone"]
      BY <1>4 DEF DeleteBase
    <2>2. QED
      BY <1>0, <1>4, <2>1, OneBaseKept, SameRuns, OwnersKept DEF DeleteBase
  <1>5. ASSUME NEW c \in Clients, NEW u \in Users, StartWithUploads(c, u) PROVE RunInv'
    <2>1. runs' = Append(runs, u) /\ bases' = NewBase("run_upload", u, Len(runs) + 1)
      BY <1>5 DEF StartWithUploads
    <2>2. RunsKept /\ Len(runs) + 1 \in DOMAIN runs' /\ runs'[Len(runs) + 1] = u
      BY <1>0, <2>1, NewRunKept
    <2>3. Len(runs) + 1 \in Nat
      BY <1>0, LenProperties
    <2>4. \A b \in DOMAIN bases' \ DOMAIN bases :
             bases'[b].run = Len(runs) + 1 /\ bases'[b].owner = u
      BY <1>0, <2>1, <2>3, NewBaseKept
    <2>5. \A b \in DOMAIN bases : BaseKept(b)
      BY <1>0, <2>1, <2>3, NewBaseKept
    <2>6. QED
      BY <2>2, <2>4, <2>5, OwnersKept DEF OwnedByRun
  <1>6. ASSUME Rerun PROVE RunInv'
    <2>1. PICK r \in DOMAIN runs : runs' = Append(runs, runs[r])
      BY <1>6 DEF Rerun
    <2>2. RunsKept
      BY <1>0, <2>1, NewRunKept, ElementOfSeq
    <2>3. QED
      BY <1>6, <2>2, OwnersKept DEF Rerun, BaseKept
  <1>7. CASE UNCHANGED vars
    BY <1>1, <1>7, SMTT(60) DEF vars
  <1>8. CASE Ask
    BY <1>1, <1>2, <1>3, <1>4, <1>5, <1>6, <1>8, ZenonT(90)
       DEF Ask, UpdateStatus, BeginUpload, BeginReindex, DeleteDocument
  <1>9. CASE Proceed
    BY <1>1, <1>9 DEF Proceed, Unlink, Archive, CommitUpload, FinishReindex, Crash
  <1>10. QED
    BY <1>7, <1>8, <1>9 DEF Next

\* What was uploaded with a run is found by its own user in that run and nowhere
\* else, for any number of users, runs and reruns.
THEOREM UploadsStayTheirRuns == Spec => []UploadsStayInTheirRun
  <1>1. Init => RunInv
    <2>. SUFFICES ASSUME Init PROVE RunInv
      OBVIOUS
    <2>1. DOMAIN bases = {}
      BY EmptySeq, LenProperties DEF Init
    <2>2. QED
      BY <2>1 DEF RunInv
  <1>2. TypeInv /\ VersionInv /\ RunInv => UploadsStayInTheirRun
    BY DEF RunInv, OwnedByRun, UploadsStayInTheirRun, Found, BaseOf, Rows, VersionInv, Placed
  <1>3. QED
    BY <1>1, <1>2, OwnersOfStep, FilesInvariant, VersionsInvariant, PTL DEF Spec

-----------------------------------------------------------------------------
(* The providers and the connections.  What is proved of ModelProviders and of *)
(* Connections holds of the instances, and a step of the whole is a step of an *)
(* instance or leaves it alone.                                                *)

ProviderProofs ==
    INSTANCE ModelProviders_proofs WITH
        MaxRuns <- MaxModelRuns, MaxCalls <- MaxModelCalls, MaxRequests <- MaxEdits,
        request <- edits, runs <- modelRuns, requests <- edited

SocketProofs == INSTANCE Connections_proofs WITH Clients <- Pages

LEMMA SameProviders ==
    /\ Providers!Init <=> ProviderProofs!Init
    /\ Providers!Next <=> ProviderProofs!Next
  BY Zenon DEF Providers!Gone, ProviderProofs!Gone, Providers!Rows, ProviderProofs!Rows,
         Providers!Defaults, ProviderProofs!Defaults, Providers!Usable, ProviderProofs!Usable,
         Providers!Enabled, ProviderProofs!Enabled, Providers!NoRequest,
         ProviderProofs!NoRequest, Providers!Idle, ProviderProofs!Idle, Providers!Begin,
         ProviderProofs!Begin, Providers!BeginCreate, ProviderProofs!BeginCreate,
         Providers!Prepared, ProviderProofs!Prepared, Providers!BeginUpdate,
         ProviderProofs!BeginUpdate, Providers!Written, ProviderProofs!Written,
         Providers!Cleared, ProviderProofs!Cleared, Providers!Overtake, ProviderProofs!Overtake,
         Providers!Commit, ProviderProofs!Commit, Providers!Delete, ProviderProofs!Delete,
         Providers!Resolved, ProviderProofs!Resolved, Providers!NewRun, ProviderProofs!NewRun,
         Providers!Start, ProviderProofs!Start, Providers!Rerun, ProviderProofs!Rerun,
         Providers!Named, ProviderProofs!Named, Providers!Step, ProviderProofs!Step,
         Providers!Fails, ProviderProofs!Fails, Providers!BeginCall, ProviderProofs!BeginCall,
         Providers!Attempt, ProviderProofs!Attempt, Providers!RecordCall,
         ProviderProofs!RecordCall, Providers!Init, ProviderProofs!Init, Providers!Next,
         ProviderProofs!Next

LEMMA SameSockets ==
    /\ Sockets!Init <=> SocketProofs!Init
    /\ Sockets!Next <=> SocketProofs!Next
  BY Zenon DEF Sockets!Cardinality, SocketProofs!Cardinality, Sockets!NoCast, SocketProofs!NoCast,
         Sockets!Members, SocketProofs!Members, Sockets!Message, SocketProofs!Message,
         Sockets!Leaves, SocketProofs!Leaves, Sockets!Connect, SocketProofs!Connect,
         Sockets!Break, SocketProofs!Break, Sockets!Disconnect, SocketProofs!Disconnect,
         Sockets!Begin, SocketProofs!Begin, Sockets!Raise, SocketProofs!Raise, Sockets!Pick,
         SocketProofs!Pick, Sockets!Send, SocketProofs!Send, Sockets!Finish,
         SocketProofs!Finish, Sockets!End, SocketProofs!End, Sockets!Init, SocketProofs!Init,
         Sockets!Next, SocketProofs!Next

LEMMA ProvidersMove == ResourcesSpec => ProviderProofs!Spec
  <1>1. ResourcesInit => ProviderProofs!Init
    BY SameProviders DEF ResourcesInit
  <1>2. [ResourcesNext]_<<vars, modelVars, socketVars>>
            => [ProviderProofs!Next]_(ProviderProofs!vars)
    BY SameProviders
       DEF ResourcesNext, KnowledgeStep, ProvidersStep, SocketsStep, modelVars, ProviderProofs!vars
  <1>3. QED
    BY <1>1, <1>2, PTL DEF ResourcesSpec, ProviderProofs!Spec

LEMMA SocketsMove == ResourcesSpec => SocketProofs!Spec
  <1>1. ResourcesInit => SocketProofs!Init
    BY SameSockets DEF ResourcesInit
  <1>2. [ResourcesNext]_<<vars, modelVars, socketVars>> => [SocketProofs!Next]_(SocketProofs!vars)
    BY SameSockets
       DEF ResourcesNext, KnowledgeStep, ProvidersStep, SocketsStep, socketVars, SocketProofs!vars
  <1>3. QED
    BY <1>1, <1>2, PTL DEF ResourcesSpec, SocketProofs!Spec

\* The calls of a run and of its reruns use the provider it was started with and
\* are recorded under it, for any number of administrators, providers, runs and
\* calls (get_llm_for_workspace, get_current_model_info_for_workspace).
THEOREM RunsAlwaysKeepTheirModel == ResourcesSpec => []RunsKeepTheirModel
  <1>1. ProviderProofs!RunsKeepTheirModel <=> RunsKeepTheirModel
    BY Zenon DEF RunsKeepTheirModel, Providers!RunsKeepTheirModel, ProviderProofs!RunsKeepTheirModel
  <1>2. QED
    BY <1>1, ProvidersMove, ProviderProofs!RunsAlwaysKeepTheirModel, PTL

\* One enabled default and no key lost, unless requests overlapped, for any number
\* of administrators and providers (create_model_provider, update_model_provider).
THEOREM SettingsAlwaysHold == ResourcesSpec => []SettingsHold
  <1>1. ProviderProofs!SettingsHold <=> SettingsHold
    BY Zenon DEF SettingsHold, Providers!SettingsHold, ProviderProofs!SettingsHold,
           Providers!Defaults, ProviderProofs!Defaults, Providers!Rows, ProviderProofs!Rows,
           Providers!Cardinality, ProviderProofs!Cardinality
  <1>2. QED
    BY <1>1, ProvidersMove, ProviderProofs!SettingsAlwaysHold, PTL

\* A broadcast that comes to its end has reached the connections that were there all
\* along, for any number of pages, senders and broadcasts (broadcast_workflow_status).
THEOREM BroadcastsAlwaysReach == ResourcesSpec => []BroadcastsReach
  <1>1. SocketProofs!BroadcastsReach <=> BroadcastsReach
    BY Zenon DEF BroadcastsReach, Sockets!BroadcastsReach, SocketProofs!BroadcastsReach,
           Sockets!Message, SocketProofs!Message
  <1>2. QED
    BY <1>1, SocketsMove, SocketProofs!BroadcastsAlwaysReach, PTL

-----------------------------------------------------------------------------
(* The test of a provider. *)

\* The statuses a step can have without failing the test.
Fine == {"success", "skipped"}

LEMMA EightSteps ==
    ASSUME NEW a, NEW b, NEW c, NEW d, NEW e, NEW f, NEW g, NEW h
    PROVE  <<a, b>> \o <<c, d>> \o <<e, f, g, h>> = <<a, b, c, d, e, f, g, h>>
  <1>. DEFINE S == {a, b, c, d, e, f, g, h}
  <1>1. <<a, b>> \o <<c, d>> = <<a, b, c, d>>
    <2>. DEFINE p == <<a, b>>
                q == <<c, d>>
                r == <<a, b, c, d>>
    <2>1. p \in Seq(S) /\ q \in Seq(S) /\ r \in Seq(S)
      OBVIOUS
    <2>2. Len(p) = 2 /\ Len(q) = 2 /\ Len(r) = 4
      OBVIOUS
    <2>3. /\ r[1] = p[1] /\ r[2] = p[2]
          /\ r[3] = q[1] /\ r[4] = q[2]
      OBVIOUS
    <2>. HIDE DEF p, q, r, S
    <2>4. /\ p \o q \in Seq(S) /\ Len(p \o q) = 4
          /\ \A i \in 1..4 : (p \o q)[i] = IF i <= 2 THEN p[i] ELSE q[i - 2]
      <3>1. /\ p \o q \in Seq(S) /\ Len(p \o q) = Len(p) + Len(q)
            /\ \A i \in 1..Len(p) + Len(q) :
                   (p \o q)[i] = IF i <= Len(p) THEN p[i] ELSE q[i - Len(p)]
        BY <2>1, ConcatProperties
      <3>2. QED
        BY <2>2, <3>1
    <2>5. \A i \in 1..4 : (p \o q)[i] = r[i]
      <3>1. 1..4 = {1, 2, 3, 4}
        OBVIOUS
      <3>2. QED
        BY <2>3, <2>4, <3>1, SMTT(60)
    <2>6. p \o q = r
      BY <2>1, <2>2, <2>4, <2>5, SeqEqual
    <2>7. QED
      BY <2>6 DEF p, q, r
  <1>2. <<a, b, c, d>> \o <<e, f, g, h>> = <<a, b, c, d, e, f, g, h>>
    <2>. DEFINE p == <<a, b, c, d>>
                q == <<e, f, g, h>>
                r == <<a, b, c, d, e, f, g, h>>
    <2>1. p \in Seq(S) /\ q \in Seq(S) /\ r \in Seq(S)
      OBVIOUS
    <2>2. Len(p) = 4 /\ Len(q) = 4 /\ Len(r) = 8
      OBVIOUS
    <2>3. /\ r[1] = p[1] /\ r[2] = p[2] /\ r[3] = p[3] /\ r[4] = p[4]
          /\ r[5] = q[1] /\ r[6] = q[2] /\ r[7] = q[3] /\ r[8] = q[4]
      OBVIOUS
    <2>. HIDE DEF p, q, r, S
    <2>4. /\ p \o q \in Seq(S) /\ Len(p \o q) = 8
          /\ \A i \in 1..8 : (p \o q)[i] = IF i <= 4 THEN p[i] ELSE q[i - 4]
      <3>1. /\ p \o q \in Seq(S) /\ Len(p \o q) = Len(p) + Len(q)
            /\ \A i \in 1..Len(p) + Len(q) :
                   (p \o q)[i] = IF i <= Len(p) THEN p[i] ELSE q[i - Len(p)]
        BY <2>1, ConcatProperties
      <3>2. QED
        BY <2>2, <3>1
    <2>5. \A i \in 1..8 : (p \o q)[i] = r[i]
      <3>1. 1..8 = {1, 2, 3, 4, 5, 6, 7, 8}
        OBVIOUS
      <3>2. QED
        BY <2>3, <2>4, <3>1, SMTT(60)
    <2>6. p \o q = r
      BY <2>1, <2>2, <2>4, <2>5, SeqEqual
    <2>7. QED
      BY <2>6 DEF p, q, r
  <1>3. QED
    BY <1>1, <1>2

\* The report of a test that passes the static checks.
LEMMA FullReport ==
    ASSUME NEW s \in Tester!Services, Tester!Valid(s)
    PROVE  Tester!Report(s) =
             <<"success", Tester!BaseStep(s), Tester!ListSteps(s)[1], Tester!ListSteps(s)[2],
               Tester!PromptStep(s), Tester!ModeStep(s, "json_mode"),
               Tester!ModeStep(s, "json_schema"), Tester!ConfiguredStep(s)>>
  <1>1. PICK c, d : Tester!ListSteps(s) = <<c, d>>
    BY DEF Tester!ListSteps, Tester!Services
  <1>2. Tester!Report(s) =
             <<"success", Tester!BaseStep(s)>> \o <<c, d>>
             \o <<Tester!PromptStep(s), Tester!ModeStep(s, "json_mode"),
                  Tester!ModeStep(s, "json_schema"), Tester!ConfiguredStep(s)>>
    BY <1>1, Zenon DEF Tester!Report
  <1>3. QED
    BY <1>1, <1>2, EightSteps

\* Which of its steps must not fail.
LEMMA PassedTest ==
    ASSUME NEW s \in Tester!Services
    PROVE  Tester!Ok(s) <=>
             /\ Tester!Valid(s)
             /\ {Tester!BaseStep(s), Tester!ListSteps(s)[1], Tester!ListSteps(s)[2],
                 Tester!PromptStep(s), Tester!ModeStep(s, "json_mode"),
                 Tester!ModeStep(s, "json_schema"), Tester!ConfiguredStep(s)} \subseteq Fine
  <1>1. CASE Tester!Valid(s)
    <2>. DEFINE b == Tester!BaseStep(s)
                c == Tester!ListSteps(s)[1]
                d == Tester!ListSteps(s)[2]
                e == Tester!PromptStep(s)
                f == Tester!ModeStep(s, "json_mode")
                g == Tester!ModeStep(s, "json_schema")
                h == Tester!ConfiguredStep(s)
    <2>1. Tester!Report(s) = <<"success", b, c, d, e, f, g, h>>
      BY <1>1, FullReport
    <2>2. Tester!Ok(s) <=> \A i \in DOMAIN Tester!Report(s) : Tester!Report(s)[i] \in Fine
      BY DEF Tester!Ok, Fine
    <2>. HIDE DEF b, c, d, e, f, g, h
    <2>3. Tester!Ok(s) <=> {b, c, d, e, f, g, h} \subseteq Fine
      <3>1. DOMAIN Tester!Report(s) = 1..8
        BY <2>1
      <3>2. \A i \in 1..8 : i \in {1, 2, 3, 4, 5, 6, 7, 8}
        OBVIOUS
      <3>3. QED
        BY <2>1, <2>2, <3>1, <3>2 DEF Fine
    <2>4. QED
      BY <1>1, <2>3 DEF b, c, d, e, f, g, h
  <1>2. CASE ~Tester!Valid(s)
    <2>1. Tester!Report(s)[1] = "failed" /\ 1 \in DOMAIN Tester!Report(s)
      BY <1>2 DEF Tester!Report
    <2>2. QED
      BY <1>2, <2>1 DEF Tester!Ok
  <1>3. QED
    BY <1>1, <1>2

LEMMA PassedCallsWork ==
    ASSUME NEW s \in Tester!Services, Tester!Ok(s), s.model
    PROVE  /\ Tester!AtBaseUrl(s) => Tester!CallWorks(s)
           /\ Tester!Compatible(s) => Tester!CallWorks(s) /\ Tester!StructuredCallWorks(s)
  <1>1. Tester!Valid(s) /\ Tester!ListSteps(s)[1] # "failed" /\ Tester!PromptStep(s) # "failed"
        /\ Tester!ConfiguredStep(s) # "failed"
    BY PassedTest DEF Fine
  <1>2. Tester!Prompts(s)
    BY <1>1 DEF Tester!Prompts
  <1>3. s.prompt
    BY <1>1, <1>2 DEF Tester!PromptStep
  <1>4. Tester!Compatible(s) => Tester!StructuredCallWorks(s)
    BY <1>1, <1>2 DEF Tester!ConfiguredStep
  <1>5. Tester!AtBaseUrl(s) => Tester!CallWorks(s)
    BY <1>1, <1>3 DEF Tester!CallWorks, Tester!Valid
  <1>6. Tester!Compatible(s) => Tester!AtBaseUrl(s)
    BY DEF Tester!AtBaseUrl
  <1>7. QED
    BY <1>4, <1>5, <1>6

LEMMA AnsweringServicePasses ==
    ASSUME NEW s \in Tester!Services, Tester!Valid(s), s.reach = "answer", s.list = "models",
           s.prompt, \A m \in DOMAIN s.probe : s.probe[m], s.method # "unknown"
    PROVE  Tester!Ok(s)
  <1>1. Tester!BaseStep(s) = "success" /\ Tester!ListSteps(s) = <<"success", "success">>
    BY DEF Tester!BaseStep, Tester!ListSteps
  <1>2. Tester!PromptStep(s) \in Fine
    BY DEF Tester!PromptStep, Fine
  <1>3. s.probe["json_mode"] /\ s.probe["json_schema"] /\ s.probe["default"]
    <2>1. DOMAIN s.probe = {"json_mode", "json_schema", "default"}
      BY DEF Tester!Services
    <2>2. QED
      BY <2>1
  <1>4. Tester!ModeStep(s, "json_mode") \in Fine /\ Tester!ModeStep(s, "json_schema") \in Fine
    BY <1>3 DEF Tester!ModeStep, Fine
  <1>5. Tester!StructuredCallWorks(s)
    <2>1. s.method \in Tester!Methods \cup {"absent"}
      BY DEF Tester!Services
    <2>2. Tester!EffectiveMethod(s)
            \in {"json_mode", "json_schema", "function_calling", "default"}
      BY <2>1 DEF Tester!EffectiveMethod, Tester!Methods
    <2>3. QED
      BY <1>3, <2>2 DEF Tester!StructuredCallWorks, Tester!Answers
  <1>6. Tester!ConfiguredStep(s) \in Fine
    BY <1>5 DEF Tester!ConfiguredStep, Fine
  <1>7. QED
    BY <1>1, <1>2, <1>4, <1>6, PassedTest DEF Fine

\* A test that passes means that the calls of a run work where they go to the server
\* that was tested, and a service that answers everything passes it
\* (test_model_provider).
THEOREM VerdictAlwaysRight == ResourcesSpec => []VerdictIsRight
  <1>1. Tester!VerdictIsRight
    BY PassedCallsWork, AnsweringServicePasses DEF Tester!VerdictIsRight
  <1>2. VerdictIsRight
    BY <1>1 DEF VerdictIsRight
  <1>3. QED
    BY <1>2, PTL
=============================================================================
