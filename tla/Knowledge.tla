----------------------------- MODULE Knowledge -----------------------------
(***************************************************************************)
(* The knowledge bases of a workspace                                      *)
(* (backend/services/knowledge_service.py, the routes of                   *)
(* knowledge_routes.py and the uploads of a run in graph/executor.py).     *)
(*                                                                         *)
(* A document is a row, an original file on disk and the chunks made from  *)
(* it; it is named by the place of its row in the order in which uploads   *)
(* begin.  Its text is either one the parser reads or one it does not.  An *)
(* upload reads, archives and commits in separate steps, a deletion        *)
(* commits first and removes files afterwards, and the server may stop in  *)
(* between (Crash).  Statements see what was committed when they began     *)
(* (READ COMMITTED).  Scores, names and the log of searches are left out:  *)
(* Found is everything a search may choose from.                           *)
(***************************************************************************)
EXTENDS Permissions, FiniteSets, Sequences

CONSTANTS Clients,   \* requests that can be under way at the same time
          Users,     \* members of the workspace
          RoleOf,    \* their roles
          FileNames, \* names of uploaded files
          MaxBases,  \* bound on the number of knowledge bases
          MaxDocs,   \* bound on the number of uploads
          MaxRuns,   \* bound on the number of runs
          MaxCalls   \* bound on the number of requests

ASSUME KnowledgeAssumption ==
    /\ RoleOf \in [Users -> Roles]
    /\ {MaxBases, MaxDocs, MaxRuns, MaxCalls} \subseteq Nat

VARIABLES bases,     \* knowledge_bases
          docs,      \* kb_documents with their chunks
          disk,      \* the documents whose original file is on disk
          runs,      \* who started the workflow runs
          request,   \* what the requests under way have read
          calls

vars == <<bases, docs, disk, runs, request, calls>>

Base == [scope: {"workspace", "personal", "run_upload"}, owner: Users \cup {"nobody"},
         run: Nat, status: {"active", "archived", "gone"}]

Doc == [base: Nat, file: FileNames, version: Nat, row: BOOLEAN,
        status: {"active", "archived", "disabled"}, index: {"ready", "failed"},
        parses: BOOLEAN,   \* the parser can read the text
        committed: BOOLEAN,
        hand: BOOLEAN,     \* somebody set the status
        raced: BOOLEAN]    \* another upload of the file committed unseen

Request == [op: {"idle", "upload", "reindex", "unlink"},
            pc: {"idle", "archive", "commit"}, doc: Nat, latest: Nat,
            hide: SUBSET Nat, files: SUBSET Nat]

NoRequest == [op |-> "idle", pc |-> "idle", doc |-> 0, latest |-> 0, hide |-> {}, files |-> {}]

Idle(c) == request[c] = NoRequest
Finish(c) == request' = [request EXCEPT ![c] = NoRequest]

BaseOf(d) == bases[docs[d].base]
SameFile(d, e) == docs[d].base = docs[e].base /\ docs[d].file = docs[e].file
Rows == {d \in DOMAIN docs : docs[d].row}
WithDoc(d, row) == [docs EXCEPT ![d] = row]

-----------------------------------------------------------------------------
(* Who may do what. *)

\* get_knowledge_base finds the base.
CanSee(b, u) ==
    bases[b].status # "gone" /\ (bases[b].scope = "workspace" \/ bases[b].owner = u)

\* _ensure_kb_operation_allowed: owners have their own bases to themselves.
MayTouch(b, u, action) ==
    /\ CanSee(b, u)
    /\ bases[b].scope = "workspace" => CheckPermission(RoleOf[u], "knowledge_base", action)

-----------------------------------------------------------------------------
(* Bases and runs. *)

NewBase(scope, u, run) ==
    Append(bases, [scope |-> scope, run |-> run, status |-> "active",
                   owner |-> IF scope = "workspace" THEN "nobody" ELSE u])

\* create_knowledge_base; the route turns the scope of a run's uploads down.
CreateBase(u) ==
    /\ Len(bases) < MaxBases
    /\ \/ /\ CheckPermission(RoleOf[u], "knowledge_base", "create")
          /\ bases' = NewBase("workspace", u, 0)
       \/ bases' = NewBase("personal", u, 0)
    /\ UNCHANGED <<docs, disk, runs, request>>

\* update_knowledge_base
UpdateBase(u) ==
    /\ \E b \in DOMAIN bases, status \in {"active", "archived"} :
           /\ MayTouch(b, u, "update")
           /\ bases' = [bases EXCEPT ![b].status = status]
    /\ UNCHANGED <<docs, disk, runs, request>>

\* delete_knowledge_base commits the loss of the rows; Unlink does the rest.
DeleteBase(c, u) ==
    /\ Idle(c)
    /\ \E b \in DOMAIN bases :
           LET lost == {d \in Rows : docs[d].base = b}
           IN  /\ MayTouch(b, u, "delete")
               /\ bases' = [bases EXCEPT ![b].status = "gone"]
               /\ docs' = [d \in DOMAIN docs |->
                              IF d \in lost THEN [docs[d] EXCEPT !.row = FALSE] ELSE docs[d]]
               /\ request' = [request EXCEPT ![c] =
                                 [NoRequest EXCEPT !.op = "unlink", !.files = lost]]
    /\ UNCHANGED <<disk, runs>>

Unlink(c) ==
    /\ request[c].op = "unlink"
    /\ disk' = disk \ request[c].files
    /\ Finish(c)
    /\ UNCHANGED <<bases, docs, runs>>

\* prepare_rerun: a new run of the same user, with no uploads of its own.
Rerun ==
    /\ Len(runs) < MaxRuns
    /\ \E r \in DOMAIN runs : runs' = Append(runs, runs[r])
    /\ UNCHANGED <<bases, docs, disk, request>>

-----------------------------------------------------------------------------
(* Documents. *)

\* The versions add_document selects, with its latest one.
Versions(b, file) == {docs[d].version : d \in {e \in Rows : docs[e].base = b /\ docs[e].file = file}}
Latest(b, file) ==
    IF Versions(b, file) = {} THEN 0
    ELSE CHOOSE v \in Versions(b, file) : \A w \in Versions(b, file) : w <= v

\* The first steps of add_document: the file is written, the versions are read.
Upload(c, b, file, parses) ==
    LET latest == IF bases[b].status = "gone" THEN 0 ELSE Latest(b, file)
        d == Len(docs) + 1
    IN  /\ Idle(c) /\ d <= MaxDocs
        /\ docs' = Append(docs, [base |-> b, file |-> file, version |-> latest + 1,
                                 row |-> FALSE, status |-> "active", index |-> "ready",
                                 parses |-> parses, committed |-> FALSE,
                                 hand |-> FALSE, raced |-> FALSE])
        /\ disk' = disk \cup {d}
        /\ request' = [request EXCEPT ![c] =
                          [NoRequest EXCEPT !.op = "upload", !.pc = "archive",
                                            !.doc = d, !.latest = latest]]

BeginUpload(c, u) ==
    /\ \E b \in DOMAIN bases, file \in FileNames, parses \in BOOLEAN :
           MayTouch(b, u, "update") /\ Upload(c, b, file, parses)
    /\ UNCHANGED <<bases, runs>>

\* _attach_run_upload_documents: a base for the run, and its first document.
StartWithUploads(c, u) ==
    /\ Idle(c) /\ Len(bases) < MaxBases /\ Len(runs) < MaxRuns /\ Len(docs) < MaxDocs
    /\ CheckPermission(RoleOf[u], "workflow", "execute")
    /\ runs' = Append(runs, u)
    /\ bases' = NewBase("run_upload", u, Len(runs) + 1)
    /\ \E file \in FileNames, parses \in BOOLEAN :
           /\ docs' = Append(docs, [base |-> Len(bases) + 1, file |-> file, version |-> 1,
                                    row |-> FALSE, status |-> "active", index |-> "ready",
                                    parses |-> parses, committed |-> FALSE,
                                    hand |-> FALSE, raced |-> FALSE])
           /\ disk' = disk \cup {Len(docs) + 1}
           /\ request' = [request EXCEPT ![c] =
                             [NoRequest EXCEPT !.op = "upload", !.pc = "archive",
                                               !.doc = Len(docs) + 1]]

\* The other versions that an upload hides: the active ones it can see.
Hidden(d, latest) ==
    IF latest = 0 THEN {} ELSE {e \in Rows : SameFile(d, e) /\ docs[e].status = "active"}

\* A version archives its predecessors before it knows that it can be read.
ArchiveAnyway(c) ==
    LET r == request[c]
    IN  /\ r.op = "upload" /\ r.pc = "archive"
        /\ request' = [request EXCEPT ![c].pc = "commit", ![c].hide = Hidden(r.doc, r.latest)]
        /\ UNCHANGED <<bases, docs, disk, runs>>

\* The rest of add_document: a text that was read replaces the older versions...
Archive(c) ==
    LET r == request[c]
    IN  /\ r.op = "upload" /\ r.pc = "archive"
        /\ request' = [request EXCEPT ![c].pc = "commit",
                                      ![c].hide = IF docs[r.doc].parses
                                                  THEN Hidden(r.doc, r.latest) ELSE {}]
        /\ UNCHANGED <<bases, docs, disk, runs>>

\* The uploads of the same file that no longer look for versions to archive.
Blind(d) ==
    {request[c].doc : c \in {x \in Clients :
        /\ request[x].op = "upload" /\ request[x].doc # d /\ SameFile(d, request[x].doc)
        /\ request[x].pc = "commit" \/ request[x].latest = 0}}

\* ... and one that was not is kept out of searches; a base that is gone by now
\* turns the row down.
CommitUpload(c) ==
    LET r == request[c]
        d == r.doc
        read == docs[d].parses
        new == [docs[d] EXCEPT !.row = TRUE, !.committed = TRUE,
                               !.status = IF read THEN "active" ELSE "disabled",
                               !.index = IF read THEN "ready" ELSE "failed"]
        Seen(e) == IF e = d THEN new
                   ELSE [docs[e] EXCEPT !.status = IF e \in r.hide THEN "archived" ELSE @,
                                        !.raced = @ \/ e \in Blind(d)]
    IN  /\ r.op = "upload" /\ r.pc = "commit"
        /\ \/ BaseOf(d).status = "gone" /\ UNCHANGED docs
           \/ BaseOf(d).status # "gone" /\ docs' = [e \in DOMAIN docs |-> Seen(e)]
        /\ Finish(c)
        /\ UNCHANGED <<bases, disk, runs>>

\* get_document finds the row.
Reachable(d, u, action) == d \in Rows /\ MayTouch(docs[d].base, u, action)

\* update_document_status
UpdateStatus(u) ==
    /\ \E d \in DOMAIN docs, status \in {"active", "archived", "disabled"} :
           /\ Reachable(d, u, "update")
           /\ docs' = WithDoc(d, [docs[d] EXCEPT !.status = status, !.hand = TRUE])
    /\ UNCHANGED <<bases, disk, runs, request>>

\* reindex_document reads the row...
BeginReindex(c, u) ==
    /\ Idle(c)
    /\ \E d \in DOMAIN docs :
           /\ Reachable(d, u, "update")
           /\ request' = [request EXCEPT ![c] = [NoRequest EXCEPT !.op = "reindex", !.doc = d]]
    /\ UNCHANGED <<bases, docs, disk, runs>>

\* ... and then the file; without it, or when it cannot be parsed, the index is
\* marked failed.  A row that is gone by now fails the request.
FinishReindex(c) ==
    LET d == request[c].doc
        index == IF d \in disk /\ docs[d].parses THEN "ready" ELSE "failed"
    IN  /\ request[c].op = "reindex"
        /\ docs' = IF d \in Rows THEN WithDoc(d, [docs[d] EXCEPT !.index = index]) ELSE docs
        /\ Finish(c)
        /\ UNCHANGED <<bases, disk, runs>>

\* A deletion that removes the file before the row.
DeleteFileFirst(c, u) ==
    /\ Idle(c)
    /\ \E d \in DOMAIN docs :
           /\ Reachable(d, u, "delete")
           /\ \/ d \in disk /\ disk' = disk \ {d} /\ UNCHANGED docs
              \/ /\ d \notin disk /\ UNCHANGED disk
                 /\ docs' = WithDoc(d, [docs[d] EXCEPT !.row = FALSE])
    /\ UNCHANGED <<bases, runs, request>>

\* delete_document commits the loss of the row; Unlink does the rest.
DeleteDocument(c, u) ==
    /\ Idle(c)
    /\ \E d \in DOMAIN docs :
           /\ Reachable(d, u, "delete")
           /\ docs' = WithDoc(d, [docs[d] EXCEPT !.row = FALSE])
           /\ request' = [request EXCEPT ![c] = [NoRequest EXCEPT !.op = "unlink", !.files = {d}]]
    /\ UNCHANGED <<bases, disk, runs>>

\* The server stops between two commits of the requests under way.
Crash ==
    /\ \E c \in Clients : ~Idle(c)
    /\ request' = [c \in Clients |-> NoRequest]
    /\ UNCHANGED <<bases, docs, disk, runs>>

-----------------------------------------------------------------------------
(* Searches. *)

Scopes == {"workspace", "personal", "run_upload"}

\* A search of the uploads of every run of the user.
FoundAnyRun(u, scopes, run) ==
    {d \in Rows : /\ BaseOf(d).status = "active"
                  /\ docs[d].status = "active" /\ docs[d].index = "ready"
                  /\ BaseOf(d).scope \in scopes
                  /\ BaseOf(d).scope = "workspace" \/ BaseOf(d).owner = u}

\* _load_search_rows; run 0 stands for a search outside a run.
Found(u, scopes, run) ==
    {d \in Rows : /\ BaseOf(d).status = "active"
                  /\ docs[d].status = "active" /\ docs[d].index = "ready"
                  /\ BaseOf(d).scope \in scopes
                  /\ BaseOf(d).scope = "workspace" \/ BaseOf(d).owner = u
                  /\ BaseOf(d).scope = "run_upload" => run # 0 /\ BaseOf(d).run = run}

Init ==
    /\ bases = << >> /\ docs = << >> /\ runs = << >>
    /\ disk = {}
    /\ request = [c \in Clients |-> NoRequest]
    /\ calls = 0

Ask ==
    /\ calls < MaxCalls /\ calls' = calls + 1
    /\ \/ \E u \in Users : CreateBase(u) \/ UpdateBase(u) \/ UpdateStatus(u)
       \/ \E c \in Clients, u \in Users :
              \/ DeleteBase(c, u) \/ BeginUpload(c, u) \/ StartWithUploads(c, u)
              \/ BeginReindex(c, u) \/ DeleteDocument(c, u)
       \/ Rerun

Proceed ==
    /\ UNCHANGED calls
    /\ \/ \E c \in Clients :
              Unlink(c) \/ Archive(c) \/ CommitUpload(c) \/ FinishReindex(c)
       \/ Crash

Next == Ask \/ Proceed

Spec == Init /\ [][Next]_vars

-----------------------------------------------------------------------------
(* Properties. *)

\* A search finds at most one version of a file, unless somebody set the status
\* of a version or an upload committed unseen by another one of the same file;
\* and a version was only archived for a later one that could be read
\* (add_document: a new version that cannot be parsed leaves the last one to
\* answer).
OneVersionAnswers ==
    \A d \in Rows :
        /\ \A e \in Rows \ {d} :
               /\ SameFile(d, e) /\ docs[d].status = "active" /\ docs[e].status = "active"
               /\ docs[d].index = "ready" /\ docs[e].index = "ready"
               => \E x \in {d, e} : docs[x].hand \/ docs[x].raced
        /\ docs[d].status = "archived" /\ ~docs[d].hand
           => \E e \in DOMAIN docs :
                  SameFile(d, e) /\ e # d /\ docs[e].committed /\ docs[e].parses

\* Every row has its original file, so that it can be indexed again: a deletion
\* cut off half-way may leave a file too many and never one too few
\* (add_document, delete_document, delete_knowledge_base).
RowsHaveFiles == Rows \subseteq disk

\* What was uploaded with a run is found only in that run, and only by the user
\* who started it: not in another run of the same user, nor in a rerun of it, nor
\* in a search outside, whoever manages the bases and whatever requests were cut
\* off (_load_search_rows: no temporary evidence across runs).
UploadsStayInTheirRun ==
    \A u \in Users, run \in 0..Len(runs) :
        \A d \in Found(u, Scopes, run) :
            BaseOf(d).scope = "run_upload" =>
                run = BaseOf(d).run /\ run \in DOMAIN runs /\ u = runs[run]

=============================================================================
