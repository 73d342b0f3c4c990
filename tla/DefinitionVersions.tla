-------------------------- MODULE DefinitionVersions --------------------------
(***************************************************************************)
(* One workflow definition under its editors and its readers: the row of   *)
(* workflow_definitions, the snapshots of workflow_versions and the        *)
(* sessions of WorkflowDefinitionService that read and write them          *)
(* (backend/services/workflow_definition_service.py and the routes of      *)
(* workflow_definition_routes.py and workflow_version_routes.py).          *)
(*                                                                         *)
(* A request has one database session.  It reads the row, reads the        *)
(* snapshot of the version it read, and writes both in one commit; nothing *)
(* locks the row or compares its version, so other requests commit in      *)
(* between.  SQLAlchemy writes only attributes whose value differs from    *)
(* the one that was loaded, and so do the commits here.                    *)
(*                                                                         *)
(* A snapshot is named by its place in `snaps`, which is also the order of *)
(* created_at.  Texts, authors, change logs and the audit record written   *)
(* by a second commit are left out.                                        *)
(***************************************************************************)
EXTENDS DefinitionGraph, Permissions

CONSTANTS Clients,     \* the people at work on the definition
          RoleOf,      \* their roles in its workspace
          Drafts,      \* the definitions they draw
          MaxCalls     \* bound on the number of requests

ASSUME VersionsAssumption ==
    /\ RoleOf \in [Clients -> Roles]
    /\ Drafts # {} /\ MaxCalls \in Nat

VARIABLES row,        \* the workflow_definitions row
          snaps,      \* the workflow_versions rows, oldest first
          session,    \* what each request has read
          calls,
          runs,       \* the runs started: the snapshot they name, what they run
          served,     \* the contents shown to viewers
          saved,      \* the content of each version, until two saves overlap
          overlapped  \* a save or restore was committed over a newer one

vars == <<row, snaps, session, calls, runs, served, saved, overlapped>>

Types == {"draft", "publish", "restore_backup"}
Snapshot == [version: Nat, content: Drafts, type: Types,
             from: Nat,        \* restored_from_version_id of its provenance, or 0
             legacy: BOOLEAN]  \* created before a legacy row was published

Row == [version: Nat, content: Drafts, published: BOOLEAN, pointer: Nat, deleted: BOOLEAN]

\* The permission each route asks for.
ActionOf == [save |-> "update", publish |-> "update", restore |-> "update",
             delete |-> "delete", view |-> "read", run |-> "execute"]

Idle == [pc |-> "idle"]

-----------------------------------------------------------------------------
(* Reading. *)

\* The newest snapshot of the highest version in a set of snapshots, 0 if empty.
Newest(all, S) ==
    IF S = {} THEN 0
    ELSE CHOOSE s \in S : \A t \in S : \/ all[s].version > all[t].version
                                       \/ all[s].version = all[t].version /\ s >= t

\* _get_version_snapshot: the newest snapshot of a version, 0 if there is none.
SnapshotOf(all, v) == Newest(all, {s \in DOMAIN all : all[s].version = v})
VersionSnapshot(v) == SnapshotOf(snaps, v)

\* _get_definition_orm: what a reader of this role finds.
Visible(role) == ~row.deleted /\ (role = "viewer" => row.published)

\* _get_published_snapshot before it falls back to a backfill.
PublishedSnapshot(r) ==
    IF r.pointer # 0 THEN r.pointer
    ELSE Newest(snaps, {s \in DOMAIN snaps : snaps[s].type = "publish"})

\* _load_version_payload: the row for the current version, else a snapshot.
LoadVersion(v) ==
    IF v = row.version THEN row.content ELSE snaps[VersionSnapshot(v)].content

\* compare_versions finds both versions.
Comparable(a, b) ==
    \A v \in {a, b} : v = row.version \/ VersionSnapshot(v) # 0

-----------------------------------------------------------------------------
(* Requests. *)

Begin(c, s) ==
    /\ calls < MaxCalls
    /\ session[c] = Idle
    /\ Visible(RoleOf[c])
    /\ CheckPermission(RoleOf[c], "workflow", ActionOf[s.op])
    /\ session' = [session EXCEPT ![c] = s]
    /\ calls' = calls + 1
    /\ UNCHANGED <<row, snaps, runs, served, saved, overlapped>>

Finish(c) == session' = [session EXCEPT ![c] = Idle]

\* update reads the row; the editor sends the content of the new draft.
BeginSave(c) ==
    \E d \in Drafts : Begin(c, [pc |-> "find", op |-> "save", read |-> row, arg |-> d])

\* publish reads the row and validates it; an invalid draft ends the request.
BeginPublish(c) ==
    /\ Publishable(row.content)
    /\ Begin(c, [pc |-> "find", op |-> "publish", read |-> row, arg |-> 0])

\* restore reads the row and the version to go back to.
BeginRestore(c) ==
    \E s \in DOMAIN snaps :
        Begin(c, [pc |-> "find", op |-> "restore", read |-> row,
                  arg |-> [id |-> s, content |-> snaps[s].content]])

\* A viewer opens the definition; so do the public pages, as if by a viewer.
BeginView(c) ==
    RoleOf[c] = "viewer" /\ Begin(c, [pc |-> "resolve", op |-> "view", read |-> row, arg |-> 0])

\* _ensure_snapshot selects the snapshot of the version that was read.
FindSnapshot(c) ==
    /\ session[c].pc = "find"
    /\ LET s == VersionSnapshot(session[c].read.version)
       IN  session' = [session EXCEPT ![c] =
                          [pc |-> "commit", op |-> @.op, read |-> @.read, arg |-> @.arg,
                           id |-> s, loaded |-> IF s = 0 THEN 0 ELSE snaps[s]]]
    /\ UNCHANGED <<row, snaps, calls, runs, served, saved, overlapped>>

\* A snapshot that takes over the row's content whenever it is touched.
EnsureRefreshed(all, id, loaded, new, force) ==
    IF id = 0 THEN Append(all, new)
    ELSE [all EXCEPT ![id].content = new.content,
                     ![id].type = IF new.type = "publish" THEN new.type ELSE @,
                     ![id].from = new.from]

\* Only a publication inserts a snapshot.
EnsurePublished(all, id, loaded, new, force) ==
    IF id = 0 /\ force THEN Append(all, new) ELSE all

\* _ensure_snapshot: insert the snapshot, or change the one that was loaded.  A
\* published snapshot stays one; the content is refreshed by a publication only.
Ensure(all, id, loaded, new, force) ==
    IF id = 0 THEN Append(all, new)
    ELSE LET type == IF loaded.type # "publish" \/ new.type = "publish"
                     THEN new.type ELSE loaded.type
         IN  [all EXCEPT ![id].type = IF type # loaded.type THEN type ELSE @,
                         ![id].content = IF force /\ new.content # loaded.content
                                         THEN new.content ELSE @,
                         ![id].from = new.from]

Snap(v, d, type, from) ==
    [version |-> v, content |-> d, type |-> type, from |-> from, legacy |-> FALSE]

\* The second _ensure_snapshot of a save or a restore, for the version it makes.
EnsureNext(all, v, d, from) ==
    LET id == SnapshotOf(all, v)
    IN  Ensure(all, id, IF id = 0 THEN 0 ELSE all[id], Snap(v, d, "draft", from), FALSE)

\* A snapshot that tells nothing of its origin.
ProvenanceLost(s) == 0

\* _extract_restore_provenance
Provenance(s) == IF s.id = 0 THEN 0 ELSE s.loaded.from

\* The row a save or a restore writes: a content that differs from the one that
\* was read, and the version that was read plus one.
Advance(s, d) ==
    /\ row' = [row EXCEPT !.version = s.read.version + 1,
                          !.content = IF d # s.read.content THEN d ELSE @]
    /\ overlapped' = (overlapped \/ row.version # s.read.version)
    /\ saved' = IF overlapped' THEN saved ELSE Append(saved, row'.content)

CommitSave(c) ==
    LET s == session[c]
        from == Provenance(s)
        first == Ensure(snaps, s.id, s.loaded,
                        Snap(s.read.version, s.read.content, "draft", from), FALSE)
    IN  /\ s.pc = "commit" /\ s.op = "save"
        /\ snaps' = IF from = 0 THEN first
                    ELSE EnsureNext(first, s.read.version + 1, s.arg, from)
        /\ Advance(s, s.arg)
        /\ Finish(c)
        /\ UNCHANGED <<calls, runs, served>>

CommitRestore(c) ==
    LET s == session[c]
        first == Ensure(snaps, s.id, s.loaded,
                        Snap(s.read.version, s.read.content, "restore_backup", Provenance(s)), FALSE)
    IN  /\ s.pc = "commit" /\ s.op = "restore"
        /\ snaps' = EnsureNext(first, s.read.version + 1, s.arg.content, s.arg.id)
        /\ Advance(s, s.arg.content)
        /\ Finish(c)
        /\ UNCHANGED <<calls, runs, served>>

CommitPublish(c) ==
    LET s == session[c]
        id == IF s.id = 0 THEN Len(snaps) + 1 ELSE s.id
    IN  /\ s.pc = "commit" /\ s.op = "publish"
        /\ snaps' = Ensure(snaps, s.id, s.loaded,
                           Snap(s.read.version, s.read.content, "publish", Provenance(s)), TRUE)
        /\ row' = [row EXCEPT !.published = TRUE,
                              !.pointer = IF id # s.read.pointer THEN id ELSE @]
        /\ Finish(c)
        /\ UNCHANGED <<calls, runs, served, saved, overlapped>>

\* delete is a single UPDATE, whatever the row is.
Delete(c) ==
    /\ calls < MaxCalls /\ session[c] = Idle
    /\ CheckPermission(RoleOf[c], "workflow", ActionOf["delete"])
    /\ row' = [row EXCEPT !.deleted = TRUE]
    /\ calls' = calls + 1
    /\ UNCHANGED <<snaps, session, runs, served, saved, overlapped>>

\* A backfill that takes the current row for want of an old snapshot.
BackfillFromRow(r) ==
    LET old == Newest(snaps, {s \in DOMAIN snaps : snaps[s].legacy /\ snaps[s].type # "restore_backup"})
    IN  IF old # 0 THEN {[snaps[old] EXCEPT !.type = "publish"]}
        ELSE {Snap(r.version, r.content, "publish", 0)}

\* _backfill_published_snapshot: what it inserts.  A snapshot made after the
\* publication may hold a later draft, so the row is used only while there is no
\* snapshot at all.
Backfill(r) ==
    LET old == Newest(snaps, {s \in DOMAIN snaps : snaps[s].legacy /\ snaps[s].type # "restore_backup"})
    IN  IF old # 0 THEN {[snaps[old] EXCEPT !.type = "publish"]}
        ELSE IF snaps = << >> THEN {Snap(r.version, r.content, "publish", 0)}
        ELSE {}

\* A viewer gets the published snapshot; finding none, the service makes one.
Resolve(c) ==
    LET r == session[c].read
        id == PublishedSnapshot(r)
        made == Backfill(r)
    IN  /\ session[c].pc = "resolve"
        /\ \/ /\ id # 0
              /\ served' = served \cup {snaps[id].content}
              /\ UNCHANGED <<row, snaps>>
           \/ /\ id = 0 /\ made # {}
              /\ \E s \in made :
                    /\ snaps' = Append(snaps, s)
                    /\ served' = served \cup {s.content}
              /\ row' = [row EXCEPT !.pointer = Len(snaps) + 1]
           \/ /\ id = 0 /\ made = {}
              /\ UNCHANGED <<row, snaps, served>>
        /\ Finish(c)
        /\ UNCHANGED <<calls, runs, saved, overlapped>>

\* start binds the run through get_workflow_context: the version the client
\* names, of whatever type, or else the published one.
Run(c) ==
    /\ calls < MaxCalls /\ session[c] = Idle
    /\ CheckPermission(RoleOf[c], "workflow", ActionOf["run"])
    /\ \E named \in BOOLEAN, id \in DOMAIN snaps :
          /\ ~named => id = row.pointer
          /\ runs' = runs \cup {[named |-> named, version |-> id, content |-> snaps[id].content]}
    /\ calls' = calls + 1
    /\ UNCHANGED <<row, snaps, session, served, saved, overlapped>>

-----------------------------------------------------------------------------
\* A new draft, or a row published before versions were kept: without snapshots,
\* or with the snapshot of the published version and a later draft.
Init ==
    /\ session = [c \in Clients |-> Idle]
    /\ calls = 0 /\ runs = {} /\ served = {} /\ overlapped = FALSE
    /\ \E d, e \in Drafts :
        \/ /\ row = [version |-> 1, content |-> d, published |-> FALSE,
                     pointer |-> 0, deleted |-> FALSE]
           /\ snaps = << >> /\ saved = <<d>>
        \/ /\ Publishable(d)
           /\ row = [version |-> 1, content |-> d, published |-> TRUE,
                     pointer |-> 0, deleted |-> FALSE]
           /\ snaps = << >> /\ saved = <<d>>
        \/ /\ Publishable(d)
           /\ row = [version |-> 2, content |-> e, published |-> TRUE,
                     pointer |-> 0, deleted |-> FALSE]
           /\ snaps = <<[Snap(1, d, "draft", 0) EXCEPT !.legacy = TRUE]>>
           /\ saved = <<d, e>>

Next ==
    \E c \in Clients :
        \/ BeginSave(c) \/ BeginPublish(c) \/ BeginRestore(c) \/ BeginView(c)
        \/ FindSnapshot(c)
        \/ CommitSave(c) \/ CommitRestore(c) \/ CommitPublish(c)
        \/ Delete(c) \/ Resolve(c) \/ Run(c)

Spec == Init /\ [][Next]_vars

-----------------------------------------------------------------------------
(* Properties. *)

\* Whatever a viewer was shown, and whatever a run that named no version runs,
\* passed the publishing checks, through every interleaving of saves,
\* publications, restores and backfills.
ViewersSeeValidated ==
    /\ \A d \in served : Publishable(d)
    /\ \A r \in runs : ~r.named => Publishable(r.content)

\* As long as no save was committed over a newer one, every version that was
\* ever saved can be loaded for a comparison with the content it was saved with.
EveryVersionKept ==
    ~overlapped =>
        \A v \in DOMAIN saved : Comparable(v, v) /\ LoadVersion(v) = saved[v]

\* What a version recorded, and so what the runs that name it were compiled from,
\* changes only after two saves overlapped: the second one wrote another draft
\* under the same version number, and a publication refreshed the snapshot.
VersionsFrozen ==
    [][\A s \in DOMAIN snaps : snaps'[s].content # snaps[s].content => overlapped]_vars

\* The origin of a restored draft goes along with the versions saved after it,
\* so that a later publication knows it.
LineageKept ==
    [][\A c \in Clients :
          LET s == session[c]
          IN  /\ s.pc = "commit" /\ session'[c] = Idle /\ s.op = "save"
              /\ ~overlapped' /\ s.id # 0 /\ snaps[s.id].from # 0
              => \E t \in DOMAIN snaps' : /\ snaps'[t].version = row'.version
                                          /\ snaps'[t].from = snaps[s.id].from]_vars

-----------------------------------------------------------------------------
\* The properties of the pure operators do not depend on the state; they are
\* evaluated with the new drafts.
NewDraft == calls = 0 /\ ~row.published

\* The cycle test and the search agree with the closure of the edges.
SearchesAreRight == NewDraft => GraphSearchesAreRight

\* What passes the publishing checks can be followed from its input to an output.
PublishableGraphsRun == NewDraft => PublishedGraphsRun

\* The compiler's order lists every node once and keeps the edges forward.
OrdersAreTopological == NewDraft => OrderIsTopological

\* A gate before or behind every checker is compiled as the gate it was drawn as.
GatesStay == NewDraft => GatesKeepTheirSide

\* The steps a plan lists are the nodes its run can execute.
PlansListWhatRuns == NewDraft => PlanListsWhatRuns

=============================================================================
