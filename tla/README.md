# PromptChain: a TLA+ model

PromptChain is a multi-user application that writes long texts. A visual editor defines workflows; a
run of one drives a LangGraph graph (intent → outline → content → refinement → fact check → final
output) behind FastAPI handlers, with people answering at its gates; a page follows the run live, and
a finished run can be rerun from a node. This directory models that system, checks it with TLC on
small instances, and proves its safety properties with TLAPS for all sizes.

## Inventory

Paths are below `src/`. "State" is what survives between operations.

| Component | State | Operations | Works with | What is hard, and what makes it correct | Module |
|---|---|---|---|---|---|
| Content graph (`backend/graph/builder.py`, `conditions.py`, `state.py`, `backend/nodes/`) | the checkpoints of a thread | ten nodes, five routers | executor, store, LLM | flags set by nodes and by answers combine; a node never runs without its inputs, content comes only after acceptance | `ContentGraph` |
| Executor and run handlers (`backend/graph/executor.py`, `backend/routes/workflow_routes.py`, `workflow_helpers.py`) | `_active_tasks`, `_workflow_locks`; the row | start, clarify, approve, pause, resume, rerun, drive | graph, store, bus | several coroutines per run, stale rows, statuses checked awaits before they are used; one node at a time, pauses take effect, drives end, nobody is stranded | `WorkflowRuntime`, `ReviewedRun` |
| Definitions and versions (`backend/services/workflow_definition_service.py`, two route files) | draft row, snapshots | create, save, publish, restore, delete, compare, view | editor, run start | two editors with one row and no version check; viewers see only validated graphs, versions keep their content | `DefinitionVersions` |
| Runtime plan (`backend/graph/runtime_plan.py`), validator | none (pure) | validate, compile | definitions, routers | cycles, parallel branches, edges to nowhere; orders are topological, gates stay on their side of the checker | `DefinitionGraph` |
| Rerun and artifact store (`backend/services/rerun_service.py`, `artifact_store.py`, `backend/db/postgres_store.py`) | artifacts with versions, node runs | rerun, prepare, create, trace | executor, nodes | what is preserved after refinements, regenerations and repeated nodes; the entry point is computed, not named; a client may write any name of the state; version chains | `Reruns` |
| Knowledge base (`backend/services/knowledge_service.py`, `knowledge_routes.py`) | bases, document rows, chunks, files | create, upload, status, reindex, delete, search | runs | upload reads, archives and commits separately; deletion touches database and disk; one version answers, rows have files, a run's uploads stay in it | `Knowledge` |
| Accounts, sessions (`backend/services/auth_service.py`, `email_service.py`, `auth_routes.py`) | users, tokens, attempts | register, verify, login, logout, reset | all routes | check-then-record, two commits in one request; resets end sessions, the lock bounds failures of an account and origin | `Accounts` |
| Permissions, workspaces (`backend/services/permission_service.py`, `workspace_routes.py`, `admin_routes.py`) | memberships, invites | invite, accept, change role, suspend, remove | all routes | role and suspension share a column; one owner, one membership per invite | `Permissions`, `Accounts` |
| Model providers and LLM access (`admin_routes.py`, `backend/services/llm_provider.py`, `llm_retry.py`) | provider rows, a run's provider | create, update, delete, resolve, call with retry, record | nodes | a run resolves its provider again at every call; one default, the run keeps its model | `ModelProviders` |
| Provider test (`backend/services/model_provider_tester.py`) | none (pure) | test | administration | probes that differ from the calls in method or server; the verdict agrees with the calls that go where it asked | `ProviderTest` |
| Event bus, SSE stream, page (`backend/services/workflow_event_bus.py`, the SSE handler, `frontend/src/app/workflow/[id]/page.tsx`, `api.ts`) | bounded queues, the page's state | publish, subscribe, stream, poll, ask | nodes, store | overflow, retried texts, snapshots older than events, broken streams; whole texts, the end is seen | `LiveUpdates` |
| WebSockets (`backend/routes/websocket_routes.py`) | sets of live connections | connect, broadcast, disconnect | executor | a set that changes while a broadcast awaits; broadcasts reach | `Connections` |
| Trace, audit, e-mail delivery, export, errors, ORM, migrations, other pages | rows, files | reading, rendering | – | no protocol of their own | – |

`PROJECT.json` gives each component its status, and under `hazards` the places where this code is
hard to test, with the property that watches each.

## Modules

| Module | What it is |
|---|---|
| `ContentGraph` | pure: checkpoints `[at, vals]`, the routers (`NextNode`), what each node can return (`NodeOutcomes`), the three places where the code derives a status |
| `WorkflowRuntime` | the state machine of one run: row, latest checkpoint, lock, active task, processes with a `pc` |
| `ReviewedRun` | abstract specification: one node of work at a time, those behind an outline gate only after an acceptance. `WorkflowRuntime` implements it |
| `DefinitionGraph` | pure: the validator, the plan compiler and the steps of a plan, with reference definitions over the closure of the edges |
| `DefinitionVersions` | one definition row, its snapshots and the sessions of its editors and readers; uses `DefinitionGraph` and `Permissions` |
| `Permissions` | pure: roles, actions, who may request and grant what |
| `Accounts` | users, mails, tokens, failed logins; memberships and invites of one workspace |
| `Reruns` | the runs of one family with artifacts and node runs; uses `ContentGraph` and `DefinitionGraph` |
| `Knowledge` | the bases, documents and files of a workspace and the uploads of runs |
| `ModelProviders`, `ProviderTest` | provider rows with the calls of runs; the test of a provider as a function of its service |
| `LiveUpdates` | writer, bus, stream, browser: the composition from a node's token to what the page shows |
| `Connections` | the set objects of a run's WebSockets and the broadcasts through them |
| `Resources` | what the runs of a workspace draw on and report to: the composition of `Knowledge`, `ModelProviders` with `ProviderTest`, and `Connections` |
| `MCWorkflowRuntime`, `MCDefinitions`, `MCReruns`, `MCAccounts`, `MCResources` | constants, symmetry and views for TLC |
| `*_proofs` | theorems, one module for each state machine; those about `Knowledge` and `ProviderTest` are in `Resources_proofs` |

### How actions correspond to code

asyncio switches only at an await, and transactions of different requests meet only at their
commits. So an action is the code between two awaits that matter: of the store, of LangGraph, of a
send, or of a database commit. What a handler reads goes into its process, session or request
record, and the later action uses the copy, as the code does.

**Runs** (`WorkflowRuntime`). Processes are request slots and task slots; a request that answers a
gate takes the drive's actions itself. The drive's labels follow `_drive_workflow`:

| pc | code (executor.py) |
|---|---|
| `acquire` | `async with self._get_lock` (617) |
| `invoke`, `node`, `gate_write`, `node_end` | `graph.ainvoke` (641): input checkpoint; the node, with the row read and whole-row write of `_update_gate_metadata` in between; the node's checkpoint |
| `capture` | `_capture_graph_failure` (498) |
| `snapshot` | `snapshot_after` (653) |
| `sync_read`, `sync_write` | `_sync_workflow_run` (302 read, 357 write), then the branches of the loop (683–788) |
| `mark_paused` | the paused branch writes the graph state (686) |
| `final_read`, `final_write` | the second synchronisation of that branch and of a captured failure |
| `return`, `fail_write`, `done` | leaving the lock; `_mark_failed`; the done-callback (601) |

A handler is `Arrive` (row loaded) → `Guard` (checkpoint read and status check) → its effects:
`pause_write`/`resume_write` for the row, `update_read`/`update_write` for LangGraph's
`aupdate_state`, then `acquire` (gate answers), `pause_sync_*` (pause without a task) or `schedule`
(resume). `GuardUnread` is the same when the checkpoint cannot be read: the row loaded at `Arrive` is
written back with a diagnosis. The request that starts the run is in it from `Init` on: `start()` has
scheduled the drive, and `annotate_read`, `annotate_write` are the read and the whole-row write by
which `annotate_workflow_run_ownership` notes the owner meanwhile.

**Definitions** (`DefinitionVersions`). `BeginSave/Publish/Restore` read the row, `FindSnapshot`
selects the snapshot of the version that was read, `Commit*` writes row and snapshot together, with
`Ensure` for the five cases of `_ensure_snapshot`. SQLAlchemy writes only attributes that differ
from what was loaded, so a commit over a newer row mixes both; `CommitPublish` says which
attributes. A viewer's read may itself write: `Resolve` backfills a snapshot for an old row.

**Accounts**. Each request is `Begin*` (reads) and `Commit*`, `Use*`, `Finish*`, `RecordLogin`,
`IssueToken` (one per commit). Failed logins are counted for an account and an `origin`, the address a
client claims in `X-Forwarded-For`. `Crash` ends all requests and keeps what was committed. A row has
an identifier, so a commit to a row that was removed and made again is told apart.

**Reruns**. `FinishNode` is one node with the artifacts it creates and its node run. `FailNode`
records the outputs made so far with `failed`; a server stop comes before the node run is updated
(`Cut`: the outputs made so far stay, in no record) or after it and before the checkpoint
(`CutAfterRecord`: the node run is complete and the node will be executed again). `Rerun` is the whole
of `create_rerun`, `prepare_rerun_state` and `start_rerun_from_node`: preserved references by the
trace of the original, the state written as the step before in the plan. A node's artifacts are named
by run and place; what several of them do to a slot is what the last one does, and a refinement's
rounds are the list of the sections they rewrite (`Revisions`, in which a section may come twice).
Only the youngest run is followed: runs share nothing but immutable artifacts. `EditedRerun` is a
rerun whose `updated_input` is merged into the preserved state and into the initial one: it sets any
names of the modelled state, or the plan.

**Knowledge**. `Upload` (file written, versions read) → `Archive` (text parsed, active versions
read) → `CommitUpload`. `DeleteDocument` and `DeleteBase` commit first and `Unlink` later. `Crash`
comes in between.

**Model providers**. `Begin*` reads, `Commit` writes the columns the request changed; `Attempt` and
`RecordCall` resolve the run's provider anew each time.

**Live updates**. `Generate`, `Token`, `Completed`, `Retry` are the node; `Publish` the bus;
`SendSnapshot`, `PassEvent`, `SecondPasses` the SSE loop; `Receive`, `Poll`, `Ask` the page with its
fallback. **Connections**: `Begin`, `Pick`, `Send`, `Finish`, `End`, `Raise` are the loop of
`broadcast_workflow_status` over a set that others change.

### Abstractions

* Texts, names, scores, statistics, prompts and audit rows are left out; a content is a member of a
  small set, a password a number, a service a record of its answers.
* A config pinned to a `checkpoint_id` names an immutable row, so a process carries the checkpoint
  in `cfg`; `NoCheckpoint` there is the unpinned config of the first drive.
* An artifact that is an outline or a final content is `full` when it has a section, and the state's
  `sections`, `draft` and `final` are what the code's truth tests see: without a section the drafts
  are an empty dict, which counts as missing, and `finalize` makes nothing of it.
* What the pages let a user write with a rerun (the input, an instruction) are texts; an update with
  other names is `EditedRerun`. Artifact ids written by hand and names the state has no use for are
  left out. A run that failed stays so in `Reruns`: that an answer which had passed its guard takes it
  up again is a matter of `WorkflowRuntime`.
* A provider's service answers a prompt at the tested base URL and elsewhere independently
  (`prompt`, `call`); `AtBaseUrl` says which of the two the calls of a run meet.
* Of the run's row `WorkflowRuntime` keeps only `status`. `approve` and `modify` at the outline gate
  are one decision, `accept`.
* Any node may fail at any await, as often as it likes (`NodeFails`). Exceptions of the store or
  the event bus outside the nodes are bounded by `MaxFaults`, restarts by `MaxCrashes` or `MaxCuts`,
  client calls by `MaxCalls`.
* `_capture_graph_failure` reads and writes its checkpoint in one action; for a pinned config this
  is exact, because the base cannot change.
* Statements see what was committed before them (READ COMMITTED).
* The Dockerfile starts one API process, which `WorkflowRuntime` assumes (lock and tasks are in
  memory). The other modules do not: their requests meet in the database.

### History variables

Some promises hold except in a race the code leaves open. The exception is named by a variable that
nothing in the modelled code reads, so that a property says exactly when it holds:

| Variable | True when |
|---|---|
| `overlapped`, `saved` (`DefinitionVersions`) | a save was committed over a newer one; what each version was saved with |
| `raced`, `hand`, `committed` (documents) | another upload of the file committed unseen; somebody set the status; the upload committed |
| `raced`, `admitted` (invites) | two acceptances crossed; how many memberships it made |
| `cut`, `late` (`Accounts`) | a reset was cut off before its last commit; a login was under way when the password changed |
| `raced`, `stale`, `given`, `start` (`ModelProviders`) | rows were written over newer ones; so was this configuration; a key was entered; the run's first provider |
| `exchanged`, `steady`, `broken` (`Connections`) | connections were exchanged during a broadcast; who was there all along; a removal met no set |
| `edited`, `waived` (`Reruns`) | a rerun was told what to write into its state (besides, it is then the last of its family, and its nodes may find missing what the state seems to hold); the run's fact-check gate was answered without a decision |
| `gaps`, `deaf`, `newest` (`LiveUpdates`) | the page missed an event of this take; a failed request or poll left it without updates; the newest moment shown |

## Runs

| Run | Instance | Shows |
|---|---|---|
| `gates` | 2 requests, one of which starts the run, 1 task, plans with both gates with and without refinement, outlines with and without sections, 3 gate answers | `NodeInputsPresent`: no node starts on a checkpoint that lacks what it reads. `ContentOnlyAfterAcceptance`. `NoStrandedRun`: at rest before the end of the graph, somebody can go on. `CompletedIsFinal`, but for the owner's annotation. `ImplementsReviewedRun`: the executor is a `ReviewedRun`. `TypeOK` |
| `pause` | 2 requests, 2 tasks, pause/resume/accept, 2 calls, 2 store faults, 1 restart | `OneNodeAtATime`. `PauseStopsTheDrive`: at most one node starts after the row became paused |
| `live` | 1 request, 1 task, all sixteen plans, 2 calls, fairness | `DrivesEnd`, `RequestsAnswered`. `PauseReachesGraph`: at rest before the end of the graph a pause is in the row and in the graph state |
| `definitions` | 2 designers and a reader, 4 requests, 2 publishable drafts and one that is not, new and old rows | `ViewersSeeValidated`. `EveryVersionKept`, `VersionsFrozen`: a version keeps the content it was saved with. `LineageKept`: a restored version's origin goes along |
| | about 3600 graphs: all on 3 nodes with self loops, edges to missing nodes, all forward graphs on 5 nodes in three list orders, one chain for each choice of features | `SearchesAreRight`, `OrdersAreTopological`: the algorithms agree with the closure of the edges. `PublishableGraphsRun`: validated graphs lead from input to output. `GatesStay`: a gate is compiled on the side of the checker it was drawn. `PlansListWhatRuns`: a plan lists exactly the nodes its run can execute |
| `accounts` | 2 requests at a time, 3 people, 2 claimed origins, 2 attempts, 4 requests in all | `OneOwner`. `ResetEndsSessions`. `LockoutBounded`: an account's failures from one origin exceed the limit by less than the requests under way. `InviteAdmitsOnce`. `SuspensionSticks`. `AccountsTypeOK` |
| `reruns` | 3 plans, 2 sections or none, the first rewritten not at all or twice, an original run and two reruns, 1 regenerated outline, 1 server stop, 3 updates | until a rerun is edited: `RerunReachesNode`: the first node executed is the one asked for. `RerunKeepsInputs`: on the artifacts the original had there. `GatesBindReruns`. `CompletedHasContent`: if the outline has a section. `VersionsGrow` |
| `resources` | knowledge: 2 clients, 2 users, 1 file name, 2 bases, 3 documents, 2 runs, 5 requests | `OneVersionAnswers`: a search finds one version of a file. `RowsHaveFiles`. `UploadsStayInTheirRun` |
| | models: 2 administrators, 2 providers, 2 attempts, 2 runs, 3 requests | `RunsKeepTheirModel`. `SettingsHold`: one enabled default, keys survive masked forms |
| | sockets: 3 connections, 2 senders, 2 set objects | `BroadcastsReach` |
| | every kind of model service | `VerdictIsRight`: a passed test means that those calls of a run work that go to the server it asked |
| `streams` | both buses, queue of 2, 1 message on the way, 2 takes of 2 tokens, a run that ends at its moment 1, 2 polls, any of which may fail, 1 request, 1 other fault | `CompleteTextIsWhole`: until the page is told that the run has ended, a text shown as complete is one take, whole. `PageSeesTheEnd` (liveness) |
| `paused_overwritten` | 1 pause | violation: a drive that read the row before the pause writes `running` over it |
| `resume_lost` | pause, resume | violation: a resume that meets the ending task is dropped; the run says running and nothing drives it |
| `unchecked_completion` | 2 gate answers | violation: with self-refinement the run counts as completed before `check_facts` |
| `empty_fact_answer` | 3 gate answers | violation: an approval without decisions finalizes undecided high-risk claims |

`resources` explores the parts of `Resources` one at a time (`part`): they share no variable, and
their product would show nothing more. The properties of pure operators are evaluated in the states
of a new draft and in the initial states.

### Why the bounds are enough

* `gates`: three calls let two answers to one gate pass their guard together, overtake each other,
  meet the drive of the task, and let a later gate be answered as well.
* `pause`: two tasks let one end beside its successor; two faults let a drive fail in a node and
  again while it records the failure.
* `definitions`: four requests hold a save and a publication crossing a third commit, followed by a
  view or a run. The two publishable drafts let a version be confused with another; the third tells
  whether something unvalidated is shown.
* `accounts`: two requests cross, and two more come before or after (invite, accept, remove, accept
  again; failure, failure, login). The lock's limit is 2 so that crossing logins reach it, and two
  origins tell a count for each from a count for all.
* `reruns`: a rerun looks at its parent only, so three generations hold every case: an original, a
  rerun of it, and a rerun of a rerun. One regeneration and one stop are what it takes for the trace
  to hold a node twice. A section rewritten in both rounds has every version a slot can pass through
  in a node. An edited rerun ends its family, since nothing is claimed of it or of what follows: the
  three updates take the outline away, answer the fact-check gate beforehand with drafts of their own,
  and give another plan, so that the steps meet a state no node has made.
* `resources`: three documents are two versions that cross and a third after them; two providers are
  enough for two defaults; two set objects for a set to be replaced during a broadcast.
* `streams`: a queue of two overflows, two takes are an attempt and its repetition, two polls
  overtake each other. Two tokens let a text lack its beginning only: with one token a text that
  is begun late has nothing to show, and a text begun anew after the end (see below) stays hidden.

Symmetry is used on safety runs only, and on sets no definition tells apart. The view of the runtime
drops a process's copies where no later step reads them; that of `reruns` keeps what a later step or
a rerun can still read: for each executed node what it worked on first and what a rerun from it would
find, what the run holds, the last versions, and of older runs what the original worked on; artifacts
are told apart by their order. `CHECK_DEADLOCK FALSE` everywhere: a run that ended or waits for a
person, and a workspace where the calls are used up, really are at rest.

`CompletedIsFinal` and `NoStrandedRun` are run with the gate operations. With pause and resume among
them they do not hold: a pause that passed its guard turns a completed row into a paused one, and a
resume can be dropped (`resume_lost`). Both say what the owner's annotation may do: write `running`
over the end of a run that was faster. With a text the API still reports such a run as completed (it
looks at the graph state); without one only the row told, so `NoStrandedRun` speaks of runs that have
not come to the end of their graph. With store faults neither holds: `_mark_failed` overwrites any
status, and an exception in a request's drive leaves a running row behind. The theorems about them
(`CompletedRunsStay`, `NoRunStranded`) name the same operations and faults as their hypotheses.
`PauseReachesGraph` is false as soon as a resume, a fault or a restart is allowed (TLC finds a run for
each): the second write of the pause is missing. It leaves out the end of the graph, where a last
write may put `paused` over the row of a run that ended without a text.

### Fairness

`WorkflowRuntime`: weak fairness of each process's own steps (drive steps, request steps, a task's
failure write, its done-callback). The event loop resumes every coroutine whose await has completed;
a node is assumed to return or to raise (the code sets no deadline of its own on a model call, so
this rests on the client libraries' defaults), and the asyncio lock is handed on when it is
released. Client calls, store failures and restarts get none. Weak fairness is enough for
`Acquire`: calls being finite, a released lock is not taken again and again by others.

`LiveUpdates`: weak fairness of the SSE loop (`StreamStep`, the passing of its second), of the
browser's reader and poll timer, and of each answer. The run itself may stay where it is, and
nothing makes the user act or a fault happen.

### The refinement

`ImplementsReviewedRun` is `INSTANCE ReviewedRun` with the work items the graph's nodes, those under
review the nodes behind the outline gate, `doing` the nodes executing now, `approved` whether an
acceptance was written, `reviewed` whether the plan has the gate. An abstract reader needs to know
nothing of locks, checkpoints, rows and requests: work is done one node at a time, and gated work
begins only after approval.

## Proofs

Each theorem holds for every value of the constants that the modules' `ASSUME`s allow, and from
these assumptions alone. The proofs are in `<module>_proofs`; the listed theorems are:

| Theorem | Statement | Inductive argument |
|---|---|---|
| `TypeCorrect`, `LockIsOwned`, `NodesExclude` | `TypeOK`; `LockOwned`; `OneNodeAtATime` | `TypeInv` adds to `TypeOK` that a request past its arrival has a known operation and that a process inside `ainvoke` has a node to run; whoever executes holds the lock |
| `PauseTakesEffect` | `PauseStopsTheDrive` | `PauseInv`: a non-zero count means the row is still paused, that its drive is not about to invoke again, and that at its next write it has read `paused` |
| `AcceptanceFirst` | `ContentOnlyAfterAcceptance` | `AcceptInv`: until an acceptance every checkpoint a process can start from lies before the gate and holds none, and no answer to the fact-check gate is past its guard |
| `InputsAlwaysPresent` | `NodeInputsPresent` | `StoreDrafted`: every checkpoint written as `generate_content` holds a draft, and what a process carries came from such a one |
| `CompletedRunsStay` | `CompletedIsFinal`, when `Ops` are gate answers and `MaxFaults = 0` | `GateInv`: a completed row comes from a checkpoint past the last gate, and nobody but the annotating start request still holds a read or a checkpoint from which another status would be written |
| `NoRunStranded` | `NoStrandedRun`, under the same hypotheses and `MaxCrashes = 0` | `RestInv` with `ThreadInv` and `DrivenInv`: either somebody still drives the run, or the row agrees with the checkpoint the last drive left, which is the end, a failure or a gate |
| `PausesReachGraph` | `PauseReachesGraph`, when nobody resumes and `MaxFaults = MaxCrashes = 0` | `CarriedInv`: while the graph could go on unpaused, some drive is still going to look at the latest checkpoint or to pause it |
| `RunsAreReviewed` | `ImplementsReviewedRun` | step simulation under `RunInv` (types, lock, acceptance): a node's start and end are the abstract steps, all others stutter |
| `ViewersAlwaysSeeValidated` | `ViewersSeeValidated` | `ViewInv`: the pointer names a snapshot that passes the checks, so do all published snapshots, a session about to publish read a valid content, and a snapshot-less published row has still its first publication's content; `BoundInv` bounds the versions so that a newest one exists (`HasLargest`) |
| `EveryVersionAlwaysKept`, `VersionsStayFrozen`, `LineageAlwaysKept` | the three history properties | `HistoryInv`: until saves overlap, the history has one content for each version up to the row's, each snapshot records its version's, and a session remembers what was current when it read |
| `SearchesAlwaysRight` | `SearchesAreRight` | a search stands still after as many rounds as there are edges (`ChainStops`), and then holds the least set closed under the edges; a knot, a set whose members all have an edge from a member, is what peeling off nodes leaves, and there is one exactly when there is a cycle |
| `PublishedAlwaysRun` | `PublishableGraphsRun` | what the searches from inputs and, backwards, from outputs reach, with an edge's ways turned around (`FollowingBackwards`) |
| `OrdersAlwaysTopological` | `OrdersAreTopological` | the order built so far holds no node twice, and with each node everything that has an edge to it; it grows until what is left is a knot |
| `GatesAlwaysStay` | `GatesStay` | what is behind a node comes later in the order (`OrderFollowsWays`), so the first checker is on the right side of the gate |
| `PlansAlwaysListed` | `PlansListWhatRuns` | `Within`: no checkpoint of a run is at a node its plan does not list; conversely a run with every gate opened passes them all in twelve rounds (`RunsToContent`, `RunsToEnd`) |
| `AccountsWellFormed`, `AlwaysOneOwner` | `AccountsTypeOK`; `OneOwner` | `OwnerInv`: no request that has read a membership is about the owner's row or will write that role |
| `SuspensionsStick` | `SuspensionSticks` | rows are told apart by identifiers no later request reuses |
| `LockoutHolds` | `LockoutBounded` | `LockInv`: for each account and origin, recorded failures and checked logins under way are bounded together |
| `InvitesAdmitOnce` | `InviteAdmitsOnce` | `AdmitInv`: an invite that admitted somebody is used up, and another acceptance that read it before makes it raced |
| `ResetsEndSessions` | `ResetEndsSessions` | passwords are ordered by the requests that set them, so a token's is at most the current one |
| `RowsAlwaysHaveFiles` | `RowsHaveFiles` | `FileInv`: a file is under removal only when its row is gone for good; an upload's file is there until its commit |
| `OneVersionAlwaysAnswers` | `OneVersionAnswers` | `VersionInv` relates the version numbers, the rows an upload is going to hide and the uploads that no longer look |
| `UploadsStayTheirRuns` | `UploadsStayInTheirRun` | `OwnedByRun`: a base of a run belongs to who started it |
| `RunsAlwaysKeepTheirModel` | `RunsKeepTheirModel` | `RunInv`: a run's pin is the provider it was started with, and a call that names its pin resolves to it or fails |
| `SettingsAlwaysHold` | `SettingsHold` | without a race a request's copy of the rows is the rows: its clear set is all defaults but its own; keys entered and not overwritten stay |
| `BroadcastsAlwaysReach` | `BroadcastsReach` | `ReachInv`: a steady connection has the message or is still ahead in the set the broadcast goes through |
| `VerdictAlwaysRight` | `VerdictIsRight` | by cases over the steps of the report: none of them may have failed (`PassedTest`), and the one for the configured method probes what the calls use; the prompt stands for the calls only where `AtBaseUrl` |
| `CompleteTextsAreWhole` | `CompleteTextIsWhole` | the events on the wire and in the queue form a chain from what the page has read to where the writer is (`ChainInv`), broken only where `gaps` says so; `OrderInv` orders takes and moments, `EndInv` says what the page knows once the run has ended |
| `VersionsAlwaysGrow` | `VersionsGrow` | `BaseInv`: the versions of a run are bounded, so that a last one exists (`VersionsBounded`), every artifact a state or a trace names is there and was made by the node the trace says (`MadeInv`), and the trace goes forward through the graph but for outlines (`FlowInv`) |
| `InputsAlwaysKept` | `RerunKeepsInputs` | `HeldInv`: what a run holds is what it began with, and over it what its nodes made in the order of the trace, but for what the last node recorded before it was cut short of its checkpoint and makes again, and for the sections of a refinement executed twice; so what a node found when the run first came to it is what `Preserve` computes from the trace, then and at any later time |
| `NodesAlwaysReached` | `RerunReachesNode` | by cases over plans and nodes: `OriginInv` (the node was executed by the parent and is a step of the plan) makes the artifacts the routers ask for present; `BeginInv`: until its first node the rerun stands where a router leads to that node |
| `GatesAlwaysBind` | `GatesBindReruns` | `OutlineGateInv`, `FactGateInv`: where the checkpoint lets a run pass a gate, the artifact its state holds is a good one, or the gate was waived; by `HeldInv` an outline taken over by a rerun is the one the original's later node had, so it was accepted |
| `CompletedAlwaysHasContent` | `CompletedHasContent` | `ContentInv`: if the outline has a section, then from `generate_content` on the state and the later inputs in the trace have sections, which a rerun of an original takes over when it starts behind it |

`RunsAlwaysKeepTheirModel`, `SettingsAlwaysHold` and `BroadcastsAlwaysReach` are proved in
`ModelProviders_proofs` and `Connections_proofs` and carried over to `Resources`: its initial states
are theirs, and a step of the whole is a step of the part or leaves it alone (`ProvidersMove`,
`SocketsMove`).

The theorems about `Reruns` prove their invariants for families without an edited rerun
(`[](edited \/ Inv)`), as the properties state it: an edited rerun is the last of its family, so the
step that makes it ends the claim.

The theorems about graphs compute over data of any size. The library's induction theorems are out of
the prover's reach, so what is needed is derived from the smallest counterexample: a
recursive function over `0..n` exists and keeps what every step keeps (`RecursionExists`,
`RecursionTyped`), and a chain of growing sets below a finite one stops (`ChainStops`).

Every invariant and every action property a passing run checks has a theorem, and so has the
refinement. Only model-checked is liveness (`DrivesEnd`, `RequestsAnswered`, `PageSeesTheEnd`), which
is beyond the prover.

## What the code does otherwise

The four violation runs show disagreements with a document or comment; `PROJECT.json` quotes them.
Met while modelling, and kept in the models:

* `get_workflow_context` (`postgres_store.py:945`) takes any snapshot a client names, also one never
  published; `ViewersSeeValidated` therefore speaks of runs that named none.
* An acceptance of the outline that passed its guard, but is written only when the fact-check gate is
  reached, sets the run back; an answer about facts given meanwhile then has it finalized with no
  draft (`executor.py:1246` writes as `check_facts` whatever the checkpoint it read was written as).
* `annotate_workflow_run_ownership` (`workflow_helpers.py:413`) writes the whole row after the drive
  has started: a run without gates that ends meanwhile is put back to `running`, and if its outline
  had no section the API reports it as running for good.
* An outline may have no section (`models/outline.py:35`, a modification with `sections: []`): the run
  then ends as completed with no final artifact and no text.
* The login lock counts for an account and the address the client says it has (`auth_service.py:336`,
  `auth_routes.py:138`): the failures of an account from all origins together are not bounded by
  anything.
* `updated_input` of a rerun is merged unfiltered (`rerun_service.py:165`): what the rerun keeps,
  where it enters the graph and whether its gates are asked is then up to the client, and nothing is
  claimed.
* The refinement records its node run as completed before the checkpoint is written
  (`self_refiner.py:517`): executed again after a stop, it leaves a rerun sections the original did
  not go on with (`RefinedTwice`).
* The provider test asks the configured base URL, which calls to Anthropic and Google ignore
  (`llm_provider.py:532`); for Ollama it drops a final `/api` the calls keep.
* Outputs of a rerun have no `parent_version` of the original (`models/artifact.py:60`).
* A rerun of a rerun finds in its parent's trace only what the parent made itself, and may complete
  without content; `RerunReachesNode`, `RerunKeepsInputs` and `CompletedHasContent` exclude it.
* A rerun that cannot be prepared leaves its row `running` (`RerunNotStarted`).
* A registration whose mail fails is rolled back after `send_verification_email` has committed it.
* A page whose request fails stays without updates, one failing poll ends the polling, and the answer
  to an older poll may replace a newer state.
* When the answer to an action tells the page that the run has ended, the page clears its text but
  leaves the stream open (`page.tsx:1207`): tokens under way begin a text in the middle, and
  `section_completed` shows it as complete. `CompleteTextIsWhole` speaks of the time before.
* A stalled WebSocket client holds the drive that broadcasts to it, and its lock.

## Not modelled

* Errors, models, ORM mapping; migrations, scripts and deployment: definitions and schema changes.
* Trace views, version comparison texts, export, e-mail delivery: reading, rendering and I/O.
* The WebSockets of a user: the same code as those of a run over another registry.
* Creating, renaming and switching workspaces; secrets, API keys and audit rows: single rows inserted
  or marked, with no step between.
* The ranking of a search, usage counts, prompts, encryption, error classification and the fake
  provider: computations over data no state depends on.
* The other pages of the frontend, which keep no state beyond a request.
* In the checkpoint saver, pending writes (`aput_writes`); what the readers of a run (state, status,
  stream) write when a checkpoint cannot be read, which is `GuardUnread` again; several API processes,
  which neither the Dockerfile nor the in-memory lock allows.
* Five hazards have no property: a late pause on a completed row, the row of an interrupted run, a
  rerun that was not started, a stalled WebSocket, an edited rerun, each with its reason in
  `PROJECT.json`. The runtime and `Reruns` do have these states.

## What is left

1. A refinement of `LiveUpdates` to "the page shows a prefix of one take".
2. Several API processes over one database, once the code shares its lock.
3. Workspaces as a set, with switching and the tokens that name one.
