----------------------------- MODULE Resources -----------------------------
(***************************************************************************)
(* What the runs of a workspace draw on and report to: the knowledge bases *)
(* (Knowledge), the model providers (ModelProviders) with their test       *)
(* (ProviderTest), and the WebSocket connections to one run (Connections). *)
(* One server has them all.  They share no variable: a step of the whole   *)
(* is a step of one of them while the others rest.                         *)
(***************************************************************************)
EXTENDS Knowledge

CONSTANTS MaxAttempts,   \* of invoke_with_llm_retry
          MaxProviders,  \* bound on the number of providers
          MaxModelRuns,  \* bound on the runs that call a model
          MaxModelCalls, \* bound on the calls of such a run
          MaxEdits,      \* bound on the requests of the administrators
          Pages,         \* pages that connect to the run
          Senders,       \* the coroutines that broadcast
          MaxBroadcasts, \* bound on the messages of a sender
          MaxObjects     \* bound on the set objects made for the run

VARIABLES providers, edits, modelRuns, raced, edited,                         \* Providers
          key, objects, handler, alive, cast, steady, got, count, broken      \* Sockets

Providers ==
    INSTANCE ModelProviders WITH
        MaxRuns <- MaxModelRuns, MaxCalls <- MaxModelCalls, MaxRequests <- MaxEdits,
        request <- edits, runs <- modelRuns, requests <- edited

Sockets == INSTANCE Connections WITH Clients <- Pages

Tester == INSTANCE ProviderTest

modelVars == <<providers, edits, modelRuns, raced, edited>>
socketVars == <<key, objects, handler, alive, cast, steady, got, count, broken>>

KnowledgeStep == Next /\ UNCHANGED <<modelVars, socketVars>>
ProvidersStep == Providers!Next /\ UNCHANGED <<vars, socketVars>>
SocketsStep == Sockets!Next /\ UNCHANGED <<vars, modelVars>>

ResourcesInit == Init /\ Providers!Init /\ Sockets!Init
ResourcesNext == KnowledgeStep \/ ProvidersStep \/ SocketsStep
ResourcesSpec == ResourcesInit /\ [][ResourcesNext]_<<vars, modelVars, socketVars>>

-----------------------------------------------------------------------------
(* Properties of the parts, stated of the whole; their modules say more.     *)

\* Every call of a run uses and records the provider the run was started with
\* (ModelProviders: start, get_llm_for_workspace).
RunsKeepTheirModel == Providers!RunsKeepTheirModel

\* One enabled default, and keys that stay, unless requests overlapped
\* (ModelProviders: _clear_workspace_default_model_provider, _prepare_model_config).
SettingsHold == Providers!SettingsHold

\* A broadcast that ends has reached the connections that were there all along
\* (Connections: broadcast_workflow_status, disconnect).
BroadcastsReach == Sockets!BroadcastsReach

\* What the test of a provider says of the calls of a run (ProviderTest:
\* test_model_provider).  It depends on no variable, and is looked at in the
\* initial states.
VerdictIsRight == ResourcesInit => Tester!VerdictIsRight

=============================================================================
