--------------------------- MODULE ModelProviders ---------------------------
(***************************************************************************)
(* The model providers of a workspace and the calls of its runs            *)
(* (backend/routes/admin_routes.py, services/llm_provider.py,              *)
(* services/llm_retry.py and the calls made by the nodes).                 *)
(*                                                                         *)
(* A provider is named by the place of its row; 0 stands for the           *)
(* provider of the environment, which always has what it needs.  A         *)
(* request that changes rows reads them in its first step and commits in   *)
(* its second; of a row it writes only the columns whose values it         *)
(* changed, and the configuration is one column.  The order of the rows    *)
(* by their last change is left out: where the code takes the first row,   *)
(* any row may be it.  The name of the model is kept with a run the way the *)
(* provider is, and left out.                                              *)
(***************************************************************************)
EXTENDS Naturals, FiniteSets, Sequences

CONSTANTS Clients,      \* requests that can be under way at the same time
          MaxAttempts,  \* attempts of invoke_with_llm_retry
          MaxProviders, \* bound on the number of providers
          MaxRuns,      \* bound on the number of runs
          MaxCalls,     \* bound on the calls a run makes
          MaxRequests   \* bound on the requests of the administrators

VARIABLES providers, \* model_providers
          request,   \* what the requests under way have read and will write
          runs,      \* the model of the runs and their calls
          raced,     \* a change was made on stale rows since a default was set
          requests

vars == <<providers, request, runs, raced, requests>>

Config == [default: BOOLEAN,  \* _runtime_default
           key: BOOLEAN]     \* it holds a key

Provider == [row: BOOLEAN, supported: BOOLEAN, enabled: BOOLEAN, config: Config,
             given: BOOLEAN,   \* somebody entered a key
             stale: BOOLEAN]   \* the configuration was written over a newer one

Run == [pin: Nat,  \* model_provider_id, 0 when there is none
        start: Nat, \* the provider it, or the run it repeats, was started with
        pc: {"ready", "calling", "recording", "failed"},
        attempt: 0..MaxAttempts, calls: 0..MaxCalls,
        used: SUBSET Nat, recorded: SUBSET Nat]  \* by its calls, and in their records

Gone == [row |-> FALSE, supported |-> FALSE, enabled |-> FALSE,
         config |-> [default |-> FALSE, key |-> FALSE], given |-> FALSE, stale |-> FALSE]

Rows(ps) == {p \in DOMAIN ps : ps[p].row}
Defaults(ps) == {p \in Rows(ps) : ps[p].config.default}
Usable == {p \in Rows(providers) : providers[p].enabled /\ providers[p].supported}
Enabled == {p \in Rows(providers) : providers[p].enabled}

-----------------------------------------------------------------------------
(* Administration. *)

NoRequest == [op |-> "idle"]
Idle(c) == request[c] = NoRequest

\* A request that writes row p as in "new" and clears the default of "clear";
\* "read" is what it has read, and "sole" whether it makes p the default.
Begin(c, op, p, new, clear, sole) ==
    /\ Idle(c) /\ requests < MaxRequests /\ requests' = requests + 1
    /\ request' = [request EXCEPT ![c] =
                      [op |-> op, id |-> p, new |-> new, clear |-> clear, sole |-> sole,
                       read |-> providers, late |-> FALSE]]
    /\ UNCHANGED <<providers, runs, raced>>

\* A creation that leaves the other defaults alone.
CreateKeepingDefaults(c) ==
    /\ Len(providers) < MaxProviders
    /\ \E supported, enabled, key, wanted \in BOOLEAN :
           LET default == wanted \/ Rows(providers) = {}
           IN  Begin(c, "create", 0,
                     [row |-> TRUE, supported |-> supported, enabled |-> default \/ enabled,
                      config |-> [default |-> default, key |-> key],
                      given |-> key, stale |-> FALSE],
                     {}, default)

\* create_model_provider: the first provider of a workspace is its default.
BeginCreate(c) ==
    /\ Len(providers) < MaxProviders
    /\ \E supported, enabled, key, wanted \in BOOLEAN :
           LET default == wanted \/ Rows(providers) = {}
           IN  Begin(c, "create", 0,
                     [row |-> TRUE, supported |-> supported, enabled |-> default \/ enabled,
                      config |-> [default |-> default, key |-> key],
                      given |-> key, stale |-> FALSE],
                     IF default THEN Defaults(providers) ELSE {}, default)

\* _prepare_model_config: an empty or a masked key leaves the old one.
Prepared(config, default, key) ==
    [default |-> CASE default = "yes" -> TRUE [] default = "no" -> FALSE
                   [] OTHER -> config.default,
     key |-> config.key \/ key]

\* update_model_provider; a default is enabled, and disabling it ends that.
BeginUpdate(c) ==
    \E p \in Rows(providers), default, enabled \in {"yes", "no", "absent"}, key \in BOOLEAN :
        LET row == providers[p]
            config == Prepared(row.config, default, key)
            off == default # "yes" /\ enabled = "no"
            new == [row EXCEPT !.enabled = IF default = "yes" \/ enabled = "yes" THEN TRUE
                                           ELSE @ /\ enabled # "no",
                               !.config = IF off THEN [config EXCEPT !.default = FALSE] ELSE config,
                               !.given = @ \/ key]
        IN  Begin(c, "update", p, new,
                  IF default = "yes" THEN Defaults(providers) \ {p} ELSE {}, default = "yes")

\* The row after the request has written what it changed.
Written(now, read, new) ==
    [now EXCEPT !.enabled = IF new.enabled # read.enabled THEN new.enabled ELSE @,
                !.config = IF new.config # read.config THEN new.config ELSE @,
                !.given = @ \/ new.given,
                !.stale = @ \/ (new.config # read.config /\ now.config # read.config)]

\* _clear_workspace_default_model_provider
Cleared(read) == [read EXCEPT !.config.default = FALSE]

\* The other requests under way have read rows that are not current any more.
Overtake(c) ==
    [x \in Clients |-> IF x = c THEN NoRequest
                       ELSE IF Idle(x) THEN NoRequest ELSE [request[x] EXCEPT !.late = TRUE]]

\* The commit of a creation or an update; a row that is gone by now undoes it.
Commit(c) ==
    LET r == request[c]
        target == IF r.op = "create" THEN {} ELSE {r.id}
        After(p) == CASE p \in target -> Written(providers[p], r.read[p], r.new)
                      [] p \in r.clear -> Written(providers[p], r.read[p], Cleared(r.read[p]))
                      [] OTHER -> providers[p]
        kept == [p \in DOMAIN providers |-> After(p)]
    IN  /\ ~Idle(c)
        /\ \/ /\ ~(target \cup r.clear \subseteq Rows(providers))
              /\ request' = [request EXCEPT ![c] = NoRequest]
              /\ UNCHANGED <<providers, raced>>
           \/ /\ target \cup r.clear \subseteq Rows(providers)
              /\ providers' = IF r.op = "create" THEN Append(kept, r.new) ELSE kept
              /\ raced' = (r.late \/ (raced /\ ~r.sole))
              /\ request' = Overtake(c)
        /\ UNCHANGED <<runs, requests>>

\* delete_model_provider
Delete ==
    /\ requests < MaxRequests /\ requests' = requests + 1
    /\ \E p \in Rows(providers) :
           providers' = [providers EXCEPT ![p] = Gone]
    /\ request' = [c \in Clients |-> IF Idle(c) THEN NoRequest ELSE [request[c] EXCEPT !.late = TRUE]]
    /\ UNCHANGED <<runs, raced>>

-----------------------------------------------------------------------------
(* Runs. *)

\* get_workspace_runtime_model_config: the providers it may come to, none when
\* it raises an error; "named" is a provider name given without an identifier.
Resolved(pin, named) ==
    IF pin # 0 THEN {pin} \cap Usable
    ELSE IF named THEN {0}
    ELSE IF Usable = {} THEN (IF Enabled = {} THEN {0} ELSE {})
    ELSE IF Usable \cap Defaults(providers) # {} THEN Usable \cap Defaults(providers)
    ELSE Usable

NewRun(pin, start) ==
    /\ Len(runs) < MaxRuns
    /\ runs' = Append(runs, [pin |-> pin, start |-> start, pc |-> "ready",
                             attempt |-> 0, calls |-> 0, used |-> {}, recorded |-> {}])
    /\ UNCHANGED <<providers, request, raced, requests>>

\* start: the provider it resolves is kept with the run.
Start ==
    \E asked \in {0} \cup DOMAIN providers : \E p \in Resolved(asked, FALSE) : NewRun(p, p)

\* prepare_rerun passes them on.
Rerun == \E r \in DOMAIN runs : NewRun(runs[r].pin, runs[r].start)

\* Nodes that pass on the identifier of the provider only.
NotNamed(r) == FALSE

\* Nodes name the type of the provider along with its identifier, if it has one.
Named(r) == TRUE

Step(r, new) ==
    /\ runs' = [runs EXCEPT ![r] = new]
    /\ UNCHANGED <<providers, request, raced, requests>>

Fails(run) == [run EXCEPT !.pc = "failed", !.attempt = 0]

\* get_llm_for_workspace: the model is built from the row, with its key.
BeginCall(r) ==
    LET run == runs[r]
    IN  /\ run.pc = "ready" /\ run.calls < MaxCalls
        /\ \/ Resolved(run.pin, Named(r)) = {} /\ Step(r, Fails(run))
           \/ \E p \in Resolved(run.pin, Named(r)) :
                  IF p # 0 /\ ~providers[p].config.key THEN Step(r, Fails(run))
                  ELSE Step(r, [run EXCEPT !.pc = "calling", !.attempt = 1, !.calls = @ + 1,
                                           !.used = @ \cup {p}])

\* invoke_with_llm_retry: an error that may pass is tried again.
Attempt(r) ==
    LET run == runs[r]
    IN  /\ run.pc = "calling"
        /\ \/ Step(r, [run EXCEPT !.pc = "recording"])
           \/ run.attempt < MaxAttempts /\ Step(r, [run EXCEPT !.attempt = @ + 1])
           \/ Step(r, Fails(run))

\* get_current_model_info_for_workspace resolves the provider again, after the call.
RecordCall(r) ==
    LET run == runs[r]
    IN  /\ run.pc = "recording"
        /\ \/ Resolved(run.pin, Named(r)) = {} /\ Step(r, Fails(run))
           \/ \E p \in Resolved(run.pin, Named(r)) :
                  Step(r, [run EXCEPT !.pc = "ready", !.attempt = 0,
                                      !.recorded = @ \cup {p}])

Init ==
    /\ providers = << >> /\ runs = << >>
    /\ request = [c \in Clients |-> NoRequest]
    /\ raced = FALSE /\ requests = 0

Next ==
    \/ \E c \in Clients : BeginCreate(c) \/ BeginUpdate(c) \/ Commit(c)
    \/ Delete \/ Start \/ Rerun
    \/ \E r \in DOMAIN runs : BeginCall(r) \/ Attempt(r) \/ RecordCall(r)

Spec == Init /\ [][Next]_vars

-----------------------------------------------------------------------------
(* Properties. *)

\* Every call of a run and of its reruns uses the provider the run was started
\* with, and is recorded under it, whatever administrators do
\* meanwhile; a run whose provider is gone fails (start: no background node may
\* switch to another model).
RunsKeepTheirModel ==
    \A r \in DOMAIN runs : runs[r].used \cup runs[r].recorded \subseteq {runs[r].start}

\* A workspace has at most one default provider, and it is enabled, unless a
\* request has written rows that another one had changed; setting a default
\* afterwards makes it the only one again.  A key that was entered is kept when
\* forms send it back masked (_clear_workspace_default_model_provider: the
\* entry of runs is unique; _prepare_model_config).
SettingsHold ==
    /\ ~raced => /\ Cardinality(Defaults(providers)) <= 1
                 /\ \A p \in Defaults(providers) : providers[p].enabled
    /\ \A p \in Rows(providers) :
           providers[p].given /\ ~providers[p].stale => providers[p].config.key

=============================================================================
