---------------------------- MODULE ProviderTest ----------------------------
(***************************************************************************)
(* The test of a model provider                                            *)
(* (backend/services/model_provider_tester.py) and how the structured      *)
(* calls of a run are made (_resolve_effective_structured_output_method in *)
(* services/llm_provider.py).  A provider and the service behind it are a  *)
(* record that says how each request of the test and a call of a run are   *)
(* answered for the model the provider is set to; the report gives each    *)
(* step its status.                                                        *)
(***************************************************************************)
EXTENDS Sequences

Methods == {"json_mode", "json_schema", "function_calling"}

Services ==
    [kind: {"compatible",   \* openai or github
            "fixed",        \* anthropic or google
            "ollama", "unknown"},
     base: {"default", "own",
            "space",        \* a base URL of hf.space
            "api",          \* one that ends in /api
            "invalid"},     \* one that is no http address
     key: BOOLEAN,
     method: Methods \cup {"absent", "unknown"},  \* structured_output_method
     model: BOOLEAN,        \* a model is named
     reach: {"answer", "server_error", "no_answer"},
     list: {"models", "empty", "denied", "other", "no_answer"},
     prompt: BOOLEAN,       \* a prompt is answered at the base URL
     call: BOOLEAN,         \* and at another server
     probe: [{"json_mode", "json_schema", "default"} -> BOOLEAN]]

Compatible(s) == s.kind = "compatible"
NeedsKey(s) == s.kind # "ollama"

-----------------------------------------------------------------------------
(* The calls of a run. *)

\* _resolve_effective_structured_output_method: "error" when it raises one.
EffectiveMethod(s) ==
    CASE s.method = "unknown" -> "error"
      [] s.method \in Methods -> IF Compatible(s) THEN s.method ELSE "default"
      [] OTHER -> IF Compatible(s) /\ s.base = "space" THEN "json_mode" ELSE "default"

\* What a service makes of a structured call; function calling is the default.
Answers(s, method) ==
    IF method = "function_calling" THEN s.probe["default"] ELSE s.probe[method]

\* _build_model_from_runtime_config gives the base URL to openai, github and
\* ollama only, and to ollama as it is, where the test drops a final /api.
AtBaseUrl(s) ==
    \/ Compatible(s)
    \/ s.kind = "fixed" /\ s.base = "default"
    \/ s.kind = "ollama" /\ s.base # "api"

CallWorks(s) == (NeedsKey(s) => s.key) /\ (IF AtBaseUrl(s) THEN s.prompt ELSE s.call)
StructuredCallWorks(s) == EffectiveMethod(s) # "error" /\ Answers(s, EffectiveMethod(s))

-----------------------------------------------------------------------------
(* test_model_provider *)

\* The provider and its configuration pass the static checks.
Valid(s) == s.kind # "unknown" /\ s.base # "invalid" /\ (NeedsKey(s) => s.key)

\* _check_base_url
BaseStep(s) ==
    CASE s.reach = "no_answer" -> "failed"
      [] s.reach = "server_error" -> "warning"
      [] s.reach = "answer" -> "success"

\* The statuses of api_key_valid and models_list.
ListSteps(s) ==
    CASE s.list = "no_answer" -> <<"failed", "failed">>
      [] s.list = "denied" -> <<"failed", "skipped">>
      [] s.list = "models" -> <<"success", "success">>
      [] s.list = "empty" -> <<"success", "warning">>
      [] s.list = "other" -> <<"warning", "failed">>

\* Without a model, or with a key that is known to be wrong, no prompt is sent.
Prompts(s) == s.model /\ ListSteps(s)[1] # "failed"

PromptStep(s) ==
    IF Prompts(s) THEN (IF s.prompt THEN "success" ELSE "failed") ELSE "skipped"

\* A test that never tries the configured method.
NoConfiguredStep(s) == "skipped"

\* structured_output_configured
ConfiguredStep(s) ==
    IF ~Prompts(s) \/ ~Compatible(s) THEN "skipped"
    ELSE IF StructuredCallWorks(s) THEN "success" ELSE "failed"

\* _build_structured_output_step with a method of its own: a failure is a warning.
ModeStep(s, mode) ==
    IF ~Prompts(s) \/ ~Compatible(s) THEN "skipped"
    ELSE IF s.probe[mode] THEN "success" ELSE "warning"

Report(s) ==
    IF ~Valid(s) THEN <<"failed", "skipped", "skipped", "skipped", "skipped">>
    ELSE <<"success", BaseStep(s)>> \o ListSteps(s)
         \o <<PromptStep(s), ModeStep(s, "json_mode"), ModeStep(s, "json_schema"), ConfiguredStep(s)>>

Ok(s) == \A i \in DOMAIN Report(s) : Report(s)[i] \in {"success", "skipped"}

-----------------------------------------------------------------------------
(* Properties. *)

\* A test that is passed with a model means that the plain calls of a run work,
\* if they go where the prompt of the test went: nothing follows for anthropic
\* and google with a base URL, which only the test uses.  Structured calls work
\* too when the service is one whose structured output is tried out (openai and
\* github; for the others a method that the calls turn down goes unnoticed).
\* And a provider that answers everything, both JSON modes included, passes.
VerdictIsRight ==
    \A s \in Services :
        /\ Ok(s) /\ s.model =>
               /\ AtBaseUrl(s) => CallWorks(s)
               /\ Compatible(s) => CallWorks(s) /\ StructuredCallWorks(s)
        /\ /\ Valid(s) /\ s.reach = "answer" /\ s.list = "models" /\ s.prompt
           /\ \A m \in DOMAIN s.probe : s.probe[m]
           /\ s.method # "unknown"
           => Ok(s)

=============================================================================
