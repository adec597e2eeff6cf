----------------------------- MODULE Configuration -----------------------------
(***************************************************************************)
(* The file .harmony/config.toml (crates/harmony-core/src/config.rs). The  *)
(* default of a setting is written down three times: in the Default of its *)
(* section, for a section that is missing; in the default function of its  *)
(* field, for a field that is missing; and in the template of the file     *)
(* that the first start writes.                                            *)
(***************************************************************************)
EXTENDS Naturals

NoAddress == <<"none", 0>>   \* no host_url, and no other optional text

Sections ==
  [ general |-> {"session_id", "overlap_window_minutes", "max_recent_tags"},
    human |-> {"username", "actor_id"},
    network |-> {"mode", "mcp_port", "ipc_port", "web_port", "host_url",
                 "auto_sync", "sync_interval_seconds", "max_sync_file_bytes"},
    analysis |-> {"treesitter_enabled", "lsp_mode", "sandbox_mode",
                  "sandbox_timeout_seconds"},
    memory |-> {"embedding_model", "model_cache_dir", "max_records_in_memory"},
    negotiation |-> {"negotiation_backend", "api_key", "model", "base_url"},
    agents |-> {"registry"},
    ui |-> {"ghost_add_color", "ghost_remove_color",
            "notification_duration_seconds"} ]
Keys == UNION {Sections[s] : s \in DOMAIN Sections}

(* "user" stands for the name of the account, "drawn" for a session id     *)
(* that is drawn anew, "written" for one that is in the file.              *)
Default ==
  [ session_id |-> "drawn", overlap_window_minutes |-> 30, max_recent_tags |-> 500,
    username |-> "user", actor_id |-> "human:user",
    mode |-> "host", mcp_port |-> 4231, ipc_port |-> 4232, web_port |-> 4233,
    host_url |-> NoAddress, auto_sync |-> TRUE, sync_interval_seconds |-> 3,
    max_sync_file_bytes |-> 1024 * 1024,
    treesitter_enabled |-> TRUE, lsp_mode |-> "auto",
    sandbox_mode |-> "complex_only", sandbox_timeout_seconds |-> 60,
    embedding_model |-> "bge-small-en-v1.5", model_cache_dir |-> "",
    max_records_in_memory |-> 10000,
    negotiation_backend |-> "agent", api_key |-> NoAddress, model |-> NoAddress,
    base_url |-> NoAddress,
    registry |-> {<<"opencode", 4231>>, <<"gemini-cli", 4232>>},
    ghost_add_color |-> "#7ee8a280", ghost_remove_color |-> "#f0606060",
    notification_duration_seconds |-> 8 ]

(* The functions default_...; a #[serde(default)] without one is empty.    *)
FieldDefault ==
  [ session_id |-> "drawn", overlap_window_minutes |-> 30, max_recent_tags |-> 500,
    username |-> "developer", actor_id |-> "human:developer",
    mode |-> "host", mcp_port |-> 4231, ipc_port |-> 4232, web_port |-> 4233,
    host_url |-> NoAddress, auto_sync |-> TRUE, sync_interval_seconds |-> 3,
    max_sync_file_bytes |-> 1024 * 1024,
    treesitter_enabled |-> TRUE, lsp_mode |-> "auto",
    sandbox_mode |-> "complex_only", sandbox_timeout_seconds |-> 60,
    embedding_model |-> "bge-small-en-v1.5", model_cache_dir |-> "",
    max_records_in_memory |-> 10000,
    negotiation_backend |-> "agent", api_key |-> NoAddress, model |-> NoAddress,
    base_url |-> NoAddress, registry |-> {},
    ghost_add_color |-> "#7ee8a280", ghost_remove_color |-> "#f0606060",
    notification_duration_seconds |-> 8 ]

(* Variant: the template moves the dashboard. *)
TemplateOtherPort ==
  [session_id |-> "written", username |-> "user", actor_id |-> "human:user",
   web_port |-> 8080]

(* The lines of the template that are no comments.                         *)
Template ==
  [ session_id |-> "written", overlap_window_minutes |-> 30, max_recent_tags |-> 500,
    username |-> "user", actor_id |-> "human:user",
    mode |-> "host", mcp_port |-> 4231, ipc_port |-> 4232, web_port |-> 4233,
    auto_sync |-> TRUE, sync_interval_seconds |-> 3, max_sync_file_bytes |-> 1048576,
    treesitter_enabled |-> TRUE, lsp_mode |-> "auto",
    sandbox_mode |-> "complex_only", sandbox_timeout_seconds |-> 60,
    embedding_model |-> "bge-small-en-v1.5", model_cache_dir |-> "",
    max_records_in_memory |-> 10000, negotiation_backend |-> "agent",
    registry |-> {<<"opencode", 4231>>, <<"gemini-cli", 4232>>},
    ghost_add_color |-> "#7ee8a280", ghost_remove_color |-> "#f0606060",
    notification_duration_seconds |-> 8 ]

-----------------------------------------------------------------------------
(* What is at the path: nothing, a text that does not parse, or settings.  *)
Missing == [form |-> "missing"]
Broken == [form |-> "broken"]
Settings(sections, keys) ==
  [form |-> "settings", sections |-> sections, keys |-> keys]
TemplateFile == Settings(DOMAIN Sections, Template)

SectionOf(key) == CHOOSE s \in DOMAIN Sections : key \in Sections[s]

(* load_from_path, as bootstrap_project uses it: the defaults also when    *)
(* the text does not parse, with a warning.                                *)
Loaded(file) ==
  IF file.form # "settings" THEN Default
  ELSE [key \in Keys |->
         IF key \in DOMAIN file.keys THEN file.keys[key]
         ELSE IF SectionOf(key) \in file.sections THEN FieldDefault[key]
                                                  ELSE Default[key]]

(* And what is at the path then.                                           *)
AfterLoading(file) == IF file = Missing THEN TemplateFile ELSE file

=============================================================================
