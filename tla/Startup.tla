------------------------------- MODULE Startup -------------------------------
(***************************************************************************)
(* How a process starts: Config::from_env of src/config.rs, build_provider *)
(* of src/fulfillment/mod.rs and main of src/main.rs, which spawns the     *)
(* worker before it binds its port.  A restart may find another .env.      *)
(***************************************************************************)
CONSTANTS
    Required    \* variables that must be set, ADMIN_TELEGRAM_IDS apart

VARIABLES
    env,        \* the process's environment
    stage,      \* how far main is
    config,     \* what from_env has made of it
    provider,   \* the provider that was built
    worker      \* whether the worker's task runs

startVars == <<env, stage, config, provider, worker>>

-----------------------------------------------------------------------------

(* "placeholder" is a value of .env.example that was not replaced.         *)
Setting == {"unset", "blank", "placeholder", "set"}

(* ids: what stands between the commas of ADMIN_TELEGRAM_IDS.              *)
Env == [required: [Required -> Setting], ids: (SUBSET {"number", "blank", "text"}) \ {{}},
        address: {"unset", "good", "bad"},
        provider: {"unset", "manual", "fragment_connector", "other"},
        endpoint: Setting, secret: Setting]

-----------------------------------------------------------------------------
(* Bugs that the checks must notice, each a variant of a definition below. *)

(* A bug: the blank line of .env.example counts as a value.                *)
SetIfPresent(setting) == IF setting = "unset" THEN "none" ELSE setting

(* A bug: one of endpoint and secret is taken to be enough.                *)
HalfConfigured(e) ==
    e.provider = "fragment_connector" => e.endpoint \notin {"unset", "blank"} \/ e.secret \notin {"unset", "blank"}

-----------------------------------------------------------------------------
(* required() and optional().                                              *)
RequiredOK(setting) == setting = "set"
Optional(setting) == IF setting \in {"unset", "blank"} THEN "none" ELSE setting

(* Blank items are skipped, each other one must be a number, and one must  *)
(* be left.                                                                *)
AdminsOK(ids) == "text" \notin ids /\ "number" \in ids

ExternalConfigured(e) ==
    e.provider = "fragment_connector" => Optional(e.endpoint) # "none" /\ Optional(e.secret) # "none"

FromEnvOK(e) ==
    /\ \A name \in Required : RequiredOK(e.required[name])
    /\ AdminsOK(e.ids)
    /\ e.address # "bad"
    /\ e.provider # "other"
    /\ ExternalConfigured(e)

Configured(e) ==
    [provider |-> IF e.provider = "fragment_connector" THEN "external" ELSE "manual",
     endpoint |-> Optional(e.endpoint), secret |-> Optional(e.secret), admins |-> e.ids \cap {"number"}]

NoConfig == [provider |-> "none", endpoint |-> "none", secret |-> "none", admins |-> {}]

-----------------------------------------------------------------------------

StartInit ==
    /\ env \in Env
    /\ stage = "started"
    /\ config = NoConfig
    /\ provider = "none"
    /\ worker = FALSE

Ends(how) ==
    /\ stage' = how
    /\ worker' = FALSE
    /\ UNCHANGED <<env, config, provider>>

ReadConfig ==
    /\ stage = "started"
    /\ \/ /\ FromEnvOK(env)
          /\ stage' = "configured"
          /\ config' = Configured(env)
          /\ UNCHANGED <<env, provider, worker>>
       \/ ~FromEnvOK(env) /\ Ends("failed")

(* connect_and_migrate and the clients, any of which may fail.             *)
Connect ==
    /\ stage = "configured"
    /\ \/ /\ stage' = "connected"
          /\ UNCHANGED <<env, config, provider, worker>>
       \/ Ends("failed")

(* build_provider expects what an external provider needs.                 *)
BuildProvider ==
    /\ stage = "connected"
    /\ IF config.provider = "external" /\ "none" \in {config.endpoint, config.secret}
       THEN Ends("panicked")
       ELSE /\ stage' = "built"
            /\ provider' = config.provider
            /\ UNCHANGED <<env, config, worker>>

SpawnWorker ==
    /\ stage = "built"
    /\ stage' = "binding"
    /\ worker' = TRUE
    /\ UNCHANGED <<env, config, provider>>

(* The port may be taken, as by an instance that runs already.             *)
Bind ==
    /\ stage = "binding"
    /\ \/ /\ stage' = "serving"
          /\ UNCHANGED <<env, config, provider, worker>>
       \/ Ends("failed")

StartNext == ReadConfig \/ Connect \/ BuildProvider \/ SpawnWorker \/ Bind

StartSpec == StartInit /\ [][StartNext]_startVars

-----------------------------------------------------------------------------
(* Properties.                                                             *)

(* build_provider: what it expects was "validated in config"               *)
(* (src/fulfillment/mod.rs:46), whatever the environment holds.            *)
NeverPanics == stage # "panicked"

(* docs/architecture.md:18: deliveries stay manual until a connector is    *)
(* set up: it takes its name, its address and its secret, none of them the *)
(* blank lines of .env.example.                                            *)
ConnectorOnPurpose ==
    provider = "external" => /\ env.provider = "fragment_connector"
                             /\ {env.endpoint, env.secret} \subseteq {"set", "placeholder"}

(* Why: whatever the process has but its environment, it has from a        *)
(* configuration that from_env let through.                                *)
StartInv ==
    /\ env \in Env
    /\ config # NoConfig => FromEnvOK(env) /\ config = Configured(env)
    /\ stage \in {"configured", "connected", "built", "binding", "serving"} => config # NoConfig
    /\ provider # "none" => config # NoConfig /\ provider = config.provider
    /\ worker => stage \in {"binding", "serving"}
    /\ NeverPanics
===============================================================================
