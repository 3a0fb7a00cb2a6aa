------------------------------ MODULE Deployment ------------------------------
(***************************************************************************)
(* From the environment to a running brain: load_config of                 *)
(* configuration/env.py and create_app of main.py, with build_toolsets of  *)
(* business_services/toolsets and import_callable of common/loading.py.    *)
(*                                                                         *)
(* An environment is a record:                                             *)
(*   set        the required names that have a value                       *)
(*   url        whether MEMORY_SERVICE_URL has one                         *)
(*   window     MEMORY_WINDOW, Unset if it is no number                    *)
(*   toolsets   AGENT_TOOLSETS, its parts as [agent, toolset]              *)
(*   sources    TOOLSET_SOURCES, its parts as [alias, path, makes]         *)
(*   providers  LINK_PROVIDERS, its parts likewise                         *)
(* with <<>> or "" for what a part lacks.  A path is "bare" (no colon),    *)
(* "broken" (it does not lead to an object), "raises" (the object raises   *)
(* when it is called) or "works"; makes are the toolsets it returns.       *)
(***************************************************************************)
EXTENDS Naturals, SequencesExt

CONSTANT Unset

_require(env, names) == names \subseteq env.set

\* Slip: any number will do.
_int_unbounded(raw, default, minimum) == IF raw # Unset THEN raw ELSE default

_int(raw, default, minimum) ==
    IF raw # Unset /\ raw >= minimum THEN raw ELSE default

_memory_service(env) ==
    env.url => _require(env, {"MEMORY_SERVICE_CLIENT_ID", "MEMORY_SERVICE_CLIENT_SECRET",
                              "OIDC_ISSUER"})

_agent_toolsets(parts) ==
    \A part \in ToSet(parts) : part.agent # <<>> /\ part.toolset # ""

_sources(parts) ==
    \A part \in ToSet(parts) : part.alias # "" /\ part.path # "bare"

\* Does load_config return?
load_config(env) ==
    /\ _require(env, {"LLM_API_KEY", "LLM_MODEL"})
    /\ _memory_service(env)
    /\ _agent_toolsets(env.toolsets)
    /\ _sources(env.sources)
    /\ _sources(env.providers)

import_callable(part) == part.path \in {"raises", "works"}

\* The source an alias stands for: the last, if several have its name.
Builder(env, alias) ==
    LET i == SelectLastInSeq(env.sources, LAMBDA part : part.alias = alias)
    IN  IF i = 0 THEN [path |-> "none", makes |-> <<>>] ELSE env.sources[i]

load_builders(env) == \A part \in ToSet(env.sources) : import_callable(part)

\* Does build_bindings return?  Sources are looked at only if somebody is bound.
Binds(env) ==
    env.toolsets # <<>> =>
        /\ load_builders(env)
        /\ \A part \in ToSet(env.toolsets) : Builder(env, part.toolset).path = "works"

\* Slip: a second toolset of an agent replaces the first.
build_bindings_replacing(env) ==
    [agent \in {part.agent : part \in ToSet(env.toolsets)} |->
        LET i == SelectLastInSeq(env.toolsets, LAMBDA part : part.agent = agent)
        IN  Builder(env, env.toolsets[i].toolset).makes]

\* The toolsets of every agent that is named.
build_bindings(env) ==
    [agent \in {part.agent : part \in ToSet(env.toolsets)} |->
        FlattenSeq([i \in DOMAIN env.toolsets |->
            IF env.toolsets[i].agent = agent THEN Builder(env, env.toolsets[i].toolset).makes
            ELSE <<>>])]

\* Every factory is called, and must return.
_link_providers(env) == \A part \in ToSet(env.providers) : part.path = "works"

\* Does create_app return?
Starts(env) ==
    /\ load_config(env)
    /\ Binds(env)
    /\ env.url \/ env.toolsets = <<>>
    /\ _link_providers(env)

\* What is wired: whether there is a registry, a store of parked runs, a link service.
create_app(env) ==
    [config   |-> env,
     memory   |-> env.url,
     bindings |-> build_bindings(env),
     pending  |-> DOMAIN build_bindings(env) # {},
     links    |-> env.providers # <<>>,
     window   |-> _int(env.window, 15, 1)]

\* make_agent: the toolsets a warm agent runs with.
ToolsOf(app, agent) == IF agent \in DOMAIN app.bindings THEN app.bindings[agent] ELSE <<>>
=============================================================================
