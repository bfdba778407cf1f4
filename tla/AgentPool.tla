------------------------------ MODULE AgentPool ------------------------------
(***************************************************************************)
(* The agents behind the dashboard's queries: AppState.get_agent           *)
(* (ui/dashboard.py) with its cache, the lazily built graph of an agent    *)
(* (agent/agent.py), the registry of rate limit handlers                   *)
(* (agent/rate_limit_handler.py), and the settings endpoints that empty    *)
(* one or the other (ui/api_routes.py).                                    *)
(*                                                                         *)
(* Every query runs in a thread of its own.  get_agent takes no lock:      *)
(* lookup, copy of the shared configuration and store are steps of their   *)
(* own, with other queries and the event loop in between.  The gate of a   *)
(* handler is what ConcurrencyGate shows it to implement, a limit on the   *)
(* callers inside.                                                         *)
(***************************************************************************)
EXTENDS Naturals, FiniteSets

CONSTANTS
    Queries,       \* threads that run a query
    Workspaces,    \* with the scoped Meilisearch key of the requester
    Models,        \* models of one provider
    AgentIds,      \* agents alive at a time: cached ones and ones in use
    Caps,          \* [Nat -> Nat \ {0}]: the concurrency limit after each change of it
    MultiTenant,   \* an identity provider is configured
    QuietSettings, \* TRUE: no setting changes while an agent is being built
    MaxChanges,    \* bound: changes of the settings or of the default model
    MaxLimits,     \* bound: changes of the concurrency limit
    NoModel, NoAgent, NoHandler

Keys == Workspaces \X Models

ASSUME PoolAssumption ==
    /\ IsFiniteSet(Queries) /\ Workspaces # {}
    /\ Caps \in [0..MaxLimits -> Nat \ {0}]
    /\ MultiTenant \in BOOLEAN /\ QuietSettings \in BOOLEAN
    /\ MaxChanges \in Nat /\ MaxLimits \in Nat
    /\ NoModel \notin Models /\ NoAgent \notin AgentIds

Handler == [model : Models, tenant : BOOLEAN, limits : 0..MaxLimits, id : Nat]

ASSUME NoHandlerIsNone == NoHandler \notin Handler

VARIABLES
    setting,    \* version of the settings every agent depends on
    default,    \* config.model_name
    provider,   \* config.identity_provider is not None
    limitVersion, \* of the concurrency limit of this deployment's mode
    request,    \* a settings request between its two steps on the event loop
    cache,      \* AppState._agents: [Keys -> AgentIds or NoAgent]
    agents,     \* [AgentIds -> [model, tenant, setting, handler]]
    registry,   \* _shared_handlers: [Models \X BOOLEAN -> handler or NoHandler]
    built,      \* handlers built so far, which gives each its identity
    query       \* locals of each query

config   == <<setting, default, limitVersion>>
poolVars == <<config, provider, request, cache, agents, registry, built, query>>

NoConfig == [model |-> NoModel, tenant |-> FALSE, setting |-> 0, handler |-> NoHandler]

Idle == [step |-> "idle", ws |-> CHOOSE w \in Workspaces : TRUE, wanted |-> NoModel,
         model |-> NoModel, saved |-> FALSE, copy |-> NoConfig, agent |-> NoAgent,
         asked |-> 0, askedLimits |-> 0]

PoolInit ==
    /\ setting = 0
    /\ default \in Models
    /\ provider = MultiTenant
    /\ limitVersion = 0
    /\ request = "none"
    /\ cache = [k \in Keys |-> NoAgent]
    /\ agents = [a \in AgentIds |-> NoConfig]
    /\ registry = [k \in Models \X BOOLEAN |-> NoHandler]
    /\ built = 0
    /\ query = [q \in Queries |-> Idle]

Building == {"save", "hide", "copy", "restore", "store"}

-----------------------------------------------------------------------------
(* The settings endpoints: the event loop writes the new value, then drops *)
(* what was built from the old one, and serves nobody in between.          *)

MayChange ==
    /\ request = "none"
    /\ QuietSettings => \A q \in Queries : query[q].step \notin Building

\* Semantic, reranking and advanced settings and API keys.
ChangeSetting ==
    /\ MayChange
    /\ setting < MaxChanges
    /\ setting' = setting + 1
    /\ request' = "invalidate"
    /\ UNCHANGED <<default, limitVersion, provider, cache, agents, registry, built, query>>

\* PATCH /config with global.model; it changes what a query without a model
\* of its own asks for, so the settings have a new version too.
ChangeDefault(m) ==
    /\ MayChange
    /\ setting < MaxChanges /\ m # default
    /\ setting' = setting + 1
    /\ default' = m
    /\ request' = "invalidate"
    /\ UNCHANGED <<limitVersion, provider, cache, agents, registry, built, query>>

\* Mutant: only the agents of the default model are dropped.
Invalidate_DefaultOnly ==
    /\ request = "invalidate"
    /\ cache' = [k \in Keys |-> IF k[2] = default THEN NoAgent ELSE cache[k]]
    /\ request' = "none"
    /\ UNCHANGED <<config, provider, agents, registry, built, query>>

\* invalidate_agents.
Invalidate ==
    /\ request = "invalidate"
    /\ cache' = [k \in Keys |-> NoAgent]
    /\ request' = "none"
    /\ UNCHANGED <<config, provider, agents, registry, built, query>>

\* POST and DELETE of a concurrency limit or quota.  The mode whose limit is
\* written is taken from the configuration; a write to the other mode's limits
\* changes nothing here.
SetLimit ==
    /\ request = "none"
    /\ limitVersion < MaxLimits
    /\ limitVersion' = IF provider = MultiTenant THEN limitVersion + 1 ELSE limitVersion
    /\ request' = "reset"
    /\ UNCHANGED <<setting, default, provider, cache, agents, registry, built, query>>

\* reset_shared_rate_limit_handlers; the cached agents stay.
ResetHandlers ==
    /\ request = "reset"
    /\ registry' = [k \in Models \X BOOLEAN |-> NoHandler]
    /\ request' = "none"
    /\ UNCHANGED <<config, provider, cache, agents, built, query>>

-----------------------------------------------------------------------------
(* get_agent, in the thread of the query. *)

Local(q, new) == query' = [query EXCEPT ![q] = new]

\* POST /query, on the event loop: the thread starts.  wanted is the model
\* named in the request, or none.
StartQuery(q, w, wanted) ==
    /\ request = "none"
    /\ query[q].step = "idle"
    /\ Local(q, [Idle EXCEPT !.step = "lookup", !.ws = w, !.wanted = wanted,
                             !.asked = setting, !.askedLimits = limitVersion])
    /\ UNCHANGED <<config, provider, request, cache, agents, registry, built>>

Effective(q) == IF query[q].wanted = NoModel THEN default ELSE query[q].wanted

\* Mutant: one slot per workspace, as before models could be chosen.
SlotOf_WorkspaceOnly(w, m) == <<w, CHOOSE n \in Models : TRUE>>

SlotOf(w, m) == <<w, m>>

\* get_agent returns, and its locals are gone.
Got(q, a) == [query[q] EXCEPT !.step = "graph", !.wanted = NoModel, !.model = Effective(q),
                              !.saved = FALSE, !.copy = NoConfig, !.agent = a]

Lookup(q) ==
    LET cached == cache[SlotOf(query[q].ws, Effective(q))] IN
    /\ query[q].step = "lookup"
    /\ Local(q, IF cached = NoAgent
                  THEN [query[q] EXCEPT !.step = "save", !.model = Effective(q)]
                  ELSE Got(q, cached))
    /\ UNCHANGED <<config, provider, request, cache, agents, registry, built>>

\* _config_for_workspace takes the identity provider off the shared
\* configuration while it copies it, and puts it back.
SaveProvider(q) ==
    /\ query[q].step = "save"
    /\ Local(q, [query[q] EXCEPT !.step = "hide", !.saved = provider])
    /\ UNCHANGED <<config, provider, request, cache, agents, registry, built>>

HideProvider(q) ==
    /\ query[q].step = "hide"
    /\ provider' = FALSE
    /\ Local(q, [query[q] EXCEPT !.step = "copy"])
    /\ UNCHANGED <<config, request, cache, agents, registry, built>>

\* asdict, with the model of the request over the default.
CopyConfig(q) ==
    /\ query[q].step = "copy"
    /\ Local(q, [query[q] EXCEPT !.step = "restore",
                    !.copy = [model |-> Effective(q), tenant |-> query[q].saved,
                              setting |-> setting, handler |-> NoHandler]])
    /\ UNCHANGED <<config, provider, request, cache, agents, registry, built>>

RestoreProvider(q) ==
    /\ query[q].step = "restore"
    /\ provider' = query[q].saved
    /\ Local(q, [query[q] EXCEPT !.step = "store"])
    /\ UNCHANGED <<config, request, cache, agents, registry, built>>

\* An agent nobody refers to is gone, and its id is free.
InUse == {cache[k] : k \in Keys} \cup {query[q].agent : q \in Queries}

\* The agent goes into the cache, over the one another thread may have stored.
StoreAgent(q) ==
    /\ query[q].step = "store"
    /\ AgentIds \ InUse # {}
    /\ LET a == CHOOSE a \in AgentIds \ InUse : TRUE IN
       /\ agents' = [b \in AgentIds |->
                       IF b = a THEN query[q].copy ELSE IF b \in InUse THEN agents[b] ELSE NoConfig]
       /\ cache' = [cache EXCEPT ![SlotOf(query[q].ws, query[q].model)] = a]
       /\ Local(q, [Got(q, a) EXCEPT !.model = query[q].model])
    /\ UNCHANGED <<config, provider, request, registry, built>>

-----------------------------------------------------------------------------
(* The agent's graph, its handler, and the calls through the gate. *)

\* Mutant: every agent builds a handler of its own.
SharedHandler_OwnEach(m, tenant) ==
    [model |-> m, tenant |-> tenant, limits |-> limitVersion, id |-> built + 1]

\* get_shared_rate_limit_handler, under the lock of the registry.
SharedHandler(m, tenant) ==
    IF registry[<<m, tenant>>] # NoHandler
      THEN registry[<<m, tenant>>]
      ELSE [model |-> m, tenant |-> tenant, limits |-> limitVersion, id |-> built + 1]

\* _get_graph, under the lock of the agent: the handler stays with the graph.
GetGraph(q) ==
    LET a == query[q].agent
        h == SharedHandler(agents[a].model, agents[a].tenant)
    IN
    /\ query[q].step = "graph"
    /\ IF agents[a].handler = NoHandler
         THEN /\ agents' = [agents EXCEPT ![a].handler = h]
              /\ registry' = [registry EXCEPT ![<<h.model, h.tenant>>] = h]
              /\ built' = IF h.id > built THEN h.id ELSE built
         ELSE UNCHANGED <<agents, registry, built>>
    /\ Local(q, [query[q] EXCEPT !.step = "enter"])
    /\ UNCHANGED <<config, provider, request, cache>>

HandlerOf(q) == agents[query[q].agent].handler

Calling == {q \in Queries : query[q].step = "call"}

\* A handler of the other mode has that mode's limit, which is not set.
EnterGate(q) ==
    /\ query[q].step = "enter"
    /\ HandlerOf(q).tenant = MultiTenant =>
         Cardinality({p \in Calling : HandlerOf(p) = HandlerOf(q)}) < Caps[HandlerOf(q).limits]
    /\ Local(q, [query[q] EXCEPT !.step = "call"])
    /\ UNCHANGED <<config, provider, request, cache, agents, registry, built>>

\* The call is over: the agent calls again, or the query ends.
LeaveGate(q) ==
    /\ query[q].step = "call"
    /\ \/ Local(q, [query[q] EXCEPT !.step = "enter"])
       \/ Local(q, Idle)
    /\ UNCHANGED <<config, provider, request, cache, agents, registry, built>>

-----------------------------------------------------------------------------

GetAgent(q) ==
    \/ Lookup(q) \/ SaveProvider(q) \/ HideProvider(q) \/ CopyConfig(q)
    \/ RestoreProvider(q) \/ StoreAgent(q)

Settings ==
    \/ ChangeSetting \/ (\E m \in Models : ChangeDefault(m)) \/ Invalidate
    \/ SetLimit \/ ResetHandlers

PoolNext ==
    \/ Settings
    \/ \E q \in Queries :
         \/ \E w \in Workspaces, m \in Models \cup {NoModel} : StartQuery(q, w, m)
         \/ GetAgent(q) \/ GetGraph(q) \/ EnterGate(q) \/ LeaveGate(q)

PoolSpec == PoolInit /\ [][PoolNext]_poolVars

-----------------------------------------------------------------------------
(* Properties. *)

Agent == [model : Models \cup {NoModel}, tenant : BOOLEAN, setting : 0..MaxChanges,
          handler : Handler \cup {NoHandler}]

Query == [step : Building \cup {"idle", "lookup", "graph", "enter", "call"},
          ws : Workspaces, wanted : Models \cup {NoModel}, model : Models \cup {NoModel},
          saved : BOOLEAN, copy : Agent, agent : AgentIds \cup {NoAgent},
          asked : 0..MaxChanges, askedLimits : 0..MaxLimits]

\* Every variable stays in its type, a query that is past get_agent has an
\* agent, and one that is past the graph a handler.
PoolTypeOK ==
    /\ setting \in 0..MaxChanges
    /\ default \in Models
    /\ provider \in BOOLEAN
    /\ limitVersion \in 0..MaxLimits
    /\ request \in {"none", "invalidate", "reset"}
    /\ cache \in [Keys -> AgentIds \cup {NoAgent}]
    /\ agents \in [AgentIds -> Agent]
    /\ registry \in [Models \X BOOLEAN -> Handler \cup {NoHandler}]
    /\ built \in Nat
    /\ query \in [Queries -> Query]
    /\ \A q \in Queries :
         /\ query[q].agent # NoAgent <=> query[q].step \in {"graph", "enter", "call"}
         /\ query[q].step \in {"enter", "call"} => HandlerOf(q) \in Handler

\* The concurrency limit holds for a model across all agents, also when two
\* threads built two agents for one slot, or when settings changed and new
\* agents stand beside old ones that are still in use.
CapPerModel ==
    limitVersion = 0 /\ ~MultiTenant =>
        \A m \in Models :
            Cardinality({q \in Calling : agents[query[q].agent].model = m}) <= Caps[0]

\* A query runs with settings at least as new as the ones in force when it
\* was made.
NoStaleAgent ==
    \A q \in Queries :
        query[q].agent # NoAgent => agents[query[q].agent].setting >= query[q].asked

\* A query runs on the model it asked for, or on the one that was the default
\* when it looked for its agent.
RightModel ==
    \A q \in Queries :
        query[q].agent # NoAgent => agents[query[q].agent].model = query[q].model

\* "so updated limits take effect immediately": a call of a query made after
\* the new limit was set goes through a handler with that limit.
LimitsTakeEffect ==
    \A q \in Calling : HandlerOf(q).limits >= query[q].askedLimits

\* The identity provider is "shared across per-workspace configs": no agent is
\* without it in a deployment that has one.
IdentityProviderShared ==
    \A q \in Queries :
        query[q].agent # NoAgent => agents[query[q].agent].tenant = MultiTenant
=============================================================================
