------------------------------- MODULE Settings -------------------------------
(*****************************************************************************)
(* The settings files of core/key_manager.py and who reads and writes them:  *)
(* the dashboard (ui/api_routes.py, ui/dashboard.py), a program that uses    *)
(* the framework (core/framework.py) and the command line (cli/commands.py). *)
(*                                                                           *)
(* Every change reads a JSON file, changes the copy and writes the file      *)
(* again, without a lock: `open(path, "w")` empties it, json.dump fills it.  *)
(* A reader that finds an empty or cut file takes the defaults.  The         *)
(* dashboard also keeps a configuration in memory, which its endpoints       *)
(* change beside the file, and agents that were built from it.               *)
(*                                                                           *)
(* A file is a set of entries with small numbers for values; 0 is "not in    *)
(* the file" or the default, which no reader tells apart.                    *)
(*****************************************************************************)
EXTENDS Integers, FiniteSets

CONSTANTS
    Providers,       \* providers that need a key
    StartProvider,   \* --provider of the dashboard
    LimitProviders,  \* providers with entries in rate_limits.json
    Modes,           \* its namespaces: single_user, multi_tenant
    MaxValue,        \* bound: values of an entry
    MaxSaves,        \* bound: operations that may write a file
    MaxRestarts,     \* bound: processes that are killed and started again
    None

ASSUME SettingsAssumption ==
    /\ StartProvider \in Providers
    /\ MaxValue \in Nat \ {0}
    /\ MaxSaves \in Nat /\ MaxRestarts \in Nat
    /\ None \notin Providers
    /\ "langsmith" \notin Providers   \* its key is kept beside theirs

Value == 0..MaxValue
Switch == {0, 1}

Dashboard == "dashboard"
Framework == "framework"
CLI == "cli"
Processes == {Dashboard, Framework, CLI}
Services == {Dashboard, Framework}

Key(p) == <<"keys", p>>
LangSmith == <<"keys", "langsmith">>
Model(p) == <<"models", p>>
Flags == <<"settings", "flags">>       \* enable_semantic, enable_query_expansion
Semantic == <<"settings", "semantic">> \* semantic_provider, semantic_model
Watch == <<"settings", "watch">>
Rerank == <<"settings", "rerank">>
DbPath == <<"settings", "db_path">>
Chunking == <<"advanced", "chunking">>
Retrieval == <<"advanced", "retrieval">>
Concurrency(m, p) == <<"rate_limits", m, "concurrency", p>>
Quota(m, p) == <<"rate_limits", m, "quota", p>>

Entries ==
    {Key(p) : p \in Providers} \cup {LangSmith} \cup {Model(p) : p \in Providers}
    \cup {Flags, Semantic, Watch, Rerank, DbPath, Chunking, Retrieval}
    \cup {Concurrency(m, p) : m \in Modes, p \in LimitProviders}
    \cup {Quota(m, p) : m \in Modes, p \in LimitProviders}

FileOf(e) == e[1]
Files == {FileOf(e) : e \in Entries}
EntriesOf(f) == {e \in Entries : FileOf(e) = f}

VARIABLES
    content,    \* what each entry says in the last complete version of its file
    torn,       \* files that were emptied and not filled
    proc,       \* the operation each process is in
    config,     \* SearchAgentConfig of the dashboard and of the framework
    uiProvider, \* "global.provider" in the table ui_config of each database
    agents,     \* keys of the dashboard's cached agents, per provider
    saves,      \* operations so far
    restarts,
    acked,      \* history: what each entry was last saved as
    excused,    \* history: entries whose last save overlapped another or was cut
    replaced,   \* history: entries a semantic save removed from settings.json
    foreign     \* history: files others saved since the dashboard started

disk == <<content, torn>>
memory == <<config, uiProvider, agents>>
history == <<acked, excused, replaced, foreign>>
vars == <<disk, proc, memory, saves, restarts, history>>

-----------------------------------------------------------------------------
(* Reading. *)

\* A new installation offers the models of one provider.
Default(e) == IF e = Model(StartProvider) THEN 1 ELSE 0

\* _load, _load_models, _load_settings, _load_advanced, _load_rate_limits_file:
\* a file that is not there or does not parse reads as the defaults.
Read(e) == IF FileOf(e) \in torn THEN Default(e) ELSE content[e]
LoadFile(f) == [e \in EntriesOf(f) |-> Read(e)]

\* The saved key of a provider; keys in the environment are left out.
ResolveKey(p) == IF Read(Key(p)) = 0 THEN None ELSE <<p, Read(Key(p))>>

EffectiveConstants(e) == Read(e)

\* Settings that still have the default are read from the file, and the key
\* is looked up when there is none.
PostInit(c) ==
    [c EXCEPT
        !.apiKey = IF @ = None THEN ResolveKey(c.provider) ELSE @,
        !.flags = IF @ = 0 THEN Read(Flags) ELSE @,
        !.semantic = IF c.flags = 0 /\ @ = 0 THEN Read(Semantic) ELSE @,
        !.watch = IF @ = 0 THEN Read(Watch) ELSE @,
        !.rerank = IF @ = 0 THEN Read(Rerank) ELSE @]

\* SearchAgentConfig(...) of a process that starts on the database db.
NewConfig(db) ==
    PostInit([provider |-> StartProvider, apiKey |-> None, flags |-> 0,
              semantic |-> 0, watch |-> 0, rerank |-> 0, tracing |-> 0,
              retrieval |-> EffectiveConstants(Retrieval), db |-> db])

\* run() of the dashboard: the saved database, then the provider saved there.
StartDashboard ==
    LET db == Read(DbPath)
        c == NewConfig(db)
    IN PostInit(IF uiProvider[db] = None THEN c
                ELSE [c EXCEPT !.provider = uiProvider[db]])

\* SearchAgentFramework.__init__ on the default database.
StartFramework == [NewConfig(0) EXCEPT !.tracing = Read(LangSmith)]

-----------------------------------------------------------------------------
(* What a change writes: `write` on top of the entries of `keep`, the rest *)
(* of the file goes; a `lazy` change writes nothing when the file already  *)
(* says so.                                                                *)

One(e, v) == [x \in {e} |-> v]
Two(e, v, f, w) == [x \in {e, f} |-> IF x = e THEN v ELSE w]

\* dict.update: the entries of `new`, and those of `old` that it leaves.
Updated(old, new) ==
    [e \in DOMAIN old \cup DOMAIN new |-> IF e \in DOMAIN new THEN new[e] ELSE old[e]]

Change(e, v) ==
    [file |-> FileOf(e), write |-> One(e, v), keep |-> EntriesOf(FileOf(e)), lazy |-> FALSE]
Removal(e) == [Change(e, 0) EXCEPT !.lazy = TRUE]

SetKey(p, key) == Change(Key(p), key)
DeleteKey(p) == Removal(Key(p))

SetLangsmith(key) == Change(LangSmith, key)
DeleteLangsmith == Removal(LangSmith)

AddModel(p) == [Change(Model(p), 1) EXCEPT !.lazy = TRUE]
DeleteModel(p) == Removal(Model(p))

\* The whole file is written with the four semantic settings.
SetAllSemantic(flags, semantic) ==
    [Change(Flags, flags) EXCEPT
        !.write = Two(Flags, flags, Semantic, semantic),
        !.keep = {}]

\* Mutant: the watch-mode settings are written the same way.
SetAllWatchMode_Alone(v) == [Change(Watch, v) EXCEPT !.keep = {}]

SetAllWatchMode(v) == Change(Watch, v)
SetAllReranking(v) == Change(Rerank, v)
SetSavedDbPath(v) == Change(DbPath, v)

Bad == MaxValue + 1

\* A value that is not a number is dropped; the file is written as a whole.
SetAdvanced(overrides) ==
    [file |-> "advanced", keep |-> {}, lazy |-> FALSE,
     write |-> [e \in {Chunking, Retrieval} |->
                    IF overrides[e] = Bad THEN 0 ELSE overrides[e]]]

SetConcurrencyLimit(p, limit, m) == Change(Concurrency(m, p), limit)
DeleteConcurrencyLimit(p, m) == Removal(Concurrency(m, p))
SetQuotaOverride(p, v, m) == Change(Quota(m, p), v)
DeleteQuotaOverride(p, m) == Removal(Quota(m, p))

-----------------------------------------------------------------------------
(* One change, step by step. *)

Idle == [pc |-> "idle"]

\* Somebody else is between his read and his write of the file.
Others(p) == {q \in Processes \ {p} : proc[q].pc # "idle"}
Overlaps(p, f) == \E q \in Others(p) : proc[q].change.file = f

\* `done` is what the caller does after the save.
Begin(p, change, done) ==
    /\ proc[p] = Idle /\ saves < MaxSaves
    /\ saves' = saves + 1
    /\ proc' = [proc EXCEPT ![p] =
                  [pc |-> IF change.keep = {} THEN "open" ELSE "load",
                   change |-> change, copy |-> <<>>, done |-> done]]
    /\ excused' = IF Overlaps(p, change.file)
                    THEN excused \cup EntriesOf(change.file) ELSE excused
    /\ foreign' = IF p = Dashboard THEN foreign ELSE foreign \cup {change.file}
    /\ UNCHANGED <<disk, restarts, acked, replaced>>

\* An operation that changes nothing in the process before it saves.
Save(p, change) == Begin(p, change, "nothing") /\ UNCHANGED memory

Advance(p, pc) == proc' = [proc EXCEPT ![p].pc = pc]

Load(p) ==
    /\ proc[p].pc = "load"
    /\ LET op == proc[p].change
           loaded == LoadFile(op.file)
           unchanged == op.lazy /\ \A e \in DOMAIN op.write : loaded[e] = op.write[e]
       IN proc' = [proc EXCEPT ![p].pc = IF unchanged THEN "done" ELSE "open",
                               ![p].copy = [e \in op.keep |-> loaded[e]],
                               ![p].done = IF unchanged /\ @ = "tracing"
                                             THEN "nothing" ELSE @]
    /\ UNCHANGED <<disk, memory, saves, restarts, history>>

Truncate(p) ==
    /\ proc[p].pc = "open"
    /\ torn' = torn \cup {proc[p].change.file}
    /\ Advance(p, "dump")
    /\ UNCHANGED <<content, memory, saves, restarts, history>>

Dump(p) ==
    /\ proc[p].pc = "dump"
    /\ LET op == proc[p].change
           new == Updated(proc[p].copy, op.write)
           gone == EntriesOf(op.file) \ DOMAIN new
       IN /\ content' = [e \in Entries |->
                            IF e \in DOMAIN new THEN new[e]
                            ELSE IF e \in gone THEN 0 ELSE content[e]]
          /\ torn' = torn \ {op.file}
          /\ acked' = Updated(acked, op.write)
          /\ replaced' = (replaced \ DOMAIN op.write)
                            \cup (IF {Flags, Semantic} \cap DOMAIN op.write = {} THEN {} ELSE gone)
          /\ excused' = IF Overlaps(p, op.file) THEN excused
                        ELSE excused \ DOMAIN op.write
    /\ Advance(p, "done")
    /\ UNCHANGED <<memory, saves, restarts, foreign>>

NoAgents == [p \in Providers |-> None]

\* A key endpoint refreshes the configuration if the provider is active.
AfterKeyChange(op) ==
    IF Key(config[Dashboard].provider) \notin DOMAIN op.write THEN UNCHANGED memory
    ELSE LET p == config[Dashboard].provider IN
         /\ config' = [config EXCEPT ![Dashboard].apiKey =
                         IF op.lazy THEN None ELSE <<p, op.write[Key(p)]>>]
         /\ agents' = NoAgents
         /\ UNCHANGED uiProvider

AfterAdvanced ==
    /\ config' = [config EXCEPT ![Dashboard].retrieval = EffectiveConstants(Retrieval)]
    /\ agents' = NoAgents
    /\ UNCHANGED uiProvider

\* apply_langsmith_env leaves the environment alone when no key is saved; the
\* deletion clears it.
AfterLangsmith(op) ==
    /\ config' = [config EXCEPT ![Dashboard].tracing =
                    IF op.lazy THEN 0
                    ELSE IF Read(LangSmith) = 0 THEN @ ELSE Read(LangSmith)]
    /\ UNCHANGED <<uiProvider, agents>>

\* What the caller does when the save has returned.
Finish(p) ==
    /\ proc[p].pc = "done"
    /\ \/ proc[p].done = "nothing" /\ UNCHANGED memory
       \/ proc[p].done = "key" /\ AfterKeyChange(proc[p].change)
       \/ proc[p].done = "retrieval" /\ AfterAdvanced
       \/ proc[p].done = "tracing" /\ AfterLangsmith(proc[p].change)
    /\ proc' = [proc EXCEPT ![p] = Idle]
    /\ UNCHANGED <<disk, saves, restarts, history>>

-----------------------------------------------------------------------------
(* The dashboard. *)

\* Mutant: agents of the provider that becomes active stay.
PatchConfig_KeepsAgents(p) ==
    /\ proc[Dashboard] = Idle
    /\ uiProvider' = [uiProvider EXCEPT ![config[Dashboard].db] = p]
    /\ config' = [config EXCEPT ![Dashboard] =
                    PostInit([@ EXCEPT !.provider = p, !.apiKey = None])]
    /\ UNCHANGED <<disk, proc, agents, saves, restarts, history>>

\* PATCH /config with "global.provider"; with "global.model" only the agents go.
PatchConfig(p) ==
    /\ proc[Dashboard] = Idle
    /\ uiProvider' = [uiProvider EXCEPT ![config[Dashboard].db] = p]
    /\ config' = [config EXCEPT ![Dashboard] =
                    PostInit([@ EXCEPT !.provider = p, !.apiKey = None])]
    /\ agents' = NoAgents
    /\ UNCHANGED <<disk, proc, saves, restarts, history>>

PostKey(p, key) == Begin(Dashboard, SetKey(p, key), "key") /\ UNCHANGED memory
DeleteKeyRoute(p) == Begin(Dashboard, DeleteKey(p), "key") /\ UNCHANGED memory

LangsmithRoutes ==
    /\ \/ Begin(Dashboard, SetLangsmith(1), "tracing")
       \/ Begin(Dashboard, DeleteLangsmith, "tracing")
    /\ UNCHANGED memory

ModelRoutes(p) == Save(Dashboard, AddModel(p)) \/ Save(Dashboard, DeleteModel(p))

RateLimitRoutes(p, m) ==
    \/ Save(Dashboard, SetConcurrencyLimit(p, 1, m))
    \/ Save(Dashboard, SetQuotaOverride(p, 1, m))
    \/ Save(Dashboard, DeleteConcurrencyLimit(p, m))
    \/ Save(Dashboard, DeleteQuotaOverride(p, m))

SetSemanticRoute(flags, semantic) ==
    /\ Begin(Dashboard, SetAllSemantic(flags, semantic), "nothing")
    /\ config' = [config EXCEPT ![Dashboard].flags = flags, ![Dashboard].semantic = semantic]
    /\ agents' = NoAgents
    /\ UNCHANGED uiProvider

\* Mutant: the endpoint changes the file only.
SetRerankingRoute_FileOnly(v) == Save(Dashboard, SetAllReranking(v))

SetRerankingRoute(v) ==
    /\ Begin(Dashboard, SetAllReranking(v), "nothing")
    /\ config' = [config EXCEPT ![Dashboard].rerank = v]
    /\ agents' = NoAgents
    /\ UNCHANGED uiProvider

SetWatchModeRoute(v) ==
    /\ Begin(Dashboard, SetAllWatchMode(v), "nothing")
    /\ config' = [config EXCEPT ![Dashboard].watch = v]
    /\ UNCHANGED <<uiProvider, agents>>

\* POST /settings/advanced replaces all overrides, DELETE removes them.
SetAdvancedRoute(chunking, retrieval) ==
    /\ Begin(Dashboard, SetAdvanced(Two(Chunking, chunking, Retrieval, retrieval)), "retrieval")
    /\ UNCHANGED memory

\* POST /restart and the bridge save the path; the process is killed later,
\* maybe in the middle of another save.
RestartWithDb(v) == Save(Dashboard, SetSavedDbPath(v))

\* Mutant: the agent takes the key of the shared configuration.
AgentKey_Shared(p) ==
    IF config[Dashboard].apiKey # None THEN config[Dashboard].apiKey ELSE ResolveKey(p)

\* _config_for_workspace looks the key up for the provider of the query.
AgentKey(p) == ResolveKey(p)

\* A query with or without a provider of its own; without a key there is an
\* error and no agent.  (Agents that are built while a setting changes are in
\* AgentPool.)
Ask(p) ==
    /\ agents[p] = None
    /\ agents' = [agents EXCEPT ![p] = AgentKey(p)]
    /\ UNCHANGED <<disk, proc, config, uiProvider, saves, restarts, history>>

-----------------------------------------------------------------------------
(* A program that uses the framework, and the command line. *)

\* The setter has no parameters for provider and model, so they become empty.
FrameworkSetSemantic(flags) ==
    /\ Begin(Framework, SetAllSemantic(flags, 0), "nothing")
    /\ config' = [config EXCEPT ![Framework].flags = flags]
    /\ UNCHANGED <<uiProvider, agents>>

FrameworkSetWatchMode(v) ==
    /\ Begin(Framework, SetAllWatchMode(v), "nothing")
    /\ config' = [config EXCEPT ![Framework].watch = v]
    /\ UNCHANGED <<uiProvider, agents>>

FrameworkSetAdvanced(chunking, retrieval) ==
    Save(Framework, SetAdvanced(Two(Chunking, chunking, Retrieval, retrieval)))

FrameworkLimits(p, m) ==
    \/ Save(Framework, SetConcurrencyLimit(p, 1, m))
    \/ Save(Framework, SetQuotaOverride(p, 1, m))
    \/ Save(Framework, DeleteConcurrencyLimit(p, m))
    \/ Save(Framework, DeleteQuotaOverride(p, m))

CLIKeysAndModels(p) ==
    \/ \E key \in Value \ {0} : Save(CLI, SetKey(p, key))
    \/ Save(CLI, DeleteKey(p))
    \/ Save(CLI, AddModel(p)) \/ Save(CLI, DeleteModel(p))

\* Reads the four semantic settings, changes the given ones, writes the four.
CLISetSemantic ==
    \E e \in {Flags, Semantic}, v \in Switch :
        Save(CLI, [Change(e, v) EXCEPT !.keep = {Flags, Semantic}])

\* `--reset`, or one key changed in a copy of the overrides.
CLISetAdvanced ==
    \/ Save(CLI, SetAdvanced(Two(Chunking, 0, Retrieval, 0)))
    \/ \E e \in {Chunking, Retrieval}, v \in {1, Bad} :
           Save(CLI, Change(e, IF v = Bad THEN 0 ELSE v))

CLILimits(p, m) ==
    \/ Save(CLI, SetConcurrencyLimit(p, 1, m))
    \/ Save(CLI, SetQuotaOverride(p, 1, m))
    \/ Save(CLI, DeleteConcurrencyLimit(p, m))
    \/ Save(CLI, DeleteQuotaOverride(p, m))

-----------------------------------------------------------------------------

\* The process is killed at any moment, and a service starts again.
Restart(p) ==
    /\ restarts < MaxRestarts
    /\ restarts' = restarts + 1
    /\ proc' = [proc EXCEPT ![p] = Idle]
    /\ excused' = IF proc[p].pc = "dump"
                    THEN excused \cup EntriesOf(proc[p].change.file) ELSE excused
    /\ \/ /\ p = Dashboard
          /\ config' = [config EXCEPT ![p] = StartDashboard]
          /\ agents' = NoAgents
          /\ foreign' = {proc[q].change.file : q \in Others(p)}
       \/ /\ p = Framework
          /\ config' = [config EXCEPT ![p] = StartFramework]
          /\ UNCHANGED <<agents, foreign>>
       \/ /\ p = CLI
          /\ UNCHANGED <<config, agents, foreign>>
    /\ UNCHANGED <<disk, uiProvider, saves, acked, replaced>>

Init ==
    /\ content = [e \in Entries |-> Default(e)]
    /\ torn = {}
    /\ proc = [p \in Processes |-> Idle]
    /\ uiProvider = [db \in Value |-> None]
    /\ config = [p \in Services |->
                    IF p = Dashboard THEN StartDashboard ELSE StartFramework]
    /\ agents = NoAgents
    /\ saves = 0 /\ restarts = 0
    /\ acked = content
    /\ excused = {} /\ replaced = {} /\ foreign = {}

DashboardNext ==
    \/ \E p \in Providers :
        \/ PatchConfig(p) \/ Ask(p) \/ DeleteKeyRoute(p) \/ ModelRoutes(p)
        \/ \E key \in Value \ {0} : PostKey(p, key)
    \/ \E p \in LimitProviders, m \in Modes : RateLimitRoutes(p, m)
    \/ LangsmithRoutes
    \/ \E v, w \in Switch : SetSemanticRoute(v, w)
    \/ \E v \in Switch : SetRerankingRoute(v) \/ SetWatchModeRoute(v) \/ RestartWithDb(v)
    \/ \E v, w \in Switch : SetAdvancedRoute(v, w)

OthersNext ==
    \/ \E v \in Switch : FrameworkSetSemantic(v) \/ FrameworkSetWatchMode(v)
    \/ \E v, w \in {1, Bad} : FrameworkSetAdvanced(v, w)
    \/ \E p \in Providers : CLIKeysAndModels(p)
    \/ \E p \in LimitProviders, m \in Modes : FrameworkLimits(p, m) \/ CLILimits(p, m)
    \/ CLISetSemantic \/ CLISetAdvanced

Next ==
    \/ DashboardNext \/ OthersNext
    \/ \E p \in Processes : Load(p) \/ Truncate(p) \/ Dump(p) \/ Finish(p) \/ Restart(p)

Spec == Init /\ [][Next]_vars

-----------------------------------------------------------------------------
(* Properties. *)

ApiKeys == {None} \cup (Providers \X (1..MaxValue))

TypeOK ==
    /\ content \in [Entries -> Value]
    /\ torn \subseteq Files
    /\ \A p \in Processes : proc[p].pc \in {"idle", "load", "open", "dump", "done"}
    /\ config \in [Services -> [provider : Providers, apiKey : ApiKeys,
                                flags : Value, semantic : Value, watch : Value,
                                rerank : Value, tracing : Value, retrieval : Value,
                                db : Value]]
    /\ agents \in [Providers -> ApiKeys]
    /\ uiProvider \in [Value -> Providers \cup {None}]

Quiet(f) == \A p \in Processes : proc[p] = Idle \/ proc[p].change.file # f

\* What was saved stays in its file until the same setting is saved again,
\* whatever is saved beside it: for saves that no other process overlapped and
\* no kill cut, and but for the settings that a semantic save removes.
SavedSettingsStay ==
    \A e \in Entries \ (excused \cup replaced) :
        Quiet(FileOf(e)) => Read(e) = acked[e]

\* The same with the semantic save: settings.json holds the database path and
\* the other groups "so the UI remembers it across restarts".
SettingsRemembered ==
    \A e \in Entries \ excused : Quiet(FileOf(e)) => Read(e) = acked[e]

\* What the settings page shows (the file) is what the dashboard runs with (its
\* configuration), as long as only the dashboard changes settings: after
\* every endpoint, and after a restart whatever it interrupted.
ShownIsUsed ==
    (proc[Dashboard] = Idle /\ "settings" \notin foreign) =>
        LET c == config[Dashboard] IN
        /\ c.flags = Read(Flags) /\ c.semantic = Read(Semantic)
        /\ Watch \in replaced \/ c.watch = Read(Watch)
        /\ Rerank \in replaced \/ c.rerank = Read(Rerank)

\* An agent talks to its provider with a key of this provider, also after a
\* start at which the configuration kept the key of the default provider.
AgentHasOwnKey == \A p \in Providers : agents[p] # None => agents[p][1] = p

\* No agent of the active provider goes on with a key that was replaced or
\* deleted on the dashboard, whichever provider was active at the time.
ActiveAgentHasCurrentKey ==
    LET p == config[Dashboard].provider IN
    (proc[Dashboard] = Idle /\ "keys" \notin foreign /\ agents[p] # None)
        => agents[p] = ResolveKey(p)
=============================================================================
