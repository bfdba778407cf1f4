---------------------------- MODULE Settings_proofs ----------------------------
(***************************************************************************)
(* Proofs about Settings for any providers, values and numbers of saves    *)
(* and restarts, with the dashboard, a program that uses the framework and *)
(* the command line writing the same files at the same time.               *)
(*                                                                         *)
(* Steps says what a step of the program can be: it begins a save, goes on *)
(* with one, ends one (or is the end of its process), or touches no file.  *)
(* Every proof of an invariant is by these cases, with one lemma on what   *)
(* each of them does to the operation of its process.                      *)
(*                                                                         *)
(* StayInv is about the files: the copy inside a save holds what was saved *)
(* last, too.  DashInv is about the dashboard: its configuration and its   *)
(* agents agree with what a file says once the save in progress is through *)
(* (Coming), so that they agree with the file when nothing is in progress. *)
(***************************************************************************)
EXTENDS Settings, TLAPS

-----------------------------------------------------------------------------
(* Entries and changes. *)

\* The settings the dashboard keeps in its configuration, too.
Shown == {Flags, Semantic, Watch, Rerank}

LEMMA EntryFacts ==
    /\ Shown \subseteq Entries /\ DbPath \in Entries
    /\ \A e \in Shown \cup {DbPath} : FileOf(e) = "settings"
    /\ Chunking \in Entries /\ Retrieval \in Entries /\ Chunking # Retrieval
    /\ FileOf(Chunking) = "advanced" /\ FileOf(Retrieval) = "advanced"
    /\ EntriesOf("advanced") = {Chunking, Retrieval}
    /\ LangSmith \in Entries /\ FileOf(LangSmith) = "keys"
BY DEF Shown, Entries, EntriesOf, FileOf, Flags, Semantic, Watch, Rerank, DbPath, Chunking,
       Retrieval, LangSmith, Key, Model, Concurrency, Quota

LEMMA ShownDiffer ==
    /\ Flags # Semantic /\ Flags # Watch /\ Flags # Rerank /\ Flags # DbPath
    /\ Semantic # Watch /\ Semantic # Rerank /\ Semantic # DbPath
    /\ Watch # Rerank /\ Watch # DbPath /\ Rerank # DbPath
BY DEF Flags, Semantic, Watch, Rerank, DbPath

LEMMA ProviderEntries ==
    ASSUME NEW p \in Providers
    PROVE  /\ Key(p) \in Entries /\ FileOf(Key(p)) = "keys" /\ Key(p) # LangSmith
           /\ \A q \in Providers : Key(q) = Key(p) => q = p
           /\ Model(p) \in Entries /\ FileOf(Model(p)) = "models"
BY SettingsAssumption DEF Entries, FileOf, Key, Model, LangSmith

LEMMA LimitEntries ==
    ASSUME NEW p \in LimitProviders, NEW m \in Modes
    PROVE  /\ Concurrency(m, p) \in Entries /\ FileOf(Concurrency(m, p)) = "rate_limits"
           /\ Quota(m, p) \in Entries /\ FileOf(Quota(m, p)) = "rate_limits"
BY DEF Entries, FileOf, Concurrency, Quota

LEMMA FileFacts ==
    /\ \A e \in Entries : FileOf(e) \in Files /\ e \in EntriesOf(FileOf(e))
    /\ \A f \in Files : \A e \in EntriesOf(f) : e \in Entries /\ FileOf(e) = f
BY DEF Files, EntriesOf

LEMMA Values == 0 \in Value /\ 1 \in Value /\ Switch \subseteq Value
BY SettingsAssumption DEF Value, Switch

Writes == UNION {[S -> Value] : S \in SUBSET Entries}

LEMMA WritesFacts ==
    /\ \A S \in SUBSET Entries : \A f \in [S -> Value] : f \in Writes /\ DOMAIN f = S
    /\ \A f \in Writes : DOMAIN f \subseteq Entries /\ \A e \in DOMAIN f : f[e] \in Value
BY DEF Writes

Changes == [file : Files, write : Writes, keep : SUBSET Entries, lazy : BOOLEAN]

Written(c) == DOMAIN c.write

\* What all changes of the program have in common: they write to one file; a
\* change that drops entries without writing them is a semantic save; on
\* settings.json every change writes or keeps the semantic settings.
Sound(c) ==
    /\ Written(c) \subseteq EntriesOf(c.file) /\ c.keep \subseteq EntriesOf(c.file)
    /\ {Flags, Semantic} \cap Written(c) # {} \/ EntriesOf(c.file) \subseteq Written(c) \cup c.keep
    /\ c.file = "settings" => ~c.lazy /\ {Flags, Semantic} \subseteq Written(c) \cup c.keep
    /\ c.file = "keys" => c.keep = EntriesOf("keys")

LEMMA ChangeFacts ==
    ASSUME NEW e \in Entries, NEW v \in Value
    PROVE  /\ Change(e, v) \in Changes /\ Sound(Change(e, v))
           /\ Change(e, v).file = FileOf(e) /\ ~Change(e, v).lazy
           /\ Written(Change(e, v)) = {e} /\ Change(e, v).write[e] = v
<1>1. One(e, v) \in Writes /\ DOMAIN One(e, v) = {e} /\ One(e, v)[e] = v
  BY WritesFacts DEF One
<1>2. FileOf(e) \in Files /\ e \in EntriesOf(FileOf(e)) /\ EntriesOf(FileOf(e)) \subseteq Entries
  BY FileFacts
<1>3. FileOf(e) = "settings" => {Flags, Semantic} \subseteq EntriesOf(FileOf(e))
  BY EntryFacts DEF EntriesOf, Shown
<1>4. QED
  BY <1>1, <1>2, <1>3 DEF Change, Changes, Sound, Written

LEMMA LazyFacts ==
    ASSUME NEW e \in Entries, FileOf(e) # "settings", NEW v \in Value,
           NEW c, c = [Change(e, v) EXCEPT !.lazy = TRUE]
    PROVE  c \in Changes /\ Sound(c) /\ c.file = FileOf(e) /\ c.lazy /\ Written(c) = {e}
<1>1. Change(e, v) \in Changes /\ Sound(Change(e, v)) /\ Written(Change(e, v)) = {e}
      /\ Change(e, v).file = FileOf(e)
  BY ChangeFacts
<1>2. /\ c \in Changes /\ c.file = Change(e, v).file /\ c.write = Change(e, v).write
      /\ c.keep = Change(e, v).keep /\ c.lazy
  BY <1>1 DEF Changes
<1>3. QED
  BY <1>1, <1>2 DEF Sound, Written

LEMMA SemanticFacts ==
    ASSUME NEW v \in Value, NEW w \in Value
    PROVE  /\ SetAllSemantic(v, w) \in Changes /\ Sound(SetAllSemantic(v, w))
           /\ SetAllSemantic(v, w).file = "settings"
           /\ Written(SetAllSemantic(v, w)) = {Flags, Semantic}
           /\ SetAllSemantic(v, w).write[Flags] = v /\ SetAllSemantic(v, w).write[Semantic] = w
<1> DEFINE c == SetAllSemantic(v, w)
<1>1. Change(Flags, v) \in Changes /\ Change(Flags, v).file = "settings" /\ ~Change(Flags, v).lazy
  BY ChangeFacts, EntryFacts DEF Shown
<1>2. /\ Two(Flags, v, Semantic, w) \in Writes /\ DOMAIN Two(Flags, v, Semantic, w) = {Flags, Semantic}
      /\ Two(Flags, v, Semantic, w)[Flags] = v /\ Two(Flags, v, Semantic, w)[Semantic] = w
  <2>1. Flags \in Entries /\ Semantic \in Entries /\ Flags # Semantic
    BY EntryFacts, ShownDiffer DEF Shown
  <2>2. Two(Flags, v, Semantic, w) \in [{Flags, Semantic} -> Value]
    BY <2>1 DEF Two
  <2>3. QED
    BY <2>1, <2>2, WritesFacts DEF Two
<1>3. /\ c \in Changes /\ c.file = "settings" /\ c.write = Two(Flags, v, Semantic, w)
      /\ c.keep = {} /\ ~c.lazy
  BY <1>1, <1>2 DEF SetAllSemantic, Changes
<1> HIDE DEF c
<1>4. {Flags, Semantic} \subseteq EntriesOf("settings")
  BY EntryFacts DEF EntriesOf, Shown
<1>5. Sound(c) /\ Written(c) = {Flags, Semantic}
  BY <1>2, <1>3, <1>4 DEF Sound, Written
<1>6. QED
  BY <1>2, <1>3, <1>5 DEF c

LEMMA SemanticKeptFacts ==
    ASSUME NEW e \in {Flags, Semantic}, NEW v \in Value,
           NEW c, c = [Change(e, v) EXCEPT !.keep = {Flags, Semantic}]
    PROVE  c \in Changes /\ Sound(c) /\ c.file = "settings"
<1>1. /\ Change(e, v) \in Changes /\ Change(e, v).file = "settings" /\ ~Change(e, v).lazy
      /\ Written(Change(e, v)) = {e}
  BY ChangeFacts, EntryFacts DEF Shown
<1>2. {Flags, Semantic} \subseteq EntriesOf("settings") /\ {Flags, Semantic} \subseteq Entries
  BY EntryFacts DEF EntriesOf, Shown
<1>3. /\ c \in Changes /\ c.file = "settings" /\ c.write = Change(e, v).write
      /\ c.keep = {Flags, Semantic} /\ ~c.lazy
  BY <1>1, <1>2 DEF Changes
<1>4. QED
  BY <1>1, <1>2, <1>3 DEF Sound, Written

LEMMA AdvancedFacts ==
    ASSUME NEW v \in Value \cup {Bad}, NEW w \in Value \cup {Bad},
           NEW c, c = SetAdvanced(Two(Chunking, v, Retrieval, w))
    PROVE  c \in Changes /\ Sound(c) /\ c.file = "advanced"
<1> DEFINE t == Two(Chunking, v, Retrieval, w)
           u == [e \in {Chunking, Retrieval} |-> IF t[e] = Bad THEN 0 ELSE t[e]]
<1>1. \A e \in {Chunking, Retrieval} : t[e] \in Value \cup {Bad}
  BY DEF Two
<1>2. u \in [{Chunking, Retrieval} -> Value]
  BY <1>1, Values
<1>3. c = [file |-> "advanced", keep |-> {}, lazy |-> FALSE, write |-> u]
  BY DEF SetAdvanced
<1> HIDE DEF u
<1>4. u \in Writes /\ DOMAIN u = {Chunking, Retrieval}
  BY <1>2, WritesFacts, EntryFacts
<1>5. "advanced" \in Files
  BY EntryFacts, FileFacts
<1>6. QED
  BY <1>3, <1>4, <1>5, EntryFacts DEF Changes, Sound, Written

-----------------------------------------------------------------------------
(* Types. *)

Dones == {"nothing", "key", "retrieval", "tracing"}
Ops == [pc : {"load", "open", "dump", "done"}, change : Changes, copy : Writes, done : Dones]

Configs == [provider : Providers, apiKey : ApiKeys, flags : Value, semantic : Value,
            watch : Value, rerank : Value, tracing : Value, retrieval : Value, db : Value]

Busy(p) == proc[p].pc # "idle"
BusyOn(p, f) == Busy(p) /\ proc[p].change.file = f

\* The copy holds what the change keeps; a new key is not empty; the endpoints
\* for keys refresh the configuration afterwards.
SoundOp(op) ==
    /\ Sound(op.change)
    /\ op.pc = "load" \/ op.pc = "done" \/ DOMAIN op.copy = op.change.keep
    /\ op.done = "key" /\ ~op.change.lazy
         => \A e \in Written(op.change) : op.change.write[e] # 0

TypeInv ==
    /\ content \in [Entries -> Value] /\ acked \in [Entries -> Value]
    /\ torn \subseteq Files
    /\ excused \subseteq Entries /\ replaced \subseteq Entries
    /\ proc \in [Processes -> {Idle} \cup Ops]
    /\ \A p \in Processes : Busy(p) => SoundOp(proc[p])
    /\ config \in [Services -> Configs]
    /\ uiProvider \in [Value -> Providers \cup {None}]
    /\ agents \in [Providers -> ApiKeys]

LEMMA ProcFacts ==
    ASSUME proc \in [Processes -> {Idle} \cup Ops], NEW p \in Processes
    PROVE  /\ Busy(p) <=> proc[p] # Idle
           /\ Busy(p) => proc[p] \in Ops
           /\ proc[p].pc \in {"idle", "load", "open", "dump", "done"}
BY DEF Busy, Idle, Ops

LEMMA ReadFacts ==
    ASSUME content \in [Entries -> Value], NEW e \in Entries
    PROVE  Read(e) \in Value /\ Default(e) \in Value
BY Values DEF Read, Default

LEMMA ResolveFacts ==
    ASSUME content \in [Entries -> Value], NEW p \in Providers
    PROVE  ResolveKey(p) \in ApiKeys
<1>1. Read(Key(p)) \in Value
  BY ReadFacts, ProviderEntries
<1>2. QED
  BY <1>1 DEF ResolveKey, ApiKeys, Value

\* What reading the files adds to a configuration.
LEMMA PostInitFacts ==
    ASSUME content \in [Entries -> Value], NEW c \in Configs, NEW d, d = PostInit(c)
    PROVE  /\ d \in Configs /\ d.provider = c.provider /\ d.db = c.db
           /\ d.tracing = c.tracing /\ d.retrieval = c.retrieval
           /\ d.flags = IF c.flags = 0 THEN Read(Flags) ELSE c.flags
           /\ d.semantic = IF c.flags = 0 /\ c.semantic = 0 THEN Read(Semantic) ELSE c.semantic
           /\ d.watch = IF c.watch = 0 THEN Read(Watch) ELSE c.watch
           /\ d.rerank = IF c.rerank = 0 THEN Read(Rerank) ELSE c.rerank
<1>1. /\ Read(Flags) \in Value /\ Read(Semantic) \in Value /\ Read(Watch) \in Value
      /\ Read(Rerank) \in Value /\ ResolveKey(c.provider) \in ApiKeys
  BY ReadFacts, ResolveFacts, EntryFacts DEF Configs, Shown
<1>2. QED
  BY <1>1 DEF PostInit, Configs

LEMMA NewConfigFacts ==
    ASSUME content \in [Entries -> Value], NEW db \in Value, NEW d, d = NewConfig(db)
    PROVE  /\ d \in Configs
           /\ d.flags = Read(Flags) /\ d.semantic = Read(Semantic)
           /\ d.watch = Read(Watch) /\ d.rerank = Read(Rerank)
<1> DEFINE c == [provider |-> StartProvider, apiKey |-> None, flags |-> 0,
                 semantic |-> 0, watch |-> 0, rerank |-> 0, tracing |-> 0,
                 retrieval |-> EffectiveConstants(Retrieval), db |-> db]
<1>1. Read(Retrieval) \in Value
  BY ReadFacts, EntryFacts
<1>2. c \in Configs
  BY <1>1, Values, SettingsAssumption DEF Configs, EffectiveConstants, ApiKeys
<1>3. c.flags = 0 /\ c.semantic = 0 /\ c.watch = 0 /\ c.rerank = 0 /\ d = PostInit(c)
  BY DEF NewConfig
<1> HIDE DEF c
<1>4. QED
  BY <1>2, <1>3, PostInitFacts

LEMMA StartFacts ==
    ASSUME content \in [Entries -> Value], uiProvider \in [Value -> Providers \cup {None}]
    PROVE  /\ StartFramework \in Configs /\ StartDashboard \in Configs
           /\ StartDashboard.flags = Read(Flags) /\ StartDashboard.semantic = Read(Semantic)
           /\ StartDashboard.watch = Read(Watch) /\ StartDashboard.rerank = Read(Rerank)
<1>1. PICK db : db = Read(DbPath)
  OBVIOUS
<1>2. PICK c : c = NewConfig(db)
  OBVIOUS
<1>3. db \in Value
  BY <1>1, ReadFacts, EntryFacts
<1>4. /\ c \in Configs
      /\ c.flags = Read(Flags) /\ c.semantic = Read(Semantic)
      /\ c.watch = Read(Watch) /\ c.rerank = Read(Rerank)
  BY <1>2, <1>3, NewConfigFacts
<1>5. PICK b : b = IF uiProvider[db] = None THEN c
                   ELSE [c EXCEPT !.provider = uiProvider[db]]
  OBVIOUS
<1>6. /\ b \in Configs /\ b.flags = c.flags /\ b.semantic = c.semantic
      /\ b.watch = c.watch /\ b.rerank = c.rerank
  BY <1>3, <1>4, <1>5 DEF Configs
<1>7. StartDashboard = PostInit(b)
  BY <1>1, <1>2, <1>5 DEF StartDashboard
<1>8. PICK d : d = PostInit(b)
  OBVIOUS
<1>9. /\ d \in Configs
      /\ d.flags = Read(Flags) /\ d.semantic = Read(Semantic)
      /\ d.watch = Read(Watch) /\ d.rerank = Read(Rerank)
  BY <1>4, <1>6, <1>8, PostInitFacts
<1>10. PICK n : n = NewConfig(0)
  OBVIOUS
<1>11. n \in Configs /\ Read(LangSmith) \in Value
  BY <1>10, Values, NewConfigFacts, ReadFacts, EntryFacts
<1>12. StartFramework \in Configs
  BY <1>10, <1>11 DEF StartFramework, Configs
<1>13. QED
  BY <1>7, <1>8, <1>9, <1>12

LEMMA EmptyCopy == <<>> \in Writes /\ DOMAIN <<>> = {}
<1>1. <<>> \in [{} -> Value]
  OBVIOUS
<1>2. QED
  BY <1>1, WritesFacts

-----------------------------------------------------------------------------
(* Every step of the program: a step of a save, or one that begins a save, *)
(* or one that touches no file.                                            *)

Used(e) ==
    LET c == config[Dashboard] IN
    IF e = Flags THEN c.flags ELSE IF e = Semantic THEN c.semantic
    ELSE IF e = Watch THEN c.watch ELSE c.rerank

ProviderKeys == {Key(p) : p \in Providers}

\* What a step that begins a save does to the memory of the processes.
Takes(p, c, d) ==
    /\ UNCHANGED uiProvider
    /\ agents' \in {agents, NoAgents}
    /\ config' \in [Services -> Configs]
    /\ config'[Dashboard].provider = config[Dashboard].provider
    /\ p # Dashboard => agents' = agents /\ config'[Dashboard] = config[Dashboard]
    /\ p = Dashboard => \A e \in Shown : Used(e)' = IF e \in Written(c) THEN c.write[e] ELSE Used(e)

BeginStep(p, c, d) ==
    /\ c \in Changes /\ Sound(c) /\ d \in Dones
    /\ d = "key" /\ ~c.lazy => \A e \in Written(c) : c.write[e] # 0
    /\ p = Dashboard /\ ProviderKeys \cap Written(c) # {} => d = "key"
    /\ Begin(p, c, d) /\ Takes(p, c, d)

Begins == \E p \in Processes : \E c, d : BeginStep(p, c, d)

LEMMA SaveBegins ==
    ASSUME TypeInv, NEW p \in Processes, NEW c \in Changes, Sound(c), Save(p, c),
           p = Dashboard => c.file # "keys" /\ Shown \cap Written(c) = {}
    PROVE  Begins
<1>1. Begin(p, c, "nothing") /\ UNCHANGED memory
  BY DEF Save
<1>2. Takes(p, c, "nothing")
  BY <1>1 DEF Takes, memory, TypeInv, Used
<1>3. p = Dashboard => ProviderKeys \cap Written(c) = {}
  BY ProviderEntries, FileFacts DEF ProviderKeys, Sound, Changes
<1>4. BeginStep(p, c, "nothing")
  BY <1>1, <1>2, <1>3 DEF BeginStep, Dones
<1>5. QED
  BY <1>4 DEF Begins

LEMMA CallBegins ==
    ASSUME TypeInv, NEW c \in Changes, Sound(c), NEW d \in Dones, c.file # "settings",
           d = "key" /\ ~c.lazy => \A e \in Written(c) : c.write[e] # 0,
           d = "key" \/ ProviderKeys \cap Written(c) = {},
           Begin(Dashboard, c, d) /\ UNCHANGED memory
    PROVE  Begins
<1>1. Shown \cap Written(c) = {}
  BY EntryFacts, FileFacts DEF Sound, Changes
<1>2. Takes(Dashboard, c, d)
  BY <1>1 DEF Takes, memory, TypeInv, Used
<1>3. BeginStep(Dashboard, c, d)
  BY <1>2 DEF BeginStep
<1>4. QED
  BY <1>3 DEF Begins, Processes

\* Each of the operations on one entry.
LEMMA OneBegins ==
    ASSUME TypeInv, NEW p \in Processes, NEW e \in Entries, NEW v \in Value,
           Save(p, Change(e, v)), p = Dashboard => FileOf(e) # "keys" /\ e \notin Shown
    PROVE  Begins
<1>1. /\ Change(e, v) \in Changes /\ Sound(Change(e, v))
      /\ Change(e, v).file = FileOf(e) /\ Written(Change(e, v)) = {e}
  BY ChangeFacts
<1>2. QED
  BY <1>1, SaveBegins

LEMMA LazyBegins ==
    ASSUME TypeInv, NEW p \in Processes, NEW e \in Entries, NEW v \in Value,
           NEW c, c = [Change(e, v) EXCEPT !.lazy = TRUE],
           Save(p, c), FileOf(e) # "settings", p = Dashboard => FileOf(e) # "keys"
    PROVE  Begins
<1>1. c \in Changes /\ Sound(c) /\ c.file = FileOf(e) /\ Written(c) = {e}
  BY LazyFacts
<1>2. e \notin Shown
  BY EntryFacts
<1>3. QED
  BY <1>1, <1>2, SaveBegins

LEMMA LimitsBegin ==
    ASSUME TypeInv, NEW s \in Processes, NEW p \in LimitProviders, NEW m \in Modes,
           \/ Save(s, SetConcurrencyLimit(p, 1, m)) \/ Save(s, SetQuotaOverride(p, 1, m))
           \/ Save(s, DeleteConcurrencyLimit(p, m)) \/ Save(s, DeleteQuotaOverride(p, m))
    PROVE  Begins
<1> DEFINE a == Concurrency(m, p)
           b == Quota(m, p)
<1>1. /\ a \in Entries /\ FileOf(a) = "rate_limits" /\ b \in Entries /\ FileOf(b) = "rate_limits"
      /\ a \notin Shown /\ b \notin Shown
  BY LimitEntries, EntryFacts
<1> HIDE DEF a, b
<1>2. CASE Save(s, Change(a, 1))
  BY <1>1, <1>2, Values, OneBegins
<1>3. CASE Save(s, Change(b, 1))
  BY <1>1, <1>3, Values, OneBegins
<1>4. CASE Save(s, [Change(a, 0) EXCEPT !.lazy = TRUE])
  <2>1. PICK c : c = [Change(a, 0) EXCEPT !.lazy = TRUE]
    OBVIOUS
  <2>2. QED
    BY <1>1, <1>4, <2>1, Values, LazyBegins
<1>5. CASE Save(s, [Change(b, 0) EXCEPT !.lazy = TRUE])
  <2>1. PICK c : c = [Change(b, 0) EXCEPT !.lazy = TRUE]
    OBVIOUS
  <2>2. QED
    BY <1>1, <1>5, <2>1, Values, LazyBegins
<1>6. QED
  BY <1>2, <1>3, <1>4, <1>5
     DEF a, b, SetConcurrencyLimit, SetQuotaOverride, DeleteConcurrencyLimit, DeleteQuotaOverride, Removal

LEMMA ModelsBegin ==
    ASSUME TypeInv, NEW s \in Processes, NEW p \in Providers,
           Save(s, AddModel(p)) \/ Save(s, DeleteModel(p))
    PROVE  Begins
<1> DEFINE a == Model(p)
<1>1. a \in Entries /\ FileOf(a) = "models"
  BY ProviderEntries
<1> HIDE DEF a
<1>2. CASE Save(s, [Change(a, 1) EXCEPT !.lazy = TRUE])
  <2>1. PICK c : c = [Change(a, 1) EXCEPT !.lazy = TRUE]
    OBVIOUS
  <2>2. QED
    BY <1>1, <1>2, <2>1, Values, LazyBegins
<1>3. CASE Save(s, [Change(a, 0) EXCEPT !.lazy = TRUE])
  <2>1. PICK c : c = [Change(a, 0) EXCEPT !.lazy = TRUE]
    OBVIOUS
  <2>2. QED
    BY <1>1, <1>3, <2>1, Values, LazyBegins
<1>4. QED
  BY <1>2, <1>3 DEF a, AddModel, DeleteModel, Removal

LEMMA AdvancedBegins ==
    ASSUME TypeInv, NEW s \in Processes, NEW v \in Value \cup {Bad}, NEW w \in Value \cup {Bad},
           \/ Save(s, SetAdvanced(Two(Chunking, v, Retrieval, w)))
           \/ s = Dashboard /\ SetAdvancedRoute(v, w)
    PROVE  Begins
<1>1. PICK c : c = SetAdvanced(Two(Chunking, v, Retrieval, w))
  OBVIOUS
<1>2. c \in Changes /\ Sound(c) /\ c.file = "advanced"
  BY <1>1, AdvancedFacts
<1>3. Shown \cap Written(c) = {} /\ ProviderKeys \cap Written(c) = {}
  BY <1>2, EntryFacts, FileFacts, ProviderEntries DEF Sound, Changes, ProviderKeys
<1>4. CASE Save(s, c)
  BY <1>2, <1>3, <1>4, SaveBegins
<1>5. CASE Begin(Dashboard, c, "retrieval") /\ UNCHANGED memory
  BY <1>2, <1>3, <1>5, CallBegins DEF Dones
<1>6. QED
  BY <1>1, <1>4, <1>5 DEF SetAdvancedRoute

LEMMA SemanticBegins ==
    ASSUME TypeInv, NEW v \in Value, NEW w \in Value,
           SetSemanticRoute(v, w) \/ (w = 0 /\ FrameworkSetSemantic(v))
    PROVE  Begins
<1> DEFINE c == SetAllSemantic(v, w)
<1>1. /\ c \in Changes /\ Sound(c) /\ c.file = "settings" /\ Written(c) = {Flags, Semantic}
      /\ c.write[Flags] = v /\ c.write[Semantic] = w
  BY SemanticFacts
<1>2. ProviderKeys \cap Written(c) = {}
  BY <1>1, EntryFacts, ProviderEntries DEF Shown, ProviderKeys
<1> HIDE DEF c
<1>3. CASE SetSemanticRoute(v, w)
  <2>1. /\ Begin(Dashboard, c, "nothing") /\ agents' = NoAgents /\ UNCHANGED uiProvider
        /\ config' = [config EXCEPT ![Dashboard].flags = v, ![Dashboard].semantic = w]
    BY <1>3 DEF SetSemanticRoute, c
  <2>2. config' \in [Services -> Configs] /\ config'[Dashboard].provider = config[Dashboard].provider
    BY <2>1 DEF TypeInv, Configs, Services
  <2>3. /\ config'[Dashboard].flags = v /\ config'[Dashboard].semantic = w
        /\ config'[Dashboard].watch = config[Dashboard].watch
        /\ config'[Dashboard].rerank = config[Dashboard].rerank
    BY <2>1 DEF TypeInv, Configs, Services
  <2>4. \A e \in Shown : Used(e)' = IF e \in Written(c) THEN c.write[e] ELSE Used(e)
    BY <1>1, <2>3, ShownDiffer DEF Used, Shown
  <2>5. Takes(Dashboard, c, "nothing")
    BY <2>1, <2>2, <2>4 DEF Takes
  <2>6. BeginStep(Dashboard, c, "nothing")
    BY <1>1, <1>2, <2>1, <2>5 DEF BeginStep, Dones
  <2>7. QED
    BY <2>6 DEF Begins, Processes
<1>4. CASE w = 0 /\ FrameworkSetSemantic(v)
  <2>1. /\ Begin(Framework, c, "nothing") /\ UNCHANGED <<uiProvider, agents>>
        /\ config' = [config EXCEPT ![Framework].flags = v]
    BY <1>4 DEF FrameworkSetSemantic, c
  <2>2. config' \in [Services -> Configs] /\ config'[Dashboard] = config[Dashboard]
    BY <2>1 DEF TypeInv, Configs, Services, Dashboard, Framework
  <2>3. Takes(Framework, c, "nothing")
    BY <2>1, <2>2 DEF Takes, Dashboard, Framework
  <2>4. BeginStep(Framework, c, "nothing")
    BY <1>1, <2>1, <2>3 DEF BeginStep, Dones, Dashboard, Framework
  <2>5. QED
    BY <2>4 DEF Begins, Processes
<1>5. QED
  BY <1>3, <1>4

LEMMA RerankingBegins ==
    ASSUME TypeInv, NEW v \in Value, SetRerankingRoute(v)
    PROVE  Begins
<1> DEFINE c == Change(Rerank, v)
<1>1. /\ c \in Changes /\ Sound(c) /\ c.file = "settings" /\ Written(c) = {Rerank}
      /\ c.write[Rerank] = v
  BY ChangeFacts, EntryFacts DEF Shown
<1>2. ProviderKeys \cap Written(c) = {}
  BY <1>1, EntryFacts, ProviderEntries DEF Shown, ProviderKeys
<1> HIDE DEF c
<1>3. /\ Begin(Dashboard, c, "nothing") /\ agents' = NoAgents /\ UNCHANGED uiProvider
      /\ config' = [config EXCEPT ![Dashboard].rerank = v]
  BY DEF SetRerankingRoute, SetAllReranking, c
<1>4. config' \in [Services -> Configs] /\ config'[Dashboard].provider = config[Dashboard].provider
  BY <1>3 DEF TypeInv, Configs, Services
<1>5. /\ config'[Dashboard].flags = config[Dashboard].flags
      /\ config'[Dashboard].semantic = config[Dashboard].semantic
      /\ config'[Dashboard].watch = config[Dashboard].watch
      /\ config'[Dashboard].rerank = v
  BY <1>3 DEF TypeInv, Configs, Services
<1>6. \A e \in Shown : Used(e)' = IF e \in Written(c) THEN c.write[e] ELSE Used(e)
  BY <1>1, <1>5, ShownDiffer DEF Used, Shown
<1>7. Takes(Dashboard, c, "nothing")
  BY <1>3, <1>4, <1>6 DEF Takes
<1>8. BeginStep(Dashboard, c, "nothing")
  BY <1>1, <1>2, <1>3, <1>7 DEF BeginStep, Dones
<1>9. QED
  BY <1>8 DEF Begins, Processes

LEMMA WatchModeBegins ==
    ASSUME TypeInv, NEW v \in Value, SetWatchModeRoute(v) \/ FrameworkSetWatchMode(v)
    PROVE  Begins
<1> DEFINE c == Change(Watch, v)
<1>1. /\ c \in Changes /\ Sound(c) /\ c.file = "settings" /\ Written(c) = {Watch}
      /\ c.write[Watch] = v
  BY ChangeFacts, EntryFacts DEF Shown
<1>2. ProviderKeys \cap Written(c) = {}
  BY <1>1, EntryFacts, ProviderEntries DEF Shown, ProviderKeys
<1> HIDE DEF c
<1>3. CASE SetWatchModeRoute(v)
  <2>1. /\ Begin(Dashboard, c, "nothing") /\ UNCHANGED <<uiProvider, agents>>
        /\ config' = [config EXCEPT ![Dashboard].watch = v]
    BY <1>3 DEF SetWatchModeRoute, SetAllWatchMode, c
  <2>2. config' \in [Services -> Configs] /\ config'[Dashboard].provider = config[Dashboard].provider
    BY <2>1 DEF TypeInv, Configs, Services
  <2>3. /\ config'[Dashboard].flags = config[Dashboard].flags
        /\ config'[Dashboard].semantic = config[Dashboard].semantic
        /\ config'[Dashboard].watch = v
        /\ config'[Dashboard].rerank = config[Dashboard].rerank
    BY <2>1 DEF TypeInv, Configs, Services
  <2>4. \A e \in Shown : Used(e)' = IF e \in Written(c) THEN c.write[e] ELSE Used(e)
    BY <1>1, <2>3, ShownDiffer DEF Used, Shown
  <2>5. Takes(Dashboard, c, "nothing")
    BY <2>1, <2>2, <2>4 DEF Takes
  <2>6. BeginStep(Dashboard, c, "nothing")
    BY <1>1, <1>2, <2>1, <2>5 DEF BeginStep, Dones
  <2>7. QED
    BY <2>6 DEF Begins, Processes
<1>4. CASE FrameworkSetWatchMode(v)
  <2>1. /\ Begin(Framework, c, "nothing") /\ UNCHANGED <<uiProvider, agents>>
        /\ config' = [config EXCEPT ![Framework].watch = v]
    BY <1>4 DEF FrameworkSetWatchMode, SetAllWatchMode, c
  <2>2. config' \in [Services -> Configs] /\ config'[Dashboard] = config[Dashboard]
    BY <2>1 DEF TypeInv, Configs, Services, Dashboard, Framework
  <2>3. Takes(Framework, c, "nothing")
    BY <2>1, <2>2 DEF Takes, Dashboard, Framework
  <2>4. BeginStep(Framework, c, "nothing")
    BY <1>1, <2>1, <2>3 DEF BeginStep, Dones, Dashboard, Framework
  <2>5. QED
    BY <2>4 DEF Begins, Processes
<1>5. QED
  BY <1>3, <1>4

LEMMA KeyRoutesBegin ==
    ASSUME TypeInv, NEW p \in Providers,
           DeleteKeyRoute(p) \/ \E key \in Value \ {0} : PostKey(p, key)
    PROVE  Begins
<1>1. Key(p) \in Entries /\ FileOf(Key(p)) = "keys"
  BY ProviderEntries
<1>2. CASE DeleteKeyRoute(p)
  <2>1. PICK c : c = [Change(Key(p), 0) EXCEPT !.lazy = TRUE]
    OBVIOUS
  <2>2. c \in Changes /\ Sound(c) /\ c.file = "keys" /\ c.lazy
    BY <1>1, <2>1, Values, LazyFacts
  <2>3. Begin(Dashboard, c, "key") /\ UNCHANGED memory
    BY <1>2, <2>1 DEF DeleteKeyRoute, DeleteKey, Removal
  <2>4. QED
    BY <2>2, <2>3, CallBegins DEF Dones
<1>3. CASE \E key \in Value \ {0} : PostKey(p, key)
  <2>1. PICK key \in Value \ {0} : PostKey(p, key)
    BY <1>3
  <2>2. PICK c : c = Change(Key(p), key)
    OBVIOUS
  <2>3. /\ c \in Changes /\ Sound(c) /\ c.file = "keys"
        /\ Written(c) = {Key(p)} /\ c.write[Key(p)] = key
    BY <1>1, <2>2, ChangeFacts
  <2>4. Begin(Dashboard, c, "key") /\ UNCHANGED memory
    BY <2>1, <2>2 DEF PostKey, SetKey
  <2>5. QED
    BY <2>3, <2>4, CallBegins DEF Dones
<1>4. QED
  BY <1>2, <1>3

LEMMA LangsmithRoutesBegin ==
    ASSUME TypeInv, LangsmithRoutes
    PROVE  Begins
<1>1. LangSmith \in Entries /\ FileOf(LangSmith) = "keys" /\ LangSmith \notin ProviderKeys
  BY EntryFacts, ProviderEntries DEF ProviderKeys
<1>2. CASE Begin(Dashboard, SetLangsmith(1), "tracing") /\ UNCHANGED memory
  <2>1. PICK c : c = Change(LangSmith, 1)
    OBVIOUS
  <2>2. c \in Changes /\ Sound(c) /\ c.file = "keys" /\ Written(c) = {LangSmith}
    BY <1>1, <2>1, Values, ChangeFacts
  <2>3. Begin(Dashboard, c, "tracing") /\ UNCHANGED memory
    BY <1>2, <2>1 DEF SetLangsmith
  <2>4. QED
    BY <1>1, <2>2, <2>3, CallBegins DEF Dones
<1>3. CASE Begin(Dashboard, DeleteLangsmith, "tracing") /\ UNCHANGED memory
  <2>1. PICK c : c = [Change(LangSmith, 0) EXCEPT !.lazy = TRUE]
    OBVIOUS
  <2>2. c \in Changes /\ Sound(c) /\ c.file = "keys" /\ Written(c) = {LangSmith}
    BY <1>1, <2>1, Values, LazyFacts
  <2>3. Begin(Dashboard, c, "tracing") /\ UNCHANGED memory
    BY <1>3, <2>1 DEF DeleteLangsmith, Removal
  <2>4. QED
    BY <1>1, <2>2, <2>3, CallBegins DEF Dones
<1>4. QED
  BY <1>2, <1>3 DEF LangsmithRoutes

LEMMA RestartWithDbBegins ==
    ASSUME TypeInv, NEW v \in Value, RestartWithDb(v)
    PROVE  Begins
<1>1. DbPath \in Entries /\ FileOf(DbPath) = "settings" /\ DbPath \notin Shown
  BY EntryFacts, ShownDiffer DEF Shown
<1>2. Save(Dashboard, Change(DbPath, v))
  BY DEF RestartWithDb, SetSavedDbPath
<1>3. QED
  BY <1>1, <1>2, OneBegins DEF Processes

LEMMA CLIBegins ==
    ASSUME TypeInv,
           (\E p \in Providers : CLIKeysAndModels(p)) \/ CLISetSemantic \/ CLISetAdvanced
    PROVE  Begins
<1>1. CLI \in Processes /\ CLI # Dashboard
  BY DEF Processes, CLI, Dashboard
<1>2. ASSUME NEW p \in Providers, CLIKeysAndModels(p)
      PROVE  Begins
  <2>1. Key(p) \in Entries /\ FileOf(Key(p)) = "keys"
    BY ProviderEntries
  <2>2. CASE \E key \in Value \ {0} : Save(CLI, SetKey(p, key))
    BY <1>1, <2>1, <2>2, OneBegins DEF SetKey
  <2>3. CASE Save(CLI, DeleteKey(p))
    <3>1. PICK c : c = [Change(Key(p), 0) EXCEPT !.lazy = TRUE]
      OBVIOUS
    <3>2. Save(CLI, c)
      BY <2>3, <3>1 DEF DeleteKey, Removal
    <3>3. QED
      BY <1>1, <2>1, <3>1, <3>2, Values, LazyBegins
  <2>4. CASE Save(CLI, AddModel(p)) \/ Save(CLI, DeleteModel(p))
    BY <1>1, <2>4, ModelsBegin
  <2>5. QED
    BY <1>2, <2>2, <2>3, <2>4 DEF CLIKeysAndModels
<1>3. CASE CLISetSemantic
  <2>1. PICK e \in {Flags, Semantic}, v \in Switch :
            Save(CLI, [Change(e, v) EXCEPT !.keep = {Flags, Semantic}])
    BY <1>3 DEF CLISetSemantic
  <2>2. PICK c : c = [Change(e, v) EXCEPT !.keep = {Flags, Semantic}]
    OBVIOUS
  <2>3. c \in Changes /\ Sound(c)
    BY <2>2, Values, SemanticKeptFacts
  <2>4. Save(CLI, c)
    BY <2>1, <2>2
  <2>5. QED
    BY <1>1, <2>3, <2>4, SaveBegins
<1>4. CASE CLISetAdvanced
  <2>1. CASE Save(CLI, SetAdvanced(Two(Chunking, 0, Retrieval, 0)))
    BY <1>1, <2>1, Values, AdvancedBegins
  <2>2. CASE \E e \in {Chunking, Retrieval}, v \in {1, Bad} :
                 Save(CLI, Change(e, IF v = Bad THEN 0 ELSE v))
    <3>1. PICK e \in {Chunking, Retrieval}, v \in {1, Bad} :
              Save(CLI, Change(e, IF v = Bad THEN 0 ELSE v))
      BY <2>2
    <3>2. PICK w : w = IF v = Bad THEN 0 ELSE v
      OBVIOUS
    <3>3. w \in Value /\ e \in Entries /\ Save(CLI, Change(e, w))
      BY <3>1, <3>2, Values, EntryFacts
    <3>4. QED
      BY <1>1, <3>3, OneBegins
  <2>3. QED
    BY <1>4, <2>1, <2>2 DEF CLISetAdvanced
<1>5. QED
  BY <1>2, <1>3, <1>4

LEMMA Steps ==
    ASSUME TypeInv, [Next]_vars
    PROVE  \/ UNCHANGED vars
           \/ Begins
           \/ \E p \in Providers : PatchConfig(p) \/ Ask(p)
           \/ \E p \in Processes : Load(p) \/ Truncate(p) \/ Dump(p) \/ Finish(p) \/ Restart(p)
<1>1. Dashboard \in Processes /\ Framework \in Processes /\ CLI \in Processes /\ Framework # Dashboard
  BY DEF Processes, Dashboard, Framework, CLI
<1>2. Switch \subseteq Value /\ 0 \in Value /\ 1 \in Value
  BY Values
<1>3. ASSUME DashboardNext, ~ \E p \in Providers : PatchConfig(p) \/ Ask(p)
      PROVE  Begins
  <2>1. ASSUME NEW p \in Providers, DeleteKeyRoute(p) \/ \E key \in Value \ {0} : PostKey(p, key)
        PROVE  Begins
    BY <2>1, KeyRoutesBegin
  <2>2. ASSUME NEW p \in Providers, ModelRoutes(p)
        PROVE  Begins
    BY <1>1, <2>2, ModelsBegin DEF ModelRoutes
  <2>3. ASSUME NEW p \in LimitProviders, NEW m \in Modes, RateLimitRoutes(p, m)
        PROVE  Begins
    BY <1>1, <2>3, LimitsBegin DEF RateLimitRoutes
  <2>4. ASSUME NEW v \in Switch, NEW w \in Switch, SetSemanticRoute(v, w)
        PROVE  Begins
    BY <1>2, <2>4, SemanticBegins
  <2>5. ASSUME NEW v \in Switch, SetRerankingRoute(v) \/ SetWatchModeRoute(v) \/ RestartWithDb(v)
        PROVE  Begins
    BY <1>2, <2>5, RerankingBegins, WatchModeBegins, RestartWithDbBegins
  <2>6. ASSUME NEW v \in Switch, NEW w \in Switch, SetAdvancedRoute(v, w)
        PROVE  Begins
    BY <1>1, <1>2, <2>6, AdvancedBegins
  <2>7. QED
    BY <1>3, <2>1, <2>2, <2>3, <2>4, <2>5, <2>6, LangsmithRoutesBegin DEF DashboardNext
<1>4. ASSUME OthersNext
      PROVE  Begins
  <2>1. ASSUME NEW v \in Switch, FrameworkSetSemantic(v) \/ FrameworkSetWatchMode(v)
        PROVE  Begins
    BY <1>2, <2>1, SemanticBegins, WatchModeBegins
  <2>2. ASSUME NEW v \in {1, Bad}, NEW w \in {1, Bad}, FrameworkSetAdvanced(v, w)
        PROVE  Begins
    BY <1>1, <1>2, <2>2, AdvancedBegins DEF FrameworkSetAdvanced
  <2>3. ASSUME NEW p \in LimitProviders, NEW m \in Modes, FrameworkLimits(p, m) \/ CLILimits(p, m)
        PROVE  Begins
    BY <1>1, <2>3, LimitsBegin DEF FrameworkLimits, CLILimits
  <2>4. QED
    BY <1>4, <2>1, <2>2, <2>3, CLIBegins DEF OthersNext
<1>5. QED
  BY <1>3, <1>4 DEF Next

-----------------------------------------------------------------------------
(* What the steps of a save do to the operation of its process. *)

Ready(p) == p \in Processes /\ proc' \in [Processes -> {Idle} \cup Ops]
            /\ \A q \in Processes \ {p} : proc'[q] = proc[q]

LEMMA BeginProc ==
    ASSUME TypeInv, NEW p \in Processes, NEW c, NEW d, BeginStep(p, c, d)
    PROVE  /\ Ready(p) /\ proc[p] = Idle /\ ~Busy(p)
           /\ proc'[p] \in Ops /\ proc'[p].change = c /\ proc'[p].done = d
           /\ proc'[p].pc = IF c.keep = {} THEN "open" ELSE "load"
           /\ DOMAIN proc'[p].copy = {}
           /\ SoundOp(proc'[p])
<1> DEFINE r == [pc |-> IF c.keep = {} THEN "open" ELSE "load",
                 change |-> c, copy |-> <<>>, done |-> d]
<1>1. r \in Ops
  BY EmptyCopy DEF BeginStep, Ops
<1>2. proc' = [proc EXCEPT ![p] = r] /\ proc[p] = Idle
  BY DEF BeginStep, Begin
<1>3. /\ r.change = c /\ r.done = d /\ r.pc = (IF c.keep = {} THEN "open" ELSE "load")
      /\ DOMAIN r.copy = {}
  BY EmptyCopy
<1> HIDE DEF r
<1>4. SoundOp(r)
  BY <1>3 DEF BeginStep, SoundOp
<1>5. proc'[p] = r /\ Ready(p)
  BY <1>1, <1>2 DEF TypeInv, Ready
<1>6. ~Busy(p)
  BY <1>2 DEF Busy, Idle
<1>7. QED
  BY <1>1, <1>2, <1>3, <1>4, <1>5, <1>6

LEMMA LoadProc ==
    ASSUME TypeInv, NEW p \in Processes, Load(p)
    PROVE  /\ Ready(p) /\ Busy(p) /\ proc[p] \in Ops /\ proc[p].pc = "load"
           /\ proc'[p] \in Ops /\ proc'[p].change = proc[p].change
           /\ proc'[p].pc \in {"open", "done"}
           /\ proc'[p].pc = "done" => proc[p].change.lazy
           /\ \A e \in proc[p].change.keep : proc'[p].copy[e] = Read(e)
           /\ proc'[p].done # proc[p].done => proc[p].done = "tracing" /\ proc'[p].done = "nothing"
           /\ SoundOp(proc'[p])
<1> DEFINE op == proc[p].change
           loaded == LoadFile(op.file)
           unchanged == op.lazy /\ \A e \in DOMAIN op.write : loaded[e] = op.write[e]
           copy == [e \in op.keep |-> loaded[e]]
           pc == IF unchanged THEN "done" ELSE "open"
           done == IF unchanged /\ proc[p].done = "tracing" THEN "nothing" ELSE proc[p].done
<1>1. Busy(p) /\ proc[p] \in Ops /\ proc[p].pc = "load" /\ SoundOp(proc[p])
  BY ProcFacts DEF Load, TypeInv, Busy
<1>2. op.keep \subseteq EntriesOf(op.file) /\ op.keep \subseteq Entries
  BY <1>1 DEF SoundOp, Sound, Ops, Changes
<1>3. \A e \in op.keep : copy[e] = Read(e) /\ Read(e) \in Value
  BY <1>2, ReadFacts DEF LoadFile, TypeInv
<1>4. copy \in Writes /\ DOMAIN copy = op.keep
  BY <1>2, <1>3, WritesFacts
<1>5. proc' = [proc EXCEPT ![p].pc = pc, ![p].copy = copy, ![p].done = done]
  BY DEF Load
<1> DEFINE r == [pc |-> pc, change |-> op, copy |-> copy, done |-> done]
<1> HIDE DEF copy, unchanged
<1>6. proc'[p] = r /\ \A q \in Processes \ {p} : proc'[q] = proc[q]
  BY <1>1, <1>5 DEF TypeInv, Ops
<1>7. r \in Ops
  BY <1>1, <1>4 DEF Ops, Dones
<1>8. proc' \in [Processes -> {Idle} \cup Ops]
  BY <1>5, <1>6, <1>7 DEF TypeInv
<1>9. r.pc = "done" => op.lazy
  BY DEF unchanged
<1>10. SoundOp(r)
  BY <1>1, <1>4 DEF SoundOp
<1>11. QED
  BY <1>1, <1>3, <1>6, <1>7, <1>8, <1>9, <1>10 DEF Ready

LEMMA AdvanceProc ==
    ASSUME TypeInv, NEW p \in Processes, Busy(p),
           NEW pc \in {"dump", "done"}, pc = "done" \/ proc[p].pc = "open",
           Advance(p, pc)
    PROVE  /\ Ready(p) /\ proc[p] \in Ops
           /\ proc'[p] \in Ops /\ proc'[p].change = proc[p].change
           /\ proc'[p].pc = pc /\ proc'[p].copy = proc[p].copy /\ proc'[p].done = proc[p].done
           /\ SoundOp(proc'[p])
<1>1. proc[p] \in Ops /\ SoundOp(proc[p])
  BY ProcFacts DEF TypeInv
<1>2. proc' = [proc EXCEPT ![p].pc = pc]
  BY DEF Advance
<1> DEFINE r == [proc[p] EXCEPT !.pc = pc]
<1>3. /\ r \in Ops /\ r.change = proc[p].change /\ r.pc = pc
      /\ r.copy = proc[p].copy /\ r.done = proc[p].done
  BY <1>1 DEF Ops
<1>4. proc'[p] = r /\ \A q \in Processes \ {p} : proc'[q] = proc[q]
  BY <1>2 DEF TypeInv
<1> HIDE DEF r
<1>5. proc' \in [Processes -> {Idle} \cup Ops]
  BY <1>2, <1>3, <1>4 DEF TypeInv
<1>6. SoundOp(r)
  BY <1>1, <1>3 DEF SoundOp
<1>7. QED
  BY <1>1, <1>3, <1>4, <1>5, <1>6 DEF Ready

LEMMA IdleProc ==
    ASSUME TypeInv, NEW p \in Processes, proc' = [proc EXCEPT ![p] = Idle]
    PROVE  Ready(p) /\ proc'[p] = Idle /\ ~Busy(p)'
BY DEF TypeInv, Ready, Busy, Idle

\* After such a step, if the operation is sound, every operation is.
LEMMA StillSound ==
    ASSUME TypeInv, NEW p, Ready(p), proc'[p] = Idle \/ SoundOp(proc'[p])
    PROVE  \A q \in Processes : Busy(q)' => SoundOp(proc'[q])
BY DEF TypeInv, Ready, Busy, Idle

\* The dashboard's, or another's, state is the same after a step of p.
LEMMA OthersStay ==
    ASSUME NEW p, Ready(p), NEW q \in Processes, q # p
    PROVE  proc'[q] = proc[q] /\ (Busy(q)' <=> Busy(q)) /\ \A f : BusyOn(q, f)' <=> BusyOn(q, f)
BY DEF Ready, Busy, BusyOn

\* The new version of the file.
LEMMA DumpFacts ==
    ASSUME TypeInv, NEW p \in Processes, Dump(p),
           NEW c, c = proc[p].change, NEW copy, copy = proc[p].copy
    PROVE  /\ Ready(p) /\ Busy(p) /\ proc[p] \in Ops /\ proc[p].pc = "dump"
           /\ proc'[p] \in Ops /\ proc'[p].change = c /\ proc'[p].pc = "done"
           /\ proc'[p].done = proc[p].done /\ SoundOp(proc'[p])
           /\ Sound(c) /\ c \in Changes /\ DOMAIN copy = c.keep /\ copy \in Writes
           /\ content' = [e \in Entries |->
                            IF e \in Written(c) THEN c.write[e]
                            ELSE IF e \in c.keep THEN copy[e]
                            ELSE IF FileOf(e) = c.file THEN 0 ELSE content[e]]
           /\ torn' = torn \ {c.file}
           /\ acked' = [e \in Entries |-> IF e \in Written(c) THEN c.write[e] ELSE acked[e]]
           /\ replaced' = (replaced \ Written(c)) \cup
                            (IF {Flags, Semantic} \cap Written(c) = {} THEN {}
                             ELSE EntriesOf(c.file) \ (Written(c) \cup c.keep))
           /\ excused' = IF Overlaps(p, c.file) THEN excused ELSE excused \ Written(c)
<1> DEFINE new == Updated(copy, c.write)
           gone == EntriesOf(c.file) \ DOMAIN new
<1>1. Busy(p) /\ proc[p] \in Ops /\ SoundOp(proc[p]) /\ proc[p].pc = "dump" /\ Advance(p, "done")
  BY ProcFacts DEF Dump, TypeInv, Busy
<1>2. /\ Ready(p) /\ proc'[p] \in Ops /\ proc'[p].change = c /\ proc'[p].pc = "done"
      /\ proc'[p].done = proc[p].done /\ SoundOp(proc'[p])
  BY <1>1, AdvanceProc
<1>3. Sound(c) /\ c \in Changes /\ DOMAIN copy = c.keep /\ copy \in Writes
  BY <1>1 DEF SoundOp, Ops
<1>4. DOMAIN new = Written(c) \cup c.keep
  BY <1>3 DEF Updated, Written
<1>5. \A e \in DOMAIN new : new[e] = IF e \in Written(c) THEN c.write[e] ELSE copy[e]
  BY DEF Updated, Written
<1>6. Written(c) \subseteq Entries /\ c.keep \subseteq Entries
  BY <1>3, WritesFacts DEF Changes, Written
<1>7. /\ content' = [e \in Entries |-> IF e \in DOMAIN new THEN new[e]
                                       ELSE IF e \in gone THEN 0 ELSE content[e]]
      /\ torn' = torn \ {c.file}
      /\ acked' = Updated(acked, c.write)
      /\ replaced' = (replaced \ Written(c)) \cup
                        (IF {Flags, Semantic} \cap Written(c) = {} THEN {} ELSE gone)
      /\ excused' = IF Overlaps(p, c.file) THEN excused ELSE excused \ Written(c)
  BY DEF Dump, Written
<1> HIDE DEF new
<1>8. gone = EntriesOf(c.file) \ (Written(c) \cup c.keep)
  BY <1>4
<1>9. \A e \in Entries : e \in gone <=> FileOf(e) = c.file /\ e \notin Written(c) /\ e \notin c.keep
  BY <1>8 DEF EntriesOf
<1>10. content' = [e \in Entries |-> IF e \in Written(c) THEN c.write[e]
                                     ELSE IF e \in c.keep THEN copy[e]
                                     ELSE IF FileOf(e) = c.file THEN 0 ELSE content[e]]
  BY <1>4, <1>5, <1>7, <1>9
<1>11. acked' = [e \in Entries |-> IF e \in Written(c) THEN c.write[e] ELSE acked[e]]
  <2>1. DOMAIN acked \cup DOMAIN c.write = Entries
    BY <1>6 DEF TypeInv, Written
  <2>2. QED
    BY <1>7, <2>1 DEF Updated, Written
<1>12. QED
  BY <1>1, <1>2, <1>3, <1>7, <1>8, <1>10, <1>11

LEMMA FinishMemory ==
    ASSUME TypeInv, NEW p \in Processes, Finish(p)
    PROVE  /\ config' \in [Services -> Configs] /\ agents' \in {agents, NoAgents}
           /\ uiProvider' = uiProvider
           /\ config'[Dashboard].provider = config[Dashboard].provider
           /\ \A e \in Shown : Used(e)' = Used(e)
<1>1. Busy(p) /\ proc[p] \in Ops /\ SoundOp(proc[p])
  BY ProcFacts DEF Finish, TypeInv, Busy
<1>2. PICK c : c = proc[p].change
  OBVIOUS
<1>3. c \in Changes
  BY <1>1, <1>2 DEF Ops
<1>4. CASE UNCHANGED memory
  BY <1>4 DEF memory, TypeInv, Used
<1>5. CASE proc[p].done = "key" /\ ~UNCHANGED memory /\ AfterKeyChange(c)
  <2>1. PICK q \in Providers : q = config[Dashboard].provider
    BY DEF TypeInv, Configs, Services
  <2>2. PICK k : k = IF c.lazy THEN None ELSE <<q, c.write[Key(q)]>>
    OBVIOUS
  <2>3. /\ config' = [config EXCEPT ![Dashboard].apiKey = k]
        /\ agents' = NoAgents /\ uiProvider' = uiProvider /\ Key(q) \in Written(c)
    BY <1>5, <2>1, <2>2 DEF AfterKeyChange, Written
  <2>4. k \in ApiKeys
    <3>1. CASE c.lazy
      BY <2>2, <3>1 DEF ApiKeys
    <3>2. CASE ~c.lazy
      <4>1. c.write[Key(q)] # 0
        BY <1>1, <1>2, <1>5, <2>3, <3>2 DEF SoundOp
      <4>2. c.write[Key(q)] \in Value
        BY <1>3, <2>3, WritesFacts DEF Changes, Written
      <4>3. QED
        BY <2>2, <3>2, <4>1, <4>2 DEF ApiKeys, Value
    <3>3. QED
      BY <3>1, <3>2
  <2>5. config' \in [Services -> Configs]
    BY <2>3, <2>4 DEF TypeInv, Configs, Services
  <2>6. /\ config'[Dashboard].provider = config[Dashboard].provider
        /\ config'[Dashboard].flags = config[Dashboard].flags
        /\ config'[Dashboard].semantic = config[Dashboard].semantic
        /\ config'[Dashboard].watch = config[Dashboard].watch
        /\ config'[Dashboard].rerank = config[Dashboard].rerank
    BY <2>3 DEF TypeInv, Configs, Services
  <2>7. QED
    BY <2>3, <2>5, <2>6 DEF Used
<1>6. CASE AfterAdvanced
  <2>1. Read(Retrieval) \in Value
    BY ReadFacts, EntryFacts DEF TypeInv
  <2>2. config' = [config EXCEPT ![Dashboard].retrieval = Read(Retrieval)]
    BY <1>6 DEF AfterAdvanced, EffectiveConstants
  <2>3. config' \in [Services -> Configs]
    BY <2>1, <2>2 DEF TypeInv, Configs, Services
  <2>4. /\ config'[Dashboard].provider = config[Dashboard].provider
        /\ config'[Dashboard].flags = config[Dashboard].flags
        /\ config'[Dashboard].semantic = config[Dashboard].semantic
        /\ config'[Dashboard].watch = config[Dashboard].watch
        /\ config'[Dashboard].rerank = config[Dashboard].rerank
    BY <2>2 DEF TypeInv, Configs, Services
  <2>5. QED
    BY <1>6, <2>3, <2>4 DEF AfterAdvanced, Used
<1>7. CASE AfterLangsmith(c)
  <2>1. Read(LangSmith) \in Value /\ 0 \in Value
    BY ReadFacts, EntryFacts, Values DEF TypeInv
  <2>2. PICK v : v = IF c.lazy THEN 0 ELSE IF Read(LangSmith) = 0 THEN config[Dashboard].tracing
                                          ELSE Read(LangSmith)
    OBVIOUS
  <2>3. v \in Value
    BY <2>1, <2>2 DEF TypeInv, Configs, Services
  <2>4. config' = [config EXCEPT ![Dashboard].tracing = v]
    BY <1>7, <2>2 DEF AfterLangsmith
  <2>5. config' \in [Services -> Configs]
    BY <2>3, <2>4 DEF TypeInv, Configs, Services
  <2>6. /\ config'[Dashboard].provider = config[Dashboard].provider
        /\ config'[Dashboard].flags = config[Dashboard].flags
        /\ config'[Dashboard].semantic = config[Dashboard].semantic
        /\ config'[Dashboard].watch = config[Dashboard].watch
        /\ config'[Dashboard].rerank = config[Dashboard].rerank
    BY <2>4 DEF TypeInv, Configs, Services
  <2>7. QED
    BY <1>7, <2>5, <2>6 DEF AfterLangsmith, Used
<1>8. QED
  BY <1>2, <1>4, <1>5, <1>6, <1>7 DEF Finish

LEMMA PatchConfigFacts ==
    ASSUME TypeInv, NEW p \in Providers, PatchConfig(p)
    PROVE  /\ proc[Dashboard] = Idle /\ agents' = NoAgents
           /\ config' \in [Services -> Configs]
           /\ uiProvider' \in [Value -> Providers \cup {None}]
           /\ Used(Flags)' = IF Used(Flags) = 0 THEN Read(Flags) ELSE Used(Flags)
           /\ Used(Semantic)' = IF Used(Flags) = 0 /\ Used(Semantic) = 0
                                  THEN Read(Semantic) ELSE Used(Semantic)
           /\ Used(Watch)' = IF Used(Watch) = 0 THEN Read(Watch) ELSE Used(Watch)
           /\ Used(Rerank)' = IF Used(Rerank) = 0 THEN Read(Rerank) ELSE Used(Rerank)
<1>1. PICK c : c = config[Dashboard]
  OBVIOUS
<1>2. PICK b : b = [c EXCEPT !.provider = p, !.apiKey = None]
  OBVIOUS
<1>3. PICK d : d = PostInit(b)
  OBVIOUS
<1>4. /\ proc[Dashboard] = Idle /\ agents' = NoAgents
      /\ uiProvider' = [uiProvider EXCEPT ![c.db] = p]
      /\ config' = [config EXCEPT ![Dashboard] = d]
  BY <1>1, <1>2, <1>3 DEF PatchConfig
<1>5. c \in Configs
  BY <1>1 DEF TypeInv, Services
<1>6. /\ b \in Configs /\ b.flags = c.flags /\ b.semantic = c.semantic
      /\ b.watch = c.watch /\ b.rerank = c.rerank
  BY <1>2, <1>5 DEF Configs, ApiKeys
<1>7. /\ d \in Configs
      /\ d.flags = IF c.flags = 0 THEN Read(Flags) ELSE c.flags
      /\ d.semantic = IF c.flags = 0 /\ c.semantic = 0 THEN Read(Semantic) ELSE c.semantic
      /\ d.watch = IF c.watch = 0 THEN Read(Watch) ELSE c.watch
      /\ d.rerank = IF c.rerank = 0 THEN Read(Rerank) ELSE c.rerank
  BY <1>3, <1>6, PostInitFacts DEF TypeInv
<1>8. config'[Dashboard] = d /\ config' \in [Services -> Configs]
  BY <1>4, <1>7 DEF TypeInv, Services
<1>9. /\ Used(Flags)' = d.flags /\ Used(Semantic)' = d.semantic
      /\ Used(Watch)' = d.watch /\ Used(Rerank)' = d.rerank
  BY <1>8, ShownDiffer DEF Used
<1>10. /\ Used(Flags) = c.flags /\ Used(Semantic) = c.semantic
       /\ Used(Watch) = c.watch /\ Used(Rerank) = c.rerank
  BY <1>1, ShownDiffer DEF Used
<1>11. uiProvider' \in [Value -> Providers \cup {None}]
  BY <1>4 DEF TypeInv
<1>12. QED
  BY <1>4, <1>7, <1>8, <1>9, <1>10, <1>11

LEMMA NoAgentsType == NoAgents \in [Providers -> ApiKeys]
BY DEF NoAgents, ApiKeys

LEMMA TypeInit == Init => TypeInv
<1> SUFFICES ASSUME Init PROVE TypeInv
  OBVIOUS
<1>1. content \in [Entries -> Value] /\ acked \in [Entries -> Value]
  BY Values DEF Init, Default
<1>2. uiProvider \in [Value -> Providers \cup {None}]
  BY DEF Init
<1>3. StartDashboard \in Configs /\ StartFramework \in Configs
  BY <1>1, <1>2, StartFacts
<1>4. config \in [Services -> Configs]
  BY <1>3 DEF Init
<1>5. proc \in [Processes -> {Idle} \cup Ops] /\ \A p \in Processes : ~Busy(p)
  BY DEF Init, Busy, Idle
<1>6. QED
  BY <1>1, <1>2, <1>4, <1>5, NoAgentsType DEF Init, TypeInv

LEMMA TypeStep == TypeInv /\ [Next]_vars => TypeInv'
<1> SUFFICES ASSUME TypeInv, [Next]_vars PROVE TypeInv'
  OBVIOUS
<1> USE NoAgentsType
<1>1. CASE UNCHANGED vars
  BY <1>1 DEF TypeInv, vars, disk, memory, history, Busy
<1>2. CASE Begins
  <2>0. PICK p \in Processes : \E c, d : BeginStep(p, c, d)
    BY <1>2 DEF Begins
  <2>1. PICK c, d : BeginStep(p, c, d)
    BY <2>0
  <2>2. Ready(p) /\ SoundOp(proc'[p])
    BY <2>1, BeginProc
  <2>3. \A q \in Processes : Busy(q)' => SoundOp(proc'[q])
    BY <2>2, StillSound
  <2>4. /\ UNCHANGED <<content, acked, torn, replaced, uiProvider>>
        /\ config' \in [Services -> Configs] /\ agents' \in {agents, NoAgents}
    BY <2>1 DEF BeginStep, Takes, Begin, disk
  <2>5. excused' \subseteq Entries
    BY <2>1 DEF BeginStep, Begin, TypeInv, EntriesOf
  <2>6. QED
    BY <2>2, <2>3, <2>4, <2>5 DEF TypeInv, Ready
<1>3. ASSUME NEW p \in Providers, PatchConfig(p)
      PROVE  TypeInv'
  <2>1. UNCHANGED <<content, acked, torn, replaced, excused, proc>>
    BY <1>3 DEF PatchConfig, disk, history
  <2>2. /\ config' \in [Services -> Configs] /\ agents' = NoAgents
        /\ uiProvider' \in [Value -> Providers \cup {None}]
    BY <1>3, PatchConfigFacts
  <2>3. QED
    BY <2>1, <2>2 DEF TypeInv, Busy
<1>4. ASSUME NEW p \in Providers, Ask(p)
      PROVE  TypeInv'
  <2>1. UNCHANGED <<content, acked, torn, replaced, excused, proc, config, uiProvider>>
    BY <1>4 DEF Ask, disk, history
  <2>2. agents' \in [Providers -> ApiKeys]
    BY <1>4, ResolveFacts DEF Ask, AgentKey, TypeInv
  <2>3. QED
    BY <2>1, <2>2 DEF TypeInv, Busy
<1>5. ASSUME NEW p \in Processes, Load(p)
      PROVE  TypeInv'
  <2>1. Ready(p) /\ SoundOp(proc'[p])
    BY <1>5, LoadProc
  <2>2. \A q \in Processes : Busy(q)' => SoundOp(proc'[q])
    BY <2>1, StillSound
  <2>3. UNCHANGED <<content, acked, torn, replaced, excused, config, uiProvider, agents>>
    BY <1>5 DEF Load, disk, memory, history
  <2>4. QED
    BY <2>1, <2>2, <2>3 DEF TypeInv, Ready
<1>6. ASSUME NEW p \in Processes, Truncate(p)
      PROVE  TypeInv'
  <2>1. Advance(p, "dump") /\ proc[p].pc = "open" /\ Busy(p)
    BY <1>6 DEF Truncate, Busy
  <2>2. Ready(p) /\ SoundOp(proc'[p]) /\ proc[p] \in Ops
    BY <2>1, AdvanceProc
  <2>3. \A q \in Processes : Busy(q)' => SoundOp(proc'[q])
    BY <2>2, StillSound
  <2>4. torn' \subseteq Files
    BY <1>6, <2>2 DEF Truncate, TypeInv, Ops, Changes
  <2>5. UNCHANGED <<content, acked, replaced, excused, config, uiProvider, agents>>
    BY <1>6 DEF Truncate, memory, history
  <2>6. QED
    BY <2>2, <2>3, <2>4, <2>5 DEF TypeInv, Ready
<1>7. ASSUME NEW p \in Processes, Dump(p)
      PROVE  TypeInv'
  <2>1. PICK c, copy : c = proc[p].change /\ copy = proc[p].copy
    OBVIOUS
  <2>2. /\ Ready(p) /\ SoundOp(proc'[p])
        /\ c \in Changes /\ DOMAIN copy = c.keep /\ copy \in Writes
        /\ content' = [e \in Entries |->
                         IF e \in Written(c) THEN c.write[e]
                         ELSE IF e \in c.keep THEN copy[e]
                         ELSE IF FileOf(e) = c.file THEN 0 ELSE content[e]]
        /\ torn' = torn \ {c.file}
        /\ acked' = [e \in Entries |-> IF e \in Written(c) THEN c.write[e] ELSE acked[e]]
        /\ replaced' = (replaced \ Written(c)) \cup
                         (IF {Flags, Semantic} \cap Written(c) = {} THEN {}
                          ELSE EntriesOf(c.file) \ (Written(c) \cup c.keep))
        /\ excused' = IF Overlaps(p, c.file) THEN excused ELSE excused \ Written(c)
    BY <1>7, <2>1, DumpFacts
  <2>3. \A q \in Processes : Busy(q)' => SoundOp(proc'[q])
    BY <2>2, StillSound
  <2>4. (\A e \in Written(c) : c.write[e] \in Value) /\ (\A e \in c.keep : copy[e] \in Value)
    BY <2>2, WritesFacts DEF Changes, Written
  <2>5. content' \in [Entries -> Value] /\ acked' \in [Entries -> Value]
    BY <2>2, <2>4, Values DEF TypeInv
  <2>6. replaced' \subseteq Entries /\ excused' \subseteq Entries /\ torn' \subseteq Files
    BY <2>2 DEF TypeInv, EntriesOf
  <2>7. UNCHANGED <<config, uiProvider, agents>>
    BY <1>7 DEF Dump, memory
  <2>8. QED
    BY <2>2, <2>3, <2>5, <2>6, <2>7 DEF TypeInv, Ready
<1>8. ASSUME NEW p \in Processes, Finish(p)
      PROVE  TypeInv'
  <2>1. Ready(p) /\ proc'[p] = Idle
    BY <1>8, IdleProc DEF Finish
  <2>2. \A q \in Processes : Busy(q)' => SoundOp(proc'[q])
    BY <2>1, StillSound
  <2>3. UNCHANGED <<content, acked, torn, replaced, excused>>
    BY <1>8 DEF Finish, disk, history
  <2>4. /\ config' \in [Services -> Configs] /\ agents' \in {agents, NoAgents}
        /\ uiProvider' = uiProvider
    BY <1>8, FinishMemory
  <2>5. QED
    BY <2>1, <2>2, <2>3, <2>4 DEF TypeInv, Ready
<1>9. ASSUME NEW p \in Processes, Restart(p)
      PROVE  TypeInv'
  <2>1. Ready(p) /\ proc'[p] = Idle
    BY <1>9, IdleProc DEF Restart
  <2>2. \A q \in Processes : Busy(q)' => SoundOp(proc'[q])
    BY <2>1, StillSound
  <2>3. UNCHANGED <<content, acked, torn, replaced, uiProvider>>
    BY <1>9 DEF Restart, disk
  <2>4. excused' \subseteq Entries
    BY <1>9 DEF Restart, TypeInv, EntriesOf
  <2>5. agents' \in {agents, NoAgents}
    BY <1>9 DEF Restart
  <2>6. config' \in [Services -> Configs]
    <3>1. StartDashboard \in Configs /\ StartFramework \in Configs
      BY StartFacts DEF TypeInv
    <3>2. QED
      BY <1>9, <3>1 DEF Restart, TypeInv, Services
  <2>7. QED
    BY <2>1, <2>2, <2>3, <2>4, <2>5, <2>6 DEF TypeInv, Ready
<1>10. QED
  BY <1>1, <1>2, <1>3, <1>4, <1>5, <1>6, <1>7, <1>8, <1>9, Steps

-----------------------------------------------------------------------------
(* What was saved stays in its file. *)

Known == Entries \ (excused \cup replaced)

\* Two processes that work on one file overlapped.
Apart ==
    \A p, q \in Processes : \A e \in Entries :
        p # q /\ BusyOn(p, FileOf(e)) /\ BusyOn(q, FileOf(e)) => e \in excused

\* A torn file is being filled, or a save of it was cut.
TornInv ==
    \A e \in Entries \ excused : FileOf(e) \in torn =>
        \E p \in Processes : BusyOn(p, FileOf(e)) /\ proc[p].pc = "dump"

ContentInv == \A e \in Known : content[e] = acked[e]

\* The copy of the file in a save holds what was saved last, too.
CopyInv ==
    \A p \in Processes : proc[p].pc \in {"open", "dump"} =>
        \A e \in Known : e \in proc[p].change.keep => proc[p].copy[e] = acked[e]

StayInv == Apart /\ TornInv /\ ContentInv /\ CopyInv

LEMMA OverlapFacts ==
    ASSUME TypeInv, NEW p \in Processes, NEW f
    PROVE  Overlaps(p, f) <=> \E q \in Processes \ {p} : BusyOn(q, f)
BY DEF Overlaps, Others, BusyOn, Busy

\* Steps that touch neither the files nor the operations.
LEMMA StayByMemory ==
    ASSUME StayInv, UNCHANGED <<content, torn, proc, acked, excused, replaced>>
    PROVE  StayInv'
<1>1. Apart'
  BY DEF StayInv, Apart, BusyOn, Busy
<1>2. TornInv' /\ ContentInv' /\ CopyInv'
  BY DEF StayInv, TornInv, ContentInv, CopyInv, Known, BusyOn, Busy
<1>3. QED
  BY <1>1, <1>2 DEF StayInv

LEMMA StayBegin ==
    ASSUME TypeInv, StayInv, NEW p \in Processes, NEW c, NEW d, BeginStep(p, c, d)
    PROVE  StayInv'
<1>1. /\ Ready(p) /\ ~Busy(p) /\ proc'[p].change = c
      /\ proc'[p].pc = (IF c.keep = {} THEN "open" ELSE "load")
  BY BeginProc
<1>2. /\ UNCHANGED <<content, torn, acked, replaced>>
      /\ excused' = IF Overlaps(p, c.file) THEN excused \cup EntriesOf(c.file) ELSE excused
  BY DEF BeginStep, Begin, disk
<1>3. Apart'
  <2> SUFFICES ASSUME NEW q \in Processes, NEW r \in Processes, NEW e \in Entries, q # r,
                      BusyOn(q, FileOf(e))', BusyOn(r, FileOf(e))'
               PROVE  e \in excused'
    BY DEF Apart
  <2>1. CASE q # p /\ r # p
    <3>1. BusyOn(q, FileOf(e)) /\ BusyOn(r, FileOf(e))
      BY <1>1, <2>1 DEF Ready, BusyOn, Busy
    <3>2. QED
      BY <1>2, <3>1 DEF StayInv, Apart
  <2>2. CASE q = p
    <3>1. BusyOn(r, FileOf(e)) /\ r # p /\ FileOf(e) = c.file
      BY <1>1, <2>2 DEF Ready, BusyOn, Busy
    <3>2. Overlaps(p, c.file) /\ e \in EntriesOf(c.file)
      BY <3>1, OverlapFacts DEF EntriesOf
    <3>3. QED
      BY <1>2, <3>2
  <2>3. CASE r = p
    <3>1. BusyOn(q, FileOf(e)) /\ q # p /\ FileOf(e) = c.file
      BY <1>1, <2>3 DEF Ready, BusyOn, Busy
    <3>2. Overlaps(p, c.file) /\ e \in EntriesOf(c.file)
      BY <3>1, OverlapFacts DEF EntriesOf
    <3>3. QED
      BY <1>2, <3>2
  <2>4. QED
    BY <2>1, <2>2, <2>3
<1>4. TornInv'
  <2> SUFFICES ASSUME NEW e \in Entries, e \notin excused', FileOf(e) \in torn'
               PROVE  \E q \in Processes : BusyOn(q, FileOf(e))' /\ proc'[q].pc = "dump"
    BY DEF TornInv
  <2>1. PICK q \in Processes : BusyOn(q, FileOf(e)) /\ proc[q].pc = "dump"
    BY <1>2 DEF StayInv, TornInv
  <2>2. q # p
    BY <1>1, <2>1 DEF BusyOn
  <2>3. QED
    BY <1>1, <2>1, <2>2 DEF Ready, BusyOn, Busy
<1>5. Known' \subseteq Known
  BY <1>2 DEF Known
<1>6. ContentInv'
  BY <1>2, <1>5 DEF StayInv, ContentInv
<1>7. CopyInv'
  <2> SUFFICES ASSUME NEW q \in Processes, proc'[q].pc \in {"open", "dump"},
                      NEW e \in Known', e \in proc'[q].change.keep
               PROVE  proc'[q].copy[e] = acked'[e]
    BY DEF CopyInv
  <2>1. q # p
    BY <1>1
  <2>2. proc'[q] = proc[q] /\ acked' = acked /\ e \in Known
    BY <1>1, <1>2, <1>5, <2>1 DEF Ready
  <2>3. QED
    BY <2>2 DEF StayInv, CopyInv
<1>8. QED
  BY <1>3, <1>4, <1>6, <1>7 DEF StayInv

\* An operation that goes on keeps its file; one that ends leaves it.
LEMMA ApartStays ==
    ASSUME StayInv, NEW p \in Processes, Ready(p), excused \subseteq excused',
           proc'[p] = Idle \/ (Busy(p) /\ proc'[p].change = proc[p].change)
    PROVE  Apart'
<1> SUFFICES ASSUME NEW q \in Processes, NEW r \in Processes, NEW e \in Entries, q # r,
                    BusyOn(q, FileOf(e))', BusyOn(r, FileOf(e))'
             PROVE  e \in excused'
  BY DEF Apart
<1>1. \A s \in Processes : BusyOn(s, FileOf(e))' => BusyOn(s, FileOf(e))
  BY DEF Ready, BusyOn, Busy, Idle
<1>2. QED
  BY <1>1 DEF StayInv, Apart

LEMMA StayLoad ==
    ASSUME TypeInv, StayInv, NEW p \in Processes, Load(p)
    PROVE  StayInv'
<1>1. /\ Ready(p) /\ Busy(p) /\ proc[p].pc = "load" /\ SoundOp(proc'[p])
      /\ proc'[p].change = proc[p].change /\ proc'[p].pc \in {"open", "done"}
      /\ \A e \in proc[p].change.keep : proc'[p].copy[e] = Read(e)
  BY LoadProc
<1>2. UNCHANGED <<content, torn, acked, excused, replaced>>
  BY DEF Load, disk, history
<1>3. Apart'
  BY <1>1, <1>2, ApartStays
<1>4. TornInv'
  <2> SUFFICES ASSUME NEW e \in Entries, e \notin excused', FileOf(e) \in torn'
               PROVE  \E q \in Processes : BusyOn(q, FileOf(e))' /\ proc'[q].pc = "dump"
    BY DEF TornInv
  <2>1. PICK q \in Processes : BusyOn(q, FileOf(e)) /\ proc[q].pc = "dump"
    BY <1>2 DEF StayInv, TornInv
  <2>2. q # p
    BY <1>1, <2>1
  <2>3. QED
    BY <1>1, <2>1, <2>2 DEF Ready, BusyOn, Busy
<1>5. Known' = Known
  BY <1>2 DEF Known
<1>6. ContentInv'
  BY <1>2, <1>5 DEF StayInv, ContentInv
<1>7. CopyInv'
  <2> SUFFICES ASSUME NEW q \in Processes, proc'[q].pc \in {"open", "dump"},
                      NEW e \in Known, e \in proc'[q].change.keep
               PROVE  proc'[q].copy[e] = acked'[e]
    BY <1>5 DEF CopyInv
  <2>1. CASE q # p
    <3>1. proc'[q] = proc[q] /\ acked' = acked
      BY <1>1, <1>2, <2>1 DEF Ready
    <3>2. QED
      BY <3>1 DEF StayInv, CopyInv
  <2>2. CASE q = p
    <3>1. e \in Entries /\ e \notin excused /\ e \in proc[p].change.keep
      BY <1>1, <2>2 DEF Known
    <3>2. FileOf(e) = proc[p].change.file
      BY <1>1, <2>2 DEF SoundOp, Sound, EntriesOf
    <3>3. FileOf(e) \notin torn
      <4> SUFFICES ASSUME FileOf(e) \in torn PROVE FALSE
        OBVIOUS
      <4>1. PICK r \in Processes : BusyOn(r, FileOf(e)) /\ proc[r].pc = "dump"
        BY <3>1 DEF StayInv, TornInv
      <4>2. r # p /\ BusyOn(p, FileOf(e))
        BY <1>1, <3>2, <4>1 DEF BusyOn
      <4>3. QED
        BY <3>1, <4>1, <4>2 DEF StayInv, Apart
    <3>4. Read(e) = acked[e]
      BY <3>1, <3>3 DEF Read, StayInv, ContentInv
    <3>5. QED
      BY <1>1, <1>2, <2>2, <3>1, <3>4
  <2>3. QED
    BY <2>1, <2>2
<1>8. QED
  BY <1>3, <1>4, <1>6, <1>7 DEF StayInv

LEMMA StayTruncate ==
    ASSUME TypeInv, StayInv, NEW p \in Processes, Truncate(p)
    PROVE  StayInv'
<1>1. Advance(p, "dump") /\ proc[p].pc = "open" /\ Busy(p)
  BY DEF Truncate, Busy
<1>2. /\ Ready(p) /\ proc'[p].change = proc[p].change /\ proc'[p].pc = "dump"
      /\ proc'[p].copy = proc[p].copy
  BY <1>1, AdvanceProc
<1>3. UNCHANGED <<content, acked, excused, replaced>> /\ torn' = torn \cup {proc[p].change.file}
  BY DEF Truncate, history
<1>4. Apart'
  BY <1>1, <1>2, <1>3, ApartStays
<1>5. TornInv'
  <2> SUFFICES ASSUME NEW e \in Entries, e \notin excused', FileOf(e) \in torn'
               PROVE  \E q \in Processes : BusyOn(q, FileOf(e))' /\ proc'[q].pc = "dump"
    BY DEF TornInv
  <2>1. CASE FileOf(e) = proc[p].change.file
    BY <1>2, <2>1 DEF BusyOn, Busy
  <2>2. CASE FileOf(e) # proc[p].change.file
    <3>1. PICK q \in Processes : BusyOn(q, FileOf(e)) /\ proc[q].pc = "dump"
      BY <1>3, <2>2 DEF StayInv, TornInv
    <3>2. q # p
      BY <1>1, <3>1
    <3>3. QED
      BY <1>2, <3>1, <3>2 DEF Ready, BusyOn, Busy
  <2>3. QED
    BY <2>1, <2>2
<1>6. Known' = Known
  BY <1>3 DEF Known
<1>7. ContentInv'
  BY <1>3, <1>6 DEF StayInv, ContentInv
<1>8. CopyInv'
  <2> SUFFICES ASSUME NEW q \in Processes, proc'[q].pc \in {"open", "dump"},
                      NEW e \in Known, e \in proc'[q].change.keep
               PROVE  proc'[q].copy[e] = acked'[e]
    BY <1>6 DEF CopyInv
  <2>1. /\ proc[q].pc \in {"open", "dump"} /\ proc'[q].copy = proc[q].copy
        /\ proc'[q].change = proc[q].change
    BY <1>1, <1>2 DEF Ready
  <2>2. QED
    BY <1>3, <2>1 DEF StayInv, CopyInv
<1>9. QED
  BY <1>4, <1>5, <1>7, <1>8 DEF StayInv

LEMMA StayDump ==
    ASSUME TypeInv, StayInv, NEW p \in Processes, Dump(p)
    PROVE  StayInv'
<1>1. PICK c, copy : c = proc[p].change /\ copy = proc[p].copy
  OBVIOUS
<1>2. /\ Ready(p) /\ Busy(p) /\ proc[p].pc = "dump"
      /\ proc'[p].change = c /\ proc'[p].pc = "done" /\ Sound(c)
      /\ content' = [e \in Entries |->
                       IF e \in Written(c) THEN c.write[e]
                       ELSE IF e \in c.keep THEN copy[e]
                       ELSE IF FileOf(e) = c.file THEN 0 ELSE content[e]]
      /\ torn' = torn \ {c.file}
      /\ acked' = [e \in Entries |-> IF e \in Written(c) THEN c.write[e] ELSE acked[e]]
      /\ replaced' = (replaced \ Written(c)) \cup
                       (IF {Flags, Semantic} \cap Written(c) = {} THEN {}
                        ELSE EntriesOf(c.file) \ (Written(c) \cup c.keep))
      /\ excused' = IF Overlaps(p, c.file) THEN excused ELSE excused \ Written(c)
  BY <1>1, DumpFacts
<1>3. \A e \in Entries : e \in Written(c) \/ e \in c.keep => FileOf(e) = c.file
  BY <1>2 DEF Sound, EntriesOf
<1>4. \A q \in Processes : \A f : BusyOn(q, f)' <=> BusyOn(q, f)
  BY <1>1, <1>2 DEF Ready, BusyOn, Busy
\* Whoever else works on the file: its entries stay excused.
<1>5. \A q \in Processes \ {p} : \A e \in Entries :
          BusyOn(q, FileOf(e)) /\ FileOf(e) = c.file => e \in excused /\ e \in excused'
  <2> SUFFICES ASSUME NEW q \in Processes \ {p}, NEW e \in Entries, BusyOn(q, FileOf(e)), FileOf(e) = c.file
               PROVE  e \in excused /\ e \in excused'
    OBVIOUS
  <2>1. Overlaps(p, c.file)
    BY OverlapFacts
  <2>2. BusyOn(p, FileOf(e))
    BY <1>1, <1>2 DEF BusyOn
  <2>3. QED
    BY <1>2, <2>1, <2>2 DEF StayInv, Apart
<1>6. Apart'
  <2> SUFFICES ASSUME NEW q \in Processes, NEW r \in Processes, NEW e \in Entries, q # r,
                      BusyOn(q, FileOf(e))', BusyOn(r, FileOf(e))'
               PROVE  e \in excused'
    BY DEF Apart
  <2>1. BusyOn(q, FileOf(e)) /\ BusyOn(r, FileOf(e))
    BY <1>4
  <2>2. e \in excused
    BY <2>1 DEF StayInv, Apart
  <2>3. CASE FileOf(e) = c.file
    BY <1>5, <2>1, <2>3
  <2>4. CASE FileOf(e) # c.file
    BY <1>2, <1>3, <2>2, <2>4
  <2>5. QED
    BY <2>3, <2>4
<1>7. TornInv'
  <2> SUFFICES ASSUME NEW e \in Entries, e \notin excused', FileOf(e) \in torn'
               PROVE  \E q \in Processes : BusyOn(q, FileOf(e))' /\ proc'[q].pc = "dump"
    BY DEF TornInv
  <2>1. FileOf(e) # c.file /\ FileOf(e) \in torn /\ e \notin excused
    BY <1>2, <1>3
  <2>2. PICK q \in Processes : BusyOn(q, FileOf(e)) /\ proc[q].pc = "dump"
    BY <2>1 DEF StayInv, TornInv
  <2>3. q # p
    BY <1>1, <2>1, <2>2 DEF BusyOn
  <2>4. QED
    BY <1>2, <2>2, <2>3 DEF Ready, BusyOn, Busy
<1>8. \A e \in Known' : e \in Written(c) \/ (e \in Known /\ e \in Entries /\ acked'[e] = acked[e])
  BY <1>2 DEF Known
<1>9. ContentInv'
  <2> SUFFICES ASSUME NEW e \in Known' PROVE content'[e] = acked'[e]
    BY DEF ContentInv
  <2>1. e \in Entries
    BY DEF Known
  <2>2. CASE e \in Written(c)
    BY <1>2, <2>1, <2>2
  <2>3. CASE e \notin Written(c) /\ e \in c.keep
    <3>1. copy[e] = acked[e]
      BY <1>1, <1>2, <1>8, <2>3 DEF StayInv, CopyInv
    <3>2. QED
      BY <1>2, <2>1, <2>3, <3>1
  <2>4. CASE e \notin Written(c) /\ e \notin c.keep /\ FileOf(e) = c.file
    <3>1. e \in EntriesOf(c.file)
      BY <2>1, <2>4 DEF EntriesOf
    <3>2. {Flags, Semantic} \cap Written(c) # {}
      BY <1>2, <2>4, <3>1 DEF Sound
    <3>3. e \in replaced'
      BY <1>2, <2>4, <3>1, <3>2
    <3>4. QED
      BY <3>3 DEF Known
  <2>5. CASE e \notin Written(c) /\ e \notin c.keep /\ FileOf(e) # c.file
    BY <1>2, <1>8, <2>1, <2>5 DEF StayInv, ContentInv
  <2>6. QED
    BY <2>2, <2>3, <2>4, <2>5
<1>10. CopyInv'
  <2> SUFFICES ASSUME NEW q \in Processes, proc'[q].pc \in {"open", "dump"},
                      NEW e \in Known', e \in proc'[q].change.keep
               PROVE  proc'[q].copy[e] = acked'[e]
    BY DEF CopyInv
  <2>1. q # p /\ proc'[q] = proc[q]
    BY <1>2 DEF Ready
  <2>2. Busy(q) /\ e \in Entries /\ e \notin excused'
    BY <2>1 DEF Busy, Known
  <2>3. FileOf(e) = proc[q].change.file
    BY <2>1, <2>2 DEF TypeInv, SoundOp, Sound, EntriesOf
  <2>4. BusyOn(q, FileOf(e))
    BY <2>2, <2>3 DEF BusyOn
  <2>5. FileOf(e) # c.file
    BY <1>5, <2>1, <2>2, <2>4
  <2>6. e \in Known /\ acked'[e] = acked[e]
    BY <1>3, <1>8, <2>2, <2>5
  <2>7. QED
    BY <2>1, <2>6 DEF StayInv, CopyInv
<1>11. QED
  BY <1>6, <1>7, <1>9, <1>10 DEF StayInv

\* The end of an operation, whether it finished or was killed.
LEMMA StayEnd ==
    ASSUME TypeInv, StayInv, NEW p \in Processes, Ready(p), proc'[p] = Idle,
           UNCHANGED <<content, torn, acked, replaced>>, excused \subseteq excused',
           proc[p].pc = "dump" => EntriesOf(proc[p].change.file) \subseteq excused'
    PROVE  StayInv'
<1>1. Apart'
  BY ApartStays
<1>2. TornInv'
  <2> SUFFICES ASSUME NEW e \in Entries, e \notin excused', FileOf(e) \in torn'
               PROVE  \E q \in Processes : BusyOn(q, FileOf(e))' /\ proc'[q].pc = "dump"
    BY DEF TornInv
  <2>1. PICK q \in Processes : BusyOn(q, FileOf(e)) /\ proc[q].pc = "dump"
    BY DEF StayInv, TornInv
  <2>2. q # p
    BY <2>1 DEF BusyOn, EntriesOf
  <2>3. QED
    BY <2>1, <2>2 DEF Ready, BusyOn, Busy
<1>3. Known' \subseteq Known
  BY DEF Known
<1>4. ContentInv'
  BY <1>3 DEF StayInv, ContentInv
<1>5. CopyInv'
  <2> SUFFICES ASSUME NEW q \in Processes, proc'[q].pc \in {"open", "dump"},
                      NEW e \in Known', e \in proc'[q].change.keep
               PROVE  proc'[q].copy[e] = acked'[e]
    BY DEF CopyInv
  <2>1. q # p
    BY DEF Idle
  <2>2. proc'[q] = proc[q] /\ acked' = acked /\ e \in Known
    BY <1>3, <2>1 DEF Ready
  <2>3. QED
    BY <2>2 DEF StayInv, CopyInv
<1>6. QED
  BY <1>1, <1>2, <1>4, <1>5 DEF StayInv

LEMMA StayInit == Init => StayInv
<1> SUFFICES ASSUME Init PROVE StayInv
  OBVIOUS
<1>1. \A p \in Processes : proc[p].pc = "idle"
  BY DEF Init, Idle
<1>2. torn = {} /\ acked = content
  BY DEF Init
<1>3. QED
  BY <1>1, <1>2 DEF StayInv, Apart, TornInv, ContentInv, CopyInv, Known, BusyOn, Busy

LEMMA StayStep == TypeInv /\ StayInv /\ [Next]_vars => StayInv'
<1> SUFFICES ASSUME TypeInv, StayInv, [Next]_vars PROVE StayInv'
  OBVIOUS
<1>1. CASE UNCHANGED vars
  BY <1>1, StayByMemory DEF vars, disk, history
<1>2. CASE Begins
  BY <1>2, StayBegin DEF Begins
<1>3. ASSUME NEW p \in Providers, PatchConfig(p) \/ Ask(p)
      PROVE  StayInv'
  BY <1>3, StayByMemory DEF PatchConfig, Ask, disk, history
<1>4. ASSUME NEW p \in Processes, Finish(p)
      PROVE  StayInv'
  <2>1. Ready(p) /\ proc'[p] = Idle
    BY <1>4, IdleProc DEF Finish
  <2>2. UNCHANGED <<content, torn, acked, replaced, excused>> /\ proc[p].pc = "done"
    BY <1>4 DEF Finish, disk, history
  <2>3. QED
    BY <2>1, <2>2, StayEnd
<1>5. ASSUME NEW p \in Processes, Restart(p)
      PROVE  StayInv'
  <2>1. Ready(p) /\ proc'[p] = Idle
    BY <1>5, IdleProc DEF Restart
  <2>2. /\ UNCHANGED <<content, torn, acked, replaced>>
        /\ excused' = IF proc[p].pc = "dump"
                        THEN excused \cup EntriesOf(proc[p].change.file) ELSE excused
    BY <1>5 DEF Restart, disk
  <2>3. QED
    BY <2>1, <2>2, StayEnd
<1>6. QED
  BY <1>1, <1>2, <1>3, <1>4, <1>5, Steps, StayLoad, StayTruncate, StayDump

LEMMA StaySafe == TypeInv /\ StayInv => SavedSettingsStay
<1> SUFFICES ASSUME TypeInv, StayInv,
                    NEW e \in Entries \ (excused \cup replaced), Quiet(FileOf(e))
             PROVE  Read(e) = acked[e]
  BY DEF SavedSettingsStay
<1>1. FileOf(e) \notin torn
  BY DEF StayInv, TornInv, BusyOn, Busy, Quiet, Idle
<1>2. QED
  BY <1>1 DEF Read, StayInv, ContentInv, Known

-----------------------------------------------------------------------------
(* What the dashboard shows, and what its agents use. *)

Mine(f) == f \notin foreign

\* The dashboard has begun to save the file and not filled it yet.
Saving(f) == BusyOn(Dashboard, f) /\ proc[Dashboard].pc # "done"
Writing(e) == Saving(FileOf(e)) /\ e \in Written(proc[Dashboard].change)
Dropping(e) ==
    /\ Saving(FileOf(e))
    /\ e \notin Written(proc[Dashboard].change) /\ e \notin proc[Dashboard].change.keep

\* What the file says once the dashboard's save is through.
Coming(e) ==
    LET op == proc[Dashboard] IN
    IF ~Saving(FileOf(e)) THEN Read(e)
    ELSE IF e \in Written(op.change) THEN op.change.write[e]
    ELSE IF e \notin op.change.keep THEN 0
    ELSE IF op.pc = "load" THEN Read(e) ELSE op.copy[e]

ForeignInv ==
    \A p \in Processes : p # Dashboard /\ Busy(p) => proc[p].change.file \in foreign

SemanticStays == Flags \notin replaced /\ Semantic \notin replaced

DoneInv ==
    Busy(Dashboard) => \A p \in Providers :
        Key(p) \in Written(proc[Dashboard].change) => proc[Dashboard].done = "key"

\* Nobody else writes the file of the dashboard's save: its copy is what the
\* file says, and the file is empty while it is filled.
CopyMine ==
    Busy(Dashboard) /\ Mine(proc[Dashboard].change.file) =>
        /\ proc[Dashboard].pc = "open" =>
               \A e \in proc[Dashboard].change.keep : proc[Dashboard].copy[e] = Read(e)
        /\ proc[Dashboard].pc = "dump" => proc[Dashboard].change.file \in torn

UsedInv ==
    Mine("settings") => \A e \in Shown :
        \/ e \in replaced /\ ~Writing(e)
        \/ Dropping(e)
        \/ Used(e) = Coming(e)

\* The save in progress, or its end, replaces the key of the provider.
Refreshing(p) == Busy(Dashboard) /\ Key(p) \in Written(proc[Dashboard].change)

KeyOf(p, k) == IF k = 0 THEN None ELSE <<p, k>>

KeyInv ==
    Mine("keys") => \A p \in Providers :
        p = config[Dashboard].provider /\ agents[p] # None =>
            Refreshing(p) \/ agents[p] = KeyOf(p, Coming(Key(p)))

LookInv == CopyMine /\ UsedInv /\ KeyInv /\ DoneInv
DashInv == ForeignInv /\ SemanticStays /\ LookInv

LEMMA ForeignStep == TypeInv /\ ForeignInv /\ [Next]_vars => ForeignInv'
<1> SUFFICES ASSUME TypeInv, ForeignInv, [Next]_vars,
                    NEW q \in Processes, q # Dashboard, Busy(q)'
             PROVE  proc'[q].change.file \in foreign'
  BY DEF ForeignInv
<1>1. CASE UNCHANGED vars
  BY <1>1 DEF vars, history, ForeignInv, Busy
<1>2. CASE Begins
  <2>0. PICK p \in Processes : \E c, d : BeginStep(p, c, d)
    BY <1>2 DEF Begins
  <2>1. PICK c, d : BeginStep(p, c, d)
    BY <2>0
  <2>2. /\ Ready(p) /\ proc'[p].change = c
        /\ foreign' = IF p = Dashboard THEN foreign ELSE foreign \cup {c.file}
    BY <2>1, BeginProc DEF BeginStep, Begin
  <2>3. CASE q = p
    BY <2>2, <2>3
  <2>4. CASE q # p
    BY <2>2, <2>4 DEF Ready, Busy, ForeignInv
  <2>5. QED
    BY <2>3, <2>4
<1>3. ASSUME NEW p \in Providers, PatchConfig(p) \/ Ask(p)
      PROVE  proc'[q].change.file \in foreign'
  BY <1>3 DEF PatchConfig, Ask, history, ForeignInv, Busy
<1>4. ASSUME NEW p \in Processes, Load(p) \/ Truncate(p) \/ Dump(p) \/ Finish(p)
      PROVE  proc'[q].change.file \in foreign'
  <2>1. foreign' = foreign
    BY <1>4 DEF Load, Truncate, Dump, Finish, history
  <2>2. /\ Ready(p) /\ Busy(p)
        /\ proc'[p] = Idle \/ proc'[p].change = proc[p].change
    <3>1. CASE Load(p)
      BY <3>1, LoadProc
    <3>2. CASE Truncate(p)
      BY <3>2, AdvanceProc DEF Truncate, Busy
    <3>3. CASE Dump(p)
      BY <3>3, AdvanceProc DEF Dump, Busy
    <3>4. CASE Finish(p)
      BY <3>4, IdleProc DEF Finish, Busy
    <3>5. QED
      BY <1>4, <3>1, <3>2, <3>3, <3>4
  <2>3. QED
    BY <2>1, <2>2 DEF Ready, Busy, Idle, ForeignInv
<1>5. ASSUME NEW p \in Processes, Restart(p)
      PROVE  proc'[q].change.file \in foreign'
  <2>1. Ready(p) /\ proc'[p] = Idle
    BY <1>5, IdleProc DEF Restart
  <2>2. q # p /\ proc'[q] = proc[q] /\ Busy(q)
    BY <2>1 DEF Ready, Busy, Idle
  <2>3. CASE p = Dashboard
    <3>1. foreign' = {proc[r].change.file : r \in Others(p)} /\ q \in Others(p)
      BY <1>5, <2>2, <2>3 DEF Restart, Others, Busy, Dashboard, Framework, CLI
    <3>2. QED
      BY <2>2, <3>1
  <2>4. CASE p # Dashboard
    BY <1>5, <2>2, <2>4 DEF Restart, ForeignInv
  <2>5. QED
    BY <2>3, <2>4
<1>6. QED
  BY <1>1, <1>2, <1>3, <1>4, <1>5, Steps

\* Only the end of a save changes what was replaced.
LEMMA ReplacedSteps ==
    ASSUME TypeInv, [Next]_vars
    PROVE  replaced' = replaced \/ \E p \in Processes : Dump(p)
<1>1. CASE UNCHANGED vars
  BY <1>1 DEF vars, history
<1>2. CASE Begins
  BY <1>2 DEF Begins, BeginStep, Begin
<1>3. ASSUME NEW p \in Providers, PatchConfig(p) \/ Ask(p)
      PROVE  replaced' = replaced
  BY <1>3 DEF PatchConfig, Ask, history
<1>4. ASSUME NEW p \in Processes, Load(p) \/ Truncate(p) \/ Finish(p) \/ Restart(p)
      PROVE  replaced' = replaced
  BY <1>4 DEF Load, Truncate, Finish, Restart, history
<1>5. QED
  BY <1>1, <1>2, <1>3, <1>4, Steps

LEMMA SemanticStep == TypeInv /\ SemanticStays /\ [Next]_vars => SemanticStays'
<1> SUFFICES ASSUME TypeInv, SemanticStays, [Next]_vars, NEW p \in Processes, Dump(p)
             PROVE  SemanticStays'
  BY ReplacedSteps DEF SemanticStays
<1>1. PICK c, copy : c = proc[p].change /\ copy = proc[p].copy
  OBVIOUS
<1>2. /\ Sound(c)
      /\ replaced' = (replaced \ Written(c)) \cup
                       (IF {Flags, Semantic} \cap Written(c) = {} THEN {}
                        ELSE EntriesOf(c.file) \ (Written(c) \cup c.keep))
  BY <1>1, DumpFacts
<1>3. \A e \in {Flags, Semantic} : e \in EntriesOf(c.file) => e \in Written(c) \cup c.keep
  BY <1>2, EntryFacts DEF Sound, EntriesOf, Shown
<1>4. QED
  BY <1>2, <1>3 DEF SemanticStays

\* A step of somebody else leaves the dashboard's files and memory alone.
LEMMA LookByOthers ==
    ASSUME LookInv, foreign \subseteq foreign', proc'[Dashboard] = proc[Dashboard],
           config'[Dashboard].provider = config[Dashboard].provider,
           agents' \in {agents, NoAgents},
           \A e \in Shown : Used(e)' = Used(e),
           \A e \in Entries : FileOf(e) \notin foreign' => Read(e)' = Read(e),
           \A f : f \notin foreign' => (f \in torn' <=> f \in torn),
           \A e \in Shown : "settings" \notin foreign' => (e \in replaced' <=> e \in replaced),
           Busy(Dashboard) => Sound(proc[Dashboard].change)
                              /\ proc[Dashboard].change \in Changes
    PROVE  LookInv'
<1>1. \A f : Mine(f)' => Mine(f)
  BY DEF Mine
<1>2. \A e \in Entries : Mine(FileOf(e))' => Coming(e)' = Coming(e)
  BY DEF Mine, Coming, Saving, BusyOn, Busy
<1>3. \A e \in Entries : (Writing(e)' <=> Writing(e)) /\ (Dropping(e)' <=> Dropping(e))
  BY DEF Writing, Dropping, Saving, BusyOn, Busy
<1>4. Busy(Dashboard)' <=> Busy(Dashboard)
  BY DEF Busy
<1>5. CopyMine'
  <2> SUFFICES ASSUME Busy(Dashboard)', Mine(proc[Dashboard].change.file)'
               PROVE  /\ proc[Dashboard].pc = "open" =>
                             \A e \in proc[Dashboard].change.keep :
                                 proc[Dashboard].copy[e] = Read(e)'
                      /\ proc[Dashboard].pc = "dump" => proc[Dashboard].change.file \in torn'
    BY DEF CopyMine
  <2>1. PICK f : f = proc[Dashboard].change.file
    OBVIOUS
  <2>2. f \notin foreign' /\ Mine(f)
    BY <1>1, <2>1 DEF Mine
  <2>3. \A e \in proc[Dashboard].change.keep : e \in Entries /\ FileOf(e) = f
    BY <1>4, <2>1 DEF Sound, EntriesOf
  <2>4. QED
    BY <1>4, <2>1, <2>2, <2>3 DEF LookInv, CopyMine
<1>6. UsedInv'
  <2> SUFFICES ASSUME Mine("settings")', NEW e \in Shown
               PROVE  (e \in replaced' /\ ~Writing(e)') \/ Dropping(e)' \/ Used(e)' = Coming(e)'
    BY DEF UsedInv
  <2>1. e \in Entries /\ FileOf(e) = "settings"
    BY EntryFacts
  <2>2. Coming(e)' = Coming(e) /\ Mine("settings") /\ (e \in replaced' <=> e \in replaced)
    BY <1>1, <1>2, <2>1 DEF Mine
  <2>3. QED
    BY <1>3, <2>1, <2>2 DEF LookInv, UsedInv
<1>7. KeyInv'
  <2> SUFFICES ASSUME Mine("keys")', NEW p \in Providers, p = config'[Dashboard].provider,
                      agents'[p] # None
               PROVE  Refreshing(p)' \/ agents'[p] = KeyOf(p, Coming(Key(p))')
    BY DEF KeyInv, KeyOf
  <2>1. agents' = agents
    BY DEF NoAgents
  <2>2. Coming(Key(p))' = Coming(Key(p)) /\ Mine("keys")
    BY <1>1, <1>2, ProviderEntries
  <2>3. Refreshing(p)' <=> Refreshing(p)
    BY DEF Refreshing, Busy
  <2>4. QED
    BY <2>1, <2>2, <2>3 DEF LookInv, KeyInv
<1>8. DoneInv'
  BY <1>4 DEF LookInv, DoneInv
<1>9. QED
  BY <1>5, <1>6, <1>7, <1>8 DEF LookInv

\* Somebody else's step of a save.
LEMMA OthersLook ==
    ASSUME TypeInv, DashInv, NEW p \in Processes, p # Dashboard,
           \/ \E c, d : BeginStep(p, c, d)
           \/ Load(p) \/ Truncate(p) \/ Dump(p) \/ Finish(p) \/ Restart(p)
    PROVE  LookInv'
<1>1. Busy(Dashboard) => Sound(proc[Dashboard].change) /\ proc[Dashboard].change \in Changes
  BY ProcFacts DEF TypeInv, SoundOp, Ops, Processes
<1>2. Dashboard \in Processes /\ LookInv
  BY DEF Processes, DashInv
<1>3. CASE \E c, d : BeginStep(p, c, d)
  <2>1. PICK c, d : BeginStep(p, c, d)
    BY <1>3
  <2>2. proc'[Dashboard] = proc[Dashboard]
    BY <1>2, <2>1, BeginProc DEF Ready
  <2>3. /\ UNCHANGED <<content, torn, replaced>> /\ foreign \subseteq foreign'
        /\ agents' = agents /\ config'[Dashboard] = config[Dashboard]
    BY <2>1 DEF BeginStep, Begin, Takes, disk
  <2>4. \A e : Read(e)' = Read(e)
    BY <2>3 DEF Read, Default
  <2>5. \A e \in Shown : Used(e)' = Used(e)
    BY <2>3 DEF Used
  <2>6. QED
    BY <1>1, <1>2, <2>2, <2>3, <2>4, <2>5, LookByOthers
<1>4. CASE Load(p)
  <2>1. proc'[Dashboard] = proc[Dashboard]
    BY <1>2, <1>4, LoadProc DEF Ready
  <2>2. UNCHANGED <<content, torn, replaced, foreign, agents, config>>
    BY <1>4 DEF Load, disk, memory, history
  <2>3. (\A e : Read(e)' = Read(e)) /\ (\A e \in Shown : Used(e)' = Used(e))
    BY <2>2 DEF Read, Default, Used
  <2>4. QED
    BY <1>1, <1>2, <2>1, <2>2, <2>3, LookByOthers
<1>5. CASE Truncate(p)
  <2>1. Busy(p) /\ Advance(p, "dump") /\ proc[p].pc = "open"
    BY <1>5 DEF Truncate, Busy
  <2>2. proc'[Dashboard] = proc[Dashboard]
    BY <1>2, <2>1, AdvanceProc DEF Ready
  <2>3. /\ UNCHANGED <<content, replaced, foreign, agents, config>>
        /\ torn' = torn \cup {proc[p].change.file}
    BY <1>5 DEF Truncate, memory, history
  <2>4. proc[p].change.file \in foreign
    BY <2>1 DEF DashInv, ForeignInv
  <2>5. \A f : f \notin foreign' => (f \in torn' <=> f \in torn)
    BY <2>3, <2>4
  <2>6. \A e \in Entries : FileOf(e) \notin foreign' => Read(e)' = Read(e)
    BY <2>3, <2>5 DEF Read, Default
  <2>7. \A e \in Shown : Used(e)' = Used(e)
    BY <2>3 DEF Used
  <2>8. QED
    BY <1>1, <1>2, <2>2, <2>3, <2>5, <2>6, <2>7, LookByOthers
<1>6. CASE Dump(p)
  <2>1. PICK c, copy : c = proc[p].change /\ copy = proc[p].copy
    OBVIOUS
  <2>2. /\ Ready(p) /\ Busy(p) /\ Sound(c)
        /\ content' = [e \in Entries |->
                         IF e \in Written(c) THEN c.write[e]
                         ELSE IF e \in c.keep THEN copy[e]
                         ELSE IF FileOf(e) = c.file THEN 0 ELSE content[e]]
        /\ torn' = torn \ {c.file}
        /\ replaced' = (replaced \ Written(c)) \cup
                         (IF {Flags, Semantic} \cap Written(c) = {} THEN {}
                          ELSE EntriesOf(c.file) \ (Written(c) \cup c.keep))
    BY <1>6, <2>1, DumpFacts
  <2>3. UNCHANGED <<foreign, agents, config>>
    BY <1>6 DEF Dump, memory
  <2>4. c.file \in foreign
    BY <2>1, <2>2 DEF DashInv, ForeignInv
  <2>5. \A e \in Entries : FileOf(e) \notin foreign => e \notin Written(c) /\ e \notin c.keep
                                                       /\ FileOf(e) # c.file
    BY <2>2, <2>4 DEF Sound, EntriesOf
  <2>6. \A f : f \notin foreign' => (f \in torn' <=> f \in torn)
    BY <2>2, <2>3, <2>4
  <2>7. \A e \in Entries : FileOf(e) \notin foreign' => Read(e)' = Read(e)
    <3> SUFFICES ASSUME NEW e \in Entries, FileOf(e) \notin foreign' PROVE Read(e)' = Read(e)
      OBVIOUS
    <3>1. content'[e] = content[e] /\ (FileOf(e) \in torn' <=> FileOf(e) \in torn)
      BY <2>2, <2>3, <2>5, <2>6
    <3>2. QED
      BY <3>1 DEF Read, Default
  <2>8. \A e \in Shown : "settings" \notin foreign' => (e \in replaced' <=> e \in replaced)
    BY <2>2, <2>3, <2>5, EntryFacts DEF EntriesOf
  <2>9. \A e \in Shown : Used(e)' = Used(e)
    BY <2>3 DEF Used
  <2>10. proc'[Dashboard] = proc[Dashboard]
    BY <1>2, <2>2 DEF Ready
  <2>11. QED
    BY <1>1, <1>2, <2>3, <2>6, <2>7, <2>8, <2>9, <2>10, LookByOthers
<1>7. CASE Finish(p)
  <2>1. proc'[Dashboard] = proc[Dashboard]
    BY <1>2, <1>7, IdleProc DEF Finish, Ready
  <2>2. UNCHANGED <<content, torn, replaced, foreign>>
    BY <1>7 DEF Finish, disk, history
  <2>3. /\ agents' \in {agents, NoAgents}
        /\ config'[Dashboard].provider = config[Dashboard].provider
        /\ \A e \in Shown : Used(e)' = Used(e)
    BY <1>7, FinishMemory
  <2>4. \A e : Read(e)' = Read(e)
    BY <2>2 DEF Read, Default
  <2>5. QED
    BY <1>1, <1>2, <2>1, <2>2, <2>3, <2>4, LookByOthers
<1>8. CASE Restart(p)
  <2>1. proc'[Dashboard] = proc[Dashboard]
    BY <1>2, <1>8, IdleProc DEF Restart, Ready
  <2>2. UNCHANGED <<content, torn, replaced, foreign, agents>>
    BY <1>8 DEF Restart, disk
  <2>3. config'[Dashboard] = config[Dashboard]
    BY <1>8 DEF Restart, TypeInv, Services, Dashboard, Framework
  <2>4. (\A e : Read(e)' = Read(e)) /\ (\A e \in Shown : Used(e)' = Used(e))
    BY <2>2, <2>3 DEF Read, Default, Used
  <2>5. QED
    BY <1>1, <1>2, <2>1, <2>2, <2>3, <2>4, LookByOthers
<1>9. QED
  BY <1>3, <1>4, <1>5, <1>6, <1>7, <1>8

LEMMA DashboardBegin ==
    ASSUME TypeInv, LookInv, NEW c, NEW d, BeginStep(Dashboard, c, d)
    PROVE  LookInv'
<1>0. Dashboard \in Processes
  BY DEF Processes
<1>1. /\ ~Busy(Dashboard) /\ proc'[Dashboard].change = c /\ proc'[Dashboard].done = d
      /\ proc'[Dashboard].pc = (IF c.keep = {} THEN "open" ELSE "load")
  BY <1>0, BeginProc
<1>2. /\ UNCHANGED <<content, torn, replaced>> /\ foreign' = foreign
      /\ agents' \in {agents, NoAgents}
      /\ config'[Dashboard].provider = config[Dashboard].provider
      /\ \A e \in Shown : Used(e)' = IF e \in Written(c) THEN c.write[e] ELSE Used(e)
      /\ Sound(c) /\ (ProviderKeys \cap Written(c) # {} => d = "key")
  BY DEF BeginStep, Begin, Takes, disk
<1>3. \A e : Read(e)' = Read(e)
  BY <1>2 DEF Read, Default
<1>4. Busy(Dashboard)' /\ \A f : Saving(f)' <=> f = c.file
  BY <1>1 DEF Busy, BusyOn, Saving
<1>5. \A e \in Entries : FileOf(e) = c.file /\ e \in Written(c) => Coming(e)' = c.write[e]
  BY <1>1, <1>4 DEF Coming
<1>6. \A e \in Entries : e \notin Written(c) /\ (FileOf(e) = c.file => e \in c.keep)
                          => Coming(e)' = Read(e)
  BY <1>1, <1>3, <1>4 DEF Coming
<1>7. \A e : Coming(e) = Read(e) /\ ~Writing(e) /\ ~Dropping(e)
  BY <1>1 DEF Coming, Writing, Dropping, Saving, BusyOn
<1>8. CopyMine'
  <2>1. proc'[Dashboard].pc = "open" => c.keep = {}
    BY <1>1
  <2>2. proc'[Dashboard].pc # "dump"
    BY <1>1
  <2>3. QED
    BY <1>1, <2>1, <2>2 DEF CopyMine
<1>9. UsedInv'
  <2> SUFFICES ASSUME Mine("settings")', NEW e \in Shown
               PROVE  (e \in replaced' /\ ~Writing(e)') \/ Dropping(e)' \/ Used(e)' = Coming(e)'
    BY DEF UsedInv
  <2>1. Mine("settings") /\ e \in Entries
    BY <1>2, EntryFacts DEF Mine
  <2>2. (e \in replaced) \/ Used(e) = Read(e)
    BY <1>7, <2>1 DEF LookInv, UsedInv
  <2>3. CASE e \in Written(c)
    <3>1. FileOf(e) = c.file
      BY <1>2, <2>3 DEF Sound, EntriesOf
    <3>2. QED
      BY <1>2, <1>5, <2>1, <2>3, <3>1
  <2>4. CASE e \notin Written(c) /\ (FileOf(e) = c.file => e \in c.keep)
    <3>1. ~Writing(e)'
      BY <1>1, <2>4 DEF Writing
    <3>2. Coming(e)' = Read(e) /\ Used(e)' = Used(e)
      BY <1>2, <1>6, <2>1, <2>4
    <3>3. QED
      BY <1>2, <2>2, <3>1, <3>2
  <2>5. CASE e \notin Written(c) /\ FileOf(e) = c.file /\ e \notin c.keep
    BY <1>1, <1>4, <2>5 DEF Dropping
  <2>6. QED
    BY <2>3, <2>4, <2>5
<1>10. KeyInv'
  <2> SUFFICES ASSUME Mine("keys")', NEW p \in Providers, p = config'[Dashboard].provider,
                      agents'[p] # None, Key(p) \notin Written(c)
               PROVE  agents'[p] = KeyOf(p, Coming(Key(p))')
    BY <1>1, <1>4 DEF KeyInv, KeyOf, Refreshing
  <2>1. agents' = agents /\ Mine("keys") /\ p = config[Dashboard].provider
    BY <1>2 DEF NoAgents, Mine
  <2>2. ~Refreshing(p)
    BY <1>1 DEF Refreshing
  <2>3. agents[p] = KeyOf(p, Read(Key(p)))
    BY <1>7, <2>1, <2>2 DEF LookInv, KeyInv
  <2>4. Key(p) \in Entries /\ FileOf(Key(p)) = "keys"
    BY ProviderEntries
  <2>5. FileOf(Key(p)) = c.file => Key(p) \in c.keep
    BY <1>2, <2>4 DEF Sound, EntriesOf
  <2>6. Coming(Key(p))' = Read(Key(p))
    BY <1>6, <2>4, <2>5
  <2>7. QED
    BY <2>1, <2>3, <2>6
<1>11. DoneInv'
  BY <1>1, <1>2 DEF DoneInv, ProviderKeys
<1>12. QED
  BY <1>8, <1>9, <1>10, <1>11 DEF LookInv

\* A step inside the dashboard's save changes nothing of what is coming.
LEMMA LookBySaving ==
    ASSUME TypeInv, LookInv, Busy(Dashboard), Busy(Dashboard)',
           proc'[Dashboard].change = proc[Dashboard].change,
           proc'[Dashboard].done # proc[Dashboard].done => proc[Dashboard].done = "tracing",
           UNCHANGED <<config, agents, foreign>>,
           \A e \in Shown : UsedInv => \/ e \in replaced' /\ ~Writing(e)'
                                       \/ Dropping(e)'
                                       \/ Used(e) = Coming(e)'
                                       \/ ~Mine("settings"),
           \A p \in Providers : Key(p) \notin Written(proc[Dashboard].change)
                                  => Coming(Key(p))' = Coming(Key(p)),
           CopyMine'
    PROVE  LookInv'
<1>1. DoneInv'
  BY DEF LookInv, DoneInv
<1>2. \A p : Refreshing(p)' <=> Refreshing(p)
  BY DEF Refreshing
<1>3. KeyInv'
  <2> SUFFICES ASSUME Mine("keys"), NEW p \in Providers, p = config[Dashboard].provider,
                      agents[p] # None, ~Refreshing(p)
               PROVE  agents[p] = KeyOf(p, Coming(Key(p))')
    BY <1>2 DEF KeyInv, KeyOf, Mine
  <2>1. Coming(Key(p))' = Coming(Key(p))
    BY DEF Refreshing
  <2>2. QED
    BY <2>1 DEF LookInv, KeyInv
<1>4. \A e : Used(e)' = Used(e)
  BY DEF Used
<1>5. UsedInv'
  BY <1>4 DEF LookInv, UsedInv, Mine
<1>6. QED
  BY <1>1, <1>3, <1>5 DEF LookInv

LEMMA DashboardLoad ==
    ASSUME TypeInv, LookInv, Load(Dashboard)
    PROVE  LookInv'
<1>0. Dashboard \in Processes
  BY DEF Processes
<1>1. PICK c : c = proc[Dashboard].change
  OBVIOUS
<1>2. /\ Busy(Dashboard) /\ proc[Dashboard].pc = "load"
      /\ proc'[Dashboard].change = c /\ proc'[Dashboard].pc \in {"open", "done"}
      /\ proc'[Dashboard].pc = "done" => c.lazy
      /\ \A e \in c.keep : proc'[Dashboard].copy[e] = Read(e)
      /\ proc'[Dashboard].done # proc[Dashboard].done => proc[Dashboard].done = "tracing"
      /\ SoundOp(proc'[Dashboard])
  BY <1>0, <1>1, LoadProc
<1>3. UNCHANGED <<content, torn, replaced, config, agents, foreign>>
  BY DEF Load, disk, memory, history
<1>4. Busy(Dashboard)' /\ Sound(c)
  BY <1>2 DEF Busy, SoundOp
<1>5. \A e : Read(e)' = Read(e)
  BY <1>3 DEF Read, Default
<1>6. \A f : (Saving(f) <=> f = c.file)
             /\ (Saving(f)' <=> f = c.file /\ proc'[Dashboard].pc = "open")
  BY <1>1, <1>2, <1>4 DEF Saving, BusyOn
<1>7. \A e : e \notin Written(c) /\ (FileOf(e) = c.file => e \in c.keep) => Coming(e)' = Coming(e)
  BY <1>1, <1>2, <1>5, <1>6 DEF Coming
<1>8. proc'[Dashboard].pc = "open" => \A e : Coming(e)' = Coming(e)
  BY <1>1, <1>2, <1>5, <1>6 DEF Coming
<1>9. CopyMine'
  BY <1>2, <1>5 DEF CopyMine
<1>10. \A p \in Providers : Key(p) \notin Written(c) => Coming(Key(p))' = Coming(Key(p))
  BY <1>4, <1>7, ProviderEntries DEF Sound, EntriesOf
<1>11. ASSUME NEW e \in Shown, UsedInv
       PROVE  (e \in replaced' /\ ~Writing(e)') \/ Dropping(e)' \/ Used(e) = Coming(e)' \/ ~Mine("settings")
  <2>1. FileOf(e) = "settings"
    BY EntryFacts
  <2>2. CASE c.file = "settings"
    <3>1. proc'[Dashboard].pc = "open"
      BY <1>2, <1>4, <2>2 DEF Sound
    <3>2. Coming(e)' = Coming(e) /\ (Writing(e)' <=> Writing(e)) /\ (Dropping(e)' <=> Dropping(e))
      BY <1>1, <1>2, <1>6, <1>8, <2>1, <2>2, <3>1 DEF Writing, Dropping
    <3>3. QED
      BY <1>3, <1>11, <3>2 DEF UsedInv
  <2>3. CASE c.file # "settings"
    <3>1. e \notin Written(c) /\ ~Dropping(e) /\ ~Writing(e)'
      BY <1>4, <1>6, <2>1, <2>3 DEF Sound, EntriesOf, Dropping, Writing
    <3>2. Coming(e)' = Coming(e)
      BY <1>7, <2>1, <2>3, <3>1
    <3>3. QED
      BY <1>3, <1>11, <3>1, <3>2 DEF UsedInv
  <2>4. QED
    BY <2>2, <2>3
<1>12. QED
  BY <1>1, <1>2, <1>3, <1>4, <1>9, <1>10, <1>11, LookBySaving

LEMMA DashboardTruncate ==
    ASSUME TypeInv, LookInv, Truncate(Dashboard)
    PROVE  LookInv'
<1>0. Dashboard \in Processes
  BY DEF Processes
<1>1. PICK c : c = proc[Dashboard].change
  OBVIOUS
<1>2. Busy(Dashboard) /\ Advance(Dashboard, "dump") /\ proc[Dashboard].pc = "open"
  BY DEF Truncate, Busy
<1>3. /\ proc'[Dashboard].change = c /\ proc'[Dashboard].pc = "dump"
      /\ proc'[Dashboard].copy = proc[Dashboard].copy
      /\ proc'[Dashboard].done = proc[Dashboard].done
  BY <1>0, <1>1, <1>2, AdvanceProc
<1>4. UNCHANGED <<content, replaced, config, agents, foreign>> /\ torn' = torn \cup {c.file}
  BY <1>1 DEF Truncate, memory, history
<1>5. Busy(Dashboard)'
  BY <1>3 DEF Busy
<1>6. \A e : FileOf(e) # c.file => Read(e)' = Read(e)
  BY <1>4 DEF Read, Default
<1>7. \A f : (Saving(f) <=> f = c.file) /\ (Saving(f)' <=> f = c.file)
  BY <1>1, <1>2, <1>3, <1>5 DEF Saving, BusyOn
<1>8. \A e : Coming(e)' = Coming(e)
  BY <1>1, <1>2, <1>3, <1>6, <1>7 DEF Coming
<1>9. \A e : (Writing(e)' <=> Writing(e)) /\ (Dropping(e)' <=> Dropping(e))
  BY <1>1, <1>3, <1>7 DEF Writing, Dropping
<1>10. CopyMine'
  BY <1>3, <1>4 DEF CopyMine
<1>11. ASSUME NEW e \in Shown, UsedInv
       PROVE  (e \in replaced' /\ ~Writing(e)') \/ Dropping(e)' \/ Used(e) = Coming(e)' \/ ~Mine("settings")
  BY <1>4, <1>8, <1>9, <1>11 DEF UsedInv
<1>12. QED
  BY <1>1, <1>2, <1>3, <1>4, <1>5, <1>8, <1>10, <1>11, LookBySaving

LEMMA DashboardDump ==
    ASSUME TypeInv, LookInv, Dump(Dashboard)
    PROVE  LookInv'
<1>0. Dashboard \in Processes
  BY DEF Processes
<1>1. PICK c, copy : c = proc[Dashboard].change /\ copy = proc[Dashboard].copy
  OBVIOUS
<1>2. /\ Busy(Dashboard) /\ proc[Dashboard].pc = "dump"
      /\ proc'[Dashboard].change = c /\ proc'[Dashboard].pc = "done"
      /\ proc'[Dashboard].done = proc[Dashboard].done /\ Sound(c)
      /\ content' = [e \in Entries |->
                       IF e \in Written(c) THEN c.write[e]
                       ELSE IF e \in c.keep THEN copy[e]
                       ELSE IF FileOf(e) = c.file THEN 0 ELSE content[e]]
      /\ torn' = torn \ {c.file}
      /\ replaced' = (replaced \ Written(c)) \cup
                       (IF {Flags, Semantic} \cap Written(c) = {} THEN {}
                        ELSE EntriesOf(c.file) \ (Written(c) \cup c.keep))
  BY <1>0, <1>1, DumpFacts
<1>3. UNCHANGED <<config, agents, foreign>>
  BY DEF Dump, memory
<1>4. Busy(Dashboard)'
  BY <1>2 DEF Busy
<1>5. \A f : (Saving(f) <=> f = c.file) /\ ~Saving(f)'
  BY <1>1, <1>2 DEF Saving, BusyOn
<1>6. \A e \in Entries : e \in Written(c) \/ e \in c.keep => FileOf(e) = c.file
  BY <1>2 DEF Sound, EntriesOf
<1>7. ASSUME NEW e \in Entries
      PROVE  Coming(e)' = Coming(e)
  <2>1. Coming(e)' = Read(e)'
    BY <1>5 DEF Coming
  <2>2. CASE FileOf(e) # c.file
    <3>1. Coming(e) = Read(e)
      BY <1>5, <2>2 DEF Coming
    <3>2. content'[e] = content[e] /\ (FileOf(e) \in torn' <=> FileOf(e) \in torn)
      BY <1>2, <1>6, <2>2
    <3>3. QED
      BY <2>1, <3>1, <3>2 DEF Read, Default
  <2>3. CASE FileOf(e) = c.file
    <3>1. Read(e)' = content'[e]
      BY <1>2, <2>3 DEF Read
    <3>2. Coming(e) = content'[e]
      BY <1>1, <1>2, <1>5, <2>3 DEF Coming
    <3>3. QED
      BY <2>1, <3>1, <3>2
  <2>4. QED
    BY <2>2, <2>3
<1>8. CopyMine'
  BY <1>2 DEF CopyMine
<1>9. ASSUME NEW e \in Shown, UsedInv
      PROVE  (e \in replaced' /\ ~Writing(e)') \/ Dropping(e)' \/ Used(e) = Coming(e)' \/ ~Mine("settings")
  <2>1. e \in Entries /\ FileOf(e) = "settings" /\ ~Writing(e)' /\ Coming(e)' = Coming(e)
    BY <1>5, <1>7, EntryFacts DEF Writing
  <2>2. CASE Dropping(e)
    <3>1. e \in EntriesOf(c.file) /\ e \notin Written(c) /\ e \notin c.keep
      BY <1>1, <1>5, <2>1, <2>2 DEF Dropping, EntriesOf
    <3>2. e \in replaced'
      BY <1>2, <3>1 DEF Sound
    <3>3. QED
      BY <2>1, <3>2
  <2>3. CASE e \in replaced /\ ~Writing(e)
    <3>1. e \notin Written(c)
      BY <1>1, <1>5, <1>6, <2>1, <2>3 DEF Writing
    <3>2. QED
      BY <1>2, <2>1, <2>3, <3>1
  <2>4. QED
    BY <1>9, <2>1, <2>2, <2>3 DEF UsedInv
<1>10. \A p \in Providers : Coming(Key(p))' = Coming(Key(p))
  BY <1>7, ProviderEntries
<1>11. QED
  BY <1>1, <1>2, <1>3, <1>4, <1>8, <1>9, <1>10, LookBySaving

LEMMA IdleComing ==
    \A e : ~Busy(Dashboard) \/ proc[Dashboard].pc = "done"
              => Coming(e) = Read(e) /\ ~Writing(e) /\ ~Dropping(e)
BY DEF Coming, Writing, Dropping, Saving, BusyOn

LEMMA DashboardFinish ==
    ASSUME TypeInv, LookInv, Finish(Dashboard)
    PROVE  LookInv'
<1>0. Dashboard \in Processes
  BY DEF Processes
<1>1. proc[Dashboard].pc = "done" /\ Busy(Dashboard)
  BY DEF Finish, Busy
<1>2. ~Busy(Dashboard)'
  BY <1>0, IdleProc DEF Finish
<1>3. UNCHANGED <<content, torn, replaced, foreign>>
  BY DEF Finish, disk, history
<1>4. /\ agents' \in {agents, NoAgents}
      /\ config'[Dashboard].provider = config[Dashboard].provider
      /\ \A e \in Shown : Used(e)' = Used(e)
  BY <1>0, FinishMemory
<1>5. \A e : Read(e)' = Read(e)
  BY <1>3 DEF Read, Default
<1>6. \A e : Coming(e) = Read(e) /\ ~Writing(e) /\ ~Dropping(e)
  BY <1>1 DEF Coming, Writing, Dropping, Saving, BusyOn
<1>7. \A e : Coming(e)' = Read(e) /\ ~Writing(e)' /\ ~Dropping(e)'
  BY <1>2, <1>5 DEF Coming, Writing, Dropping, Saving, BusyOn
<1>8. CopyMine' /\ DoneInv'
  BY <1>2 DEF CopyMine, DoneInv
<1>9. UsedInv'
  BY <1>3, <1>4, <1>6, <1>7 DEF LookInv, UsedInv, Mine
<1>10. KeyInv'
  <2> SUFFICES ASSUME Mine("keys")', NEW p \in Providers, p = config'[Dashboard].provider,
                      agents'[p] # None
               PROVE  agents'[p] = KeyOf(p, Coming(Key(p))')
    BY DEF KeyInv, KeyOf
  <2>1. agents' = agents /\ Mine("keys") /\ p = config[Dashboard].provider
    BY <1>3, <1>4 DEF NoAgents, Mine
  <2>2. ~Refreshing(p)
    <3> SUFFICES ASSUME Refreshing(p) PROVE FALSE
      OBVIOUS
    <3>1. proc[Dashboard].done = "key" /\ Key(p) \in Written(proc[Dashboard].change)
      BY DEF Refreshing, LookInv, DoneInv
    <3>2. AfterKeyChange(proc[Dashboard].change)
      BY <3>1 DEF Finish
    <3>3. agents' = NoAgents
      BY <2>1, <3>1, <3>2 DEF AfterKeyChange, Written
    <3>4. QED
      BY <3>3 DEF NoAgents
  <2>3. agents[p] = KeyOf(p, Read(Key(p)))
    BY <1>6, <2>1, <2>2 DEF LookInv, KeyInv
  <2>4. QED
    BY <1>7, <2>1, <2>3
<1>11. QED
  BY <1>8, <1>9, <1>10 DEF LookInv

LEMMA DashboardRestart ==
    ASSUME TypeInv, Restart(Dashboard)
    PROVE  LookInv'
<1>0. Dashboard \in Processes
  BY DEF Processes
<1>1. ~Busy(Dashboard)'
  BY <1>0, IdleProc DEF Restart
<1>2. UNCHANGED <<content, torn>> /\ agents' = NoAgents
      /\ config' = [config EXCEPT ![Dashboard] = StartDashboard]
  BY DEF Restart, disk, Dashboard, Framework, CLI
<1>3. config'[Dashboard] = StartDashboard
  BY <1>2 DEF TypeInv, Services
<1>4. /\ StartDashboard.flags = Read(Flags) /\ StartDashboard.semantic = Read(Semantic)
      /\ StartDashboard.watch = Read(Watch) /\ StartDashboard.rerank = Read(Rerank)
  BY StartFacts DEF TypeInv
<1>5. \A e : Read(e)' = Read(e)
  BY <1>2 DEF Read, Default
<1>6. \A e \in Shown : Used(e)' = Read(e)
  BY <1>3, <1>4, ShownDiffer DEF Used, Shown
<1>7. \A e : Coming(e)' = Read(e)
  BY <1>1, <1>5 DEF Coming, Saving, BusyOn
<1>8. UsedInv'
  BY <1>6, <1>7 DEF UsedInv
<1>9. KeyInv'
  BY <1>2 DEF KeyInv, NoAgents
<1>10. CopyMine' /\ DoneInv'
  BY <1>1 DEF CopyMine, DoneInv
<1>11. QED
  BY <1>8, <1>9, <1>10 DEF LookInv

LEMMA LookPatchConfig ==
    ASSUME TypeInv, SemanticStays, LookInv, NEW p \in Providers, PatchConfig(p)
    PROVE  LookInv'
<1>1. UNCHANGED <<content, torn, proc, replaced, foreign>>
  BY DEF PatchConfig, disk, history
<1>2. /\ proc[Dashboard] = Idle /\ agents' = NoAgents
      /\ Used(Flags)' = IF Used(Flags) = 0 THEN Read(Flags) ELSE Used(Flags)
      /\ Used(Semantic)' = IF Used(Flags) = 0 /\ Used(Semantic) = 0
                             THEN Read(Semantic) ELSE Used(Semantic)
      /\ Used(Watch)' = IF Used(Watch) = 0 THEN Read(Watch) ELSE Used(Watch)
      /\ Used(Rerank)' = IF Used(Rerank) = 0 THEN Read(Rerank) ELSE Used(Rerank)
  BY PatchConfigFacts
<1>3. ~Busy(Dashboard) /\ ~Busy(Dashboard)'
  BY <1>1, <1>2 DEF Busy, Idle
<1>4. \A e : Read(e)' = Read(e)
  BY <1>1 DEF Read, Default
<1>5. \A e : Coming(e) = Read(e) /\ ~Writing(e) /\ ~Dropping(e)
  BY <1>3 DEF Coming, Writing, Dropping, Saving, BusyOn
<1>6. \A e : Coming(e)' = Read(e) /\ ~Writing(e)'
  BY <1>3, <1>4 DEF Coming, Writing, Saving, BusyOn
<1>7. UsedInv'
  <2> SUFFICES ASSUME Mine("settings")
               PROVE  \A e \in Shown : (e \in replaced /\ ~Writing(e)') \/ Used(e)' = Coming(e)'
    BY <1>1 DEF UsedInv, Mine
  <2>1. \A e \in Shown : e \in replaced \/ Used(e) = Read(e)
    BY <1>5 DEF LookInv, UsedInv
  <2>2. Used(Flags)' = Read(Flags) /\ Used(Semantic)' = Read(Semantic)
    BY <1>2, <2>1 DEF SemanticStays, Shown
  <2>3. (Watch \in replaced \/ Used(Watch)' = Read(Watch))
        /\ (Rerank \in replaced \/ Used(Rerank)' = Read(Rerank))
    BY <1>2, <2>1 DEF Shown
  <2>4. QED
    BY <1>6, <2>2, <2>3 DEF Shown
<1>8. CopyMine' /\ DoneInv'
  BY <1>3 DEF CopyMine, DoneInv
<1>9. KeyInv'
  BY <1>2 DEF KeyInv, NoAgents
<1>10. QED
  BY <1>7, <1>8, <1>9 DEF LookInv

LEMMA LookAsk ==
    ASSUME TypeInv, LookInv, NEW q \in Providers, Ask(q)
    PROVE  LookInv'
<1>0. Dashboard \in Processes
  BY DEF Processes
<1>1. /\ UNCHANGED <<content, torn, proc, replaced, foreign, config>>
      /\ agents' = [agents EXCEPT ![q] = ResolveKey(q)]
  BY DEF Ask, AgentKey, disk, history
<1>2. \A e : Read(e)' = Read(e)
  BY <1>1 DEF Read, Default
<1>3. \A e : /\ Coming(e)' = Coming(e) /\ Used(e)' = Used(e)
             /\ (Writing(e)' <=> Writing(e)) /\ (Dropping(e)' <=> Dropping(e))
  BY <1>1, <1>2 DEF Coming, Used, Writing, Dropping, Saving, BusyOn, Busy
<1>4. CopyMine' /\ DoneInv' /\ UsedInv'
  BY <1>1, <1>2, <1>3 DEF LookInv, CopyMine, DoneInv, UsedInv, Mine, Busy
<1>5. KeyInv'
  <2> SUFFICES ASSUME Mine("keys"), NEW p \in Providers, p = config[Dashboard].provider,
                      agents'[p] # None, ~Refreshing(p)
               PROVE  agents'[p] = KeyOf(p, Coming(Key(p)))
    BY <1>1, <1>3 DEF KeyInv, Mine, Refreshing, Busy, KeyOf
  <2>1. CASE p # q
    <3>1. agents'[p] = agents[p]
      BY <1>1, <2>1 DEF TypeInv
    <3>2. QED
      BY <3>1 DEF LookInv, KeyInv
  <2>2. CASE p = q
    <3>1. agents'[p] = ResolveKey(p)
      BY <1>1, <2>2 DEF TypeInv
    <3>2. ResolveKey(p) = KeyOf(p, Read(Key(p)))
      BY DEF ResolveKey, KeyOf
    <3>3. Key(p) \in Entries /\ FileOf(Key(p)) = "keys"
      BY ProviderEntries
    <3>4. CASE ~Saving("keys")
      BY <3>1, <3>2, <3>3, <3>4 DEF Coming
    <3>5. CASE Saving("keys")
      <4>1. PICK c : c = proc[Dashboard].change
        OBVIOUS
      <4>2. Busy(Dashboard) /\ c.file = "keys" /\ proc[Dashboard].pc \in {"load", "open", "dump"}
        BY <1>0, <3>5, <4>1, ProcFacts DEF Saving, BusyOn, Busy, TypeInv
      <4>3. Key(p) \in c.keep /\ Key(p) \notin Written(c)
        BY <1>0, <3>3, <4>1, <4>2 DEF TypeInv, SoundOp, Sound, EntriesOf, Refreshing
      <4>4. CASE proc[Dashboard].pc = "load"
        BY <3>1, <3>2, <3>3, <3>5, <4>1, <4>3, <4>4 DEF Coming
      <4>5. CASE proc[Dashboard].pc = "open"
        <5>1. proc[Dashboard].copy[Key(p)] = Read(Key(p))
          BY <4>1, <4>2, <4>3, <4>5 DEF LookInv, CopyMine
        <5>2. QED
          BY <3>1, <3>2, <3>3, <3>5, <4>1, <4>3, <4>5, <5>1 DEF Coming
      <4>6. CASE proc[Dashboard].pc = "dump"
        <5>1. "keys" \in torn
          BY <4>1, <4>2, <4>6 DEF LookInv, CopyMine
        <5>2. Read(Key(p)) = 0
          BY <3>3, <5>1 DEF Read, Default, Key, Model
        <5>3. QED
          BY <3>1, <5>2 DEF ResolveKey
      <4>7. QED
        BY <4>2, <4>4, <4>5, <4>6
    <3>6. QED
      BY <3>4, <3>5
  <2>3. QED
    BY <2>1, <2>2
<1>6. QED
  BY <1>4, <1>5 DEF LookInv

LEMMA DashInit == Init => DashInv
<1> SUFFICES ASSUME Init PROVE DashInv
  OBVIOUS
<1>1. \A p \in Processes : ~Busy(p)
  BY DEF Init, Busy, Idle
<1>2. ~Busy(Dashboard)
  BY <1>1 DEF Processes
<1>3. TypeInv /\ config[Dashboard] = StartDashboard /\ agents = NoAgents
  BY TypeInit DEF Init, Services
<1>4. /\ StartDashboard.flags = Read(Flags) /\ StartDashboard.semantic = Read(Semantic)
      /\ StartDashboard.watch = Read(Watch) /\ StartDashboard.rerank = Read(Rerank)
  BY <1>3, StartFacts DEF TypeInv
<1>5. \A e \in Shown : Used(e) = Read(e)
  BY <1>3, <1>4, ShownDiffer DEF Used, Shown
<1>6. \A e : Coming(e) = Read(e)
  BY <1>2 DEF Coming, Saving, BusyOn
<1>7. UsedInv /\ KeyInv
  BY <1>3, <1>5, <1>6 DEF UsedInv, KeyInv, NoAgents
<1>8. CopyMine /\ DoneInv /\ ForeignInv
  BY <1>1, <1>2 DEF CopyMine, DoneInv, ForeignInv
<1>9. SemanticStays
  BY DEF Init, SemanticStays
<1>10. QED
  BY <1>7, <1>8, <1>9 DEF DashInv, LookInv

LEMMA DashStep == TypeInv /\ DashInv /\ [Next]_vars => DashInv'
<1> SUFFICES ASSUME TypeInv, DashInv, [Next]_vars PROVE DashInv'
  OBVIOUS
<1>1. ForeignInv' /\ SemanticStays'
  BY ForeignStep, SemanticStep DEF DashInv
<1>2. LookInv /\ SemanticStays
  BY DEF DashInv
<1>3. CASE UNCHANGED vars
  <2>1. UNCHANGED <<content, torn, proc, replaced, foreign, config, agents>>
    BY <1>3 DEF vars, disk, memory, history
  <2>2. \A e : Read(e)' = Read(e)
    BY <2>1 DEF Read, Default
  <2>3. \A e : /\ Coming(e)' = Coming(e) /\ Used(e)' = Used(e)
               /\ (Writing(e)' <=> Writing(e)) /\ (Dropping(e)' <=> Dropping(e))
    BY <2>1, <2>2 DEF Coming, Used, Writing, Dropping, Saving, BusyOn, Busy
  <2>4. CopyMine' /\ DoneInv' /\ UsedInv'
    BY <1>2, <2>1, <2>2, <2>3 DEF LookInv, CopyMine, DoneInv, UsedInv, Mine, Busy
  <2>5. KeyInv'
    BY <1>2, <2>1, <2>3 DEF LookInv, KeyInv, KeyOf, Mine, Refreshing, Busy
  <2>6. QED
    BY <1>1, <2>4, <2>5 DEF DashInv, LookInv
<1>4. CASE Begins
  <2>0. PICK p \in Processes : \E c, d : BeginStep(p, c, d)
    BY <1>4 DEF Begins
  <2>1. PICK c, d : BeginStep(p, c, d)
    BY <2>0
  <2>2. LookInv'
    BY <1>2, <2>1, DashboardBegin, OthersLook
  <2>3. QED
    BY <1>1, <2>2 DEF DashInv
<1>5. ASSUME NEW p \in Providers, PatchConfig(p) \/ Ask(p)
      PROVE  DashInv'
  BY <1>1, <1>2, <1>5, LookPatchConfig, LookAsk DEF DashInv
<1>6. ASSUME NEW p \in Processes, Load(p) \/ Truncate(p) \/ Dump(p) \/ Finish(p) \/ Restart(p)
      PROVE  DashInv'
  <2>1. LookInv'
    BY <1>2, <1>6, OthersLook, DashboardLoad, DashboardTruncate, DashboardDump,
       DashboardFinish, DashboardRestart
  <2>2. QED
    BY <1>1, <2>1 DEF DashInv
<1>7. QED
  BY <1>3, <1>4, <1>5, <1>6, Steps

LEMMA DashSafe == TypeInv /\ DashInv => ShownIsUsed /\ ActiveAgentHasCurrentKey
<1> SUFFICES ASSUME TypeInv, DashInv PROVE ShownIsUsed /\ ActiveAgentHasCurrentKey
  OBVIOUS
<1>1. ShownIsUsed
  <2> SUFFICES ASSUME proc[Dashboard] = Idle, "settings" \notin foreign
               PROVE  LET c == config[Dashboard] IN
                      /\ c.flags = Read(Flags) /\ c.semantic = Read(Semantic)
                      /\ Watch \in replaced \/ c.watch = Read(Watch)
                      /\ Rerank \in replaced \/ c.rerank = Read(Rerank)
    BY DEF ShownIsUsed
  <2>1. \A e : Coming(e) = Read(e) /\ ~Dropping(e)
    BY IdleComing DEF Busy, Idle
  <2>2. \A e \in Shown : e \in replaced \/ Used(e) = Read(e)
    BY <2>1 DEF DashInv, LookInv, UsedInv, Mine
  <2>3. Used(Flags) = Read(Flags) /\ Used(Semantic) = Read(Semantic)
    BY <2>2 DEF DashInv, SemanticStays, Shown
  <2>4. /\ Watch \in replaced \/ Used(Watch) = Read(Watch)
        /\ Rerank \in replaced \/ Used(Rerank) = Read(Rerank)
    BY <2>2 DEF Shown
  <2>5. QED
    BY <2>3, <2>4, ShownDiffer DEF Used
<1>2. ActiveAgentHasCurrentKey
  <2> SUFFICES ASSUME NEW p, p = config[Dashboard].provider,
                      proc[Dashboard] = Idle, "keys" \notin foreign, agents[p] # None
               PROVE  agents[p] = ResolveKey(p)
    BY DEF ActiveAgentHasCurrentKey
  <2>1. p \in Providers
    BY DEF TypeInv, Configs, Services
  <2>2. Coming(Key(p)) = Read(Key(p)) /\ ~Busy(Dashboard)
    BY IdleComing DEF Busy, Idle
  <2>3. agents[p] = KeyOf(p, Read(Key(p)))
    BY <2>1, <2>2 DEF DashInv, LookInv, KeyInv, Mine, Refreshing
  <2>4. QED
    BY <2>3 DEF KeyOf, ResolveKey
<1>3. QED
  BY <1>1, <1>2

-----------------------------------------------------------------------------
(* The key of an agent. *)

LEMMA OwnKeyStep ==
    ASSUME TypeInv, AgentHasOwnKey, [Next]_vars
    PROVE  AgentHasOwnKey'
<1>1. ASSUME agents' \in {agents, NoAgents}
      PROVE  AgentHasOwnKey'
  BY <1>1 DEF AgentHasOwnKey, NoAgents
<1>2. ASSUME NEW q \in Providers, Ask(q)
      PROVE  AgentHasOwnKey'
  <2>1. agents' = [agents EXCEPT ![q] = ResolveKey(q)]
    BY <1>2 DEF Ask, AgentKey
  <2>2. ResolveKey(q) = None \/ ResolveKey(q)[1] = q
    BY DEF ResolveKey
  <2>3. QED
    BY <2>1, <2>2 DEF AgentHasOwnKey, TypeInv
<1>3. CASE UNCHANGED vars
  BY <1>1, <1>3 DEF vars, memory
<1>4. CASE Begins
  BY <1>1, <1>4 DEF Begins, BeginStep, Takes
<1>5. ASSUME NEW p \in Providers, PatchConfig(p)
      PROVE  AgentHasOwnKey'
  BY <1>1, <1>5 DEF PatchConfig
<1>6. ASSUME NEW p \in Processes, Finish(p)
      PROVE  AgentHasOwnKey'
  BY <1>1, <1>6, FinishMemory
<1>7. ASSUME NEW p \in Processes, Load(p) \/ Truncate(p) \/ Dump(p) \/ Restart(p)
      PROVE  AgentHasOwnKey'
  BY <1>1, <1>7 DEF Load, Truncate, Dump, Restart, memory
<1>8. QED
  BY <1>2, <1>3, <1>4, <1>5, <1>6, <1>7, Steps

-----------------------------------------------------------------------------
(* Results. *)

SettingsInv == TypeInv /\ StayInv /\ DashInv /\ AgentHasOwnKey

LEMMA SettingsInvariant == Spec => []SettingsInv
<1>1. Init => SettingsInv
  BY TypeInit, StayInit, DashInit DEF SettingsInv, Init, AgentHasOwnKey, NoAgents
<1>2. SettingsInv /\ [Next]_vars => SettingsInv'
  BY TypeStep, StayStep, DashStep, OwnKeyStep DEF SettingsInv
<1>3. QED
  BY <1>1, <1>2, PTL DEF Spec

\* Every state is of its type, the cut and interrupted ones as well: a
\* configuration never takes a value that no file can hold.
THEOREM SettingsTypes == Spec => []TypeOK
<1>1. SettingsInv => TypeOK
  BY ProcFacts DEF SettingsInv, TypeInv, TypeOK, Configs
<1>2. QED
  BY <1>1, SettingsInvariant, PTL

\* What was saved stays in its file until the same setting is saved again, for
\* any number of saves of three processes: but for saves that overlapped, that
\* a kill cut, and for what a semantic save removes.
THEOREM SavedStays == Spec => []SavedSettingsStay
<1>1. SettingsInv => SavedSettingsStay
  BY StaySafe DEF SettingsInv
<1>2. QED
  BY <1>1, SettingsInvariant, PTL

\* The settings page shows what the dashboard runs with, when only the
\* dashboard saves settings.
THEOREM PageIsTrue == Spec => []ShownIsUsed
<1>1. SettingsInv => ShownIsUsed
  BY DashSafe DEF SettingsInv
<1>2. QED
  BY <1>1, SettingsInvariant, PTL

\* An agent of a provider has a key of this provider.
THEOREM OwnKey == Spec => []AgentHasOwnKey
<1>1. SettingsInv => AgentHasOwnKey
  BY DEF SettingsInv
<1>2. QED
  BY <1>1, SettingsInvariant, PTL

\* Once an endpoint has returned, no agent of the active provider has a key
\* that was replaced or deleted on the dashboard.
THEOREM CurrentKey == Spec => []ActiveAgentHasCurrentKey
<1>1. SettingsInv => ActiveAgentHasCurrentKey
  BY DashSafe DEF SettingsInv
<1>2. QED
  BY <1>1, SettingsInvariant, PTL
=============================================================================
