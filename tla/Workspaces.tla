------------------------------ MODULE Workspaces ------------------------------
(******************************************************************************)
(* Workspaces and their documents across the processes that share one         *)
(* SQLite file and one Meilisearch: the dashboard (ui/api_routes.py), a       *)
(* program of the framework (core/framework.py) and the command line          *)
(* (cli/commands.py), with WorkspaceManager (workspace/workspace_manager.py), *)
(* and the scoped search keys of auth/meili_key_provisioning.py.              *)
(*                                                                            *)
(* The dashboard has TWO managers over the same tables, each with its own     *)
(* document cache: "ui" registers what is ingested, "server" belongs to the   *)
(* framework object that serves the files and deletes workspaces.             *)
(*                                                                            *)
(* An ingestion is taken file by file here (Ingestion has its steps), and a   *)
(* feed is a workspace that a watcher or a scheduler syncs (WatchMode).       *)
(******************************************************************************)
EXTENDS Integers, FiniteSets

CONSTANTS
    Home,        \* workspace_name of the dashboard's and the program's configuration
    Others,      \* the other workspaces
    Dirs, Docs,
    DirOf,       \* the directory of each document
    HomeDir,     \* document_dirs of the program's configuration
    Jobs,        \* bound: ingestions at a time
    MaxVersion,  \* bound: contents of a file
    MaxOps,      \* bound: orders of users, per service
    MaxKeys,     \* bound: scoped keys
    MaxRestarts, \* bound: restarts of the dashboard
    None

Workspaces == Others \cup {Home}
Versions == 1..MaxVersion
Managers == {"ui", "server", "program"}
Feeders == {"ui", "program"}   \* the managers whose watcher or scheduler may run

Row == [ws : Workspaces, ver : Versions]
Job == [by : Feeders \cup {"cli"}, ws : Workspaces, dir : Dirs \cup {None},
        own : BOOLEAN, mode : {"delta", "force", "wipe"}, wipes : Workspaces \cup {None},
        todo : SUBSET Docs, stage : {"start", "wipeRows", "files"}]
Services == {"dashboard", "tenants", "program"}
Seals == {"dashboard", "cli"}  \* Fernet keys, by the process that generated them
Read == [doc : Docs, row : Row]
KeyRow == [key : 1..MaxKeys, seal : Seals]

ASSUME NoneIsNoRecord ==
    /\ None \notin Row \cup Job \cup Read \cup KeyRow
    /\ None \notin Managers \cup Seals

ASSUME WorkspacesAssumption ==
    /\ Home \notin Others
    /\ DirOf \in [Docs -> Dirs] /\ HomeDir \in Dirs
    /\ MaxVersion \in Nat \ {0}
    /\ MaxOps \in [Services -> Nat] /\ MaxKeys \in Nat /\ MaxRestarts \in Nat
    /\ None \notin Dirs \cup Workspaces

VARIABLES
    disk,      \* version of each file
    dirs,      \* table workspaces: document_dir of each, or None
    docs,      \* table documents
    cache,     \* _doc_cache of each manager
    reading,   \* the row get_document has read and not yet cached, per manager
    index,     \* documents in the Meilisearch index of each workspace
    feeds,     \* the directory each feeder syncs for a workspace, or None
    jobs,      \* running ingestions
    service,   \* what runs beside the command line; the tenants' dashboard has keys
    keyRow,    \* table meili_keys
    live,      \* keys Meilisearch accepts
    fernet,    \* the key in fernet.key, or None
    cli,       \* the key the command line is about to record or to drop
    minted, ops, restarts,
    overtaken, \* history: cached documents that another manager or process wrote
    shared,    \* history: documents that two workspaces registered
    fed,       \* history: deleted workspaces that something still fed
    wiped,     \* history: workspaces the command line deleted with their index
    marred     \* history: rows of meili_keys hurt by a crash or by a second fernet.key

registry == <<dirs, docs, cache, reading, index, feeds, jobs>>
secrets == <<service, keyRow, live, fernet, cli, minted>>
history == <<overtaken, shared, fed, wiped>>
vars == <<disk, registry, secrets, ops, restarts, history, marred>>

Idle == [stage |-> "idle", ws |-> Home, key |-> 0]

Init ==
    /\ disk = [d \in Docs |-> 1]
    /\ dirs = [w \in Workspaces |-> None]
    /\ docs = [d \in Docs |-> None]
    /\ cache = [m \in Managers |-> [d \in Docs |-> None]]
    /\ reading = [m \in Managers |-> None]
    /\ index = [w \in Workspaces |-> {}]
    /\ feeds = [p \in Feeders |-> [w \in Workspaces |-> None]]
    /\ jobs = [j \in Jobs |-> None]
    /\ service \in Services
    /\ keyRow = [w \in Workspaces |-> None]
    /\ live = {} /\ fernet = None /\ cli = Idle
    /\ minted = 0 /\ ops = 0 /\ restarts = 0
    /\ overtaken = [m \in Managers |-> {}]
    /\ shared = {} /\ fed = {} /\ wiped = {} /\ marred = {}

Runs(p) == (p = "program") = (service = "program")
Order == ops < MaxOps[service] /\ ops' = ops + 1

-----------------------------------------------------------------------------
(* WorkspaceManager *)

\* Somebody wrote or deleted the documents D, and manager m, if it was one,
\* renewed its nodes of them: what another manager has cached is behind, and
\* what any is about to cache.
Overtakes(D, m, renewed) ==
    overtaken' = [n \in Managers |-> {d \in D \cup overtaken[n] :
        \/ reading[n] # None /\ reading[n].doc = d
        \/ n # m /\ (d \in overtaken[n] \/ cache[n][d] # None)
        \/ n = m /\ d \in overtaken[n] \ renewed}]

\* register_document; an id that is there keeps its workspace in the table and
\* not in the cache.
RegisterDocument(m, w, d) ==
    LET node == [ws |-> w, ver |-> disk[d]]
        row == [node EXCEPT !.ws = IF docs[d] = None THEN w ELSE docs[d].ws]
    IN  /\ docs' = [docs EXCEPT ![d] = row]
        /\ cache' = [n \in Managers |-> IF n = m THEN [cache[n] EXCEPT ![d] = node] ELSE cache[n]]
        /\ Overtakes({d}, m, {d})
        /\ shared' = IF node # row THEN shared \cup {d} ELSE shared

RowsOf(w) == {d \in Docs : docs[d] # None /\ docs[d].ws = w}

NodesOf(m, w) == {d \in Docs : cache[m][d] # None /\ cache[m][d].ws = w}

\* Mutant: the nodes stay in the cache.
Evicted_Not(m, w) == cache

\* delete_workspace: both tables in one transaction, then the cache of m.
Evicted(m, w) ==
    [cache EXCEPT ![m] = [d \in Docs |-> IF d \in NodesOf(m, w) THEN None ELSE cache[m][d]]]

DeleteRows(m, w) ==
    /\ dirs' = [dirs EXCEPT ![w] = None]
    /\ docs' = [d \in Docs |-> IF d \in RowsOf(w) THEN None ELSE docs[d]]
    /\ IF m = None
         THEN UNCHANGED cache /\ Overtakes(RowsOf(w), None, {})
         ELSE cache' = Evicted(m, w) /\ Overtakes(RowsOf(w), m, NodesOf(m, w))

\* get_document: a cached node is the answer; otherwise the row is read, and
\* put into the cache later and without the lock.
ReadRow(m, d) ==
    /\ reading[m] = None
    /\ cache[m][d] = None
    /\ docs[d] # None
    /\ reading' = [reading EXCEPT ![m] = [doc |-> d, row |-> docs[d]]]
    /\ UNCHANGED <<disk, dirs, docs, cache, index, feeds, jobs, secrets, ops, restarts, history, marred>>

CacheRow(m) ==
    /\ reading[m] # None
    /\ cache' = [cache EXCEPT ![m][reading[m].doc] = reading[m].row]
    /\ reading' = [reading EXCEPT ![m] = None]
    /\ UNCHANGED <<disk, dirs, docs, index, feeds, jobs, secrets, ops, restarts, history, marred>>

-----------------------------------------------------------------------------
(* Ingestions *)

\* dir: the directory a feed or a configuration brings along, or None when the
\* registration is looked up; own: the workspace of the configuration, which
\* ingest_and_index registers; wipes: the index a wipe drops.
StartJob(by, w, dir, own, mode, wipes) ==
    \E j \in Jobs :
        /\ jobs[j] = None
        /\ jobs' = [jobs EXCEPT ![j] = [by |-> by, ws |-> w, dir |-> dir, own |-> own, mode |-> mode,
                                       wipes |-> wipes, todo |-> {}, stage |-> "start"]]

FilesIn(dir) == {d \in Docs : DirOf[d] = dir}

\* The pipeline gets the files of the directory; an unregistered workspace
\* that has none ends the ingestion.
Open(j) ==
    LET job == jobs[j]
        dir == IF job.dir = None THEN dirs[job.ws] ELSE job.dir
    IN  IF dir = None
          THEN jobs' = [jobs EXCEPT ![j] = None] /\ UNCHANGED <<dirs, fed, wiped>>
          ELSE /\ jobs' = [jobs EXCEPT ![j].dir = dir, ![j].todo = FilesIn(dir), ![j].stage = "files"]
               /\ IF job.own
                    THEN /\ dirs' = [dirs EXCEPT ![job.ws] = dir]
                         /\ fed' = fed \ {job.ws} /\ wiped' = wiped \ {job.ws}
                    ELSE UNCHANGED <<dirs, fed, wiped>>

\* The thread starts: a wipe drops the index first; _run_ingest has looked for
\* the registration before, the framework looks after the wipe.
Begin(j) ==
    LET job == jobs[j]
    IN  /\ job # None /\ job.stage = "start"
        /\ IF job.mode = "wipe" /\ (job.by = "ui" => dirs[job.ws] # None)
             THEN /\ index' = [index EXCEPT ![job.wipes] = {}]
                  /\ jobs' = [jobs EXCEPT ![j].stage = "wipeRows",
                                          ![j].dir = IF job.by = "ui" THEN dirs[job.ws] ELSE @]
                  /\ UNCHANGED <<dirs, fed, wiped>>
             ELSE Open(j) /\ UNCHANGED index
        /\ UNCHANGED <<disk, docs, cache, reading, feeds, secrets, ops, restarts, overtaken, shared, marred>>

\* A wipe deletes the rows with its own SQL, which no cache hears of.
WipeRows(j) ==
    LET w == jobs[j].ws
    IN  /\ jobs[j] # None /\ jobs[j].stage = "wipeRows"
        /\ docs' = [d \in Docs |-> IF d \in RowsOf(w) THEN None ELSE docs[d]]
        /\ Overtakes(RowsOf(w), None, {})
        /\ Open(j)
        /\ UNCHANGED <<disk, cache, reading, index, feeds, secrets, ops, restarts, shared, marred>>

\* document_needs_reindex looks for the path, in whatever workspace.
NeedsReindex(d) == docs[d] = None \/ docs[d].ver # disk[d]

IngestFile(j, d) ==
    LET job == jobs[j]
    IN  /\ job # None /\ job.stage = "files" /\ d \in job.todo
        /\ jobs' = [jobs EXCEPT ![j].todo = @ \ {d}]
        /\ IF job.mode = "delta" /\ ~NeedsReindex(d)
             THEN UNCHANGED <<docs, cache, index, overtaken, shared>>
             ELSE /\ index' = [index EXCEPT ![job.ws] = @ \cup {d}]
                  /\ RegisterDocument(job.by, job.ws, d)
        /\ UNCHANGED <<disk, dirs, reading, feeds, secrets, ops, restarts, fed, wiped, marred>>

EndJob(j) ==
    /\ jobs[j] # None /\ jobs[j].stage = "files" /\ jobs[j].todo = {}
    /\ jobs' = [jobs EXCEPT ![j] = None]
    /\ UNCHANGED <<disk, dirs, docs, cache, reading, index, feeds, secrets, ops, restarts, history, marred>>

\* A timer or an event of a watcher or scheduler, or its trigger_now.
Sync(p, w) ==
    /\ feeds[p][w] # None
    /\ \A j \in Jobs : jobs[j] # None => ~(jobs[j].by = p /\ jobs[j].ws = w)
    /\ Order
    /\ StartJob(p, w, feeds[p][w], FALSE, "delta", w)
    /\ UNCHANGED <<disk, dirs, docs, cache, reading, index, feeds, secrets, restarts, history, marred>>

-----------------------------------------------------------------------------
(* Scoped keys *)

Sealed(k, seal) == [key |-> k, seal |-> seal]

\* provision_workspace_keys in the dashboard, in one go on its event loop: it
\* may fail, and after the key was made it may fail to record it.
Provision(w) ==
    \/ UNCHANGED <<keyRow, live, fernet, minted, marred>>
    \/ /\ service = "tenants" /\ minted < MaxKeys
       /\ minted' = minted + 1
       /\ live' = live \cup {minted + 1}
       /\ \/ UNCHANGED <<keyRow, fernet, marred>>
          \/ LET seal == IF fernet = None THEN "dashboard" ELSE fernet
             IN  /\ fernet' = seal
                 /\ keyRow' = [keyRow EXCEPT ![w] = Sealed(minted + 1, seal)]
                 /\ marred' = marred \ {w}

\* Mutant: the row outlives the key.
Deprovision_KeepsRow(w) ==
    /\ UNCHANGED keyRow
    /\ IF keyRow[w] = None
         THEN UNCHANGED live
         ELSE live' \in {live, live \ {keyRow[w].key}}
    /\ marred' = marred \ {w}
    /\ UNCHANGED <<fernet, minted>>

\* deprovision_workspace_keys: the error of Meilisearch is swallowed.
Deprovision(w) ==
    /\ keyRow' = [keyRow EXCEPT ![w] = None]
    /\ IF keyRow[w] = None
         THEN UNCHANGED live
         ELSE live' \in {live, live \ {keyRow[w].key}}
    /\ marred' = marred \ {w}
    /\ UNCHANGED <<fernet, minted>>

-----------------------------------------------------------------------------
(* The dashboard *)

CreateWorkspace(w, dir) ==
    /\ Runs("ui")
    /\ Order
    /\ dirs' = [dirs EXCEPT ![w] = dir]
    /\ Provision(w)
    /\ fed' = fed \ {w} /\ wiped' = wiped \ {w}
    /\ UNCHANGED <<disk, docs, cache, reading, index, feeds, jobs, service, cli, restarts, overtaken, shared>>

\* Something brings documents of w without looking at its registration again.
StillFed(w, stopped) ==
    \/ \E p \in Feeders \ stopped : feeds[p][w] # None
    \/ \E j \in Jobs : jobs[j] # None /\ jobs[j].ws = w /\ jobs[j].dir # None
Left(w, stopped) ==
    fed' = (fed \ {w}) \cup (IF StillFed(w, stopped) THEN {w} ELSE {})

\* The dashboard's watcher is its own; the framework's manager deletes, and the
\* framework's client drops the index it was made for.
DeleteWorkspace(w, wipe) ==
    /\ Runs("ui")
    /\ Order
    /\ dirs[w] # None
    /\ Deprovision(w)
    /\ index' = IF wipe THEN [index EXCEPT ![Home] = {}] ELSE index
    /\ DeleteRows("server", w)
    /\ Left(w, {})
    /\ wiped' = wiped \ {w}
    /\ UNCHANGED <<disk, reading, feeds, jobs, service, cli, restarts, shared>>

TriggerIngest(w, mode) ==
    /\ Runs("ui")
    /\ Order
    /\ StartJob("ui", w, None, FALSE, mode, w)
    /\ UNCHANGED <<disk, dirs, docs, cache, reading, index, feeds, secrets, restarts, history, marred>>

SetFeed(p, w) ==
    /\ Runs(p)
    /\ Order
    /\ dirs[w] # None
    /\ feeds' = [feeds EXCEPT ![p][w] = dirs[w]]
    /\ UNCHANGED <<disk, dirs, docs, cache, reading, index, jobs, secrets, restarts, history, marred>>

StopFeeds(p) ==
    /\ Order
    /\ \E w \in Workspaces : feeds[p][w] # None
    /\ feeds' = [feeds EXCEPT ![p] = [w \in Workspaces |-> None]]
    /\ UNCHANGED <<disk, dirs, docs, cache, reading, index, jobs, secrets, restarts, history, marred>>

\* The dashboard dies; with it its caches, feeds and threads.  It may have been
\* about to delete the row of a key Meilisearch had dropped.
Restart ==
    /\ Runs("ui")
    /\ restarts < MaxRestarts
    /\ restarts' = restarts + 1
    /\ cache' = [m \in Managers |-> IF m = "program" THEN cache[m] ELSE [d \in Docs |-> None]]
    /\ reading' = [m \in Managers |-> IF m = "program" THEN reading[m] ELSE None]
    /\ feeds' = [feeds EXCEPT !["ui"] = [w \in Workspaces |-> None]]
    /\ jobs' = [j \in Jobs |-> IF jobs[j] # None /\ jobs[j].by = "ui" THEN None ELSE jobs[j]]
    /\ overtaken' = [m \in Managers |-> IF m = "program" THEN overtaken[m] ELSE {}]
    /\ \/ UNCHANGED <<live, marred>>
       \/ \E w \in Workspaces : /\ keyRow[w] # None /\ dirs[w] # None
                                /\ live' = live \ {keyRow[w].key}
                                /\ marred' = marred \cup {w}
    /\ UNCHANGED <<disk, dirs, docs, index, service, keyRow, fernet, cli, minted, ops, shared, fed, wiped>>

-----------------------------------------------------------------------------
(* A program of the framework: one manager, its own watcher and scheduler *)

FrameworkCreate(w, dir) ==
    /\ Runs("program")
    /\ Order
    /\ dirs' = [dirs EXCEPT ![w] = dir]
    /\ fed' = fed \ {w} /\ wiped' = wiped \ {w}
    /\ UNCHANGED <<disk, docs, cache, reading, index, feeds, jobs, secrets, restarts, overtaken, shared, marred>>

\* Mutant: the framework's own watcher goes on with the workspace.
FrameworkDelete_KeepsFeed(w, wipe) ==
    /\ Runs("program")
    /\ Order
    /\ index' = IF wipe THEN [index EXCEPT ![Home] = {}] ELSE index
    /\ DeleteRows("program", w)
    /\ Left(w, {"program"})
    /\ wiped' = wiped \ {w}
    /\ UNCHANGED <<disk, reading, feeds, jobs, secrets, restarts, shared, marred>>

FrameworkDelete(w, wipe) ==
    /\ Runs("program")
    /\ Order
    /\ index' = IF wipe THEN [index EXCEPT ![Home] = {}] ELSE index
    /\ DeleteRows("program", w)
    /\ feeds' = [feeds EXCEPT !["program"][w] = None]
    /\ Left(w, {"program"})
    /\ wiped' = wiped \ {w}
    /\ UNCHANGED <<disk, reading, jobs, secrets, restarts, shared, marred>>

\* start_watch_mode and start_incremental_scheduler: the workspace of the
\* configuration, registered or not, and all that are registered.
FrameworkFeeds ==
    /\ Runs("program")
    /\ Order
    /\ feeds' = [feeds EXCEPT !["program"] = [w \in Workspaces |->
                    IF w = Home THEN HomeDir ELSE IF dirs[w] # None THEN dirs[w] ELSE @[w]]]
    /\ fed' = IF dirs[Home] = None THEN fed \cup {Home} ELSE fed
    /\ UNCHANGED <<disk, dirs, docs, cache, reading, index, jobs, secrets, restarts, overtaken, shared, wiped, marred>>

\* ingest_and_index for the workspace of the configuration, ingest_workspace
\* for another, and wipe_and_reingest, which uses the framework's own client.
FrameworkIngest(w, mode) ==
    /\ Runs("program")
    /\ Order
    /\ StartJob("program", w, IF w = Home THEN HomeDir ELSE None, w = Home, mode, Home)
    /\ UNCHANGED <<disk, dirs, docs, cache, reading, index, feeds, secrets, restarts, history, marred>>

-----------------------------------------------------------------------------
(* The command line: each command a process, with Home the workspace it names *)

\* workspace create --multi-tenant: first the registration and the new key, ...
CLICreate(w, dir) ==
    /\ Order
    /\ cli = Idle
    /\ dirs' = [dirs EXCEPT ![w] = dir]
    /\ fed' = fed \ {w} /\ wiped' = wiped \ {w}
    /\ service = "tenants" /\ minted < MaxKeys
    /\ minted' = minted + 1
    /\ live' = live \cup {minted + 1}
    /\ cli' = [stage |-> IF fernet = None THEN "generate" ELSE "store", ws |-> w, key |-> minted + 1]
    /\ UNCHANGED <<disk, docs, cache, reading, index, feeds, jobs, service, keyRow, fernet, restarts, overtaken, shared, marred>>

\* ... then a Fernet key, when the file was not there, ...
CLIGenerate ==
    /\ cli.stage = "generate"
    /\ fernet' = "cli"
    /\ marred' = marred \cup {w \in Workspaces : keyRow[w] # None /\ keyRow[w].seal # "cli"}
    /\ cli' = [cli EXCEPT !.stage = "store"]
    /\ UNCHANGED <<disk, registry, service, keyRow, live, minted, ops, restarts, history>>

\* ... and the row.
CLIStore ==
    /\ cli.stage = "store"
    /\ keyRow' = [keyRow EXCEPT ![cli.ws] = Sealed(cli.key, fernet)]
    /\ marred' = marred \ {cli.ws}
    /\ cli' = Idle
    /\ UNCHANGED <<disk, registry, service, live, fernet, minted, ops, restarts, history>>

\* workspace delete --multi-tenant: the key in Meilisearch, then its row, ...
CLIDropKey(w) ==
    /\ Order
    /\ cli = Idle
    /\ keyRow[w] # None
    /\ live' \in {live, live \ {keyRow[w].key}}
    /\ cli' = [stage |-> "drop", ws |-> w, key |-> keyRow[w].key]
    /\ UNCHANGED <<disk, registry, service, keyRow, fernet, minted, restarts, history, marred>>

\* ... then the registration, and the index of the workspace itself.
CLIDelete(w, wipe) ==
    /\ \/ cli.stage = "drop" /\ cli.ws = w /\ UNCHANGED ops
       \/ cli = Idle /\ keyRow[w] = None /\ Order
    /\ keyRow' = [keyRow EXCEPT ![w] = None]
    /\ marred' = marred \ {w}
    /\ cli' = Idle
    /\ index' = IF wipe THEN [index EXCEPT ![w] = {}] ELSE index
    /\ DeleteRows(None, w)
    /\ Left(w, {})
    /\ wiped' = IF wipe THEN wiped \cup {w} ELSE wiped \ {w}
    /\ UNCHANGED <<disk, reading, feeds, jobs, service, live, fernet, minted, restarts, shared>>

\* The process may be killed before the second half.
CLIKilled ==
    /\ cli # Idle
    /\ marred' = IF cli.stage = "drop" THEN marred \cup {cli.ws} ELSE marred
    /\ cli' = Idle
    /\ UNCHANGED <<disk, registry, service, keyRow, live, fernet, minted, ops, restarts, history>>

\* ingest and serve --dirs.
CLIIngest(w, dir, mode) ==
    /\ Order
    /\ StartJob("cli", w, dir, TRUE, mode, w)
    /\ UNCHANGED <<disk, dirs, docs, cache, reading, index, feeds, secrets, restarts, history, marred>>

-----------------------------------------------------------------------------
Edit(d) ==
    /\ disk[d] < MaxVersion
    /\ disk' = [disk EXCEPT ![d] = @ + 1]
    /\ UNCHANGED <<registry, secrets, ops, restarts, history, marred>>

Next ==
    \/ \E d \in Docs : Edit(d) \/ \E m \in Managers : ReadRow(m, d)
    \/ \E m \in Managers : CacheRow(m)
    \/ \E j \in Jobs : Begin(j) \/ WipeRows(j) \/ EndJob(j) \/ \E d \in Docs : IngestFile(j, d)
    \/ \E w \in Workspaces, dir \in Dirs :
          \/ CreateWorkspace(w, dir) \/ FrameworkCreate(w, dir) \/ CLICreate(w, dir)
          \/ \E mode \in {"force", "wipe"} : CLIIngest(w, dir, mode)
    \/ \E w \in Workspaces, wipe \in BOOLEAN :
          DeleteWorkspace(w, wipe) \/ FrameworkDelete(w, wipe) \/ CLIDelete(w, wipe)
    \/ \E w \in Workspaces, mode \in {"delta", "force", "wipe"} :
          TriggerIngest(w, mode) \/ FrameworkIngest(w, mode)
    \/ \E p \in Feeders : StopFeeds(p) \/ \E w \in Workspaces : SetFeed(p, w) \/ Sync(p, w)
    \/ \E w \in Workspaces : CLIDropKey(w)
    \/ FrameworkFeeds \/ CLIGenerate \/ CLIStore \/ CLIKilled \/ Restart

Spec == Init /\ [][Next]_vars

-----------------------------------------------------------------------------
TypeOK ==
    /\ disk \in [Docs -> Versions]
    /\ dirs \in [Workspaces -> Dirs \cup {None}]
    /\ docs \in [Docs -> Row \cup {None}]
    /\ cache \in [Managers -> [Docs -> Row \cup {None}]]
    /\ reading \in [Managers -> Read \cup {None}]
    /\ index \in [Workspaces -> SUBSET Docs]
    /\ feeds \in [Feeders -> [Workspaces -> Dirs \cup {None}]]
    /\ jobs \in [Jobs -> Job \cup {None}]
    /\ keyRow \in [Workspaces -> KeyRow \cup {None}]
    /\ live \subseteq 1..MaxKeys
    /\ fernet \in Seals \cup {None}

\* What get_document finds in the cache of a manager is what the table says,
\* unless another manager, another process or a wipe wrote the document since,
\* a write met a read that had not cached its row, or the file belongs to two
\* workspaces (workspace_manager.py:142-151, 158-195, 198-230).
CacheFollowsTable ==
    \A m \in Managers, d \in Docs :
        cache[m][d] # None /\ d \notin overtaken[m] \cup shared => cache[m][d] = docs[d]

\* A deleted workspace has no documents, and none in its index when the
\* command line wiped it, unless a feed or an ingestion that took its directory
\* earlier goes on (framework.py:257-279, workspace_manager.py:142-151).
DeletedIsGone ==
    \A w \in Workspaces \ fed :
        /\ dirs[w] = None => RowsOf(w) = {}
        /\ w \in wiped => index[w] = {}

\* A recorded search key is one Meilisearch accepts and fernet.key opens, unless
\* a process died between its two halves or two processes made the Fernet
\* key (meili_key_provisioning.py:49-96, meili_key_crypto.py:52-71).
RecordedKeyWorks ==
    \A w \in Workspaces :
        keyRow[w] # None /\ w \notin marred /\ ~(cli.stage = "drop" /\ cli.ws = w)
            => keyRow[w].key \in live /\ keyRow[w].seal = fernet

\* Deleting a workspace with its index leaves the indexes of the others alone
\* ("Pass ?wipe=true to also delete its Meilisearch index", api_routes.py:1388).
WipeSparesOthers ==
    [][\A w, v \in Workspaces : DeleteWorkspace(w, TRUE) /\ v # w => index'[v] = index[v]]_vars
===============================================================================
