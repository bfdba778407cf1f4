--------------------------- MODULE Workspaces_proofs ---------------------------
(***************************************************************************)
(* Proofs about Workspaces for any workspaces, directories, documents,     *)
(* ingestions at a time and orders of users, in the dashboard, a program   *)
(* of the framework and the command line at once: a recorded search key    *)
(* works, a cached document is the row of the table, and a deleted         *)
(* workspace is gone, each but for what its history variable names.        *)
(*                                                                         *)
(* The three invariants are about different parts of the state and do not  *)
(* need each other: KeyInv (no key is recorded twice), CacheInv (a row     *)
(* that is read and not yet cached is current, too) and GoneInv (feeds and *)
(* ingestions only have directories of workspaces that are known).         *)
(***************************************************************************)
EXTENDS Workspaces, TLAPS

-----------------------------------------------------------------------------
(* Types. *)

\* The halves of a command of the command line, and what they have in hand.
Orders == [stage : {"idle", "generate", "store", "drop"}, ws : Workspaces, key : 0..MaxKeys]

\* The types of the registry and those of the keys, which few steps share.
RegistryTypes ==
    /\ disk \in [Docs -> Versions]
    /\ dirs \in [Workspaces -> Dirs \cup {None}]
    /\ docs \in [Docs -> Row \cup {None}]
    /\ cache \in [Managers -> [Docs -> Row \cup {None}]]
    /\ reading \in [Managers -> Read \cup {None}]
    /\ index \in [Workspaces -> SUBSET Docs]
    /\ feeds \in [Feeders -> [Workspaces -> Dirs \cup {None}]]
    /\ jobs \in [Jobs -> Job \cup {None}]

KeyTypes ==
    /\ keyRow \in [Workspaces -> KeyRow \cup {None}]
    /\ live \subseteq 1..MaxKeys
    /\ fernet \in Seals \cup {None}
    /\ service \in Services
    /\ minted \in 0..MaxKeys
    /\ cli \in Orders
    /\ cli.stage # "idle" => cli.key \in 1..MaxKeys
    /\ cli.stage = "store" => fernet # None

LEMMA TypesInit == Init => RegistryTypes /\ KeyTypes
<1> SUFFICES ASSUME Init PROVE RegistryTypes /\ KeyTypes
  OBVIOUS
<1>1. 1 \in Versions /\ Home \in Workspaces /\ 0 \in 0..MaxKeys
  BY WorkspacesAssumption DEF Versions, Workspaces
<1>2. RegistryTypes
  BY <1>1 DEF Init, RegistryTypes
<1>3. KeyTypes
  BY <1>1 DEF Init, KeyTypes, Idle, Orders
<1>4. QED
  BY <1>2, <1>3

\* The pieces of the registry's steps.
LEMMA StartJobType ==
    ASSUME RegistryTypes, NEW by \in Feeders \cup {"cli"}, NEW w \in Workspaces,
           NEW dir \in Dirs \cup {None}, NEW own \in BOOLEAN,
           NEW mode \in {"delta", "force", "wipe"}, NEW wipes \in Workspaces,
           StartJob(by, w, dir, own, mode, wipes)
    PROVE  jobs' \in [Jobs -> Job \cup {None}]
<1>1. PICK new : new = [by |-> by, ws |-> w, dir |-> dir, own |-> own, mode |-> mode,
                        wipes |-> wipes, todo |-> {}, stage |-> "start"]
  OBVIOUS
<1>2. new \in Job
  BY <1>1 DEF Job
<1>3. PICK j \in Jobs : jobs' = [jobs EXCEPT ![j] = new]
  BY <1>1 DEF StartJob
<1>4. QED
  BY <1>2, <1>3 DEF RegistryTypes

\* What Open does to a job, in the terms the invariants speak of.
Opened(j) ==
    /\ jobs'[j] # None
    /\ jobs'[j].stage = "files" /\ jobs'[j].ws = jobs[j].ws
    /\ jobs'[j].dir \in Dirs
    /\ jobs[j].own => /\ dirs' = [dirs EXCEPT ![jobs[j].ws] = jobs'[j].dir]
                      /\ fed' = fed \ {jobs[j].ws} /\ wiped' = wiped \ {jobs[j].ws}
    /\ ~jobs[j].own => /\ UNCHANGED <<dirs, fed, wiped>>
                       /\ jobs[j].dir # None \/ dirs[jobs[j].ws] # None

LEMMA OpenFacts ==
    ASSUME RegistryTypes, NEW j \in Jobs, jobs[j] # None, Open(j)
    PROVE  /\ jobs' \in [Jobs -> Job \cup {None}]
           /\ \A k \in Jobs : k # j => jobs'[k] = jobs[k]
           /\ \/ jobs'[j] = None /\ UNCHANGED <<dirs, fed, wiped>>
              \/ Opened(j)
           /\ dirs' \in [Workspaces -> Dirs \cup {None}]
<1>1. PICK job \in Job : job = jobs[j]
  BY DEF RegistryTypes
<1>2. PICK dir : dir = IF job.dir = None THEN dirs[job.ws] ELSE job.dir
  OBVIOUS
<1>3. job.ws \in Workspaces /\ dir \in Dirs \cup {None}
  BY <1>1, <1>2 DEF RegistryTypes, Job
<1>4. CASE dir = None
  <2>1. jobs' = [jobs EXCEPT ![j] = None] /\ UNCHANGED <<dirs, fed, wiped>>
    BY <1>1, <1>2, <1>4 DEF Open
  <2>2. QED
    BY <2>1 DEF RegistryTypes
<1>5. CASE dir # None
  <2>1. PICK new : new = [job EXCEPT !.dir = dir, !.todo = FilesIn(dir), !.stage = "files"]
    OBVIOUS
  <2>2. FilesIn(dir) \in SUBSET Docs
    BY DEF FilesIn
  <2>3. /\ new \in Job /\ new.ws = job.ws /\ new.dir = dir /\ new.stage = "files"
    BY <1>3, <2>1, <2>2 DEF Job
  <2>4. jobs' = [jobs EXCEPT ![j] = new]
    BY <1>1, <1>2, <1>5, <2>1 DEF Open
  <2>5. jobs'[j] = new /\ \A k \in Jobs : k # j => jobs'[k] = jobs[k]
    BY <2>4 DEF RegistryTypes
  <2>6. jobs' \in [Jobs -> Job \cup {None}]
    BY <2>3, <2>4 DEF RegistryTypes
  <2>7. /\ job.own => /\ dirs' = [dirs EXCEPT ![job.ws] = dir]
                      /\ fed' = fed \ {job.ws} /\ wiped' = wiped \ {job.ws}
        /\ ~job.own => UNCHANGED <<dirs, fed, wiped>>
    BY <1>1, <1>2, <1>5 DEF Open
  <2>8. ~job.own => job.dir # None \/ dirs[job.ws] # None
    BY <1>2, <1>5
  <2>9. dirs' \in [Workspaces -> Dirs \cup {None}]
    BY <1>3, <2>7 DEF RegistryTypes
  <2>10. new # None /\ dir \in Dirs
    BY <1>3, <1>5, <2>3, NoneIsNoRecord
  <2>11. Opened(j)
    BY <1>1, <2>3, <2>5, <2>7, <2>8, <2>10 DEF Opened
  <2>12. QED
    BY <2>5, <2>6, <2>9, <2>11
<1>6. QED
  BY <1>4, <1>5

\* A wipe's first half: the dashboard keeps the directory it has looked up.
Emptied(j) ==
    /\ jobs'[j] # None
    /\ jobs'[j].stage = "wipeRows" /\ jobs'[j].ws = jobs[j].ws /\ jobs'[j].own = jobs[j].own
    /\ jobs'[j].dir # jobs[j].dir => dirs[jobs[j].ws] # None

LEMMA BeginFacts ==
    ASSUME RegistryTypes, NEW j \in Jobs, Begin(j)
    PROVE  /\ jobs[j] # None /\ jobs[j].stage = "start" /\ jobs[j].ws \in Workspaces
           /\ jobs' \in [Jobs -> Job \cup {None}]
           /\ \A k \in Jobs : k # j => jobs'[k] = jobs[k]
           /\ \/ /\ Emptied(j) /\ UNCHANGED <<dirs, fed, wiped>>
                 /\ index' = [index EXCEPT ![jobs[j].wipes] = {}]
              \/ Open(j) /\ UNCHANGED index
<1>1. PICK job \in Job : job = jobs[j] /\ job # None
  BY DEF Begin, RegistryTypes
<1>2. CASE Open(j) /\ UNCHANGED index
  <2>1. jobs' \in [Jobs -> Job \cup {None}] /\ \A k \in Jobs : k # j => jobs'[k] = jobs[k]
    BY <1>1, <1>2, OpenFacts
  <2>2. QED
    BY <1>1, <1>2, <2>1 DEF Begin, Job
<1>3. CASE ~(Open(j) /\ UNCHANGED index)
  <2>1. PICK dir : dir = IF job.by = "ui" THEN dirs[job.ws] ELSE job.dir
    OBVIOUS
  <2>2. PICK new : new = [job EXCEPT !.stage = "wipeRows", !.dir = dir]
    OBVIOUS
  <2>3. /\ jobs' = [jobs EXCEPT ![j] = new]
        /\ index' = [index EXCEPT ![job.wipes] = {}]
        /\ UNCHANGED <<dirs, fed, wiped>>
        /\ job.by = "ui" => dirs[job.ws] # None
    BY <1>1, <1>3, <2>1, <2>2 DEF Begin
  <2>4. job.ws \in Workspaces /\ dir \in Dirs \cup {None}
    BY <1>1, <2>1 DEF RegistryTypes, Job
  <2>5. new \in Job /\ new.stage = "wipeRows" /\ new.ws = job.ws /\ new.own = job.own
        /\ new.dir = dir
    BY <1>1, <2>2, <2>4 DEF Job
  <2>6. jobs'[j] = new /\ (\A k \in Jobs : k # j => jobs'[k] = jobs[k])
        /\ jobs' \in [Jobs -> Job \cup {None}]
    BY <2>3, <2>5 DEF RegistryTypes
  <2>7. new # None
    BY <2>5, NoneIsNoRecord
  <2>8. Emptied(j)
    BY <1>1, <2>1, <2>3, <2>5, <2>6, <2>7 DEF Emptied
  <2>9. QED
    BY <1>1, <2>3, <2>4, <2>6, <2>8 DEF Begin
<1>4. QED
  BY <1>2, <1>3

LEMMA DeleteRowsType ==
    ASSUME RegistryTypes, NEW m \in Managers \cup {None}, NEW w \in Workspaces, DeleteRows(m, w)
    PROVE  /\ dirs' \in [Workspaces -> Dirs \cup {None}]
           /\ docs' \in [Docs -> Row \cup {None}]
           /\ cache' \in [Managers -> [Docs -> Row \cup {None}]]
<1>1. dirs' \in [Workspaces -> Dirs \cup {None}] /\ docs' \in [Docs -> Row \cup {None}]
  BY DEF DeleteRows, RegistryTypes
<1>2. CASE m = None
  BY <1>1, <1>2 DEF DeleteRows, RegistryTypes
<1>3. CASE m # None
  <2>1. cache' = [cache EXCEPT ![m] =
                     [d \in Docs |-> IF d \in NodesOf(m, w) THEN None ELSE cache[m][d]]]
    BY <1>3 DEF DeleteRows, Evicted
  <2>2. m \in Managers /\ [d \in Docs |-> IF d \in NodesOf(m, w) THEN None ELSE cache[m][d]]
                              \in [Docs -> Row \cup {None}]
    BY <1>3 DEF RegistryTypes
  <2>3. QED
    BY <1>1, <2>1, <2>2 DEF RegistryTypes
<1>4. QED
  BY <1>2, <1>3

\* The row a registration leaves: that of the table where there was one.
LEMMA RegisterType ==
    ASSUME RegistryTypes, NEW m, NEW w \in Workspaces, NEW d \in Docs, RegisterDocument(m, w, d)
    PROVE  /\ docs' \in [Docs -> Row \cup {None}]
           /\ cache' \in [Managers -> [Docs -> Row \cup {None}]]
           /\ \A e \in Docs : e # d => docs'[e] = docs[e]
           /\ docs'[d] # None
           /\ docs'[d].ws = IF docs[d] = None THEN w ELSE docs[d].ws
<1>1. PICK node : node = [ws |-> w, ver |-> disk[d]]
  OBVIOUS
<1>2. PICK row : row = [node EXCEPT !.ws = IF docs[d] = None THEN w ELSE docs[d].ws]
  OBVIOUS
<1>3. disk[d] \in Versions /\ (docs[d] # None => docs[d].ws \in Workspaces)
  BY DEF RegistryTypes, Row
<1>4. node \in Row
  BY <1>1, <1>3 DEF Row
<1>5. row \in Row /\ row.ws = IF docs[d] = None THEN w ELSE docs[d].ws
  BY <1>1, <1>2, <1>3 DEF Row
<1>6. /\ docs' = [docs EXCEPT ![d] = row]
      /\ cache' = [n \in Managers |-> IF n = m THEN [cache[n] EXCEPT ![d] = node] ELSE cache[n]]
  BY <1>1, <1>2 DEF RegisterDocument
<1>7. docs' \in [Docs -> Row \cup {None}] /\ docs'[d] = row
      /\ \A e \in Docs : e # d => docs'[e] = docs[e]
  BY <1>5, <1>6 DEF RegistryTypes
<1>8. cache' \in [Managers -> [Docs -> Row \cup {None}]]
  BY <1>4, <1>6 DEF RegistryTypes
<1>9. row # None
  BY <1>5, NoneIsNoRecord
<1>10. QED
  BY <1>5, <1>7, <1>8, <1>9

\* The orders of users, programs and the command line that touch the registry.
LEMMA OrdersKeepRegistry ==
    ASSUME RegistryTypes, NEW w \in Workspaces
    PROVE  /\ \A dir \in Dirs : CreateWorkspace(w, dir) \/ FrameworkCreate(w, dir)
                                \/ CLICreate(w, dir) => RegistryTypes'
           /\ \A wipe \in BOOLEAN : DeleteWorkspace(w, wipe) \/ FrameworkDelete(w, wipe)
                                    \/ CLIDelete(w, wipe) => RegistryTypes'
           /\ \A dir \in Dirs, mode \in {"force", "wipe"} : CLIIngest(w, dir, mode) => RegistryTypes'
           /\ \A mode \in {"delta", "force", "wipe"} :
                 TriggerIngest(w, mode) \/ FrameworkIngest(w, mode) => RegistryTypes'
           /\ \A p \in Feeders : SetFeed(p, w) \/ Sync(p, w) => RegistryTypes'
<1>0. /\ "ui" \in Feeders /\ "program" \in Feeders /\ HomeDir \in Dirs /\ Home \in Workspaces
      /\ "server" \in Managers /\ "program" \in Managers
  BY WorkspacesAssumption DEF Feeders, Managers, Workspaces
<1>1. ASSUME NEW dir \in Dirs,
             CreateWorkspace(w, dir) \/ FrameworkCreate(w, dir) \/ CLICreate(w, dir)
      PROVE  RegistryTypes'
  BY <1>1 DEF CreateWorkspace, FrameworkCreate, CLICreate, RegistryTypes
<1>2. ASSUME NEW wipe \in BOOLEAN, NEW m \in Managers \cup {None}, DeleteRows(m, w),
             index' = index \/ \E v \in Workspaces : index' = [index EXCEPT ![v] = {}],
             \/ feeds' = feeds
             \/ feeds' = [feeds EXCEPT !["program"][w] = None],
             UNCHANGED <<disk, reading, jobs>>
      PROVE  RegistryTypes'
  <2>1. index' \in [Workspaces -> SUBSET Docs]
    BY <1>2 DEF RegistryTypes
  <2>2. feeds' \in [Feeders -> [Workspaces -> Dirs \cup {None}]]
    <3>1. [feeds["program"] EXCEPT ![w] = None] \in [Workspaces -> Dirs \cup {None}]
      BY <1>0 DEF RegistryTypes
    <3>2. QED
      BY <1>0, <1>2, <3>1 DEF RegistryTypes
  <2>3. QED
    BY <1>2, <2>1, <2>2, DeleteRowsType DEF RegistryTypes
<1>3. ASSUME NEW wipe \in BOOLEAN,
             DeleteWorkspace(w, wipe) \/ FrameworkDelete(w, wipe) \/ CLIDelete(w, wipe)
      PROVE  RegistryTypes'
  BY <1>0, <1>2, <1>3 DEF DeleteWorkspace, FrameworkDelete, CLIDelete
<1>4. ASSUME NEW dir \in Dirs, NEW mode \in {"force", "wipe"}, CLIIngest(w, dir, mode)
      PROVE  RegistryTypes'
  <2>1. StartJob("cli", w, dir, TRUE, mode, w)
    BY <1>4 DEF CLIIngest
  <2>2. jobs' \in [Jobs -> Job \cup {None}]
    BY <2>1, StartJobType
  <2>3. QED
    BY <1>4, <2>2 DEF CLIIngest, RegistryTypes
<1>5. ASSUME NEW mode \in {"delta", "force", "wipe"}, TriggerIngest(w, mode) \/ FrameworkIngest(w, mode)
      PROVE  RegistryTypes'
  <2>1. \/ StartJob("ui", w, None, FALSE, mode, w)
        \/ StartJob("program", w, IF w = Home THEN HomeDir ELSE None, w = Home, mode, Home)
    BY <1>5 DEF TriggerIngest, FrameworkIngest
  <2>2. ASSUME StartJob("ui", w, None, FALSE, mode, w)
        PROVE  jobs' \in [Jobs -> Job \cup {None}]
    BY <1>0, <2>2, StartJobType
  <2>3. ASSUME StartJob("program", w, IF w = Home THEN HomeDir ELSE None, w = Home, mode, Home)
        PROVE  jobs' \in [Jobs -> Job \cup {None}]
    <3>1. PICK dir \in Dirs \cup {None} : dir = IF w = Home THEN HomeDir ELSE None
      BY <1>0
    <3>2. PICK own \in BOOLEAN : own = (w = Home)
      OBVIOUS
    <3>3. StartJob("program", w, dir, own, mode, Home)
      BY <2>3, <3>1, <3>2
    <3>4. QED
      BY <1>0, <3>3, StartJobType
  <2>4. jobs' \in [Jobs -> Job \cup {None}]
    BY <1>0, <2>1, <2>2, <2>3
  <2>5. QED
    BY <1>5, <2>4 DEF TriggerIngest, FrameworkIngest, RegistryTypes
<1>6. ASSUME NEW p \in Feeders, SetFeed(p, w) \/ Sync(p, w) PROVE RegistryTypes'
  <2>1. CASE SetFeed(p, w)
    BY <2>1 DEF SetFeed, RegistryTypes
  <2>2. CASE Sync(p, w)
    <3>1. feeds[p][w] \in Dirs \cup {None}
      BY DEF RegistryTypes
    <3>2. QED
      BY <2>2, <3>1, StartJobType DEF Sync, RegistryTypes
  <2>3. QED
    BY <1>6, <2>1, <2>2
<1>7. QED
  BY <1>1, <1>3, <1>4, <1>5, <1>6

\* Readers, ingestions and feeds.
LEMMA JobsKeepRegistry ==
    ASSUME RegistryTypes, NEW j \in Jobs
    PROVE  /\ Begin(j) => RegistryTypes'
           /\ WipeRows(j) => RegistryTypes'
           /\ \A d \in Docs : IngestFile(j, d) => RegistryTypes'
           /\ EndJob(j) => RegistryTypes'
<1>1. ASSUME Begin(j) PROVE RegistryTypes'
  <2>1. jobs' \in [Jobs -> Job \cup {None}]
    BY <1>1, BeginFacts
  <2>2. /\ index' \in [Workspaces -> SUBSET Docs]
        /\ dirs' \in [Workspaces -> Dirs \cup {None}]
    <3>1. CASE Open(j) /\ UNCHANGED index
      BY <1>1, <3>1, OpenFacts DEF Begin, RegistryTypes
    <3>2. CASE index' = [index EXCEPT ![jobs[j].wipes] = {}] /\ UNCHANGED dirs
      BY <3>2 DEF RegistryTypes
    <3>3. QED
      BY <1>1, <3>1, <3>2, BeginFacts
  <2>3. QED
    BY <1>1, <2>1, <2>2 DEF Begin, RegistryTypes
<1>2. ASSUME WipeRows(j) PROVE RegistryTypes'
  <2>1. jobs' \in [Jobs -> Job \cup {None}] /\ dirs' \in [Workspaces -> Dirs \cup {None}]
    BY <1>2, OpenFacts DEF WipeRows
  <2>2. docs' \in [Docs -> Row \cup {None}]
    BY <1>2 DEF WipeRows, RegistryTypes
  <2>3. QED
    BY <1>2, <2>1, <2>2 DEF WipeRows, RegistryTypes
<1>3. ASSUME NEW d \in Docs, IngestFile(j, d) PROVE RegistryTypes'
  <2>1. PICK job \in Job : job = jobs[j] /\ job # None
    BY <1>3 DEF IngestFile, RegistryTypes
  <2>2. PICK new : new = [job EXCEPT !.todo = @ \ {d}]
    OBVIOUS
  <2>3. new \in Job /\ job.ws \in Workspaces
    BY <2>1, <2>2 DEF Job
  <2>4. jobs' = [jobs EXCEPT ![j] = new]
    BY <1>3, <2>1, <2>2 DEF IngestFile
  <2>5. jobs' \in [Jobs -> Job \cup {None}]
    BY <2>3, <2>4 DEF RegistryTypes
  <2>6. \/ UNCHANGED <<docs, cache, index>>
        \/ /\ index' = [index EXCEPT ![job.ws] = @ \cup {d}]
           /\ RegisterDocument(job.by, job.ws, d)
    BY <1>3, <2>1 DEF IngestFile
  <2>7. docs' \in [Docs -> Row \cup {None}] /\ cache' \in [Managers -> [Docs -> Row \cup {None}]]
    BY <2>3, <2>6, RegisterType DEF RegistryTypes
  <2>8. index' \in [Workspaces -> SUBSET Docs]
    BY <2>3, <2>6 DEF RegistryTypes
  <2>9. QED
    BY <1>3, <2>5, <2>7, <2>8 DEF IngestFile, RegistryTypes
<1>4. ASSUME EndJob(j) PROVE RegistryTypes'
  BY <1>4 DEF EndJob, RegistryTypes
<1>5. QED
  BY <1>1, <1>2, <1>3, <1>4

LEMMA OthersKeepRegistry ==
    ASSUME RegistryTypes
    PROVE  /\ \A d \in Docs : Edit(d) => RegistryTypes'
           /\ \A m \in Managers, d \in Docs : ReadRow(m, d) => RegistryTypes'
           /\ \A m \in Managers : CacheRow(m) => RegistryTypes'
           /\ \A p \in Feeders : StopFeeds(p) => RegistryTypes'
           /\ FrameworkFeeds => RegistryTypes'
           /\ Restart => RegistryTypes'
           /\ \A w \in Workspaces : CLIDropKey(w) => RegistryTypes'
           /\ CLIGenerate \/ CLIStore \/ CLIKilled => RegistryTypes'
<1>0. /\ "ui" \in Feeders /\ "program" \in Feeders /\ HomeDir \in Dirs /\ MaxVersion \in Nat
  BY WorkspacesAssumption DEF Feeders
<1>1. ASSUME NEW d \in Docs, Edit(d) PROVE RegistryTypes'
  <2>1. disk[d] \in 1..MaxVersion /\ disk[d] < MaxVersion /\ disk' = [disk EXCEPT ![d] = @ + 1]
    BY <1>1 DEF Edit, RegistryTypes, Versions
  <2>2. disk[d] + 1 \in Versions
    BY <1>0, <2>1 DEF Versions
  <2>3. QED
    BY <1>1, <2>1, <2>2 DEF Edit, registry, RegistryTypes
<1>2. ASSUME NEW m \in Managers, NEW d \in Docs, ReadRow(m, d) PROVE RegistryTypes'
  <2>1. PICK new : new = [doc |-> d, row |-> docs[d]]
    OBVIOUS
  <2>2. docs[d] \in Row
    BY <1>2 DEF ReadRow, RegistryTypes
  <2>3. new \in Read /\ reading' = [reading EXCEPT ![m] = new]
    BY <1>2, <2>1, <2>2 DEF ReadRow, Read
  <2>4. QED
    BY <1>2, <2>3 DEF ReadRow, RegistryTypes
<1>3. ASSUME NEW m \in Managers, CacheRow(m) PROVE RegistryTypes'
  <2>1. reading[m].doc \in Docs /\ reading[m].row \in Row
    BY <1>3 DEF CacheRow, RegistryTypes, Read
  <2>2. [cache[m] EXCEPT ![reading[m].doc] = reading[m].row] \in [Docs -> Row \cup {None}]
    BY <2>1 DEF RegistryTypes
  <2>3. cache' \in [Managers -> [Docs -> Row \cup {None}]]
    BY <1>3, <2>2 DEF CacheRow, RegistryTypes
  <2>4. QED
    BY <1>3, <2>3 DEF CacheRow, RegistryTypes
<1>4. ASSUME NEW p \in Feeders, StopFeeds(p) PROVE RegistryTypes'
  BY <1>4 DEF StopFeeds, RegistryTypes
<1>5. ASSUME FrameworkFeeds PROVE RegistryTypes'
  <2>1. PICK new : new = [w \in Workspaces |->
              IF w = Home THEN HomeDir ELSE IF dirs[w] # None THEN dirs[w] ELSE feeds["program"][w]]
    OBVIOUS
  <2>2. new \in [Workspaces -> Dirs \cup {None}]
    BY <1>0, <2>1 DEF RegistryTypes
  <2>3. feeds' = [feeds EXCEPT !["program"] = new]
    BY <1>0, <1>5, <2>1 DEF FrameworkFeeds
  <2>4. QED
    BY <1>5, <2>2, <2>3 DEF FrameworkFeeds, RegistryTypes
<1>6. ASSUME Restart PROVE RegistryTypes'
  BY <1>6 DEF Restart, RegistryTypes
<1>7. ASSUME NEW w \in Workspaces, CLIDropKey(w) PROVE RegistryTypes'
  BY <1>7 DEF CLIDropKey, registry, RegistryTypes
<1>8. ASSUME CLIGenerate \/ CLIStore \/ CLIKilled PROVE RegistryTypes'
  BY <1>8 DEF CLIGenerate, CLIStore, CLIKilled, registry, RegistryTypes
<1>9. QED
  BY <1>1, <1>2, <1>3, <1>4, <1>5, <1>6, <1>7, <1>8

LEMMA RegistryStep == RegistryTypes /\ [Next]_vars => RegistryTypes'
<1> SUFFICES ASSUME RegistryTypes, [Next]_vars PROVE RegistryTypes'
  OBVIOUS
<1>1. CASE UNCHANGED vars
  BY <1>1 DEF vars, registry, RegistryTypes
<1>2. CASE Next
  BY <1>2, OrdersKeepRegistry, JobsKeepRegistry, OthersKeepRegistry DEF Next
<1>3. QED
  BY <1>1, <1>2

-----------------------------------------------------------------------------
(* Scoped keys. *)

\* The command line has a key that it has not recorded yet.
Pending == cli.stage \in {"generate", "store"}

HasRow(w) == keyRow[w] # None

\* No key is recorded twice, and a new one is not recorded before its time: so
\* whoever drops the key of a workspace drops no other one's.
KeysApart ==
    /\ \A w \in Workspaces : HasRow(w) => keyRow[w].key <= minted
    /\ \A w, v \in Workspaces : HasRow(w) /\ HasRow(v) /\ keyRow[w].key = keyRow[v].key => w = v
    /\ Pending => /\ cli.key \in live /\ cli.key <= minted
                  /\ \A w \in Workspaces : HasRow(w) => keyRow[w].key # cli.key

KeyInv == KeyTypes /\ KeysApart /\ RecordedKeyWorks

LEMMA KeyInit == Init => KeyInv
<1> SUFFICES ASSUME Init PROVE KeyInv
  OBVIOUS
<1>1. KeysApart
  BY DEF Init, Idle, KeysApart, Pending, HasRow
<1>2. RecordedKeyWorks
  BY DEF Init, RecordedKeyWorks
<1>3. QED
  BY <1>1, <1>2, TypesInit DEF KeyInv

\* The parts of the state this section is about.
keyVars == <<service, keyRow, live, fernet, cli, minted, marred>>

LEMMA KeysAlone ==
    ASSUME KeyInv, UNCHANGED keyVars
    PROVE  KeyInv'
BY DEF KeyInv, keyVars, KeyTypes, KeysApart, RecordedKeyWorks, Pending, HasRow

\* A new key: nobody has its number.
LEMMA NewKey ==
    ASSUME KeyInv, minted < MaxKeys
    PROVE  /\ minted + 1 \in 1..MaxKeys /\ minted + 1 \in 0..MaxKeys /\ minted \in Nat
           /\ \A w \in Workspaces : HasRow(w) => keyRow[w].key # minted + 1 /\ keyRow[w].key \in Nat
           /\ Pending => cli.key # minted + 1 /\ cli.key \in Nat
<1>1. minted \in 0..MaxKeys /\ MaxKeys \in Nat
  BY WorkspacesAssumption DEF KeyInv, KeyTypes
<1>2. \A w \in Workspaces : HasRow(w) => keyRow[w].key \in 1..MaxKeys /\ keyRow[w].key <= minted
  BY DEF KeyInv, KeyTypes, KeysApart, HasRow, KeyRow
<1>3. Pending => cli.key \in 0..MaxKeys /\ cli.key <= minted
  BY DEF KeyInv, KeyTypes, KeysApart, Orders
<1>4. QED
  BY <1>1, <1>2, <1>3

LEMMA ProvisionKeepsKeys ==
    ASSUME KeyInv, NEW w \in Workspaces, Provision(w), UNCHANGED <<service, cli>>
    PROVE  KeyInv'
<1>1. CASE UNCHANGED <<keyRow, live, fernet, minted, marred>>
  BY <1>1, KeysAlone DEF keyVars
<1>2. CASE /\ minted < MaxKeys /\ minted' = minted + 1 /\ live' = live \cup {minted + 1}
           /\ UNCHANGED <<keyRow, fernet, marred>>
  <2>1. KeyTypes'
    BY <1>2, NewKey DEF KeyInv, KeyTypes
  <2>2. KeysApart'
    BY <1>2, NewKey DEF KeyInv, KeysApart, Pending, HasRow
  <2>3. RecordedKeyWorks'
    BY <1>2 DEF KeyInv, RecordedKeyWorks
  <2>4. QED
    BY <2>1, <2>2, <2>3 DEF KeyInv
<1>3. ASSUME minted < MaxKeys, minted' = minted + 1, live' = live \cup {minted + 1},
             NEW seal, seal = IF fernet = None THEN "dashboard" ELSE fernet,
             fernet' = seal, keyRow' = [keyRow EXCEPT ![w] = Sealed(minted + 1, seal)],
             marred' = marred \ {w}
      PROVE  KeyInv'
  <2>1. PICK row : row = Sealed(minted + 1, seal)
    OBVIOUS
  <2>2. seal \in Seals
    BY <1>3 DEF KeyInv, KeyTypes, Seals
  <2>3. row \in KeyRow /\ row.key = minted + 1 /\ row.seal = seal
    BY <1>3, <2>1, <2>2, NewKey DEF Sealed, KeyRow
  <2>4. keyRow'[w] = row /\ \A v \in Workspaces : v # w => keyRow'[v] = keyRow[v]
    BY <1>3, <2>1 DEF KeyInv, KeyTypes
  <2>5. KeyTypes'
    <3>1. keyRow' \in [Workspaces -> KeyRow \cup {None}]
      BY <1>3, <2>1, <2>3 DEF KeyInv, KeyTypes
    <3>2. minted' \in 0..MaxKeys /\ live' \subseteq 1..MaxKeys
      BY <1>3, NewKey DEF KeyInv, KeyTypes
    <3>3. fernet' # None
      BY <1>3, <2>2, NoneIsNoRecord
    <3>4. QED
      BY <1>3, <2>2, <3>1, <3>2, <3>3 DEF KeyInv, KeyTypes
  <2>6. KeysApart'
    <3>1. minted' = minted + 1 /\ minted \in Nat
      BY <1>3, NewKey
    <3>2. \A v \in Workspaces : HasRow(v)' => keyRow'[v].key <= minted'
      BY <1>3, <2>3, <2>4, <3>1, NewKey DEF KeyInv, KeysApart, HasRow
    <3>3. \A u, v \in Workspaces :
             HasRow(u)' /\ HasRow(v)' /\ keyRow'[u].key = keyRow'[v].key => u = v
      BY <1>3, <2>3, <2>4, NewKey DEF KeyInv, KeysApart, HasRow
    <3>4. Pending' => /\ cli'.key \in live' /\ cli'.key <= minted'
                      /\ \A v \in Workspaces : HasRow(v)' => keyRow'[v].key # cli'.key
      BY <1>3, <2>3, <2>4, <3>1, NewKey DEF KeyInv, KeysApart, HasRow, Pending
    <3>5. QED
      BY <3>2, <3>3, <3>4 DEF KeysApart
  <2>7. RecordedKeyWorks'
    <3> SUFFICES ASSUME NEW v \in Workspaces, keyRow'[v] # None, v \notin marred',
                        ~(cli'.stage = "drop" /\ cli'.ws = v)
                 PROVE  keyRow'[v].key \in live' /\ keyRow'[v].seal = fernet'
      BY DEF RecordedKeyWorks
    <3>1. CASE v = w
      BY <1>3, <2>3, <2>4, <3>1
    <3>2. CASE v # w
      <4>1. keyRow[v] # None /\ v \notin marred /\ keyRow[v].key \in live /\ keyRow[v].seal = fernet
        BY <1>3, <2>4, <3>2 DEF KeyInv, RecordedKeyWorks
      <4>2. keyRow[v].seal \in Seals
        BY <4>1 DEF KeyInv, KeyTypes, KeyRow
      <4>3. fernet' = fernet
        BY <1>3, <4>1, <4>2, NoneIsNoRecord
      <4>4. QED
        BY <1>3, <2>4, <3>2, <4>1, <4>3
    <3>3. QED
      BY <3>1, <3>2
  <2>8. QED
    BY <2>5, <2>6, <2>7 DEF KeyInv
<1>4. QED
  BY <1>1, <1>2, <1>3 DEF Provision

\* A row and perhaps its key go.
LEMMA RowGone ==
    ASSUME KeyInv, NEW w \in Workspaces, keyRow' = [keyRow EXCEPT ![w] = None],
           \/ live' = live
           \/ HasRow(w) /\ live' = live \ {keyRow[w].key},
           marred' = marred \ {w}, UNCHANGED <<service, fernet, minted>>,
           cli' = cli \/ (cli' = Idle /\ (cli.stage = "drop" => cli.ws = w))
    PROVE  KeyInv'
<1>1. keyRow'[w] = None /\ \A v \in Workspaces : v # w => keyRow'[v] = keyRow[v]
  BY DEF KeyInv, KeyTypes
<1>2. Idle \in Orders /\ Idle.stage = "idle"
  BY WorkspacesAssumption DEF Idle, Orders, Workspaces
<1>3. KeyTypes'
  <2>1. keyRow' \in [Workspaces -> KeyRow \cup {None}] /\ live' \subseteq 1..MaxKeys
    BY DEF KeyInv, KeyTypes
  <2>2. QED
    BY <1>2, <2>1 DEF KeyInv, KeyTypes
<1>4. KeysApart'
  BY <1>1, <1>2 DEF KeyInv, KeysApart, Pending, HasRow
<1>5. RecordedKeyWorks'
  <2> SUFFICES ASSUME NEW v \in Workspaces, keyRow'[v] # None, v \notin marred',
                      ~(cli'.stage = "drop" /\ cli'.ws = v)
               PROVE  keyRow'[v].key \in live' /\ keyRow'[v].seal = fernet'
    BY DEF RecordedKeyWorks
  <2>1. v # w /\ keyRow'[v] = keyRow[v] /\ keyRow[v] # None /\ v \notin marred
    BY <1>1
  <2>2. ~(cli.stage = "drop" /\ cli.ws = v)
    BY <2>1
  <2>3. keyRow[v].key \in live /\ keyRow[v].seal = fernet
    BY <2>1, <2>2 DEF KeyInv, RecordedKeyWorks
  <2>4. HasRow(w) => keyRow[w].key # keyRow[v].key
    BY <2>1 DEF KeyInv, KeysApart, HasRow
  <2>5. QED
    BY <2>1, <2>3, <2>4
<1>6. QED
  BY <1>3, <1>4, <1>5 DEF KeyInv

LEMMA CommandsKeepKeys ==
    ASSUME KeyInv
    PROVE  /\ \A w \in Workspaces, dir \in Dirs : CLICreate(w, dir) => KeyInv'
           /\ CLIGenerate => KeyInv'
           /\ CLIStore => KeyInv'
           /\ \A w \in Workspaces : CLIDropKey(w) => KeyInv'
           /\ \A w \in Workspaces, wipe \in BOOLEAN : CLIDelete(w, wipe) => KeyInv'
           /\ CLIKilled => KeyInv'
<1>0. /\ Idle \in Orders /\ Idle.stage = "idle"
      /\ cli \in Orders /\ cli.ws \in Workspaces /\ cli.key \in 0..MaxKeys
  BY WorkspacesAssumption DEF Idle, Orders, Workspaces, KeyInv, KeyTypes
<1>1. ASSUME NEW w \in Workspaces, NEW dir \in Dirs, CLICreate(w, dir) PROVE KeyInv'
  <2>1. /\ minted < MaxKeys /\ minted' = minted + 1 /\ live' = live \cup {minted + 1}
        /\ cli' = [stage |-> IF fernet = None THEN "generate" ELSE "store", ws |-> w, key |-> minted + 1]
        /\ UNCHANGED <<service, keyRow, fernet, marred>> /\ cli = Idle
    BY <1>1 DEF CLICreate
  <2>2. PICK stage \in {"generate", "store"} : stage = IF fernet = None THEN "generate" ELSE "store"
    OBVIOUS
  <2>3. cli'.stage = stage /\ cli'.ws = w /\ cli'.key = minted + 1 /\ cli' \in Orders
    BY <2>1, <2>2, NewKey DEF Orders
  <2>4. KeyTypes'
    BY <2>1, <2>2, <2>3, NewKey DEF KeyInv, KeyTypes
  <2>5. KeysApart'
    BY <2>1, <2>3, NewKey DEF KeyInv, KeysApart, HasRow, Pending
  <2>6. RecordedKeyWorks'
    BY <1>0, <2>1, <2>3 DEF KeyInv, RecordedKeyWorks
  <2>7. QED
    BY <2>4, <2>5, <2>6 DEF KeyInv
<1>2. ASSUME CLIGenerate PROVE KeyInv'
  <2>1. /\ cli.stage = "generate" /\ fernet' = "cli" /\ cli' = [cli EXCEPT !.stage = "store"]
        /\ marred' = marred \cup {w \in Workspaces : keyRow[w] # None /\ keyRow[w].seal # "cli"}
        /\ UNCHANGED <<service, keyRow, live, minted>>
    BY <1>2 DEF CLIGenerate
  <2>2. cli' \in Orders /\ cli'.stage = "store" /\ cli'.key = cli.key
    BY <1>0, <2>1 DEF Orders
  <2>3. "cli" \in Seals /\ "cli" # None
    BY NoneIsNoRecord DEF Seals
  <2>4. KeyTypes'
    BY <2>1, <2>2, <2>3 DEF KeyInv, KeyTypes
  <2>5. KeysApart'
    BY <2>1, <2>2 DEF KeyInv, KeysApart, Pending, HasRow
  <2>6. RecordedKeyWorks'
    BY <2>1, <2>2 DEF KeyInv, RecordedKeyWorks
  <2>7. QED
    BY <2>4, <2>5, <2>6 DEF KeyInv
<1>3. ASSUME CLIStore PROVE KeyInv'
  <2>1. PICK row : row = Sealed(cli.key, fernet)
    OBVIOUS
  <2>2. /\ cli.stage = "store" /\ keyRow' = [keyRow EXCEPT ![cli.ws] = row]
        /\ marred' = marred \ {cli.ws} /\ cli' = Idle
        /\ UNCHANGED <<service, live, fernet, minted>>
    BY <1>3, <2>1 DEF CLIStore
  <2>3. /\ cli.key \in 1..MaxKeys /\ fernet \in Seals
        /\ cli.key \in live /\ cli.key <= minted
        /\ \A w \in Workspaces : HasRow(w) => keyRow[w].key # cli.key
    BY <2>2 DEF KeyInv, KeyTypes, KeysApart, Pending
  <2>4. row \in KeyRow /\ row.key = cli.key /\ row.seal = fernet
    BY <2>1, <2>3 DEF Sealed, KeyRow
  <2>5. keyRow'[cli.ws] = row /\ \A w \in Workspaces : w # cli.ws => keyRow'[w] = keyRow[w]
    BY <1>0, <2>2 DEF KeyInv, KeyTypes
  <2>6. KeyTypes'
    <3>1. keyRow' \in [Workspaces -> KeyRow \cup {None}]
      BY <1>0, <2>2, <2>4 DEF KeyInv, KeyTypes
    <3>2. QED
      BY <1>0, <2>2, <3>1 DEF KeyInv, KeyTypes
  <2>7. KeysApart'
    BY <1>0, <2>2, <2>3, <2>4, <2>5 DEF KeyInv, KeysApart, Pending, HasRow
  <2>8. RecordedKeyWorks'
    BY <1>0, <2>2, <2>3, <2>4, <2>5 DEF KeyInv, RecordedKeyWorks
  <2>9. QED
    BY <2>6, <2>7, <2>8 DEF KeyInv
<1>4. ASSUME NEW w \in Workspaces, CLIDropKey(w) PROVE KeyInv'
  <2>1. PICK key : key = keyRow[w].key
    OBVIOUS
  <2>2. /\ cli = Idle /\ HasRow(w)
        /\ live' = live \/ live' = live \ {key}
        /\ cli' = [stage |-> "drop", ws |-> w, key |-> key]
        /\ UNCHANGED <<service, keyRow, fernet, minted, marred>>
    BY <1>4, <2>1 DEF CLIDropKey, HasRow
  <2>3. key \in 1..MaxKeys
    BY <2>1, <2>2 DEF KeyInv, KeyTypes, HasRow, KeyRow
  <2>4. key \in 0..MaxKeys
    BY <2>3
  <2>5. cli' \in Orders /\ cli'.stage = "drop" /\ cli'.ws = w /\ cli'.key = key
    BY <2>2, <2>4 DEF Orders
  <2>6. KeyTypes'
    BY <2>2, <2>3, <2>5 DEF KeyInv, KeyTypes
  <2>7. KeysApart'
    BY <2>2, <2>5 DEF KeyInv, KeysApart, Pending, HasRow
  <2>8. RecordedKeyWorks'
    <3> SUFFICES ASSUME NEW v \in Workspaces, keyRow'[v] # None, v \notin marred',
                        ~(cli'.stage = "drop" /\ cli'.ws = v)
                 PROVE  keyRow'[v].key \in live' /\ keyRow'[v].seal = fernet'
      BY DEF RecordedKeyWorks
    <3>1. v # w /\ keyRow[v] # None /\ v \notin marred
      BY <2>2, <2>5
    <3>2. keyRow[v].key \in live /\ keyRow[v].seal = fernet
      BY <1>0, <2>2, <3>1 DEF KeyInv, RecordedKeyWorks
    <3>3. keyRow[v].key # key
      BY <2>1, <2>2, <3>1 DEF KeyInv, KeysApart, HasRow
    <3>4. QED
      BY <2>2, <3>2, <3>3
  <2>9. QED
    BY <2>6, <2>7, <2>8 DEF KeyInv
<1>5. ASSUME NEW w \in Workspaces, NEW wipe \in BOOLEAN, CLIDelete(w, wipe) PROVE KeyInv'
  <2>1. cli.stage = "drop" => cli.ws = w
    BY <1>0, <1>5 DEF CLIDelete
  <2>2. QED
    BY <1>5, <2>1, RowGone DEF CLIDelete
<1>6. ASSUME CLIKilled PROVE KeyInv'
  <2>1. /\ cli' = Idle /\ UNCHANGED <<service, keyRow, live, fernet, minted>>
        /\ marred' = IF cli.stage = "drop" THEN marred \cup {cli.ws} ELSE marred
    BY <1>6 DEF CLIKilled
  <2>2. KeyTypes'
    BY <1>0, <2>1 DEF KeyInv, KeyTypes
  <2>3. KeysApart'
    BY <1>0, <2>1 DEF KeyInv, KeysApart, Pending, HasRow
  <2>4. RecordedKeyWorks'
    BY <1>0, <2>1 DEF KeyInv, RecordedKeyWorks
  <2>5. QED
    BY <2>2, <2>3, <2>4 DEF KeyInv
<1>7. QED
  BY <1>1, <1>2, <1>3, <1>4, <1>5, <1>6

LEMMA RestartKeepsKeys ==
    ASSUME KeyInv, Restart
    PROVE  KeyInv'
<1>1. CASE UNCHANGED <<live, marred>>
  BY <1>1, KeysAlone DEF Restart, keyVars
<1>2. ASSUME NEW w \in Workspaces, HasRow(w), live' = live \ {keyRow[w].key},
             marred' = marred \cup {w}
      PROVE  KeyInv'
  <2>1. UNCHANGED <<service, keyRow, fernet, cli, minted>>
    BY DEF Restart
  <2>2. KeyTypes'
    BY <1>2, <2>1 DEF KeyInv, KeyTypes
  <2>3. KeysApart'
    BY <1>2, <2>1 DEF KeyInv, KeysApart, Pending, HasRow
  <2>4. RecordedKeyWorks'
    BY <1>2, <2>1 DEF KeyInv, KeysApart, HasRow, RecordedKeyWorks
  <2>5. QED
    BY <2>2, <2>3, <2>4 DEF KeyInv
<1>3. QED
  BY <1>1, <1>2 DEF Restart, HasRow

LEMMA KeyStep == KeyInv /\ [Next]_vars => KeyInv'
<1> SUFFICES ASSUME KeyInv, [Next]_vars PROVE KeyInv'
  OBVIOUS
<1>1. CASE \/ \E d \in Docs : Edit(d) \/ \E m \in Managers : ReadRow(m, d)
           \/ \E m \in Managers : CacheRow(m)
           \/ \E j \in Jobs : Begin(j) \/ WipeRows(j) \/ EndJob(j) \/ \E d \in Docs : IngestFile(j, d)
           \/ \E w \in Workspaces, dir \in Dirs :
                 FrameworkCreate(w, dir) \/ \E mode \in {"force", "wipe"} : CLIIngest(w, dir, mode)
           \/ \E w \in Workspaces, wipe \in BOOLEAN : FrameworkDelete(w, wipe)
           \/ \E w \in Workspaces, mode \in {"delta", "force", "wipe"} :
                 TriggerIngest(w, mode) \/ FrameworkIngest(w, mode)
           \/ \E p \in Feeders : StopFeeds(p) \/ \E w \in Workspaces : SetFeed(p, w) \/ Sync(p, w)
           \/ FrameworkFeeds
           \/ UNCHANGED vars
  <2>1. UNCHANGED keyVars
    BY <1>1 DEF Edit, ReadRow, CacheRow, Begin, WipeRows, EndJob, IngestFile, FrameworkCreate,
                CLIIngest, FrameworkDelete, TriggerIngest, FrameworkIngest, StopFeeds, SetFeed,
                Sync, FrameworkFeeds, vars, secrets, keyVars
  <2>2. QED
    BY <2>1, KeysAlone
<1>2. ASSUME NEW w \in Workspaces, NEW dir \in Dirs, CreateWorkspace(w, dir) PROVE KeyInv'
  BY <1>2, ProvisionKeepsKeys DEF CreateWorkspace
<1>3. ASSUME NEW w \in Workspaces, NEW wipe \in BOOLEAN, DeleteWorkspace(w, wipe) PROVE KeyInv'
  <2>1. Deprovision(w) /\ UNCHANGED <<service, cli>>
    BY <1>3 DEF DeleteWorkspace
  <2>2. QED
    BY <2>1, RowGone DEF Deprovision, HasRow
<1>4. QED
  BY <1>1, <1>2, <1>3, CommandsKeepKeys, RestartKeepsKeys DEF Next

\* A recorded search key works, whoever else makes, records or drops one.
THEOREM RecordedKeysWork == Spec => []RecordedKeyWorks
<1>1. Spec => []KeyInv
  BY KeyInit, KeyStep, PTL DEF Spec
<1>2. KeyInv => RecordedKeyWorks
  BY DEF KeyInv
<1>3. QED
  BY <1>1, <1>2, PTL

\* The tables, caches, indexes, feeds and ingestions keep their types.
THEOREM WorkspacesTypes == Spec => []TypeOK
<1>1. Spec => []KeyInv
  BY KeyInit, KeyStep, PTL DEF Spec
<1>2. Spec => []RegistryTypes
  BY TypesInit, RegistryStep, PTL DEF Spec
<1>3. KeyInv /\ RegistryTypes => TypeOK
  BY DEF KeyInv, KeyTypes, RegistryTypes, TypeOK
<1>4. QED
  BY <1>1, <1>2, <1>3, PTL

-----------------------------------------------------------------------------
(* The document caches. *)

\* A row that get_document is about to cache is the one in the table, unless
\* the document counts as overtaken or shared.
ReadIsCurrent ==
    \A m \in Managers : reading[m] # None =>
        reading[m].doc \in overtaken[m] \cup shared \/ reading[m].row = docs[reading[m].doc]

CacheInv == RegistryTypes /\ CacheFollowsTable /\ ReadIsCurrent

LEMMA CacheInit == Init => CacheInv
BY TypesInit DEF Init, CacheInv, CacheFollowsTable, ReadIsCurrent

\* A step that writes no document and forgets none that was overtaken.
LEMMA CacheAlone ==
    ASSUME CacheInv, RegistryTypes',
           UNCHANGED <<docs, cache, reading, overtaken, shared>>
    PROVE  CacheInv'
BY DEF CacheInv, CacheFollowsTable, ReadIsCurrent

\* Somebody wrote the documents D: what other managers have cached, and what
\* any is about to cache, counts as overtaken, and so does what m has not renewed.
LEMMA OvertakenKept ==
    ASSUME RegistryTypes, NEW D \in SUBSET Docs, NEW m, NEW renewed, Overtakes(D, m, renewed),
           NEW n \in Managers, NEW d \in Docs
    PROVE  /\ reading[n] # None /\ reading[n].doc = d /\ (d \in D \/ d \in overtaken[n])
                 => d \in overtaken'[n]
           /\ n # m /\ d \in D /\ cache[n][d] # None => d \in overtaken'[n]
           /\ n # m /\ d \in overtaken[n] => d \in overtaken'[n]
           /\ d \in overtaken[n] /\ d \notin renewed => d \in overtaken'[n]
<1>1. overtaken'[n] = {x \in D \cup overtaken[n] :
          \/ reading[n] # None /\ reading[n].doc = x
          \/ n # m /\ (x \in overtaken[n] \/ cache[n][x] # None)
          \/ n = m /\ x \in overtaken[n] \ renewed}
  BY DEF Overtakes
<1>2. QED
  BY <1>1

\* The rows D change, manager m renews or drops its nodes of them, and nobody
\* else hears of it.
LEMMA CacheWritten ==
    ASSUME CacheInv, RegistryTypes', NEW D \in SUBSET Docs, NEW m, NEW renewed,
           Overtakes(D, m, renewed), UNCHANGED reading, shared \subseteq shared',
           \A d \in Docs : d \notin D => docs'[d] = docs[d],
           \A n \in Managers, d \in Docs : n # m => cache'[n][d] = cache[n][d],
           \A d \in Docs : m \in Managers =>
               \/ cache'[m][d] = None
               \/ cache'[m][d] = docs'[d]
               \/ d \in shared'
               \/ cache'[m][d] = cache[m][d] /\ d \notin renewed
                  /\ (d \in D => cache[m][d] # docs[d])
    PROVE  CacheInv'
<1>1. CacheFollowsTable'
  <2> SUFFICES ASSUME NEW n \in Managers, NEW d \in Docs, cache'[n][d] # None,
                      d \notin overtaken'[n] \cup shared'
               PROVE  cache'[n][d] = docs'[d]
    BY DEF CacheFollowsTable
  <2>1. cache[n][d] # None /\ d \notin overtaken[n] \cup shared => cache[n][d] = docs[d]
    BY DEF CacheInv, CacheFollowsTable
  <2>2. RegistryTypes
    BY DEF CacheInv
  <2>3. CASE n # m
    <3>1. cache'[n][d] = cache[n][d] /\ cache[n][d] # None
      BY <2>3
    <3>2. d \notin D /\ d \notin overtaken[n]
      <4>1. /\ n # m /\ d \in D /\ cache[n][d] # None => d \in overtaken'[n]
            /\ n # m /\ d \in overtaken[n] => d \in overtaken'[n]
        BY <2>2, OvertakenKept
      <4>2. d \notin overtaken'[n]
        OBVIOUS
      <4>3. QED
        BY <2>3, <3>1, <4>1, <4>2
    <3>3. docs'[d] = docs[d] /\ d \notin shared
      BY <3>2
    <3>4. QED
      BY <2>1, <3>1, <3>2, <3>3
  <2>4. CASE n = m
    BY <2>1, <2>2, <2>4, OvertakenKept
  <2>5. QED
    BY <2>3, <2>4
<1>2. ReadIsCurrent'
  <2> SUFFICES ASSUME NEW n \in Managers, reading'[n] # None,
                      reading'[n].doc \notin overtaken'[n] \cup shared'
               PROVE  reading'[n].row = docs'[reading'[n].doc]
    BY DEF ReadIsCurrent
  <2>1. PICK d \in Docs : d = reading[n].doc
    BY DEF CacheInv, RegistryTypes, Read
  <2>2. RegistryTypes /\ reading[n] # None
    BY DEF CacheInv
  <2>3. d \notin D /\ d \notin overtaken[n] \cup shared
    BY <2>1, <2>2, OvertakenKept
  <2>4. reading[n].row = docs[d]
    BY <2>1, <2>2, <2>3 DEF CacheInv, ReadIsCurrent
  <2>5. QED
    BY <2>1, <2>3, <2>4
<1>3. QED
  BY <1>1, <1>2 DEF CacheInv

LEMMA DeletionsKeepCache ==
    ASSUME CacheInv, RegistryTypes', NEW m \in Managers \cup {None}, NEW w \in Workspaces,
           DeleteRows(m, w), UNCHANGED <<reading, shared>>
    PROVE  CacheInv'
<1>0. RowsOf(w) \in SUBSET Docs /\ RegistryTypes
  BY DEF RowsOf, CacheInv
<1>1. \A d \in Docs : d \notin RowsOf(w) => docs'[d] = docs[d]
  BY DEF DeleteRows
<1>2. CASE m = None
  <2>1. cache' = cache /\ Overtakes(RowsOf(w), None, {}) /\ None \notin Managers
    BY <1>2, NoneIsNoRecord DEF DeleteRows
  <2>2. QED
    BY <1>0, <1>1, <2>1, CacheWritten
<1>3. CASE m # None
  <2>1. /\ m \in Managers /\ Overtakes(RowsOf(w), m, NodesOf(m, w))
        /\ cache' = [cache EXCEPT ![m] =
                        [d \in Docs |-> IF d \in NodesOf(m, w) THEN None ELSE cache[m][d]]]
    BY <1>3 DEF DeleteRows, Evicted
  <2>2. /\ \A n \in Managers, d \in Docs : n # m => cache'[n][d] = cache[n][d]
        /\ \A d \in Docs : cache'[m][d] = IF d \in NodesOf(m, w) THEN None ELSE cache[m][d]
    BY <1>0, <2>1 DEF RegistryTypes
  <2>3. ASSUME NEW d \in Docs
        PROVE  \/ cache'[m][d] = None
               \/ cache'[m][d] = cache[m][d] /\ d \notin NodesOf(m, w)
                  /\ (d \in RowsOf(w) => cache[m][d] # docs[d])
    BY <2>2 DEF NodesOf, RowsOf
  <2>4. QED
    BY <1>0, <1>1, <2>1, <2>2, <2>3, CacheWritten
<1>4. QED
  BY <1>2, <1>3

LEMMA IngestionsKeepCache ==
    ASSUME CacheInv, RegistryTypes', NEW j \in Jobs
    PROVE  /\ WipeRows(j) => CacheInv'
           /\ \A d \in Docs : IngestFile(j, d) => CacheInv'
<1>1. ASSUME WipeRows(j) PROVE CacheInv'
  <2>1. PICK w : w = jobs[j].ws
    OBVIOUS
  <2>2. /\ docs' = [d \in Docs |-> IF d \in RowsOf(w) THEN None ELSE docs[d]]
        /\ Overtakes(RowsOf(w), None, {}) /\ UNCHANGED <<cache, reading, shared>>
    BY <1>1, <2>1 DEF WipeRows
  <2>3. RowsOf(w) \in SUBSET Docs /\ None \notin Managers
    BY NoneIsNoRecord DEF RowsOf
  <2>4. QED
    BY <2>2, <2>3, CacheWritten
<1>2. ASSUME NEW d \in Docs, IngestFile(j, d) PROVE CacheInv'
  <2>1. PICK job \in Job : job = jobs[j]
    BY <1>2 DEF IngestFile, CacheInv, RegistryTypes
  <2>2. \/ UNCHANGED <<docs, cache, overtaken, shared>>
        \/ RegisterDocument(job.by, job.ws, d)
    BY <1>2, <2>1 DEF IngestFile
  <2>3. UNCHANGED reading
    BY <1>2 DEF IngestFile
  <2>4. CASE UNCHANGED <<docs, cache, overtaken, shared>>
    BY <2>3, <2>4, CacheAlone
  <2>5. CASE RegisterDocument(job.by, job.ws, d)
    <3>1. PICK m, node, row :
             /\ m = job.by /\ node = [ws |-> job.ws, ver |-> disk[d]]
             /\ row = [node EXCEPT !.ws = IF docs[d] = None THEN job.ws ELSE docs[d].ws]
      OBVIOUS
    <3>2. /\ docs' = [docs EXCEPT ![d] = row]
          /\ cache' = [n \in Managers |-> IF n = m THEN [cache[n] EXCEPT ![d] = node] ELSE cache[n]]
          /\ Overtakes({d}, m, {d})
          /\ shared' = IF node # row THEN shared \cup {d} ELSE shared
      BY <2>5, <3>1 DEF RegisterDocument
    <3>3. docs'[d] = row /\ \A e \in Docs : e # d => docs'[e] = docs[e]
      BY <3>2 DEF CacheInv, RegistryTypes
    <3>4. /\ \A n \in Managers, e \in Docs : n # m => cache'[n][e] = cache[n][e]
          /\ m \in Managers => /\ cache'[m][d] = node
                               /\ \A e \in Docs : e # d => cache'[m][e] = cache[m][e]
      BY <3>2 DEF CacheInv, RegistryTypes
    <3>5. \A e \in Docs : m \in Managers =>
               \/ cache'[m][e] = docs'[e]
               \/ e \in shared'
               \/ cache'[m][e] = cache[m][e] /\ e \notin {d}
      BY <3>2, <3>3, <3>4
    <3>6. shared \subseteq shared'
      BY <3>2
    <3>7. QED
      BY <2>3, <3>2, <3>3, <3>4, <3>5, <3>6, CacheWritten
  <2>6. QED
    BY <2>2, <2>4, <2>5
<1>3. QED
  BY <1>1, <1>2

LEMMA CacheStep == CacheInv /\ [Next]_vars => CacheInv'
<1> SUFFICES ASSUME CacheInv, [Next]_vars PROVE CacheInv'
  OBVIOUS
<1>0. RegistryTypes /\ RegistryTypes'
  BY RegistryStep DEF CacheInv
<1>1. CASE \/ \E d \in Docs : Edit(d)
           \/ \E j \in Jobs : Begin(j) \/ EndJob(j)
           \/ \E w \in Workspaces, dir \in Dirs :
                 \/ CreateWorkspace(w, dir) \/ FrameworkCreate(w, dir) \/ CLICreate(w, dir)
                 \/ \E mode \in {"force", "wipe"} : CLIIngest(w, dir, mode)
           \/ \E w \in Workspaces, mode \in {"delta", "force", "wipe"} :
                 TriggerIngest(w, mode) \/ FrameworkIngest(w, mode)
           \/ \E p \in Feeders : StopFeeds(p) \/ \E w \in Workspaces : SetFeed(p, w) \/ Sync(p, w)
           \/ \E w \in Workspaces : CLIDropKey(w)
           \/ FrameworkFeeds \/ CLIGenerate \/ CLIStore \/ CLIKilled
           \/ UNCHANGED vars
  <2>1. UNCHANGED <<docs, cache, reading, overtaken, shared>>
    BY <1>1 DEF Edit, Begin, EndJob, CreateWorkspace, FrameworkCreate, CLICreate, CLIIngest,
                TriggerIngest, FrameworkIngest, StopFeeds, SetFeed, Sync, CLIDropKey,
                FrameworkFeeds, CLIGenerate, CLIStore, CLIKilled, vars, registry, history
  <2>2. QED
    BY <1>0, <2>1, CacheAlone
<1>2. ASSUME NEW m \in Managers, NEW d \in Docs, ReadRow(m, d) PROVE CacheInv'
  <2>1. PICK new : new = [doc |-> d, row |-> docs[d]]
    OBVIOUS
  <2>2. reading'[m] = new /\ \A n \in Managers : n # m => reading'[n] = reading[n]
    BY <1>0, <1>2, <2>1 DEF ReadRow, RegistryTypes
  <2>3. new.doc = d /\ new.row = docs[d] /\ UNCHANGED <<docs, cache, overtaken, shared>>
    BY <1>2, <2>1 DEF ReadRow, history
  <2>4. QED
    BY <1>0, <2>2, <2>3 DEF CacheInv, CacheFollowsTable, ReadIsCurrent
<1>3. ASSUME NEW m \in Managers, CacheRow(m) PROVE CacheInv'
  <2>1. PICK d \in Docs : d = reading[m].doc
    BY <1>0, <1>3 DEF CacheRow, RegistryTypes, Read
  <2>2. /\ reading[m] # None
        /\ cache' = [cache EXCEPT ![m][d] = reading[m].row]
        /\ reading' = [reading EXCEPT ![m] = None]
        /\ UNCHANGED <<docs, overtaken, shared>>
    BY <1>3, <2>1 DEF CacheRow, history
  <2>3. /\ cache'[m][d] = reading[m].row
        /\ \A n \in Managers, e \in Docs : n # m \/ e # d => cache'[n][e] = cache[n][e]
        /\ reading'[m] = None /\ \A n \in Managers : n # m => reading'[n] = reading[n]
    BY <1>0, <2>2 DEF RegistryTypes
  <2>4. d \in overtaken[m] \cup shared \/ reading[m].row = docs[d]
    BY <2>1, <2>2 DEF CacheInv, ReadIsCurrent
  <2>5. CacheFollowsTable'
    BY <2>2, <2>3, <2>4 DEF CacheInv, CacheFollowsTable
  <2>6. ReadIsCurrent'
    BY <2>2, <2>3 DEF CacheInv, ReadIsCurrent
  <2>7. QED
    BY <1>0, <2>5, <2>6 DEF CacheInv
<1>4. ASSUME NEW w \in Workspaces, NEW wipe \in BOOLEAN,
             DeleteWorkspace(w, wipe) \/ FrameworkDelete(w, wipe) \/ CLIDelete(w, wipe)
      PROVE  CacheInv'
  <2>1. "server" \in Managers /\ "program" \in Managers
    BY DEF Managers
  <2>2. \E m \in Managers \cup {None} : DeleteRows(m, w)
    BY <1>4, <2>1 DEF DeleteWorkspace, FrameworkDelete, CLIDelete
  <2>3. UNCHANGED <<reading, shared>>
    BY <1>4 DEF DeleteWorkspace, FrameworkDelete, CLIDelete
  <2>4. QED
    BY <1>0, <2>2, <2>3, DeletionsKeepCache
<1>5. CASE Restart
  <2>1. /\ cache' = [m \in Managers |-> IF m = "program" THEN cache[m] ELSE [d \in Docs |-> None]]
        /\ reading' = [m \in Managers |-> IF m = "program" THEN reading[m] ELSE None]
        /\ overtaken' = [m \in Managers |-> IF m = "program" THEN overtaken[m] ELSE {}]
        /\ UNCHANGED <<docs, shared>>
    BY <1>5 DEF Restart
  <2>2. CacheFollowsTable'
    BY <2>1 DEF CacheInv, CacheFollowsTable
  <2>3. ReadIsCurrent'
    BY <2>1 DEF CacheInv, ReadIsCurrent
  <2>4. QED
    BY <1>0, <2>2, <2>3 DEF CacheInv
<1>6. QED
  BY <1>0, <1>1, <1>2, <1>3, <1>4, <1>5, IngestionsKeepCache DEF Next

\* A cached document is the row of the table, for any number of documents and
\* ingestions in three kinds of processes, but for what overtaken and shared name.
THEOREM CachesFollowTheTable == Spec => []CacheFollowsTable
<1>1. Spec => []CacheInv
  BY CacheInit, CacheStep, PTL DEF Spec
<1>2. CacheInv => CacheFollowsTable
  BY DEF CacheInv
<1>3. QED
  BY <1>1, <1>2, PTL

-----------------------------------------------------------------------------
(* Deleted workspaces. *)

\* Registered, or deleted while something that feeds it went on.
Known(w) == dirs[w] # None \/ w \in fed

RowsKnown == \A d \in Docs : docs[d] # None => Known(docs[d].ws)

FeedsKnown == \A p \in Feeders, w \in Workspaces : feeds[p][w] # None => Known(w)

\* Whoever has a directory in hand does not look at the registration again; an
\* ingestion that brought its own registers its workspace before the files.
JobKnown(j) ==
    /\ jobs[j].dir # None =>
          Known(jobs[j].ws) \/ (jobs[j].own /\ jobs[j].stage # "files")
    /\ jobs[j].stage = "files" => jobs[j].dir # None

WipedEmpty ==
    \A w \in Workspaces : w \in wiped => dirs[w] = None /\ (w \notin fed => index[w] = {})

GoneInv ==
    /\ RegistryTypes
    /\ RowsKnown
    /\ FeedsKnown
    /\ WipedEmpty
    /\ \A j \in Jobs : jobs[j] # None => JobKnown(j)

LEMMA GoneInit == Init => GoneInv
BY TypesInit DEF Init, GoneInv, RowsKnown, FeedsKnown, WipedEmpty

\* A step that deletes no workspace: rows, feeds and ingestions appear only
\* where something is known, and nothing comes into a wiped index.
LEMMA GoneCarry ==
    ASSUME GoneInv, RegistryTypes',
           \A w \in Workspaces : Known(w) => Known(w)',
           \A d \in Docs : docs'[d] # None =>
               (docs[d] # None /\ docs'[d].ws = docs[d].ws) \/ Known(docs[d].ws)',
           \A p \in Feeders, w \in Workspaces : feeds'[p][w] # None => feeds[p][w] # None \/ Known(w)',
           \A w \in Workspaces : w \in wiped' =>
               w \in wiped /\ dirs'[w] = dirs[w] /\ (w \in fed => w \in fed')
               /\ (index'[w] = index[w] \/ index'[w] = {} \/ w \in fed'),
           \A j \in Jobs : jobs'[j] # None => jobs'[j] = jobs[j] \/ JobKnown(j)'
    PROVE  GoneInv'
<1>1. RowsKnown'
  BY DEF GoneInv, RowsKnown, RegistryTypes, Row
<1>2. FeedsKnown'
  BY DEF GoneInv, FeedsKnown
<1>3. WipedEmpty'
  BY DEF GoneInv, WipedEmpty
<1>4. ASSUME NEW j \in Jobs, jobs'[j] # None PROVE JobKnown(j)'
  <2>1. CASE JobKnown(j)'
    BY <2>1
  <2>2. CASE jobs'[j] = jobs[j]
    <3>1. jobs[j].ws \in Workspaces
      BY <1>4, <2>2 DEF GoneInv, RegistryTypes, Job
    <3>2. JobKnown(j)
      BY <1>4, <2>2 DEF GoneInv
    <3>3. QED
      BY <2>2, <3>1, <3>2 DEF JobKnown
  <2>3. QED
    BY <1>4, <2>1, <2>2
<1>5. QED
  BY <1>1, <1>2, <1>3, <1>4 DEF GoneInv

\* A step that leaves what is registered alone.
LEMMA GoneAlone ==
    ASSUME GoneInv, RegistryTypes', UNCHANGED <<dirs, docs, fed, wiped>>,
           \A p \in Feeders, w \in Workspaces : feeds'[p][w] # None => feeds[p][w] # None \/ Known(w),
           \A w \in Workspaces : index'[w] = index[w] \/ index'[w] = {},
           \A j \in Jobs : jobs'[j] # None => jobs'[j] = jobs[j] \/ JobKnown(j)'
    PROVE  GoneInv'
<1>1. \A w \in Workspaces : Known(w)' = Known(w)
  BY DEF Known
<1>2. QED
  BY <1>1, GoneCarry

\* A workspace that is registered.
LEMMA RegistersKeepGone ==
    ASSUME GoneInv, RegistryTypes', NEW w \in Workspaces, NEW dir \in Dirs,
           dirs' = [dirs EXCEPT ![w] = dir], fed' = fed \ {w}, wiped' = wiped \ {w},
           UNCHANGED <<docs, feeds>>,
           \A v \in Workspaces : index'[v] = index[v] \/ index'[v] = {},
           \A j \in Jobs : jobs'[j] # None => jobs'[j] = jobs[j] \/ JobKnown(j)'
    PROVE  GoneInv'
<1>1. dirs'[w] = dir /\ dir # None /\ \A v \in Workspaces : v # w => dirs'[v] = dirs[v]
  BY WorkspacesAssumption DEF GoneInv, RegistryTypes
<1>2. \A v \in Workspaces : Known(v) => Known(v)'
  BY <1>1 DEF Known
<1>3. \A v \in Workspaces : v \in wiped' => v # w /\ v \in wiped
  OBVIOUS
<1>4. QED
  BY <1>1, <1>2, <1>3, GoneCarry

\* A workspace that is deleted, by whomever: it counts as fed when a feed or an
\* ingestion goes on with its directory.
LEMMA DeletionsKeepGone ==
    ASSUME GoneInv, RegistryTypes', NEW w \in Workspaces, NEW m, NEW stopped,
           DeleteRows(m, w), Left(w, stopped),
           \A p \in Feeders, v \in Workspaces : feeds'[p][v] # None =>
               feeds[p][v] # None /\ (v = w => p \notin stopped),
           \A v \in Workspaces : index'[v] = index[v] \/ index'[v] = {},
           wiped' = wiped \ {w} \/ (wiped' = wiped \cup {w} /\ index'[w] = {}),
           UNCHANGED jobs
    PROVE  GoneInv'
<1>1. /\ dirs'[w] = None /\ \A v \in Workspaces : v # w => dirs'[v] = dirs[v]
      /\ \A d \in Docs : docs'[d] = IF d \in RowsOf(w) THEN None ELSE docs[d]
  BY DEF DeleteRows, GoneInv, RegistryTypes
<1>2. /\ \A v \in Workspaces : v # w => (v \in fed' <=> v \in fed)
      /\ StillFed(w, stopped) => w \in fed'
  BY DEF Left
<1>3. \A v \in Workspaces : v # w => (Known(v)' <=> Known(v))
  BY <1>1, <1>2 DEF Known
<1>4. RowsKnown'
  <2> SUFFICES ASSUME NEW d \in Docs, docs'[d] # None PROVE Known(docs[d].ws)'
    BY DEF RowsKnown
  <2>1. docs'[d] = docs[d] /\ docs[d].ws # w /\ docs[d].ws \in Workspaces
    BY <1>1 DEF RowsOf, GoneInv, RegistryTypes, Row
  <2>2. QED
    BY <1>3, <2>1 DEF GoneInv, RowsKnown
<1>5. FeedsKnown'
  <2> SUFFICES ASSUME NEW p \in Feeders, NEW v \in Workspaces, feeds'[p][v] # None
               PROVE  Known(v)'
    BY DEF FeedsKnown
  <2>1. CASE v = w
    BY <1>2, <2>1 DEF StillFed, Known
  <2>2. CASE v # w
    BY <1>3, <2>2 DEF GoneInv, FeedsKnown
  <2>3. QED
    BY <2>1, <2>2
<1>6. WipedEmpty'
  <2> SUFFICES ASSUME NEW v \in Workspaces, v \in wiped'
               PROVE  dirs'[v] = None /\ (v \notin fed' => index'[v] = {})
    BY DEF WipedEmpty
  <2>1. CASE v = w
    BY <1>1, <2>1
  <2>2. CASE v # w
    BY <1>1, <1>2, <2>2 DEF GoneInv, WipedEmpty
  <2>3. QED
    BY <2>1, <2>2
<1>7. ASSUME NEW j \in Jobs, jobs'[j] # None PROVE JobKnown(j)'
  <2>1. jobs'[j] = jobs[j] /\ JobKnown(j) /\ jobs[j].ws \in Workspaces
    BY <1>7 DEF GoneInv, RegistryTypes, Job
  <2>2. CASE jobs[j].ws = w
    <3>1. jobs[j].dir # None => w \in fed'
      BY <1>2, <1>7, <2>1, <2>2 DEF StillFed
    <3>2. QED
      BY <2>1, <2>2, <3>1 DEF JobKnown, Known
  <2>3. CASE jobs[j].ws # w
    BY <1>3, <2>1, <2>3 DEF JobKnown
  <2>4. QED
    BY <2>2, <2>3
<1>8. QED
  BY <1>4, <1>5, <1>6, <1>7 DEF GoneInv

\* What the start of an ingestion brings: only a feed's has a directory that is
\* not its own.
LEMMA StartsKeepGone ==
    ASSUME GoneInv, RegistryTypes', NEW by, NEW w \in Workspaces, NEW dir, NEW own, NEW mode,
           NEW wipes, StartJob(by, w, dir, own, mode, wipes),
           dir # None => own \/ Known(w),
           UNCHANGED <<dirs, docs, fed, wiped, feeds, index>>
    PROVE  GoneInv'
<1>1. PICK new : new = [by |-> by, ws |-> w, dir |-> dir, own |-> own, mode |-> mode,
                        wipes |-> wipes, todo |-> {}, stage |-> "start"]
  OBVIOUS
<1>2. PICK j \in Jobs : jobs' = [jobs EXCEPT ![j] = new]
  BY <1>1 DEF StartJob
<1>3. jobs'[j] = new /\ \A k \in Jobs : k # j => jobs'[k] = jobs[k]
  BY <1>2 DEF GoneInv, RegistryTypes
<1>4. new.ws = w /\ new.dir = dir /\ new.own = own /\ new.stage = "start"
  BY <1>1
<1>5. Known(w)' = Known(w)
  BY DEF Known
<1>6. JobKnown(j)'
  BY <1>3, <1>4, <1>5 DEF JobKnown
<1>7. \A k \in Jobs : jobs'[k] # None => jobs'[k] = jobs[k] \/ JobKnown(k)'
  BY <1>3, <1>6
<1>8. QED
  BY <1>7, GoneAlone

\* An ingestion past its start has its files from a directory that is known, or
\* has just registered it.
LEMMA OpensKeepGone ==
    ASSUME GoneInv, RegistryTypes', NEW j \in Jobs, jobs[j] # None, Open(j), UNCHANGED feeds,
           \A w \in Workspaces : index'[w] = index[w] \/ index'[w] = {},
           \A d \in Docs : docs'[d] # None => docs'[d] = docs[d]
    PROVE  GoneInv'
<1>0. RegistryTypes /\ jobs[j].ws \in Workspaces /\ JobKnown(j)
  BY DEF GoneInv, RegistryTypes, Job
<1>1. \A k \in Jobs : k # j => jobs'[k] = jobs[k]
  BY <1>0, OpenFacts
<1>2. CASE jobs'[j] = None /\ UNCHANGED <<dirs, fed, wiped>>
  <2>1. \A w \in Workspaces : Known(w)' = Known(w)
    BY <1>2 DEF Known
  <2>2. \A k \in Jobs : jobs'[k] # None => jobs'[k] = jobs[k]
    BY <1>1, <1>2
  <2>3. \A d \in Docs : docs'[d] # None => docs[d] # None /\ docs'[d].ws = docs[d].ws
    OBVIOUS
  <2>4. QED
    BY <1>2, <2>1, <2>2, <2>3, GoneCarry
<1>3. CASE Opened(j)
  <2>1. PICK w \in Workspaces : w = jobs[j].ws
    BY <1>0
  <2>2. /\ jobs'[j].stage = "files" /\ jobs'[j].ws = w
        /\ jobs'[j].dir \in Dirs /\ jobs'[j].dir # None
    BY <1>3, <2>1, WorkspacesAssumption DEF Opened
  <2>3. ASSUME Known(w)' PROVE \A k \in Jobs : jobs'[k] # None => jobs'[k] = jobs[k] \/ JobKnown(k)'
    BY <1>1, <2>2, <2>3 DEF JobKnown
  <2>4. CASE jobs[j].own
    <3>1. /\ dirs' = [dirs EXCEPT ![w] = jobs'[j].dir]
          /\ fed' = fed \ {w} /\ wiped' = wiped \ {w}
      BY <1>3, <2>1, <2>4 DEF Opened
    <3>2. dirs'[w] # None /\ \A v \in Workspaces : v # w => dirs'[v] = dirs[v]
      BY <1>0, <2>2, <3>1 DEF RegistryTypes
    <3>3. \A v \in Workspaces : Known(v) => Known(v)'
      BY <3>1, <3>2 DEF Known
    <3>4. Known(w)'
      BY <3>2 DEF Known
    <3>5. \A v \in Workspaces : v \in wiped' => v # w /\ v \in wiped
      BY <3>1
    <3>6. \A d \in Docs : docs'[d] # None => docs[d] # None /\ docs'[d].ws = docs[d].ws
      OBVIOUS
    <3>7. QED
      BY <2>3, <3>1, <3>2, <3>3, <3>4, <3>5, <3>6, GoneCarry
  <2>5. CASE ~jobs[j].own
    <3>1. /\ UNCHANGED <<dirs, fed, wiped>>
          /\ jobs[j].dir # None \/ dirs[w] # None
      BY <1>3, <2>1, <2>5 DEF Opened
    <3>2. \A v \in Workspaces : Known(v)' = Known(v)
      BY <3>1 DEF Known
    <3>3. Known(w)
      BY <1>0, <2>1, <2>5, <3>1 DEF JobKnown, Known
    <3>4. \A d \in Docs : docs'[d] # None => docs[d] # None /\ docs'[d].ws = docs[d].ws
      OBVIOUS
    <3>5. QED
      BY <2>3, <3>1, <3>2, <3>3, <3>4, GoneCarry
  <2>6. QED
    BY <2>4, <2>5
<1>4. QED
  BY <1>0, <1>2, <1>3, OpenFacts

LEMMA IngestionsKeepGone ==
    ASSUME GoneInv, RegistryTypes', NEW j \in Jobs
    PROVE  /\ Begin(j) => GoneInv'
           /\ WipeRows(j) => GoneInv'
           /\ \A d \in Docs : IngestFile(j, d) => GoneInv'
           /\ EndJob(j) => GoneInv'
<1>0. RegistryTypes
  BY DEF GoneInv
<1>1. ASSUME Begin(j) PROVE GoneInv'
  <2>1. jobs[j] # None /\ UNCHANGED <<docs, feeds>>
    BY <1>1 DEF Begin
  <2>2. CASE Open(j) /\ UNCHANGED index
    BY <2>1, <2>2, OpensKeepGone
  <2>3. CASE Emptied(j) /\ UNCHANGED <<dirs, fed, wiped>> /\ index' = [index EXCEPT ![jobs[j].wipes] = {}]
    <3>1. \A w \in Workspaces : index'[w] = index[w] \/ index'[w] = {}
      BY <1>0, <2>3 DEF RegistryTypes
    <3>2. JobKnown(j) /\ jobs[j].stage = "start"
      BY <1>1 DEF Begin, GoneInv
    <3>3. JobKnown(j)'
      BY <2>3, <3>2 DEF JobKnown, Emptied, Known
    <3>4. \A k \in Jobs : k # j => jobs'[k] = jobs[k]
      BY <1>0, <1>1, BeginFacts
    <3>5. QED
      BY <2>1, <2>3, <3>1, <3>3, <3>4, GoneAlone
  <2>4. QED
    BY <1>0, <1>1, <2>2, <2>3, BeginFacts
<1>2. ASSUME WipeRows(j) PROVE GoneInv'
  <2>1. /\ jobs[j] # None /\ Open(j) /\ UNCHANGED <<feeds, index>>
        /\ \A d \in Docs : docs'[d] # None => docs'[d] = docs[d]
    BY <1>2 DEF WipeRows
  <2>2. QED
    BY <2>1, OpensKeepGone
<1>3. ASSUME NEW d \in Docs, IngestFile(j, d) PROVE GoneInv'
  <2>1. PICK job \in Job : job = jobs[j] /\ job # None /\ job.ws \in Workspaces
    BY <1>0, <1>3 DEF IngestFile, RegistryTypes, Job
  <2>2. PICK new : new = [job EXCEPT !.todo = @ \ {d}]
    OBVIOUS
  <2>3. new.ws = job.ws /\ new.dir = job.dir /\ new.own = job.own /\ new.stage = job.stage
    BY <2>1, <2>2 DEF Job
  <2>4. jobs' = [jobs EXCEPT ![j] = new] /\ UNCHANGED <<dirs, feeds, fed, wiped>>
    BY <1>3, <2>1, <2>2 DEF IngestFile
  <2>5. jobs'[j] = new /\ \A k \in Jobs : k # j => jobs'[k] = jobs[k]
    BY <1>0, <2>4 DEF RegistryTypes
  <2>6. JobKnown(j) /\ job.stage = "files"
    BY <1>3, <2>1 DEF IngestFile, GoneInv
  <2>7. Known(job.ws) /\ \A w \in Workspaces : Known(w)' = Known(w)
    BY <2>1, <2>4, <2>6 DEF JobKnown, Known
  <2>8. JobKnown(j)'
    BY <2>1, <2>3, <2>4, <2>5, <2>6 DEF JobKnown, Known
  <2>9. \/ UNCHANGED <<docs, index>>
        \/ /\ index' = [index EXCEPT ![job.ws] = @ \cup {d}]
           /\ RegisterDocument(job.by, job.ws, d)
    BY <1>3, <2>1 DEF IngestFile
  <2>10. CASE UNCHANGED <<docs, index>>
    BY <2>4, <2>5, <2>8, <2>10, GoneAlone
  <2>11. CASE /\ index' = [index EXCEPT ![job.ws] = @ \cup {d}]
              /\ RegisterDocument(job.by, job.ws, d)
    <3>1. /\ \A e \in Docs : e # d => docs'[e] = docs[e]
          /\ docs'[d].ws = IF docs[d] = None THEN job.ws ELSE docs[d].ws
      <4>1. RegisterDocument(job.by, job.ws, d) /\ job.ws \in Workspaces
        BY <2>1, <2>11
      <4>2. \A e \in Docs : e # d => docs'[e] = docs[e]
        BY <1>0, <4>1, RegisterType
      <4>3. docs'[d].ws = IF docs[d] = None THEN job.ws ELSE docs[d].ws
        BY <1>0, <4>1, RegisterType
      <4>4. QED
        BY <4>2, <4>3
    <3>2. ASSUME NEW e \in Docs, docs'[e] # None
          PROVE  (docs[e] # None /\ docs'[e].ws = docs[e].ws) \/ Known(docs[e].ws)'
      <4>1. CASE e # d \/ docs[d] # None
        BY <3>1, <3>2, <4>1
      <4>2. CASE e = d /\ docs[d] = None
        <5>1. docs'[d].ws = job.ws
          BY <3>1, <4>2
        <5>2. dirs[job.ws] # None \/ job.ws \in fed
          BY <2>7 DEF Known
        <5>3. QED
          BY <2>4, <4>2, <5>1, <5>2 DEF Known
      <4>3. QED
        BY <4>1, <4>2
    <3>3. ASSUME NEW w \in Workspaces, w \in wiped'
          PROVE  index'[w] = index[w] \/ w \in fed'
      <4>1. CASE w = job.ws
        <5>1. dirs[w] = None
          BY <2>4, <3>3 DEF GoneInv, WipedEmpty
        <5>2. QED
          BY <2>4, <2>7, <4>1, <5>1 DEF Known
      <4>2. CASE w # job.ws
        BY <1>0, <2>11, <4>2 DEF RegistryTypes
      <4>3. QED
        BY <4>1, <4>2
    <3>4. QED
      BY <2>4, <2>5, <2>7, <2>8, <3>2, <3>3, GoneCarry
  <2>12. QED
    BY <2>9, <2>10, <2>11
<1>4. ASSUME EndJob(j) PROVE GoneInv'
  <2>1. /\ UNCHANGED <<dirs, docs, feeds, index, fed, wiped>>
        /\ \A k \in Jobs : jobs'[k] # None => jobs'[k] = jobs[k]
    BY <1>0, <1>4 DEF EndJob, history, RegistryTypes
  <2>2. QED
    BY <2>1, GoneAlone
<1>5. QED
  BY <1>1, <1>2, <1>3, <1>4

LEMMA OrdersKeepGone ==
    ASSUME GoneInv, RegistryTypes', NEW w \in Workspaces
    PROVE  /\ \A dir \in Dirs : CreateWorkspace(w, dir) \/ FrameworkCreate(w, dir)
                                \/ CLICreate(w, dir) => GoneInv'
           /\ \A wipe \in BOOLEAN : DeleteWorkspace(w, wipe) => GoneInv'
           /\ \A wipe \in BOOLEAN : FrameworkDelete(w, wipe) => GoneInv'
           /\ \A wipe \in BOOLEAN : CLIDelete(w, wipe) => GoneInv'
           /\ \A dir \in Dirs, mode \in {"force", "wipe"} : CLIIngest(w, dir, mode) => GoneInv'
           /\ \A mode \in {"delta", "force", "wipe"} :
                 TriggerIngest(w, mode) \/ FrameworkIngest(w, mode) => GoneInv'
           /\ \A p \in Feeders : SetFeed(p, w) => GoneInv'
           /\ \A p \in Feeders : Sync(p, w) => GoneInv'
<1>0. RegistryTypes /\ "program" \in Feeders /\ Home \in Workspaces
  BY DEF GoneInv, Feeders, Workspaces
<1>1. ASSUME NEW dir \in Dirs,
             CreateWorkspace(w, dir) \/ FrameworkCreate(w, dir) \/ CLICreate(w, dir)
      PROVE  GoneInv'
  <2>1. /\ dirs' = [dirs EXCEPT ![w] = dir] /\ fed' = fed \ {w} /\ wiped' = wiped \ {w}
        /\ UNCHANGED <<docs, feeds, index, jobs>>
    BY <1>1 DEF CreateWorkspace, FrameworkCreate, CLICreate
  <2>2. QED
    BY <2>1, RegistersKeepGone
<1>2. ASSUME NEW wipe \in BOOLEAN, DeleteWorkspace(w, wipe) PROVE GoneInv'
  <2>1. /\ DeleteRows("server", w) /\ Left(w, {}) /\ wiped' = wiped \ {w}
        /\ UNCHANGED <<feeds, jobs>>
        /\ index' = index \/ index' = [index EXCEPT ![Home] = {}]
    BY <1>2 DEF DeleteWorkspace
  <2>2. \A v \in Workspaces : index'[v] = index[v] \/ index'[v] = {}
    BY <1>0, <2>1 DEF RegistryTypes
  <2>3. QED
    BY <2>1, <2>2, DeletionsKeepGone
<1>3. ASSUME NEW wipe \in BOOLEAN, FrameworkDelete(w, wipe) PROVE GoneInv'
  <2>1. /\ DeleteRows("program", w) /\ Left(w, {"program"}) /\ wiped' = wiped \ {w}
        /\ feeds' = [feeds EXCEPT !["program"][w] = None] /\ UNCHANGED jobs
        /\ index' = index \/ index' = [index EXCEPT ![Home] = {}]
    BY <1>3 DEF FrameworkDelete
  <2>2. \A v \in Workspaces : index'[v] = index[v] \/ index'[v] = {}
    BY <1>0, <2>1 DEF RegistryTypes
  <2>3. \A p \in Feeders, v \in Workspaces : feeds'[p][v] # None =>
            feeds[p][v] # None /\ (v = w => p \notin {"program"})
    BY <1>0, <2>1 DEF RegistryTypes
  <2>4. QED
    BY <2>1, <2>2, <2>3, DeletionsKeepGone
<1>4. ASSUME NEW wipe \in BOOLEAN, CLIDelete(w, wipe) PROVE GoneInv'
  <2>1. /\ DeleteRows(None, w) /\ Left(w, {})
        /\ UNCHANGED <<feeds, jobs>>
        /\ index' = IF wipe THEN [index EXCEPT ![w] = {}] ELSE index
        /\ wiped' = IF wipe THEN wiped \cup {w} ELSE wiped \ {w}
    BY <1>4 DEF CLIDelete
  <2>2. \A v \in Workspaces : index'[v] = index[v] \/ index'[v] = {}
    BY <1>0, <2>1 DEF RegistryTypes
  <2>3. wiped' = wiped \ {w} \/ (wiped' = wiped \cup {w} /\ index'[w] = {})
    BY <1>0, <2>1 DEF RegistryTypes
  <2>4. QED
    BY <2>1, <2>2, <2>3, DeletionsKeepGone
<1>5. ASSUME NEW dir \in Dirs, NEW mode \in {"force", "wipe"}, CLIIngest(w, dir, mode)
      PROVE  GoneInv'
  <2>1. /\ StartJob("cli", w, dir, TRUE, mode, w)
        /\ UNCHANGED <<dirs, docs, fed, wiped, feeds, index>>
    BY <1>5 DEF CLIIngest, history
  <2>2. QED
    BY <2>1, StartsKeepGone
<1>6. ASSUME NEW mode \in {"delta", "force", "wipe"}, TriggerIngest(w, mode) \/ FrameworkIngest(w, mode)
      PROVE  GoneInv'
  <2>1. UNCHANGED <<dirs, docs, fed, wiped, feeds, index>>
    BY <1>6 DEF TriggerIngest, FrameworkIngest, history
  <2>2. CASE StartJob("ui", w, None, FALSE, mode, w)
    BY <2>1, <2>2, StartsKeepGone
  <2>3. CASE StartJob("program", w, IF w = Home THEN HomeDir ELSE None, w = Home, mode, Home)
    <3>1. PICK dir, own : dir = (IF w = Home THEN HomeDir ELSE None) /\ own = (w = Home)
      OBVIOUS
    <3>2. StartJob("program", w, dir, own, mode, Home) /\ (dir # None => own)
      BY <2>3, <3>1
    <3>3. QED
      BY <2>1, <3>2, StartsKeepGone
  <2>4. QED
    BY <1>6, <2>2, <2>3 DEF TriggerIngest, FrameworkIngest
<1>7. ASSUME NEW p \in Feeders, SetFeed(p, w) PROVE GoneInv'
  <2>1. /\ dirs[w] # None /\ feeds' = [feeds EXCEPT ![p][w] = dirs[w]]
        /\ UNCHANGED <<dirs, docs, index, jobs, fed, wiped>>
    BY <1>7 DEF SetFeed, history
  <2>2. \A q \in Feeders, v \in Workspaces : feeds'[q][v] # None => feeds[q][v] # None \/ Known(v)
    BY <1>0, <2>1 DEF RegistryTypes, Known
  <2>3. QED
    BY <2>1, <2>2, GoneAlone
<1>8. ASSUME NEW p \in Feeders, Sync(p, w) PROVE GoneInv'
  <2>1. /\ feeds[p][w] # None /\ StartJob(p, w, feeds[p][w], FALSE, "delta", w)
        /\ UNCHANGED <<dirs, docs, fed, wiped, feeds, index>>
    BY <1>8 DEF Sync, history
  <2>2. Known(w)
    BY <2>1 DEF GoneInv, FeedsKnown
  <2>3. QED
    BY <2>1, <2>2, StartsKeepGone
<1>9. QED
  BY <1>1, <1>2, <1>3, <1>4, <1>5, <1>6, <1>7, <1>8

LEMMA GoneStep == GoneInv /\ [Next]_vars => GoneInv'
<1> SUFFICES ASSUME GoneInv, [Next]_vars PROVE GoneInv'
  OBVIOUS
<1>0. RegistryTypes /\ RegistryTypes' /\ "program" \in Feeders
  BY RegistryStep DEF GoneInv, Feeders
<1>1. CASE \/ \E d \in Docs : Edit(d) \/ \E m \in Managers : ReadRow(m, d)
           \/ \E m \in Managers : CacheRow(m)
           \/ \E w \in Workspaces : CLIDropKey(w)
           \/ CLIGenerate \/ CLIStore \/ CLIKilled
           \/ UNCHANGED vars
  <2>1. UNCHANGED <<dirs, docs, feeds, index, jobs, fed, wiped>>
    BY <1>1 DEF Edit, ReadRow, CacheRow, CLIDropKey, CLIGenerate, CLIStore, CLIKilled, vars,
                registry, history
  <2>2. QED
    BY <1>0, <2>1, GoneAlone
<1>2. ASSUME NEW p \in Feeders, StopFeeds(p) PROVE GoneInv'
  <2>1. /\ feeds' = [feeds EXCEPT ![p] = [w \in Workspaces |-> None]]
        /\ UNCHANGED <<dirs, docs, index, jobs, fed, wiped>>
    BY <1>2 DEF StopFeeds, history
  <2>2. \A q \in Feeders, v \in Workspaces : feeds'[q][v] # None => feeds[q][v] # None
    BY <1>0, <2>1 DEF RegistryTypes
  <2>3. QED
    BY <1>0, <2>1, <2>2, GoneAlone
<1>3. CASE FrameworkFeeds
  <2>1. /\ feeds' = [feeds EXCEPT !["program"] = [w \in Workspaces |->
                        IF w = Home THEN HomeDir ELSE IF dirs[w] # None THEN dirs[w] ELSE @[w]]]
        /\ fed' = IF dirs[Home] = None THEN fed \cup {Home} ELSE fed
        /\ UNCHANGED <<dirs, docs, index, jobs, wiped>>
    BY <1>3 DEF FrameworkFeeds
  <2>2. \A w \in Workspaces : (Known(w) => Known(w)') /\ (w = Home => Known(w)')
    BY <2>1 DEF Known
  <2>3. \A w \in Workspaces : dirs[w] # None => Known(w)'
    BY <2>1 DEF Known
  <2>4. \A q \in Feeders, w \in Workspaces : feeds'[q][w] # None => feeds[q][w] # None \/ Known(w)'
    BY <1>0, <2>1, <2>2, <2>3 DEF RegistryTypes
  <2>5. \A w \in Workspaces : w \in fed => w \in fed'
    BY <2>1
  <2>6. QED
    BY <1>0, <2>1, <2>2, <2>4, <2>5, GoneCarry
<1>4. CASE Restart
  <2>1. /\ feeds' = [feeds EXCEPT !["ui"] = [w \in Workspaces |-> None]]
        /\ jobs' = [j \in Jobs |-> IF jobs[j] # None /\ jobs[j].by = "ui" THEN None ELSE jobs[j]]
        /\ UNCHANGED <<dirs, docs, index, fed, wiped>>
    BY <1>4 DEF Restart
  <2>2. \A q \in Feeders, v \in Workspaces : feeds'[q][v] # None => feeds[q][v] # None
    BY <1>0, <2>1 DEF RegistryTypes
  <2>3. \A j \in Jobs : jobs'[j] # None => jobs'[j] = jobs[j]
    BY <2>1
  <2>4. QED
    BY <1>0, <2>1, <2>2, <2>3, GoneAlone
<1>5. QED
  BY <1>0, <1>1, <1>2, <1>3, <1>4, IngestionsKeepGone, OrdersKeepGone DEF Next

\* A deleted workspace has no rows, and no index when it was wiped with it, for
\* any number of feeds and ingestions of three kinds of processes around it.
THEOREM DeletedStaysGone == Spec => []DeletedIsGone
<1>1. Spec => []GoneInv
  BY GoneInit, GoneStep, PTL DEF Spec
<1>2. GoneInv => DeletedIsGone
  BY DEF GoneInv, RowsKnown, WipedEmpty, Known, DeletedIsGone, RowsOf
<1>3. QED
  BY <1>1, <1>2, PTL
===============================================================================
