------------------------------ MODULE Ingestion ------------------------------
(***************************************************************************)
(* The ingestion pipeline of the search agent: ingestion/pipeline.py,      *)
(* together with the two stores it writes, the SQLite document registry    *)
(* (workspace/workspace_manager.py) and the Meilisearch index              *)
(* (search/meilisearch_client.py), and the wipe of ui/api_routes.py.       *)
(*                                                                         *)
(* Files on disk are edited and removed while pipeline runs walk them.  A  *)
(* run handles one file at a time: delta check, read, stat, one batch to   *)
(* Meilisearch, one registry row per chunk.  Meilisearch is a separate     *)
(* process that works through a FIFO queue of tasks, so a batch can still  *)
(* be applied after the run that sent it gave up or died.                  *)
(*                                                                         *)
(* A version of a file stands for its content AND for its modification     *)
(* time: every write makes a new version.                                  *)
(***************************************************************************)
EXTENDS Naturals, Sequences, FiniteSets

CONSTANTS
    Files,        \* paths with a supported extension
    Workspaces,
    Runs,         \* threads that execute IngestionPipeline.run
    RunWorkspace, \* [Runs -> Workspaces]
    Dirs,         \* [Workspaces -> SUBSET Files]: what walking document_dirs finds
    MaxVersion,   \* bound: how often a file is written
    ChunkCount,   \* [1..MaxVersion -> Nat \ {0}]: pieces chunk_document cuts
    Unparseable,  \* <<file, version>> a parser rejects with ParserError
    Modes,        \* how runs are started: "delta", "force", "wipe"
    QuietParse,   \* TRUE: no write falls between a parser's read and its stat
    MaxFaults,    \* bound: failures of Meilisearch or SQLite
    MaxRestarts,  \* bound: crashes of the agent's process
    NoRow, NoFile, NoRun

Versions  == 1..MaxVersion
MaxChunks == CHOOSE n \in {ChunkCount[v] : v \in Versions} :
               \A v \in Versions : ChunkCount[v] <= n
DocIds    == Files \X (0..MaxChunks)

\* DocumentNode.make_doc_id / _chunk_doc_id: a file kept whole has the id of
\* its path, the i-th chunk of a file that was cut has the id of path and i.
DocId(f, v, i) == IF ChunkCount[v] = 1 THEN <<f, 0>> ELSE <<f, i>>
ChunkIds(f, v) == {DocId(f, v, i) : i \in 1..ChunkCount[v]}

Row == [ws : Workspaces, mtime : Versions, text : Versions]

Stats == [total : Nat, indexed : Nat, filesIndexed : Nat, skipped : Nat, failed : Nat]
NoStats == [total |-> 0, indexed |-> 0, filesIndexed |-> 0, skipped |-> 0, failed |-> 0]

AddTask  == [op : {"add"}, ws : Workspaces, file : Files, ver : Versions, run : Runs \cup {NoRun}]
DropTask == [op : {"drop"}, ws : Workspaces, run : Runs \cup {NoRun}]

PCs == {"idle", "dropIndex", "awaitDrop", "dropRows", "next", "parse", "stat",
        "flush", "await", "register"}

ASSUME ConstantsAssumption ==
    /\ MaxVersion \in Nat \ {0}
    /\ ChunkCount \in [Versions -> Nat \ {0}]
    /\ MaxChunks \in Nat
    /\ \A v \in Versions : ChunkCount[v] <= MaxChunks
    /\ RunWorkspace \in [Runs -> Workspaces]
    /\ Dirs \in [Workspaces -> SUBSET Files]
    /\ Unparseable \subseteq Files \X Versions
    /\ Modes \subseteq {"delta", "force", "wipe"}
    /\ QuietParse \in BOOLEAN
    /\ MaxFaults \in Nat /\ MaxRestarts \in Nat
    /\ NoRow \notin Row /\ NoFile \notin Files /\ NoRun \notin Runs
    /\ IsFiniteSet(Files)

VARIABLES
    disk,     \* [Files -> 0..MaxVersion], 0: the file does not exist
    written,  \* [Files -> 0..MaxVersion], the last version ever written
    rows,     \* SQLite table documents: [DocIds -> Row or NoRow]
    index,    \* Meilisearch: [Workspaces -> [DocIds -> version, 0: no document]]
    tasks,    \* Meilisearch's task queue
    result,   \* [Runs -> status of the task the run waits for]
    pc, mode, todo, file, text, mtime, nextChunk, stats, \* locals of each run
    faults, restarts

disks  == <<disk, written>>
meili  == <<index, tasks, result>>
locals == <<mode, todo, file, text, mtime, nextChunk, stats>>
vars   == <<disks, rows, meili, pc, locals, faults, restarts>>

Init ==
    /\ disk = [f \in Files |-> 0]
    /\ written = [f \in Files |-> 0]
    /\ rows = [d \in DocIds |-> NoRow]
    /\ index = [w \in Workspaces |-> [d \in DocIds |-> 0]]
    /\ tasks = <<>>
    /\ result = [r \in Runs |-> "none"]
    /\ pc = [r \in Runs |-> "idle"]
    /\ mode = [r \in Runs |-> "delta"]
    /\ todo = [r \in Runs |-> {}]
    /\ file = [r \in Runs |-> NoFile]
    /\ text = [r \in Runs |-> 0]
    /\ mtime = [r \in Runs |-> 0]
    /\ nextChunk = [r \in Runs |-> 0]
    /\ stats = [r \in Runs |-> NoStats]
    /\ faults = 0
    /\ restarts = 0

-----------------------------------------------------------------------------
(* The users of the file system. *)

Write(f) ==
    /\ written[f] < MaxVersion
    /\ QuietParse => \A r \in Runs : ~(pc[r] = "stat" /\ file[r] = f)
    /\ written' = [written EXCEPT ![f] = @ + 1]
    /\ disk' = [disk EXCEPT ![f] = written[f] + 1]
    /\ UNCHANGED <<rows, meili, pc, locals, faults, restarts>>

Remove(f) ==
    /\ disk[f] # 0
    /\ disk' = [disk EXCEPT ![f] = 0]
    /\ UNCHANGED <<written, rows, meili, pc, locals, faults, restarts>>

-----------------------------------------------------------------------------
(* Small steps every handler shares. *)

GoTo(r, label) == pc' = [pc EXCEPT ![r] = label]

\* A raised error of Meilisearch or SQLite; the bound keeps TLC finite.
Fault ==
    /\ faults < MaxFaults
    /\ faults' = faults + 1

\* Nobody polls the task of run r any more; Meilisearch keeps it queued.
Detached(q, r) ==
    [i \in 1..Len(q) |-> IF q[i].run = r THEN [q[i] EXCEPT !.run = NoRun] ELSE q[i]]

\* Leave the file in hand.
DropFile(r) ==
    /\ file' = [file EXCEPT ![r] = NoFile]
    /\ text' = [text EXCEPT ![r] = 0]
    /\ mtime' = [mtime EXCEPT ![r] = 0]
    /\ nextChunk' = [nextChunk EXCEPT ![r] = 0]

\* An exception leaves IngestionPipeline.run: the callers log it and the
\* thread ends without looking at the files that were left.
Abort(r) ==
    /\ GoTo(r, "idle")
    /\ todo' = [todo EXCEPT ![r] = {}]
    /\ stats' = [stats EXCEPT ![r] = NoStats]
    /\ DropFile(r)

-----------------------------------------------------------------------------
(* The start of a run, and the wipe in front of it. *)

\* os.walk over document_dirs: the list of files is fixed before the first
\* one is looked at.
Walk(r) ==
    LET found == {f \in Dirs[RunWorkspace[r]] : disk[f] # 0} IN
    /\ todo' = [todo EXCEPT ![r] = found]
    /\ stats' = [stats EXCEPT ![r] = [NoStats EXCEPT !.total = Cardinality(found)]]
    /\ GoTo(r, "next")

Start(r, m) ==
    /\ pc[r] = "idle"
    /\ mode' = [mode EXCEPT ![r] = m]
    /\ IF m = "wipe"
         THEN GoTo(r, "dropIndex") /\ UNCHANGED <<todo, stats>>
         ELSE Walk(r)
    /\ UNCHANGED <<disks, rows, meili, file, text, mtime, nextChunk, faults, restarts>>

\* MeilisearchClient.delete_index: one task, polled like any other; every
\* exception is logged and swallowed.
DropIndex(r) ==
    /\ pc[r] = "dropIndex"
    /\ \/ /\ tasks' = Append(tasks, [op |-> "drop", ws |-> RunWorkspace[r], run |-> r])
          /\ result' = [result EXCEPT ![r] = "enqueued"]
          /\ GoTo(r, "awaitDrop")
          /\ UNCHANGED faults
       \/ /\ Fault
          /\ GoTo(r, "dropRows")
          /\ UNCHANGED <<tasks, result>>
    /\ UNCHANGED <<disks, rows, index, locals, restarts>>

AwaitDrop(r) ==
    /\ pc[r] = "awaitDrop"
    /\ \/ result[r] # "enqueued" /\ UNCHANGED <<tasks, faults>>
       \/ result[r] = "enqueued" /\ Fault /\ tasks' = Detached(tasks, r)
    /\ result' = [result EXCEPT ![r] = "none"]
    /\ GoTo(r, "dropRows")
    /\ UNCHANGED <<disks, rows, index, locals, restarts>>

\* Mutant: the wipe forgets the registry.
DropRows_IndexOnly(r) ==
    /\ pc[r] = "dropRows"
    /\ Walk(r)
    /\ UNCHANGED <<disks, rows, meili, mode, file, text, mtime, nextChunk, faults, restarts>>

\* DELETE FROM documents WHERE workspace = ?; a failure is logged and
\* swallowed too.  Then the pipeline walks.
DropRows(r) ==
    /\ pc[r] = "dropRows"
    /\ \/ /\ rows' = [d \in DocIds |->
                       IF rows[d] # NoRow /\ rows[d].ws = RunWorkspace[r] THEN NoRow ELSE rows[d]]
          /\ UNCHANGED faults
       \/ Fault /\ UNCHANGED rows
    /\ Walk(r)
    /\ UNCHANGED <<disks, meili, mode, file, text, mtime, nextChunk, restarts>>

-----------------------------------------------------------------------------
(* One file. *)

RowsOf(f) == {d \in DocIds : d[1] = f /\ rows[d] # NoRow}

\* document_needs_reindex: the LIMIT 1 row has no ORDER BY, so it is any row
\* of the path, of whatever workspace.
SomeRowSaysUnchanged(f) == \E d \in RowsOf(f) : rows[d].mtime = disk[f]
SomeRowSaysChanged(f)   == RowsOf(f) = {} \/ \E d \in RowsOf(f) : rows[d].mtime # disk[f]

SkipFile(r, f) ==
    /\ pc[r] = "next" /\ f \in todo[r] /\ mode[r] = "delta"
    /\ disk[f] # 0
    /\ SomeRowSaysUnchanged(f)
    /\ todo' = [todo EXCEPT ![r] = @ \ {f}]
    /\ stats' = [stats EXCEPT ![r].skipped = @ + 1]
    /\ UNCHANGED <<disks, rows, meili, pc, mode, file, text, mtime, nextChunk, faults, restarts>>

TakeFile(r, f) ==
    /\ pc[r] = "next" /\ f \in todo[r]
    /\ mode[r] = "delta" => disk[f] # 0 /\ SomeRowSaysChanged(f)
    /\ todo' = [todo EXCEPT ![r] = @ \ {f}]
    /\ file' = [file EXCEPT ![r] = f]
    /\ GoTo(r, "parse")
    /\ UNCHANGED <<disks, rows, meili, mode, text, mtime, nextChunk, stats, faults, restarts>>

\* The os.stat of the delta check is outside any try: a file that vanished
\* since the walk ends the whole run.
FileVanished(r, f) ==
    /\ pc[r] = "next" /\ f \in todo[r] /\ mode[r] = "delta"
    /\ disk[f] = 0
    /\ Abort(r)
    /\ UNCHANGED <<disks, rows, meili, mode, faults, restarts>>

Rejected(f) == <<f, disk[f]>> \in Unparseable

\* _parse_file caught FileNotFoundError or ParserError.
ParseFails(r) ==
    /\ \/ pc[r] = "parse" /\ (disk[file[r]] = 0 \/ Rejected(file[r]))
       \/ pc[r] = "stat"  /\ disk[file[r]] = 0
    /\ GoTo(r, "next")
    /\ stats' = [stats EXCEPT ![r].failed = @ + 1]
    /\ DropFile(r)
    /\ UNCHANGED <<disks, rows, meili, mode, todo, faults, restarts>>

\* The parser reads the content ...
ReadText(r) ==
    /\ pc[r] = "parse"
    /\ disk[file[r]] # 0 /\ ~Rejected(file[r])
    /\ text' = [text EXCEPT ![r] = disk[file[r]]]
    /\ GoTo(r, "stat")
    /\ UNCHANGED <<disks, rows, meili, mode, todo, file, mtime, nextChunk, stats, faults, restarts>>

\* ... and DocumentNode.from_file stats the file when the text is ready.
\* Chunking and enrichment follow and touch no shared state.
StatFile(r) ==
    /\ pc[r] = "stat"
    /\ disk[file[r]] # 0
    /\ mtime' = [mtime EXCEPT ![r] = disk[file[r]]]
    /\ GoTo(r, "flush")
    /\ UNCHANGED <<disks, rows, meili, mode, todo, file, text, nextChunk, stats, faults, restarts>>

-----------------------------------------------------------------------------
(* _flush_batch: all chunks of the file as one Meilisearch task, then one  *)
(* registry row per chunk.                                                 *)

SendBatch(r) ==
    /\ pc[r] = "flush"
    /\ tasks' = Append(tasks, [op |-> "add", ws |-> RunWorkspace[r],
                               file |-> file[r], ver |-> text[r], run |-> r])
    /\ result' = [result EXCEPT ![r] = "enqueued"]
    /\ GoTo(r, "await")
    /\ UNCHANGED <<disks, rows, index, locals, faults, restarts>>

\* Mutant: _flush_batch logs the error and goes on to register the chunks.
BatchFails_NoReturn(r) ==
    /\ \/ pc[r] = "flush" /\ Fault /\ UNCHANGED tasks
       \/ pc[r] = "await" /\ result[r] = "failed" /\ UNCHANGED <<tasks, faults>>
       \/ pc[r] = "await" /\ result[r] = "enqueued" /\ Fault /\ tasks' = Detached(tasks, r)
    /\ result' = [result EXCEPT ![r] = "none"]
    /\ nextChunk' = [nextChunk EXCEPT ![r] = 1]
    /\ GoTo(r, "register")
    /\ UNCHANGED <<disks, rows, index, mode, todo, file, text, mtime, stats, restarts>>

\* index_documents raised: no connection, the task failed, or 120 s passed.
\* The batch counts as failed, and run still counts the file as indexed.
BatchFails(r) ==
    /\ \/ pc[r] = "flush" /\ Fault /\ UNCHANGED tasks
       \/ pc[r] = "await" /\ result[r] = "failed" /\ UNCHANGED <<tasks, faults>>
       \/ pc[r] = "await" /\ result[r] = "enqueued" /\ Fault /\ tasks' = Detached(tasks, r)
    /\ result' = [result EXCEPT ![r] = "none"]
    /\ stats' = [stats EXCEPT ![r].failed = @ + ChunkCount[text[r]], ![r].filesIndexed = @ + 1]
    /\ GoTo(r, "next")
    /\ DropFile(r)
    /\ UNCHANGED <<disks, rows, index, mode, todo, restarts>>

\* Mutant: add_documents is not followed by _wait_for_task.
BatchAccepted_NoWait(r) ==
    /\ pc[r] = "await" /\ result[r] \in {"enqueued", "succeeded"}
    /\ tasks' = Detached(tasks, r)
    /\ result' = [result EXCEPT ![r] = "none"]
    /\ nextChunk' = [nextChunk EXCEPT ![r] = 1]
    /\ GoTo(r, "register")
    /\ UNCHANGED <<disks, rows, index, mode, todo, file, text, mtime, stats, faults, restarts>>

BatchAccepted(r) ==
    /\ pc[r] = "await" /\ result[r] = "succeeded"
    /\ result' = [result EXCEPT ![r] = "none"]
    /\ nextChunk' = [nextChunk EXCEPT ![r] = 1]
    /\ GoTo(r, "register")
    /\ UNCHANGED <<disks, rows, index, tasks, mode, todo, file, text, mtime, stats, faults, restarts>>

\* Mutant: modified_at is missing from the DO UPDATE list.
Upserted_OldTime(r, d) ==
    [ws    |-> IF rows[d] = NoRow THEN RunWorkspace[r] ELSE rows[d].ws,
     mtime |-> IF rows[d] = NoRow THEN mtime[r] ELSE rows[d].mtime,
     text  |-> text[r]]

\* register_document's upsert: ON CONFLICT(doc_id) replaces every column but
\* the workspace.
Upserted(r, d) ==
    [ws    |-> IF rows[d] = NoRow THEN RunWorkspace[r] ELSE rows[d].ws,
     mtime |-> mtime[r],
     text  |-> text[r]]

RegisterChunk(r) ==
    LET d    == DocId(file[r], text[r], nextChunk[r])
        last == nextChunk[r] = ChunkCount[text[r]]
    IN
    /\ pc[r] = "register"
    /\ rows' = [rows EXCEPT ![d] = Upserted(r, d)]
    /\ IF last
         THEN /\ GoTo(r, "next")
              /\ DropFile(r)
              /\ stats' = [stats EXCEPT ![r].indexed = @ + 1, ![r].filesIndexed = @ + 1]
         ELSE /\ nextChunk' = [nextChunk EXCEPT ![r] = @ + 1]
              /\ stats' = [stats EXCEPT ![r].indexed = @ + 1]
              /\ UNCHANGED <<pc, file, text, mtime>>
    /\ UNCHANGED <<disks, meili, mode, todo, faults, restarts>>

\* sqlite3.OperationalError out of register_document is not caught.
RegisterFails(r) ==
    /\ pc[r] = "register"
    /\ Fault
    /\ Abort(r)
    /\ UNCHANGED <<disks, rows, meili, mode, restarts>>

Finish(r) ==
    /\ pc[r] = "next" /\ todo[r] = {}
    /\ GoTo(r, "idle")
    /\ stats' = [stats EXCEPT ![r] = NoStats]
    /\ UNCHANGED <<disks, rows, meili, mode, todo, file, text, mtime, nextChunk, faults, restarts>>

-----------------------------------------------------------------------------
(* Meilisearch works on the head of its queue; the agent's process dies. *)

Applied(t) ==
    [index EXCEPT ![t.ws] = [d \in DocIds |->
        CASE t.op = "drop"                                 -> 0
          [] t.op = "add" /\ d \in ChunkIds(t.file, t.ver) -> t.ver
          [] OTHER                                         -> @[d]]]

Answer(status) ==
    LET t == Head(tasks) IN
    /\ tasks' = Tail(tasks)
    /\ result' = IF t.run = NoRun THEN result ELSE [result EXCEPT ![t.run] = status]

MeiliSucceeds ==
    /\ tasks # <<>>
    /\ index' = Applied(Head(tasks))
    /\ Answer("succeeded")
    /\ UNCHANGED <<disks, rows, pc, locals, faults, restarts>>

MeiliFails ==
    /\ tasks # <<>>
    /\ Fault
    /\ Answer("failed")
    /\ UNCHANGED <<disks, rows, index, pc, locals, restarts>>

Restart ==
    /\ restarts < MaxRestarts
    /\ restarts' = restarts + 1
    /\ pc' = [r \in Runs |-> "idle"]
    /\ mode' = [r \in Runs |-> "delta"]
    /\ todo' = [r \in Runs |-> {}]
    /\ file' = [r \in Runs |-> NoFile]
    /\ text' = [r \in Runs |-> 0]
    /\ mtime' = [r \in Runs |-> 0]
    /\ nextChunk' = [r \in Runs |-> 0]
    /\ stats' = [r \in Runs |-> NoStats]
    /\ result' = [r \in Runs |-> "none"]
    /\ tasks' = [i \in 1..Len(tasks) |-> [tasks[i] EXCEPT !.run = NoRun]]
    /\ UNCHANGED <<disks, rows, index, faults>>

-----------------------------------------------------------------------------

Wipe(r) == DropIndex(r) \/ AwaitDrop(r) \/ DropRows(r)

Flush(r) ==
    \/ SendBatch(r) \/ BatchFails(r) \/ BatchAccepted(r)
    \/ RegisterChunk(r) \/ RegisterFails(r)

Handle(r) ==
    \/ \E f \in Files : SkipFile(r, f) \/ TakeFile(r, f) \/ FileVanished(r, f)
    \/ ParseFails(r) \/ ReadText(r) \/ StatFile(r)
    \/ Flush(r)
    \/ Finish(r)

RunStep(r) == Wipe(r) \/ Handle(r)

Next ==
    \/ \E f \in Files : Write(f) \/ Remove(f)
    \/ \E r \in Runs : (\E m \in Modes : Start(r, m)) \/ RunStep(r)
    \/ MeiliSucceeds \/ MeiliFails
    \/ Restart

Spec == Init /\ [][Next]_vars

\* Threads and Meilisearch make progress, and a workspace is synced again and
\* again: the scheduler's interval job and watch mode start delta runs.
Fairness ==
    /\ \A r \in Runs : WF_vars(RunStep(r))
    /\ \A r \in Runs : WF_vars(\E m \in Modes : Start(r, m))
    /\ WF_vars(MeiliSucceeds)

FairSpec == Spec /\ Fairness

-----------------------------------------------------------------------------
(* Properties. *)

\* Every variable stays in its type.
TypeOK ==
    /\ disk \in [Files -> 0..MaxVersion]
    /\ written \in [Files -> 0..MaxVersion]
    /\ rows \in [DocIds -> Row \cup {NoRow}]
    /\ index \in [Workspaces -> [DocIds -> 0..MaxVersion]]
    /\ tasks \in Seq(AddTask \cup DropTask)
    /\ result \in [Runs -> {"none", "enqueued", "succeeded", "failed"}]
    /\ pc \in [Runs -> PCs]
    /\ mode \in [Runs -> {"delta", "force", "wipe"}]
    /\ todo \in [Runs -> SUBSET Files]
    /\ file \in [Runs -> Files \cup {NoFile}]
    /\ text \in [Runs -> 0..MaxVersion]
    /\ mtime \in [Runs -> 0..MaxVersion]
    /\ nextChunk \in [Runs -> Nat]
    /\ stats \in [Runs -> Stats]
    /\ faults \in 0..MaxFaults
    /\ restarts \in 0..MaxRestarts

\* A chunk the registry knows is in the index of its workspace, whatever
\* fails, times out, is applied late, crashes or runs concurrently: the delta
\* check reads the registry only, so a row without a document would hide the
\* chunk from search until the file is edited.  (Not while a wipe is between
\* its two stores.)
RegisteredIsSearchable ==
    \A d \in DocIds : rows[d] # NoRow => index[rows[d].ws][d] # 0

\* Without a write between read and stat, a row's modification time is the
\* one of the text it holds, so an unchanged time means unchanged text.
TextMatchesMtime ==
    \A d \in DocIds : rows[d] # NoRow => rows[d].text = rows[d].mtime

\* With one run per workspace: a chunk whose row carries the file's current
\* modification time is in the index with the current text, also while a
\* batch that timed out is still queued in Meilisearch.
FreshRowIsSearchable ==
    \A f \in Files : disk[f] # 0 =>
        \A d \in ChunkIds(f, disk[f]) :
            rows[d] # NoRow /\ rows[d].mtime = disk[f] => index[rows[d].ws][d] = disk[f]

\* With one run per workspace and nothing failing, the two stores agree
\* whenever no run is inside a file or a wipe, whatever mix of delta, force
\* and wipe runs went before.
StoresAgree ==
    (faults = 0 /\ restarts = 0 /\ \A r \in Runs : pc[r] \in {"idle", "next"}) =>
        \A d \in DocIds :
            IF rows[d] = NoRow THEN \A w \in Workspaces : index[w][d] = 0
                               ELSE index[rows[d].ws][d] = rows[d].text

\* A wipe run that met no failure ends with no chunk of an older, longer
\* version: each file it saw has the rows of exactly one version.
WipeClearsStaleChunks ==
    \A r \in Runs :
        (mode[r] = "wipe" /\ pc[r] = "next" /\ todo[r] = {} /\ faults = 0) =>
            \A f \in Dirs[RunWorkspace[r]] :
                RowsOf(f) = {} \/ \E v \in Versions : RowsOf(f) = ChunkIds(f, v)

InHand(r) == IF file[r] = NoFile THEN 0 ELSE 1

\* The progress counters lose no file of the walk and count no file as both
\* indexed and skipped.
EveryFileCounted ==
    \A r \in Runs : pc[r] \notin {"idle", "dropIndex", "awaitDrop", "dropRows"} =>
        LET counted == stats[r].filesIndexed + stats[r].skipped + Cardinality(todo[r]) + InHand(r)
        IN  counted <= stats[r].total /\ stats[r].total <= counted + stats[r].failed

\* A file the delta check may skip, with no run working on it, has a row for
\* each of its chunks.  (docs/ingestion.md: only the file being processed at
\* a crash is processed again, finished files are skipped.)
SkippedFileIsComplete ==
    \A f \in Files :
        (disk[f] # 0 /\ SomeRowSaysUnchanged(f) /\ \A r \in Runs : file[r] # f) =>
            \A d \in ChunkIds(f, disk[f]) : rows[d] # NoRow /\ rows[d].mtime = disk[f]

\* All chunks of every file on disk that a parser accepts are in the index of
\* the workspace, at the current version.
AllSearchable ==
    \A w \in Workspaces : \A f \in Dirs[w] :
        (disk[f] # 0 /\ ~Rejected(f)) =>
            \A d \in ChunkIds(f, disk[f]) : index[w][d] = disk[f]

\* Once the files rest, repeated syncs bring the whole workspace into the
\* index for good, in spite of failed and late batches, aborted runs and
\* crashes before.
EventuallySearchable == <>[]AllSearchable

\* With wipes going on forever the workspace cannot stay complete, but it
\* becomes complete again and again.
SearchableAgain == []<>AllSearchable
=============================================================================
