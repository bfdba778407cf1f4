--------------------------- MODULE Ingestion_proofs ---------------------------
(***************************************************************************)
(* Proofs about Ingestion for every value of its constants: any number of  *)
(* files, workspaces and concurrent runs, any bounds.  The last three      *)
(* theorems assume SoleRun, that no two runs ingest the same file: without *)
(* it TLC finds a counterexample to each of them, two runs of a workspace  *)
(* that handle different versions of a file at the same time.              *)
(***************************************************************************)
EXTENDS Ingestion, TLAPS, FiniteSetTheorems, SequenceTheorems

-----------------------------------------------------------------------------
(* The helpers of the model. *)

\* The chunks of a version have document ids.
LEMMA DocIdType ==
    ASSUME NEW f \in Files, NEW v \in Versions, NEW i \in 1..ChunkCount[v]
    PROVE  DocId(f, v, i) \in DocIds
<1>1. ChunkCount[v] \in Nat \ {0} /\ MaxChunks \in Nat /\ ChunkCount[v] <= MaxChunks
  BY ConstantsAssumption
<1>2. i \in 0..MaxChunks /\ 0 \in 0..MaxChunks
  BY <1>1
<1>3. QED
  BY <1>2 DEF DocId, DocIds

LEMMA ChunkIdsType ==
    ASSUME NEW f \in Files, NEW v \in Versions
    PROVE  ChunkIds(f, v) \subseteq DocIds
BY DocIdType DEF ChunkIds

Tasks == AddTask \cup DropTask

\* Giving up on a task keeps the queue: same length, same work, and no task
\* that run r waits for.
LEMMA DetachedProperties ==
    ASSUME NEW q \in Seq(Tasks), NEW r \in Runs
    PROVE  /\ Detached(q, r) \in Seq(Tasks)
           /\ Len(Detached(q, r)) = Len(q)
           /\ \A i \in 1..Len(q) :
                 Detached(q, r)[i] = IF q[i].run = r THEN [q[i] EXCEPT !.run = NoRun] ELSE q[i]
<1>1. Len(q) \in Nat /\ q \in [1..Len(q) -> Tasks]
  BY LenProperties
<1>2. \A t \in Tasks : [t EXCEPT !.run = NoRun] \in Tasks
  BY DEF Tasks, AddTask, DropTask
<1>3. Detached(q, r) \in [1..Len(q) -> Tasks]
  BY <1>1, <1>2 DEF Detached
<1>4. Detached(q, r) \in Seq(Tasks)
  BY <1>1, <1>3, SeqDef
<1>5. QED
  BY <1>1, <1>3, <1>4, LenProperties DEF Detached

\* A crash does the same to the tasks of every run.
LEMMA DetachAllProperties ==
    ASSUME NEW q \in Seq(Tasks),
           NEW p, p = [i \in 1..Len(q) |-> [q[i] EXCEPT !.run = NoRun]]
    PROVE  /\ p \in Seq(Tasks)
           /\ Len(p) = Len(q)
           /\ \A i \in 1..Len(q) : p[i] = [q[i] EXCEPT !.run = NoRun]
<1>1. Len(q) \in Nat /\ q \in [1..Len(q) -> Tasks]
  BY LenProperties
<1>2. \A t \in Tasks : [t EXCEPT !.run = NoRun] \in Tasks
  BY DEF Tasks, AddTask, DropTask
<1>3. p \in [1..Len(q) -> Tasks]
  BY <1>1, <1>2
<1>4. p \in Seq(Tasks)
  BY <1>1, <1>3, SeqDef
<1>5. QED
  BY <1>1, <1>3, <1>4, LenProperties

-----------------------------------------------------------------------------
(* Type correctness.  By itself TypeOK is not inductive: a row is written  *)
(* from the locals of a run, so what a run holds at each label matters.    *)

HandOK ==
    \A r \in Runs :
        /\ pc[r] \in {"parse", "stat", "flush", "await", "register"} => file[r] \in Files
        /\ pc[r] \in {"stat", "flush", "await", "register"} => text[r] \in Versions
        /\ pc[r] \in {"flush", "await", "register"} => mtime[r] \in Versions
        /\ pc[r] = "register" => nextChunk[r] \in 1..ChunkCount[text[r]]

TypeInv == TypeOK /\ HandOK

LEMMA TypeInit == Init => TypeInv
<1> SUFFICES ASSUME Init PROVE TypeInv
  OBVIOUS
<1> USE DEF Init
<1>1. tasks \in Seq(AddTask \cup DropTask)
  BY EmptySeq
<1>2. 0 \in 0..MaxVersion /\ 0 \in 0..MaxFaults /\ 0 \in 0..MaxRestarts
  BY ConstantsAssumption
<1>3. TypeOK
  BY <1>1, <1>2 DEF TypeOK, PCs, NoStats, Stats
<1>4. HandOK
  BY DEF HandOK
<1>5. QED
  BY <1>3, <1>4 DEF TypeInv

\* A walk finds finitely many files, and leaves the run with nothing in hand.
LEMMA WalkType ==
    ASSUME TypeInv, NEW r \in Runs, Walk(r)
    PROVE  /\ todo' \in [Runs -> SUBSET Files]
           /\ stats' \in [Runs -> Stats]
           /\ pc' = [pc EXCEPT ![r] = "next"]
<1> DEFINE found == {f \in Dirs[RunWorkspace[r]] : disk[f] # 0}
<1>1. found \in SUBSET Files
  BY ConstantsAssumption
<1>2. Cardinality(found) \in Nat
  BY <1>1, ConstantsAssumption, FS_Subset, FS_CardinalityType
<1>3. [NoStats EXCEPT !.total = Cardinality(found)] \in Stats
  BY <1>2 DEF NoStats, Stats
<1> HIDE DEF found
<1>4. /\ todo' = [todo EXCEPT ![r] = found]
      /\ stats' = [stats EXCEPT ![r] = [NoStats EXCEPT !.total = Cardinality(found)]]
      /\ pc' = [pc EXCEPT ![r] = "next"]
  BY DEF Walk, GoTo, found
<1>5. QED
  BY <1>1, <1>3, <1>4 DEF TypeInv, TypeOK

LEMMA TypeStart ==
    ASSUME TypeInv, NEW r \in Runs, NEW m \in Modes, Start(r, m)
    PROVE  TypeInv'
<1>1. mode' \in [Runs -> {"delta", "force", "wipe"}]
  BY ConstantsAssumption DEF Start, TypeInv, TypeOK
<1>2. CASE m = "wipe"
  <2>1. pc' = [pc EXCEPT ![r] = "dropIndex"]
        /\ UNCHANGED <<disk, written, rows, index, tasks, result, todo, stats,
                       file, text, mtime, nextChunk, faults, restarts>>
    BY <1>2 DEF Start, GoTo, disks, meili
  <2>2. TypeOK'
    BY <1>1, <2>1 DEF TypeInv, TypeOK, PCs
  <2>3. HandOK'
    BY <2>1 DEF TypeInv, TypeOK, HandOK
  <2>4. QED
    BY <2>2, <2>3 DEF TypeInv
<1>3. CASE m # "wipe"
  <2>1. Walk(r)
        /\ UNCHANGED <<disk, written, rows, index, tasks, result,
                       file, text, mtime, nextChunk, faults, restarts>>
    BY <1>3 DEF Start, disks, meili
  <2>2. /\ todo' \in [Runs -> SUBSET Files]
        /\ stats' \in [Runs -> Stats]
        /\ pc' = [pc EXCEPT ![r] = "next"]
    BY <2>1, WalkType
  <2>3. TypeOK'
    BY <1>1, <2>1, <2>2 DEF TypeInv, TypeOK, PCs
  <2>4. HandOK'
    BY <2>1, <2>2 DEF TypeInv, TypeOK, HandOK
  <2>5. QED
    BY <2>3, <2>4 DEF TypeInv
<1>4. QED
  BY <1>2, <1>3

\* Counters only grow by natural numbers.
LEMMA StatsStep ==
    ASSUME stats \in [Runs -> Stats], NEW r \in Runs, NEW m \in Nat, NEW n \in Nat
    PROVE  /\ [stats EXCEPT ![r].skipped = @ + n] \in [Runs -> Stats]
           /\ [stats EXCEPT ![r].indexed = @ + n] \in [Runs -> Stats]
           /\ [stats EXCEPT ![r].failed = @ + n] \in [Runs -> Stats]
           /\ [stats EXCEPT ![r].failed = @ + m, ![r].filesIndexed = @ + n] \in [Runs -> Stats]
           /\ [stats EXCEPT ![r].indexed = @ + m, ![r].filesIndexed = @ + n] \in [Runs -> Stats]
<1>1. \A k \in Nat : \A s \in Stats :
        /\ [s EXCEPT !.skipped = @ + k] \in Stats
        /\ [s EXCEPT !.indexed = @ + k] \in Stats
        /\ [s EXCEPT !.failed = @ + k] \in Stats
        /\ [s EXCEPT !.filesIndexed = @ + k] \in Stats
  BY DEF Stats
<1>2. \A s \in Stats :
        /\ [s EXCEPT !.failed = @ + m, !.filesIndexed = @ + n]
              = [[s EXCEPT !.failed = @ + m] EXCEPT !.filesIndexed = @ + n]
        /\ [s EXCEPT !.indexed = @ + m, !.filesIndexed = @ + n]
              = [[s EXCEPT !.indexed = @ + m] EXCEPT !.filesIndexed = @ + n]
  OBVIOUS
<1>3. stats[r] \in Stats
  OBVIOUS
<1>4. \A s \in Stats : [stats EXCEPT ![r] = s] \in [Runs -> Stats]
  OBVIOUS
<1>5. [stats EXCEPT ![r].skipped = @ + n] = [stats EXCEPT ![r] = [stats[r] EXCEPT !.skipped = @ + n]]
  OBVIOUS
<1>6. [stats EXCEPT ![r].indexed = @ + n] = [stats EXCEPT ![r] = [stats[r] EXCEPT !.indexed = @ + n]]
  OBVIOUS
<1>7. [stats EXCEPT ![r].failed = @ + n] = [stats EXCEPT ![r] = [stats[r] EXCEPT !.failed = @ + n]]
  OBVIOUS
<1>8. [stats EXCEPT ![r].failed = @ + m, ![r].filesIndexed = @ + n]
        = [stats EXCEPT ![r] = [stats[r] EXCEPT !.failed = @ + m, !.filesIndexed = @ + n]]
  OBVIOUS
<1>9. [stats EXCEPT ![r].indexed = @ + m, ![r].filesIndexed = @ + n]
        = [stats EXCEPT ![r] = [stats[r] EXCEPT !.indexed = @ + m, !.filesIndexed = @ + n]]
  OBVIOUS
<1>10. /\ [stats[r] EXCEPT !.failed = @ + m, !.filesIndexed = @ + n] \in Stats
       /\ [stats[r] EXCEPT !.indexed = @ + m, !.filesIndexed = @ + n] \in Stats
  <2> DEFINE s1 == [stats[r] EXCEPT !.failed = @ + m]
             s2 == [stats[r] EXCEPT !.indexed = @ + m]
  <2>1. s1 \in Stats /\ s2 \in Stats
    BY <1>1, <1>3
  <2> HIDE DEF s1, s2
  <2>2. [s1 EXCEPT !.filesIndexed = @ + n] \in Stats /\ [s2 EXCEPT !.filesIndexed = @ + n] \in Stats
    BY <1>1, <2>1
  <2>3. QED
    BY <1>2, <1>3, <2>2 DEF s1, s2
<1>11. /\ [stats[r] EXCEPT !.skipped = @ + n] \in Stats
       /\ [stats[r] EXCEPT !.indexed = @ + n] \in Stats
       /\ [stats[r] EXCEPT !.failed = @ + n] \in Stats
  BY <1>1, <1>3
<1>12. QED
  BY <1>4, <1>5, <1>6, <1>7, <1>8, <1>9, <1>10, <1>11

\* Putting the file down leaves the locals well typed.
LEMMA DropFileType ==
    ASSUME TypeInv, NEW r \in Runs, DropFile(r)
    PROVE  /\ file' \in [Runs -> Files \cup {NoFile}]
           /\ text' \in [Runs -> 0..MaxVersion]
           /\ mtime' \in [Runs -> 0..MaxVersion]
           /\ nextChunk' \in [Runs -> Nat]
           /\ \A q \in Runs \ {r} : /\ file'[q] = file[q] /\ text'[q] = text[q]
                                   /\ mtime'[q] = mtime[q] /\ nextChunk'[q] = nextChunk[q]
<1>1. 0 \in 0..MaxVersion
  BY ConstantsAssumption
<1>2. QED
  BY <1>1 DEF DropFile, TypeInv, TypeOK

\* Steps that end with the run at a label where it holds nothing.
LEMMA HandDropped ==
    ASSUME TypeInv, NEW r \in Runs, DropFile(r),
           NEW label \in {"idle", "next"}, pc' = [pc EXCEPT ![r] = label]
    PROVE  HandOK'
<1>1. ASSUME NEW q \in Runs, q = r
      PROVE  pc'[q] \in {"idle", "next"}
  BY <1>1 DEF TypeInv, TypeOK
<1>2. ASSUME NEW q \in Runs, q # r
      PROVE  /\ pc'[q] = pc[q] /\ file'[q] = file[q] /\ text'[q] = text[q]
             /\ mtime'[q] = mtime[q] /\ nextChunk'[q] = nextChunk[q]
  BY <1>2, DropFileType DEF TypeInv, TypeOK
<1>3. QED
  BY <1>1, <1>2 DEF TypeInv, HandOK

LEMMA TypeWipe ==
    ASSUME TypeInv, NEW r \in Runs, Wipe(r)
    PROVE  TypeInv'
<1>1. CASE DropIndex(r)
  <2>1. [op |-> "drop", ws |-> RunWorkspace[r], run |-> r] \in DropTask
    BY ConstantsAssumption DEF DropTask
  <2>2. tasks' \in Seq(AddTask \cup DropTask)
    <3>1. tasks \in Seq(AddTask \cup DropTask)
      BY DEF TypeInv, TypeOK
    <3>2. tasks' = tasks \/ tasks' = Append(tasks, [op |-> "drop", ws |-> RunWorkspace[r], run |-> r])
      BY <1>1 DEF DropIndex
    <3>3. QED
      BY <2>1, <3>1, <3>2
  <2>3. faults' \in 0..MaxFaults
    BY <1>1, ConstantsAssumption DEF DropIndex, Fault, TypeInv, TypeOK
  <2>4. TypeOK'
    BY <1>1, <2>2, <2>3 DEF DropIndex, GoTo, TypeInv, TypeOK, PCs, disks, locals
  <2>5. HandOK'
    BY <1>1 DEF DropIndex, GoTo, TypeInv, TypeOK, HandOK, locals
  <2>6. QED
    BY <2>4, <2>5 DEF TypeInv
<1>2. CASE AwaitDrop(r)
  <2>1. tasks' \in Seq(AddTask \cup DropTask)
    <3>1. tasks \in Seq(Tasks)
      BY DEF TypeInv, TypeOK, Tasks
    <3>2. tasks' = tasks \/ tasks' = Detached(tasks, r)
      BY <1>2 DEF AwaitDrop
    <3>3. QED
      BY <3>1, <3>2, DetachedProperties DEF Tasks
  <2>2. faults' \in 0..MaxFaults
    BY <1>2, ConstantsAssumption DEF AwaitDrop, Fault, TypeInv, TypeOK
  <2>3. TypeOK'
    BY <1>2, <2>1, <2>2 DEF AwaitDrop, GoTo, TypeInv, TypeOK, PCs, disks, locals
  <2>4. HandOK'
    BY <1>2 DEF AwaitDrop, GoTo, TypeInv, TypeOK, HandOK, locals
  <2>5. QED
    BY <2>3, <2>4 DEF TypeInv
<1>3. CASE DropRows(r)
  <2>1. rows' \in [DocIds -> Row \cup {NoRow}]
    BY <1>3 DEF DropRows, TypeInv, TypeOK
  <2>2. faults' \in 0..MaxFaults
    BY <1>3, ConstantsAssumption DEF DropRows, Fault, TypeInv, TypeOK
  <2>3. /\ todo' \in [Runs -> SUBSET Files]
        /\ stats' \in [Runs -> Stats]
        /\ pc' = [pc EXCEPT ![r] = "next"]
    BY <1>3, WalkType DEF DropRows
  <2>4. UNCHANGED <<disk, written, index, tasks, result, mode, file, text, mtime,
                    nextChunk, restarts>>
    BY <1>3 DEF DropRows, disks, meili
  <2>5. TypeOK'
    BY <2>1, <2>2, <2>3, <2>4 DEF TypeInv, TypeOK, PCs
  <2>6. HandOK'
    BY <2>3, <2>4 DEF TypeInv, TypeOK, HandOK
  <2>7. QED
    BY <2>5, <2>6 DEF TypeInv
<1>4. QED
  BY <1>1, <1>2, <1>3 DEF Wipe

LEMMA TypeFile ==
    ASSUME TypeInv, NEW r \in Runs, NEW f \in Files,
           SkipFile(r, f) \/ TakeFile(r, f) \/ FileVanished(r, f)
    PROVE  TypeInv'
<1>1. CASE SkipFile(r, f)
  <2>1. /\ stats' = [stats EXCEPT ![r].skipped = @ + 1]
        /\ todo' = [todo EXCEPT ![r] = @ \ {f}]
        /\ UNCHANGED <<disk, written, rows, index, tasks, result, pc, mode, file, text,
                       mtime, nextChunk, faults, restarts>>
    BY <1>1 DEF SkipFile, disks, meili
  <2>2. stats' \in [Runs -> Stats]
    BY <2>1, StatsStep DEF TypeInv, TypeOK
  <2>3. TypeOK'
    BY <2>1, <2>2 DEF TypeInv, TypeOK
  <2>4. HandOK'
    BY <2>1 DEF TypeInv, HandOK
  <2>5. QED
    BY <2>3, <2>4 DEF TypeInv
<1>2. CASE TakeFile(r, f)
  <2>1. TypeOK'
    BY <1>2 DEF TakeFile, GoTo, TypeInv, TypeOK, PCs, disks, meili
  <2>2. HandOK'
    BY <1>2 DEF TakeFile, GoTo, TypeInv, TypeOK, HandOK
  <2>3. QED
    BY <2>1, <2>2 DEF TypeInv
<1>3. CASE FileVanished(r, f)
  <2>1. TypeOK'
    BY <1>3, DropFileType
    DEF FileVanished, Abort, GoTo, TypeInv, TypeOK, PCs, NoStats, Stats, disks, meili
  <2>2. HandOK'
    BY <1>3, HandDropped DEF FileVanished, Abort, GoTo
  <2>3. QED
    BY <2>1, <2>2 DEF TypeInv
<1>4. QED
  BY <1>1, <1>2, <1>3

LEMMA BoundIsNatural == MaxVersion \in Nat
BY ConstantsAssumption

LEMMA TypeParse ==
    ASSUME TypeInv, NEW r \in Runs, ParseFails(r) \/ ReadText(r) \/ StatFile(r)
    PROVE  TypeInv'
<1>1. CASE ParseFails(r)
  <2>1. /\ pc' = [pc EXCEPT ![r] = "next"]
        /\ stats' = [stats EXCEPT ![r].failed = @ + 1]
        /\ DropFile(r)
        /\ UNCHANGED <<disk, written, rows, index, tasks, result, mode, todo, faults, restarts>>
    BY <1>1 DEF ParseFails, GoTo, disks, meili
  <2>2. stats' \in [Runs -> Stats]
    BY <2>1, StatsStep DEF TypeInv, TypeOK
  <2>3. TypeOK'
    BY <2>1, <2>2, DropFileType DEF TypeInv, TypeOK, PCs
  <2>4. HandOK'
    BY <2>1, HandDropped
  <2>5. QED
    BY <2>3, <2>4 DEF TypeInv
<1>2. CASE ReadText(r)
  <2>1. disk[file[r]] \in Versions
    BY <1>2, ConstantsAssumption DEF ReadText, TypeInv, TypeOK, HandOK, Versions
  <2>2. TypeOK'
    BY <1>2, <2>1, BoundIsNatural
    DEF ReadText, GoTo, TypeInv, TypeOK, PCs, Versions, disks, meili
  <2>3. HandOK'
    BY <1>2, <2>1 DEF ReadText, GoTo, TypeInv, TypeOK, HandOK
  <2>4. QED
    BY <2>2, <2>3 DEF TypeInv
<1>3. CASE StatFile(r)
  <2>1. disk[file[r]] \in Versions
    BY <1>3, ConstantsAssumption DEF StatFile, TypeInv, TypeOK, HandOK, Versions
  <2>2. TypeOK'
    BY <1>3, <2>1, BoundIsNatural
    DEF StatFile, GoTo, TypeInv, TypeOK, PCs, Versions, disks, meili
  <2>3. HandOK'
    BY <1>3, <2>1 DEF StatFile, GoTo, TypeInv, TypeOK, HandOK
  <2>4. QED
    BY <2>2, <2>3 DEF TypeInv
<1>4. QED
  BY <1>1, <1>2, <1>3

LEMMA TypeFlush ==
    ASSUME TypeInv, NEW r \in Runs, Flush(r)
    PROVE  TypeInv'
<1> USE DEF TypeInv
<1>t. tasks \in Seq(Tasks) /\ Tasks = AddTask \cup DropTask
  BY DEF TypeOK, Tasks
<1>1. CASE SendBatch(r)
  <2>1. [op |-> "add", ws |-> RunWorkspace[r], file |-> file[r], ver |-> text[r], run |-> r]
          \in AddTask
    BY <1>1, ConstantsAssumption DEF SendBatch, HandOK, AddTask
  <2>2. tasks' \in Seq(AddTask \cup DropTask)
    BY <1>1, <1>t, <2>1 DEF SendBatch
  <2>3. TypeOK'
    BY <1>1, <2>2 DEF SendBatch, GoTo, TypeOK, PCs, disks, locals
  <2>4. HandOK'
    BY <1>1 DEF SendBatch, GoTo, TypeOK, HandOK, locals
  <2>5. QED
    BY <2>3, <2>4
<1>2. CASE BatchFails(r)
  <2>1. text[r] \in Versions /\ ChunkCount[text[r]] \in Nat
    BY <1>2, ConstantsAssumption DEF BatchFails, HandOK
  <2>2. stats' \in [Runs -> Stats]
    BY <1>2, <2>1, StatsStep DEF BatchFails, TypeOK
  <2>3. tasks' \in Seq(AddTask \cup DropTask)
    BY <1>2, <1>t, DetachedProperties DEF BatchFails
  <2>4. faults' \in 0..MaxFaults
    BY <1>2, ConstantsAssumption DEF BatchFails, Fault, TypeOK
  <2>5. /\ pc' = [pc EXCEPT ![r] = "next"]
        /\ result' = [result EXCEPT ![r] = "none"]
        /\ DropFile(r)
        /\ UNCHANGED <<disk, written, rows, index, mode, todo, restarts>>
    BY <1>2 DEF BatchFails, GoTo, disks
  <2>6. TypeOK'
    BY <2>2, <2>3, <2>4, <2>5, DropFileType DEF TypeOK, PCs
  <2>7. HandOK'
    BY <2>5, HandDropped
  <2>8. QED
    BY <2>6, <2>7
<1>3. CASE BatchAccepted(r)
  <2>1. text[r] \in Versions /\ 1 \in 1..ChunkCount[text[r]]
    BY <1>3, ConstantsAssumption DEF BatchAccepted, HandOK
  <2>2. TypeOK'
    BY <1>3 DEF BatchAccepted, GoTo, TypeOK, PCs, disks
  <2>3. HandOK'
    BY <1>3, <2>1 DEF BatchAccepted, GoTo, TypeOK, HandOK
  <2>4. QED
    BY <2>2, <2>3
<1>4. CASE RegisterChunk(r)
  <2> DEFINE d == DocId(file[r], text[r], nextChunk[r])
  <2>1. /\ file[r] \in Files /\ text[r] \in Versions /\ mtime[r] \in Versions
        /\ nextChunk[r] \in 1..ChunkCount[text[r]]
        /\ ChunkCount[text[r]] \in Nat
    BY <1>4, ConstantsAssumption DEF RegisterChunk, HandOK
  <2>2. d \in DocIds
    BY <2>1, DocIdType
  <2> HIDE DEF d
  <2>3. Upserted(r, d) \in Row
    <3>1. rows[d] = NoRow \/ rows[d] \in Row
      BY <2>2 DEF TypeOK
    <3>2. (IF rows[d] = NoRow THEN RunWorkspace[r] ELSE rows[d].ws) \in Workspaces
      BY <3>1, ConstantsAssumption DEF Row
    <3>3. QED
      BY <2>1, <3>2 DEF Upserted, Row
  <2>4. rows' = [rows EXCEPT ![d] = Upserted(r, d)]
    BY <1>4 DEF RegisterChunk, d
  <2>5. rows' \in [DocIds -> Row \cup {NoRow}]
    BY <2>2, <2>3, <2>4 DEF TypeOK
  <2>6. stats' \in [Runs -> Stats]
    <3>1. \/ stats' = [stats EXCEPT ![r].indexed = @ + 1, ![r].filesIndexed = @ + 1]
          \/ stats' = [stats EXCEPT ![r].indexed = @ + 1]
      BY <1>4 DEF RegisterChunk
    <3>2. stats \in [Runs -> Stats]
      BY DEF TypeOK
    <3>3. /\ [stats EXCEPT ![r].indexed = @ + 1, ![r].filesIndexed = @ + 1] \in [Runs -> Stats]
          /\ [stats EXCEPT ![r].indexed = @ + 1] \in [Runs -> Stats]
      <4>1. 1 \in Nat
        OBVIOUS
      <4>2. QED
        BY <3>2, <4>1, StatsStep, Zenon
    <3>4. QED
      BY <3>1, <3>3
  <2>7. UNCHANGED <<disk, written, index, tasks, result, mode, todo, faults, restarts>>
    BY <1>4 DEF RegisterChunk, disks, meili
  <2>8. CASE nextChunk[r] = ChunkCount[text[r]]
    <3>1. pc' = [pc EXCEPT ![r] = "next"] /\ DropFile(r)
      BY <1>4, <2>8 DEF RegisterChunk, GoTo
    <3>2. TypeOK'
      BY <2>5, <2>6, <2>7, <3>1, DropFileType DEF TypeOK, PCs
    <3>3. HandOK'
      BY <3>1, HandDropped
    <3>4. QED
      BY <3>2, <3>3
  <2>9. CASE nextChunk[r] # ChunkCount[text[r]]
    <3>1. /\ nextChunk' = [nextChunk EXCEPT ![r] = @ + 1]
          /\ UNCHANGED <<pc, file, text, mtime>>
      BY <1>4, <2>9 DEF RegisterChunk
    <3>2. nextChunk[r] + 1 \in 1..ChunkCount[text[r]]
      BY <2>1, <2>9
    <3>3. TypeOK'
      BY <2>1, <2>5, <2>6, <2>7, <3>1 DEF TypeOK
    <3>4. HandOK'
      BY <3>1, <3>2 DEF TypeOK, HandOK
    <3>5. QED
      BY <3>3, <3>4
  <2>10. QED
    BY <2>8, <2>9
<1>5. CASE RegisterFails(r)
  <2>1. faults' \in 0..MaxFaults
    BY <1>5, ConstantsAssumption DEF RegisterFails, Fault, TypeOK
  <2>2. TypeOK'
    BY <1>5, <2>1, DropFileType
    DEF RegisterFails, Abort, GoTo, TypeOK, PCs, NoStats, Stats, disks, meili
  <2>3. HandOK'
    BY <1>5, HandDropped DEF RegisterFails, Abort, GoTo
  <2>4. QED
    BY <2>2, <2>3
<1>6. QED
  BY <1>1, <1>2, <1>3, <1>4, <1>5 DEF Flush

\* What Meilisearch does to an index keeps it a map from ids to versions.
LEMMA AppliedType ==
    ASSUME TypeOK, NEW t \in Tasks
    PROVE  Applied(t) \in [Workspaces -> [DocIds -> 0..MaxVersion]]
<1>1. t.ws \in Workspaces /\ (t.op = "add" => t.ver \in Versions)
  BY DEF Tasks, AddTask, DropTask
<1>2. 0 \in 0..MaxVersion /\ Versions \subseteq 0..MaxVersion
  BY ConstantsAssumption DEF Versions
<1>3. index[t.ws] \in [DocIds -> 0..MaxVersion]
  BY <1>1 DEF TypeOK
<1>4. [d \in DocIds |->
         CASE t.op = "drop"                                 -> 0
           [] t.op = "add" /\ d \in ChunkIds(t.file, t.ver) -> t.ver
           [] OTHER                                         -> index[t.ws][d]]
        \in [DocIds -> 0..MaxVersion]
  BY <1>1, <1>2, <1>3
<1>5. QED
  BY <1>4 DEF Applied, TypeOK

LEMMA TypeMeili ==
    ASSUME TypeInv, MeiliSucceeds \/ MeiliFails
    PROVE  TypeInv'
<1> USE DEF TypeInv
<1>1. tasks \in Seq(Tasks) /\ tasks # <<>> /\ Tasks = AddTask \cup DropTask
  BY DEF TypeOK, Tasks, MeiliSucceeds, MeiliFails
<1>2. Head(tasks) \in Tasks /\ Tail(tasks) \in Seq(Tasks)
  BY <1>1, HeadTailProperties
<1>3. Head(tasks).run \in Runs \cup {NoRun}
  BY <1>2 DEF Tasks, AddTask, DropTask
<1>4. index' \in [Workspaces -> [DocIds -> 0..MaxVersion]]
  BY <1>2, AppliedType DEF MeiliSucceeds, MeiliFails, TypeOK
<1>5. /\ tasks' \in Seq(AddTask \cup DropTask)
      /\ result' \in [Runs -> {"none", "enqueued", "succeeded", "failed"}]
  BY <1>1, <1>2, <1>3 DEF MeiliSucceeds, MeiliFails, Answer, TypeOK
<1>6. faults' \in 0..MaxFaults
  BY ConstantsAssumption DEF MeiliSucceeds, MeiliFails, Fault, TypeOK
<1>7. UNCHANGED <<disk, written, rows, pc, mode, todo, file, text, mtime, nextChunk, stats, restarts>>
  BY DEF MeiliSucceeds, MeiliFails, disks, locals
<1>8. TypeOK'
  BY <1>4, <1>5, <1>6, <1>7 DEF TypeOK
<1>9. HandOK'
  BY <1>7 DEF HandOK
<1>10. QED
  BY <1>8, <1>9

LEMMA TypeRestart ==
    ASSUME TypeInv, Restart
    PROVE  TypeInv'
<1>1. tasks' \in Seq(AddTask \cup DropTask)
  BY DetachAllProperties DEF Restart, TypeInv, TypeOK, Tasks
<1>2. 0 \in 0..MaxVersion /\ restarts' \in 0..MaxRestarts
  BY ConstantsAssumption DEF Restart, TypeInv, TypeOK
<1>3. TypeOK'
  BY <1>1, <1>2 DEF Restart, TypeInv, TypeOK, PCs, NoStats, Stats, disks
<1>4. HandOK'
  BY DEF Restart, HandOK
<1>5. QED
  BY <1>3, <1>4 DEF TypeInv

\* Every step, of every process, preserves the types.
LEMMA TypeStep == TypeInv /\ [Next]_vars => TypeInv'
<1> SUFFICES ASSUME TypeInv, [Next]_vars PROVE TypeInv'
  OBVIOUS
<1>1. ASSUME NEW f \in Files, Write(f) PROVE TypeInv'
  <2>1. TypeOK'
    BY <1>1, ConstantsAssumption DEF Write, TypeInv, TypeOK, meili, locals
  <2>2. HandOK'
    BY <1>1 DEF Write, TypeInv, HandOK, locals
  <2>3. QED
    BY <2>1, <2>2 DEF TypeInv
<1>2. ASSUME NEW f \in Files, Remove(f) PROVE TypeInv'
  <2>1. TypeOK'
    BY <1>2, ConstantsAssumption DEF Remove, TypeInv, TypeOK, meili, locals
  <2>2. HandOK'
    BY <1>2 DEF Remove, TypeInv, HandOK, locals
  <2>3. QED
    BY <2>1, <2>2 DEF TypeInv
<1>3. ASSUME NEW r \in Runs, NEW m \in Modes, Start(r, m) PROVE TypeInv'
  BY <1>3, TypeStart
<1>4. ASSUME NEW r \in Runs, Wipe(r) PROVE TypeInv'
  BY <1>4, TypeWipe
<1>5. ASSUME NEW r \in Runs, Handle(r) PROVE TypeInv'
  <2>1. CASE Finish(r)
    <3>1. TypeOK'
      BY <2>1 DEF Finish, GoTo, TypeInv, TypeOK, PCs, NoStats, Stats, disks, meili
    <3>2. HandOK'
      BY <2>1 DEF Finish, GoTo, TypeInv, TypeOK, HandOK
    <3>3. QED
      BY <3>1, <3>2 DEF TypeInv
  <2>2. QED
    BY <1>5, <2>1, TypeFile, TypeParse, TypeFlush DEF Handle
<1>6. CASE UNCHANGED vars
  BY <1>6 DEF vars, disks, meili, locals, TypeInv, TypeOK, HandOK
<1>7. QED
  BY <1>1, <1>2, <1>3, <1>4, <1>5, <1>6, TypeMeili, TypeRestart DEF Next, RunStep

\* Every variable stays in its type, and a run that is past a label holds what
\* the later labels use.
THEOREM TypeCorrect == Spec => []TypeOK
<1>1. TypeInv => TypeOK
  BY DEF TypeInv
<1>2. QED
  BY <1>1, TypeInit, TypeStep, PTL DEF Spec

-----------------------------------------------------------------------------
(* RegisteredIsSearchable, for delta and force runs.  The property speaks  *)
(* of rows and indexes only; that it survives a registration needs what a  *)
(* run may conclude from the answer it got, and that needs the link between *)
(* a queued task and the run that polls it.                                *)

\* Nothing drops documents.
NothingDropped ==
    /\ \A r \in Runs : pc[r] \notin {"dropIndex", "awaitDrop", "dropRows"}
    /\ \A i \in 1..Len(tasks) : tasks[i].op = "add"

\* A task somebody polls is the batch of the file that run has in hand, not
\* answered yet, and the only one of that run.
PolledTasks ==
    \A i \in 1..Len(tasks) : tasks[i].run \in Runs =>
        /\ pc[tasks[i].run] = "await"
        /\ result[tasks[i].run] = "enqueued"
        /\ tasks[i].ws = RunWorkspace[tasks[i].run]
        /\ tasks[i].file = file[tasks[i].run]
        /\ tasks[i].ver = text[tasks[i].run]
        /\ \A j \in 1..Len(tasks) : tasks[j].run = tasks[i].run => j = i

\* Run r knows that its batch was applied.
Confirmed(r) ==
    \/ pc[r] = "await" /\ result[r] = "succeeded"
    \/ pc[r] = "register"

ConfirmedIsSearchable ==
    \A r \in Runs : Confirmed(r) =>
        \A d \in ChunkIds(file[r], text[r]) : index[RunWorkspace[r]][d] # 0

SearchInv ==
    /\ NothingDropped
    /\ PolledTasks
    /\ ConfirmedIsSearchable
    /\ RegisteredIsSearchable

LEMMA SearchInit == Init => SearchInv
BY DEF Init, SearchInv, NothingDropped, PolledTasks, ConfirmedIsSearchable, Confirmed,
       RegisteredIsSearchable

\* Steps that touch neither store nor the queue, of runs that wait for
\* nothing and confirm nothing.
LEMMA QuietStep ==
    ASSUME TypeInv, SearchInv, UNCHANGED <<rows, index, tasks, result>>,
           \A q \in Runs :
              \/ pc'[q] = pc[q] /\ file'[q] = file[q] /\ text'[q] = text[q]
              \/ /\ pc[q] # "await"
                 /\ pc'[q] \in {"idle", "next", "parse", "stat", "flush"}
    PROVE  SearchInv'
<1> USE DEF SearchInv
<1>1. NothingDropped'
  BY DEF NothingDropped
<1>2. PolledTasks'
  BY DEF PolledTasks
<1>3. ConfirmedIsSearchable'
  BY DEF ConfirmedIsSearchable, Confirmed
<1>4. RegisteredIsSearchable'
  BY DEF RegisteredIsSearchable
<1>5. QED
  BY <1>1, <1>2, <1>3, <1>4

\* A run that moves to a label where it waits for nothing.
LEMMA QuietRun ==
    ASSUME TypeInv, SearchInv, NEW r \in Runs, UNCHANGED <<rows, index, tasks, result>>,
           pc[r] # "await",
           NEW label \in {"idle", "next", "parse", "stat", "flush"}, GoTo(r, label),
           \A q \in Runs \ {r} : file'[q] = file[q] /\ text'[q] = text[q]
    PROVE  SearchInv'
<1>1. pc'[r] = label /\ \A q \in Runs \ {r} : pc'[q] = pc[q]
  BY DEF GoTo, TypeInv, TypeOK
<1>2. QED
  BY <1>1, QuietStep

LEMMA QuietHandle ==
    ASSUME TypeInv, SearchInv, NEW r \in Runs, NEW f \in Files,
           \/ SkipFile(r, f) \/ TakeFile(r, f) \/ FileVanished(r, f)
           \/ ParseFails(r) \/ ReadText(r) \/ StatFile(r)
           \/ RegisterFails(r) \/ Finish(r)
    PROVE  SearchInv'
<1>1. CASE SkipFile(r, f)
  BY <1>1, QuietStep DEF SkipFile, meili
<1>2. CASE TakeFile(r, f)
  BY <1>2, QuietRun DEF TakeFile, meili, TypeInv, TypeOK
<1>3. CASE FileVanished(r, f)
  BY <1>3, QuietRun, DropFileType DEF FileVanished, Abort, meili
<1>4. CASE ParseFails(r)
  BY <1>4, QuietRun, DropFileType DEF ParseFails, meili
<1>5. CASE ReadText(r)
  BY <1>5, QuietRun DEF ReadText, meili, TypeInv, TypeOK
<1>6. CASE StatFile(r)
  BY <1>6, QuietRun DEF StatFile, meili
<1>7. CASE RegisterFails(r)
  BY <1>7, QuietRun, DropFileType DEF RegisterFails, Abort, meili
<1>8. CASE Finish(r)
  BY <1>8, QuietRun DEF Finish, meili
<1>9. QED
  BY <1>1, <1>2, <1>3, <1>4, <1>5, <1>6, <1>7, <1>8

\* The run that sends a batch becomes the one that polls it.
LEMMA SearchSend ==
    ASSUME TypeInv, SearchInv, NEW r \in Runs, SendBatch(r)
    PROVE  SearchInv'
<1> DEFINE t == [op |-> "add", ws |-> RunWorkspace[r], file |-> file[r], ver |-> text[r], run |-> r]
<1> USE DEF SearchInv
<1>1. tasks \in Seq(Tasks) /\ Len(tasks) \in Nat
  BY LenProperties DEF TypeInv, TypeOK, Tasks
<1>2. t \in Tasks /\ t.op = "add" /\ t.run = r /\ t.ws = RunWorkspace[r]
      /\ t.file = file[r] /\ t.ver = text[r]
  BY ConstantsAssumption DEF SendBatch, TypeInv, HandOK, Tasks, AddTask
<1>3. tasks' = Append(tasks, t)
  BY DEF SendBatch
<1> HIDE DEF t
<1>4. /\ Len(tasks') = Len(tasks) + 1
      /\ tasks'[Len(tasks) + 1] = t
      /\ \A i \in 1..Len(tasks) : tasks'[i] = tasks[i]
  BY <1>1, <1>2, <1>3
<1>5. /\ pc[r] = "flush"
      /\ pc'[r] = "await" /\ \A q \in Runs \ {r} : pc'[q] = pc[q]
      /\ result'[r] = "enqueued" /\ \A q \in Runs \ {r} : result'[q] = result[q]
      /\ UNCHANGED <<rows, index, file, text>>
  BY DEF SendBatch, GoTo, TypeInv, TypeOK, locals
<1>6. NothingDropped'
  BY <1>1, <1>2, <1>4, <1>5 DEF NothingDropped
<1>7. \A i \in 1..Len(tasks) : tasks[i].run # r
  BY <1>5 DEF PolledTasks
<1>8. PolledTasks'
  <2> SUFFICES ASSUME NEW i \in 1..Len(tasks'), tasks'[i].run \in Runs
               PROVE  /\ pc'[tasks'[i].run] = "await"
                      /\ result'[tasks'[i].run] = "enqueued"
                      /\ tasks'[i].ws = RunWorkspace[tasks'[i].run]
                      /\ tasks'[i].file = file[tasks'[i].run]
                      /\ tasks'[i].ver = text[tasks'[i].run]
                      /\ \A j \in 1..Len(tasks') : tasks'[j].run = tasks'[i].run => j = i
    BY <1>5 DEF PolledTasks
  <2>1. CASE i = Len(tasks) + 1
    BY <1>1, <1>2, <1>4, <1>5, <1>7, <2>1
  <2>2. CASE i \in 1..Len(tasks)
    <3>1. tasks'[i] = tasks[i] /\ tasks[i].run # r
      BY <1>4, <1>7, <2>2
    <3>2. /\ pc'[tasks[i].run] = "await"
          /\ result'[tasks[i].run] = "enqueued"
          /\ tasks[i].ws = RunWorkspace[tasks[i].run]
          /\ tasks[i].file = file[tasks[i].run]
          /\ tasks[i].ver = text[tasks[i].run]
          /\ \A j \in 1..Len(tasks) : tasks[j].run = tasks[i].run => j = i
      BY <1>5, <2>2, <3>1 DEF PolledTasks
    <3>3. \A j \in 1..Len(tasks') : tasks'[j].run = tasks[i].run => j \in 1..Len(tasks)
      BY <1>1, <1>2, <1>4, <3>1
    <3>4. QED
      BY <1>4, <3>1, <3>2, <3>3
  <2>3. QED
    BY <1>1, <1>4, <2>1, <2>2
<1>9. ConfirmedIsSearchable'
  BY <1>5 DEF ConfirmedIsSearchable, Confirmed
<1>10. RegisteredIsSearchable'
  BY <1>5 DEF RegisteredIsSearchable
<1>11. QED
  BY <1>6, <1>8, <1>9, <1>10

\* A batch that is given up stays queued, but nobody will register its chunks.
LEMMA SearchFails ==
    ASSUME TypeInv, SearchInv, NEW r \in Runs, BatchFails(r)
    PROVE  SearchInv'
<1> USE DEF SearchInv
<1>1. tasks \in Seq(Tasks) /\ Len(tasks) \in Nat
  BY LenProperties DEF TypeInv, TypeOK, Tasks
<1>2. /\ pc'[r] = "next" /\ \A q \in Runs \ {r} : pc'[q] = pc[q]
      /\ \A q \in Runs \ {r} : /\ result'[q] = result[q]
                              /\ file'[q] = file[q] /\ text'[q] = text[q]
      /\ UNCHANGED <<rows, index>>
  BY DropFileType DEF BatchFails, GoTo, TypeInv, TypeOK
<1>3. /\ Len(tasks') = Len(tasks)
      /\ \A i \in 1..Len(tasks) :
            \/ tasks'[i] = tasks[i] /\ tasks[i].run # r
            \/ tasks'[i] = [tasks[i] EXCEPT !.run = NoRun]
  <2>1. CASE tasks' = Detached(tasks, r)
    BY <1>1, <2>1, DetachedProperties
  <2>2. CASE tasks' = tasks /\ (pc[r] # "await" \/ result[r] # "enqueued")
    BY <1>1, <2>2 DEF PolledTasks
  <2>3. QED
    BY <2>1, <2>2 DEF BatchFails
<1>4. \A i \in 1..Len(tasks) :
        /\ tasks'[i].op = tasks[i].op
        /\ tasks'[i].run # r
        /\ tasks'[i].run \in Runs => tasks'[i] = tasks[i]
  <2>1. \A t \in Tasks : /\ [t EXCEPT !.run = NoRun].op = t.op
                        /\ [t EXCEPT !.run = NoRun].run = NoRun
    BY DEF Tasks, AddTask, DropTask
  <2>2. NoRun \notin Runs /\ \A i \in 1..Len(tasks) : tasks[i] \in Tasks
    BY <1>1, ConstantsAssumption
  <2>3. QED
    BY <1>3, <2>1, <2>2
<1>5. NothingDropped'
  BY <1>2, <1>3, <1>4 DEF NothingDropped
<1>6. PolledTasks'
  BY <1>2, <1>3, <1>4 DEF PolledTasks
<1>7. ConfirmedIsSearchable'
  BY <1>2 DEF ConfirmedIsSearchable, Confirmed
<1>8. RegisteredIsSearchable'
  BY <1>2 DEF RegisteredIsSearchable
<1>9. QED
  BY <1>5, <1>6, <1>7, <1>8

\* The answer "succeeded" is what registering relies on.
LEMMA SearchAccepted ==
    ASSUME TypeInv, SearchInv, NEW r \in Runs, BatchAccepted(r)
    PROVE  SearchInv'
<1> USE DEF SearchInv
<1>1. /\ pc[r] = "await" /\ result[r] = "succeeded"
      /\ pc'[r] = "register" /\ \A q \in Runs \ {r} : pc'[q] = pc[q]
      /\ \A q \in Runs \ {r} : result'[q] = result[q]
      /\ UNCHANGED <<rows, index, tasks, file, text>>
  BY DEF BatchAccepted, GoTo, TypeInv, TypeOK
<1>2. NothingDropped'
  BY <1>1 DEF NothingDropped
<1>3. \A i \in 1..Len(tasks) : tasks[i].run # r
  BY <1>1 DEF PolledTasks
<1>4. PolledTasks'
  BY <1>1, <1>3 DEF PolledTasks
<1>5. ConfirmedIsSearchable'
  BY <1>1 DEF ConfirmedIsSearchable, Confirmed
<1>6. RegisteredIsSearchable'
  BY <1>1 DEF RegisteredIsSearchable
<1>7. QED
  BY <1>2, <1>4, <1>5, <1>6

\* A row is written for a chunk of the confirmed batch; if another workspace
\* owns the row, the row was searchable there before.
LEMMA SearchRegister ==
    ASSUME TypeInv, SearchInv, NEW r \in Runs, RegisterChunk(r)
    PROVE  SearchInv'
<1> DEFINE d == DocId(file[r], text[r], nextChunk[r])
<1> USE DEF SearchInv
<1>1. /\ pc[r] = "register" /\ file[r] \in Files /\ text[r] \in Versions
      /\ nextChunk[r] \in 1..ChunkCount[text[r]]
  BY DEF RegisterChunk, TypeInv, HandOK
<1>2. d \in DocIds /\ d \in ChunkIds(file[r], text[r])
  BY <1>1, DocIdType DEF ChunkIds
<1>3. rows' = [rows EXCEPT ![d] = Upserted(r, d)] /\ UNCHANGED <<index, tasks, result>>
  BY DEF RegisterChunk, meili
<1> HIDE DEF d
<1>4. RegisteredIsSearchable'
  <2>1. index[RunWorkspace[r]][d] # 0
    BY <1>1, <1>2 DEF ConfirmedIsSearchable, Confirmed
  <2>2. index[Upserted(r, d).ws][d] # 0
    BY <1>2, <2>1 DEF Upserted, RegisteredIsSearchable
  <2>3. QED
    BY <1>2, <1>3, <2>2 DEF RegisteredIsSearchable, TypeInv, TypeOK
<1>5. /\ \A q \in Runs \ {r} : /\ pc'[q] = pc[q] /\ file'[q] = file[q] /\ text'[q] = text[q]
      /\ \/ pc'[r] = pc[r] /\ file'[r] = file[r] /\ text'[r] = text[r]
         \/ pc'[r] = "next"
  BY DropFileType DEF RegisterChunk, GoTo, TypeInv, TypeOK
<1>6. NothingDropped'
  BY <1>3, <1>5 DEF NothingDropped
<1>7. PolledTasks'
  BY <1>1, <1>3, <1>5 DEF PolledTasks
<1>8. ConfirmedIsSearchable'
  BY <1>3, <1>5 DEF ConfirmedIsSearchable, Confirmed
<1>9. QED
  BY <1>4, <1>6, <1>7, <1>8

\* Applying a batch sets its own chunks and takes no document away.
LEMMA AppliedBatch ==
    ASSUME TypeOK, NEW t \in AddTask
    PROVE  /\ \A d \in ChunkIds(t.file, t.ver) : Applied(t)[t.ws][d] # 0
           /\ \A w \in Workspaces : \A d \in DocIds :
                 index[w][d] # 0 => Applied(t)[w][d] # 0
<1>1. /\ t.op = "add" /\ t.ws \in Workspaces /\ t.file \in Files
      /\ t.ver \in Versions /\ t.ver # 0
  BY ConstantsAssumption DEF AddTask, Versions
<1>2. ChunkIds(t.file, t.ver) \subseteq DocIds
  BY <1>1, ChunkIdsType
<1>3. Applied(t)[t.ws] = [d \in DocIds |->
         IF d \in ChunkIds(t.file, t.ver) THEN t.ver ELSE index[t.ws][d]]
  BY <1>1 DEF Applied, TypeOK
<1>4. \A w \in Workspaces \ {t.ws} : Applied(t)[w] = index[w]
  BY <1>1 DEF Applied, TypeOK
<1>5. QED
  BY <1>1, <1>2, <1>3, <1>4

LEMMA SearchMeili ==
    ASSUME TypeInv, SearchInv, MeiliSucceeds \/ MeiliFails
    PROVE  SearchInv'
<1> DEFINE t == Head(tasks)
<1> USE DEF SearchInv
<1>1. /\ tasks \in Seq(Tasks) /\ Len(tasks) \in Nat \ {0}
      /\ t = tasks[1] /\ t \in AddTask
  <2>1. tasks \in Seq(Tasks) /\ tasks # <<>>
    BY DEF TypeInv, TypeOK, Tasks, MeiliSucceeds, MeiliFails
  <2>2. Len(tasks) \in Nat \ {0} /\ t = tasks[1]
    BY <2>1, EmptySeq, LenProperties, HeadTailProperties
  <2>3. tasks[1].op = "add" /\ tasks[1] \in Tasks
    BY <2>1, <2>2 DEF NothingDropped
  <2>4. QED
    BY <2>1, <2>2, <2>3 DEF Tasks, DropTask
<1>2. tasks' = Tail(tasks)
  BY DEF MeiliSucceeds, MeiliFails, Answer
<1>3. /\ Len(tasks') = Len(tasks) - 1
      /\ \A i \in 1..Len(tasks') : i + 1 \in 1..Len(tasks) /\ tasks'[i] = tasks[i + 1]
  BY <1>1, <1>2, HeadTailProperties
<1>4. /\ UNCHANGED <<rows, pc, file, text>>
      /\ \A w \in Workspaces : \A d \in DocIds : index[w][d] # 0 => index'[w][d] # 0
  BY <1>1, AppliedBatch DEF MeiliSucceeds, MeiliFails, locals, TypeInv
<1>5. \A q \in Runs : q # t.run => result'[q] = result[q]
  BY DEF MeiliSucceeds, MeiliFails, Answer, TypeInv, TypeOK
<1> HIDE DEF t
<1>6. t.run \in Runs => /\ pc[t.run] = "await"
                        /\ t.ws = RunWorkspace[t.run] /\ t.file = file[t.run]
                        /\ t.ver = text[t.run]
  BY <1>1 DEF PolledTasks
<1>7. \A i \in 1..Len(tasks') : tasks'[i].run \in Runs => tasks'[i].run # t.run
  BY <1>1, <1>3 DEF PolledTasks
<1>8. NothingDropped'
  BY <1>3, <1>4 DEF NothingDropped
<1>9. PolledTasks'
  <2> SUFFICES ASSUME NEW i \in 1..Len(tasks'), tasks'[i].run \in Runs
               PROVE  /\ pc'[tasks'[i].run] = "await"
                      /\ result'[tasks'[i].run] = "enqueued"
                      /\ tasks'[i].ws = RunWorkspace[tasks'[i].run]
                      /\ tasks'[i].file = file'[tasks'[i].run]
                      /\ tasks'[i].ver = text'[tasks'[i].run]
                      /\ \A j \in 1..Len(tasks') : tasks'[j].run = tasks'[i].run => j = i
    BY DEF PolledTasks
  <2>1. i + 1 \in 1..Len(tasks) /\ tasks'[i] = tasks[i + 1]
    BY <1>3
  <2>2. \A j \in 1..Len(tasks') : tasks'[j].run = tasks'[i].run => j + 1 = i + 1
    BY <1>3, <2>1 DEF PolledTasks
  <2>3. QED
    BY <1>3, <1>4, <1>5, <1>7, <2>1, <2>2 DEF PolledTasks
<1>10. ConfirmedIsSearchable'
  <2> SUFFICES ASSUME NEW q \in Runs, Confirmed(q)',
                      NEW d \in ChunkIds(file[q], text[q])
               PROVE  index'[RunWorkspace[q]][d] # 0
    BY <1>4 DEF ConfirmedIsSearchable, ChunkIds, DocId
  <2>1. /\ file[q] \in Files /\ text[q] \in Versions
        /\ RunWorkspace[q] \in Workspaces /\ d \in DocIds
    BY <1>4, ChunkIdsType, ConstantsAssumption DEF Confirmed, TypeInv, HandOK
  <2>2. CASE Confirmed(q)
    BY <1>4, <2>1, <2>2 DEF ConfirmedIsSearchable
  <2>3. CASE ~Confirmed(q)
    <3>1. q = t.run /\ result'[q] = "succeeded"
      BY <1>4, <1>5, <2>3 DEF Confirmed
    <3>2. MeiliSucceeds
      <4>1. t.run # NoRun
        BY <3>1, ConstantsAssumption
      <4>2. ASSUME MeiliFails PROVE result'[q] = "failed"
        BY <3>1, <4>1, <4>2 DEF MeiliFails, Answer, TypeInv, TypeOK, t
      <4>3. QED
        BY <3>1, <4>2
    <3>3. index' = Applied(t)
      BY <3>2 DEF MeiliSucceeds, t
    <3>4. \A e \in ChunkIds(t.file, t.ver) : index'[t.ws][e] # 0
      BY <1>1, <3>3, AppliedBatch DEF TypeInv
    <3>5. QED
      BY <1>6, <3>1, <3>4
  <2>4. QED
    BY <2>2, <2>3
<1>11. RegisteredIsSearchable'
  BY <1>4 DEF RegisteredIsSearchable, TypeInv, TypeOK, Row
<1>12. QED
  BY <1>8, <1>9, <1>10, <1>11

LEMMA SearchRestart ==
    ASSUME TypeInv, SearchInv, Restart
    PROVE  SearchInv'
<1> USE DEF SearchInv
<1>1. tasks \in Seq(Tasks)
  BY DEF TypeInv, TypeOK, Tasks
<1>2. /\ Len(tasks') = Len(tasks)
      /\ \A i \in 1..Len(tasks) : tasks'[i] = [tasks[i] EXCEPT !.run = NoRun]
  BY <1>1, DetachAllProperties DEF Restart
<1>3. \A t \in Tasks : /\ [t EXCEPT !.run = NoRun].op = t.op
                       /\ [t EXCEPT !.run = NoRun].run = NoRun
  BY DEF Tasks, AddTask, DropTask
<1>4. \A i \in 1..Len(tasks) : tasks[i] \in Tasks
  BY <1>1
<1>5. \A i \in 1..Len(tasks') : tasks'[i].op = "add" /\ tasks'[i].run \notin Runs
  <2>1. NoRun \notin Runs /\ \A i \in 1..Len(tasks) : tasks[i].op = "add"
    BY ConstantsAssumption DEF NothingDropped
  <2>2. \A i \in 1..Len(tasks) : tasks'[i].op = tasks[i].op /\ tasks'[i].run = NoRun
    BY <1>2, <1>3, <1>4
  <2>3. QED
    BY <1>2, <2>1, <2>2
<1>6. NothingDropped' /\ PolledTasks'
  BY <1>5 DEF Restart, NothingDropped, PolledTasks
<1>7. ConfirmedIsSearchable' /\ RegisteredIsSearchable'
  BY DEF Restart, ConfirmedIsSearchable, Confirmed, RegisteredIsSearchable
<1>8. QED
  BY <1>6, <1>7

LEMMA SearchStep ==
    ASSUME "wipe" \notin Modes
    PROVE  TypeInv /\ SearchInv /\ [Next]_vars => SearchInv'
<1> SUFFICES ASSUME TypeInv, SearchInv, [Next]_vars PROVE SearchInv'
  OBVIOUS
<1>1. ASSUME NEW f \in Files, Write(f) \/ Remove(f) PROVE SearchInv'
  BY <1>1, QuietStep DEF Write, Remove, meili, locals
<1>2. ASSUME NEW r \in Runs, NEW m \in Modes, Start(r, m) PROVE SearchInv'
  <2>1. m # "wipe"
    OBVIOUS
  <2>2. QED
    BY <1>2, <2>1, QuietRun DEF Start, Walk, meili
<1>3. ASSUME NEW r \in Runs, Wipe(r) PROVE SearchInv'
  BY <1>3 DEF Wipe, DropIndex, AwaitDrop, DropRows, SearchInv, NothingDropped
<1>4. ASSUME NEW r \in Runs, Handle(r) PROVE SearchInv'
  <2>1. CASE Flush(r)
    <3>1. CASE RegisterFails(r)
      <4>1. pc[r] = "register" /\ file[r] \in Files
        BY <3>1 DEF RegisterFails, TypeInv, HandOK
      <4>2. QED
        BY <3>1, <4>1, QuietHandle
    <3>2. QED
      BY <2>1, <3>1, SearchSend, SearchFails, SearchAccepted, SearchRegister DEF Flush
  <2>2. CASE ParseFails(r) \/ ReadText(r) \/ StatFile(r)
    <3>1. file[r] \in Files
      BY <2>2 DEF ParseFails, ReadText, StatFile, TypeInv, HandOK
    <3>2. QED
      BY <2>2, <3>1, QuietHandle
  <2>3. CASE Finish(r)
    BY <2>3, QuietRun DEF Finish, meili
  <2>4. QED
    BY <1>4, <2>1, <2>2, <2>3, QuietHandle DEF Handle
<1>5. CASE UNCHANGED vars
  BY <1>5, QuietStep DEF vars, meili, locals
<1>6. QED
  BY <1>1, <1>2, <1>3, <1>4, <1>5, SearchMeili, SearchRestart DEF Next, RunStep

\* Without wipes, whatever is registered can be found: for any number of
\* files, workspaces and concurrent runs, with failures, crashes and batches
\* that are applied after they were given up.
THEOREM RegisteredSearchable ==
    ASSUME "wipe" \notin Modes
    PROVE  Spec => []RegisteredIsSearchable
<1>1. Init => TypeInv /\ SearchInv
  BY TypeInit, SearchInit
<1>2. (TypeInv /\ SearchInv) /\ [Next]_vars => (TypeInv /\ SearchInv)'
  BY TypeStep, SearchStep
<1>3. TypeInv /\ SearchInv => RegisteredIsSearchable
  BY DEF SearchInv
<1>4. QED
  BY <1>1, <1>2, <1>3, PTL DEF Spec

-----------------------------------------------------------------------------
(* Whose a row, a document and a task are.  The remaining properties need  *)
(* that nobody else works on the files of a run.                           *)

FilesOf(r) == Dirs[RunWorkspace[r]]

\* No two runs ingest the same file: one source of syncs per workspace.
SoleRun == \A r, s \in Runs : r # s => FilesOf(r) \cap FilesOf(s) = {}

\* A file of a workspace some run ingests.
Owned(f, w) == f \in Dirs[w] /\ \E r \in Runs : w = RunWorkspace[r]

HandsOwn == \A r \in Runs : todo[r] \subseteq FilesOf(r) /\ file[r] \in FilesOf(r) \cup {NoFile}

TasksOwn ==
    \A i \in 1..Len(tasks) : tasks[i].op = "add" => Owned(tasks[i].file, tasks[i].ws)

RowsOwn == \A d \in DocIds : rows[d] # NoRow => Owned(d[1], rows[d].ws)

IndexOwn == \A w \in Workspaces : \A d \in DocIds : index[w][d] # 0 => Owned(d[1], w)

OwnInv == HandsOwn /\ TasksOwn /\ RowsOwn /\ IndexOwn

\* Rows are written by registrations and wipes only, ...
LEMMA RowsStep ==
    [Next]_vars => \/ UNCHANGED rows
                   \/ \E r \in Runs : DropRows(r) \/ RegisterChunk(r)
<1> SUFFICES ASSUME [Next]_vars, \A r \in Runs : ~DropRows(r) /\ ~RegisterChunk(r)
             PROVE  UNCHANGED rows
  OBVIOUS
<1>1. ASSUME NEW r \in Runs, NEW m \in Modes, Start(r, m) PROVE UNCHANGED rows
  BY <1>1 DEF Start
<1>2. ASSUME NEW r \in Runs, RunStep(r) PROVE UNCHANGED rows
  BY <1>2 DEF RunStep, Wipe, DropIndex, AwaitDrop, Handle, SkipFile, TakeFile, FileVanished,
              ParseFails, ReadText, StatFile, Flush, SendBatch, BatchFails, BatchAccepted,
              RegisterFails, Finish
<1>3. QED
  BY <1>1, <1>2 DEF Next, Write, Remove, MeiliSucceeds, MeiliFails, Restart, vars

\* ... documents by Meilisearch only.
LEMMA IndexStep == [Next]_vars => UNCHANGED index \/ MeiliSucceeds
<1> SUFFICES ASSUME [Next]_vars, ~MeiliSucceeds
             PROVE  UNCHANGED index
  OBVIOUS
<1>1. ASSUME NEW r \in Runs, NEW m \in Modes, Start(r, m) PROVE UNCHANGED index
  BY <1>1 DEF Start, meili
<1>2. ASSUME NEW r \in Runs, RunStep(r) PROVE UNCHANGED index
  BY <1>2 DEF RunStep, Wipe, DropIndex, AwaitDrop, DropRows, Handle, SkipFile, TakeFile,
              FileVanished, ParseFails, ReadText, StatFile, Flush, SendBatch, BatchFails,
              BatchAccepted, RegisterChunk, RegisterFails, Finish, meili
<1>3. QED
  BY <1>1, <1>2 DEF Next, Write, Remove, MeiliFails, Restart, vars, meili

\* Two tasks with the same work, whoever polls them.
SameWork(t, u) ==
    t.op = u.op /\ t.ws = u.ws /\ (t.op = "add" => t.file = u.file /\ t.ver = u.ver)

\* The queue without its first k tasks.
Shifted(k) ==
    /\ Len(tasks') = Len(tasks) - k
    /\ \A i \in 1..Len(tasks') : /\ i + k \in 1..Len(tasks)
                                /\ SameWork(tasks'[i], tasks[i + k])

\* A step appends one task, or lets the first go, or leaves the work as it is.
LEMMA QueueStep ==
    ASSUME TypeInv, [Next]_vars
    PROVE  \/ \E r \in Runs : SendBatch(r)
           \/ \E r \in Runs : DropIndex(r) /\ tasks' # tasks
           \/ Shifted(0)
           \/ Shifted(1) /\ tasks # <<>>
<1>t. tasks \in Seq(Tasks) /\ Len(tasks) \in Nat /\ \A i \in 1..Len(tasks) : tasks[i] \in Tasks
  BY LenProperties DEF TypeInv, TypeOK, Tasks
<1>s. \A t \in Tasks : SameWork(t, t) /\ SameWork([t EXCEPT !.run = NoRun], t)
  BY DEF Tasks, AddTask, DropTask, SameWork
<1>0. ASSUME Len(tasks') = Len(tasks), \A i \in 1..Len(tasks) : SameWork(tasks'[i], tasks[i])
      PROVE  Shifted(0)
  <2>1. Len(tasks') = Len(tasks) - 0 /\ \A i \in 1..Len(tasks) : i + 0 = i
    BY <1>t, <1>0
  <2>2. QED
    BY <1>0, <2>1 DEF Shifted
<1>1. ASSUME UNCHANGED tasks PROVE Shifted(0)
  BY <1>t, <1>s, <1>0, <1>1
<1>2. ASSUME NEW r \in Runs, tasks' = Detached(tasks, r) PROVE Shifted(0)
  <2>1. /\ Len(tasks') = Len(tasks)
        /\ \A i \in 1..Len(tasks) : \/ tasks'[i] = tasks[i]
                                    \/ tasks'[i] = [tasks[i] EXCEPT !.run = NoRun]
    BY <1>t, <1>2, DetachedProperties
  <2>2. \A i \in 1..Len(tasks) : SameWork(tasks'[i], tasks[i])
    BY <1>t, <1>s, <2>1
  <2>3. QED
    BY <1>0, <2>1, <2>2
<1>3. ASSUME NEW r \in Runs, NEW m \in Modes, Start(r, m) PROVE UNCHANGED tasks
  BY <1>3 DEF Start, meili
<1>4. ASSUME NEW r \in Runs, RunStep(r)
      PROVE  SendBatch(r) \/ (DropIndex(r) /\ tasks' # tasks) \/ Shifted(0)
  <2>1. CASE Wipe(r)
    BY <1>1, <1>2, <2>1 DEF Wipe, AwaitDrop, DropRows, meili
  <2>2. CASE Flush(r)
    BY <1>1, <1>2, <2>2 DEF Flush, BatchFails, BatchAccepted, RegisterChunk, RegisterFails, meili
  <2>3. QED
    BY <1>1, <1>4, <2>1, <2>2 DEF RunStep, Handle, SkipFile, TakeFile, FileVanished, ParseFails,
       ReadText, StatFile, Finish, meili
<1>5. ASSUME MeiliSucceeds \/ MeiliFails PROVE Shifted(1) /\ tasks # <<>>
  <2>1. tasks # <<>> /\ tasks' = Tail(tasks)
    BY <1>5 DEF MeiliSucceeds, MeiliFails, Answer
  <2>2. Len(tasks') = Len(tasks) - 1
        /\ \A i \in 1..Len(tasks') : i + 1 \in 1..Len(tasks) /\ tasks'[i] = tasks[i + 1]
    BY <1>t, <2>1, HeadTailProperties
  <2>3. \A i \in 1..Len(tasks') : SameWork(tasks'[i], tasks[i + 1])
    BY <1>t, <1>s, <2>2
  <2>4. QED
    BY <2>1, <2>2, <2>3 DEF Shifted
<1>6. ASSUME Restart PROVE Shifted(0)
  <2>1. /\ Len(tasks') = Len(tasks)
        /\ \A i \in 1..Len(tasks) : tasks'[i] = [tasks[i] EXCEPT !.run = NoRun]
    BY <1>t, <1>6, DetachAllProperties DEF Restart
  <2>2. \A i \in 1..Len(tasks) : SameWork(tasks'[i], tasks[i])
    BY <1>t, <1>s, <2>1
  <2>3. QED
    BY <1>0, <2>1, <2>2
<1>7. QED
  BY <1>1, <1>3, <1>4, <1>5, <1>6 DEF Next, Write, Remove, meili, vars

\* The task a run appends.
LEMMA Appended ==
    ASSUME TypeInv, NEW r \in Runs, NEW t \in Tasks, tasks' = Append(tasks, t)
    PROVE  /\ Len(tasks') = Len(tasks) + 1 /\ Len(tasks) \in Nat
           /\ tasks'[Len(tasks) + 1] = t
           /\ \A i \in 1..Len(tasks) : tasks'[i] = tasks[i]
<1>1. tasks \in Seq(Tasks) /\ Len(tasks) \in Nat
  BY LenProperties DEF TypeInv, TypeOK, Tasks
<1>2. QED
  BY <1>1

LEMMA BatchSent ==
    ASSUME TypeInv, NEW r \in Runs, SendBatch(r)
    PROVE  /\ Len(tasks') = Len(tasks) + 1 /\ Len(tasks) \in Nat
           /\ tasks'[Len(tasks) + 1] = [op |-> "add", ws |-> RunWorkspace[r], file |-> file[r],
                                        ver |-> text[r], run |-> r]
           /\ \A i \in 1..Len(tasks) : tasks'[i] = tasks[i]
<1> DEFINE t == [op |-> "add", ws |-> RunWorkspace[r], file |-> file[r], ver |-> text[r], run |-> r]
<1>1. t \in Tasks
  BY ConstantsAssumption DEF SendBatch, TypeInv, HandOK, Tasks, AddTask
<1>2. tasks' = Append(tasks, t)
  BY DEF SendBatch
<1> HIDE DEF t
<1>3. /\ Len(tasks') = Len(tasks) + 1 /\ Len(tasks) \in Nat
      /\ tasks'[Len(tasks) + 1] = t
      /\ \A i \in 1..Len(tasks) : tasks'[i] = tasks[i]
  BY <1>1, <1>2, Appended
<1>4. QED
  BY <1>3 DEF t

LEMMA DropSent ==
    ASSUME TypeInv, NEW r \in Runs, DropIndex(r), tasks' # tasks
    PROVE  /\ Len(tasks') = Len(tasks) + 1 /\ Len(tasks) \in Nat
           /\ tasks'[Len(tasks) + 1] = [op |-> "drop", ws |-> RunWorkspace[r], run |-> r]
           /\ \A i \in 1..Len(tasks) : tasks'[i] = tasks[i]
<1> DEFINE t == [op |-> "drop", ws |-> RunWorkspace[r], run |-> r]
<1>1. t \in Tasks
  BY ConstantsAssumption DEF Tasks, DropTask
<1>2. tasks' = Append(tasks, t)
  BY DEF DropIndex
<1> HIDE DEF t
<1>3. /\ Len(tasks') = Len(tasks) + 1 /\ Len(tasks) \in Nat
      /\ tasks'[Len(tasks) + 1] = t
      /\ \A i \in 1..Len(tasks) : tasks'[i] = tasks[i]
  BY <1>1, <1>2, Appended
<1>4. QED
  BY <1>3 DEF t

\* The files a run walks over and takes are those of its workspace.
LEMMA HandsStep ==
    ASSUME TypeInv, HandsOwn, [Next]_vars
    PROVE  HandsOwn'
<1>1. ASSUME NEW r \in Runs, \A q \in Runs \ {r} : todo'[q] = todo[q] /\ file'[q] = file[q],
             todo'[r] \subseteq FilesOf(r), file'[r] \in FilesOf(r) \cup {NoFile}
      PROVE  HandsOwn'
  BY <1>1 DEF HandsOwn
<1>2. ASSUME UNCHANGED <<todo, file>> PROVE HandsOwn'
  BY <1>2 DEF HandsOwn
<1>3. ASSUME NEW r \in Runs, Walk(r), UNCHANGED file PROVE HandsOwn'
  BY <1>1, <1>3 DEF Walk, FilesOf, HandsOwn, TypeInv, TypeOK
<1>4. ASSUME NEW r \in Runs, DropFile(r), UNCHANGED todo PROVE HandsOwn'
  BY <1>1, <1>4 DEF DropFile, HandsOwn, TypeInv, TypeOK
<1>5. ASSUME NEW r \in Runs, Abort(r) PROVE HandsOwn'
  BY <1>1, <1>5 DEF Abort, DropFile, HandsOwn, TypeInv, TypeOK
<1>6. ASSUME NEW r \in Runs, NEW m \in Modes, Start(r, m) PROVE HandsOwn'
  BY <1>2, <1>3, <1>6 DEF Start
<1>7. ASSUME NEW r \in Runs, RunStep(r) PROVE HandsOwn'
  <2>1. CASE Wipe(r)
    BY <1>2, <1>3, <2>1 DEF Wipe, DropIndex, AwaitDrop, DropRows, locals
  <2>2. CASE Flush(r)
    BY <1>2, <1>4, <1>5, <2>2 DEF Flush, SendBatch, BatchFails, BatchAccepted, RegisterChunk,
       RegisterFails, locals
  <2>3. ASSUME NEW f \in Files, SkipFile(r, f) \/ TakeFile(r, f) PROVE HandsOwn'
    <3>1. f \in todo[r] /\ todo' = [todo EXCEPT ![r] = @ \ {f}]
          /\ (UNCHANGED file \/ file' = [file EXCEPT ![r] = f])
      BY <2>3 DEF SkipFile, TakeFile
    <3>2. /\ \A q \in Runs \ {r} : todo'[q] = todo[q] /\ file'[q] = file[q]
          /\ todo'[r] \subseteq todo[r] /\ file'[r] \in {file[r], f}
      BY <3>1 DEF TypeInv, TypeOK
    <3>3. QED
      BY <1>1, <3>1, <3>2 DEF HandsOwn
  <2>4. ASSUME NEW f \in Files, FileVanished(r, f) PROVE HandsOwn'
    BY <1>5, <2>4 DEF FileVanished
  <2>5. CASE ParseFails(r) \/ ReadText(r) \/ StatFile(r) \/ Finish(r)
    BY <1>2, <1>4, <2>5 DEF ParseFails, ReadText, StatFile, Finish
  <2>6. QED
    BY <1>7, <2>1, <2>2, <2>3, <2>4, <2>5 DEF RunStep, Handle
<1>8. CASE Restart
  BY <1>8 DEF Restart, HandsOwn
<1>9. QED
  BY <1>2, <1>6, <1>7, <1>8 DEF Next, Write, Remove, MeiliSucceeds, MeiliFails, locals, vars

LEMMA OwnInit == Init => OwnInv
<1>1. ASSUME Init PROVE Len(tasks) = 0
  BY <1>1, EmptySeq DEF Init
<1>2. QED
  BY <1>1 DEF Init, OwnInv, HandsOwn, TasksOwn, RowsOwn, IndexOwn

LEMMA TasksOwnStep ==
    ASSUME TypeInv, HandsOwn, TasksOwn, [Next]_vars
    PROVE  TasksOwn'
<1>1. ASSUME NEW r \in Runs, SendBatch(r) PROVE TasksOwn'
  <2>1. file[r] \in Files /\ file[r] # NoFile
    BY <1>1, ConstantsAssumption DEF SendBatch, TypeInv, HandOK
  <2>2. Owned(file[r], RunWorkspace[r])
    BY <2>1 DEF HandsOwn, FilesOf, Owned
  <2> DEFINE t == [op |-> "add", ws |-> RunWorkspace[r], file |-> file[r], ver |-> text[r], run |-> r]
  <2>3. t.file = file[r] /\ t.ws = RunWorkspace[r]
    OBVIOUS
  <2>4. /\ Len(tasks') = Len(tasks) + 1 /\ Len(tasks) \in Nat
        /\ tasks'[Len(tasks) + 1] = t
        /\ \A i \in 1..Len(tasks) : tasks'[i] = tasks[i]
    BY <1>1, BatchSent
  <2> HIDE DEF t
  <2>5. QED
    BY <2>2, <2>3, <2>4 DEF TasksOwn
<1>2. ASSUME NEW r \in Runs, DropIndex(r), tasks' # tasks PROVE TasksOwn'
  <2> DEFINE t == [op |-> "drop", ws |-> RunWorkspace[r], run |-> r]
  <2>1. t.op # "add"
    OBVIOUS
  <2>2. /\ Len(tasks') = Len(tasks) + 1 /\ Len(tasks) \in Nat
        /\ tasks'[Len(tasks) + 1] = t
        /\ \A i \in 1..Len(tasks) : tasks'[i] = tasks[i]
    BY <1>2, DropSent
  <2> HIDE DEF t
  <2>3. QED
    BY <2>1, <2>2 DEF TasksOwn
<1>3. ASSUME NEW k \in {0, 1}, Shifted(k) PROVE TasksOwn'
  BY <1>3 DEF Shifted, SameWork, TasksOwn
<1>4. QED
  BY <1>1, <1>2, <1>3, QueueStep

LEMMA RowsOwnStep ==
    ASSUME TypeInv, HandsOwn, RowsOwn, [Next]_vars
    PROVE  RowsOwn'
<1>1. CASE UNCHANGED rows
  BY <1>1 DEF RowsOwn
<1>2. ASSUME NEW r \in Runs, DropRows(r) PROVE RowsOwn'
  BY <1>2 DEF DropRows, RowsOwn, TypeInv, TypeOK
<1>3. ASSUME NEW r \in Runs, RegisterChunk(r) PROVE RowsOwn'
  <2> DEFINE d == DocId(file[r], text[r], nextChunk[r])
  <2>1. /\ file[r] \in Files /\ file[r] # NoFile /\ text[r] \in Versions
        /\ nextChunk[r] \in 1..ChunkCount[text[r]]
    BY <1>3, ConstantsAssumption DEF RegisterChunk, TypeInv, HandOK
  <2>2. d \in DocIds /\ d[1] = file[r]
    BY <2>1, DocIdType DEF DocId
  <2>3. Owned(file[r], RunWorkspace[r])
    BY <2>1 DEF HandsOwn, FilesOf, Owned
  <2>4. rows' = [rows EXCEPT ![d] = Upserted(r, d)]
    BY <1>3 DEF RegisterChunk
  <2> HIDE DEF d
  <2>5. Owned(d[1], Upserted(r, d).ws)
    BY <2>2, <2>3 DEF Upserted, RowsOwn
  <2>6. QED
    BY <2>2, <2>4, <2>5 DEF RowsOwn, TypeInv, TypeOK
<1>4. QED
  BY <1>1, <1>2, <1>3, RowsStep

\* What one task does to a document.
LEMMA AppliedAt ==
    ASSUME TypeOK, NEW t \in Tasks, NEW w \in Workspaces, NEW d \in DocIds
    PROVE  Applied(t)[w][d] = IF w # t.ws THEN index[w][d]
                              ELSE IF t.op = "drop" THEN 0
                              ELSE IF d \in ChunkIds(t.file, t.ver) THEN t.ver ELSE index[w][d]
<1>1. t.ws \in Workspaces /\ t.op \in {"add", "drop"}
  BY DEF Tasks, AddTask, DropTask
<1>2. CASE t.op = "drop"
  BY <1>1, <1>2 DEF Applied, TypeOK
<1>3. CASE t.op = "add"
  BY <1>1, <1>3 DEF Applied, TypeOK
<1>4. QED
  BY <1>1, <1>2, <1>3

LEMMA ChunksOfFile ==
    ASSUME NEW f, NEW v, NEW d \in ChunkIds(f, v)
    PROVE  d[1] = f
BY DEF ChunkIds, DocId

\* The task Meilisearch applies.
LEMMA Served ==
    ASSUME TypeInv, MeiliSucceeds \/ MeiliFails
    PROVE  /\ Head(tasks) \in Tasks /\ Head(tasks) = tasks[1] /\ Len(tasks) \in Nat \ {0}
           /\ tasks' = Tail(tasks) /\ Len(tasks') = Len(tasks) - 1
           /\ \A i \in 1..Len(tasks') : i + 1 \in 1..Len(tasks) /\ tasks'[i] = tasks[i + 1]
<1>1. tasks \in Seq(Tasks) /\ tasks # <<>> /\ tasks' = Tail(tasks)
  BY DEF TypeInv, TypeOK, Tasks, MeiliSucceeds, MeiliFails, Answer
<1>2. QED
  BY <1>1, EmptySeq, LenProperties, HeadTailProperties

LEMMA IndexOwnStep ==
    ASSUME TypeInv, TasksOwn, IndexOwn, [Next]_vars
    PROVE  IndexOwn'
<1>1. CASE UNCHANGED index
  BY <1>1 DEF IndexOwn
<1>2. CASE MeiliSucceeds
  <2> DEFINE t == Head(tasks)
  <2>1. t \in Tasks /\ t = tasks[1] /\ 1 \in 1..Len(tasks)
    BY <1>2, Served
  <2>2. index' = Applied(t)
    BY <1>2 DEF MeiliSucceeds
  <2> HIDE DEF t
  <2>3. t.op = "add" => Owned(t.file, t.ws)
    BY <2>1 DEF TasksOwn
  <2>4. ASSUME NEW w \in Workspaces, NEW d \in DocIds, Applied(t)[w][d] # 0
        PROVE  Owned(d[1], w)
    <3>1. CASE Applied(t)[w][d] = index[w][d]
      BY <2>4, <3>1 DEF IndexOwn
    <3>2. CASE w = t.ws /\ t.op # "drop" /\ d \in ChunkIds(t.file, t.ver)
      BY <2>1, <2>3, <3>2, ChunksOfFile DEF Tasks, AddTask, DropTask
    <3>3. QED
      BY <2>1, <2>4, <3>1, <3>2, AppliedAt DEF TypeInv
  <2>5. QED
    BY <2>2, <2>4 DEF IndexOwn
<1>3. QED
  BY <1>1, <1>2, IndexStep

LEMMA OwnStep == TypeInv /\ OwnInv /\ [Next]_vars => OwnInv'
BY HandsStep, TasksOwnStep, RowsOwnStep, IndexOwnStep DEF OwnInv

\* A run changes its own locals only.
LEMMA LocalStep ==
    ASSUME TypeInv, NEW r \in Runs, RunStep(r) \/ (\E m \in Modes : Start(r, m))
    PROVE  /\ \A q \in Runs \ {r} :
                 /\ pc'[q] = pc[q] /\ mode'[q] = mode[q] /\ todo'[q] = todo[q]
                 /\ file'[q] = file[q] /\ text'[q] = text[q] /\ mtime'[q] = mtime[q]
                 /\ nextChunk'[q] = nextChunk[q] /\ result'[q] = result[q]
           /\ UNCHANGED <<disk, written, index, restarts>>
<1> USE DEF TypeInv, TypeOK
<1>1. ASSUME NEW m \in Modes, Start(r, m)
      PROVE  /\ \A q \in Runs \ {r} : pc'[q] = pc[q] /\ mode'[q] = mode[q] /\ todo'[q] = todo[q]
             /\ UNCHANGED <<disk, written, index, restarts, file, text, mtime, nextChunk, result>>
  BY <1>1 DEF Start, Walk, GoTo, meili, disks
<1>2. CASE Wipe(r)
  BY <1>2 DEF Wipe, DropIndex, AwaitDrop, DropRows, Walk, GoTo, meili, disks, locals
<1>3. CASE Flush(r)
  <2>1. CASE SendBatch(r)
    BY <2>1 DEF SendBatch, GoTo, disks, locals
  <2>2. CASE BatchFails(r)
    BY <2>2 DEF BatchFails, GoTo, DropFile, disks
  <2>3. CASE BatchAccepted(r)
    BY <2>3 DEF BatchAccepted, GoTo, disks
  <2>4. CASE RegisterChunk(r)
    BY <2>4 DEF RegisterChunk, GoTo, DropFile, disks, meili
  <2>5. CASE RegisterFails(r)
    BY <2>5 DEF RegisterFails, Abort, GoTo, DropFile, disks, meili
  <2>6. QED
    BY <1>3, <2>1, <2>2, <2>3, <2>4, <2>5 DEF Flush
<1>4. ASSUME NEW f \in Files, SkipFile(r, f) \/ TakeFile(r, f) \/ FileVanished(r, f)
      PROVE  /\ \A q \in Runs \ {r} :
                   /\ pc'[q] = pc[q] /\ todo'[q] = todo[q]
                   /\ file'[q] = file[q] /\ text'[q] = text[q] /\ mtime'[q] = mtime[q]
                   /\ nextChunk'[q] = nextChunk[q]
             /\ UNCHANGED <<disk, written, index, restarts, mode, result>>
  BY <1>4 DEF SkipFile, TakeFile, FileVanished, Abort, GoTo, DropFile, meili, disks
<1>5. CASE ParseFails(r) \/ ReadText(r) \/ StatFile(r) \/ Finish(r)
  BY <1>5 DEF ParseFails, ReadText, StatFile, Finish, GoTo, DropFile, meili, disks
<1>6. QED
  BY <1>1, <1>2, <1>3, <1>4, <1>5 DEF RunStep, Handle

-----------------------------------------------------------------------------
(* TextMatchesMtime.  The modification time is taken after the text; that  *)
(* both belong together is decided at the label in between.                *)

TextInHand(r) ==
    /\ pc[r] = "stat" /\ disk[file[r]] # 0 => text[r] = disk[file[r]]
    /\ pc[r] \in {"flush", "await", "register"} => mtime[r] = text[r]

TextInv == TextMatchesMtime /\ \A r \in Runs : TextInHand(r)

LEMMA TextOfRun ==
    ASSUME TypeInv, NEW r \in Runs, TextInHand(r),
           RunStep(r) \/ (\E m \in Modes : Start(r, m))
    PROVE  TextInHand(r)'
<1> USE DEF TypeInv, TypeOK
<1>1. ASSUME pc'[r] \in {"idle", "next", "dropIndex", "awaitDrop", "dropRows", "parse"}
      PROVE  TextInHand(r)'
  BY <1>1 DEF TextInHand
<1>2. ASSUME NEW m \in Modes, Start(r, m) PROVE TextInHand(r)'
  BY <1>1, <1>2 DEF Start, Walk, GoTo
<1>3. CASE Wipe(r)
  BY <1>1, <1>3 DEF Wipe, DropIndex, AwaitDrop, DropRows, Walk, GoTo
<1>4. CASE SendBatch(r) \/ BatchAccepted(r)
  <2>1. /\ pc[r] \in {"flush", "await"} /\ pc'[r] \in {"await", "register"}
        /\ UNCHANGED <<text, mtime>>
    BY <1>4 DEF SendBatch, BatchAccepted, GoTo, locals
  <2>2. QED
    BY <2>1 DEF TextInHand
<1>5. CASE BatchFails(r) \/ RegisterFails(r) \/ ParseFails(r) \/ Finish(r)
  BY <1>1, <1>5 DEF BatchFails, RegisterFails, ParseFails, Finish, Abort, GoTo
<1>6. CASE RegisterChunk(r)
  <2>1. \/ pc'[r] = "next"
        \/ pc'[r] = "register" /\ pc[r] = "register" /\ UNCHANGED <<text, mtime>>
    BY <1>6 DEF RegisterChunk, GoTo
  <2>2. QED
    BY <1>1, <2>1 DEF TextInHand
<1>7. ASSUME NEW f \in Files, SkipFile(r, f) \/ TakeFile(r, f) \/ FileVanished(r, f)
      PROVE  TextInHand(r)'
  BY <1>1, <1>7 DEF SkipFile, TakeFile, FileVanished, Abort, GoTo
<1>8. CASE ReadText(r)
  <2>1. pc'[r] = "stat" /\ text'[r] = disk[file[r]] /\ UNCHANGED <<disk, file>>
    BY <1>8 DEF ReadText, GoTo, disks
  <2>2. QED
    BY <2>1 DEF TextInHand
<1>9. CASE StatFile(r)
  <2>1. /\ pc[r] = "stat" /\ pc'[r] = "flush" /\ disk[file[r]] # 0
        /\ mtime'[r] = disk[file[r]] /\ UNCHANGED text
    BY <1>9 DEF StatFile, GoTo
  <2>2. QED
    BY <2>1 DEF TextInHand
<1>10. QED
  BY <1>2, <1>3, <1>4, <1>5, <1>6, <1>7, <1>8, <1>9 DEF RunStep, Handle, Flush

LEMMA TextStep ==
    ASSUME QuietParse
    PROVE  TypeInv /\ TextInv /\ [Next]_vars => TextInv'
<1> SUFFICES ASSUME TypeInv, TextInv, [Next]_vars PROVE TextInv'
  OBVIOUS
<1>1. TextMatchesMtime'
  <2>1. CASE UNCHANGED rows
    BY <2>1 DEF TextInv, TextMatchesMtime
  <2>2. ASSUME NEW r \in Runs, DropRows(r) PROVE TextMatchesMtime'
    BY <2>2 DEF DropRows, TextInv, TextMatchesMtime, TypeInv, TypeOK
  <2>3. ASSUME NEW r \in Runs, RegisterChunk(r) PROVE TextMatchesMtime'
    <3> DEFINE d == DocId(file[r], text[r], nextChunk[r])
    <3>1. mtime[r] = text[r] /\ rows' = [rows EXCEPT ![d] = Upserted(r, d)]
      BY <2>3 DEF RegisterChunk, TextInv, TextInHand
    <3> HIDE DEF d
    <3>2. Upserted(r, d).mtime = Upserted(r, d).text
      BY <3>1 DEF Upserted
    <3>3. QED
      BY <3>1, <3>2 DEF TextInv, TextMatchesMtime, TypeInv, TypeOK
  <2>4. QED
    BY <2>1, <2>2, <2>3, RowsStep
<1>2. ASSUME NEW q \in Runs PROVE TextInHand(q)'
  <2>0. TextInHand(q)
    BY DEF TextInv
  <2>1. ASSUME UNCHANGED <<pc, file, text, mtime>>,
               pc[q] = "stat" => disk'[file[q]] \in {0, disk[file[q]]}
        PROVE  TextInHand(q)'
    BY <2>0, <2>1 DEF TextInHand
  <2>2. ASSUME NEW f \in Files, Write(f) \/ Remove(f) PROVE TextInHand(q)'
    <3>1. CASE pc[q] # "stat"
      BY <2>1, <2>2, <3>1 DEF Write, Remove, locals
    <3>2. CASE pc[q] = "stat"
      <4>1. file[q] \in Files
        BY <3>2 DEF TypeInv, HandOK
      <4>2. disk'[file[q]] \in {0, disk[file[q]]}
        BY <2>2, <3>2, <4>1 DEF Write, Remove, TypeInv, TypeOK
      <4>3. QED
        BY <2>1, <2>2, <4>2 DEF Write, Remove, locals
    <3>3. QED
      BY <3>1, <3>2
  <2>3. ASSUME NEW r \in Runs, RunStep(r) \/ (\E m \in Modes : Start(r, m)) PROVE TextInHand(q)'
    <3>1. CASE r = q
      BY <2>0, <2>3, <3>1, TextOfRun
    <3>2. CASE r # q
      BY <2>0, <2>3, <3>2, LocalStep DEF TextInHand
    <3>3. QED
      BY <3>1, <3>2
  <2>4. CASE MeiliSucceeds \/ MeiliFails \/ UNCHANGED vars
    BY <2>1, <2>4 DEF MeiliSucceeds, MeiliFails, vars, disks, locals
  <2>5. CASE Restart
    BY <2>5 DEF Restart, TextInHand
  <2>6. QED
    BY <2>2, <2>3, <2>4, <2>5 DEF Next
<1>3. QED
  BY <1>1, <1>2 DEF TextInv

\* As long as no write falls between a parser's read and its stat, the time in
\* a row is the time of the text it holds: for any number of runs of the same
\* workspace, failures, crashes and wipes.
THEOREM TimeIsOfText ==
    ASSUME QuietParse
    PROVE  Spec => []TextMatchesMtime
<1>1. Init => TypeInv /\ TextInv
  BY TypeInit DEF Init, TextInv, TextMatchesMtime, TextInHand
<1>2. (TypeInv /\ TextInv) /\ [Next]_vars => (TypeInv /\ TextInv)'
  BY TypeStep, TextStep
<1>3. TypeInv /\ TextInv => TextMatchesMtime
  BY DEF TextInv
<1>4. QED
  BY <1>1, <1>2, <1>3, PTL DEF Spec

-----------------------------------------------------------------------------
(* FreshRowIsSearchable, for delta and force runs.  A batch that was given   *)
(* up may be applied long after; that it cannot take a chunk back to an old  *)
(* text needs the order of the versions in the queue.                      *)

\* Nothing that is queued or indexed for file f is newer than version v.
NewestFor(f, v) ==
    /\ \A i \in 1..Len(tasks) : tasks[i].file = f => tasks[i].ver <= v
    /\ \A w \in Workspaces : \A d \in DocIds : d[1] = f => index[w][d] <= v

HasText(r) == pc[r] \in {"stat", "flush", "await", "register"}

DiskIsNewest == \A f \in Files : disk[f] \in {0, written[f]} /\ NewestFor(f, written[f])

TextIsNewest ==
    \A r \in Runs : HasText(r) => NewestFor(file[r], text[r]) /\ text[r] <= written[file[r]]

QueueInOrder ==
    \A i, j \in 1..Len(tasks) : i <= j /\ tasks[i].file = tasks[j].file => tasks[i].ver <= tasks[j].ver

IndexBehindQueue ==
    \A i \in 1..Len(tasks) : \A w \in Workspaces : \A d \in DocIds :
        d[1] = tasks[i].file => index[w][d] <= tasks[i].ver

RowsNotNewer == \A d \in DocIds : rows[d] # NoRow => rows[d].mtime <= written[d[1]]

ConfirmedIsCurrent ==
    \A r \in Runs : Confirmed(r) =>
        \A d \in ChunkIds(file[r], text[r]) : index[RunWorkspace[r]][d] = text[r]

FreshInv ==
    /\ DiskIsNewest /\ TextIsNewest
    /\ QueueInOrder /\ IndexBehindQueue
    /\ RowsNotNewer /\ ConfirmedIsCurrent
    /\ FreshRowIsSearchable

\* What the invariants before this one say of queue and index.
LEMMA AddTasks ==
    ASSUME TypeInv, NothingDropped
    PROVE  /\ Len(tasks) \in Nat
           /\ \A i \in 1..Len(tasks) :
                 /\ tasks[i] \in AddTask /\ tasks[i].ws \in Workspaces
                 /\ tasks[i].file \in Files /\ tasks[i].ver \in Versions /\ tasks[i].ver \in Nat
<1>1. tasks \in Seq(Tasks)
  BY DEF TypeInv, TypeOK, Tasks
<1>2. Len(tasks) \in Nat /\ \A i \in 1..Len(tasks) : tasks[i] \in Tasks /\ tasks[i].op = "add"
  BY <1>1, LenProperties DEF NothingDropped
<1>3. \A i \in 1..Len(tasks) : tasks[i] \in AddTask
  BY <1>2 DEF Tasks, DropTask
<1>4. QED
  BY <1>2, <1>3 DEF AddTask, Versions

\* What a step does to one document.
LEMMA DocumentStep ==
    ASSUME TypeInv, NothingDropped, [Next]_vars, NEW w \in Workspaces, NEW d \in DocIds
    PROVE  /\ index[w][d] \in Nat
           /\ \/ index'[w][d] = index[w][d]
              \/ /\ MeiliSucceeds /\ 1 \in 1..Len(tasks) /\ Head(tasks) = tasks[1]
                 /\ tasks[1].ws = w /\ d \in ChunkIds(tasks[1].file, tasks[1].ver)
                 /\ tasks[1].file = d[1] /\ index'[w][d] = tasks[1].ver
<1>1. index[w][d] \in Nat
  BY DEF TypeInv, TypeOK
<1>2. CASE MeiliSucceeds
  <2>1. Head(tasks) = tasks[1] /\ 1 \in 1..Len(tasks) /\ tasks[1] \in Tasks
    BY <1>2, Served
  <2>2. tasks[1].op = "add" /\ index' = Applied(tasks[1])
    BY <1>2, <2>1 DEF NothingDropped, MeiliSucceeds
  <2>3. QED
    BY <1>1, <1>2, <2>1, <2>2, AppliedAt, ChunksOfFile DEF TypeInv
<1>3. QED
  BY <1>1, <1>2, IndexStep

\* What a step does to the queue, when nothing is dropped.
LEMMA BatchesStep ==
    ASSUME TypeInv, NothingDropped, NothingDropped', [Next]_vars
    PROVE  \/ \E r \in Runs :
                 /\ SendBatch(r)
                 /\ Len(tasks') = Len(tasks) + 1
                 /\ tasks'[Len(tasks) + 1].file = file[r] /\ tasks'[Len(tasks) + 1].ver = text[r]
                 /\ \A i \in 1..Len(tasks) : tasks'[i] = tasks[i]
           \/ \E k \in {0, 1} :
                 /\ Len(tasks') = Len(tasks) - k
                 /\ \A i \in 1..Len(tasks') : /\ i + k \in 1..Len(tasks)
                                             /\ tasks'[i].file = tasks[i + k].file
                                             /\ tasks'[i].ver = tasks[i + k].ver
<1>1. ASSUME NEW r \in Runs, SendBatch(r)
      PROVE  /\ Len(tasks') = Len(tasks) + 1
             /\ tasks'[Len(tasks) + 1].file = file[r] /\ tasks'[Len(tasks) + 1].ver = text[r]
             /\ \A i \in 1..Len(tasks) : tasks'[i] = tasks[i]
  <2> DEFINE t == [op |-> "add", ws |-> RunWorkspace[r], file |-> file[r], ver |-> text[r], run |-> r]
  <2>1. t.file = file[r] /\ t.ver = text[r]
    OBVIOUS
  <2>2. /\ Len(tasks') = Len(tasks) + 1 /\ tasks'[Len(tasks) + 1] = t
        /\ \A i \in 1..Len(tasks) : tasks'[i] = tasks[i]
    BY <1>1, BatchSent
  <2> HIDE DEF t
  <2>3. QED
    BY <2>1, <2>2
<1>2. ASSUME NEW r \in Runs, DropIndex(r) PROVE FALSE
  BY <1>2 DEF DropIndex, NothingDropped
<1>3. ASSUME NEW k \in {0, 1}, Shifted(k)
      PROVE  /\ Len(tasks') = Len(tasks) - k
             /\ \A i \in 1..Len(tasks') : /\ i + k \in 1..Len(tasks)
                                         /\ tasks'[i].file = tasks[i + k].file
                                         /\ tasks'[i].ver = tasks[i + k].ver
  BY <1>3 DEF Shifted, SameWork, NothingDropped
<1>4. QED
  BY <1>1, <1>2, <1>3, QueueStep

LEMMA NewestStep ==
    ASSUME TypeInv, NothingDropped, NothingDropped', [Next]_vars, NEW f \in Files, NEW v \in Nat,
           NewestFor(f, v), \A r \in Runs : SendBatch(r) /\ file[r] = f => text[r] <= v
    PROVE  NewestFor(f, v)'
<1>1. \A i \in 1..Len(tasks') : tasks'[i].file = f => tasks'[i].ver <= v
  <2>1. ASSUME NEW r \in Runs, SendBatch(r), Len(tasks') = Len(tasks) + 1,
               tasks'[Len(tasks) + 1].file = file[r], tasks'[Len(tasks) + 1].ver = text[r],
               \A i \in 1..Len(tasks) : tasks'[i] = tasks[i],
               NEW i \in 1..Len(tasks'), tasks'[i].file = f
        PROVE  tasks'[i].ver <= v
    <3>1. i \in 1..Len(tasks) \/ i = Len(tasks) + 1
      BY <2>1, AddTasks
    <3>2. QED
      BY <2>1, <3>1 DEF NewestFor
  <2>2. QED
    BY <2>1, BatchesStep DEF NewestFor
<1>2. ASSUME NEW w \in Workspaces, NEW d \in DocIds, d[1] = f
      PROVE  index'[w][d] <= v
  BY <1>2, DocumentStep DEF NewestFor
<1>3. QED
  BY <1>1, <1>2 DEF NewestFor

\* A run that has a text has just read it, or had it before.
LEMMA TextKept ==
    ASSUME TypeInv, [Next]_vars, NEW q \in Runs, HasText(q)'
    PROVE  \/ ReadText(q)
           \/ HasText(q) /\ file'[q] = file[q] /\ text'[q] = text[q]
<1> USE DEF TypeInv, TypeOK, HasText
<1>1. ASSUME NEW r \in Runs, r # q, RunStep(r) \/ (\E m \in Modes : Start(r, m))
      PROVE  HasText(q) /\ file'[q] = file[q] /\ text'[q] = text[q]
  BY <1>1, LocalStep
<1>2. ASSUME NEW m \in Modes, Start(q, m) PROVE FALSE
  BY <1>2 DEF Start, Walk, GoTo
<1>3. ASSUME Wipe(q) PROVE FALSE
  BY <1>3 DEF Wipe, DropIndex, AwaitDrop, DropRows, Walk, GoTo
<1>4. CASE SendBatch(q) \/ BatchAccepted(q)
  BY <1>4 DEF SendBatch, BatchAccepted, locals
<1>5. ASSUME BatchFails(q) \/ RegisterFails(q) \/ ParseFails(q) \/ Finish(q) PROVE FALSE
  BY <1>5 DEF BatchFails, RegisterFails, ParseFails, Finish, Abort, GoTo
<1>6. CASE RegisterChunk(q)
  BY <1>6 DEF RegisterChunk, GoTo
<1>7. ASSUME NEW f \in Files, SkipFile(q, f) \/ TakeFile(q, f) \/ FileVanished(q, f) PROVE FALSE
  BY <1>7 DEF SkipFile, TakeFile, FileVanished, Abort, GoTo
<1>8. CASE StatFile(q)
  BY <1>8 DEF StatFile
<1>9. ASSUME Restart PROVE FALSE
  BY <1>9 DEF Restart
<1>10. CASE UNCHANGED <<pc, file, text>>
  BY <1>10
<1>11. QED
  BY <1>1, <1>2, <1>3, <1>4, <1>5, <1>6, <1>7, <1>8, <1>9, <1>10
  DEF Next, RunStep, Handle, Flush, Write, Remove, MeiliSucceeds, MeiliFails, locals, vars

\* A run whose batch is confirmed was in that state before, or its task has
\* just succeeded.
LEMMA ConfirmedStep ==
    ASSUME TypeInv, [Next]_vars, NEW q \in Runs, Confirmed(q)'
    PROVE  /\ file'[q] = file[q] /\ text'[q] = text[q] /\ HasText(q)
           /\ \/ Confirmed(q)
              \/ MeiliSucceeds /\ Head(tasks).run = q
<1> USE DEF TypeInv, TypeOK, Confirmed, HasText
<1>1. ASSUME NEW r \in Runs, r # q, RunStep(r) \/ (\E m \in Modes : Start(r, m))
      PROVE  Confirmed(q) /\ file'[q] = file[q] /\ text'[q] = text[q]
  BY <1>1, LocalStep
<1>2. ASSUME NEW m \in Modes, Start(q, m) PROVE FALSE
  BY <1>2 DEF Start, Walk, GoTo
<1>3. ASSUME Wipe(q) PROVE FALSE
  BY <1>3 DEF Wipe, DropIndex, AwaitDrop, DropRows, Walk, GoTo
<1>4. ASSUME SendBatch(q) PROVE FALSE
  BY <1>4 DEF SendBatch, GoTo
<1>5. CASE BatchAccepted(q)
  BY <1>5 DEF BatchAccepted
<1>6. ASSUME BatchFails(q) \/ RegisterFails(q) \/ ParseFails(q) \/ Finish(q) PROVE FALSE
  BY <1>6 DEF BatchFails, RegisterFails, ParseFails, Finish, Abort, GoTo
<1>7. CASE RegisterChunk(q)
  BY <1>7 DEF RegisterChunk, GoTo
<1>8. ASSUME NEW f \in Files, SkipFile(q, f) \/ TakeFile(q, f) \/ FileVanished(q, f) PROVE FALSE
  BY <1>8 DEF SkipFile, TakeFile, FileVanished, Abort, GoTo
<1>9. ASSUME ReadText(q) \/ StatFile(q) PROVE FALSE
  BY <1>9 DEF ReadText, StatFile, GoTo
<1>10. ASSUME Restart PROVE FALSE
  BY <1>10 DEF Restart
<1>11. CASE UNCHANGED <<pc, file, text, result>>
  BY <1>11
<1>12. CASE MeiliSucceeds \/ MeiliFails
  <2>1. /\ UNCHANGED <<pc, file, text>>
        /\ \/ result' = result
           \/ /\ MeiliSucceeds /\ result' = [result EXCEPT ![Head(tasks).run] = "succeeded"]
           \/ /\ MeiliFails /\ result' = [result EXCEPT ![Head(tasks).run] = "failed"]
    BY <1>12 DEF MeiliSucceeds, MeiliFails, Answer, locals
  <2>2. QED
    BY <2>1
<1>13. QED
  BY <1>1, <1>2, <1>3, <1>4, <1>5, <1>6, <1>7, <1>8, <1>9, <1>10, <1>11, <1>12
  DEF Next, RunStep, Handle, Flush, Write, Remove, meili, locals, vars

\* Two runs do not have the same file in hand.
LEMMA OneHand ==
    ASSUME SoleRun, HandsOwn, NEW r \in Runs, NEW q \in Runs, file[r] = file[q], file[r] \in Files
    PROVE  r = q
BY ConstantsAssumption DEF SoleRun, HandsOwn

\* Versions are numbered upwards, and a new one is not in any store yet.
LEMMA DiskStep ==
    ASSUME TypeInv, [Next]_vars, NEW f \in Files
    PROVE  /\ written[f] \in Nat /\ disk[f] \in Nat /\ written'[f] \in Nat
           /\ \/ disk'[f] \in {0, disk[f]} /\ written'[f] = written[f]
              \/ /\ written'[f] = written[f] + 1 /\ disk'[f] = written[f] + 1
                 /\ UNCHANGED <<rows, index, tasks>>
<1>1. written[f] \in Nat /\ disk[f] \in Nat
  BY ConstantsAssumption DEF TypeInv, TypeOK
<1>2. ASSUME UNCHANGED <<disk, written>> PROVE disk'[f] \in {0, disk[f]} /\ written'[f] = written[f]
  BY <1>2
<1>3. ASSUME NEW r \in Runs, RunStep(r) \/ (\E m \in Modes : Start(r, m))
      PROVE  UNCHANGED <<disk, written>>
  BY <1>3, LocalStep
<1>4. ASSUME NEW g \in Files, Remove(g) PROVE disk'[f] \in {0, disk[f]} /\ written'[f] = written[f]
  BY <1>4 DEF Remove, TypeInv, TypeOK
<1>5. ASSUME NEW g \in Files, Write(g)
      PROVE  \/ disk'[f] \in {0, disk[f]} /\ written'[f] = written[f]
             \/ /\ written'[f] = written[f] + 1 /\ disk'[f] = written[f] + 1
                /\ UNCHANGED <<rows, index, tasks>>
  BY <1>5 DEF Write, TypeInv, TypeOK, meili
<1>6. QED
  BY <1>1, <1>2, <1>3, <1>4, <1>5 DEF Next, MeiliSucceeds, MeiliFails, Restart, vars, disks

LEMMA NewestUp ==
    ASSUME TypeInv, NothingDropped, NEW f \in Files, NEW v \in Nat, NEW u \in Nat, v <= u,
           NewestFor(f, v)
    PROVE  NewestFor(f, u)
<1>1. \A w \in Workspaces : \A d \in DocIds : index[w][d] \in Nat
  BY DEF TypeInv, TypeOK
<1>2. QED
  BY <1>1, AddTasks DEF NewestFor

LEMMA DiskNewestStep ==
    ASSUME TypeInv, NothingDropped, NothingDropped', FreshInv, [Next]_vars
    PROVE  DiskIsNewest'
<1> USE DEF FreshInv
<1> SUFFICES ASSUME NEW f \in Files, NEW v, v = written'[f]
             PROVE  disk'[f] \in {0, v} /\ NewestFor(f, v)'
  BY DEF DiskIsNewest, NewestFor
<1>1. written[f] \in Nat /\ v \in Nat /\ written[f] <= v /\ disk'[f] \in {0, v}
  BY DiskStep DEF DiskIsNewest
<1>2. NewestFor(f, v)
  BY <1>1, NewestUp DEF DiskIsNewest
<1>3. ASSUME NEW r \in Runs, SendBatch(r), file[r] = f PROVE text[r] <= v
  <2>1. HasText(r) /\ text[r] \in Nat
    BY <1>3, ConstantsAssumption DEF SendBatch, HasText, TypeInv, TypeOK
  <2>2. QED
    BY <1>1, <1>3, <2>1 DEF TextIsNewest
<1>4. QED
  BY <1>1, <1>2, <1>3, NewestStep

LEMMA TextNewestStep ==
    ASSUME SoleRun, TypeInv, HandsOwn, NothingDropped, NothingDropped', FreshInv, [Next]_vars
    PROVE  TextIsNewest'
<1> USE DEF FreshInv
<1> SUFFICES ASSUME NEW q \in Runs, HasText(q)'
             PROVE  NewestFor(file[q], text[q])' /\ text'[q] <= written'[file'[q]]
  BY DEF TextIsNewest
<1>1. CASE ReadText(q)
  <2> DEFINE f == file[q]
             v == written[f]
  <2>1. /\ f \in Files /\ disk[f] # 0 /\ pc[q] = "parse" /\ file' = file
        /\ text'[q] = disk[f] /\ UNCHANGED written
    BY <1>1 DEF ReadText, TypeInv, TypeOK, HandOK, disks
  <2>2. v \in Nat /\ text'[q] = v /\ NewestFor(f, v)
    BY <2>1, DiskStep DEF DiskIsNewest
  <2>3. ASSUME NEW r \in Runs, SendBatch(r), file[r] = f PROVE FALSE
    BY <2>1, <2>3, OneHand DEF SendBatch
  <2> HIDE DEF f, v
  <2>4. NewestFor(f, v)'
    <3>1. v' = v /\ f' = f
      BY <2>1 DEF f, v
    <3>2. QED
      BY <2>1, <2>2, <2>3, <3>1, NewestStep DEF NewestFor
  <2>5. f' = file'[q] /\ v' = text'[q] /\ v' = written'[file'[q]]
    BY <2>1, <2>2 DEF f, v
  <2>6. QED
    BY <2>2, <2>4, <2>5 DEF NewestFor
<1>2. CASE HasText(q) /\ file'[q] = file[q] /\ text'[q] = text[q]
  <2>1. file[q] \in Files /\ text[q] \in Nat
    BY <1>2, ConstantsAssumption DEF HasText, TypeInv, TypeOK, HandOK
  <2>2. NewestFor(file[q], text[q]) /\ text[q] <= written[file[q]]
    BY <1>2 DEF TextIsNewest
  <2>3. ASSUME NEW r \in Runs, SendBatch(r), file[r] = file[q] PROVE text[r] <= text[q]
    BY <2>1, <2>3, OneHand
  <2> DEFINE f == file[q]
             v == text[q]
  <2>4. f' = f /\ v' = v
    BY <1>2
  <2>5. f \in Files /\ v \in Nat /\ NewestFor(f, v)
        /\ \A r \in Runs : SendBatch(r) /\ file[r] = f => text[r] <= v
    BY <2>1, <2>2, <2>3
  <2> HIDE DEF f, v
  <2>6. NewestFor(f, v)'
    BY <2>4, <2>5, NewestStep DEF NewestFor
  <2>7. NewestFor(file[q], text[q])'
    BY <2>6 DEF f, v
  <2>8. text'[q] <= written'[file'[q]]
    BY <1>2, <2>1, <2>2, DiskStep
  <2>9. QED
    BY <2>7, <2>8
<1>3. QED
  BY <1>1, <1>2, TextKept

LEMMA QueueOrderStep ==
    ASSUME TypeInv, NothingDropped, NothingDropped', FreshInv, [Next]_vars
    PROVE  QueueInOrder'
<1> USE DEF FreshInv
<1> SUFFICES ASSUME NEW i \in 1..Len(tasks'), NEW j \in 1..Len(tasks'), i <= j,
                    tasks'[i].file = tasks'[j].file
             PROVE  tasks'[i].ver <= tasks'[j].ver
  BY DEF QueueInOrder
<1>1. ASSUME NEW r \in Runs, SendBatch(r), Len(tasks') = Len(tasks) + 1,
             tasks'[Len(tasks) + 1].file = file[r], tasks'[Len(tasks) + 1].ver = text[r],
             \A k \in 1..Len(tasks) : tasks'[k] = tasks[k]
      PROVE  tasks'[i].ver <= tasks'[j].ver
  <2>1. HasText(r) /\ text[r] \in Nat
    BY <1>1, ConstantsAssumption DEF SendBatch, HasText, TypeInv, TypeOK
  <2>2. CASE j \in 1..Len(tasks)
    <3>1. i \in 1..Len(tasks)
      BY <2>2, AddTasks
    <3>2. QED
      BY <1>1, <2>2, <3>1 DEF QueueInOrder
  <2>3. CASE j = Len(tasks) + 1 /\ i \in 1..Len(tasks)
    BY <1>1, <2>1, <2>3 DEF TextIsNewest, NewestFor
  <2>4. CASE i = Len(tasks) + 1 /\ j = Len(tasks) + 1
    BY <1>1, <2>1, <2>4
  <2>5. QED
    BY <1>1, <2>2, <2>3, <2>4, AddTasks
<1>2. ASSUME NEW k \in {0, 1},
             \A n \in 1..Len(tasks') : /\ n + k \in 1..Len(tasks)
                                       /\ tasks'[n].file = tasks[n + k].file
                                       /\ tasks'[n].ver = tasks[n + k].ver
      PROVE  tasks'[i].ver <= tasks'[j].ver
  <2>1. i + k <= j + k
    OBVIOUS
  <2>2. QED
    BY <1>2, <2>1 DEF QueueInOrder
<1>3. QED
  BY <1>1, <1>2, BatchesStep

LEMMA IndexBehindStep ==
    ASSUME TypeInv, NothingDropped, NothingDropped', FreshInv, [Next]_vars
    PROVE  IndexBehindQueue'
<1> USE DEF FreshInv
<1> SUFFICES ASSUME NEW i \in 1..Len(tasks'), NEW w \in Workspaces, NEW d \in DocIds,
                    d[1] = tasks'[i].file
             PROVE  index'[w][d] <= tasks'[i].ver
  BY DEF IndexBehindQueue
<1>1. CASE index'[w][d] = index[w][d]
  <2>1. ASSUME NEW r \in Runs, SendBatch(r), Len(tasks') = Len(tasks) + 1,
               tasks'[Len(tasks) + 1].file = file[r], tasks'[Len(tasks) + 1].ver = text[r],
               \A k \in 1..Len(tasks) : tasks'[k] = tasks[k]
        PROVE  index'[w][d] <= tasks'[i].ver
    <3>1. HasText(r)
      BY <2>1 DEF SendBatch, HasText
    <3>2. i \in 1..Len(tasks) \/ i = Len(tasks) + 1
      BY <2>1, AddTasks
    <3>3. QED
      BY <1>1, <2>1, <3>1, <3>2 DEF TextIsNewest, NewestFor, IndexBehindQueue
  <2>2. QED
    BY <1>1, <2>1, BatchesStep DEF IndexBehindQueue
<1>2. CASE MeiliSucceeds /\ 1 \in 1..Len(tasks) /\ tasks[1].file = d[1] /\ index'[w][d] = tasks[1].ver
  <2>1. i + 1 \in 1..Len(tasks) /\ tasks'[i] = tasks[i + 1] /\ 1 <= i + 1
    BY <1>2, Served
  <2>2. QED
    BY <1>2, <2>1 DEF QueueInOrder
<1>3. QED
  BY <1>1, <1>2, DocumentStep

LEMMA RowsNotNewerStep ==
    ASSUME TypeInv, TextInv, NothingDropped, FreshInv, [Next]_vars
    PROVE  RowsNotNewer'
<1> USE DEF FreshInv
<1> SUFFICES ASSUME NEW d \in DocIds, rows'[d] # NoRow
             PROVE  rows'[d].mtime <= written'[d[1]]
  BY DEF RowsNotNewer
<1>1. d[1] \in Files
  BY DEF DocIds
<1>2. written[d[1]] \in Nat /\ written'[d[1]] \in Nat /\ written[d[1]] <= written'[d[1]]
  BY <1>1, DiskStep
<1>3. CASE rows'[d] = rows[d]
  <2>1. rows[d].mtime \in Nat
    BY <1>3, ConstantsAssumption DEF TypeInv, TypeOK, Row, Versions
  <2>2. QED
    BY <1>2, <1>3, <2>1 DEF RowsNotNewer
<1>4. ASSUME NEW r \in Runs, RegisterChunk(r), rows'[d] # rows[d]
      PROVE  rows'[d].mtime <= written'[d[1]]
  <2> DEFINE e == DocId(file[r], text[r], nextChunk[r])
  <2>1. /\ pc[r] = "register" /\ e[1] = file[r] /\ rows' = [rows EXCEPT ![e] = Upserted(r, e)]
    BY <1>4 DEF RegisterChunk, DocId
  <2> HIDE DEF e
  <2>2. d = e /\ rows'[d].mtime = mtime[r]
    BY <1>4, <2>1 DEF TypeInv, TypeOK, Upserted
  <2>3. HasText(r) /\ mtime[r] = text[r] /\ text[r] \in Nat
    BY <2>1, ConstantsAssumption DEF HasText, TextInv, TextInHand, TypeInv, TypeOK
  <2>4. QED
    BY <1>2, <2>1, <2>2, <2>3 DEF TextIsNewest
<1>5. QED
  BY <1>3, <1>4, RowsStep DEF NothingDropped, DropRows

\* The batch a run got confirmed stays what the index holds: an older batch
\* of the file cannot be behind it in the queue.
LEMMA ConfirmedCurrentStep ==
    ASSUME TypeInv, NothingDropped, PolledTasks, FreshInv, [Next]_vars
    PROVE  ConfirmedIsCurrent'
<1> USE DEF FreshInv
<1> SUFFICES ASSUME NEW q \in Runs, Confirmed(q)',
                    NEW d \in ChunkIds(file'[q], text'[q])
             PROVE  index'[RunWorkspace[q]][d] = text'[q]
  BY DEF ConfirmedIsCurrent, ChunkIds, DocId
<1>1. /\ file'[q] = file[q] /\ text'[q] = text[q] /\ HasText(q)
      /\ Confirmed(q) \/ (MeiliSucceeds /\ Head(tasks).run = q)
  BY ConfirmedStep
<1>2. /\ d \in ChunkIds(file[q], text[q]) /\ d[1] = file[q] /\ d \in DocIds
      /\ RunWorkspace[q] \in Workspaces /\ text[q] \in Nat
  BY <1>1, ChunksOfFile, ChunkIdsType, ConstantsAssumption DEF HasText, TypeInv, TypeOK, HandOK
<1>3. CASE Confirmed(q)
  <2>1. index[RunWorkspace[q]][d] = text[q]
    BY <1>2, <1>3 DEF ConfirmedIsCurrent
  <2>2. ASSUME 1 \in 1..Len(tasks), tasks[1].file = d[1] PROVE tasks[1].ver = text[q]
    <3>1. tasks[1].ver <= text[q]
      BY <1>1, <1>2, <2>2 DEF TextIsNewest, NewestFor
    <3>2. text[q] <= tasks[1].ver
      BY <1>2, <2>1, <2>2 DEF IndexBehindQueue
    <3>3. QED
      BY <1>2, <2>2, <3>1, <3>2, AddTasks
  <2>3. QED
    BY <1>1, <1>2, <2>1, <2>2, DocumentStep
<1>4. CASE MeiliSucceeds /\ Head(tasks).run = q
  <2>1. Head(tasks) \in Tasks /\ Head(tasks) = tasks[1] /\ 1 \in 1..Len(tasks)
    BY <1>4, Served
  <2>2. /\ tasks[1].ws = RunWorkspace[q] /\ tasks[1].file = file[q] /\ tasks[1].ver = text[q]
        /\ tasks[1].op = "add"
    BY <1>4, <2>1 DEF PolledTasks, NothingDropped
  <2>3. index' = Applied(tasks[1])
    BY <1>4, <2>1 DEF MeiliSucceeds
  <2>4. QED
    BY <1>1, <1>2, <2>1, <2>2, <2>3, AppliedAt DEF TypeInv
<1>5. QED
  BY <1>1, <1>3, <1>4

\* The workspace of a row is that of the run which works on its file.
LEMMA OneOwner ==
    ASSUME SoleRun, NEW f \in Files, NEW w \in Workspaces, NEW u \in Workspaces,
           Owned(f, w), Owned(f, u)
    PROVE  w = u
BY DEF SoleRun, FilesOf, Owned

LEMMA FreshRowStep ==
    ASSUME SoleRun, TypeInv, OwnInv, TextInv, NothingDropped, FreshInv, [Next]_vars
    PROVE  FreshRowIsSearchable'
<1> USE DEF FreshInv
<1> SUFFICES ASSUME NEW f \in Files, disk'[f] # 0,
                    NEW d \in ChunkIds(f, disk'[f]),
                    rows'[d] # NoRow, rows'[d].mtime = disk'[f]
             PROVE  index'[rows'[d].ws][d] = disk'[f]
  BY DEF FreshRowIsSearchable, ChunkIds, DocId
<1> DEFINE v == disk'[f]
<1>1. /\ v \in Versions /\ written[f] \in Nat
      /\ \/ v = disk[f] /\ v = written[f]
         \/ v = written[f] + 1 /\ UNCHANGED rows
  BY DiskStep, TypeStep DEF DiskIsNewest, TypeInv, TypeOK, Versions
<1>2. d \in DocIds /\ d[1] = f
  BY <1>1, ChunkIdsType, ChunksOfFile
<1>3. v = disk[f] /\ v = written[f]
  BY <1>1, <1>2 DEF RowsNotNewer
<1>4. CASE rows'[d] = rows[d]
  <2> DEFINE w == rows[d].ws
  <2>1. w \in Workspaces /\ index[w][d] = v
    BY <1>2, <1>3, <1>4 DEF FreshRowIsSearchable, TypeInv, TypeOK, Row
  <2>2. ASSUME 1 \in 1..Len(tasks), tasks[1].file = d[1] PROVE tasks[1].ver = v
    <3>1. tasks[1].ver <= v
      BY <1>2, <1>3, <2>2 DEF DiskIsNewest, NewestFor
    <3>2. v <= tasks[1].ver
      BY <1>2, <2>1, <2>2 DEF IndexBehindQueue
    <3>3. QED
      BY <1>1, <1>3, <2>2, <3>1, <3>2, AddTasks
  <2>3. QED
    BY <1>2, <1>4, <2>1, <2>2, DocumentStep
<1>5. ASSUME NEW r \in Runs, RegisterChunk(r), rows'[d] # rows[d]
      PROVE  index'[rows'[d].ws][d] = v
  <2> DEFINE e == DocId(file[r], text[r], nextChunk[r])
  <2>1. /\ pc[r] = "register" /\ rows' = [rows EXCEPT ![e] = Upserted(r, e)] /\ UNCHANGED index
        /\ e[1] = file[r]
    BY <1>5 DEF RegisterChunk, DocId, meili
  <2>2. nextChunk[r] \in 1..ChunkCount[text[r]]
    BY <2>1 DEF TypeInv, HandOK
  <2>3. e \in ChunkIds(file[r], text[r])
    BY <2>2 DEF ChunkIds
  <2> HIDE DEF e
  <2>4. d = e /\ rows'[d] = Upserted(r, d) /\ file[r] = f
    BY <1>2, <1>5, <2>1 DEF TypeInv, TypeOK
  <2>5. mtime[r] = text[r] /\ text[r] = v
    BY <2>1, <2>4 DEF TextInv, TextInHand, Upserted
  <2>6. index'[RunWorkspace[r]][d] = v
    BY <2>1, <2>3, <2>4, <2>5 DEF ConfirmedIsCurrent, Confirmed
  <2>7. rows'[d].ws = RunWorkspace[r]
    <3>1. Owned(f, RunWorkspace[r]) /\ RunWorkspace[r] \in Workspaces
      BY <2>4, ConstantsAssumption DEF OwnInv, HandsOwn, FilesOf, Owned
    <3>2. CASE rows[d] # NoRow
      BY <1>2, <2>4, <3>1, <3>2, OneOwner DEF Upserted, OwnInv, RowsOwn, TypeInv, TypeOK, Row
    <3>3. QED
      BY <2>4, <3>2 DEF Upserted
  <2>8. QED
    BY <2>6, <2>7
<1>6. QED
  BY <1>4, <1>5, RowsStep DEF NothingDropped, DropRows

LEMMA FreshInit == Init => FreshInv
<1>1. ASSUME Init PROVE Len(tasks) = 0
  BY <1>1, EmptySeq DEF Init
<1>2. ASSUME Init, NEW d \in DocIds PROVE d[1] \in Files
  BY DEF DocIds
<1>3. QED
  BY <1>1, <1>2 DEF Init, FreshInv, DiskIsNewest, TextIsNewest, HasText, NewestFor, QueueInOrder,
     IndexBehindQueue, RowsNotNewer, ConfirmedIsCurrent, Confirmed, FreshRowIsSearchable

\* With one source of syncs per workspace, no wipe, and no write between a
\* parser's read and its stat: a chunk whose row carries the current time has
\* the current text in the index, although batches that were given up, by a
\* timeout or a crash, may still be queued.
THEOREM FreshIsSearchable ==
    ASSUME SoleRun, QuietParse, "wipe" \notin Modes
    PROVE  Spec => []FreshRowIsSearchable
<1> DEFINE AllInv == TypeInv /\ OwnInv /\ TextInv /\ SearchInv /\ FreshInv
<1>1. Init => AllInv
  <2>1. Init => TextInv
    BY DEF Init, TextInv, TextMatchesMtime, TextInHand
  <2>2. QED
    BY <2>1, TypeInit, OwnInit, SearchInit, FreshInit
<1>2. AllInv /\ [Next]_vars => AllInv'
  <2> SUFFICES ASSUME AllInv, [Next]_vars PROVE AllInv'
    OBVIOUS
  <2>1. TypeInv' /\ OwnInv' /\ TextInv' /\ SearchInv'
    BY TypeStep, OwnStep, TextStep, SearchStep
  <2>2. FreshInv'
    BY <2>1, DiskNewestStep, TextNewestStep, QueueOrderStep, IndexBehindStep, RowsNotNewerStep,
       ConfirmedCurrentStep, FreshRowStep DEF FreshInv, SearchInv, OwnInv
  <2>3. QED
    BY <2>1, <2>2
<1>3. AllInv => FreshRowIsSearchable
  BY DEF FreshInv
<1>4. QED
  BY <1>1, <1>2, <1>3, PTL DEF Spec

-----------------------------------------------------------------------------
(* StoresAgree, for any mix of modes.  As long as nothing failed, every    *)
(* task has a run that waits for it, so what the stores hold of a file is  *)
(* decided by how far the one run that works on it has come.               *)

Calm == faults = 0 /\ restarts = 0

\* Run r waits for task t.
Polls(r, t) ==
    /\ result[r] = "enqueued" /\ t.ws = RunWorkspace[r]
    /\ IF t.op = "drop" THEN pc[r] = "awaitDrop"
                        ELSE pc[r] = "await" /\ t.file = file[r] /\ t.ver = text[r]

Attended ==
    \A i \in 1..Len(tasks) :
        /\ tasks[i].run \in Runs /\ Polls(tasks[i].run, tasks[i])
        /\ \A j \in 1..Len(tasks) : tasks[j].run = tasks[i].run => j = i

Answered ==
    \A r \in Runs : result[r] # "failed" /\ (pc[r] = "awaitDrop" => result[r] # "none")

\* The wipe of run r has emptied the index and not yet the registry.
Emptied(r) == pc[r] = "dropRows" \/ (pc[r] = "awaitDrop" /\ result[r] = "succeeded")

\* The chunks that are in the index already and in the registry so far.
InBatch(r)    == {d \in ChunkIds(file[r], text[r]) : Confirmed(r)}
Registered(r) == {DocId(file[r], text[r], i) : i \in 1..(nextChunk[r] - 1)}

Agree(d) ==
    IF rows[d] = NoRow THEN \A w \in Workspaces : index[w][d] = 0
                       ELSE index[rows[d].ws][d] = rows[d].text

StoresOf(r) ==
    \A d \in DocIds : d[1] \in FilesOf(r) =>
        IF Emptied(r) THEN index[RunWorkspace[r]][d] = 0
        ELSE IF d \in InBatch(r)
             THEN /\ index[RunWorkspace[r]][d] = text[r]
                  /\ pc[r] = "register" /\ d \in Registered(r) =>
                        rows[d] # NoRow /\ rows[d].text = text[r]
        ELSE Agree(d)

AgreeInv == Calm => Attended /\ Answered /\ \A r \in Runs : StoresOf(r)

LEMMA AgreeInit == Init => AgreeInv
<1>1. ASSUME Init PROVE Len(tasks) = 0
  BY <1>1, EmptySeq DEF Init
<1>2. QED
  BY <1>1 DEF Init, AgreeInv, Attended, Answered, StoresOf, Emptied, InBatch, Confirmed, Agree

\* Failures and crashes are not forgotten.
LEMMA CalmStep ==
    ASSUME TypeInv, [Next]_vars, Calm'
    PROVE  Calm /\ ~Fault /\ ~Restart /\ ~MeiliFails
<1>1. faults \in Nat /\ restarts \in Nat
  BY ConstantsAssumption DEF TypeInv, TypeOK
<1>2. ~Fault /\ ~Restart /\ ~MeiliFails
  BY <1>1 DEF Calm, Fault, Restart, MeiliFails
<1>3. ASSUME NEW r \in Runs, RunStep(r) PROVE UNCHANGED <<faults, restarts>>
  BY <1>2, <1>3 DEF RunStep, Wipe, DropIndex, AwaitDrop, DropRows, Handle, SkipFile, TakeFile,
     FileVanished, ParseFails, ReadText, StatFile, Finish, Flush, SendBatch, BatchFails,
     BatchAccepted, RegisterChunk, RegisterFails
<1>4. UNCHANGED <<faults, restarts>>
  BY <1>2, <1>3 DEF Next, Write, Remove, Start, MeiliSucceeds, vars
<1>5. QED
  BY <1>2, <1>4 DEF Calm

\* A run that waits for nothing has no task in the queue.
LEMMA NoTask ==
    ASSUME Attended, NEW r \in Runs,
           pc[r] \notin {"await", "awaitDrop"} \/ result[r] # "enqueued"
    PROVE  \A i \in 1..Len(tasks) : tasks[i].run # r
BY DEF Attended, Polls

\* A step of a run that waits for nothing and sends nothing.
LEMMA AttendedKept ==
    ASSUME TypeInv, Attended, NEW r \in Runs, RunStep(r) \/ (\E m \in Modes : Start(r, m)),
           UNCHANGED tasks, pc[r] \notin {"await", "awaitDrop"} \/ result[r] # "enqueued"
    PROVE  Attended'
<1>1. \A i \in 1..Len(tasks) : tasks[i].run # r
  BY NoTask
<1>2. ASSUME NEW i \in 1..Len(tasks) PROVE Polls(tasks[i].run, tasks[i])'
  BY <1>1, <1>2, LocalStep DEF Attended, Polls
<1>3. QED
  BY <1>2 DEF Attended

\* A step of a run that sends a task and waits for it.
LEMMA AttendedSent ==
    ASSUME TypeInv, Attended, NEW r \in Runs, RunStep(r),
           pc[r] \notin {"await", "awaitDrop"}, NEW t \in Tasks, t.run = r, Polls(r, t)',
           Len(tasks) \in Nat, Len(tasks') = Len(tasks) + 1, tasks'[Len(tasks) + 1] = t,
           \A i \in 1..Len(tasks) : tasks'[i] = tasks[i]
    PROVE  Attended'
<1>1. \A i \in 1..Len(tasks) : tasks[i].run # r
  BY NoTask
<1>2. ASSUME NEW i \in 1..Len(tasks) PROVE Polls(tasks[i].run, tasks[i])'
  BY <1>1, <1>2, LocalStep DEF Attended, Polls
<1>3. \A i \in 1..Len(tasks') : i \in 1..Len(tasks) \/ i = Len(tasks) + 1
  OBVIOUS
<1>4. QED
  BY <1>1, <1>2, <1>3 DEF Attended, Polls

LEMMA AttendedRun ==
    ASSUME TypeInv, Attended, Answered, ~Fault, NEW r \in Runs,
           RunStep(r) \/ (\E m \in Modes : Start(r, m))
    PROVE  Attended'
<1>1. ASSUME NEW m \in Modes, Start(r, m) PROVE Attended'
  BY <1>1, AttendedKept DEF Start, meili
<1>2. CASE DropIndex(r)
  <2> DEFINE t == [op |-> "drop", ws |-> RunWorkspace[r], run |-> r]
  <2>1. /\ tasks' = Append(tasks, t) /\ result' = [result EXCEPT ![r] = "enqueued"]
        /\ pc[r] = "dropIndex" /\ pc' = [pc EXCEPT ![r] = "awaitDrop"]
    BY <1>2 DEF DropIndex, GoTo
  <2>2. t \in Tasks /\ t.run = r /\ t.ws = RunWorkspace[r] /\ t.op = "drop"
    BY ConstantsAssumption DEF Tasks, DropTask
  <2> HIDE DEF t
  <2>3. Polls(r, t)'
    BY <2>1, <2>2 DEF Polls, TypeInv, TypeOK
  <2>4. RunStep(r)
    BY <1>2 DEF RunStep, Wipe
  <2>5. QED
    BY <2>1, <2>2, <2>3, <2>4, Appended, AttendedSent
<1>3. CASE SendBatch(r)
  <2>1. /\ result' = [result EXCEPT ![r] = "enqueued"]
        /\ pc[r] = "flush" /\ pc' = [pc EXCEPT ![r] = "await"] /\ UNCHANGED <<file, text>>
    BY <1>3 DEF SendBatch, GoTo, locals
  <2>2. PICK t \in Tasks : /\ tasks' = Append(tasks, t) /\ t.run = r /\ t.ws = RunWorkspace[r]
                           /\ t.op = "add" /\ t.file = file[r] /\ t.ver = text[r]
    <3> DEFINE u == [op |-> "add", ws |-> RunWorkspace[r], file |-> file[r], ver |-> text[r],
                     run |-> r]
    <3>1. u \in Tasks /\ tasks' = Append(tasks, u)
      BY <1>3, ConstantsAssumption DEF SendBatch, TypeInv, HandOK, Tasks, AddTask
    <3>2. /\ u.run = r /\ u.ws = RunWorkspace[r] /\ u.op = "add" /\ u.file = file[r]
          /\ u.ver = text[r]
      OBVIOUS
    <3> HIDE DEF u
    <3>3. QED
      BY <3>1, <3>2
  <2>3. Polls(r, t)'
    BY <2>1, <2>2 DEF Polls, TypeInv, TypeOK
  <2>4. RunStep(r)
    BY <1>3 DEF RunStep, Handle, Flush
  <2>5. QED
    BY <2>1, <2>2, <2>3, <2>4, Appended, AttendedSent
<1>4. CASE AwaitDrop(r)
  <2>1. UNCHANGED tasks /\ result[r] # "enqueued"
    BY <1>4 DEF AwaitDrop
  <2>2. QED
    BY <1>4, <2>1, AttendedKept DEF RunStep, Wipe
<1>5. CASE BatchFails(r) \/ BatchAccepted(r)
  <2>1. BatchAccepted(r)
    BY <1>5 DEF BatchFails, Answered
  <2>2. QED
    BY <2>1, AttendedKept DEF BatchAccepted, RunStep, Handle, Flush
<1>6. CASE DropRows(r) \/ RegisterChunk(r) \/ RegisterFails(r)
  BY <1>6, AttendedKept DEF DropRows, RegisterChunk, RegisterFails, meili, RunStep, Wipe, Handle, Flush
<1>7. CASE \E f \in Files : SkipFile(r, f) \/ TakeFile(r, f) \/ FileVanished(r, f)
  BY <1>7, AttendedKept DEF SkipFile, TakeFile, FileVanished, meili, RunStep, Handle
<1>8. CASE ParseFails(r) \/ ReadText(r) \/ StatFile(r) \/ Finish(r)
  BY <1>8, AttendedKept DEF ParseFails, ReadText, StatFile, Finish, meili, RunStep, Handle
<1>9. QED
  BY <1>1, <1>2, <1>3, <1>4, <1>5, <1>6, <1>7, <1>8 DEF RunStep, Wipe, Handle, Flush

LEMMA AttendedMeili ==
    ASSUME TypeInv, Attended, MeiliSucceeds
    PROVE  Attended'
<1>1. /\ 1 \in 1..Len(tasks) /\ Head(tasks) = tasks[1] /\ Len(tasks) \in Nat
      /\ Len(tasks') = Len(tasks) - 1
      /\ \A i \in 1..Len(tasks') : i + 1 \in 1..Len(tasks) /\ tasks'[i] = tasks[i + 1]
  BY Served
<1>2. /\ UNCHANGED <<pc, file, text>>
      /\ \A q \in Runs : q # tasks[1].run => result'[q] = result[q]
  BY <1>1 DEF MeiliSucceeds, Answer, locals, TypeInv, TypeOK
<1>3. ASSUME NEW i \in 1..Len(tasks')
      PROVE  /\ tasks'[i].run \in Runs /\ Polls(tasks[i].run, tasks[i])'
             /\ \A j \in 1..Len(tasks') : tasks'[j].run = tasks'[i].run => j = i
  <2>1. i + 1 \in 1..Len(tasks) /\ tasks'[i] = tasks[i + 1] /\ i + 1 # 1
    BY <1>1
  <2>2. tasks[i + 1].run \in Runs /\ Polls(tasks[i + 1].run, tasks[i + 1])
        /\ tasks[i + 1].run # tasks[1].run
    BY <1>1, <2>1 DEF Attended
  <2>3. Polls(tasks[i].run, tasks[i])'
    BY <1>2, <2>1, <2>2 DEF Polls
  <2>4. \A j \in 1..Len(tasks') : tasks'[j].run = tasks'[i].run => j + 1 = i + 1
    BY <1>1, <2>1 DEF Attended
  <2>5. QED
    BY <2>1, <2>2, <2>3, <2>4
<1>4. QED
  BY <1>3 DEF Attended

LEMMA AnsweredStep ==
    ASSUME TypeInv, Attended, Answered, ~Fault, ~Restart, ~MeiliFails, [Next]_vars
    PROVE  Answered'
<1> USE DEF TypeInv, TypeOK, Answered
<1>1. ASSUME NEW r \in Runs, NEW m \in Modes, Start(r, m) PROVE Answered'
  BY <1>1 DEF Start, Walk, GoTo, meili
<1>2. ASSUME NEW r \in Runs, RunStep(r) PROVE Answered'
  <2>1. CASE DropIndex(r) \/ SendBatch(r)
    BY <2>1 DEF DropIndex, SendBatch, GoTo
  <2>2. CASE AwaitDrop(r) \/ BatchFails(r) \/ BatchAccepted(r)
    BY <2>2 DEF AwaitDrop, BatchFails, BatchAccepted, GoTo
  <2>3. CASE DropRows(r) \/ RegisterChunk(r) \/ RegisterFails(r)
    BY <2>3 DEF DropRows, Walk, RegisterChunk, RegisterFails, Abort, GoTo, meili
  <2>4. CASE \E f \in Files : SkipFile(r, f) \/ TakeFile(r, f) \/ FileVanished(r, f)
    BY <2>4 DEF SkipFile, TakeFile, FileVanished, Abort, GoTo, meili
  <2>5. CASE ParseFails(r) \/ ReadText(r) \/ StatFile(r) \/ Finish(r)
    BY <2>5 DEF ParseFails, ReadText, StatFile, Finish, GoTo, meili
  <2>6. QED
    BY <1>2, <2>1, <2>2, <2>3, <2>4, <2>5 DEF RunStep, Wipe, Handle, Flush
<1>3. CASE MeiliSucceeds
  <2>1. pc' = pc /\ \A q \in Runs : result'[q] \in {result[q], "succeeded"}
    BY <1>3 DEF MeiliSucceeds, Answer
  <2>2. QED
    BY <2>1
<1>4. QED
  BY <1>1, <1>2, <1>3 DEF Next, Write, Remove, meili, vars

\* Steps inside a run that leave both stores alone.
LEMMA StoresKept ==
    ASSUME NEW r \in Runs, StoresOf(r), UNCHANGED <<rows, index>>,
           ~Emptied(r), ~Confirmed(r), ~Emptied(r)', ~Confirmed(r)'
    PROVE  StoresOf(r)'
BY DEF StoresOf, InBatch, Agree

\* The wipe of a run: the index first, then the registry.
LEMMA StoresWipe ==
    ASSUME SoleRun, TypeInv, OwnInv, Answered, ~Fault, NEW r \in Runs, StoresOf(r), Wipe(r)
    PROVE  StoresOf(r)'
<1> USE DEF TypeInv, TypeOK
<1>1. CASE DropIndex(r)
  <2>1. /\ pc[r] = "dropIndex" /\ pc'[r] = "awaitDrop" /\ result'[r] = "enqueued"
        /\ UNCHANGED <<rows, index>>
    BY <1>1 DEF DropIndex, GoTo
  <2>2. QED
    BY <2>1, StoresKept DEF Emptied, Confirmed
<1>2. CASE AwaitDrop(r)
  <2>1. /\ pc[r] = "awaitDrop" /\ pc'[r] = "dropRows" /\ result[r] = "succeeded"
        /\ UNCHANGED index
    BY <1>2 DEF AwaitDrop, GoTo, Answered
  <2>2. QED
    BY <2>1 DEF StoresOf, Emptied
<1>3. CASE DropRows(r)
  <2>1. /\ pc[r] = "dropRows" /\ pc'[r] = "next" /\ UNCHANGED index
        /\ \A d \in DocIds : rows'[d] = IF rows[d] # NoRow /\ rows[d].ws = RunWorkspace[r]
                                        THEN NoRow ELSE rows[d]
    BY <1>3 DEF DropRows, Walk, GoTo, meili
  <2>2. ASSUME NEW d \in DocIds, d[1] \in FilesOf(r)
        PROVE  rows'[d] = NoRow /\ \A w \in Workspaces : index[w][d] = 0
    <3>1. d[1] \in Files /\ Owned(d[1], RunWorkspace[r]) /\ RunWorkspace[r] \in Workspaces
      BY <2>2, ConstantsAssumption DEF FilesOf, Owned
    <3>2. rows[d] # NoRow => rows[d].ws = RunWorkspace[r]
      BY <3>1, OneOwner DEF OwnInv, RowsOwn, Row
    <3>3. \A w \in Workspaces : index[w][d] # 0 => w = RunWorkspace[r]
      BY <3>1, OneOwner DEF OwnInv, IndexOwn
    <3>4. index[RunWorkspace[r]][d] = 0
      BY <2>1, <2>2 DEF StoresOf, Emptied
    <3>5. QED
      BY <2>1, <3>2, <3>3, <3>4
  <2>3. QED
    BY <2>1, <2>2 DEF StoresOf, Emptied, InBatch, Confirmed, Agree
<1>4. QED
  BY <1>1, <1>2, <1>3 DEF Wipe

\* One row of a confirmed batch; with the last one the file is done.
LEMMA StoresRegister ==
    ASSUME SoleRun, TypeInv, OwnInv, NEW r \in Runs, StoresOf(r), RegisterChunk(r)
    PROVE  StoresOf(r)'
<1> DEFINE n == nextChunk[r]
           e == DocId(file[r], text[r], n)
<1> USE DEF TypeInv, TypeOK
<1>1. /\ pc[r] = "register" /\ file[r] \in Files /\ text[r] \in Versions
      /\ ChunkCount[text[r]] \in Nat /\ n \in 1..ChunkCount[text[r]]
      /\ rows' = [rows EXCEPT ![e] = Upserted(r, e)] /\ UNCHANGED index
  BY ConstantsAssumption DEF RegisterChunk, HandOK, meili
<1>2. \/ n = ChunkCount[text[r]] /\ pc'[r] = "next"
      \/ pc'[r] = "register" /\ file'[r] = file[r] /\ text'[r] = text[r] /\ nextChunk'[r] = n + 1
  BY DEF RegisterChunk, GoTo
<1>3. e \in ChunkIds(file[r], text[r]) /\ e \in DocIds
  BY <1>1, ChunkIdsType DEF ChunkIds
<1>4. Upserted(r, e).text = text[r] /\ rows'[e] = Upserted(r, e) /\ Upserted(r, e) # NoRow
  <2>1. Upserted(r, e) \in Row
    BY <1>1, <1>3, ConstantsAssumption DEF Upserted, HandOK, Row
  <2>2. QED
    BY <1>1, <1>3, <2>1, ConstantsAssumption DEF Upserted
<1>5. \A d \in DocIds : d # e => rows'[d] = rows[d]
  BY <1>1
<1>6. \A d \in ChunkIds(file[r], text[r]) :
         index[RunWorkspace[r]][d] = text[r]
         /\ (d \in Registered(r) \cup {e} => rows'[d] # NoRow /\ rows'[d].text = text[r])
  <2> SUFFICES ASSUME NEW d \in ChunkIds(file[r], text[r])
               PROVE  index[RunWorkspace[r]][d] = text[r]
                      /\ (d \in Registered(r) \cup {e} => rows'[d] # NoRow /\ rows'[d].text = text[r])
    OBVIOUS
  <2>1. d \in DocIds /\ d[1] \in FilesOf(r) /\ d \in InBatch(r) /\ ~Emptied(r)
    BY <1>1, ChunkIdsType, ChunksOfFile, ConstantsAssumption
    DEF OwnInv, HandsOwn, InBatch, Confirmed, Emptied
  <2>2. /\ index[RunWorkspace[r]][d] = text[r]
        /\ d \in Registered(r) => rows[d] # NoRow /\ rows[d].text = text[r]
    BY <1>1, <2>1 DEF StoresOf
  <2>3. QED
    BY <1>4, <1>5, <2>1, <2>2
<1> HIDE DEF e
<1>7. ASSUME NEW d \in DocIds, d[1] \in FilesOf(r), d \notin ChunkIds(file[r], text[r])
      PROVE  Agree(d)'
  <2>1. Agree(d)
    BY <1>1, <1>7 DEF StoresOf, Emptied, InBatch
  <2>2. rows'[d] = rows[d]
    BY <1>3, <1>5, <1>7
  <2>3. QED
    BY <1>1, <2>1, <2>2 DEF Agree
<1>8. CASE n = ChunkCount[text[r]] /\ pc'[r] = "next"
  <2>1. ASSUME NEW d \in ChunkIds(file[r], text[r]) PROVE Agree(d)'
    <3>1. d \in Registered(r) \cup {e}
      BY <1>1, <1>8 DEF ChunkIds, Registered, e
    <3>2. d \in DocIds /\ d[1] = file[r]
      BY <1>1, ChunkIdsType, ChunksOfFile
    <3>3. /\ index[RunWorkspace[r]][d] = text[r]
          /\ rows'[d] # NoRow /\ rows'[d].text = text[r]
      BY <1>6, <3>1
    <3>4. RowsOwn' /\ rows'[d].ws \in Workspaces
      <4>1. [Next]_vars
        BY DEF Next, RunStep, Handle, Flush
      <4>2. RowsOwn' /\ TypeInv'
        BY <4>1, RowsOwnStep, TypeStep DEF OwnInv
      <4>3. QED
        BY <3>2, <3>3, <4>2 DEF Row
    <3>5. Owned(file[r], RunWorkspace[r]) /\ RunWorkspace[r] \in Workspaces
      BY <1>1, ConstantsAssumption DEF OwnInv, HandsOwn, FilesOf, Owned
    <3>6. rows'[d].ws = RunWorkspace[r]
      BY <1>1, <3>2, <3>3, <3>4, <3>5, OneOwner DEF RowsOwn
    <3>7. QED
      BY <1>1, <3>3, <3>6 DEF Agree
  <2>2. \A d \in DocIds : d[1] \in FilesOf(r) => Agree(d)'
    BY <1>7, <2>1
  <2>3. ~Emptied(r)' /\ ~Confirmed(r)'
    BY <1>8 DEF Emptied, Confirmed
  <2>4. QED
    BY <2>2, <2>3 DEF StoresOf, InBatch
<1>9. CASE pc'[r] = "register" /\ file'[r] = file[r] /\ text'[r] = text[r] /\ nextChunk'[r] = n + 1
  <2>1. ~Emptied(r)' /\ InBatch(r)' = ChunkIds(file[r], text[r])
    BY <1>9 DEF Emptied, InBatch, Confirmed, ChunkIds, DocId
  <2>2. Registered(r)' \subseteq Registered(r) \cup {e}
    <3>1. \A i \in 1..(nextChunk'[r] - 1) : i \in 1..(n - 1) \/ i = n
      BY <1>1, <1>9
    <3>2. QED
      BY <1>9, <3>1 DEF Registered, DocId, e
  <2>3. QED
    BY <1>1, <1>6, <1>7, <1>9, <2>1, <2>2 DEF StoresOf
<1>10. QED
  BY <1>2, <1>8, <1>9

LEMMA StoresRun ==
    ASSUME SoleRun, TypeInv, OwnInv, Answered, ~Fault, NEW r \in Runs, StoresOf(r),
           RunStep(r) \/ (\E m \in Modes : Start(r, m))
    PROVE  StoresOf(r)'
<1> USE DEF TypeInv, TypeOK, Emptied, Confirmed
<1>1. ASSUME NEW m \in Modes, Start(r, m) PROVE StoresOf(r)'
  <2>1. pc[r] = "idle" /\ pc'[r] \in {"next", "dropIndex"} /\ UNCHANGED <<rows, index>>
    BY <1>1 DEF Start, Walk, GoTo, meili
  <2>2. QED
    BY <2>1, StoresKept
<1>2. CASE SendBatch(r)
  BY <1>2, StoresKept DEF SendBatch, GoTo
<1>3. CASE BatchFails(r) \/ BatchAccepted(r)
  <2>1. BatchAccepted(r)
    BY <1>3 DEF BatchFails, Answered
  <2>2. /\ pc[r] = "await" /\ result[r] = "succeeded" /\ pc'[r] = "register" /\ nextChunk'[r] = 1
        /\ UNCHANGED <<rows, index, file, text>>
    BY <2>1 DEF BatchAccepted, GoTo
  <2>3. InBatch(r)' = InBatch(r) /\ Registered(r)' = {}
    BY <2>2 DEF InBatch, Registered, ChunkIds, DocId
  <2>4. QED
    BY <2>2, <2>3 DEF StoresOf, Agree
<1>4. CASE RegisterChunk(r) \/ Wipe(r)
  BY <1>4, StoresRegister, StoresWipe
<1>5. ASSUME RegisterFails(r) PROVE FALSE
  BY <1>5 DEF RegisterFails
<1>6. CASE \E f \in Files : SkipFile(r, f) \/ TakeFile(r, f) \/ FileVanished(r, f)
  BY <1>6, StoresKept DEF SkipFile, TakeFile, FileVanished, Abort, GoTo, meili
<1>7. CASE ParseFails(r) \/ ReadText(r) \/ StatFile(r) \/ Finish(r)
  BY <1>7, StoresKept DEF ParseFails, ReadText, StatFile, Finish, GoTo, meili
<1>8. QED
  BY <1>1, <1>2, <1>3, <1>4, <1>5, <1>6, <1>7 DEF RunStep, Handle, Flush

\* The steps of one run do not touch the rows of the files of another.
LEMMA RowsOther ==
    ASSUME SoleRun, TypeInv, OwnInv, NEW r \in Runs, NEW q \in Runs, q # r,
           RunStep(r) \/ (\E m \in Modes : Start(r, m)),
           NEW d \in DocIds, d[1] \in FilesOf(q)
    PROVE  rows'[d] = rows[d]
<1>1. [Next]_vars
  BY DEF Next
<1>2. d[1] \in Files /\ Owned(d[1], RunWorkspace[q]) /\ RunWorkspace[q] \in Workspaces
      /\ d[1] \notin FilesOf(r)
  BY ConstantsAssumption DEF FilesOf, Owned, SoleRun
<1>3. rows[d] # NoRow => rows[d].ws = RunWorkspace[q]
  BY <1>2, OneOwner DEF OwnInv, RowsOwn, TypeInv, TypeOK, Row
<1>4. RunWorkspace[q] # RunWorkspace[r]
  BY <1>2 DEF FilesOf
<1>5. CASE DropRows(r)
  <2>1. rows' = rows \/ \A c \in DocIds : rows'[c] = IF rows[c] # NoRow /\ rows[c].ws = RunWorkspace[r]
                                                     THEN NoRow ELSE rows[c]
    BY <1>5 DEF DropRows
  <2>2. QED
    BY <1>3, <1>4, <2>1
<1>6. CASE RegisterChunk(r)
  <2> DEFINE e == DocId(file[r], text[r], nextChunk[r])
  <2>1. rows' = [rows EXCEPT ![e] = Upserted(r, e)] /\ e[1] = file[r] /\ file[r] \in FilesOf(r)
    BY <1>6, ConstantsAssumption
    DEF RegisterChunk, DocId, OwnInv, HandsOwn, TypeInv, HandOK
  <2> HIDE DEF e
  <2>2. QED
    BY <1>2, <2>1 DEF TypeInv, TypeOK
<1>7. ASSUME NEW s \in Runs, s # r, DropRows(s) \/ RegisterChunk(s) PROVE rows' = rows
  <2>1. pc'[s] = pc[s]
    BY <1>7, LocalStep
  <2>2. (pc[s] = "dropRows" /\ pc'[s] = "next") \/ pc[s] = "register"
    BY <1>7 DEF DropRows, Walk, GoTo, RegisterChunk, TypeInv, TypeOK
  <2>3. RegisterChunk(s) /\ pc'[s] = "register"
    BY <1>7, <2>1, <2>2 DEF DropRows
  <2>4. nextChunk'[s] = nextChunk[s]
    BY <1>7, LocalStep
  <2>5. nextChunk'[s] = nextChunk[s] + 1 /\ nextChunk[s] \in Nat
    BY <2>3 DEF RegisterChunk, GoTo, TypeInv, TypeOK
  <2>6. QED
    BY <2>4, <2>5
<1>8. QED
  BY <1>1, <1>5, <1>6, <1>7, RowsStep

\* The steps of one run do not touch what the stores hold of the files of
\* another.
LEMMA StoresOther ==
    ASSUME SoleRun, TypeInv, OwnInv, NEW r \in Runs, NEW q \in Runs, q # r, StoresOf(q),
           RunStep(r) \/ (\E m \in Modes : Start(r, m))
    PROVE  StoresOf(q)'
<1>1. /\ pc'[q] = pc[q] /\ file'[q] = file[q] /\ text'[q] = text[q]
      /\ nextChunk'[q] = nextChunk[q] /\ result'[q] = result[q] /\ UNCHANGED index
  BY LocalStep
<1>2. \A d \in DocIds : d[1] \in FilesOf(q) => rows'[d] = rows[d]
  BY RowsOther
<1>3. QED
  BY <1>1, <1>2 DEF StoresOf, Emptied, InBatch, Registered, Confirmed, ChunkIds, DocId, Agree

\* Applying the task of a run empties the index of its workspace, or puts the
\* batch of its file in; documents of other files stay.
LEMMA StoresMeili ==
    ASSUME SoleRun, TypeInv, OwnInv, Attended, NEW q \in Runs, StoresOf(q), MeiliSucceeds
    PROVE  StoresOf(q)'
<1>1. /\ tasks[1] \in Tasks /\ Head(tasks) = tasks[1] /\ 1 \in 1..Len(tasks)
  BY Served
<1>2. PICK t \in Tasks : t = tasks[1]
  BY <1>1
<1>3. PICK r \in Runs : r = t.run
  BY <1>1, <1>2 DEF Attended
<1>4. Polls(r, t)
  BY <1>1, <1>2, <1>3 DEF Attended
<1>5. /\ index' = Applied(t) /\ UNCHANGED <<rows, pc, file, text, nextChunk>>
      /\ result'[r] = "succeeded" /\ \A s \in Runs \ {r} : result'[s] = result[s]
  BY <1>1, <1>2, <1>3, ConstantsAssumption DEF MeiliSucceeds, Answer, locals, TypeInv, TypeOK
<1>6. /\ t.op \in {"add", "drop"} /\ t.ws = RunWorkspace[r] /\ RunWorkspace[r] \in Workspaces
  BY <1>4, ConstantsAssumption DEF Polls, Tasks, AddTask, DropTask
<1>7. \A w \in Workspaces : \A d \in DocIds :
         index'[w][d] = IF w # t.ws THEN index[w][d]
                        ELSE IF t.op = "drop" THEN 0
                        ELSE IF d \in ChunkIds(t.file, t.ver) THEN t.ver ELSE index[w][d]
  BY <1>5, AppliedAt DEF TypeInv
<1>8. CASE q # r
  <2>1. ASSUME NEW d \in DocIds, d[1] \in FilesOf(q), NEW w \in Workspaces
        PROVE  index'[w][d] = index[w][d]
    <3>1. d[1] \in Files /\ Owned(d[1], RunWorkspace[q]) /\ RunWorkspace[q] \in Workspaces
          /\ d[1] \notin FilesOf(r)
      BY <1>8, <2>1, ConstantsAssumption DEF FilesOf, Owned, SoleRun
    <3>2. CASE t.op = "drop" /\ w = t.ws
      <4>1. index[w][d] # 0 => w = RunWorkspace[q]
        BY <3>1, OneOwner DEF OwnInv, IndexOwn
      <4>2. RunWorkspace[q] # RunWorkspace[r]
        BY <2>1, <3>1 DEF FilesOf
      <4>3. QED
        BY <1>6, <1>7, <3>2, <4>1, <4>2
    <3>3. CASE t.op = "add"
      <4>1. t.file = file[r] /\ file[r] \in FilesOf(r)
        BY <1>4, <3>3, ConstantsAssumption DEF Polls, OwnInv, HandsOwn, TypeInv, HandOK
      <4>2. d \notin ChunkIds(t.file, t.ver)
        BY <3>1, <4>1, ChunksOfFile
      <4>3. QED
        BY <1>7, <3>3, <4>2
    <3>4. QED
      BY <1>6, <1>7, <3>2, <3>3
  <2>2. RunWorkspace[q] \in Workspaces /\ \A d \in DocIds : rows[d] # NoRow => rows[d].ws \in Workspaces
    BY ConstantsAssumption DEF TypeInv, TypeOK, Row
  <2>3. Emptied(q)' = Emptied(q) /\ InBatch(q)' = InBatch(q) /\ Registered(q)' = Registered(q)
    BY <1>5, <1>8 DEF Emptied, InBatch, Confirmed, Registered, ChunkIds, DocId
  <2>4. \A d \in DocIds : d[1] \in FilesOf(q) => (Agree(d) => Agree(d)')
    BY <1>5, <2>1, <2>2 DEF Agree
  <2>5. QED
    BY <1>5, <2>1, <2>2, <2>3, <2>4 DEF StoresOf
<1>9. CASE q = r /\ t.op = "drop"
  <2>1. Emptied(q)'
    BY <1>4, <1>5, <1>9 DEF Polls, Emptied
  <2>2. QED
    BY <1>6, <1>7, <1>9, <2>1 DEF StoresOf
<1>10. CASE q = r /\ t.op = "add"
  <2>1. /\ pc[q] = "await" /\ result[q] = "enqueued" /\ t.file = file[q] /\ t.ver = text[q]
    BY <1>4, <1>10 DEF Polls
  <2>2. ~Emptied(q) /\ ~Emptied(q)' /\ InBatch(q) = {} /\ pc'[q] # "register"
        /\ InBatch(q)' = ChunkIds(file[q], text[q])
    BY <1>5, <1>10, <2>1 DEF Emptied, InBatch, Confirmed, ChunkIds, DocId
  <2>3. ASSUME NEW d \in DocIds, d[1] \in FilesOf(q), d \notin ChunkIds(file[q], text[q])
        PROVE  Agree(d)'
    <3>1. Agree(d)
      BY <2>2, <2>3 DEF StoresOf
    <3>2. \A w \in Workspaces : index'[w][d] = index[w][d]
      BY <1>7, <1>10, <2>1, <2>3
    <3>3. rows[d] # NoRow => rows[d].ws \in Workspaces
      BY DEF TypeInv, TypeOK, Row
    <3>4. QED
      BY <1>5, <3>1, <3>2, <3>3 DEF Agree
  <2>4. \A d \in ChunkIds(file[q], text[q]) : d \in DocIds => index'[RunWorkspace[q]][d] = text'[q]
    BY <1>5, <1>6, <1>7, <1>10, <2>1
  <2>5. QED
    BY <2>2, <2>3, <2>4 DEF StoresOf
<1>11. QED
  BY <1>6, <1>8, <1>9, <1>10

LEMMA AgreeStep ==
    ASSUME SoleRun
    PROVE  TypeInv /\ OwnInv /\ AgreeInv /\ [Next]_vars => AgreeInv'
<1> SUFFICES ASSUME TypeInv, OwnInv, AgreeInv, [Next]_vars, Calm'
             PROVE  Attended' /\ Answered' /\ \A q \in Runs : StoresOf(q)'
  BY DEF AgreeInv
<1>1. /\ ~Fault /\ ~Restart /\ ~MeiliFails
      /\ Attended /\ Answered /\ \A q \in Runs : StoresOf(q)
  BY CalmStep DEF AgreeInv
<1>2. CASE UNCHANGED <<rows, index, tasks, result, pc, file, text, nextChunk>>
  BY <1>1, <1>2 DEF Attended, Polls, Answered, StoresOf, Emptied, InBatch, Confirmed, Registered,
                    ChunkIds, DocId, Agree
<1>3. ASSUME NEW r \in Runs, RunStep(r) \/ (\E m \in Modes : Start(r, m))
      PROVE  Attended' /\ \A q \in Runs : StoresOf(q)'
  BY <1>1, <1>3, AttendedRun, StoresRun, StoresOther
<1>4. CASE MeiliSucceeds
  BY <1>1, <1>4, AttendedMeili, StoresMeili, AnsweredStep
<1>5. QED
  BY <1>1, <1>2, <1>3, <1>4, AnsweredStep DEF Next, Write, Remove, vars, meili, locals

\* With one source of syncs per workspace, and as long as nothing failed, the
\* registry and the index agree whenever no run is inside a file or a wipe:
\* for any number of files and workspaces and any mix of modes.
THEOREM StoresAgreeAtRest ==
    ASSUME SoleRun
    PROVE  Spec => []StoresAgree
<1>1. Init => TypeInv /\ OwnInv /\ AgreeInv
  BY TypeInit, OwnInit, AgreeInit
<1>2. (TypeInv /\ OwnInv /\ AgreeInv) /\ [Next]_vars => (TypeInv /\ OwnInv /\ AgreeInv)'
  BY TypeStep, OwnStep, AgreeStep
<1>3. TypeInv /\ OwnInv /\ AgreeInv => StoresAgree
  <2> SUFFICES ASSUME TypeInv, OwnInv, AgreeInv, Calm, \A r \in Runs : pc[r] \in {"idle", "next"},
                      NEW d \in DocIds
               PROVE  Agree(d)
    BY DEF StoresAgree, Calm, Agree
  <2>1. CASE \E r \in Runs : d[1] \in FilesOf(r)
    BY <2>1 DEF AgreeInv, StoresOf, Emptied, InBatch, Confirmed
  <2>2. CASE ~\E r \in Runs : d[1] \in FilesOf(r)
    BY <2>2 DEF OwnInv, RowsOwn, IndexOwn, Owned, FilesOf, Agree
  <2>3. QED
    BY <2>1, <2>2
<1>4. QED
  BY <1>1, <1>2, <1>3, PTL DEF Spec

-----------------------------------------------------------------------------
(* WipeClearsStaleChunks.  After the wipe of a run, the rows of a file of  *)
(* its workspace are those of the one version the run has registered since. *)

\* Between files a run has none in hand, and a file is taken once.
HandEmpty(r) ==
    /\ pc[r] \in {"idle", "next", "dropIndex", "awaitDrop", "dropRows"} => file[r] = NoFile
    /\ file[r] \notin todo[r]

WipedRows(r) ==
    \A f \in FilesOf(r) :
        IF f \in todo[r] THEN RowsOf(f) = {}
        ELSE IF f = file[r] THEN RowsOf(f) = IF pc[r] = "register" THEN Registered(r) ELSE {}
        ELSE RowsOf(f) = {} \/ \E v \in Versions : RowsOf(f) = ChunkIds(f, v)

Wiping(r) ==
    faults = 0 /\ mode[r] = "wipe" /\ pc[r] \notin {"idle", "dropIndex", "awaitDrop", "dropRows"}

WipeInv == \A r \in Runs : HandEmpty(r) /\ (Wiping(r) => WipedRows(r))

LEMMA WipeInit == Init => WipeInv
BY ConstantsAssumption DEF Init, WipeInv, HandEmpty, Wiping

LEMMA HandEmptyStep ==
    ASSUME TypeInv, NEW r \in Runs, HandEmpty(r), RunStep(r) \/ (\E m \in Modes : Start(r, m))
    PROVE  HandEmpty(r)'
<1> USE DEF TypeInv, TypeOK
<1>1. ASSUME file'[r] = NoFile PROVE HandEmpty(r)'
  <2>1. [Next]_vars
    BY DEF Next
  <2>2. todo'[r] \subseteq Files
    BY <2>1, TypeStep
  <2>3. QED
    BY <1>1, <2>2, ConstantsAssumption DEF HandEmpty
<1>2. ASSUME NEW m \in Modes, Start(r, m) PROVE HandEmpty(r)'
  BY <1>1, <1>2 DEF Start, HandEmpty
<1>3. CASE Wipe(r)
  <2>1. UNCHANGED file /\ pc[r] \in {"dropIndex", "awaitDrop", "dropRows"}
    BY <1>3 DEF Wipe, DropIndex, AwaitDrop, DropRows, locals
  <2>2. QED
    BY <1>1, <2>1 DEF HandEmpty
<1>4. CASE SendBatch(r) \/ BatchAccepted(r) \/ ReadText(r) \/ StatFile(r)
  BY <1>4 DEF SendBatch, BatchAccepted, ReadText, StatFile, GoTo, HandEmpty, locals
<1>5. CASE BatchFails(r) \/ RegisterFails(r) \/ ParseFails(r)
  BY <1>1, <1>5 DEF BatchFails, RegisterFails, ParseFails, Abort, DropFile
<1>6. CASE RegisterChunk(r)
  BY <1>1, <1>6 DEF RegisterChunk, DropFile, HandEmpty
<1>7. ASSUME NEW f \in Files, SkipFile(r, f) PROVE HandEmpty(r)'
  BY <1>1, <1>7 DEF SkipFile, HandEmpty
<1>8. ASSUME NEW f \in Files, TakeFile(r, f) PROVE HandEmpty(r)'
  BY <1>8 DEF TakeFile, GoTo, HandEmpty
<1>9. ASSUME NEW f \in Files, FileVanished(r, f) PROVE HandEmpty(r)'
  BY <1>1, <1>9 DEF FileVanished, Abort, DropFile
<1>10. CASE Finish(r)
  BY <1>1, <1>10 DEF Finish, HandEmpty
<1>11. QED
  BY <1>2, <1>3, <1>4, <1>5, <1>6, <1>7, <1>8, <1>9, <1>10 DEF RunStep, Handle, Flush

\* A step that leaves the rows, the list of files and the file in hand.
LEMMA WipedKept ==
    ASSUME NEW r \in Runs, WipedRows(r), UNCHANGED <<rows, todo, file>>,
           pc[r] # "register", pc'[r] # "register" \/ nextChunk'[r] = 1
    PROVE  WipedRows(r)'
<1>1. \A f \in FilesOf(r) : RowsOf(f)' = RowsOf(f)
  BY DEF RowsOf
<1>2. pc'[r] = "register" => Registered(r)' = {}
  BY DEF Registered
<1>3. QED
  BY <1>1, <1>2 DEF WipedRows

\* A step that puts the file down, with no row of it.
LEMMA WipedDropped ==
    ASSUME TypeInv, NEW r \in Runs, WipedRows(r), UNCHANGED <<rows, todo>>, DropFile(r),
           pc[r] # "register", pc'[r] # "register"
    PROVE  WipedRows(r)'
<1>1. file'[r] = NoFile
  BY DEF DropFile, TypeInv, TypeOK
<1>2. \A f \in FilesOf(r) : RowsOf(f)' = RowsOf(f)
  BY DEF RowsOf
<1>3. \A f \in FilesOf(r) : f # NoFile
  BY ConstantsAssumption DEF FilesOf
<1>4. QED
  BY <1>1, <1>2, <1>3 DEF WipedRows

LEMMA WipedRegister ==
    ASSUME TypeInv, OwnInv, NEW r \in Runs, HandEmpty(r), WipedRows(r), RegisterChunk(r)
    PROVE  WipedRows(r)'
<1> DEFINE n == nextChunk[r]
           e == DocId(file[r], text[r], n)
<1> USE DEF TypeInv, TypeOK
<1>1. /\ pc[r] = "register" /\ file[r] \in Files /\ text[r] \in Versions
      /\ ChunkCount[text[r]] \in Nat /\ n \in 1..ChunkCount[text[r]]
      /\ rows' = [rows EXCEPT ![e] = Upserted(r, e)] /\ UNCHANGED todo
  BY ConstantsAssumption DEF RegisterChunk, HandOK
<1>2. e \in DocIds /\ e[1] = file[r] /\ Upserted(r, e) # NoRow
  <2>1. e \in DocIds /\ e[1] = file[r]
    BY <1>1, DocIdType DEF DocId
  <2>2. Upserted(r, e) \in Row
    BY <1>1, <2>1, ConstantsAssumption DEF Upserted, HandOK, Row
  <2>3. QED
    BY <2>1, <2>2, ConstantsAssumption
<1>3. \A f \in FilesOf(r) : RowsOf(f)' = IF f = file[r] THEN RowsOf(f) \cup {e} ELSE RowsOf(f)
  BY <1>1, <1>2 DEF RowsOf
<1>4. RowsOf(file[r]) = Registered(r) /\ file[r] \in FilesOf(r) /\ file[r] \notin todo[r]
  BY <1>1, ConstantsAssumption DEF WipedRows, HandEmpty, OwnInv, HandsOwn
<1>5. CASE n = ChunkCount[text[r]] /\ pc'[r] = "next" /\ file'[r] = NoFile
  <2>1. Registered(r) \cup {e} = ChunkIds(file[r], text[r])
    <3>1. \A i \in Int : i \in 1..ChunkCount[text[r]] <=> i \in 1..(n - 1) \/ i = n
      BY <1>1, <1>5
    <3>2. QED
      BY <3>1 DEF Registered, ChunkIds
  <2>2. \A f \in FilesOf(r) : f = file[r] => RowsOf(f)' = ChunkIds(f, text[r])
    BY <1>3, <1>4, <2>1
  <2>3. \A f \in FilesOf(r) : f # NoFile
    BY ConstantsAssumption DEF FilesOf
  <2> HIDE DEF e
  <2> SUFFICES ASSUME NEW f \in FilesOf(r)
               PROVE  IF f \in todo[r] THEN RowsOf(f)' = {}
                      ELSE RowsOf(f)' = {} \/ \E v \in Versions : RowsOf(f)' = ChunkIds(f, v)
    BY <1>1, <1>5, <2>3 DEF WipedRows
  <2>4. CASE f = file[r]
    BY <1>1, <1>4, <2>2, <2>4
  <2>5. CASE f # file[r]
    BY <1>3, <2>5 DEF WipedRows
  <2>6. QED
    BY <2>4, <2>5
<1>6. CASE pc'[r] = "register" /\ file'[r] = file[r] /\ text'[r] = text[r] /\ nextChunk'[r] = n + 1
  <2>1. Registered(r)' = Registered(r) \cup {e}
    <3>1. \A i \in Int : i \in 1..(nextChunk'[r] - 1) <=> i \in 1..(n - 1) \/ i = n
      BY <1>1, <1>6
    <3>2. QED
      BY <1>6, <3>1 DEF Registered, DocId
  <2> HIDE DEF e
  <2>2. QED
    BY <1>1, <1>3, <1>4, <1>6, <2>1 DEF WipedRows
<1>7. QED
  BY <1>1, <1>5, <1>6 DEF RegisterChunk, GoTo, DropFile

\* The walk behind a wipe that met no failure finds no row of its files.
LEMMA WipedWalk ==
    ASSUME SoleRun, TypeInv, OwnInv, NEW r \in Runs, HandEmpty(r), ~Fault, DropRows(r)
    PROVE  WipedRows(r)'
<1>1. /\ pc[r] = "dropRows" /\ pc'[r] = "next" /\ UNCHANGED file
      /\ \A d \in DocIds : rows'[d] = IF rows[d] # NoRow /\ rows[d].ws = RunWorkspace[r]
                                      THEN NoRow ELSE rows[d]
  BY DEF DropRows, Walk, GoTo, TypeInv, TypeOK
<1>2. ASSUME NEW f \in FilesOf(r) PROVE RowsOf(f)' = {}
  <2>1. f \in Files /\ Owned(f, RunWorkspace[r]) /\ RunWorkspace[r] \in Workspaces
    BY <1>2, ConstantsAssumption DEF FilesOf, Owned
  <2>2. ASSUME NEW d \in DocIds, d[1] = f, rows[d] # NoRow PROVE rows[d].ws = RunWorkspace[r]
    BY <2>1, <2>2, OneOwner DEF OwnInv, RowsOwn, TypeInv, TypeOK, Row
  <2>3. QED
    BY <1>1, <2>2 DEF RowsOf
<1>3. \A f \in FilesOf(r) : f # file'[r]
  BY <1>1, ConstantsAssumption DEF HandEmpty, FilesOf
<1>4. QED
  BY <1>2, <1>3 DEF WipedRows

LEMMA WipedRun ==
    ASSUME SoleRun, TypeInv, OwnInv, NEW r \in Runs, HandEmpty(r), Wiping(r) => WipedRows(r),
           RunStep(r) \/ (\E m \in Modes : Start(r, m)), ~Fault, faults = 0, Wiping(r)'
    PROVE  WipedRows(r)'
<1> USE DEF TypeInv, TypeOK, Wiping
<1>1. ASSUME NEW m \in Modes, Start(r, m) PROVE FALSE
  BY <1>1 DEF Start, GoTo
<1>2. CASE Wipe(r)
  <2>1. DropRows(r)
    BY <1>2 DEF Wipe, DropIndex, AwaitDrop, GoTo
  <2>2. QED
    BY <2>1, WipedWalk
<1>3. ASSUME NEW f \in Files, SkipFile(r, f) \/ FileVanished(r, f) PROVE FALSE
  BY <1>3 DEF SkipFile, FileVanished
<1>4. ASSUME NEW f \in Files, TakeFile(r, f) PROVE WipedRows(r)'
  <2>1. /\ pc[r] = "next" /\ pc'[r] = "parse" /\ f \in todo[r] /\ todo'[r] = todo[r] \ {f}
        /\ file'[r] = f /\ UNCHANGED <<rows, mode, faults>>
    BY <1>4 DEF TakeFile, GoTo
  <2>2. WipedRows(r) /\ file[r] = NoFile
    BY <2>1 DEF HandEmpty
  <2>3. \A g \in FilesOf(r) : RowsOf(g)' = RowsOf(g) /\ g # NoFile
    BY <2>1, ConstantsAssumption DEF RowsOf, FilesOf
  <2>4. QED
    BY <2>1, <2>2, <2>3 DEF WipedRows
<1>5. CASE ReadText(r) \/ StatFile(r) \/ SendBatch(r) \/ BatchAccepted(r)
  <2>1. /\ pc[r] \in {"parse", "stat", "flush", "await"} /\ UNCHANGED <<rows, todo, file, mode>>
        /\ pc'[r] # "register" \/ nextChunk'[r] = 1
    BY <1>5 DEF ReadText, StatFile, SendBatch, BatchAccepted, GoTo, locals
  <2>2. QED
    BY <2>1, WipedKept
<1>6. CASE ParseFails(r) \/ BatchFails(r)
  <2>1. /\ pc[r] \in {"parse", "stat", "flush", "await"} /\ UNCHANGED <<rows, todo, mode>>
        /\ pc'[r] = "next" /\ DropFile(r)
    BY <1>6 DEF ParseFails, BatchFails, GoTo
  <2>2. QED
    BY <2>1, WipedDropped
<1>7. CASE RegisterChunk(r)
  <2>1. Wiping(r)
    BY <1>7 DEF RegisterChunk
  <2>2. QED
    BY <1>7, <2>1, WipedRegister
<1>8. ASSUME RegisterFails(r) \/ Finish(r) PROVE FALSE
  BY <1>8 DEF RegisterFails, Finish, GoTo
<1>9. QED
  BY <1>1, <1>2, <1>3, <1>4, <1>5, <1>6, <1>7, <1>8 DEF RunStep, Handle, Flush

LEMMA WipeStep ==
    ASSUME SoleRun
    PROVE  TypeInv /\ OwnInv /\ WipeInv /\ [Next]_vars => WipeInv'
<1> SUFFICES ASSUME TypeInv, OwnInv, WipeInv, [Next]_vars, NEW q \in Runs
             PROVE  HandEmpty(q)' /\ (Wiping(q)' => WipedRows(q)')
  BY DEF WipeInv
<1>0. HandEmpty(q) /\ (Wiping(q) => WipedRows(q))
  BY DEF WipeInv
<1>1. CASE UNCHANGED <<rows, pc, mode, todo, file, text, nextChunk>> /\ (faults' = 0 => faults = 0)
  BY <1>0, <1>1 DEF HandEmpty, Wiping, WipedRows, RowsOf, Registered, DocId
<1>2. CASE RunStep(q) \/ (\E m \in Modes : Start(q, m))
  <2>1. ASSUME Wiping(q)' PROVE ~Fault /\ faults = 0
    <3>1. faults' = 0 /\ faults \in Nat
      BY <2>1, ConstantsAssumption DEF Wiping, TypeInv, TypeOK
    <3>2. ~Fault
      BY <3>1 DEF Fault
    <3>3. UNCHANGED faults
      BY <1>2, <3>2 DEF RunStep, Wipe, DropIndex, AwaitDrop, DropRows, Handle, SkipFile, TakeFile,
         FileVanished, ParseFails, ReadText, StatFile, Finish, Flush, SendBatch, BatchFails,
         BatchAccepted, RegisterChunk, RegisterFails, Start
    <3>4. QED
      BY <3>1, <3>2, <3>3
  <2>2. QED
    BY <1>0, <1>2, <2>1, HandEmptyStep, WipedRun
<1>3. ASSUME NEW r \in Runs, r # q, RunStep(r) \/ (\E m \in Modes : Start(r, m))
      PROVE  HandEmpty(q)' /\ (Wiping(q)' => WipedRows(q)')
  <2>1. /\ pc'[q] = pc[q] /\ mode'[q] = mode[q] /\ todo'[q] = todo[q] /\ file'[q] = file[q]
        /\ text'[q] = text[q] /\ nextChunk'[q] = nextChunk[q]
    BY <1>3, LocalStep
  <2>2. \A f \in FilesOf(q) : RowsOf(f)' = RowsOf(f)
    BY <1>3, RowsOther DEF RowsOf
  <2>3. faults' = 0 => faults = 0
    <3>1. faults \in Nat
      BY ConstantsAssumption DEF TypeInv, TypeOK
    <3>2. UNCHANGED faults \/ Fault
      BY <1>3 DEF RunStep, Wipe, DropIndex, AwaitDrop, DropRows, Handle, SkipFile, TakeFile,
         FileVanished, ParseFails, ReadText, StatFile, Finish, Flush, SendBatch, BatchFails,
         BatchAccepted, RegisterChunk, RegisterFails, Start
    <3>3. QED
      BY <3>1, <3>2 DEF Fault
  <2>4. QED
    BY <1>0, <2>1, <2>2, <2>3 DEF HandEmpty, Wiping, WipedRows, Registered, DocId
<1>4. CASE Restart
  <2>1. pc'[q] = "idle" /\ file'[q] = NoFile /\ todo'[q] = {}
    BY <1>4 DEF Restart
  <2>2. QED
    BY <2>1 DEF HandEmpty, Wiping
<1>5. CASE MeiliSucceeds \/ MeiliFails
  <2>1. faults \in Nat
    BY ConstantsAssumption DEF TypeInv, TypeOK
  <2>2. QED
    BY <1>1, <1>5, <2>1 DEF MeiliSucceeds, MeiliFails, Fault, locals
<1>6. QED
  BY <1>1, <1>2, <1>3, <1>4, <1>5 DEF Next, Write, Remove, vars, locals

\* With one source of syncs per workspace: when a wipe run that met no failure
\* has handled its last file, every file of the workspace has the rows of
\* exactly one version, or none; whatever the sizes of its versions.
THEOREM WipeClears ==
    ASSUME SoleRun
    PROVE  Spec => []WipeClearsStaleChunks
<1>1. Init => TypeInv /\ OwnInv /\ WipeInv
  BY TypeInit, OwnInit, WipeInit
<1>2. (TypeInv /\ OwnInv /\ WipeInv) /\ [Next]_vars => (TypeInv /\ OwnInv /\ WipeInv)'
  BY TypeStep, OwnStep, WipeStep
<1>3. WipeInv => WipeClearsStaleChunks
  <2> SUFFICES ASSUME WipeInv, NEW r \in Runs, mode[r] = "wipe", pc[r] = "next", todo[r] = {},
                      faults = 0, NEW f \in Dirs[RunWorkspace[r]]
               PROVE  RowsOf(f) = {} \/ \E v \in Versions : RowsOf(f) = ChunkIds(f, v)
    BY DEF WipeClearsStaleChunks
  <2>1. WipedRows(r) /\ f \in FilesOf(r) /\ f # file[r]
    BY ConstantsAssumption DEF WipeInv, Wiping, HandEmpty, FilesOf
  <2>2. QED
    BY <2>1 DEF WipedRows
<1>4. QED
  BY <1>1, <1>2, <1>3, PTL DEF Spec
=============================================================================
