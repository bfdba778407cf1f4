\* One run at a time, any mix of delta, force and wipe runs; no crash (a crash
\* between the two halves of a wipe loses documents, see the README).
SPECIFICATION FairSpec
CONSTANTS
    f1 = f1
    f2 = f2
    w1 = w1
    r1 = r1
    r2 = r2
    Files = {f1, f2}
    Workspaces = {w1}
    Runs = {r1}
    RunWorkspace <- OneWorkspace
    Dirs <- AllFiles
    MaxVersion = 2
    ChunkCount <- Shrinks
    Unparseable = {}
    Modes = {"delta", "force", "wipe"}
    QuietParse = TRUE
    MaxFaults = 1
    MaxRestarts = 0
    NoRow = NoRow
    NoFile = NoFile
    NoRun = NoRun
INVARIANTS
    StoresAgree
    WipeClearsStaleChunks

    
