\* One run at a time: what a workspace with a single source of syncs relies on.
SPECIFICATION FairSpec
CONSTANTS
    f1 = f1
    f2 = f2
    w1 = w1
    r1 = r1
    r2 = r2
    Files = {f1, f2}
    Workspaces = {w1}
    Runs = {r1}
    RunWorkspace <- OneWorkspace
    Dirs <- AllFiles
    MaxVersion = 2
    ChunkCount <- SameSize
    Unparseable <- DamagedUpdate
    Modes = {"delta", "force"}
    QuietParse = TRUE
    MaxFaults = 1
    MaxRestarts = 1
    NoRow = NoRow
    NoFile = NoFile
    NoRun = NoRun
INVARIANTS
    RegisteredIsSearchable
    
    FreshRowIsSearchable
PROPERTY
    EventuallySearchable
