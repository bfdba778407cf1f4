\* One workspace, overlapping syncs, every request, a failure and a restart.
SPECIFICATION FairSpec
CONSTANTS
    w1 = w1
    d1 = d1
    t1 = t1
    t2 = t2
    Workspaces = {w1}
    Dirs = {d1}
    DirsOf <- OneDirEach
    Timers = {t1, t2}
    EventLoop = EventLoop
    Requests = {"add", "remove", "trigger", "stop"}
    MaxChanges = 2
    MaxFailures = 1
    MaxRequests = 3
    MaxRestarts = 1
    NoWorkspace = NoWorkspace
INVARIANTS
    RunningMeansSync

    
CHECK_DEADLOCK FALSE
