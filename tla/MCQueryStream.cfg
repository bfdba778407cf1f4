\* Two questions in one session, two rounds of tools.
SPECIFICATION FairSpec
CONSTANTS
    q1 = q1
    q2 = q2
    s1 = s1
    Queries = {q1, q2}
    Sessions = {s1}
    MaxIterations = 2
    MaxCalls = 1
    NoSession = NoSession
INVARIANTS
    DoneIsStored
    ToolCallsComplete
    NoOrphans
    NoSilentEnd

    
\* Every question may be answered and every session deleted.
CHECK_DEADLOCK FALSE
