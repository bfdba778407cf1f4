\* Two queries on two models, one call at a time, settings that change once.
SPECIFICATION PoolSpec
CONSTANTS
    q1 = q1
    q2 = q2
    a1 = a1
    a2 = a2
    a3 = a3
    a4 = a4
    m1 = m1
    m2 = m2
    Queries = {q1, q2}
    Workspaces = {ws}
    Models = {m1, m2}
    AgentIds = {a1, a2, a3, a4}
    Caps <- OneThenTwo
    MultiTenant = FALSE
    QuietSettings = TRUE
    MaxChanges = 1
    MaxLimits = 1
    NoModel = NoModel
    NoAgent = NoAgent
    NoHandler = NoHandler
INVARIANTS
    
    
    RightModel
SYMMETRY QuerySymmetry
