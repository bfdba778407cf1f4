\* Two clients, two keys, a superadmin and a subject.
SPECIFICATION Spec
CONSTANTS
    KeyIds = {k1, k2}
    Tokens = {t1}
    Addresses = {a1, a2}
    Subjects = {root, ann}
    Roots = {root}
    None = None
    IdleTimeout = 1
    MaxLifetime = 2
    Window = 1
    MaxFailed = 1
    MaxTime = 0
    Kids = {j1}
    TTL = 0
    MaxClock = 1
    Workspaces = {w1, w2}
    Chats = {i1}
    Models = {m1}
    Routes = {"query", "new_chat", "open_chat", "delete_chat", "ingest", "trigger", "grant", "revoke", "create_key", "revoke_key", "model_access", "workspaces", "export"}
    MaxRequests = 2
    MaxOrders = 1
SYMMETRY Symmetry
CHECK_DEADLOCK FALSE
INVARIANTS
    
    AdminsComeFromSuperadmins
    SignedInForce
