\* Two browsers, two keys, lifetimes of 2 and 3 units over 4 units of time.
SPECIFICATION SessionsSpec
CONSTANTS
    KeyIds = {k1, k2}
    Tokens = {t1, t2}
    Addresses = {a1, a2}
    Subjects = {s1, s2}
    None = None
    IdleTimeout = 2
    MaxLifetime = 3
    Window = 1
    MaxFailed = 1
    MaxTime = 3
SYMMETRY Symmetry
CHECK_DEADLOCK FALSE
INVARIANTS
    SlidingExpiry
    RevocationEndsSessions
    AttemptsBounded
