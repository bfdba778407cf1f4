\* Three callers, two slots, Google's retry loop (its outcomes include those of
\* the generic loop).
SPECIFICATION QSpec
CONSTANTS
    c1 = c1
    c2 = c2
    c3 = c3
    Callers = {c1, c2, c3}
    Limit = 2
    MaxRetries = 2
    IsGoogle = TRUE
    Quotas <- MCQuotas
    Tokens = 1
    MaxCalls = 4
\* When the day's quota is used up every caller may end up waiting.
CHECK_DEADLOCK FALSE
INVARIANTS
    SlotAccounting
    WaitingIsExact
    OvershootBounded
PROPERTIES
    ImplementsSlots
    
