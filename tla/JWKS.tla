--------------------------------- MODULE JWKS ---------------------------------
(*****************************************************************************)
(* The signing keys of an identity provider and the copy that                *)
(* auth/jwt_provider.py keeps of them.  The provider publishes and withdraws *)
(* keys and may be out of reach; a token names the key it was signed with.   *)
(*****************************************************************************)
EXTENDS Integers

CONSTANTS
    Kids,  \* key ids
    TTL,   \* jwks_cache_ttl_seconds
    MaxClock, \* bound: the monotonic clock
    None

VARIABLES
    clock,
    published,  \* the provider's key set
    reachable,  \* its address answers
    cached,     \* _keys_by_kid
    fetchedAt,  \* _fetched_at_monotonic
    withdrawn,  \* history: when each key was withdrawn last
    verified    \* history: the last key a token was accepted with, and when

vars == <<clock, published, reachable, cached, fetchedAt, withdrawn, verified>>

TypeOK ==
    /\ clock \in Nat
    /\ published \subseteq Kids /\ cached \subseteq Kids
    /\ reachable \in BOOLEAN
    /\ fetchedAt \in Nat
    /\ withdrawn \in [Kids -> Nat]
    /\ verified \in [kid : Kids, at : Nat] \cup {None}

Init ==
    /\ clock = 0
    /\ published \in SUBSET Kids
    /\ reachable = TRUE
    /\ cached = {}
    /\ fetchedAt = 0
    /\ withdrawn = [kid \in Kids |-> 0]
    /\ verified = None

Publish(kid) ==
    /\ kid \notin published
    /\ published' = published \cup {kid}
    /\ UNCHANGED <<clock, reachable, cached, fetchedAt, withdrawn, verified>>

Withdraw(kid) ==
    /\ kid \in published
    /\ published' = published \ {kid}
    /\ withdrawn' = [withdrawn EXCEPT ![kid] = clock]
    /\ UNCHANGED <<clock, reachable, cached, fetchedAt, verified>>

ChangeReachable ==
    /\ reachable' = ~reachable
    /\ UNCHANGED <<clock, published, cached, fetchedAt, withdrawn, verified>>

Tick ==
    /\ clock < MaxClock /\ clock' = clock + 1
    /\ UNCHANGED <<published, reachable, cached, fetchedAt, withdrawn, verified>>

\* Mutant: a key that is in the cache is used however old the cache is.
MustFetch_Lazy(kid) == kid \notin cached

\* First condition of get_jwk.
MustFetch(kid) == kid \notin cached \/ clock - fetchedAt > TTL

\* get_jwk, under its lock: an unknown key or an old cache is fetched once, a
\* key that is still unknown once more.  A fetch that fails leaves the cache
\* as it is and ends the request with 503; the second one (`again`) may fail
\* on its own.
Answer(kid, again) ==
    IF MustFetch(kid)
    THEN IF ~reachable THEN "unavailable"
         ELSE IF kid \in published THEN "accepted"
         ELSE IF again THEN "rejected" ELSE "unavailable"
    ELSE "accepted"

\* The answer and what is left in the cache.
Verify(kid, again) ==
    LET fetched == MustFetch(kid) /\ reachable IN
    /\ cached' = IF fetched THEN published ELSE cached
    /\ fetchedAt' = IF fetched THEN clock ELSE fetchedAt
    /\ verified' = IF Answer(kid, again) = "accepted"
                   THEN [kid |-> kid, at |-> clock] ELSE verified
    /\ UNCHANGED <<clock, published, reachable, withdrawn>>

-----------------------------------------------------------------------------

\* A token is accepted only with a key that was in force not more than TTL
\* before, also when the provider has been out of reach since (get_jwk).
SignedInForce ==
    verified # None =>
        \/ verified.kid \in published
        \/ verified.at - withdrawn[verified.kid] <= TTL
=============================================================================
