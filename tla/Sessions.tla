------------------------------- MODULE Sessions -------------------------------
(****************************************************************************)
(* API keys, browser sessions and login attempts: auth/api_key_provider.py  *)
(* over the tables of workspace/auth_db.py, and the routes of               *)
(* auth/session_routes.py.                                                  *)
(*                                                                          *)
(* The server runs its handlers on one event loop, so none of them is       *)
(* interrupted by another.  The command line works on the same SQLite file  *)
(* from a process of its own, one statement at a time: its revocation and a *)
(* login of the server are therefore two steps each.                        *)
(*                                                                          *)
(* Time is counted in units; a browser forgets a cookie when its date is    *)
(* over.                                                                    *)
(****************************************************************************)
EXTENDS Integers, Sequences, FiniteSets

CONSTANTS
    KeyIds,
    Tokens,       \* session tokens; random, so never given out twice
    Addresses,    \* one browser behind each address
    Subjects,
    None,
    IdleTimeout,  \* _SESSION_IDLE_TIMEOUT
    MaxLifetime,  \* _SESSION_MAX_LIFETIME
    Window,       \* _LOGIN_ATTEMPT_WINDOW_MINUTES
    MaxFailed,    \* _MAX_FAILED_LOGIN_ATTEMPTS
    MaxTime       \* bound: the clock

ASSUME SessionsAssumption ==
    /\ IdleTimeout \in Nat /\ MaxLifetime \in Nat /\ IdleTimeout <= MaxLifetime
    /\ Window \in Nat /\ MaxFailed \in Nat \ {0} /\ MaxTime \in Nat
    /\ None \notin Subjects /\ None \notin KeyIds

VARIABLES
    now,
    keys,      \* table api_keys
    sessions,  \* table auth_sessions; used, via, late, doomed are history
    failed,    \* table auth_attempts: the times of the failures of each address
    cookies,   \* what each browser holds
    login,     \* the login the server is in, if any
    cli        \* subject whose sessions the command line is about to delete

sessionVars == <<now, keys, sessions, failed, cookies, login, cli>>

Key == [subject : Subjects, superadmin : BOOLEAN, revoked : BOOLEAN]

ASSUME NoneIsNoKey == None \notin Key

Session ==
    [subject : Subjects, superadmin : BOOLEAN, created : Nat, expires : Nat,
     used : Nat, via : KeyIds, late : BOOLEAN, doomed : BOOLEAN]

SessionsTypeOK ==
    /\ now \in Nat
    /\ keys \in [KeyIds -> Key \cup {None}]
    /\ sessions \in [Tokens -> Session \cup {None}]
    /\ failed \in [Addresses -> Seq(Nat)]
    /\ cookies \in [Addresses -> [token : Tokens, until : Nat] \cup {None}]
    /\ login \in [address : Addresses, key : KeyIds \cup {None}] \cup {None}
    /\ cli \in Subjects \cup {None}

\* Nobody is signed in.
Start ==
    /\ now = 0
    /\ sessions = [t \in Tokens |-> None]
    /\ failed = [a \in Addresses |-> <<>>]
    /\ cookies = [a \in Addresses |-> None]
    /\ login = None
    /\ cli = None

SessionsInit == Start /\ keys = [k \in KeyIds |-> None]

-----------------------------------------------------------------------------

Earlier(a, b) == IF a <= b THEN a ELSE b

\* No handler is between two of its database calls.
EventLoopFree == login = None

ActiveKey(k) == keys[k] # None /\ ~keys[k].revoked

\* create_key: the secret's hash is stored, the key is handed out once.
CreateKey(k, s, superadmin) ==
    /\ keys[k] = None
    /\ keys' = [keys EXCEPT ![k] =
                  [subject |-> s, superadmin |-> superadmin, revoked |-> FALSE]]
    /\ UNCHANGED <<now, sessions, failed, cookies, login, cli>>

\* verify_key, for a key that exists, was revoked or is none of ours.
VerifyKey(k) ==
    IF k # None /\ ActiveKey(k)
    THEN [subject |-> keys[k].subject, superadmin |-> keys[k].superadmin]
    ELSE None

\* count_recent_failed_attempts of one address.
Recent(a) == {i \in DOMAIN failed[a] : failed[a][i] >= now - Window}
RecentFailures(a) == Cardinality(Recent(a))

\* Mutant: the failures of the current unit are not counted.
Locked_Late(a) == Cardinality({i \in Recent(a) : failed[a][i] < now}) >= MaxFailed

Locked(a) == RecentFailures(a) >= MaxFailed

\* POST /api/auth/login up to verify_key; a locked address is turned away
\* without a record.  None stands for a key that does not verify.
LoginVerify(a, k) ==
    /\ EventLoopFree
    /\ ~Locked(a)
    /\ login' = [address |-> a,
                 key |-> IF VerifyKey(k) = None THEN None ELSE k]
    /\ UNCHANGED <<now, keys, sessions, failed, cookies, cli>>

\* record_attempt of a failure.
LoginFails ==
    /\ login # None /\ login.key = None
    /\ failed' = [failed EXCEPT ![login.address] = Append(@, now)]
    /\ login' = None
    /\ UNCHANGED <<now, keys, sessions, cookies, cli>>

Unused(t) == sessions[t] = None /\ \A a \in Addresses : cookies[a] # None => cookies[a].token # t

\* create_session and the cookie.
LoginSucceeds(t) ==
    /\ login # None /\ login.key # None
    /\ Unused(t)
    /\ LET key == keys[login.key] IN
       sessions' = [sessions EXCEPT ![t] =
            [subject |-> key.subject, superadmin |-> key.superadmin,
             created |-> now, expires |-> now + IdleTimeout,
             used |-> now, via |-> login.key, late |-> key.revoked, doomed |-> FALSE]]
    /\ cookies' = [cookies EXCEPT ![login.address] = [token |-> t, until |-> now + IdleTimeout]]
    /\ login' = None
    /\ UNCHANGED <<now, keys, failed, cli>>

\* The browser still sends its cookie.
HasCookie(a) == cookies[a] # None /\ now <= cookies[a].until

\* POST /api/auth/logout: the row and the cookie go.
Logout(a) ==
    /\ EventLoopFree /\ HasCookie(a)
    /\ sessions' = [sessions EXCEPT ![cookies[a].token] = None]
    /\ cookies' = [cookies EXCEPT ![a] = None]
    /\ UNCHANGED <<now, keys, failed, login, cli>>

\* The row a request's cookie leads to, if it is still good.
SessionOf(a) ==
    IF HasCookie(a) /\ sessions[cookies[a].token] # None
        /\ now <= sessions[cookies[a].token].expires
    THEN sessions[cookies[a].token] ELSE None

\* Mutant: the cap on the lifetime is forgotten.
Slide_Uncapped(s) == now + IdleTimeout

\* new_expires of resolve_session.
Slide(s) == Earlier(now + IdleTimeout, s.created + MaxLifetime)

\* resolve_session: a row that is over is deleted, another one slides.
ResolveSession(a) ==
    /\ EventLoopFree /\ HasCookie(a) /\ sessions[cookies[a].token] # None
    /\ LET t == cookies[a].token
           s == sessions[t]
       IN sessions' = [sessions EXCEPT ![t] =
                         IF now > s.expires THEN None
                         ELSE [s EXCEPT !.used = now,
                                        !.expires = IF Slide(s) > @ THEN Slide(s) ELSE @]]
    /\ UNCHANGED <<now, keys, failed, cookies, login, cli>>

\* resolve: the session first, then the bearer key (None: no such header).
Resolve(a, k) ==
    IF SessionOf(a) # None
    THEN [subject |-> SessionOf(a).subject, superadmin |-> SessionOf(a).superadmin]
    ELSE VerifyKey(k)

Doom(s) == [t \in Tokens |-> IF sessions[t] # None /\ sessions[t].subject = s
                             THEN [sessions[t] EXCEPT !.doomed = TRUE] ELSE sessions[t]]

\* delete_sessions_for_subject.
Without(s) == [t \in Tokens |-> IF sessions[t] # None /\ sessions[t].subject = s
                                THEN None ELSE sessions[t]]

\* Mutant: only sessions that were opened with the revoked key are deleted.
RevokeKey_OwnSessions(k) ==
    /\ EventLoopFree /\ ActiveKey(k)
    /\ keys' = [keys EXCEPT ![k].revoked = TRUE]
    /\ sessions' = [t \in Tokens |-> IF sessions[t] # None /\ sessions[t].via = k
                                     THEN None ELSE Doom(keys[k].subject)[t]]
    /\ UNCHANGED <<now, failed, cookies, login, cli>>

\* revoke_key in the server.
RevokeKey(k) ==
    /\ EventLoopFree /\ ActiveKey(k)
    /\ keys' = [keys EXCEPT ![k].revoked = TRUE]
    /\ sessions' = Without(keys[k].subject)
    /\ UNCHANGED <<now, failed, cookies, login, cli>>

\* revoke_key in the command line: revoke_api_key, then the deletion.
CliRevokeKey(k) ==
    /\ cli = None /\ ActiveKey(k)
    /\ keys' = [keys EXCEPT ![k].revoked = TRUE]
    /\ sessions' = Doom(keys[k].subject)
    /\ cli' = keys[k].subject
    /\ UNCHANGED <<now, failed, cookies, login>>

CliDeleteSessions ==
    /\ cli # None
    /\ sessions' = Without(cli)
    /\ cli' = None
    /\ UNCHANGED <<now, keys, failed, cookies, login>>

\* One unit of time; failures that leave the window no longer count.
Tick ==
    /\ now < MaxTime
    /\ now' = now + 1
    /\ UNCHANGED <<keys, sessions, failed, cookies, login, cli>>

SessionsNext ==
    \/ \E k \in KeyIds, s \in Subjects, superadmin \in BOOLEAN : CreateKey(k, s, superadmin)
    \/ \E a \in Addresses, k \in KeyIds \cup {None} : LoginVerify(a, k)
    \/ LoginFails
    \/ \E t \in Tokens : LoginSucceeds(t)
    \/ \E a \in Addresses : Logout(a) \/ ResolveSession(a)
    \/ \E k \in KeyIds : RevokeKey(k) \/ CliRevokeKey(k)
    \/ CliDeleteSessions
    \/ Tick

SessionsSpec == SessionsInit /\ [][SessionsNext]_sessionVars

-----------------------------------------------------------------------------
(* Properties. *)

\* A session ends IdleTimeout after its last use and MaxLifetime after its
\* login, whichever comes first, through any number of extensions
\* (resolve_session).
SlidingExpiry ==
    \A t \in Tokens : sessions[t] # None =>
        sessions[t].expires = Earlier(sessions[t].used + IdleTimeout,
                                      sessions[t].created + MaxLifetime)

\* When a revocation is over, the subject has no session left from before it,
\* whichever of his keys opened it, and none was opened with the revoked key
\* by a login that began after the revocation (revoke_key, login).  A login
\* that had verified its key when another process revoked it is "late".
RevocationEndsSessions ==
    \A t \in Tokens :
        LET s == sessions[t] IN
        s # None /\ (s.doomed \/ (keys[s.via].revoked /\ ~s.late)) => cli = s.subject

\* At most MaxFailed wrong keys are tried from an address within the window
\* (login, count_recent_failed_attempts).
AttemptsBounded == \A a \in Addresses : RecentFailures(a) <= MaxFailed

\* The docstring of api_key_provider.py, "each successful session resolution
\* extends expires_at": a browser with a session that goes on still sends its
\* cookie.
ActiveClientStaysSignedIn ==
    \A a \in Addresses :
        cookies[a] # None /\ sessions[cookies[a].token] # None
        /\ now <= sessions[cookies[a].token].expires => HasCookie(a)
=============================================================================
