-------------------------------- MODULE Access --------------------------------
(*****************************************************************************)
(* Who may do what in multi-tenant mode: the middleware of                   *)
(* auth/authorization_middleware.py with the routes of auth/route_policy.py, *)
(* the handlers that check further (auth/grants_routes.py,                   *)
(* auth/admin_keys_routes.py, ui/api_routes.py), the grants of               *)
(* workspace/auth_db.py, and the operator at the command line or in a        *)
(* program of the framework.                                                 *)
(*                                                                           *)
(* A request is resolved to an identity, waits for its body when its         *)
(* workspace stands there, is checked against the grants, and waits again    *)
(* until its handler runs; between these steps other requests and the        *)
(* operator change the grants.  Sessions, which this module extends, and     *)
(* JWKS supply the identities.                                               *)
(*****************************************************************************)
EXTENDS Sessions, TLC

CONSTANTS
    Kids, TTL, MaxClock,  \* of JWKS
    Roots,       \* subjects with the superadmin claim or a first superadmin key
    Workspaces, Chats, Models,
    Routes,      \* routes that are asked for
    MaxRequests, \* bound: requests
    MaxOrders    \* bound: orders of the operator

VARIABLES
    clock, published, reachable, cached, fetchedAt, withdrawn, verified,
    provider, \* identity_provider of the configuration
    members,  \* table workspace_members
    models,   \* table model_access_by_role
    chats,    \* conversations; ids are random, so a deleted one never comes back
    requests, \* what each client waits for
    asked, orders,
    lifted,   \* history: admin grants that a superadmin or the operator made
    breach    \* history: a request was served that the grants never allowed

J == INSTANCE JWKS

signingVars == <<clock, published, reachable, cached, fetchedAt, withdrawn, verified>>
identities == <<sessionVars, signingVars>>
grants == <<members, models, lifted>>
vars == <<identities, provider, grants, chats, requests, asked, orders, breach>>

Roles == {"member", "admin"}
Clients == Addresses
Identity == [subject : Subjects, superadmin : BOOLEAN]
Chat == [workspace : Workspaces, owner : Subjects, live : BOOLEAN]
Request ==
    [who : Identity, route : Routes, target : Workspaces \cup Chats \cup {None},
     workspace : Workspaces \cup {None}, role : Roles \cup {None},
     stage : {"body", "handler"}, entitled : BOOLEAN]

ASSUME NoneIsNoChat == None \notin Chat

ASSUME AccessAssumption ==
    /\ Roots \subseteq Subjects
    /\ Routes \subseteq {"query", "new_chat", "open_chat", "delete_chat", "docs", "ingest",
                         "trigger", "grant", "revoke", "create_key", "revoke_key",
                         "model_access", "settings", "workspaces", "export"}
    /\ TTL \in Nat
    /\ MaxRequests \in Nat /\ MaxOrders \in Nat
    /\ None \notin Workspaces \cup Chats \cup Roles

TypeOK ==
    /\ SessionsTypeOK /\ J!TypeOK
    /\ provider \in {"api_key", "jwt"}
    /\ members \in [Workspaces -> [Subjects -> Roles \cup {None}]]
    /\ models \subseteq Roles \X Models
    /\ chats \in [Chats -> Chat \cup {None}]
    /\ requests \in [Clients -> Request \cup {None}]
    /\ lifted \subseteq Workspaces \X Subjects
    /\ breach \in BOOLEAN

FirstKey(s) == [subject |-> s, superadmin |-> s \in Roots, revoked |-> FALSE]

\* The operator has made some first keys and at most one grant.
Init ==
    /\ Start
    /\ J!Init
    /\ \/ /\ provider = "api_key" /\ published = {}
          /\ keys \in [KeyIds -> {FirstKey(s) : s \in Subjects} \cup {None}]
          /\ \E k \in KeyIds : keys[k] # None /\ keys[k].superadmin
       \/ provider = "jwt" /\ keys = [k \in KeyIds |-> None]
    /\ \E w \in Workspaces, s \in Subjects \ Roots, role \in Roles \cup {None} :
          /\ members = [x \in Workspaces |-> [y \in Subjects |->
                            IF x = w /\ y = s THEN role ELSE None]]
          /\ lifted = IF role = "admin" THEN {<<w, s>>} ELSE {}
    /\ models = {}
    /\ chats = [i \in Chats |-> None]
    /\ requests = [c \in Clients |-> None]
    /\ asked = 0 /\ orders = 0
    /\ breach = FALSE

-----------------------------------------------------------------------------
(* Route policies, in groups of routes with the same policy. *)

Policy(route) ==
    CASE route \in {"query", "new_chat"}      -> [role |-> "member", scope |-> "workspace", from |-> "body"]
      [] route \in {"open_chat", "delete_chat"} -> [role |-> "member", scope |-> "workspace", from |-> "session"]
      [] route = "docs"                       -> [role |-> "member", scope |-> "workspace", from |-> "path"]
      [] route = "ingest"                     -> [role |-> "admin", scope |-> "workspace", from |-> "body"]
      [] route = "trigger"                    -> [role |-> "admin", scope |-> "workspace", from |-> "path"]
      [] route \in {"grant", "revoke", "create_key", "revoke_key", "model_access", "settings"}
                                              -> [role |-> "admin", scope |-> "global_admin", from |-> None]
      [] route = "workspaces"                 -> [role |-> "admin", scope |-> "superadmin_only", from |-> None]
      [] route = "export"                     -> [role |-> "member", scope |-> "authenticated", from |-> None]

Rank(role) == IF role = "admin" THEN 1 ELSE 0

GetRole(s, w) == members[w][s]
IsGlobalAdmin(s) == \E w \in Workspaces : members[w][s] = "admin"
IsModelAllowed(role, m) == <<role, m>> \in models

\* _is_elevated_subject.
Elevated(s) ==
    \/ IsGlobalAdmin(s)
    \/ \E k \in KeyIds : ActiveKey(k) /\ keys[k].superadmin /\ keys[k].subject = s

\* get_session.
Exists(i) == chats[i] # None /\ chats[i].live

\* The rules of the documentation, read off the grants g and the conversations
\* cs: what a caller may have served, whatever way the request takes through
\* the code.
MayServe(r, g, cs) ==
    LET s == r.who.subject
        policy == Policy(r.route)
        role == IF r.workspace = None THEN None ELSE g[r.workspace][s]
        own == r.route = "delete_chat" => role = "admin" \/ cs[r.target].owner = s
    IN \/ r.who.superadmin
       \/ policy.scope = "authenticated"
       \/ policy.scope = "global_admin" /\ \E w \in Workspaces : g[w][s] = "admin"
       \/ policy.scope = "workspace" /\ policy.role = "admin" /\ role = "admin"
       \/ policy.scope = "workspace" /\ policy.role = "member" /\ role # None /\ own

Graded(rs, g) ==
    [c \in Clients |->
        IF rs[c] = None THEN None
        ELSE [rs[c] EXCEPT !.entitled = @ \/ MayServe(rs[c], g, chats)]]

-----------------------------------------------------------------------------
(* The middleware. *)

\* The request goes on to its handler in this workspace and with this role.
Pass(r, w, role) == [r EXCEPT !.workspace = w, !.role = role, !.stage = "handler"]

\* Mutant: any role will do.
CheckRole_AnyRole(r, w) ==
    LET role == IF r.who.superadmin THEN "admin" ELSE GetRole(r.who.subject, w)
    IN IF role = None THEN None ELSE Pass(r, w, role)

\* Role and rank of a workspace route; None is 403.
CheckRole(r, w) ==
    LET role == IF r.who.superadmin THEN "admin" ELSE GetRole(r.who.subject, w)
    IN IF role = None \/ Rank(role) < Rank(Policy(r.route).role)
       THEN None ELSE Pass(r, w, role)

\* dispatch after the identity is known; a chat leads to its workspace.
Dispatch(r) ==
    LET policy == Policy(r.route) IN
    CASE policy.scope = "authenticated" -> Pass(r, None, "member")
      [] policy.scope = "superadmin_only" ->
            IF r.who.superadmin THEN Pass(r, None, "admin") ELSE None
      [] policy.scope = "global_admin" ->
            IF r.who.superadmin \/ IsGlobalAdmin(r.who.subject) THEN Pass(r, None, "admin") ELSE None
      [] policy.scope = "workspace" /\ policy.from = "session" ->
            IF ~Exists(r.target) THEN None ELSE CheckRole(r, chats[r.target].workspace)
      [] policy.scope = "workspace" /\ policy.from = "path" -> CheckRole(r, r.target)
      [] policy.scope = "workspace" /\ policy.from = "body" -> [r EXCEPT !.workspace = r.target]

Targets(route) ==
    LET policy == Policy(route) IN
    IF policy.scope # "workspace" THEN {None}
    ELSE IF policy.from = "session" THEN Chats ELSE Workspaces

\* provider.resolve: a session or a bearer key, or a signed token.
ResolvedByKey(c, who) ==
    /\ provider = "api_key"
    /\ \E k \in KeyIds \cup {None} : who = Resolve(c, k)
    /\ IF HasCookie(c) /\ sessions[cookies[c].token] # None
       THEN ResolveSession(c) ELSE UNCHANGED sessionVars
    /\ UNCHANGED signingVars

ResolvedByToken(who) ==
    /\ provider = "jwt"
    /\ \E kid \in Kids, s \in Subjects, again \in BOOLEAN :
          /\ J!Verify(kid, again)
          /\ who = IF J!Answer(kid, again) = "accepted"
                   THEN [subject |-> s, superadmin |-> s \in Roots] ELSE None
    /\ UNCHANGED sessionVars

Arrive(c, route, target) ==
    /\ EventLoopFree /\ requests[c] = None /\ asked < MaxRequests
    /\ asked' = asked + 1
    /\ \E who \in Identity \cup {None} :
          /\ ResolvedByKey(c, who) \/ ResolvedByToken(who)
          /\ requests' =
                IF who = None THEN requests
                ELSE LET r == Dispatch([who |-> who, route |-> route, target |-> target,
                                        workspace |-> None, role |-> None,
                                        stage |-> "body", entitled |-> FALSE])
                     IN IF r = None THEN requests
                        ELSE Graded([requests EXCEPT ![c] = r], members)
    /\ UNCHANGED <<provider, grants, chats, orders, breach>>

\* The body is there.
BodyRead(c) ==
    /\ EventLoopFree /\ requests[c] # None /\ requests[c].stage = "body"
    /\ requests' = [requests EXCEPT ![c] = CheckRole(@, @.workspace)]
    /\ UNCHANGED <<identities, provider, grants, chats, asked, orders, breach>>

-----------------------------------------------------------------------------
(* The handlers. *)

Ready(c, route) ==
    /\ EventLoopFree
    /\ requests[c] # None /\ requests[c].stage = "handler" /\ requests[c].route = route

Ends(c) == [requests EXCEPT ![c] = None]

\* 403, 404 and 400 of a handler, or nothing to do.
Refused(c) ==
    /\ requests' = Ends(c)
    /\ UNCHANGED <<identities, provider, grants, chats, asked, orders, breach>>

\* The handler does its work; g are the grants afterwards.
Served(c, g) ==
    /\ breach' = (breach \/ ~(requests[c].entitled \/ MayServe(requests[c], members, chats)))
    /\ requests' = Graded(Ends(c), g)
    /\ UNCHANGED <<provider, asked, orders>>

ServedHere(c) == Served(c, members) /\ UNCHANGED <<identities, grants>>

Caller(c) == requests[c].who

\* grant_access_bulk.
Upsert(ws, s, role) ==
    [w \in Workspaces |-> IF w \in ws THEN [members[w] EXCEPT ![s] = role] ELSE members[w]]

\* Mutant: every global admin may grant every role.
MayGrant_Any(c, role) == TRUE

MayGrant(c, role) == role # "admin" \/ Caller(c).superadmin

Lift(ws, s, role, bySuper) ==
    lifted' = IF role = "admin" /\ bySuper THEN lifted \cup (ws \X {s}) ELSE lifted \ (ws \X {s})

\* _validate_role.
ValidRole(role) == role \in Roles

Grant(c, ws, s, role) ==
    /\ Ready(c, "grant")
    /\ IF MayGrant(c, role) /\ ValidRole(role)
       THEN /\ members' = Upsert(ws, s, role)
            /\ Lift(ws, s, role, Caller(c).superadmin)
            /\ Served(c, members')
            /\ UNCHANGED <<identities, models, chats>>
       ELSE Refused(c)

\* No list of workspaces (None) means all of them, an empty one none, but the
\* check takes both for all.
RevokeAccess(c, ws, s) ==
    /\ Ready(c, "revoke")
    /\ LET touched == IF ws = None \/ ws = {} THEN Workspaces ELSE ws
           deleted == IF ws = None THEN Workspaces ELSE ws
       IN IF Caller(c).superadmin \/ \A w \in touched : members[w][s] # "admin"
          THEN /\ members' = Upsert(deleted, s, None)
               /\ Lift(deleted, s, None, FALSE)
               /\ Served(c, members')
               /\ UNCHANGED <<identities, models, chats>>
          ELSE Refused(c)

CreateKeyRoute(c, k, s) ==
    /\ Ready(c, "create_key") /\ provider = "api_key"
    /\ IF Caller(c).superadmin \/ ~Elevated(s)
       THEN /\ CreateKey(k, s, FALSE)
            /\ Served(c, members)
            /\ UNCHANGED <<signingVars, grants, chats>>
       ELSE Refused(c)

RevokeKeyRoute(c, k) ==
    /\ Ready(c, "revoke_key") /\ provider = "api_key"
    /\ IF keys[k] # None /\ ~Caller(c).superadmin /\ Elevated(keys[k].subject) THEN Refused(c)
       ELSE /\ IF ActiveKey(k) THEN RevokeKey(k) ELSE UNCHANGED sessionVars
            /\ Served(c, members)
            /\ UNCHANGED <<signingVars, grants, chats>>

ModelAccess(c, role, m) ==
    /\ Ready(c, "model_access")
    /\ \/ models' = models \cup {<<role, m>>}
       \/ models' = models \ {<<role, m>>}
    /\ Served(c, members)
    /\ UNCHANGED <<identities, members, lifted, chats>>

\* POST /query with a conversation i: unknown ones and models that the role
\* may not use are refused.
Query(c, i, m) ==
    /\ Ready(c, "query")
    /\ IF Exists(i) /\ (Caller(c).superadmin \/ IsModelAllowed(requests[c].role, m))
       THEN ServedHere(c) /\ UNCHANGED chats
       ELSE Refused(c)

NewChat(c, i) ==
    /\ Ready(c, "new_chat") /\ chats[i] = None
    /\ chats' = [chats EXCEPT ![i] = 
                   [workspace |-> requests[c].workspace, owner |-> Caller(c).subject, live |-> TRUE]]
    /\ ServedHere(c)

OpenChat(c) ==
    /\ Ready(c, "open_chat")
    /\ IF ~Exists(requests[c].target) THEN Refused(c)
       ELSE ServedHere(c) /\ UNCHANGED chats

\* DELETE /sessions/{id}; nothing happens to one that is gone already.
DeleteChat(c) ==
    /\ Ready(c, "delete_chat")
    /\ LET i == requests[c].target IN
       IF ~Exists(i) \/ (requests[c].role # "admin" /\ chats[i].owner # Caller(c).subject)
       THEN Refused(c)
       ELSE chats' = [chats EXCEPT ![i].live = FALSE] /\ ServedHere(c)

\* Routes whose work lies elsewhere.
OtherRoute(c) ==
    /\ \E route \in {"docs", "ingest", "trigger", "settings", "workspaces", "export"} : Ready(c, route)
    /\ ServedHere(c) /\ UNCHANGED chats

Handle(c) ==
    \/ \E ws \in SUBSET Workspaces, s \in Subjects, role \in Roles \cup {"owner"} :
          Grant(c, ws, s, role)
    \/ \E ws \in (SUBSET Workspaces) \cup {None}, s \in Subjects : RevokeAccess(c, ws, s)
    \/ \E k \in KeyIds, s \in Subjects : CreateKeyRoute(c, k, s)
    \/ \E k \in KeyIds : RevokeKeyRoute(c, k)
    \/ \E role \in Roles, m \in Models : ModelAccess(c, role, m)
    \/ \E i \in Chats, m \in Models : Query(c, i, m)
    \/ \E i \in Chats : NewChat(c, i)
    \/ OpenChat(c) \/ DeleteChat(c) \/ OtherRoute(c)

-----------------------------------------------------------------------------
(* The operator: cmd_grant_access, cmd_revoke_access, cmd_auth_create_key, *)
(* cmd_auth_revoke_key, cmd_grant_model_access over the framework.         *)

Order(action) ==
    /\ orders < MaxOrders /\ orders' = orders + 1
    /\ action
    /\ UNCHANGED <<provider, chats, asked, breach>>

OperatorGrants(ws, s, role) ==
    /\ members' = Upsert(ws, s, role)
    /\ Lift(ws, s, role, TRUE)
    /\ requests' = Graded(requests, members')
    /\ UNCHANGED <<identities, models>>

OperatorAllows(role, m) ==
    /\ models' = models \cup {<<role, m>>}
    /\ UNCHANGED <<identities, members, lifted, requests>>

OperatorKeys ==
    /\ \/ \E k \in KeyIds, s \in Subjects, superadmin \in BOOLEAN : CreateKey(k, s, superadmin)
       \/ \E k \in KeyIds : CliRevokeKey(k)
    /\ UNCHANGED <<signingVars, grants, requests>>

\* The company's identity provider changes its keys or goes down.
ProviderChanges ==
    /\ \/ \E kid \in Kids : J!Publish(kid) \/ J!Withdraw(kid)
       \/ J!ChangeReachable
    /\ UNCHANGED <<sessionVars, grants, requests>>

Operator ==
    \/ \E ws \in SUBSET Workspaces, s \in Subjects, role \in Roles \cup {None} :
          ws # {} /\ Order(OperatorGrants(ws, s, role))
    \/ \E role \in Roles, m \in Models : Order(OperatorAllows(role, m))
    \/ provider = "api_key" /\ Order(OperatorKeys)
    \/ provider = "jwt" /\ Order(ProviderChanges)

\* POST /api/auth/login and /logout are requests too.
SignInOrOut ==
    /\ provider = "api_key" /\ asked < MaxRequests
    /\ asked' = asked + 1
    /\ \E c \in Clients :
          \/ \E k \in KeyIds : LoginVerify(c, k)
          \/ Logout(c)
    /\ UNCHANGED <<signingVars, provider, grants, chats, requests, orders, breach>>

\* What goes on by itself: the rest of a login, a deletion of the command
\* line, time.
IdentitySteps ==
    /\ \/ /\ provider = "api_key"
          /\ LoginFails \/ CliDeleteSessions \/ Tick \/ \E t \in Tokens : LoginSucceeds(t)
          /\ UNCHANGED signingVars
       \/ provider = "jwt" /\ J!Tick /\ UNCHANGED sessionVars
    /\ UNCHANGED <<provider, grants, chats, requests, asked, orders, breach>>

Next ==
    \/ \E c \in Clients, route \in Routes : \E target \in Targets(route) : Arrive(c, route, target)
    \/ \E c \in Clients : BodyRead(c) \/ Handle(c)
    \/ Operator
    \/ SignInOrOut
    \/ IdentitySteps

Spec == Init /\ [][Next]_vars

-----------------------------------------------------------------------------
(* Properties. *)

\* Every request that is served was allowed by the rules at some moment
\* between its arrival and its handler: what was revoked before it arrived is
\* never used (dispatch, get_role, the handlers).
ServedAreEntitled == ~breach

\* An admin grant goes back to a superadmin or to the operator: no chain of
\* requests of plain admins makes another admin (grant, revoke, create_key).
AdminsComeFromSuperadmins ==
    \A w \in Workspaces, s \in Subjects : members[w][s] = "admin" => <<w, s>> \in lifted

\* A token is accepted only with a key in force (get_jwk), see JWKS.
SignedInForce == J!SignedInForce
=============================================================================
