----------------------------- MODULE Access_proofs -----------------------------
(****************************************************************************)
(* Proofs about Access, and about Sessions by itself and inside Access, for *)
(* any number of people, workspaces, conversations, keys and clients: where *)
(* admin grants come from, with which signing keys tokens are accepted,     *)
(* that nothing is served that was never allowed, when a session ends, and  *)
(* that a revocation leaves none behind.                                    *)
(****************************************************************************)
EXTENDS Access, FiniteSetTheorems, TLAPS

-----------------------------------------------------------------------------
(* Grants. *)

MembersType == members \in [Workspaces -> [Subjects -> Roles \cup {None}]]

LEMMA NoneIsNoRole == None \notin Roles /\ None # "admin" /\ None # "member"
BY AccessAssumption DEF Roles

\* One write of a role for a subject, in some workspaces.
Write(ws, s, role, bySuper) ==
    /\ members' = Upsert(ws, s, role)
    /\ Lift(ws, s, role, bySuper)

\* The grants change only through such a write, and an admin grant only by the
\* hand of a superadmin or of the operator.
GrantsStep ==
    \/ UNCHANGED <<members, lifted>>
    \/ \E ws \in SUBSET Workspaces, s \in Subjects, role \in Roles \cup {None}, b \in BOOLEAN :
          Write(ws, s, role, b) /\ (role = "admin" => b)

LEMMA HandlersWriteGrants ==
    ASSUME NEW c \in Clients, Handle(c)
    PROVE  GrantsStep
<1>1. ASSUME NEW ws \in SUBSET Workspaces, NEW s \in Subjects, NEW role \in Roles \cup {"owner"},
             Grant(c, ws, s, role)
      PROVE  GrantsStep
  <2>1. CASE MayGrant(c, role) /\ ValidRole(role)
    <3>1. members' = Upsert(ws, s, role) /\ Lift(ws, s, role, Caller(c).superadmin)
      BY <1>1, <2>1 DEF Grant
    <3>2. role \in Roles
      BY <2>1 DEF ValidRole
    <3>3. CASE role = "admin"
      <4>1. Caller(c).superadmin
        BY <2>1, <3>3 DEF MayGrant
      <4>2. Write(ws, s, role, TRUE)
        BY <3>1, <4>1 DEF Write, Lift
      <4>3. QED
        BY <3>2, <4>2 DEF GrantsStep
    <3>4. CASE role # "admin"
      <4>1. Write(ws, s, role, FALSE)
        BY <3>1, <3>4 DEF Write, Lift
      <4>2. role \in Roles \cup {None} /\ (role = "admin" => FALSE)
        BY <3>2, <3>4
      <4>3. QED
        BY <4>1, <4>2, Zenon DEF GrantsStep
    <3>5. QED
      BY <3>3, <3>4
  <2>2. CASE ~(MayGrant(c, role) /\ ValidRole(role))
    BY <1>1, <2>2 DEF Grant, Refused, grants, GrantsStep
  <2>3. QED
    BY <2>1, <2>2
<1>2. ASSUME NEW ws \in (SUBSET Workspaces) \cup {None}, NEW s \in Subjects,
             RevokeAccess(c, ws, s)
      PROVE  GrantsStep
  <2> DEFINE deleted == IF ws = None THEN Workspaces ELSE ws
  <2>1. deleted \in SUBSET Workspaces
    OBVIOUS
  <2>2. \/ members' = Upsert(deleted, s, None) /\ Lift(deleted, s, None, FALSE)
        \/ UNCHANGED <<members, lifted>>
    BY <1>2 DEF RevokeAccess, Refused, grants
  <2> HIDE DEF deleted
  <2>3. CASE members' = Upsert(deleted, s, None) /\ Lift(deleted, s, None, FALSE)
    <3>1. Write(deleted, s, None, FALSE) /\ None \in Roles \cup {None}
      BY <2>3 DEF Write
    <3>2. QED
      BY <2>1, <3>1, NoneIsNoRole DEF GrantsStep
  <2>4. QED
    BY <2>2, <2>3 DEF GrantsStep
<1>3. CASE \/ \E k \in KeyIds, s \in Subjects : CreateKeyRoute(c, k, s)
           \/ \E k \in KeyIds : RevokeKeyRoute(c, k)
           \/ \E role \in Roles, m \in Models : ModelAccess(c, role, m)
           \/ \E i \in Chats, m \in Models : Query(c, i, m)
           \/ \E i \in Chats : NewChat(c, i)
           \/ OpenChat(c) \/ DeleteChat(c) \/ OtherRoute(c)
  BY <1>3 DEF CreateKeyRoute, RevokeKeyRoute, ModelAccess, Query, NewChat, OpenChat, DeleteChat,
              OtherRoute, Refused, ServedHere, grants, GrantsStep
<1>4. QED
  BY <1>1, <1>2, <1>3 DEF Handle

LEMMA OperatorWritesGrants == Operator => GrantsStep
<1> SUFFICES ASSUME Operator PROVE GrantsStep
  OBVIOUS
<1>1. ASSUME NEW ws \in SUBSET Workspaces, NEW s \in Subjects, NEW role \in Roles \cup {None},
             Order(OperatorGrants(ws, s, role))
      PROVE  GrantsStep
  <2>1. Write(ws, s, role, TRUE)
    BY <1>1 DEF Order, OperatorGrants, Write
  <2>2. QED
    BY <2>1 DEF GrantsStep
<1>2. CASE \/ \E role \in Roles, m \in Models : Order(OperatorAllows(role, m))
           \/ Order(OperatorKeys) \/ Order(ProviderChanges)
  BY <1>2 DEF Order, OperatorAllows, OperatorKeys, ProviderChanges, grants, GrantsStep
<1>3. QED
  BY <1>1, <1>2 DEF Operator

LEMMA NextWritesGrants == [Next]_vars => GrantsStep
<1>1. ASSUME NEW c \in Clients, NEW route \in Routes, NEW target \in Targets(route),
             Arrive(c, route, target)
      PROVE  GrantsStep
  BY <1>1 DEF Arrive, grants, GrantsStep
<1>2. ASSUME NEW c \in Clients, BodyRead(c) PROVE GrantsStep
  BY <1>2 DEF BodyRead, grants, GrantsStep
<1>3. SignInOrOut \/ IdentitySteps => GrantsStep
  BY DEF SignInOrOut, IdentitySteps, grants, GrantsStep
<1>4. UNCHANGED vars => GrantsStep
  BY DEF vars, grants, GrantsStep
<1>5. QED
  BY <1>1, <1>2, <1>3, <1>4, HandlersWriteGrants, OperatorWritesGrants DEF Next

GrantsInv == MembersType /\ AdminsComeFromSuperadmins

LEMMA GrantsInit == Init => GrantsInv
<1> SUFFICES ASSUME Init PROVE GrantsInv
  OBVIOUS
<1>1. PICK w \in Workspaces, s \in Subjects \ Roots, role \in Roles \cup {None} :
         /\ members = [x \in Workspaces |-> [y \in Subjects |->
                           IF x = w /\ y = s THEN role ELSE None]]
         /\ lifted = IF role = "admin" THEN {<<w, s>>} ELSE {}
  BY DEF Init
<1>2. MembersType
  BY <1>1 DEF MembersType
<1>3. AdminsComeFromSuperadmins
  BY <1>1, NoneIsNoRole DEF AdminsComeFromSuperadmins
<1>4. QED
  BY <1>2, <1>3 DEF GrantsInv

LEMMA GrantsKept == GrantsInv /\ [Next]_vars => GrantsInv'
<1> SUFFICES ASSUME GrantsInv, GrantsStep PROVE GrantsInv'
  BY NextWritesGrants
<1>1. CASE UNCHANGED <<members, lifted>>
  BY <1>1 DEF GrantsInv, MembersType, AdminsComeFromSuperadmins
<1>2. ASSUME NEW ws \in SUBSET Workspaces, NEW s \in Subjects, NEW role \in Roles \cup {None},
             NEW b \in BOOLEAN, Write(ws, s, role, b), role = "admin" => b
      PROVE  GrantsInv'
  <2>1. members' = [w \in Workspaces |-> IF w \in ws THEN [members[w] EXCEPT ![s] = role]
                                         ELSE members[w]]
    BY <1>2 DEF Write, Upsert
  <2>2. MembersType'
    BY <2>1 DEF GrantsInv, MembersType
  <2>3. ASSUME NEW w \in Workspaces, NEW t \in Subjects, members'[w][t] = "admin"
        PROVE  <<w, t>> \in lifted'
    <3>1. CASE w \in ws /\ t = s
      <4>1. role = "admin"
        BY <2>1, <2>3, <3>1 DEF GrantsInv, MembersType
      <4>2. lifted' = lifted \cup (ws \X {s})
        BY <1>2, <4>1 DEF Write, Lift
      <4>3. QED
        BY <3>1, <4>2
    <3>2. CASE ~(w \in ws /\ t = s)
      <4>1. members[w][t] = "admin"
        BY <2>1, <2>3, <3>2 DEF GrantsInv, MembersType
      <4>2. <<w, t>> \in lifted /\ <<w, t>> \notin ws \X {s}
        BY <3>2, <4>1 DEF GrantsInv, AdminsComeFromSuperadmins
      <4>3. QED
        BY <1>2, <4>2 DEF Write, Lift
    <3>3. QED
      BY <3>1, <3>2
  <2>4. QED
    BY <2>2, <2>3 DEF GrantsInv, AdminsComeFromSuperadmins
<1>3. QED
  BY <1>1, <1>2 DEF GrantsStep

LEMMA GrantsInvariant == Spec => []GrantsInv
BY GrantsInit, GrantsKept, PTL DEF Spec

\* No chain of requests of people who are not superadmins makes an admin.
THEOREM AdminsAreMadeBySuperadmins == Spec => []AdminsComeFromSuperadmins
<1>1. GrantsInv => AdminsComeFromSuperadmins
  BY DEF GrantsInv
<1>2. QED
  BY <1>1, GrantsInvariant, PTL

-----------------------------------------------------------------------------
(* Signing keys. *)

SigningStep ==
    \/ UNCHANGED signingVars
    \/ \E kid \in Kids, again \in BOOLEAN : J!Verify(kid, again)
    \/ \E kid \in Kids : J!Publish(kid) \/ J!Withdraw(kid)
    \/ J!ChangeReachable
    \/ J!Tick

LEMMA HandlersLeaveSigning ==
    ASSUME NEW c \in Clients, Handle(c)
    PROVE  UNCHANGED signingVars
BY DEF Handle, Grant, RevokeAccess, CreateKeyRoute, RevokeKeyRoute, ModelAccess, Query, NewChat,
       OpenChat, DeleteChat, OtherRoute, Refused, ServedHere, identities

LEMMA NextSigns == [Next]_vars => SigningStep
<1>1. ASSUME NEW c \in Clients, NEW route \in Routes, NEW target \in Targets(route),
             Arrive(c, route, target)
      PROVE  SigningStep
  BY <1>1 DEF Arrive, ResolvedByKey, ResolvedByToken, SigningStep
<1>2. ASSUME NEW c \in Clients, BodyRead(c) PROVE SigningStep
  BY <1>2 DEF BodyRead, identities, SigningStep
<1>3. Operator => SigningStep
  BY DEF Operator, Order, OperatorGrants, OperatorAllows, OperatorKeys, ProviderChanges,
         identities, SigningStep
<1>4. SignInOrOut \/ IdentitySteps => SigningStep
  BY DEF SignInOrOut, IdentitySteps, SigningStep
<1>5. UNCHANGED vars => SigningStep
  BY DEF vars, identities, SigningStep
<1>6. QED
  BY <1>1, <1>2, <1>3, <1>4, <1>5, HandlersLeaveSigning DEF Next, SigningStep

\* A key in the cache was in force when the cache was filled, or later.
SigningInv ==
    /\ clock \in Nat /\ fetchedAt \in Nat /\ fetchedAt <= clock
    /\ withdrawn \in [Kids -> Nat]
    /\ \A kid \in Kids \cap cached : kid \in published \/ withdrawn[kid] >= fetchedAt
    /\ verified # None =>
         /\ verified.kid \in Kids /\ verified.at \in Nat /\ verified.at <= clock
         /\ SignedInForce

LEMMA SigningInit == Init => SigningInv
BY DEF Init, J!Init, SigningInv

LEMMA SigningKept == SigningInv /\ [Next]_vars => SigningInv'
<1> SUFFICES ASSUME SigningInv, SigningStep PROVE SigningInv'
  BY NextSigns
<1> USE DEF SigningInv, SignedInForce, J!SignedInForce
<1>1. CASE UNCHANGED signingVars
  BY <1>1 DEF signingVars
<1>2. ASSUME NEW kid \in Kids, NEW again \in BOOLEAN, J!Verify(kid, again) PROVE SigningInv'
  <2>1. CASE J!MustFetch(kid) /\ reachable
    BY <1>2, <2>1 DEF J!Verify, J!Answer
  <2>2. CASE J!MustFetch(kid) /\ ~reachable
    BY <1>2, <2>2 DEF J!Verify, J!Answer
  <2>3. CASE ~J!MustFetch(kid)
    <3>1. kid \in cached /\ clock - fetchedAt <= TTL
      BY <2>3, AccessAssumption DEF J!MustFetch
    <3>2. /\ cached' = cached /\ fetchedAt' = fetchedAt
          /\ verified' = [kid |-> kid, at |-> clock]
          /\ UNCHANGED <<clock, published, withdrawn>>
      BY <1>2, <2>3 DEF J!Verify, J!Answer
    <3>3. kid \in published \/ clock - withdrawn[kid] <= TTL
      BY <3>1, AccessAssumption
    <3>4. QED
      BY <3>2, <3>3
  <2>4. QED
    BY <2>1, <2>2, <2>3
<1>3. ASSUME NEW kid \in Kids, J!Publish(kid) PROVE SigningInv'
  BY <1>3 DEF J!Publish
<1>4. ASSUME NEW kid \in Kids, J!Withdraw(kid) PROVE SigningInv'
  BY <1>4, AccessAssumption DEF J!Withdraw
<1>5. CASE J!ChangeReachable
  BY <1>5 DEF J!ChangeReachable
<1>6. CASE J!Tick
  BY <1>6 DEF J!Tick
<1>7. QED
  BY <1>1, <1>2, <1>3, <1>4, <1>5, <1>6 DEF SigningStep

\* A token is accepted at most TTL after its key was withdrawn, however the
\* provider changes its keys and whenever it can be reached.
THEOREM TokensAreSignedInForce == Spec => []SignedInForce
<1>1. SigningInv => SignedInForce
  BY DEF SigningInv, SignedInForce, J!SignedInForce
<1>2. Spec => []SigningInv
  BY SigningInit, SigningKept, PTL DEF Spec
<1>3. QED
  BY <1>1, <1>2, PTL

-----------------------------------------------------------------------------
(* What is served. *)

LEMMA PolicyOf ==
    \A route \in Routes :
        LET policy == Policy(route) IN
        /\ policy.role \in Roles
        /\ policy.scope \in {"authenticated", "superadmin_only", "global_admin", "workspace"}
        /\ policy.scope = "workspace" => policy.from \in {"session", "path", "body"}
        /\ route = "delete_chat" => policy.scope = "workspace" /\ policy.role = "member"
                                    /\ policy.from = "session"
<1> SUFFICES ASSUME NEW route \in Routes
             PROVE  LET policy == Policy(route) IN
                    /\ policy.role \in Roles
                    /\ policy.scope \in {"authenticated", "superadmin_only", "global_admin", "workspace"}
                    /\ policy.scope = "workspace" => policy.from \in {"session", "path", "body"}
                    /\ route = "delete_chat" => policy.scope = "workspace" /\ policy.role = "member"
                                                /\ policy.from = "session"
  OBVIOUS
<1>1. CASE route \in {"query", "new_chat"}
  <2>1. Policy(route) = [role |-> "member", scope |-> "workspace", from |-> "body"]
    BY <1>1 DEF Policy
  <2>2. QED
    BY <1>1, <2>1 DEF Roles
<1>2. CASE route \in {"open_chat", "delete_chat"}
  <2>1. Policy(route) = [role |-> "member", scope |-> "workspace", from |-> "session"]
    BY <1>2 DEF Policy
  <2>2. QED
    BY <1>2, <2>1 DEF Roles
<1>3. CASE route = "docs"
  <2>1. Policy(route) = [role |-> "member", scope |-> "workspace", from |-> "path"]
    BY <1>3 DEF Policy
  <2>2. QED
    BY <1>3, <2>1 DEF Roles
<1>4. CASE route = "ingest"
  <2>1. Policy(route) = [role |-> "admin", scope |-> "workspace", from |-> "body"]
    BY <1>4 DEF Policy
  <2>2. QED
    BY <1>4, <2>1 DEF Roles
<1>5. CASE route = "trigger"
  <2>1. Policy(route) = [role |-> "admin", scope |-> "workspace", from |-> "path"]
    BY <1>5 DEF Policy
  <2>2. QED
    BY <1>5, <2>1 DEF Roles
<1>6. CASE route \in {"grant", "revoke", "create_key", "revoke_key", "model_access", "settings"}
  <2>1. Policy(route) = [role |-> "admin", scope |-> "global_admin", from |-> None]
    BY <1>6 DEF Policy
  <2>2. QED
    BY <1>6, <2>1 DEF Roles
<1>7. CASE route = "workspaces"
  <2>1. Policy(route) = [role |-> "admin", scope |-> "superadmin_only", from |-> None]
    BY <1>7 DEF Policy
  <2>2. QED
    BY <1>7, <2>1 DEF Roles
<1>8. CASE route = "export"
  <2>1. Policy(route) = [role |-> "member", scope |-> "authenticated", from |-> None]
    BY <1>8 DEF Policy
  <2>2. QED
    BY <1>8, <2>1 DEF Roles
<1>9. QED
  BY <1>1, <1>2, <1>3, <1>4, <1>5, <1>6, <1>7, <1>8, AccessAssumption

GrantsTable == [Workspaces -> [Subjects -> Roles \cup {None}]]
ChatsTable == [Chats -> Chat \cup {None}]

\* A member's request to delete somebody else's conversation, which its handler
\* will turn down.
Others(r, cs) ==
    r.route = "delete_chat" /\ r.role # "admin" /\ cs[r.target].owner # r.who.subject

\* Where a request stands, and what for.
Placed(r, cs) ==
    /\ r \in Request
    /\ r.route = "delete_chat" => r.target \in Chats /\ cs[r.target] # None
    /\ Policy(r.route).scope = "workspace" => r.workspace \in Workspaces
    /\ r.stage = "body" => Policy(r.route).scope = "workspace"

\* A request is known to be entitled as soon as the rules allow it, and only
\* one that was gets as far as being served.
RequestGood(r, g, cs) ==
    /\ Placed(r, cs)
    /\ MayServe(r, g, cs) => r.entitled
    /\ r.stage = "handler" => r.entitled \/ Others(r, cs)

ServeInv ==
    /\ GrantsInv
    /\ chats \in ChatsTable
    /\ requests \in [Clients -> Request \cup {None}]
    /\ breach = FALSE
    /\ \A c \in Clients : requests[c] # None => RequestGood(requests[c], members, chats)

\* The rules see of the conversations only who owns the one to be deleted.
LEMMA RulesSeeOwners ==
    ASSUME NEW r, NEW g, NEW cs, NEW ds,
           r.route = "delete_chat" => cs[r.target].owner = ds[r.target].owner
    PROVE  MayServe(r, g, cs) <=> MayServe(r, g, ds)
BY DEF MayServe

LEMMA RulesIgnoreHistory ==
    ASSUME NEW r \in Request, NEW p, NEW g, NEW cs,
           p.who = r.who, p.route = r.route, p.target = r.target, p.workspace = r.workspace
    PROVE  MayServe(p, g, cs) <=> MayServe(r, g, cs)
BY DEF MayServe

LEMMA GradedGood ==
    ASSUME NEW rs, NEW g, NEW c \in Clients, rs[c] # None, Placed(rs[c], chats),
           rs[c].stage = "handler" =>
               rs[c].entitled \/ MayServe(rs[c], g, chats) \/ Others(rs[c], chats)
    PROVE  RequestGood(Graded(rs, g)[c], g, chats)
<1> DEFINE r == rs[c]
           e == r.entitled \/ MayServe(r, g, chats)
           p == [r EXCEPT !.entitled = e]
<1>1. Graded(rs, g)[c] = p
  BY DEF Graded
<1>2. r \in Request /\ e \in BOOLEAN
  BY DEF Placed, MayServe
<1> HIDE DEF e
<1>3. /\ p \in Request /\ p.entitled = e
      /\ p.who = r.who /\ p.route = r.route /\ p.target = r.target
      /\ p.workspace = r.workspace /\ p.role = r.role /\ p.stage = r.stage
  BY <1>2 DEF Request
<1> HIDE DEF p
<1>4. MayServe(p, g, chats) <=> MayServe(r, g, chats)
  BY <1>2, <1>3, RulesIgnoreHistory
<1>5. Placed(p, chats)
  BY <1>3 DEF Placed
<1>6. MayServe(p, g, chats) => p.entitled
  BY <1>3, <1>4 DEF e
<1>7. p.stage = "handler" => p.entitled \/ Others(p, chats)
  BY <1>3 DEF e, Others
<1>8. QED
  BY <1>1, <1>5, <1>6, <1>7 DEF RequestGood

\* Whoever passes the check of the role may have the request served, unless it
\* is about somebody else's conversation.
LEMMA CheckRoleAllows ==
    ASSUME MembersType, NEW r \in Request, NEW w \in Workspaces, NEW cs,
           Policy(r.route).scope = "workspace",
           CheckRole(r, w) # None
    PROVE  LET p == CheckRole(r, w) IN
           /\ p \in Request /\ p.stage = "handler" /\ p.workspace = w
           /\ p.who = r.who /\ p.route = r.route /\ p.target = r.target
           /\ p.entitled = r.entitled
           /\ MayServe(p, members, cs) \/ Others(p, cs)
<1> DEFINE s == r.who.subject
           role == IF r.who.superadmin THEN "admin" ELSE members[w][s]
           p == Pass(r, w, role)
<1>1. s \in Subjects /\ r.route \in Routes /\ r.who \in Identity
  BY DEF Request, Identity
<1>2. role # None /\ ~(Rank(role) < Rank(Policy(r.route).role)) /\ CheckRole(r, w) = p
  BY DEF CheckRole, GetRole
<1>3. role \in Roles
  BY <1>1, <1>2 DEF MembersType, Roles
<1>4. /\ p \in Request /\ p.stage = "handler" /\ p.workspace = w /\ p.role = role
      /\ p.who = r.who /\ p.route = r.route /\ p.target = r.target
      /\ p.entitled = r.entitled
  BY <1>3 DEF Pass, Request
<1>5. Policy(r.route).role \in Roles
  BY <1>1, PolicyOf
<1>6. Policy(r.route).role = "admin" => role = "admin"
  BY <1>2, <1>3, <1>5 DEF Rank, Roles
<1>7. w # None
  BY AccessAssumption
<1> HIDE DEF p
<1>8. MayServe(p, members, cs) \/ Others(p, cs)
  <2>1. CASE r.who.superadmin
    BY <1>4, <2>1 DEF MayServe
  <2>2. CASE ~r.who.superadmin
    <3>1. role = members[w][s]
      BY <2>2
    <3>2. CASE Policy(r.route).role = "admin"
      BY <1>4, <1>6, <1>7, <3>1, <3>2 DEF MayServe
    <3>3. CASE Policy(r.route).role = "member"
      BY <1>2, <1>4, <1>7, <3>1, <3>3 DEF MayServe, Others
    <3>4. QED
      BY <1>5, <3>2, <3>3 DEF Roles
  <2>3. QED
    BY <2>1, <2>2
<1>9. QED
  BY <1>2, <1>4, <1>8

\* The same of the middleware as a whole.
LEMMA DispatchAllows ==
    ASSUME MembersType, chats \in ChatsTable,
           NEW r \in Request, r.target \in Targets(r.route), r.stage = "body",
           Dispatch(r) # None
    PROVE  LET p == Dispatch(r) IN
           /\ Placed(p, chats)
           /\ p.stage = "handler" => MayServe(p, members, chats) \/ Others(p, chats)
<1> DEFINE policy == Policy(r.route)
<1>0. r.route \in Routes /\ r.who \in Identity /\ None \notin Workspaces
  BY AccessAssumption DEF Request
<1>a. /\ policy.scope \in {"authenticated", "superadmin_only", "global_admin", "workspace"}
      /\ policy.scope = "workspace" => policy.from \in {"session", "path", "body"}
      /\ r.route = "delete_chat" => policy.scope = "workspace" /\ policy.from = "session"
  BY <1>0, PolicyOf
<1>1. CASE policy.scope # "workspace"
  <2>1. PICK role \in Roles : Dispatch(r) = Pass(r, None, role)
    BY <1>1, <1>a DEF Dispatch, Roles
  <2>2. \/ policy.scope = "authenticated" \/ r.who.superadmin
        \/ policy.scope = "global_admin" /\ IsGlobalAdmin(r.who.subject)
    BY <1>1, <1>a DEF Dispatch
  <2> DEFINE p == Pass(r, None, role)
  <2>3. /\ p \in Request /\ p.who = r.who /\ p.route = r.route /\ p.stage = "handler"
    BY DEF Pass, Request
  <2> HIDE DEF p
  <2>4. Placed(p, chats)
    BY <1>1, <1>a, <2>3 DEF Placed
  <2>5. MayServe(p, members, chats)
    BY <2>2, <2>3 DEF MayServe, IsGlobalAdmin
  <2>6. QED
    BY <2>1, <2>4, <2>5 DEF p
<1>2. CASE policy.scope = "workspace" /\ policy.from = "session"
  <2>1. r.target \in Chats
    BY <1>2 DEF Targets
  <2>2. Exists(r.target) /\ Dispatch(r) = CheckRole(r, chats[r.target].workspace)
    BY <1>2 DEF Dispatch
  <2>3. chats[r.target].workspace \in Workspaces /\ chats[r.target] # None
    BY <2>1, <2>2 DEF Exists, ChatsTable, Chat
  <2>4. QED
    BY <1>2, <2>1, <2>2, <2>3, CheckRoleAllows DEF Placed
<1>3. CASE policy.scope = "workspace" /\ policy.from = "path"
  <2>1. r.target \in Workspaces
    BY <1>3 DEF Targets
  <2>2. Dispatch(r) = CheckRole(r, r.target)
    BY <1>3 DEF Dispatch
  <2>3. QED
    BY <1>3, <1>a, <2>1, <2>2, CheckRoleAllows DEF Placed
<1>4. CASE policy.scope = "workspace" /\ policy.from = "body"
  <2>1. r.target \in Workspaces
    BY <1>4 DEF Targets
  <2>2. Dispatch(r) = [r EXCEPT !.workspace = r.target]
    BY <1>4 DEF Dispatch
  <2> DEFINE p == [r EXCEPT !.workspace = r.target]
  <2>3. p \in Request /\ p.route = r.route /\ p.workspace \in Workspaces /\ p.stage = "body"
    BY <2>1 DEF Request
  <2> HIDE DEF p
  <2>4. QED
    BY <1>4, <1>a, <2>2, <2>3 DEF Placed, p
<1>5. QED
  BY <1>a, <1>1, <1>2, <1>3, <1>4

\* Conversations are made, and marked as deleted; whose they are never changes.
ChatsKept ==
    /\ chats' \in ChatsTable
    /\ \A i \in Chats : chats[i] # None => chats'[i] # None /\ chats'[i].owner = chats[i].owner

LEMMA ServeCarry ==
    ASSUME GrantsInv', ChatsKept, breach' = FALSE,
           requests' \in [Clients -> Request \cup {None}],
           \A d \in Clients : requests'[d] # None => RequestGood(requests'[d], members', chats)
    PROVE  ServeInv'
<1>1. ASSUME NEW d \in Clients, requests'[d] # None
      PROVE  RequestGood(requests'[d], members', chats')
  <2>1. PICK r : r = requests'[d]
    OBVIOUS
  <2>2. RequestGood(r, members', chats)
    BY <1>1, <2>1
  <2>3. r.route = "delete_chat" =>
           /\ r.target \in Chats /\ chats[r.target] # None /\ chats'[r.target] # None
           /\ chats'[r.target].owner = chats[r.target].owner
    BY <2>2 DEF RequestGood, Placed, ChatsKept
  <2>4. MayServe(r, members', chats') <=> MayServe(r, members', chats)
    BY <2>3, RulesSeeOwners
  <2>5. Others(r, chats) => Others(r, chats')
    BY <2>3 DEF Others
  <2>6. QED
    BY <2>1, <2>2, <2>3, <2>4, <2>5 DEF RequestGood, Placed
<1>2. QED
  BY <1>1 DEF ServeInv, ChatsKept

\* Grading goes on from what was known, for whatever grants come now.
LEMMA GradedAll ==
    ASSUME ServeInv, NEW g, NEW rs,
           \A d \in Clients : rs[d] = requests[d] \/ rs[d] = None
    PROVE  /\ Graded(rs, g) \in [Clients -> Request \cup {None}]
           /\ \A d \in Clients : Graded(rs, g)[d] # None =>
                                     RequestGood(Graded(rs, g)[d], g, chats)
<1>1. ASSUME NEW d \in Clients, rs[d] # None
      PROVE  RequestGood(Graded(rs, g)[d], g, chats)
  <2>1. RequestGood(rs[d], members, chats)
    BY <1>1 DEF ServeInv
  <2>2. QED
    BY <1>1, <2>1, GradedGood DEF RequestGood
<1>2. ASSUME NEW d \in Clients, rs[d] = None PROVE Graded(rs, g)[d] = None
  BY <1>2 DEF Graded
<1>3. \A d \in Clients : Graded(rs, g)[d] \in Request \cup {None}
  BY <1>1, <1>2 DEF RequestGood, Placed
<1>4. Graded(rs, g) \in [Clients -> Request \cup {None}]
  BY <1>3 DEF Graded
<1>5. QED
  BY <1>1, <1>2, <1>4

\* Steps that at most drop requests.
LEMMA ServeQuiet ==
    ASSUME ServeInv, GrantsInv', members' = members, chats' = chats, breach' = breach,
           requests' = requests \/ \E c \in Clients : requests' = Ends(c)
    PROVE  ServeInv'
<1>1. requests' \in [Clients -> Request \cup {None}]
  BY DEF ServeInv, Ends
<1>2. \A d \in Clients : requests'[d] = requests[d] \/ requests'[d] = None
  BY DEF ServeInv, Ends
<1>3. ChatsKept
  BY DEF ServeInv, ChatsKept
<1>4. \A d \in Clients : requests'[d] # None => RequestGood(requests'[d], members', chats)
  BY <1>2 DEF ServeInv
<1>5. QED
  BY <1>1, <1>3, <1>4, ServeCarry DEF ServeInv

\* What a handler serves was allowed.
LEMMA ServedGood ==
    ASSUME ServeInv, GrantsInv', ChatsKept,
           NEW c \in Clients, requests[c] # None, requests[c].stage = "handler",
           ~Others(requests[c], chats), Served(c, members')
    PROVE  ServeInv'
<1>1. requests[c].entitled
  BY DEF ServeInv, RequestGood
<1>2. breach' = FALSE
  BY <1>1 DEF Served, ServeInv
<1>3. \A d \in Clients : Ends(c)[d] = requests[d] \/ Ends(c)[d] = None
  BY DEF ServeInv, Ends
<1>4. requests' = Graded(Ends(c), members')
  BY DEF Served
<1>5. QED
  BY <1>2, <1>3, <1>4, GradedAll, ServeCarry

LEMMA HandlersServe ==
    ASSUME ServeInv, GrantsInv', NEW c \in Clients, Handle(c)
    PROVE  ServeInv'
<1>0. chats' = chats => ChatsKept
  BY DEF ChatsKept, ServeInv
<1>a. \A route : Ready(c, route) /\ route # "delete_chat" =>
         requests[c] # None /\ requests[c].stage = "handler" /\ ~Others(requests[c], chats)
  BY DEF Ready, Others
<1>b. Refused(c) => ServeInv'
  BY ServeQuiet DEF Refused, grants
<1>1. ASSUME NEW ws \in SUBSET Workspaces, NEW s \in Subjects, NEW role \in Roles \cup {"owner"},
             Grant(c, ws, s, role)
      PROVE  ServeInv'
  <2>1. Refused(c) \/ (Served(c, members') /\ chats' = chats)
    BY <1>1 DEF Grant
  <2>2. QED
    BY <1>0, <1>1, <1>a, <1>b, <2>1, ServedGood DEF Grant
<1>2. ASSUME NEW ws \in (SUBSET Workspaces) \cup {None}, NEW s \in Subjects,
             RevokeAccess(c, ws, s)
      PROVE  ServeInv'
  <2>1. Refused(c) \/ (Served(c, members') /\ chats' = chats)
    BY <1>2 DEF RevokeAccess
  <2>2. QED
    BY <1>0, <1>2, <1>a, <1>b, <2>1, ServedGood DEF RevokeAccess
<1>3. ASSUME NEW k \in KeyIds, NEW s \in Subjects, CreateKeyRoute(c, k, s) PROVE ServeInv'
  <2>1. Refused(c) \/ (Served(c, members') /\ chats' = chats)
    BY <1>3 DEF CreateKeyRoute, grants
  <2>2. QED
    BY <1>0, <1>3, <1>a, <1>b, <2>1, ServedGood DEF CreateKeyRoute
<1>4. ASSUME NEW k \in KeyIds, RevokeKeyRoute(c, k) PROVE ServeInv'
  <2>1. Refused(c) \/ (Served(c, members') /\ chats' = chats)
    BY <1>4 DEF RevokeKeyRoute, grants
  <2>2. QED
    BY <1>0, <1>4, <1>a, <1>b, <2>1, ServedGood DEF RevokeKeyRoute
<1>5. ASSUME NEW role \in Roles, NEW m \in Models, ModelAccess(c, role, m) PROVE ServeInv'
  <2>1. Served(c, members') /\ chats' = chats
    BY <1>5 DEF ModelAccess
  <2>2. QED
    BY <1>0, <1>5, <1>a, <2>1, ServedGood DEF ModelAccess
<1>6. ASSUME NEW i \in Chats, NEW m \in Models, Query(c, i, m) PROVE ServeInv'
  <2>1. Refused(c) \/ (Served(c, members') /\ chats' = chats)
    BY <1>6 DEF Query, ServedHere, grants
  <2>2. QED
    BY <1>0, <1>6, <1>a, <1>b, <2>1, ServedGood DEF Query
<1>7. ASSUME NEW i \in Chats, NewChat(c, i) PROVE ServeInv'
  <2>1. Served(c, members')
    BY <1>7 DEF NewChat, ServedHere, grants
  <2>2. RequestGood(requests[c], members, chats) /\ requests[c].route = "new_chat"
    BY <1>7 DEF ServeInv, NewChat, Ready
  <2>3. requests[c].workspace \in Workspaces /\ requests[c].who.subject \in Subjects
    <3>1. Policy("new_chat").scope = "workspace"
      <4>1. Policy("new_chat") = [role |-> "member", scope |-> "workspace", from |-> "body"]
        BY DEF Policy
      <4>2. QED
        BY <4>1
    <3>2. QED
      BY <2>2, <3>1 DEF RequestGood, Placed, Request, Identity
  <2> DEFINE new == [workspace |-> requests[c].workspace, owner |-> Caller(c).subject, live |-> TRUE]
  <2>4. new \in Chat
    BY <2>3 DEF Chat, Caller
  <2>5. chats' = [chats EXCEPT ![i] = new] /\ chats[i] = None
    BY <1>7 DEF NewChat
  <2> HIDE DEF new
  <2>6. ChatsKept
    BY <2>4, <2>5 DEF ChatsKept, ChatsTable, ServeInv
  <2>7. QED
    BY <1>7, <1>a, <2>1, <2>6, ServedGood DEF NewChat
<1>8. CASE OpenChat(c)
  <2>1. Refused(c) \/ (Served(c, members') /\ chats' = chats)
    BY <1>8 DEF OpenChat, ServedHere, grants
  <2>2. QED
    BY <1>0, <1>8, <1>a, <1>b, <2>1, ServedGood DEF OpenChat
<1>9. CASE DeleteChat(c)
  <2> DEFINE i == requests[c].target
  <2>1. CASE Refused(c)
    BY <1>b, <2>1
  <2>2. CASE /\ Exists(i) /\ (requests[c].role = "admin" \/ chats[i].owner = Caller(c).subject)
             /\ chats' = [chats EXCEPT ![i].live = FALSE] /\ ServedHere(c)
    <3>1. Served(c, members')
      BY <2>2 DEF ServedHere, grants
    <3>2. requests[c] # None /\ requests[c].stage = "handler" /\ ~Others(requests[c], chats)
      BY <1>9, <2>2 DEF DeleteChat, Ready, Others, Caller
    <3>3. i \in Chats /\ chats[i] \in Chat
      <4>1. RequestGood(requests[c], members, chats) /\ requests[c].route = "delete_chat"
        BY <1>9 DEF ServeInv, DeleteChat, Ready
      <4>2. QED
        BY <2>2, <4>1 DEF RequestGood, Placed, ServeInv, ChatsTable, Exists
    <3>4. PICK gone \in Chat : gone = [chats[i] EXCEPT !.live = FALSE]
      BY <3>3 DEF Chat
    <3>5. gone.owner = chats[i].owner /\ gone # None
      BY <3>3, <3>4, NoneIsNoChat DEF Chat
    <3>6. chats' = [chats EXCEPT ![i] = gone]
      BY <2>2, <3>4
    <3>7. ChatsKept
      BY <3>3, <3>5, <3>6 DEF ChatsKept, ChatsTable, ServeInv
    <3>8. QED
      BY <3>1, <3>2, <3>7, ServedGood
  <2>3. QED
    BY <1>9, <2>1, <2>2 DEF DeleteChat
<1>10. CASE OtherRoute(c)
  <2>1. PICK route \in {"docs", "ingest", "trigger", "settings", "workspaces", "export"} : Ready(c, route)
    BY <1>10 DEF OtherRoute
  <2>2. Served(c, members') /\ chats' = chats
    BY <1>10 DEF OtherRoute, ServedHere, grants
  <2>3. QED
    BY <1>0, <1>a, <2>1, <2>2, ServedGood
<1>11. QED
  BY <1>1, <1>2, <1>3, <1>4, <1>5, <1>6, <1>7, <1>8, <1>9, <1>10 DEF Handle

LEMMA ServeKept == ServeInv /\ [Next]_vars => ServeInv'
<1> SUFFICES ASSUME ServeInv, [Next]_vars PROVE ServeInv'
  OBVIOUS
<1>0. GrantsInv' /\ MembersType /\ chats \in ChatsTable
  BY GrantsKept DEF ServeInv, GrantsInv
<1>1. ASSUME NEW c \in Clients, NEW route \in Routes, NEW target \in Targets(route),
             Arrive(c, route, target)
      PROVE  ServeInv'
  <2>0. UNCHANGED <<members, chats, breach>> /\ ChatsKept
    BY <1>1 DEF Arrive, grants, ChatsKept, ServeInv
  <2>1. PICK who \in Identity \cup {None} :
           requests' =
                IF who = None THEN requests
                ELSE LET r == Dispatch([who |-> who, route |-> route, target |-> target,
                                        workspace |-> None, role |-> None,
                                        stage |-> "body", entitled |-> FALSE])
                     IN IF r = None THEN requests
                        ELSE Graded([requests EXCEPT ![c] = r], members)
    BY <1>1 DEF Arrive
  <2> DEFINE r0 == [who |-> who, route |-> route, target |-> target, workspace |-> None,
                    role |-> None, stage |-> "body", entitled |-> FALSE]
             r == Dispatch(r0)
             rs == [requests EXCEPT ![c] = r]
  <2>2. CASE requests' = requests
    BY <1>0, <2>0, <2>2, ServeQuiet
  <2>3. CASE who # None /\ r # None /\ requests' = Graded(rs, members)
    <3>1. target \in Workspaces \cup Chats \cup {None}
      BY DEF Targets
    <3>2. r0 \in Request /\ r0.route = route /\ r0.target = target /\ r0.stage = "body"
      BY <2>3, <3>1 DEF Request
    <3> HIDE DEF r0
    <3>3. /\ Placed(r, chats)
          /\ r.stage = "handler" => MayServe(r, members, chats) \/ Others(r, chats)
      BY <1>0, <2>3, <3>2, DispatchAllows
    <3> HIDE DEF r
    <3>4. rs[c] = r /\ \A d \in Clients : d # c => rs[d] = requests[d]
      BY DEF ServeInv
    <3> HIDE DEF rs
    <3>5. ASSUME NEW d \in Clients, rs[d] # None
          PROVE  RequestGood(Graded(rs, members)[d], members, chats)
      <4>1. CASE d = c
        BY <3>3, <3>4, <3>5, <4>1, GradedGood
      <4>2. CASE d # c
        <5>1. RequestGood(rs[d], members, chats)
          BY <3>4, <3>5, <4>2 DEF ServeInv
        <5>2. QED
          BY <3>5, <5>1, GradedGood DEF RequestGood
      <4>3. QED
        BY <4>1, <4>2
    <3>6. ASSUME NEW d \in Clients, rs[d] = None PROVE Graded(rs, members)[d] = None
      BY <3>6 DEF Graded
    <3>7. Graded(rs, members) \in [Clients -> Request \cup {None}]
      <4>1. \A d \in Clients : Graded(rs, members)[d] \in Request \cup {None}
        BY <3>5, <3>6 DEF RequestGood, Placed
      <4>2. QED
        BY <4>1 DEF Graded
    <3>8. \A d \in Clients : requests'[d] # None => RequestGood(requests'[d], members', chats)
      BY <2>0, <2>3, <3>5, <3>6
    <3>9. QED
      BY <1>0, <2>0, <2>3, <3>7, <3>8, ServeCarry DEF ServeInv
  <2>4. QED
    BY <2>1, <2>2, <2>3
<1>2. ASSUME NEW c \in Clients, BodyRead(c) PROVE ServeInv'
  <2>1. /\ requests[c] # None /\ requests[c].stage = "body"
        /\ requests' = [requests EXCEPT ![c] = CheckRole(requests[c], requests[c].workspace)]
        /\ UNCHANGED <<members, chats, breach>>
    BY <1>2 DEF BodyRead, grants
  <2> DEFINE r == requests[c]
             p == CheckRole(r, r.workspace)
  <2>2. RequestGood(r, members, chats)
    BY <2>1 DEF ServeInv
  <2>3. ASSUME p # None PROVE RequestGood(p, members, chats)
    <3>1. r \in Request /\ r.workspace \in Workspaces /\ Policy(r.route).scope = "workspace"
      BY <2>1, <2>2 DEF RequestGood, Placed
    <3>2. /\ p \in Request /\ p.stage = "handler" /\ p.workspace = r.workspace
          /\ p.who = r.who /\ p.route = r.route /\ p.target = r.target
          /\ p.entitled = r.entitled
          /\ MayServe(p, members, chats) \/ Others(p, chats)
      BY <1>0, <2>3, <3>1, CheckRoleAllows
    <3> HIDE DEF p
    <3>3. MayServe(p, members, chats) <=> MayServe(r, members, chats)
      BY <3>1, <3>2, RulesIgnoreHistory
    <3>4. Placed(p, chats)
      BY <2>2, <3>1, <3>2 DEF RequestGood, Placed
    <3>5. QED
      BY <2>2, <3>2, <3>3, <3>4 DEF RequestGood
  <2>4. p \in Request \cup {None}
    BY <2>3 DEF RequestGood, Placed
  <2> HIDE DEF p
  <2>5. requests' = [requests EXCEPT ![c] = p]
    BY <2>1 DEF p
  <2>6. requests' \in [Clients -> Request \cup {None}]
    BY <2>4, <2>5 DEF ServeInv
  <2>7. \A d \in Clients : requests'[d] # None => RequestGood(requests'[d], members', chats)
    BY <2>1, <2>3, <2>5 DEF ServeInv
  <2>8. ChatsKept
    BY <2>1 DEF ServeInv, ChatsKept
  <2>9. QED
    BY <1>0, <2>1, <2>6, <2>7, <2>8, ServeCarry DEF ServeInv
<1>3. CASE Operator
  <2>1. ASSUME NEW ws \in SUBSET Workspaces, NEW s \in Subjects, NEW role \in Roles \cup {None},
               Order(OperatorGrants(ws, s, role))
        PROVE  ServeInv'
    <3>1. requests' = Graded(requests, members') /\ UNCHANGED <<chats, breach>>
      BY <2>1 DEF Order, OperatorGrants
    <3>2. ChatsKept
      BY <3>1 DEF ServeInv, ChatsKept
    <3>3. QED
      BY <1>0, <3>1, <3>2, GradedAll, ServeCarry DEF ServeInv
  <2>2. CASE \/ \E role \in Roles, m \in Models : Order(OperatorAllows(role, m))
             \/ Order(OperatorKeys) \/ Order(ProviderChanges)
    <3>1. UNCHANGED <<members, chats, breach, requests>>
      BY <2>2 DEF Order, OperatorAllows, OperatorKeys, ProviderChanges, grants
    <3>2. QED
      BY <1>0, <3>1, ServeQuiet
  <2>3. QED
    BY <1>3, <2>1, <2>2 DEF Operator
<1>4. CASE SignInOrOut \/ IdentitySteps \/ UNCHANGED vars
  <2>1. UNCHANGED <<members, chats, breach, requests>>
    BY <1>4 DEF SignInOrOut, IdentitySteps, vars, grants
  <2>2. QED
    BY <1>0, <2>1, ServeQuiet
<1>5. QED
  BY <1>0, <1>1, <1>2, <1>3, <1>4, HandlersServe DEF Next

LEMMA ServeInit == Init => ServeInv
<1> SUFFICES ASSUME Init PROVE ServeInv
  OBVIOUS
<1>1. GrantsInv
  BY GrantsInit
<1>2. /\ chats = [i \in Chats |-> None] /\ requests = [c \in Clients |-> None] /\ breach = FALSE
  BY DEF Init
<1>3. QED
  BY <1>1, <1>2 DEF ServeInv, ChatsTable

\* Whatever changes while a request waits for its body and for its handler,
\* it is served only if the rules allowed it at some moment on the way.
THEOREM ServedRequestsAreEntitled == Spec => []ServedAreEntitled
<1>1. ServeInv => ServedAreEntitled
  BY DEF ServeInv, ServedAreEntitled
<1>2. QED
  BY <1>1, ServeInit, ServeKept, PTL DEF Spec

-----------------------------------------------------------------------------
(* Sessions. *)

\* A session was opened with a key of its subject and not used in the future.
Grounded(t) ==
    LET s == sessions[t] IN
    /\ s.used <= now
    /\ keys[s.via] # None /\ keys[s.via].subject = s.subject

Slid(t) == sessions[t].expires = Earlier(sessions[t].used + IdleTimeout,
                                         sessions[t].created + MaxLifetime)

Ended(t) ==
    LET s == sessions[t] IN
    s.doomed \/ (keys[s.via].revoked /\ ~s.late) => cli = s.subject

SessionsGood ==
    \A t \in Tokens : sessions[t] # None => Grounded(t) /\ Slid(t) /\ Ended(t)

LoginGood == login # None /\ login.key # None => keys[login.key] # None

SessionsInv == SessionsTypeOK /\ SessionsGood /\ LoginGood

LEMMA SessionsInitially == SessionsInit => SessionsInv
BY SessionsAssumption
DEF SessionsInit, Start, SessionsInv, SessionsTypeOK, SessionsGood, LoginGood

\* min over numbers, the bound of a session.
LEMMA EarlierType ==
    \A a, b \in Nat : Earlier(a, b) \in Nat /\ Earlier(a, b) <= a /\ Earlier(a, b) <= b
BY DEF Earlier

\* Later use never brings the end forward.
LEMMA SlideGrows ==
    ASSUME NEW a \in Nat, NEW b \in Nat, NEW c \in Nat, a <= b
    PROVE  Earlier(b + IdleTimeout, c) >= Earlier(a + IdleTimeout, c)
BY SessionsAssumption DEF Earlier

\* A step that leaves the sessions and their keys alone.
LEMMA SessionsAlone ==
    ASSUME SessionsInv, SessionsTypeOK', LoginGood', now' >= now,
           sessions' = sessions, keys' = keys, cli' = cli
    PROVE  SessionsInv'
<1>1. now \in Nat /\ now' \in Nat
  BY DEF SessionsInv, SessionsTypeOK
<1>2. ASSUME NEW t \in Tokens, sessions[t] # None PROVE sessions[t].used \in Nat
  BY <1>2 DEF SessionsInv, SessionsTypeOK, Session
<1>3. SessionsGood'
  BY <1>1, <1>2 DEF SessionsInv, SessionsGood, Grounded, Slid, Ended
<1>4. QED
  BY <1>3 DEF SessionsInv

\* A step that at most deletes sessions.
LEMMA SessionsDeleted ==
    ASSUME SessionsInv, SessionsTypeOK', LoginGood', now' = now, keys' = keys, cli' = cli,
           \A t \in Tokens : sessions'[t] = sessions[t] \/ sessions'[t] = None
    PROVE  SessionsInv'
BY DEF SessionsInv, SessionsGood, Grounded, Slid, Ended

LEMMA SessionsStep == SessionsInv /\ [SessionsNext]_sessionVars => SessionsInv'
<1> SUFFICES ASSUME SessionsInv, [SessionsNext]_sessionVars PROVE SessionsInv'
  OBVIOUS
<1>t. SessionsTypeOK /\ SessionsGood /\ LoginGood
  BY DEF SessionsInv
<1>a. IdleTimeout \in Nat /\ MaxLifetime \in Nat
  BY SessionsAssumption
<1>1. ASSUME NEW k \in KeyIds, NEW s \in Subjects, NEW superadmin \in BOOLEAN,
             CreateKey(k, s, superadmin)
      PROVE  SessionsInv'
  <2>1. SessionsTypeOK'
    BY <1>1, <1>t DEF CreateKey, SessionsTypeOK, Key
  <2>2. ASSUME NEW t \in Tokens, sessions[t] # None
        PROVE  sessions[t].via \in KeyIds /\ keys'[sessions[t].via] = keys[sessions[t].via]
    BY <1>1, <1>t, <2>2 DEF CreateKey, SessionsTypeOK, Session, SessionsGood, Grounded
  <2>3. SessionsGood'
    BY <1>1, <1>t, <2>2 DEF CreateKey, SessionsGood, Grounded, Slid, Ended
  <2>4. LoginGood'
    BY <1>1, <1>t DEF CreateKey, LoginGood, SessionsTypeOK
  <2>5. QED
    BY <2>1, <2>3, <2>4 DEF SessionsInv
<1>2. ASSUME NEW a \in Addresses, NEW k \in KeyIds \cup {None}, LoginVerify(a, k)
      PROVE  SessionsInv'
  <2>1. SessionsTypeOK'
    BY <1>2, <1>t DEF LoginVerify, SessionsTypeOK
  <2>2. LoginGood'
    BY <1>2, <1>t DEF LoginVerify, VerifyKey, ActiveKey, LoginGood
  <2>3. QED
    BY <1>2, <1>t, <2>1, <2>2, SessionsAlone DEF LoginVerify, SessionsTypeOK
<1>3. CASE LoginFails
  <2>1. SessionsTypeOK'
    BY <1>3, <1>t DEF LoginFails, SessionsTypeOK
  <2>2. LoginGood'
    BY <1>3 DEF LoginFails, LoginGood
  <2>3. QED
    BY <1>3, <1>t, <2>1, <2>2, SessionsAlone DEF LoginFails, SessionsTypeOK
<1>4. ASSUME NEW t \in Tokens, LoginSucceeds(t) PROVE SessionsInv'
  <2> DEFINE key == keys[login.key]
             new == [subject |-> key.subject, superadmin |-> key.superadmin,
                     created |-> now, expires |-> now + IdleTimeout, used |-> now,
                     via |-> login.key, late |-> key.revoked, doomed |-> FALSE]
  <2>1. /\ login.key \in KeyIds /\ login.address \in Addresses
        /\ key # None /\ key \in Key /\ now \in Nat
    BY <1>4, <1>t DEF LoginSucceeds, LoginGood, SessionsTypeOK
  <2>2. new \in Session
    BY <2>1, <1>a DEF Key, Session
  <2>3. sessions' = [sessions EXCEPT ![t] = new]
    BY <1>4 DEF LoginSucceeds
  <2>4. SessionsTypeOK'
    BY <1>4, <1>t, <1>a, <2>1, <2>2, <2>3 DEF LoginSucceeds, SessionsTypeOK
  <2>5. sessions'[t] = new
    BY <1>t, <2>3 DEF SessionsTypeOK
  <2>6. Grounded(t)'
    BY <1>4, <2>1, <2>5 DEF LoginSucceeds, Grounded
  <2>7. Slid(t)'
    BY <1>a, <2>1, <2>5, SessionsAssumption DEF Slid, Earlier
  <2>8. Ended(t)'
    BY <1>4, <2>5 DEF LoginSucceeds, Ended
  <2>9. ASSUME NEW u \in Tokens, u # t, sessions'[u] # None
        PROVE  Grounded(u)' /\ Slid(u)' /\ Ended(u)'
    BY <1>4, <1>t, <2>3, <2>9 DEF LoginSucceeds, SessionsTypeOK, SessionsGood, Grounded, Slid, Ended
  <2>10. LoginGood'
    BY <1>4 DEF LoginSucceeds, LoginGood
  <2>11. QED
    BY <2>4, <2>6, <2>7, <2>8, <2>9, <2>10 DEF SessionsInv, SessionsGood
<1>5. ASSUME NEW a \in Addresses, Logout(a) PROVE SessionsInv'
  <2>1. SessionsTypeOK'
    BY <1>5, <1>t DEF Logout, HasCookie, SessionsTypeOK
  <2>2. \A t \in Tokens : sessions'[t] = sessions[t] \/ sessions'[t] = None
    BY <1>5, <1>t DEF Logout, SessionsTypeOK
  <2>3. LoginGood'
    BY <1>5, <1>t DEF Logout, LoginGood
  <2>4. QED
    BY <1>5, <2>1, <2>2, <2>3, SessionsDeleted DEF Logout
<1>6. ASSUME NEW a \in Addresses, ResolveSession(a) PROVE SessionsInv'
  <2>0. PICK t \in Tokens : t = cookies[a].token
    BY <1>6, <1>t DEF ResolveSession, HasCookie, SessionsTypeOK
  <2> DEFINE s == sessions[t]
             slid == [s EXCEPT !.used = now,
                               !.expires = IF Slide(s) > @ THEN Slide(s) ELSE @]
  <2>1. s # None /\ s \in Session /\ now \in Nat
    BY <1>6, <1>t, <2>0 DEF ResolveSession, SessionsTypeOK
  <2>2. LoginGood'
    BY <1>6, <1>t DEF ResolveSession, LoginGood
  <2>3. CASE now > s.expires
    <3>1. sessions' = [sessions EXCEPT ![t] = None]
      BY <1>6, <2>0, <2>3 DEF ResolveSession
    <3>2. SessionsTypeOK'
      BY <1>6, <1>t, <3>1 DEF ResolveSession, SessionsTypeOK
    <3>3. \A u \in Tokens : sessions'[u] = sessions[u] \/ sessions'[u] = None
      BY <1>t, <3>1 DEF SessionsTypeOK
    <3>4. QED
      BY <1>6, <2>2, <3>2, <3>3, SessionsDeleted DEF ResolveSession
  <2>4. CASE ~(now > s.expires)
    <3>1. sessions' = [sessions EXCEPT ![t] = slid]
      BY <1>6, <2>0, <2>4 DEF ResolveSession
    <3>2. s.created \in Nat /\ s.used \in Nat /\ s.expires \in Nat /\ s.used <= now
      BY <1>t, <2>1 DEF Session, SessionsGood, Grounded
    <3>3. /\ Slide(s) \in Nat
          /\ Slide(s) >= s.expires
      <4>1. s.expires = Earlier(s.used + IdleTimeout, s.created + MaxLifetime)
        BY <1>t, <2>1 DEF SessionsGood, Slid
      <4>2. Slide(s) = Earlier(now + IdleTimeout, s.created + MaxLifetime)
        BY DEF Slide
      <4>3. s.created + MaxLifetime \in Nat /\ now + IdleTimeout \in Nat
        BY <1>a, <2>1, <3>2
      <4>4. Earlier(now + IdleTimeout, s.created + MaxLifetime)
              >= Earlier(s.used + IdleTimeout, s.created + MaxLifetime)
        BY <2>1, <3>2, <4>3, SlideGrows
      <4>5. Earlier(now + IdleTimeout, s.created + MaxLifetime) \in Nat
        BY <4>3, EarlierType
      <4>6. QED
        BY <4>1, <4>2, <4>4, <4>5
    <3>4. slid = [s EXCEPT !.used = now, !.expires = Slide(s)]
      <4>1. (IF Slide(s) > s.expires THEN Slide(s) ELSE s.expires) = Slide(s)
        BY <3>2, <3>3
      <4>2. QED
        BY <4>1, Zenon
    <3>5. /\ slid \in Session
          /\ slid.used = now /\ slid.expires = Slide(s) /\ slid.created = s.created
          /\ slid.via = s.via /\ slid.subject = s.subject
          /\ slid.late = s.late /\ slid.doomed = s.doomed
      BY <2>1, <3>3, <3>4 DEF Session
    <3>6. SessionsTypeOK'
      <4> HIDE DEF slid
      <4>1. sessions' \in [Tokens -> Session \cup {None}]
        BY <1>t, <3>1, <3>5 DEF SessionsTypeOK
      <4>2. QED
        BY <1>6, <1>t, <4>1 DEF ResolveSession, SessionsTypeOK
    <3>7. sessions'[t] = slid /\ \A u \in Tokens : u # t => sessions'[u] = sessions[u]
      BY <1>t, <2>1, <3>1 DEF SessionsTypeOK
    <3>8. keys' = keys /\ now' = now /\ cli' = cli
      BY <1>6 DEF ResolveSession
    <3>9. Grounded(t) /\ Ended(t)
      BY <1>t, <2>1 DEF SessionsGood
    <3>10. Grounded(t)' /\ Ended(t)'
      BY <2>1, <3>5, <3>7, <3>8, <3>9 DEF Grounded, Ended
    <3>11. Slid(t)'
      BY <3>5, <3>7 DEF Slid, Slide
    <3>12. ASSUME NEW u \in Tokens, u # t, sessions'[u] # None
           PROVE  Grounded(u)' /\ Slid(u)' /\ Ended(u)'
      BY <1>t, <3>7, <3>8, <3>12 DEF SessionsGood, Grounded, Slid, Ended
    <3>13. QED
      BY <2>2, <3>6, <3>10, <3>11, <3>12 DEF SessionsInv, SessionsGood
  <2>5. QED
    BY <2>3, <2>4
<1>7. ASSUME NEW k \in KeyIds, RevokeKey(k) PROVE SessionsInv'
  <2>1. keys[k] \in Key /\ keys[k] # None
    BY <1>7, <1>t DEF RevokeKey, ActiveKey, SessionsTypeOK
  <2>2. keys' = [keys EXCEPT ![k].revoked = TRUE]
    BY <1>7 DEF RevokeKey
  <2>3. \A t \in Tokens : \/ sessions'[t] = None
                          \/ sessions'[t] = sessions[t] /\ sessions[t].subject # keys[k].subject
    BY <1>7, <1>t DEF RevokeKey, Without, SessionsTypeOK
  <2>4. SessionsTypeOK'
    BY <1>7, <1>t, <2>1 DEF RevokeKey, Without, SessionsTypeOK, Key
  <2>5. SessionsGood'
    <3> SUFFICES ASSUME NEW t \in Tokens, sessions'[t] # None
                 PROVE  Grounded(t)' /\ Slid(t)' /\ Ended(t)'
      BY DEF SessionsGood
    <3>1. sessions'[t] = sessions[t] /\ sessions[t].subject # keys[k].subject
      BY <2>3
    <3>2. Grounded(t) /\ Slid(t) /\ Ended(t) /\ sessions[t].via \in KeyIds
      BY <1>t, <3>1 DEF SessionsGood, SessionsTypeOK, Session
    <3>3. sessions[t].via # k
      BY <3>1, <3>2 DEF Grounded
    <3>4. keys'[sessions[t].via] = keys[sessions[t].via]
      BY <1>t, <2>2, <3>2, <3>3 DEF SessionsTypeOK
    <3>5. QED
      BY <1>7, <3>1, <3>2, <3>4 DEF RevokeKey, Grounded, Slid, Ended
  <2>6. LoginGood'
    BY <1>7 DEF RevokeKey, EventLoopFree, LoginGood
  <2>7. QED
    BY <2>4, <2>5, <2>6 DEF SessionsInv
<1>8. ASSUME NEW k \in KeyIds, CliRevokeKey(k) PROVE SessionsInv'
  <2>1. keys[k] \in Key /\ keys[k] # None /\ cli = None
    BY <1>8, <1>t DEF CliRevokeKey, ActiveKey, SessionsTypeOK
  <2>2. keys' = [keys EXCEPT ![k].revoked = TRUE]
    BY <1>8 DEF CliRevokeKey
  <2>3. keys'[k] \in Key /\ keys'[k].subject = keys[k].subject
    BY <1>t, <2>1, <2>2 DEF SessionsTypeOK, Key
  <2>4. \A t \in Tokens :
           /\ sessions'[t] # None => sessions[t] # None
           /\ sessions[t] # None =>
                sessions'[t] = IF sessions[t].subject = keys[k].subject
                               THEN [sessions[t] EXCEPT !.doomed = TRUE] ELSE sessions[t]
    BY <1>8, <1>t DEF CliRevokeKey, Doom, SessionsTypeOK
  <2>5. sessions' = Doom(keys[k].subject)
    BY <1>8 DEF CliRevokeKey
  <2>6. \A t \in Tokens : Doom(keys[k].subject)[t] \in Session \cup {None}
    BY <1>t DEF Doom, SessionsTypeOK, Session
  <2>7. sessions' \in [Tokens -> Session \cup {None}]
    BY <2>5, <2>6 DEF Doom
  <2>8. SessionsTypeOK'
    BY <1>8, <1>t, <2>1, <2>3, <2>7 DEF CliRevokeKey, SessionsTypeOK, Key
  <2>9. ASSUME NEW t \in Tokens, sessions'[t] # None
        PROVE  Grounded(t)' /\ Slid(t)' /\ Ended(t)'
    <3> DEFINE s == sessions[t]
    <3>1. s # None /\ s \in Session /\ Grounded(t) /\ Slid(t) /\ Ended(t)
      BY <1>t, <2>4, <2>9 DEF SessionsGood, SessionsTypeOK
    <3>2. s.subject \in Subjects /\ s.via \in KeyIds
      BY <3>1 DEF Session
    <3>3. ~(s.doomed \/ (keys[s.via].revoked /\ ~s.late))
      BY <2>1, <3>1, <3>2, SessionsAssumption DEF Ended
    <3>4. /\ sessions'[t].used = s.used /\ sessions'[t].via = s.via
          /\ sessions'[t].subject = s.subject /\ sessions'[t].late = s.late
          /\ sessions'[t].created = s.created /\ sessions'[t].expires = s.expires
          /\ s.subject # keys[k].subject => sessions'[t] = s
      BY <2>4, <3>1 DEF Session
    <3>5. CASE s.via = k
      <4>1. s.subject = keys[k].subject
        BY <3>1, <3>5 DEF Grounded
      <4>2. cli' = s.subject
        BY <1>8, <4>1 DEF CliRevokeKey
      <4>3. keys'[k] # None
        BY <1>t, <2>1, <2>2, <2>3, <2>8, NoneIsNoKey
      <4>4. QED
        BY <1>8, <2>3, <3>1, <3>4, <3>5, <4>1, <4>2, <4>3
        DEF CliRevokeKey, Grounded, Slid, Ended
    <3>6. CASE s.via # k
      <4>1. keys'[s.via] = keys[s.via]
        BY <1>t, <2>2, <3>2, <3>6 DEF SessionsTypeOK
      <4>2. Grounded(t)' /\ Slid(t)'
        BY <1>8, <3>1, <3>4, <4>1 DEF CliRevokeKey, Grounded, Slid
      <4>3. Ended(t)'
        BY <1>8, <3>3, <3>4, <4>1 DEF CliRevokeKey, Ended
      <4>4. QED
        BY <4>2, <4>3
    <3>7. QED
      BY <3>5, <3>6
  <2>10. LoginGood'
    BY <1>8, <1>t, <2>2, <2>3, NoneIsNoKey DEF CliRevokeKey, LoginGood, SessionsTypeOK
  <2>11. QED
    BY <2>8, <2>9, <2>10 DEF SessionsInv, SessionsGood
<1>9. CASE CliDeleteSessions
  <2>1. \A t \in Tokens : \/ sessions'[t] = None
                          \/ sessions'[t] = sessions[t] /\ sessions[t].subject # cli
    BY <1>9, <1>t DEF CliDeleteSessions, Without, SessionsTypeOK
  <2>2. SessionsTypeOK'
    BY <1>9, <1>t DEF CliDeleteSessions, Without, SessionsTypeOK
  <2>3. SessionsGood'
    BY <1>9, <1>t, <2>1 DEF CliDeleteSessions, SessionsGood, Grounded, Slid, Ended
  <2>4. LoginGood'
    BY <1>9, <1>t DEF CliDeleteSessions, LoginGood
  <2>5. QED
    BY <2>2, <2>3, <2>4 DEF SessionsInv
<1>10. CASE Tick
  <2>1. now \in Nat /\ now' = now + 1
    BY <1>10, <1>t DEF Tick, SessionsTypeOK
  <2>2. SessionsTypeOK'
    BY <1>10, <1>t, <2>1 DEF Tick, SessionsTypeOK
  <2>3. LoginGood'
    BY <1>10, <1>t DEF Tick, LoginGood
  <2>4. QED
    BY <1>10, <2>1, <2>2, <2>3, SessionsAlone DEF Tick
<1>11. CASE UNCHANGED sessionVars
  BY <1>11 DEF sessionVars, SessionsInv, SessionsTypeOK, SessionsGood, LoginGood, Grounded, Slid, Ended
<1>12. QED
  BY <1>1, <1>2, <1>3, <1>4, <1>5, <1>6, <1>7, <1>8, <1>9, <1>10, <1>11 DEF SessionsNext

LEMMA SessionsInvariant == SessionsSpec => []SessionsInv
BY SessionsInitially, SessionsStep, PTL DEF SessionsSpec

\* A session is over at the earlier of its two ends, however often it was used.
THEOREM SessionsSlideAndEnd == SessionsSpec => []SlidingExpiry
<1>1. SessionsInv => SlidingExpiry
  BY DEF SessionsInv, SessionsGood, Slid, SlidingExpiry
<1>2. QED
  BY <1>1, SessionsInvariant, PTL

\* A finished revocation leaves its subject no session from before it.
THEOREM RevocationIsComplete == SessionsSpec => []RevocationEndsSessions
<1>1. SessionsInv => RevocationEndsSessions
  BY DEF SessionsInv, SessionsGood, Ended, RevocationEndsSessions
<1>2. QED
  BY <1>1, SessionsInvariant, PTL

\* The failures of an address and its share in the login that is under way: a
\* wrong key that is not recorded yet has found the address below the maximum.
Below(a) ==
    /\ RecentFailures(a) <= MaxFailed
    /\ login # None /\ login.key = None /\ login.address = a => RecentFailures(a) < MaxFailed

AttemptsInv == \A a \in Addresses : Below(a)

\* The recent failures are some of the recorded ones.
LEMMA RecentFinite ==
    ASSUME SessionsTypeOK, NEW a \in Addresses
    PROVE  IsFiniteSet(Recent(a)) /\ RecentFailures(a) \in Nat
<1>1. IsFiniteSet(1..Len(failed[a])) /\ Recent(a) \in SUBSET (1..Len(failed[a]))
  BY FS_Interval DEF Recent, SessionsTypeOK
<1>2. QED
  BY <1>1, FS_Subset, FS_CardinalityType DEF RecentFailures

\* One more failure counts for one, and only at its address.
LEMMA OneMoreFailure ==
    ASSUME SessionsTypeOK, SessionsTypeOK', NEW a \in Addresses, now' = now,
           failed' = [failed EXCEPT ![a] = Append(@, now)]
    PROVE  /\ RecentFailures(a)' <= RecentFailures(a) + 1
           /\ \A b \in Addresses \ {a} : RecentFailures(b)' = RecentFailures(b)
<1>1. failed[a] \in Seq(Nat) /\ failed'[a] = Append(failed[a], now) /\ now \in Nat
  BY DEF SessionsTypeOK
<1>2. Recent(a)' \subseteq Recent(a) \cup {Len(failed[a]) + 1}
  BY <1>1 DEF Recent
<1>3. IsFiniteSet(Recent(a)) /\ RecentFailures(a) \in Nat
  BY RecentFinite
<1>4. /\ IsFiniteSet(Recent(a) \cup {Len(failed[a]) + 1})
      /\ Cardinality(Recent(a) \cup {Len(failed[a]) + 1}) <= RecentFailures(a) + 1
  <2> DEFINE old == Recent(a)
             one == Len(failed[a]) + 1
  <2>1. IsFiniteSet(old) /\ Cardinality(old) \in Nat /\ RecentFailures(a) = Cardinality(old)
    BY <1>3 DEF RecentFailures
  <2> HIDE DEF old, one
  <2>2. /\ IsFiniteSet(old \cup {one})
        /\ Cardinality(old \cup {one}) = IF one \in old THEN Cardinality(old) ELSE Cardinality(old) + 1
    BY <2>1, FS_AddElement
  <2>3. Cardinality(old \cup {one}) <= RecentFailures(a) + 1
    BY <2>1, <2>2
  <2>4. QED
    BY <2>2, <2>3 DEF old, one
<1>5. RecentFailures(a)' <= RecentFailures(a) + 1
  <2>1. Cardinality(Recent(a)') <= Cardinality(Recent(a) \cup {Len(failed[a]) + 1})
    BY <1>2, <1>4, FS_Subset
  <2>2. Cardinality(Recent(a)') \in Nat /\ Cardinality(Recent(a) \cup {Len(failed[a]) + 1}) \in Nat
    BY <1>2, <1>4, FS_Subset, FS_CardinalityType
  <2>3. QED
    BY <1>3, <1>4, <2>1, <2>2 DEF RecentFailures
<1>6. \A b \in Addresses \ {a} : failed'[b] = failed[b]
  BY DEF SessionsTypeOK
<1>7. QED
  BY <1>5, <1>6 DEF RecentFailures, Recent

\* Failures only leave the window as time goes on.
LEMMA FailuresAge ==
    ASSUME SessionsTypeOK, SessionsTypeOK', NEW a \in Addresses, now' >= now, failed' = failed
    PROVE  RecentFailures(a)' <= RecentFailures(a)
<1>1. Recent(a)' \subseteq Recent(a)
  BY SessionsAssumption DEF Recent, SessionsTypeOK
<1>2. IsFiniteSet(Recent(a))
  BY RecentFinite
<1>3. QED
  BY <1>1, <1>2, FS_Subset DEF RecentFailures

LEMMA AttemptsInitially == Start => AttemptsInv
<1> SUFFICES ASSUME Start, NEW a \in Addresses PROVE Below(a)
  BY DEF AttemptsInv
<1>1. Recent(a) = {}
  BY DEF Start, Recent
<1>2. RecentFailures(a) = 0
  BY <1>1, FS_EmptySet DEF RecentFailures
<1>3. QED
  BY <1>2, SessionsAssumption DEF Start, Below

LEMMA AttemptsKept ==
    SessionsTypeOK /\ SessionsTypeOK' /\ AttemptsInv /\ [SessionsNext]_sessionVars => AttemptsInv'
<1> SUFFICES ASSUME SessionsTypeOK, SessionsTypeOK', AttemptsInv, [SessionsNext]_sessionVars,
                    NEW a \in Addresses
             PROVE  Below(a)'
  BY DEF AttemptsInv
<1>a. \A b \in Addresses : RecentFailures(b) \in Nat
  BY RecentFinite
<1>b. RecentFailures(a)' \in Nat
  <2>1. Len(failed'[a]) \in Nat /\ Recent(a)' \in SUBSET (1..Len(failed'[a]))
    BY DEF Recent, SessionsTypeOK
  <2>2. IsFiniteSet(1..Len(failed'[a]))
    BY <2>1, FS_Interval
  <2>3. IsFiniteSet(Recent(a)')
    BY <2>1, <2>2, FS_Subset
  <2>4. QED
    BY <2>3, FS_CardinalityType DEF RecentFailures
<1>t. Below(a) /\ MaxFailed \in Nat
  BY SessionsAssumption DEF AttemptsInv
<1>1. ASSUME failed' = failed, now' >= now, login' = login \/ login' = None
      PROVE  Below(a)'
  BY <1>1, <1>a, <1>b, <1>t, FailuresAge DEF Below
<1>2. ASSUME NEW b \in Addresses, NEW k \in KeyIds \cup {None}, LoginVerify(b, k)
      PROVE  Below(a)'
  <2>1. RecentFailures(a)' <= RecentFailures(a)
    BY <1>2, FailuresAge DEF LoginVerify, SessionsTypeOK
  <2>2. login'.address = b /\ ~(RecentFailures(b) >= MaxFailed)
    BY <1>2 DEF LoginVerify, Locked
  <2>3. QED
    BY <1>a, <1>b, <1>t, <2>1, <2>2 DEF Below
<1>3. CASE LoginFails
  <2>1. /\ login # None /\ login.key = None /\ login.address \in Addresses /\ login' = None
        /\ now' = now /\ failed' = [failed EXCEPT ![login.address] = Append(@, now)]
    BY <1>3 DEF LoginFails, SessionsTypeOK
  <2>2. CASE a = login.address
    <3>1. RecentFailures(a) < MaxFailed
      BY <1>t, <2>1, <2>2 DEF Below
    <3>2. RecentFailures(a)' <= RecentFailures(a) + 1
      BY <2>1, <2>2, OneMoreFailure
    <3>3. RecentFailures(a)' <= MaxFailed
      BY <1>a, <1>b, <1>t, <3>1, <3>2
    <3>4. QED
      BY <2>1, <3>3 DEF Below
  <2>3. CASE a # login.address
    BY <1>a, <1>b, <1>t, <2>1, <2>3, OneMoreFailure DEF Below
  <2>4. QED
    BY <2>2, <2>3
<1>4. ASSUME \/ \E k \in KeyIds, s \in Subjects, superadmin \in BOOLEAN : CreateKey(k, s, superadmin)
             \/ \E t \in Tokens : LoginSucceeds(t)
             \/ \E b \in Addresses : Logout(b) \/ ResolveSession(b)
             \/ \E k \in KeyIds : RevokeKey(k) \/ CliRevokeKey(k)
             \/ CliDeleteSessions \/ Tick \/ UNCHANGED sessionVars
      PROVE  Below(a)'
  <2>1. now \in Nat /\ failed' = failed /\ now' \in {now, now + 1} /\ (login' = login \/ login' = None)
    BY <1>4
    DEF SessionsTypeOK, CreateKey, LoginSucceeds, Logout, ResolveSession, RevokeKey, CliRevokeKey,
        CliDeleteSessions, Tick, sessionVars
  <2>2. QED
    BY <1>1, <2>1
<1>5. QED
  BY <1>2, <1>3, <1>4 DEF SessionsNext

\* AttemptsBounded: no address has more wrong keys within the window than
\* allowed, however the clock runs between the count of a login and its record.
THEOREM LoginAttemptsAreBounded == SessionsSpec => []AttemptsBounded
<1>1. AttemptsInv => AttemptsBounded
  BY DEF AttemptsInv, Below, AttemptsBounded
<1>2. SessionsInv => SessionsTypeOK
  BY DEF SessionsInv
<1>3. SessionsSpec => Start /\ [][SessionsNext]_sessionVars
  BY DEF SessionsSpec, SessionsInit
<1>4. QED
  BY <1>1, <1>2, <1>3, SessionsInvariant, AttemptsInitially, AttemptsKept, PTL

\* Every step of Access is a step of Sessions or leaves its state alone.
LEMMA HandlersSignIn ==
    ASSUME NEW c \in Clients, Handle(c)
    PROVE  [SessionsNext]_sessionVars
<1>1. ASSUME NEW k \in KeyIds, NEW s \in Subjects, CreateKeyRoute(c, k, s)
      PROVE  [SessionsNext]_sessionVars
  <2>1. CreateKey(k, s, FALSE) \/ UNCHANGED sessionVars
    BY <1>1 DEF CreateKeyRoute, Refused, identities
  <2>2. QED
    BY <2>1 DEF SessionsNext, sessionVars
<1>2. ASSUME NEW k \in KeyIds, RevokeKeyRoute(c, k) PROVE [SessionsNext]_sessionVars
  <2>1. RevokeKey(k) \/ UNCHANGED sessionVars
    BY <1>2 DEF RevokeKeyRoute, Refused, identities
  <2>2. QED
    BY <2>1 DEF SessionsNext, sessionVars
<1>3. CASE \/ \E ws \in SUBSET Workspaces, s \in Subjects, role \in Roles \cup {"owner"} :
                 Grant(c, ws, s, role)
           \/ \E ws \in (SUBSET Workspaces) \cup {None}, s \in Subjects : RevokeAccess(c, ws, s)
           \/ \E role \in Roles, m \in Models : ModelAccess(c, role, m)
           \/ \E i \in Chats, m \in Models : Query(c, i, m)
           \/ \E i \in Chats : NewChat(c, i)
           \/ OpenChat(c) \/ DeleteChat(c) \/ OtherRoute(c)
  <2>1. UNCHANGED sessionVars
    BY <1>3 DEF Grant, RevokeAccess, ModelAccess, Query, NewChat, OpenChat, DeleteChat,
                OtherRoute, Refused, ServedHere, identities
  <2>2. QED
    BY <2>1 DEF sessionVars
<1>4. QED
  BY <1>1, <1>2, <1>3 DEF Handle

LEMMA NextSignsIn == [Next]_vars => [SessionsNext]_sessionVars
<1> SUFFICES ASSUME [Next]_vars PROVE [SessionsNext]_sessionVars
  OBVIOUS
<1>1. ASSUME NEW c \in Clients, NEW route \in Routes, NEW target \in Targets(route),
             Arrive(c, route, target)
      PROVE  [SessionsNext]_sessionVars
  <2>1. ResolveSession(c) \/ UNCHANGED sessionVars
    BY <1>1 DEF Arrive, ResolvedByKey, ResolvedByToken
  <2>2. QED
    BY <2>1 DEF Clients, SessionsNext, sessionVars
<1>2. ASSUME NEW c \in Clients, BodyRead(c) PROVE [SessionsNext]_sessionVars
  BY <1>2 DEF BodyRead, identities, sessionVars
<1>3. CASE Operator
  <2>1. \/ \E k \in KeyIds, s \in Subjects, superadmin \in BOOLEAN : CreateKey(k, s, superadmin)
        \/ \E k \in KeyIds : CliRevokeKey(k)
        \/ UNCHANGED sessionVars
    BY <1>3 DEF Operator, Order, OperatorGrants, OperatorAllows, OperatorKeys, ProviderChanges,
                identities
  <2>2. QED
    BY <2>1 DEF SessionsNext, sessionVars
<1>4. CASE SignInOrOut
  <2>1. \E c \in Addresses : (\E k \in KeyIds \cup {None} : LoginVerify(c, k)) \/ Logout(c)
    BY <1>4 DEF SignInOrOut, Clients
  <2>2. QED
    BY <2>1 DEF SessionsNext
<1>5. CASE IdentitySteps
  BY <1>5 DEF IdentitySteps, SessionsNext, sessionVars
<1>6. CASE UNCHANGED vars
  BY <1>6 DEF vars, identities, sessionVars
<1>7. QED
  BY <1>1, <1>2, <1>3, <1>4, <1>5, <1>6, HandlersSignIn DEF Next

\* The keys there are at the start are good ones.
LEMMA FirstSessions == Init => SessionsInv
<1> SUFFICES ASSUME Init PROVE SessionsInv
  OBVIOUS
<1>1. \A s \in Subjects : FirstKey(s) \in Key
  BY DEF FirstKey, Key
<1>2. Start /\ keys \in [KeyIds -> Key \cup {None}]
  <2>1. \/ keys \in [KeyIds -> {FirstKey(s) : s \in Subjects} \cup {None}]
        \/ keys = [k \in KeyIds |-> None]
    BY DEF Init
  <2>2. {FirstKey(s) : s \in Subjects} \cup {None} \subseteq Key \cup {None}
    BY <1>1
  <2>3. QED
    BY <2>1, <2>2 DEF Init
<1>3. QED
  BY <1>2, SessionsAssumption
  DEF Start, SessionsInv, SessionsTypeOK, SessionsGood, LoginGood

\* All three hold with requests, grants and the operator's orders in between, too.
THEOREM SessionsEndUnderRequests ==
    Spec => [](SlidingExpiry /\ RevocationEndsSessions /\ AttemptsBounded)
<1>1. Init /\ [][Next]_vars => []SessionsInv
  BY FirstSessions, NextSignsIn, SessionsStep, PTL
<1>2. SessionsInv => SessionsTypeOK /\ SlidingExpiry /\ RevocationEndsSessions
  BY DEF SessionsInv, SessionsGood, Slid, Ended, SlidingExpiry, RevocationEndsSessions
<1>3. Init => AttemptsInv
  BY AttemptsInitially DEF Init
<1>4. AttemptsInv => AttemptsBounded
  BY DEF AttemptsInv, Below, AttemptsBounded
<1>5. QED
  BY <1>1, <1>2, <1>3, <1>4, NextSignsIn, AttemptsKept, PTL DEF Spec
=============================================================================
