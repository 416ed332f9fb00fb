------------------------------- MODULE Access -------------------------------
(***************************************************************************)
(* Who may use the server: the identities, memberships, invitations and    *)
(* sessions of internal/store/auth.go, the login and permission handlers   *)
(* of internal/auth/auth.go and internal/api/auth.go, and the login        *)
(* limiter.                                                                *)
(*                                                                         *)
(* A request is a handler in flight.  It takes one step per database       *)
(* transaction or statement, because another request may run in between:   *)
(* the role it acts with is the one read when it was authenticated.  The   *)
(* transactions that read and then write on what they read are two steps;  *)
(* SQLite runs with one connection, so nobody else uses the database       *)
(* between them (Serializable), while PostgreSQL at READ COMMITTED lets    *)
(* every other request in.                                                 *)
(***************************************************************************)
EXTENDS FiniteSets, Naturals

CONSTANTS
    Users,          \* people an identity provider can vouch for, one e-mail each
    Requests,       \* handlers that can be in flight at once
    Flows,          \* one-time states of logins and of broker authorisations
    SessionIds,     \* session tokens
    RoleTexts,      \* the spellings of roles that request bodies carry
    LoginLimit,     \* failures before the limiter refuses (5 in the code)
    Serializable,   \* TRUE: one database connection (SQLite)
    NoUser          \* nobody

Roles == {"owner", "admin", "member", "viewer"}

ASSUME AccessAssumption ==
    /\ RoleTexts \subseteq Roles \cup {"Owner"}
    /\ IsFiniteSet(Requests)
    /\ LoginLimit \in Nat \ {0}
    /\ Serializable \in BOOLEAN
    /\ NoUser \notin Users

\* The store lower-cases a role as a request body spells it; the handler's own test does not.
NormalRole(text) == IF text = "Owner" THEN "owner" ELSE text

VARIABLES
    mode,           \* the mode the process was started in
    members,        \* workspace_members: role of each user, or "none"
    invites,        \* workspace_invites by e-mail: role offered, or "none"
    credential,     \* the user of the one built-in password, or NoUser
    session,        \* auth_sessions: the user of a token, or NoUser
    expired,        \* tokens and flows past their expiry time
    flow,           \* "login" (auth_flows), "broker" (broker_oauth_flows) or "none"
    flowFor,        \* the user who began a broker authorisation
    attempts,       \* failures of one remote address in the limiter's window; 0: no window
    pc, who, role,  \* of a request: where it is, whom it acts for and with which role
    at,             \* the session or flow it works with
    target, want,   \* the member it changes, and the role to give ("none": remove)
    uses            \* how often the flow was handed out as valid

tables == <<members, invites, credential, session, flow, flowFor>>
request == <<pc, who, role, at, target, want>>
accessVars == <<mode, tables, expired, attempts, request, uses>>

-----------------------------------------------------------------------------
Allows(r, permission) ==
    CASE r = "owner"  -> TRUE
      [] r = "admin"  -> permission # "workspace.owner"
      [] r = "member" -> permission \in {"view", "watchlist.write", "broker.sync"}
      [] r = "viewer" -> permission = "view"
      [] OTHER        -> FALSE

\* NewRouter: what a route needs beyond the permission to view, by what its handler does.
RoutePermission ==
    [read          |-> "view",            \* listings, quotes, status, the web socket
     watchlist     |-> "watchlist.write",
     sync          |-> "broker.sync",     \* of brokers and history, recalculation
     connections   |-> "broker.manage",   \* their configuration, logins, imports and issues
     orders        |-> "trade.execute",
     settings      |-> "settings.manage",
     shutdown      |-> "system.manage",
     members       |-> "members.manage"]

\* The statement "owners <= 1" of the two member transactions, for a target that is an owner.
OtherOwner(u) == \E o \in Users \ {u} : members[o] = "owner"

\* A transaction does not keep the others out.
DatabaseShared(r) == TRUE

\* A transaction that has read and not yet committed keeps SQLite's only connection.
DatabaseFree(r) == Serializable => \A q \in Requests \ {r} : pc[q] \notin {"tx", "flowtx"}

\* The handlers answer or die: the requests and what they knew are gone.
EndAll(rs) ==
    /\ pc' = [r \in Requests |-> IF r \in rs THEN "idle" ELSE pc[r]]
    /\ who' = [r \in Requests |-> IF r \in rs THEN NoUser ELSE who[r]]
    /\ role' = [r \in Requests |-> IF r \in rs THEN "none" ELSE role[r]]
    /\ at' = [r \in Requests |-> IF r \in rs THEN NoUser ELSE at[r]]
    /\ target' = [r \in Requests |-> IF r \in rs THEN NoUser ELSE target[r]]
    /\ want' = [r \in Requests |-> IF r \in rs THEN "none" ELSE want[r]]

End(r) == EndAll({r})

AccessInit ==
    /\ mode = "oidc"
    /\ members = [u \in Users |-> "none"]
    /\ invites = [u \in Users |-> "none"]
    /\ credential = NoUser
    /\ session = [s \in SessionIds |-> NoUser]
    /\ expired = {}
    /\ flow = [f \in Flows |-> "none"]
    /\ flowFor = [f \in Flows |-> NoUser]
    /\ attempts = 0
    /\ pc = [r \in Requests |-> "idle"]
    /\ who = [r \in Requests |-> NoUser]
    /\ role = [r \in Requests |-> "none"]
    /\ at = [r \in Requests |-> NoUser]
    /\ target = [r \in Requests |-> NoUser]
    /\ want = [r \in Requests |-> "none"]
    /\ uses = [f \in Flows |-> 0]

-----------------------------------------------------------------------------
\* NewService in password mode creates the one built-in account, once, as an owner; a start
\* with a credential of another name, or whose user is no member any more, fails.
BootstrapPasswordIdentity(u) ==
    \/ /\ credential = NoUser
       /\ credential' = u
       /\ members' = [members EXCEPT ![u] = "owner"]
    \/ /\ credential = u /\ members[u] # "none"
       /\ UNCHANGED <<credential, members>>

HasPasswordIdentity == credential # NoUser

\* A start without bootstrap variables needs the account to exist.
NewService(m) ==
    \/ /\ m = "password"
       /\ \/ \E u \in Users : BootstrapPasswordIdentity(u)
          \/ HasPasswordIdentity /\ UNCHANGED <<credential, members>>
    \/ m = "oidc" /\ UNCHANGED <<credential, members>>

\* The process is replaced: requests in flight are gone, open transactions are rolled back.
Restart(m) ==
    /\ NewService(m)
    /\ mode' = m
    /\ EndAll(Requests)
    /\ attempts' = 0
    /\ UNCHANGED <<invites, session, flow, flowFor, expired, uses>>

-----------------------------------------------------------------------------
\* A random token that no row and no request in flight carries.
Fresh(x) == x \notin expired /\ \A q \in Requests : at[q] # x

\* The expired rows of a table are swept before one is created.
NewFlow(f, kind, u) ==
    LET swept == {x \in expired \cap Flows : flow[x] = kind} IN
    /\ flow[f] = "none" /\ Fresh(f)
    /\ flow' = [x \in Flows |-> IF x = f THEN kind ELSE IF x \in swept THEN "none" ELSE flow[x]]
    /\ flowFor' = [x \in Flows |-> IF x = f THEN u ELSE IF x \in swept THEN NoUser ELSE flowFor[x]]
    /\ expired' = expired \ swept
    /\ uses' = [uses EXCEPT ![f] = 0]

\* BeginLogin and CreateAuthFlow.
BeginLogin(r, f) ==
    /\ mode = "oidc" /\ pc[r] = "idle" /\ DatabaseFree(r)
    /\ NewFlow(f, "login", NoUser)
    /\ UNCHANGED <<mode, members, invites, credential, session, attempts, request>>

\* ConsumeAuthFlow and ConsumeBrokerOAuthFlow: the transaction reads the row.  For an expired
\* flow it returns before the commit, so that its DELETE is rolled back.
SelectFlow(r, f, kind) ==
    /\ flow[f] = kind /\ f \notin expired
    /\ at' = [at EXCEPT ![r] = f]
    /\ pc' = [pc EXCEPT ![r] = "flowtx"]

OidcCallback(r, f) ==
    /\ mode = "oidc" /\ pc[r] = "idle" /\ DatabaseFree(r)
    /\ SelectFlow(r, f, "login")
    /\ UNCHANGED <<mode, tables, expired, attempts, who, role, target, want, uses>>

\* The row is deleted and the flow returned, also when another transaction deleted it since.
\* ConsumeBrokerOAuth compares the user only now.  (A request without a user is a login.)
ConsumeFlow(r) ==
    LET f == at[r] IN
    /\ pc[r] = "flowtx"
    /\ flow' = [flow EXCEPT ![f] = "none"]
    /\ expired' = expired \ {f}
    /\ uses' = [uses EXCEPT ![f] = @ + 1]
    /\ IF flowFor[f] = who[r]
       THEN /\ pc' = [pc EXCEPT ![r] = IF who[r] = NoUser THEN "code" ELSE "exchange"]
            /\ UNCHANGED <<who, role, at, target, want>>
       ELSE End(r)
    /\ UNCHANGED <<mode, members, invites, credential, session, flowFor, attempts>>

\* ExchangeConnectionOAuthCode of the connection manager, or its failure.
ExchangeBrokerCode(r) ==
    /\ pc[r] = "exchange"
    /\ End(r)
    /\ UNCHANGED <<mode, tables, expired, attempts, uses>>

\* The provider's answer is refused, or names u and UpsertOIDCIdentity runs: the first member
\* becomes the owner, any other needs an invitation, which a new membership uses up.
UpsertOIDCIdentity(u) ==
    LET new   == members[u] = "none"
        first == \A x \in Users : members[x] = "none"
        given == IF first THEN "owner" ELSE invites[u] IN
    /\ new => given # "none"
    /\ members' = IF new THEN [members EXCEPT ![u] = given] ELSE members
    /\ invites' = IF new /\ given # "owner" THEN [invites EXCEPT ![u] = "none"] ELSE invites

CompleteLogin(r) ==
    /\ pc[r] = "code" /\ DatabaseFree(r)
    /\ \/ \E u \in Users : /\ UpsertOIDCIdentity(u)
                           /\ who' = [who EXCEPT ![r] = u]
                           /\ pc' = [pc EXCEPT ![r] = "login"]
                           /\ at' = [at EXCEPT ![r] = NoUser]
                           /\ UNCHANGED <<role, target, want>>
       \/ End(r) /\ UNCHANGED <<members, invites>>
    /\ UNCHANGED <<mode, credential, session, flow, flowFor, expired, attempts, uses>>

-----------------------------------------------------------------------------
\* allowed lets one more attempt through.
CheckLimiterLate(r) ==
    /\ mode = "password" /\ pc[r] = "idle"
    /\ attempts <= LoginLimit
    /\ pc' = [pc EXCEPT ![r] = "checked"]
    /\ UNCHANGED <<mode, tables, expired, attempts, who, role, at, target, want, uses>>

\* passwordLoginLimiter.allowed.
CheckLimiter(r) ==
    /\ mode = "password" /\ pc[r] = "idle"
    /\ attempts < LoginLimit
    /\ pc' = [pc EXCEPT ![r] = "checked"]
    /\ UNCHANGED <<mode, tables, expired, attempts, who, role, at, target, want, uses>>

\* passwordLoginLimiter.failed, which starts a window when there is none.
CountFailure == attempts' = attempts + 1

\* A malformed body, an unknown user or a wrong password.
PasswordRefused(r) ==
    /\ pc[r] = "checked"
    /\ CountFailure
    /\ End(r)
    /\ UNCHANGED <<mode, tables, expired, uses>>

\* GetPasswordIdentity joins the credential with the membership of its user.
PasswordIdentity == {u \in Users : u = credential /\ members[u] # "none"}

\* ... finds it and the password matches.
LoginWithPassword(r) ==
    /\ pc[r] = "checked" /\ DatabaseFree(r)
    /\ \E u \in PasswordIdentity : who' = [who EXCEPT ![r] = u]
    /\ pc' = [pc EXCEPT ![r] = "pwlogin"]
    /\ UNCHANGED <<mode, tables, expired, attempts, role, at, target, want, uses>>

\* CreateAuthSession sweeps too, and does not look at the membership again.
CreateAuthSession(s, u) ==
    LET swept == expired \cap SessionIds IN
    /\ session[s] = NoUser /\ Fresh(s)
    /\ session' = [x \in SessionIds |-> IF x = s THEN u ELSE IF x \in swept THEN NoUser ELSE session[x]]
    /\ expired' = expired \ swept

\* The handler then sets the cookies and, after a password, clears the limiter.
CreateLoginSession(r, s) ==
    /\ pc[r] \in {"login", "pwlogin"} /\ DatabaseFree(r)
    /\ CreateAuthSession(s, who[r])
    /\ IF pc[r] = "pwlogin" THEN attempts' = 0 ELSE UNCHANGED attempts
    /\ End(r)
    /\ UNCHANGED <<mode, members, invites, credential, flow, flowFor, uses>>

-----------------------------------------------------------------------------
\* A left join: the session of a user without a membership is a viewer's.
SessionRoleUnjoined(s) ==
    IF session[s] = NoUser THEN "none"
    ELSE IF members[session[s]] = "none" THEN "viewer" ELSE members[session[s]]

\* GetAuthSession joins the session with the membership of its user.
SessionRole(s) == IF session[s] # NoUser THEN members[session[s]] ELSE "none"

\* DeleteAuthSession, and the DELETE of a removed member's sessions.
DeleteSessions(gone) ==
    /\ session' = [x \in SessionIds |-> IF x \in gone THEN NoUser ELSE session[x]]
    /\ expired' = expired \ gone

\* Authenticate: an expired session is deleted.
Authenticate(r, s) ==
    /\ SessionRole(s) # "none"
    /\ IF s \in expired
       THEN DeleteSessions({s}) /\ UNCHANGED <<pc, who, role, at>>
       ELSE /\ who' = [who EXCEPT ![r] = session[s]]
            /\ role' = [role EXCEPT ![r] = SessionRole(s)]
            /\ at' = [at EXCEPT ![r] = s]
            /\ pc' = [pc EXCEPT ![r] = "in"]
            /\ UNCHANGED <<session, expired>>

\* The middleware goes on with the principal; a refused host, origin or token ends the request.
SessionMiddleware(r, s) ==
    /\ pc[r] = "idle" /\ DatabaseFree(r)
    /\ Authenticate(r, s)
    /\ UNCHANGED <<mode, members, invites, credential, flow, flowFor, attempts, target, want, uses>>

\* requirePermission: the handler runs with the role read by Authenticate.
Permitted(r, route) ==
    /\ pc[r] = "in"
    /\ Allows(role[r], "view") /\ Allows(role[r], RoutePermission[route])

\* The permission is missing, the handler refuses the body, or it only reads.
Answer(r) ==
    /\ pc[r] = "in"
    /\ End(r)
    /\ UNCHANGED <<mode, tables, expired, attempts, uses>>

Logout(r) ==
    /\ pc[r] = "in" /\ DatabaseFree(r)
    /\ DeleteSessions({at[r]})
    /\ End(r)
    /\ UNCHANGED <<mode, members, invites, credential, flow, flowFor, attempts, uses>>

\* InviteWorkspaceMember.
InviteWorkspaceMember(r, u, text) ==
    /\ Permitted(r, "members") /\ DatabaseFree(r)
    /\ NormalRole(text) # "owner"
    /\ invites' = [invites EXCEPT ![u] = NormalRole(text)]
    /\ End(r)
    /\ UNCHANGED <<mode, members, credential, session, flow, flowFor, expired, attempts, uses>>

WorkspaceMemberIsOwner(u) == members[u] = "owner"

\* updateWorkspaceMemberRole and deleteWorkspaceMemberHandler (text = "none"): an admin may
\* not touch itself, an owner (by the list read here) or hand out the role "owner".
\* What the handler knew of the caller is not used after this.
LookUpMember(r, u, text) ==
    /\ Permitted(r, "members") /\ DatabaseFree(r)
    /\ role[r] = "admin" => text # "owner" /\ u # who[r] /\ ~WorkspaceMemberIsOwner(u)
    /\ target' = [target EXCEPT ![r] = u]
    /\ want' = [want EXCEPT ![r] = NormalRole(text)]
    /\ pc' = [pc EXCEPT ![r] = "looked"]
    /\ role' = [role EXCEPT ![r] = "none"]
    /\ at' = [at EXCEPT ![r] = NoUser]
    /\ who' = [who EXCEPT ![r] = NoUser]
    /\ UNCHANGED <<mode, tables, expired, attempts, uses>>

\* The owners are not counted when an owner is removed, only when the role changes.
MayChangeUncounted(r) ==
    /\ members[target[r]] # "none"
    /\ members[target[r]] = "owner" /\ want[r] \notin {"owner", "none"} => OtherOwner(target[r])

\* UpdateWorkspaceMemberRole and DeleteWorkspaceMember: the transaction reads the member and,
\* when an owner is to lose the role, counts the owners.
MayChange(r) ==
    /\ members[target[r]] # "none"
    /\ members[target[r]] = "owner" /\ want[r] # "owner" => OtherOwner(target[r])

ReadMember(r) ==
    /\ pc[r] = "looked" /\ DatabaseFree(r)
    /\ IF MayChange(r)
       THEN /\ pc' = [pc EXCEPT ![r] = "tx"]
            /\ UNCHANGED <<who, role, at, target, want>>
       ELSE End(r)
    /\ UNCHANGED <<mode, tables, expired, attempts, uses>>

\* ... and writes.  A row that went meanwhile is not brought back; a removal takes the
\* sessions of the user with it.
WriteMember(r) ==
    LET u == target[r] IN
    /\ pc[r] = "tx"
    /\ members' = IF members[u] = "none" THEN members ELSE [members EXCEPT ![u] = want[r]]
    /\ DeleteSessions(IF want[r] = "none" THEN {s \in SessionIds : session[s] = u} ELSE {})
    /\ End(r)
    /\ UNCHANGED <<mode, invites, credential, flow, flowFor, attempts, uses>>

\* BeginBrokerOAuth and CreateBrokerOAuthFlow.
BeginBrokerOAuth(r, f) ==
    /\ Permitted(r, "connections") /\ DatabaseFree(r)
    /\ NewFlow(f, "broker", who[r])
    /\ End(r)
    /\ UNCHANGED <<mode, members, invites, credential, session, attempts>>

\* completeBrokerOAuth.
BrokerCallback(r, f) ==
    /\ Permitted(r, "connections") /\ DatabaseFree(r)
    /\ SelectFlow(r, f, "broker")
    /\ UNCHANGED <<mode, tables, expired, attempts, who, role, target, want, uses>>

-----------------------------------------------------------------------------
\* Time: a session or a flow expires; the limiter's window ends, which allowed and failed
\* notice when they next look.
Expire(x) ==
    /\ x \notin expired
    /\ IF x \in Flows THEN flow[x] # "none" ELSE session[x] # NoUser
    /\ expired' = expired \cup {x}
    /\ UNCHANGED <<mode, tables, attempts, request, uses>>

WindowEnds ==
    /\ attempts > 0
    /\ attempts' = 0
    /\ UNCHANGED <<mode, tables, expired, request, uses>>

Handle(r) ==
    \/ \E f \in Flows : BeginLogin(r, f) \/ OidcCallback(r, f) \/ BeginBrokerOAuth(r, f) \/ BrokerCallback(r, f)
    \/ ConsumeFlow(r) \/ ExchangeBrokerCode(r) \/ CompleteLogin(r)
    \/ CheckLimiter(r) \/ PasswordRefused(r) \/ LoginWithPassword(r)
    \/ \E s \in SessionIds : CreateLoginSession(r, s) \/ SessionMiddleware(r, s)
    \/ Answer(r) \/ Logout(r)
    \/ \E u \in Users, text \in RoleTexts : InviteWorkspaceMember(r, u, text)
    \/ \E u \in Users, text \in RoleTexts \cup {"none"} : LookUpMember(r, u, text)
    \/ ReadMember(r) \/ WriteMember(r)

AccessNext ==
    \/ \E r \in Requests : Handle(r)
    \/ \E m \in {"oidc", "password"} : Restart(m)
    \/ \E x \in Flows \cup SessionIds : Expire(x)
    \/ WindowEnds

AccessSpec == AccessInit /\ [][AccessNext]_accessVars

-----------------------------------------------------------------------------
(***************************************************************************)
(* Properties                                                              *)
(***************************************************************************)
States == {"idle", "flowtx", "code", "exchange", "login", "checked", "pwlogin", "in", "looked", "tx"}

AccessTypeOK ==
    /\ mode \in {"oidc", "password"}
    /\ members \in [Users -> Roles \cup {"none"}]
    /\ invites \in [Users -> Roles \cup {"none"}]
    /\ credential \in Users \cup {NoUser}
    /\ session \in [SessionIds -> Users \cup {NoUser}]
    /\ expired \subseteq Flows \cup SessionIds
    /\ flow \in [Flows -> {"none", "login", "broker"}]
    /\ flowFor \in [Flows -> Users \cup {NoUser}]
    /\ uses \in [Flows -> Nat]
    /\ attempts \in Nat
    /\ pc \in [Requests -> States]
    /\ who \in [Requests -> Users \cup {NoUser}]
    /\ role \in [Requests -> Roles \cup {"none"}]
    /\ at \in [Requests -> Flows \cup SessionIds \cup {NoUser}]
    /\ target \in [Requests -> Users \cup {NoUser}]
    /\ want \in [Requests -> Roles \cup {"none"}]

\* A workspace that has members has an owner: no order of role changes and removals by
\* concurrent requests, each of which saw another owner, leaves it without one
\* (UpdateWorkspaceMemberRole and DeleteWorkspaceMember count the owners first).
OwnerRemains == (\E u \in Users : members[u] # "none") => (\E u \in Users : members[u] = "owner")

\* A login state and a broker authorisation state are valid for one callback: however many
\* callbacks carry it at once, ConsumeAuthFlow and ConsumeBrokerOAuthFlow return it once.
OneUse == \A f \in Flows : uses[f] <= 1

\* The limiter tests and counts in separate critical sections, so concurrent logins exceed its
\* limit, but never by more than the requests in flight: what was counted in a window and
\* what is still being verified stay below limit + requests.
LimiterBound ==
    attempts > 0 => attempts + Cardinality({r \in Requests : pc[r] = "checked"})
                    < LoginLimit + Cardinality(Requests)

\* Neither a replayed callback nor a burst of guesses gets further than one at a time would.
LoginsBounded == OneUse /\ LimiterBound

\* A removed member stays out: a request is let in only for a user who is a member at that
\* moment, also when a login that began before the removal stored its session after it.
RemovedStayOut ==
    [][\A r \in Requests : pc[r] = "idle" /\ pc'[r] = "in" => members[who'[r]] # "none"]_accessVars
=============================================================================
