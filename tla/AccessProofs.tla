---------------------------- MODULE AccessProofs ----------------------------
(***************************************************************************)
(* Access control, proved for every set of people, requests, tokens and    *)
(* one-time states.                                                        *)
(*                                                                         *)
(* The transactions that read and then write are what could go wrong.      *)
(* Where the database is one connection (Serializable), at most one of     *)
(* them is open (Exclusive), so that what it read still holds when it      *)
(* writes (ClaimStands, FlowStands).  What is proved without Serializable  *)
(* holds for PostgreSQL too.                                               *)
(***************************************************************************)
EXTENDS Access, FiniteSetTheorems, TLAPS

Open == {"tx", "flowtx"}

\* One connection: only one transaction that reads and writes is open.
Exclusive ==
    Serializable => \A r, q \in Requests : r # q => ~(pc[r] \in Open /\ pc[q] \in Open)

\* A member transaction works on a user, and what it found is still so.
ClaimStands ==
    \A r \in Requests :
        /\ pc[r] \in {"looked", "tx"} => target[r] \in Users
        /\ Serializable /\ pc[r] = "tx" => MayChange(r)

\* A flow that is in its table was not handed out yet, and the one a transaction consumes is there.
FlowStands ==
    /\ \A f \in Flows : flow[f] # "none" => uses[f] = 0
    /\ \A r \in Requests :
          pc[r] = "flowtx" => at[r] \in Flows /\ (Serializable => flow[at[r]] # "none")

Checked == {r \in Requests : pc[r] = "checked"}

\* The inductive invariant.
AccessInv ==
    /\ AccessTypeOK /\ Exclusive /\ ClaimStands /\ FlowStands
    /\ Serializable => OwnerRemains /\ OneUse
    /\ LimiterBound

-----------------------------------------------------------------------------
\* The other handlers in flight do not notice.
Others(r) ==
    \A q \in Requests \ {r} :
        pc'[q] = pc[q] /\ at'[q] = at[q] /\ target'[q] = target[q] /\ want'[q] = want[q]

\* What the handler of one request may do to what the invariant speaks of.
Effects(r) ==
    /\ Others(r)
    /\ pc'[r] = "tx" => ReadMember(r)
    /\ pc'[r] = "looked" => target'[r] \in Users
    /\ pc'[r] = "flowtx" =>
          DatabaseFree(r) /\ at'[r] \in Flows /\ flow[at'[r]] # "none" /\ UNCHANGED <<flow, uses>>
    /\ pc'[r] = "checked" => CheckLimiter(r)
    /\ attempts' \in {attempts, 0} \/ PasswordRefused(r)
    /\ members' = members \/ CompleteLogin(r) \/ WriteMember(r)
    /\ \/ UNCHANGED <<flow, uses>>
       \/ ConsumeFlow(r)
       \/ /\ DatabaseFree(r) /\ pc[r] \notin Open /\ pc'[r] = "idle"
          /\ \E f \in Flows, k \in {"login", "broker"}, u \in Users \cup {NoUser} : NewFlow(f, k, u)
    /\ pc[r] = "idle" /\ pc'[r] = "in" => members[who'[r]] # "none"

\* A handler that ends.
LEMMA Ended ==
    ASSUME AccessTypeOK, NEW r \in Requests, End(r)
    PROVE  /\ pc' \in [Requests -> States] /\ who' \in [Requests -> Users \cup {NoUser}]
           /\ role' \in [Requests -> Roles \cup {"none"}]
           /\ at' \in [Requests -> Flows \cup SessionIds \cup {NoUser}]
           /\ target' \in [Requests -> Users \cup {NoUser}] /\ want' \in [Requests -> Roles \cup {"none"}]
           /\ pc'[r] = "idle" /\ Others(r)
<1> "idle" \in States
  BY DEF States
<1> QED BY DEF End, EndAll, AccessTypeOK, Others

LEMMA NewFlowTypes ==
    ASSUME AccessTypeOK, NEW f \in Flows, NEW k \in {"login", "broker"}, NEW u \in Users \cup {NoUser},
           NewFlow(f, k, u)
    PROVE  /\ flow' \in [Flows -> {"none", "login", "broker"}]
           /\ flowFor' \in [Flows -> Users \cup {NoUser}]
           /\ expired' \subseteq Flows \cup SessionIds
           /\ uses' \in [Flows -> Nat]
BY DEF NewFlow, AccessTypeOK

\* The handler keeps the types of everything.
LEMMA HandleTypes ==
    ASSUME AccessTypeOK, FlowStands, NEW r \in Requests, Handle(r)
    PROVE  AccessTypeOK'
<1> USE AccessAssumption
<1>0. {"idle", "flowtx", "code", "exchange", "login", "checked", "pwlogin", "in", "looked", "tx"} \subseteq States
  BY DEF States
<1>a. /\ {"owner", "admin", "member", "viewer"} = Roles
      /\ \A t \in RoleTexts \cup {"none"} : NormalRole(t) \in Roles \cup {"none"}
  BY DEF Roles, NormalRole
<1>1. ASSUME NEW f \in Flows, BeginLogin(r, f) PROVE AccessTypeOK'
  BY <1>1, <1>0, <1>a, NewFlowTypes DEF BeginLogin, request, AccessTypeOK
<1>2. ASSUME NEW f \in Flows, OidcCallback(r, f) PROVE AccessTypeOK'
  BY <1>2, <1>0, <1>a DEF OidcCallback, SelectFlow, tables, AccessTypeOK
<1>3. ASSUME NEW f \in Flows, BeginBrokerOAuth(r, f) PROVE AccessTypeOK'
  BY <1>3, <1>0, <1>a, NewFlowTypes, Ended DEF BeginBrokerOAuth, Permitted, AccessTypeOK
<1>4. ASSUME NEW f \in Flows, BrokerCallback(r, f) PROVE AccessTypeOK'
  BY <1>4, <1>0, <1>a DEF BrokerCallback, SelectFlow, Permitted, tables, AccessTypeOK
<1>5. ASSUME ConsumeFlow(r) PROVE AccessTypeOK'
  <2>1. /\ at[r] \in Flows /\ flow' = [flow EXCEPT ![at[r]] = "none"]
        /\ uses' = [uses EXCEPT ![at[r]] = uses[at[r]] + 1] /\ expired' \subseteq expired
    BY <1>5 DEF ConsumeFlow, FlowStands
  <2>2. /\ flow' \in [Flows -> {"none", "login", "broker"}] /\ uses' \in [Flows -> Nat]
        /\ expired' \subseteq Flows \cup SessionIds
    BY <2>1 DEF AccessTypeOK
  <2>3. UNCHANGED <<mode, members, invites, credential, session, flowFor, attempts>>
    BY <1>5 DEF ConsumeFlow
  <2>4. CASE End(r)
    BY <2>2, <2>3, <2>4, Ended DEF AccessTypeOK
  <2>5. CASE ~End(r)
    BY <1>5, <2>2, <2>3, <2>5, <1>0 DEF ConsumeFlow, AccessTypeOK
  <2> QED BY <2>4, <2>5
<1>6. ASSUME ExchangeBrokerCode(r) PROVE AccessTypeOK'
  BY <1>6, <1>0, <1>a, Ended DEF ExchangeBrokerCode, tables, AccessTypeOK
<1>7. ASSUME CompleteLogin(r) PROVE AccessTypeOK'
  <2>1. CASE End(r)
    BY <1>7, <2>1, <1>0, <1>a, Ended DEF CompleteLogin, UpsertOIDCIdentity, AccessTypeOK
  <2>2. CASE ~End(r)
    BY <1>7, <2>2, <1>0, <1>a DEF CompleteLogin, UpsertOIDCIdentity, AccessTypeOK
  <2> QED BY <2>1, <2>2
<1>8. ASSUME CheckLimiter(r) PROVE AccessTypeOK'
  BY <1>8, <1>0, <1>a DEF CheckLimiter, tables, AccessTypeOK
<1>9. ASSUME PasswordRefused(r) PROVE AccessTypeOK'
  BY <1>9, <1>0, <1>a, Ended DEF PasswordRefused, CountFailure, tables, AccessTypeOK
<1>10. ASSUME LoginWithPassword(r) PROVE AccessTypeOK'
  BY <1>10, <1>0, <1>a DEF LoginWithPassword, PasswordIdentity, tables, AccessTypeOK
<1>11. ASSUME NEW s \in SessionIds, CreateLoginSession(r, s) PROVE AccessTypeOK'
  BY <1>11, <1>0, <1>a, Ended DEF CreateLoginSession, CreateAuthSession, AccessTypeOK
<1>12. ASSUME NEW s \in SessionIds, SessionMiddleware(r, s) PROVE AccessTypeOK'
  BY <1>12, <1>0, <1>a DEF SessionMiddleware, Authenticate, DeleteSessions, SessionRole,
     AccessTypeOK
<1>13. ASSUME Answer(r) PROVE AccessTypeOK'
  BY <1>13, <1>0, <1>a, Ended DEF Answer, tables, AccessTypeOK
<1>14. ASSUME Logout(r) PROVE AccessTypeOK'
  BY <1>14, <1>0, <1>a, Ended DEF Logout, DeleteSessions, AccessTypeOK
<1>15. ASSUME NEW u \in Users, NEW text \in RoleTexts, InviteWorkspaceMember(r, u, text) PROVE AccessTypeOK'
  BY <1>15, <1>0, <1>a, Ended DEF InviteWorkspaceMember, Permitted, AccessTypeOK
<1>16. ASSUME NEW u \in Users, NEW text \in RoleTexts \cup {"none"}, LookUpMember(r, u, text) PROVE AccessTypeOK'
  BY <1>16, <1>0, <1>a DEF LookUpMember, Permitted, tables, AccessTypeOK
<1>17. ASSUME ReadMember(r) PROVE AccessTypeOK'
  <2>1. CASE End(r)
    BY <1>17, <2>1, <1>0, <1>a, Ended DEF ReadMember, tables, AccessTypeOK
  <2>2. CASE ~End(r)
    BY <1>17, <2>2, <1>0, <1>a DEF ReadMember, tables, AccessTypeOK
  <2> QED BY <2>1, <2>2
<1>18. ASSUME WriteMember(r) PROVE AccessTypeOK'
  BY <1>18, <1>0, <1>a, Ended DEF WriteMember, DeleteSessions, AccessTypeOK
<1> QED BY <1>1, <1>2, <1>3, <1>4, <1>5, <1>6, <1>7, <1>8, <1>9, <1>10, <1>11, <1>12, <1>13, <1>14,
          <1>15, <1>16, <1>17, <1>18 DEF Handle

LEMMA HandleEffects ==
    ASSUME AccessTypeOK, NEW r \in Requests, Handle(r)
    PROVE  Effects(r)
<1> USE DEF Open
<1>1. ASSUME NEW f \in Flows, BeginLogin(r, f) PROVE Effects(r)
  BY <1>1 DEF BeginLogin, request, AccessTypeOK, Effects, Others
<1>2. ASSUME NEW f \in Flows, OidcCallback(r, f) PROVE Effects(r)
  BY <1>2 DEF OidcCallback, SelectFlow, tables, AccessTypeOK, Effects, Others
<1>3. ASSUME NEW f \in Flows, BeginBrokerOAuth(r, f) PROVE Effects(r)
  BY <1>3, Ended DEF BeginBrokerOAuth, Permitted, AccessTypeOK, Effects
<1>4. ASSUME NEW f \in Flows, BrokerCallback(r, f) PROVE Effects(r)
  BY <1>4 DEF BrokerCallback, SelectFlow, tables, AccessTypeOK, Effects, Others
<1>5. ASSUME ConsumeFlow(r) PROVE Effects(r)
  <2>1. CASE End(r)
    BY <1>5, <2>1, Ended DEF ConsumeFlow, AccessTypeOK, Effects
  <2>2. CASE ~End(r)
    BY <1>5, <2>2 DEF ConsumeFlow, AccessTypeOK, Effects, Others
  <2> QED BY <2>1, <2>2
<1>6. ASSUME ExchangeBrokerCode(r) PROVE Effects(r)
  BY <1>6, Ended DEF ExchangeBrokerCode, tables, AccessTypeOK, Effects
<1>7. ASSUME CompleteLogin(r) PROVE Effects(r)
  <2>1. CASE End(r)
    BY <1>7, <2>1, Ended DEF CompleteLogin, AccessTypeOK, Effects
  <2>2. CASE ~End(r)
    BY <1>7, <2>2 DEF CompleteLogin, AccessTypeOK, Effects, Others
  <2> QED BY <2>1, <2>2
<1>8. ASSUME CheckLimiter(r) PROVE Effects(r)
  BY <1>8 DEF CheckLimiter, tables, AccessTypeOK, Effects, Others
<1>9. ASSUME PasswordRefused(r) PROVE Effects(r)
  BY <1>9, Ended DEF PasswordRefused, tables, AccessTypeOK, Effects
<1>10. ASSUME LoginWithPassword(r) PROVE Effects(r)
  BY <1>10 DEF LoginWithPassword, tables, AccessTypeOK, Effects, Others
<1>11. ASSUME NEW s \in SessionIds, CreateLoginSession(r, s) PROVE Effects(r)
  BY <1>11, Ended DEF CreateLoginSession, AccessTypeOK, Effects
<1>12. ASSUME NEW s \in SessionIds, SessionMiddleware(r, s) PROVE Effects(r)
  BY <1>12 DEF SessionMiddleware, Authenticate, SessionRole, AccessTypeOK, Effects, Others
<1>13. ASSUME Answer(r) PROVE Effects(r)
  BY <1>13, Ended DEF Answer, tables, AccessTypeOK, Effects
<1>14. ASSUME Logout(r) PROVE Effects(r)
  BY <1>14, Ended DEF Logout, AccessTypeOK, Effects
<1>15. ASSUME NEW u \in Users, NEW text \in RoleTexts, InviteWorkspaceMember(r, u, text) PROVE Effects(r)
  BY <1>15, Ended DEF InviteWorkspaceMember, AccessTypeOK, Effects
<1>16. ASSUME NEW u \in Users, NEW text \in RoleTexts \cup {"none"}, LookUpMember(r, u, text) PROVE Effects(r)
  BY <1>16 DEF LookUpMember, tables, AccessTypeOK, Effects, Others
<1>17. ASSUME ReadMember(r) PROVE Effects(r)
  <2>1. CASE End(r)
    BY <1>17, <2>1, Ended DEF ReadMember, tables, AccessTypeOK, Effects
  <2>2. CASE ~End(r)
    BY <1>17, <2>2 DEF ReadMember, tables, AccessTypeOK, Effects, Others
  <2> QED BY <2>1, <2>2
<1>18. ASSUME WriteMember(r) PROVE Effects(r)
  BY <1>18, Ended DEF WriteMember, AccessTypeOK, Effects
<1> QED BY <1>1, <1>2, <1>3, <1>4, <1>5, <1>6, <1>7, <1>8, <1>9, <1>10, <1>11, <1>12, <1>13, <1>14,
          <1>15, <1>16, <1>17, <1>18 DEF Handle

-----------------------------------------------------------------------------
LEMMA HandleExclusive ==
    ASSUME AccessTypeOK, Exclusive, NEW r \in Requests, Effects(r)
    PROVE  Exclusive'
<1> SUFFICES ASSUME Serializable, NEW p \in Requests, NEW q \in Requests, p # q,
                    pc'[p] \in Open, pc'[q] \in Open
             PROVE  FALSE
  BY DEF Exclusive
<1>1. Others(r)
  BY DEF Effects
<1>2. CASE p # r /\ q # r
  BY <1>1, <1>2 DEF Others, Exclusive
<1>3. ASSUME NEW x \in Requests \ {r}, pc'[r] \in Open, pc'[x] \in Open
      PROVE  FALSE
  <2>1. DatabaseFree(r)
    BY <1>3 DEF Effects, Open, ReadMember
  <2>2. pc[x] \notin Open
    BY <2>1 DEF DatabaseFree, Open
  <2> QED BY <1>1, <1>3, <2>2 DEF Others
<1> QED BY <1>2, <1>3

\* Only the transaction that is open, or one step while none is, changes the members.
LEMMA MembersGuarded ==
    ASSUME AccessTypeOK, Exclusive, Serializable, NEW r \in Requests, Effects(r),
           NEW q \in Requests \ {r}, pc[q] \in Open
    PROVE  members' = members
<1>1. ~WriteMember(r)
  BY DEF WriteMember, Exclusive, Open
<1>2. ~CompleteLogin(r)
  BY DEF CompleteLogin, DatabaseFree, Open
<1> QED BY <1>1, <1>2 DEF Effects

LEMMA HandleClaims ==
    ASSUME AccessTypeOK, Exclusive, ClaimStands, NEW r \in Requests, Effects(r)
    PROVE  ClaimStands'
<1> SUFFICES ASSUME NEW q \in Requests
             PROVE  /\ pc'[q] \in {"looked", "tx"} => target'[q] \in Users
                    /\ Serializable /\ pc'[q] = "tx" => MayChange(q)'
  BY DEF ClaimStands
<1>1. CASE q # r
  <2>1. pc'[q] = pc[q] /\ target'[q] = target[q] /\ want'[q] = want[q]
    BY <1>1 DEF Effects, Others
  <2>2. Serializable /\ pc[q] = "tx" => members' = members
    BY <1>1, MembersGuarded DEF Open
  <2> QED BY <2>1, <2>2 DEF ClaimStands, MayChange, OtherOwner
<1>2. CASE q = r
  <2>1. pc'[r] = "looked" => target'[r] \in Users
    BY DEF Effects
  <2>2. ASSUME pc'[r] = "tx"
        PROVE  target'[r] \in Users /\ MayChange(r)'
    <3>1. ReadMember(r) /\ pc[r] = "looked"
      BY <2>2 DEF Effects, ReadMember
    <3>2. ~End(r)
      BY <2>2, Ended
    <3>3. MayChange(r) /\ UNCHANGED <<members, target, want>>
      BY <3>1, <3>2 DEF ReadMember, tables
    <3> QED BY <3>1, <3>3 DEF ClaimStands, MayChange, OtherOwner
  <2> QED BY <1>2, <2>1, <2>2
<1> QED BY <1>1, <1>2

LEMMA HandleOwners ==
    ASSUME AccessTypeOK, ClaimStands, OwnerRemains, Serializable, NEW r \in Requests, Effects(r)
    PROVE  OwnerRemains'
<1> USE AccessAssumption DEF Roles
<1>1. CASE members' = members
  BY <1>1 DEF OwnerRemains
<1>2. CASE CompleteLogin(r)
  <2>1. CASE UNCHANGED members
    BY <2>1, <1>1
  <2>2. ASSUME NEW u \in Users, UpsertOIDCIdentity(u), members' # members
        PROVE  OwnerRemains'
    <3> DEFINE first == \A x \in Users : members[x] = "none"
    <3> DEFINE given == IF first THEN "owner" ELSE invites[u]
    <3>1. members[u] = "none" /\ members' = [members EXCEPT ![u] = given]
      BY <2>2 DEF UpsertOIDCIdentity
    <3>2. CASE first
      BY <3>1, <3>2 DEF AccessTypeOK, OwnerRemains
    <3>3. CASE ~first
      <4>1. PICK o \in Users : members[o] = "owner"
        BY <3>3 DEF OwnerRemains, AccessTypeOK
      <4> QED BY <3>1, <4>1 DEF AccessTypeOK, OwnerRemains
    <3> QED BY <3>2, <3>3
  <2> QED BY <1>1, <1>2, <2>1, <2>2 DEF CompleteLogin
<1>3. CASE WriteMember(r)
  <2>1. MayChange(r) /\ target[r] \in Users
    BY <1>3 DEF WriteMember, ClaimStands
  <2>2. members' = [members EXCEPT ![target[r]] = want[r]]
    BY <1>3, <2>1 DEF WriteMember, MayChange
  <2>3. CASE want[r] = "owner"
    BY <2>1, <2>2, <2>3 DEF OwnerRemains, AccessTypeOK
  <2>4. CASE want[r] # "owner"
    <3>1. PICK o \in Users \ {target[r]} : members[o] = "owner"
      <4>1. CASE members[target[r]] = "owner"
        BY <2>1, <2>4, <4>1 DEF MayChange, OtherOwner
      <4>2. CASE members[target[r]] # "owner"
        BY <2>1, <4>2 DEF MayChange, OwnerRemains
      <4> QED BY <4>1, <4>2
    <3> QED BY <2>2, <3>1 DEF OwnerRemains, AccessTypeOK
  <2> QED BY <2>3, <2>4
<1> QED BY <1>1, <1>2, <1>3 DEF Effects

LEMMA HandleFlows ==
    ASSUME AccessTypeOK, Exclusive, FlowStands, Serializable => OneUse, NEW r \in Requests, Handle(r),
           Effects(r)
    PROVE  FlowStands' /\ (Serializable => OneUse')
<1>0. \A q \in Requests \ {r} : pc'[q] = pc[q] /\ at'[q] = at[q]
  BY DEF Effects, Others
<1>1. CASE UNCHANGED <<flow, uses>>
  <2>1. pc'[r] = "flowtx" => at'[r] \in Flows /\ flow'[at'[r]] # "none"
    BY <1>1 DEF Effects
  <2> QED BY <1>0, <1>1, <2>1 DEF FlowStands, OneUse
<1>2. CASE ConsumeFlow(r)
  <2>0. pc[r] = "flowtx" /\ at[r] \in Flows
    BY <1>2 DEF ConsumeFlow, FlowStands
  <2>1. /\ flow'[at[r]] = "none" /\ uses'[at[r]] = uses[at[r]] + 1
        /\ \A f \in Flows \ {at[r]} : flow'[f] = flow[f] /\ uses'[f] = uses[f]
    BY <1>2, <2>0 DEF ConsumeFlow, AccessTypeOK
  <2>2. pc'[r] # "flowtx"
    <3>1. CASE End(r)
      BY <3>1, Ended
    <3>2. CASE ~End(r)
      BY <1>2, <3>2 DEF ConsumeFlow, AccessTypeOK
    <3> QED BY <3>1, <3>2
  <2>3. Serializable => uses[at[r]] = 0 /\ \A q \in Requests \ {r} : pc[q] # "flowtx"
    BY <2>0 DEF FlowStands, Exclusive, Open
  <2>4. \A f \in Flows : flow'[f] # "none" => uses'[f] = 0
    BY <2>1 DEF FlowStands
  <2>5. \A q \in Requests :
           pc'[q] = "flowtx" => at'[q] \in Flows /\ (Serializable => flow'[at'[q]] # "none")
    BY <1>0, <2>2, <2>3 DEF FlowStands
  <2>6. Serializable => OneUse'
    BY <2>1, <2>3 DEF OneUse
  <2> QED BY <2>4, <2>5, <2>6 DEF FlowStands
<1>3. ASSUME DatabaseFree(r), pc[r] \notin Open, pc'[r] = "idle",
             NEW f \in Flows, NEW k \in {"login", "broker"}, NEW u \in Users \cup {NoUser}, NewFlow(f, k, u)
      PROVE  FlowStands' /\ (Serializable => OneUse')
  <2>1. /\ flow'[f] = k /\ uses'[f] = 0
        /\ \A x \in Flows \ {f} : flow'[x] \in {flow[x], "none"} /\ uses'[x] = uses[x]
    BY <1>3 DEF NewFlow, AccessTypeOK
  <2>2. \A x \in Flows : flow'[x] # "none" => uses'[x] = 0
    BY <2>1 DEF FlowStands
  <2>3. Serializable => \A q \in Requests : pc'[q] # "flowtx"
    BY <1>0, <1>3 DEF DatabaseFree
  <2>4. \A q \in Requests : pc'[q] = "flowtx" => at'[q] \in Flows
    BY <1>0, <1>3 DEF FlowStands
  <2> QED BY <2>1, <2>2, <2>3, <2>4 DEF FlowStands, OneUse
<1> QED BY <1>1, <1>2, <1>3 DEF Effects

-----------------------------------------------------------------------------
LEMMA CheckedFinite ==
    /\ IsFiniteSet(Checked) /\ Cardinality(Checked) \in Nat
    /\ Cardinality(Checked) <= Cardinality(Requests) /\ Cardinality(Requests) \in Nat
BY AccessAssumption, FS_Subset, FS_CardinalityType DEF Checked

LEMMA HandleLimiter ==
    ASSUME AccessTypeOK, LimiterBound, NEW r \in Requests, Effects(r)
    PROVE  LimiterBound'
<1> USE AccessAssumption
<1>1. /\ IsFiniteSet(Checked) /\ Cardinality(Checked) \in Nat
      /\ IsFiniteSet(Checked') /\ Cardinality(Checked') \in Nat
      /\ Cardinality(Checked') <= Cardinality(Requests) /\ Cardinality(Requests) \in Nat
  <2>1. /\ IsFiniteSet(Checked') /\ Cardinality(Checked') \in Nat
        /\ Cardinality(Checked') <= Cardinality(Requests)
    BY FS_Subset, FS_CardinalityType DEF Checked
  <2> QED BY CheckedFinite, <2>1
<1>2. \A q \in Requests \ {r} : pc'[q] = pc[q]
  BY DEF Effects, Others
<1>3. attempts \in Nat
  BY DEF AccessTypeOK
<1>4. CASE CheckLimiter(r)
  <2>1. attempts' = attempts /\ attempts < LoginLimit
    BY <1>4 DEF CheckLimiter
  <2> QED BY <1>1, <1>3, <2>1 DEF LimiterBound, Checked
<1>5. CASE PasswordRefused(r)
  <2>1. attempts' = attempts + 1 /\ pc[r] = "checked" /\ pc'[r] = "idle"
    BY <1>5, Ended DEF PasswordRefused, CountFailure
  <2>2. Checked' = Checked \ {r} /\ r \in Checked
    BY <1>2, <2>1 DEF Checked
  <2>3. Cardinality(Checked') = Cardinality(Checked) - 1
    BY <1>1, <2>2, FS_RemoveElement
  <2> QED BY <1>1, <1>3, <2>1, <2>3, CheckedFinite DEF LimiterBound, Checked
<1>6. CASE ~CheckLimiter(r) /\ ~PasswordRefused(r)
  <2>1. attempts' \in {attempts, 0} /\ pc'[r] # "checked"
    BY <1>6 DEF Effects
  <2>2. Checked' \subseteq Checked
    BY <1>2, <2>1 DEF Checked
  <2>3. Cardinality(Checked') <= Cardinality(Checked)
    BY <1>1, <2>2, FS_Subset
  <2> QED BY <1>1, <1>3, <2>1, <2>3 DEF LimiterBound, Checked
<1> QED BY <1>4, <1>5, <1>6

-----------------------------------------------------------------------------
\* A restart ends every request, with its transaction.
LEMMA RestartKeeps ==
    ASSUME AccessInv, NEW m \in {"oidc", "password"}, Restart(m)
    PROVE  AccessInv'
<1> USE AccessAssumption DEF AccessInv
<1>1. /\ \A r \in Requests : pc'[r] = "idle"
      /\ attempts' = 0 /\ UNCHANGED <<invites, session, flow, flowFor, expired, uses>>
  BY DEF Restart, EndAll
<1>2. /\ pc' \in [Requests -> States] /\ who' \in [Requests -> Users \cup {NoUser}]
      /\ role' \in [Requests -> Roles \cup {"none"}]
      /\ at' \in [Requests -> Flows \cup SessionIds \cup {NoUser}]
      /\ target' \in [Requests -> Users \cup {NoUser}] /\ want' \in [Requests -> Roles \cup {"none"}]
  BY DEF Restart, EndAll, AccessTypeOK, States, Roles
<1>3. \/ UNCHANGED <<members, credential>>
      \/ \E u \in Users : credential' = u /\ members' = [members EXCEPT ![u] = "owner"]
  BY DEF Restart, NewService, BootstrapPasswordIdentity
<1>4. /\ members' \in [Users -> Roles \cup {"none"}] /\ credential' \in Users \cup {NoUser}
      /\ OwnerRemains => OwnerRemains'
  BY <1>3 DEF AccessTypeOK, Roles, OwnerRemains
<1>5. AccessTypeOK'
  BY <1>1, <1>2, <1>4 DEF AccessTypeOK, Restart
<1>6. Exclusive' /\ ClaimStands' /\ FlowStands' /\ LimiterBound'
  BY <1>1 DEF Exclusive, Open, ClaimStands, FlowStands, LimiterBound
<1>7. OneUse => OneUse'
  BY <1>1 DEF OneUse
<1> QED BY <1>4, <1>5, <1>6, <1>7

LEMMA AccessStep == AccessInv /\ [AccessNext]_accessVars => AccessInv'
<1> SUFFICES ASSUME AccessInv, [AccessNext]_accessVars PROVE AccessInv'
  OBVIOUS
<1> USE DEF AccessInv
<1>1. ASSUME NEW r \in Requests, Handle(r) PROVE AccessInv'
  <2>1. AccessTypeOK' /\ Effects(r)
    BY <1>1, HandleTypes, HandleEffects
  <2>2. Exclusive' /\ ClaimStands' /\ LimiterBound' /\ FlowStands'
    BY <1>1, <2>1, HandleExclusive, HandleClaims, HandleLimiter, HandleFlows
  <2>3. Serializable => OwnerRemains' /\ OneUse'
    BY <1>1, <2>1, HandleOwners, HandleFlows
  <2> QED BY <2>1, <2>2, <2>3
<1>2. ASSUME NEW m \in {"oidc", "password"}, Restart(m) PROVE AccessInv'
  BY <1>2, RestartKeeps
<1>3. ASSUME NEW x \in Flows \cup SessionIds, Expire(x) PROVE AccessInv'
  <2>1. /\ expired' = expired \cup {x}
        /\ UNCHANGED <<mode, members, invites, credential, session, flow, flowFor, attempts,
                       pc, who, role, at, target, want, uses>>
    BY <1>3 DEF Expire, tables, request
  <2>2. AccessTypeOK'
    BY <2>1 DEF AccessTypeOK
  <2> QED BY <2>1, <2>2 DEF Exclusive, ClaimStands, MayChange, OtherOwner, FlowStands, OwnerRemains,
          OneUse, LimiterBound
<1>4. ASSUME WindowEnds PROVE AccessInv'
  <2>1. /\ attempts' = 0
        /\ UNCHANGED <<mode, members, invites, credential, session, flow, flowFor, expired,
                       pc, who, role, at, target, want, uses>>
    BY <1>4 DEF WindowEnds, tables, request
  <2>2. AccessTypeOK'
    BY <2>1 DEF AccessTypeOK
  <2> QED BY <2>1, <2>2 DEF Exclusive, ClaimStands, MayChange, OtherOwner, FlowStands, OwnerRemains,
          OneUse, LimiterBound
<1>5. CASE UNCHANGED accessVars
  BY <1>5 DEF accessVars, tables, request, AccessTypeOK, Exclusive, ClaimStands, MayChange, OtherOwner,
     FlowStands, OwnerRemains, OneUse, LimiterBound
<1> QED BY <1>1, <1>2, <1>3, <1>4, <1>5 DEF AccessNext

LEMMA AccessStart == AccessInit => AccessInv
<1> SUFFICES ASSUME AccessInit PROVE AccessInv
  OBVIOUS
<1> USE AccessAssumption DEF AccessInit
<1>1. AccessTypeOK
  BY DEF AccessTypeOK, States, Roles
<1>2. Exclusive /\ ClaimStands /\ FlowStands
  BY DEF Exclusive, Open, ClaimStands, FlowStands
<1>3. OwnerRemains /\ OneUse /\ LimiterBound
  BY DEF OwnerRemains, OneUse, LimiterBound
<1> QED BY <1>1, <1>2, <1>3 DEF AccessInv

LEMMA AccessInvariant == AccessSpec => []AccessInv
BY AccessStart, AccessStep, PTL DEF AccessSpec

-----------------------------------------------------------------------------
\* The tables, the limiter and the handlers keep their types.
THEOREM AccessTypeCorrect == AccessSpec => []AccessTypeOK
<1> AccessInv => AccessTypeOK
  BY DEF AccessInv
<1> QED BY AccessInvariant, PTL

\* Concurrent role changes and removals leave every workspace that has members an owner, on a
\* database that runs one transaction at a time.
THEOREM AccessOwnerRemains == ASSUME Serializable PROVE AccessSpec => []OwnerRemains
<1>1. AccessInv => OwnerRemains
  BY DEF AccessInv
<1> QED BY <1>1, AccessInvariant, PTL

\* A login or authorisation state is used once, on such a database, and the limiter is never
\* exceeded by more than the requests in flight.
THEOREM AccessLoginsBounded == ASSUME Serializable PROVE AccessSpec => []LoginsBounded
<1>1. AccessInv => LoginsBounded
  BY DEF AccessInv, LoginsBounded
<1> QED BY <1>1, AccessInvariant, PTL

\* The limiter's bound does not need one.
THEOREM AccessLimiterBound == AccessSpec => []LimiterBound
<1> AccessInv => LimiterBound
  BY DEF AccessInv
<1> QED BY AccessInvariant, PTL

\* Authenticate lets a request in only for a user who is a member at that moment, on any database.
THEOREM AccessRemovedStayOut == AccessSpec => RemovedStayOut
<1> DEFINE Out == \A r \in Requests : pc[r] = "idle" /\ pc'[r] = "in" => members[who'[r]] # "none"
<1>1. ASSUME AccessTypeOK, [AccessNext]_accessVars PROVE [Out]_accessVars
  <2> SUFFICES ASSUME AccessNext, NEW q \in Requests, pc[q] = "idle", pc'[q] = "in"
               PROVE  members[who'[q]] # "none"
    BY <1>1
  <2>1. ASSUME NEW r \in Requests, Handle(r) PROVE members[who'[q]] # "none"
    <3>1. Effects(r)
      BY <1>1, <2>1, HandleEffects
    <3>2. q = r
      BY <3>1 DEF Effects, Others
    <3> QED BY <3>1, <3>2 DEF Effects
  <2>2. ~(\E m \in {"oidc", "password"} : Restart(m))
    BY DEF Restart, EndAll
  <2>3. ~(\E x \in Flows \cup SessionIds : Expire(x)) /\ ~WindowEnds
    BY DEF Expire, WindowEnds, request
  <2> QED BY <2>1, <2>2, <2>3 DEF AccessNext
<1> QED BY <1>1, AccessTypeCorrect, PTL DEF AccessSpec, RemovedStayOut

=============================================================================
