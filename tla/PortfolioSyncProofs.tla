------------------------- MODULE PortfolioSyncProofs -------------------------
(***************************************************************************)
(* Portfolio synchronisation, proved for any number of connections,        *)
(* accounts, fills and changes.                                            *)
(*                                                                         *)
(* Owned says what PromoteOrDelete leaves behind, Turns that syncMu admits *)
(* one synchronisation and where its locals stand, Recent that what it has *)
(* fetched is newer than what it is about to replace, and Taken when the   *)
(* loop holds refreshes it has taken from the pending ones.                *)
(***************************************************************************)
EXTENDS PortfolioSync, FiniteSetTheorems, TLAPS

\* An account has one primary among its links, and is archived when it has none.
Owned ==
    /\ archived \subseteq known
    /\ \A a \in Accounts :
        /\ link[a] = {} => primary[a] = {} /\ (a \in known => a \in archived)
        /\ link[a] # {} => a \in known /\ a \notin archived /\ \E c \in link[a] : primary[a] = {c}

\* syncMu, and the locals of the synchronisation that holds it.
Turns ==
    /\ \A p, q \in Procs : Running(p) /\ Running(q) => p = q
    /\ \A p \in Procs :
        /\ cur[p] # NoConn => Running(p)
        /\ pc[p] = "listing" => cur[p] # NoConn /\ acct[p] = NoAccount
        /\ acct[p] # NoAccount => cur[p] # NoConn

\* What an interactive connection fetched is at least as recent as what it has written.
Recent ==
    /\ \A a \in Accounts, i \in Res : ver[a][i] <= truth[a]
    /\ \A p \in Procs : acct[p] # NoAccount =>
        /\ fetched[p] <= truth[acct[p]]
        /\ cur[p] \notin Reports =>
              \A i \in Res : who[acct[p]][i] = cur[p] => ver[acct[p]][i] <= fetched[p]

\* The running refresh holds what it has taken until it has gone through it.
Taken ==
    /\ pc["loop"] = "idle" => now = NoKey
    /\ pc["loop"] # "refresh" /\ now = NoKey => \A k \in Keys : ready[k] = None

\* The inductive invariant.
SyncInv == TypeOK /\ Owned /\ DeletedLeavesNothing /\ Turns /\ Recent /\ Taken /\ FollowUps

\* The resources of an account.
LEMMA ResourceFacts ==
    /\ Len(Resources) \in Nat /\ 1 \in Res /\ Res \subseteq Nat
    /\ \A i \in Res : Resources[i] \in {"details", "cash", "positions", "performance"}
    /\ \A i \in Res : i # Len(Resources) => i + 1 \in Res
  BY PortfolioAssumption DEF Res

LEMMA SyncStart == Init => SyncInv
<1> SUFFICES ASSUME Init PROVE SyncInv
  OBVIOUS
<1> USE PortfolioAssumption, ResourceFacts DEF Init
<1>1. TypeOK
  <2>1. /\ conn \in [Conns -> {"none", "enabled", "disabled", "deleted"}]
        /\ who \in [Accounts -> [Res -> Conns \cup {NoConn}]] /\ ver \in [Accounts -> [Res -> 0..MaxFills]]
        /\ link \in [Accounts -> SUBSET Conns] /\ primary \in [Accounts -> SUBSET Conns]
        /\ truth \in [Accounts -> 0..MaxFills]
    OBVIOUS
  <2>2. /\ pending \in [Keys -> -1..2] /\ ready \in [Keys -> -1..2]
        /\ owed \in [Keys -> 0..Passes]
    BY DEF None, Passes
  <2>3. /\ todo \in [Procs -> SUBSET Conns] /\ cur \in [Procs -> Conns \cup {NoConn}]
        /\ list \in [Procs -> SUBSET Accounts] /\ acct \in [Procs -> Accounts \cup {NoAccount}]
        /\ nextRes \in [Procs -> Res] /\ fetched \in [Procs -> 0..MaxFills]
        /\ pc \in [Procs -> {"idle", "refresh", "wait", "run", "listing"}]
    BY DEF Procs
  <2>4. /\ known \subseteq Accounts /\ archived \subseteq Accounts /\ sources \subseteq Conns
        /\ cfg \in {"on", "off", "others"} /\ due \subseteq Keys /\ now \in Keys \cup {NoKey}
        /\ changes \in 0..MaxChanges /\ found \subseteq Accounts /\ finder \in Conns \cup {NoConn}
        /\ failed = {}
    OBVIOUS
  <2>5. syncNow \in BOOLEAN /\ changed \in BOOLEAN
    OBVIOUS
  <2> HIDE DEF Init
  <2> QED BY <2>1, <2>2, <2>3, <2>4, <2>5 DEF TypeOK
<1>2. Owned /\ DeletedLeavesNothing
  BY DEF Owned, DeletedLeavesNothing
<1>3. Turns /\ Recent /\ Taken /\ FollowUps
  BY DEF Turns, Running, Recent, Taken, FollowUps, None, Procs
<1> QED BY <1>1, <1>2, <1>3 DEF SyncInv

-----------------------------------------------------------------------------
Errors == Conns \X (Accounts \cup {NoAccount}) \X {"accounts", "details", "cash", "positions", "performance"}

\* What the helpers of the store and of a synchronisation leave behind.
LEMMA PromoteTypes ==
    ASSUME NEW touched, PromoteOrDelete(touched), known' \subseteq Accounts
    PROVE  archived' \subseteq Accounts /\ primary' \in [Accounts -> SUBSET Conns]
  BY DEF PromoteOrDelete

LEMMA ReplaceTypes ==
    ASSUME TypeOK, NEW c \in Conns, NEW listed \in SUBSET Accounts, ReplaceAccounts(c, listed)
    PROVE  /\ known' \subseteq Accounts /\ archived' \subseteq Accounts
           /\ link' \in [Accounts -> SUBSET Conns] /\ primary' \in [Accounts -> SUBSET Conns]
           /\ failed' \subseteq failed /\ UNCHANGED <<conn, who, ver>>
<1>1. known' \subseteq Accounts /\ link' \in [Accounts -> SUBSET Conns] /\ failed' \subseteq failed
  BY DEF ReplaceAccounts, TypeOK
<1> QED BY <1>1, PromoteTypes DEF ReplaceAccounts

LEMMA RecordTypes ==
    ASSUME TypeOK, NEW c \in Conns, NEW a \in Accounts \cup {NoAccount},
           NEW what \in {"accounts", "details", "cash", "positions", "performance"}, RecordError(c, a, what)
    PROVE  /\ failed' \subseteq Errors
           /\ UNCHANGED <<conn, known, archived, link, primary, who, ver>>
  BY DEF RecordError, TypeOK, Errors

LEMMA AdvanceTypes ==
    ASSUME TypeOK, NEW p \in Procs, Advance(p)
    PROVE  /\ acct' \in [Procs -> Accounts \cup {NoAccount}]
           /\ nextRes' \in [Procs -> Res]
           /\ fetched' \in [Procs -> 0..MaxFills]
<1>1. CASE nextRes[p] = Len(Resources)
  <2>1. 0 \in 0..MaxFills /\ 1 \in Res
    BY PortfolioAssumption, ResourceFacts
  <2>2. /\ acct' = [acct EXCEPT ![p] = NoAccount]
        /\ nextRes' = [nextRes EXCEPT ![p] = 1] /\ fetched' = [fetched EXCEPT ![p] = 0]
    BY <1>1 DEF Advance
  <2> QED BY <2>1, <2>2 DEF TypeOK
<1>2. CASE nextRes[p] # Len(Resources)
  <2>1. nextRes[p] + 1 \in Res
    BY <1>2, ResourceFacts DEF TypeOK
  <2> QED BY <1>2, <2>1 DEF Advance, TypeOK
<1> QED BY <1>1, <1>2

\* Every step keeps the types.
LEMMA SyncTypes == ASSUME TypeOK, Turns, Next PROVE TypeOK'
<1> USE PortfolioAssumption, ResourceFacts DEF store, refresh, runVars, outside, Procs, None, Passes
<1>1. ASSUME NEW p \in Procs, Lock(p) PROVE TypeOK'
  BY <1>1 DEF Lock, TypeOK
<1>2. ASSUME NEW p \in Procs, SkipSource(p) PROVE TypeOK'
  BY <1>2 DEF SkipSource, TypeOK
<1>3. ASSUME NEW p \in Procs, NEW c \in Conns, BeginSource(p, c) PROVE TypeOK'
  BY <1>3 DEF BeginSource, TypeOK
<1>4. ASSUME NEW p \in Procs, StoreAccounts(p) PROVE TypeOK'
  <2>1. PICK listed \in SUBSET Accounts : ReplaceAccounts(cur[p], listed) /\ list' = [list EXCEPT ![p] = listed \cap Scope(p)]
    BY <1>4 DEF StoreAccounts
  <2>2. cur[p] \in Conns
    BY <1>4 DEF StoreAccounts, Stored
  <2> QED BY <1>4, <2>1, <2>2, ReplaceTypes DEF StoreAccounts, TypeOK
<1>5. ASSUME NEW p \in Procs, AccountsFail(p) PROVE TypeOK'
  <2>1. cur[p] \in Conns /\ RecordError(cur[p], NoAccount, "accounts")
    BY <1>5 DEF AccountsFail, Turns, TypeOK
  <2> QED BY <1>5, <2>1, RecordTypes DEF AccountsFail, TypeOK, Errors
<1>6. ASSUME NEW p \in Procs, ResolveAccount(p) PROVE TypeOK'
  BY <1>6 DEF ResolveAccount, AtAccount, TypeOK
<1>7. ASSUME NEW p \in Procs, SkipAccount(p) PROVE TypeOK'
  BY <1>7 DEF SkipAccount, AtAccount, TypeOK
<1>8. ASSUME NEW p \in Procs, StoreResource(p) PROVE TypeOK'
  <2>1. /\ acct[p] \in Accounts /\ cur[p] \in Conns /\ nextRes[p] \in Res
        /\ who' = [who EXCEPT ![acct[p]][nextRes[p]] = cur[p]]
        /\ ver' = [ver EXCEPT ![acct[p]][nextRes[p]] = fetched[p]]
        /\ failed' \subseteq failed /\ Advance(p)
    BY <1>8 DEF StoreResource, AtResource, Turns, TypeOK
  <2>2. /\ who' \in [Accounts -> [Res -> Conns \cup {NoConn}]]
        /\ ver' \in [Accounts -> [Res -> 0..MaxFills]]
    BY <2>1 DEF TypeOK
  <2>3. /\ acct' \in [Procs -> Accounts \cup {NoAccount}]
        /\ nextRes' \in [Procs -> Res] /\ fetched' \in [Procs -> 0..MaxFills]
    BY <2>1, AdvanceTypes
  <2> QED BY <1>8, <2>1, <2>2, <2>3 DEF StoreResource, TypeOK
<1>9. ASSUME NEW p \in Procs, ResourceFails(p) PROVE TypeOK'
  <2>1. /\ acct[p] \in Accounts /\ cur[p] \in Conns
        /\ Resources[nextRes[p]] \in {"accounts", "details", "cash", "positions", "performance"}
        /\ RecordError(cur[p], acct[p], Resources[nextRes[p]])
    BY <1>9 DEF ResourceFails, AtResource, Turns, TypeOK
  <2>2. failed' \subseteq Errors /\ UNCHANGED <<conn, known, archived, link, primary, who, ver>>
    BY <2>1, RecordTypes
  <2>3. /\ acct' \in [Procs -> Accounts \cup {NoAccount}]
        /\ nextRes' \in [Procs -> Res] /\ fetched' \in [Procs -> 0..MaxFills]
    BY <1>9, AdvanceTypes DEF ResourceFails
  <2> QED BY <1>9, <2>2, <2>3 DEF ResourceFails, TypeOK, Errors
<1>10. ASSUME NEW p \in Procs, ResourceKept(p) PROVE TypeOK'
  BY <1>10, AdvanceTypes DEF ResourceKept, TypeOK
<1>11. ASSUME NEW p \in Procs, EndSource(p) PROVE TypeOK'
  BY <1>11 DEF EndSource, AtAccount, TypeOK
<1>12. ASSUME NEW p \in Procs, Unlock(p) PROVE TypeOK'
  BY <1>12 DEF Unlock, TypeOK
<1>13. ASSUME Tick PROVE TypeOK'
  BY <1>13 DEF Tick, Start, TypeOK
<1>14. ASSUME TakeSyncNow PROVE TypeOK'
  BY <1>14 DEF TakeSyncNow, Start, TypeOK
<1>15. ASSUME DropPending PROVE TypeOK'
  BY <1>15 DEF DropPending, TypeOK
<1>16. ASSUME TakePending PROVE TypeOK'
  BY <1>16 DEF TakePending, TypeOK
<1>17. ASSUME NEW k \in Keys, SyncAccount(k) PROVE TypeOK'
  BY <1>17 DEF SyncAccount, Start, TypeOK
<1>18. ASSUME Reschedule PROVE TypeOK'
  <2>1. now \in Keys /\ now' = NoKey /\ ready' = [ready EXCEPT ![now] = -1]
    BY <1>18 DEF Reschedule, TypeOK
  <2>2. pending' \in [Keys -> -1..2]
    <3>1. ready[now] \in -1..2
      BY <2>1 DEF TypeOK
    <3>2. ready[now] < 2 => ready[now] + 1 \in -1..2
      BY <3>1
    <3> QED BY <1>18, <2>1, <3>2 DEF Reschedule, TypeOK
  <2>3. ready' \in [Keys -> -1..2]
    BY <2>1 DEF TypeOK
  <2> QED BY <1>18, <2>1, <2>2, <2>3 DEF Reschedule, TypeOK
<1>19. ASSUME EndRefresh PROVE TypeOK'
  BY <1>19 DEF EndRefresh, TypeOK
<1>20. ASSUME SyncNow PROVE TypeOK'
  BY <1>20 DEF SyncNow, Start, TypeOK
<1>21. ASSUME SyncConnection PROVE TypeOK'
  BY <1>21 DEF SyncConnection, Start, TypeOK
<1>22. ASSUME SetSyncConfig PROVE TypeOK'
  BY <1>22 DEF SetSyncConfig, TypeOK
<1>23. ASSUME OnBrokersChanged PROVE TypeOK'
  BY <1>23 DEF OnBrokersChanged, TypeOK
<1>24. ASSUME ReloadFails PROVE TypeOK'
  BY <1>24 DEF ReloadFails, TypeOK
<1>25. ASSUME NEW c \in Conns, UpsertConnection(c) PROVE TypeOK'
  BY <1>25 DEF UpsertConnection, TypeOK
<1>26. ASSUME NEW c \in Conns, DeleteConnection(c) PROVE TypeOK'
  <2>1. /\ link' \in [Accounts -> SUBSET Conns] /\ known' \subseteq Accounts
        /\ conn' \in [Conns -> {"none", "enabled", "disabled", "deleted"}]
        /\ changes' \in 0..MaxChanges /\ failed' \subseteq failed
    BY <1>26 DEF DeleteConnection, TypeOK
  <2>2. archived' \subseteq Accounts /\ primary' \in [Accounts -> SUBSET Conns]
    BY <1>26, <2>1, PromoteTypes DEF DeleteConnection
  <2> QED BY <1>26, <2>1, <2>2 DEF DeleteConnection, TypeOK
<1>27. ASSUME NEW k \in Keys, InvalidateAccount(k) PROVE TypeOK'
  BY <1>27 DEF InvalidateAccount, TypeOK
<1>28. ASSUME NEW k \in Keys, ComesDue(k) PROVE TypeOK'
  BY <1>28 DEF ComesDue, TypeOK
<1>29. ASSUME NEW c \in Reports, ReadFlexAccounts(c) PROVE TypeOK'
  BY <1>29 DEF ReadFlexAccounts, TypeOK
<1>30. ASSUME DiscoverFlexAccounts PROVE TypeOK'
  <2>1. CASE finder \in Stored
    <3>1. finder \in Conns /\ found \in SUBSET Accounts /\ ReplaceAccounts(finder, found)
      BY <1>30, <2>1 DEF DiscoverFlexAccounts, Stored, TypeOK
    <3> QED BY <1>30, <3>1, ReplaceTypes DEF DiscoverFlexAccounts, TypeOK
  <2>2. CASE finder \notin Stored
    BY <1>30, <2>2 DEF DiscoverFlexAccounts, TypeOK
  <2> QED BY <2>1, <2>2
<1>31. ASSUME NEW a \in Accounts, Fill(a) PROVE TypeOK'
  BY <1>31 DEF Fill, TypeOK
<1> QED
  BY <1>1, <1>2, <1>3, <1>4, <1>5, <1>6, <1>7, <1>8, <1>9, <1>10, <1>11, <1>12, <1>13, <1>14, <1>15,
     <1>16, <1>17, <1>18, <1>19, <1>20, <1>21, <1>22, <1>23, <1>24, <1>25, <1>26, <1>27, <1>28,
     <1>29, <1>30, <1>31
  DEF Next, SyncStep, LoopStep, AdminStep

-----------------------------------------------------------------------------
(***************************************************************************)
(* Who owns an account.                                                    *)
(***************************************************************************)
\* Its transaction leaves every account it touches owned, and the others as they were.
LEMMA PromoteOwned ==
    ASSUME TypeOK, TypeOK', Owned, NEW touched \in SUBSET Accounts, PromoteOrDelete(touched),
           known \subseteq known', known' \ known \subseteq touched, touched \subseteq known',
           \A a \in Accounts \ touched : link'[a] = link[a]
    PROVE  Owned'
<1>1. archived' \subseteq known'
  BY DEF PromoteOrDelete
<1>2. ASSUME NEW a \in touched
      PROVE  /\ link'[a] = {} => primary'[a] = {} /\ a \in archived'
             /\ link'[a] # {} => a \notin archived' /\ \E c \in link'[a] : primary'[a] = {c}
  <2>1. Preferred(link'[a], primary[a]) \subseteq link'[a]
    BY DEF Preferred
  <2>2. link'[a] # {} => \E c \in Preferred(link'[a], primary[a]) : primary'[a] = {c}
    BY <1>2 DEF PromoteOrDelete
  <2>3. a \in archived' <=> link'[a] = {}
    BY <1>2 DEF PromoteOrDelete
  <2>4. link'[a] = {} => primary'[a] = {}
    BY <1>2 DEF PromoteOrDelete
  <2> QED BY <2>1, <2>2, <2>3, <2>4
<1>3. ASSUME NEW a \in Accounts \ touched
      PROVE  /\ link'[a] = {} => primary'[a] = {} /\ (a \in known' => a \in archived')
             /\ link'[a] # {} => a \in known' /\ a \notin archived' /\ \E c \in link'[a] : primary'[a] = {c}
  <2>1. link'[a] = link[a] /\ primary'[a] = primary[a] /\ (a \in known' <=> a \in known)
    BY <1>3 DEF PromoteOrDelete
  <2>2. a \in archived' <=> a \in archived /\ a \in known
    BY <1>3, <2>1 DEF PromoteOrDelete
  <2> QED BY <1>3, <2>1, <2>2 DEF Owned
<1> QED BY <1>1, <1>2, <1>3 DEF Owned

LEMMA ReplaceOwned ==
    ASSUME TypeOK, TypeOK', Owned, DeletedLeavesNothing,
           NEW c \in Stored, NEW listed \in SUBSET Accounts, ReplaceAccounts(c, listed)
    PROVE  Owned' /\ DeletedLeavesNothing'
<1> DEFINE touched == listed \cup {a \in Accounts : c \in link[a]}
<1>1. /\ known' = known \cup listed /\ PromoteOrDelete(touched)
      /\ \A a \in Accounts : link'[a] = IF a \in listed THEN link[a] \cup {c} ELSE link[a] \ {c}
      /\ failed' \subseteq failed /\ UNCHANGED conn
  BY DEF ReplaceAccounts
<1>2. \A a \in Accounts \ touched : link'[a] = link[a]
  BY <1>1
<1>3. touched \in SUBSET Accounts /\ touched \subseteq known' /\ known' \ known \subseteq touched
  BY <1>1 DEF Owned
<1>4. Owned'
  <2> HIDE DEF touched
  <2> QED BY <1>1, <1>2, <1>3, PromoteOwned
<1>5. conn[c] # "deleted"
  BY DEF Stored
<1>6. ASSUME NEW d \in Conns, conn[d] = "deleted", NEW a \in Accounts PROVE d \notin link'[a]
  <2>1. d # c /\ d \notin link[a]
    BY <1>5, <1>6 DEF DeletedLeavesNothing
  <2> QED BY <1>1, <2>1
<1>7. \A d \in Conns : conn[d] = "deleted" => \A f \in failed' : f[1] # d
  BY <1>1 DEF DeletedLeavesNothing
<1>8. DeletedLeavesNothing'
  BY <1>1, <1>6, <1>7 DEF DeletedLeavesNothing
<1> QED BY <1>4, <1>8

LEMMA DeleteOwned ==
    ASSUME TypeOK, TypeOK', Owned, DeletedLeavesNothing, NEW c \in Conns, DeleteConnection(c)
    PROVE  Owned' /\ DeletedLeavesNothing'
<1> DEFINE touched == {a \in Accounts : c \in link[a]}
<1>1. /\ known' = known /\ PromoteOrDelete(touched)
      /\ \A a \in Accounts : link'[a] = link[a] \ {c}
      /\ failed' = {f \in failed : f[1] # c} /\ conn' = [conn EXCEPT ![c] = "deleted"]
  BY DEF DeleteConnection
<1>2. \A a \in Accounts \ touched : link'[a] = link[a]
  BY <1>1
<1>3. touched \in SUBSET Accounts /\ touched \subseteq known' /\ known' \ known \subseteq touched
  BY <1>1 DEF Owned
<1>4. Owned'
  <2> HIDE DEF touched
  <2> QED BY <1>1, <1>2, <1>3, PromoteOwned
<1>5. DeletedLeavesNothing'
  BY <1>1 DEF DeletedLeavesNothing, TypeOK
<1> QED BY <1>4, <1>5

\* Every step leaves the accounts owned and nothing of deleted connections.
LEMMA OwnershipStep ==
    ASSUME TypeOK, TypeOK', Owned, DeletedLeavesNothing, Turns, Next
    PROVE  Owned' /\ DeletedLeavesNothing'
<1>1. CASE UNCHANGED <<conn, known, archived, link, primary, failed>>
  BY <1>1 DEF Owned, DeletedLeavesNothing
<1>2. ASSUME NEW p \in Procs, StoreAccounts(p) PROVE Owned' /\ DeletedLeavesNothing'
  BY <1>2, ReplaceOwned DEF StoreAccounts
<1>3. CASE DiscoverFlexAccounts
  <2>1. CASE finder \in Stored
    BY <1>3, <2>1, ReplaceOwned DEF DiscoverFlexAccounts, TypeOK
  <2>2. CASE finder \notin Stored
    BY <1>1, <1>3, <2>2 DEF DiscoverFlexAccounts, store
  <2> QED BY <2>1, <2>2
<1>4. ASSUME NEW c \in Conns, DeleteConnection(c) PROVE Owned' /\ DeletedLeavesNothing'
  BY <1>4, DeleteOwned
<1>5. ASSUME NEW c \in Conns, UpsertConnection(c) PROVE Owned' /\ DeletedLeavesNothing'
  <2>1. UNCHANGED <<known, archived, link, primary, failed>>
    BY <1>5 DEF UpsertConnection
  <2>2. \A d \in Conns : conn'[d] = "deleted" => conn[d] = "deleted"
    BY <1>5 DEF UpsertConnection, TypeOK
  <2> QED BY <2>1, <2>2 DEF Owned, DeletedLeavesNothing
<1>6. ASSUME NEW c \in Conns, NEW a, NEW what, RecordError(c, a, what) PROVE Owned' /\ DeletedLeavesNothing'
  <2>1. UNCHANGED <<conn, known, archived, link, primary>>
    BY <1>6 DEF RecordError
  <2>2. \A f \in failed' : f \in failed \/ (f[1] = c /\ conn[c] # "deleted")
    <3>1. <<c, a, what>>[1] = c
      OBVIOUS
    <3>2. failed' = failed \/ (conn[c] # "deleted" /\ failed' = failed \cup {<<c, a, what>>})
      BY <1>6 DEF RecordError
    <3> QED BY <3>1, <3>2
  <2> QED BY <2>1, <2>2 DEF Owned, DeletedLeavesNothing
<1>7. ASSUME NEW p \in Procs, AccountsFail(p) \/ ResourceFails(p) PROVE Owned' /\ DeletedLeavesNothing'
  <2>1. cur[p] \in Conns
    BY <1>7 DEF AccountsFail, ResourceFails, AtResource, Turns, TypeOK
  <2> QED BY <1>6, <1>7, <2>1 DEF AccountsFail, ResourceFails
<1>8. ASSUME NEW p \in Procs, StoreResource(p) PROVE Owned' /\ DeletedLeavesNothing'
  <2>1. UNCHANGED <<conn, known, archived, link, primary>> /\ failed' \subseteq failed
    BY <1>8 DEF StoreResource
  <2> QED BY <2>1 DEF Owned, DeletedLeavesNothing
<1>9. ASSUME NEW p \in Procs, Lock(p) \/ SkipSource(p) \/ (\E c \in Conns : BeginSource(p, c)) \/ ResolveAccount(p)
                              \/ SkipAccount(p) \/ ResourceKept(p) \/ EndSource(p) \/ Unlock(p)
      PROVE  UNCHANGED <<conn, known, archived, link, primary, failed>>
  BY <1>9 DEF Lock, SkipSource, BeginSource, ResolveAccount, SkipAccount, ResourceKept, EndSource, Unlock, store
<1>10. ASSUME \/ LoopStep \/ SyncNow \/ SyncConnection \/ SetSyncConfig \/ OnBrokersChanged \/ ReloadFails
              \/ \E k \in Keys : InvalidateAccount(k) \/ ComesDue(k)
              \/ \E c \in Reports : ReadFlexAccounts(c)
              \/ \E a \in Accounts : Fill(a)
       PROVE  UNCHANGED <<conn, known, archived, link, primary, failed>>
  BY <1>10 DEF LoopStep, Tick, TakeSyncNow, DropPending, TakePending, SyncAccount, Reschedule, EndRefresh,
     SyncNow, SyncConnection, SetSyncConfig, OnBrokersChanged, ReloadFails, InvalidateAccount, ComesDue,
     ReadFlexAccounts, Fill, store
<1> QED
  BY <1>1, <1>2, <1>3, <1>4, <1>5, <1>7, <1>8, <1>9, <1>10 DEF Next, SyncStep, AdminStep

-----------------------------------------------------------------------------
(***************************************************************************)
(* One synchronisation at a time, and what it has fetched.                 *)
(***************************************************************************)
\* A step of one process leaves the other's locals alone.
LEMMA TurnsStep == ASSUME TypeOK, TypeOK', Turns, Taken, Next PROVE Turns'
<1> USE DEF Procs
<1>1. CASE UNCHANGED <<cur, acct, pc>>
  BY <1>1 DEF Turns, Running
<1>2. ASSUME NEW p \in Procs, Lock(p) PROVE Turns'
  <2>1. /\ pc[p] = "wait" /\ \A q \in Procs : ~Running(q)
        /\ pc' = [pc EXCEPT ![p] = "run"] /\ UNCHANGED <<cur, acct>>
    BY <1>2 DEF Lock
  <2> QED BY <2>1 DEF Turns, Running, TypeOK
<1>3. ASSUME NEW p \in Procs, NEW c \in Conns, BeginSource(p, c) PROVE Turns'
  <2>1. /\ pc[p] = "run" /\ cur[p] = NoConn /\ pc' = [pc EXCEPT ![p] = "listing"]
        /\ cur' = [cur EXCEPT ![p] = c] /\ UNCHANGED acct /\ c # NoConn
    BY <1>3, PortfolioAssumption DEF BeginSource
  <2> QED BY <2>1 DEF Turns, Running, TypeOK
<1>4. ASSUME NEW p \in Procs, StoreAccounts(p) PROVE Turns'
  BY <1>4 DEF StoreAccounts, Turns, Running, TypeOK
<1>5. ASSUME NEW p \in Procs, AccountsFail(p) PROVE Turns'
  BY <1>5 DEF AccountsFail, Turns, Running, TypeOK
<1>6. ASSUME NEW p \in Procs, ResolveAccount(p) PROVE Turns'
  <2>1. /\ pc[p] = "run" /\ cur[p] # NoConn /\ UNCHANGED <<pc, cur>>
        /\ \A q \in Procs : q # p => acct'[q] = acct[q]
    BY <1>6 DEF ResolveAccount, AtAccount, TypeOK
  <2> QED BY <2>1 DEF Turns, Running
<1>7. ASSUME NEW p \in Procs, StoreResource(p) \/ ResourceFails(p) \/ ResourceKept(p) PROVE Turns'
  <2>1. UNCHANGED <<pc, cur>> /\ Advance(p)
    BY <1>7 DEF StoreResource, ResourceFails, ResourceKept
  <2>2. \A q \in Procs : acct'[q] \in {acct[q], NoAccount}
    BY <2>1 DEF Advance, TypeOK
  <2> QED BY <2>1, <2>2 DEF Turns, Running
<1>8. ASSUME NEW p \in Procs, EndSource(p) PROVE Turns'
  BY <1>8 DEF EndSource, AtAccount, Turns, Running, TypeOK
<1>9. ASSUME NEW p \in Procs, Unlock(p) PROVE Turns'
  <2>1. /\ pc[p] = "run" /\ cur[p] = NoConn /\ UNCHANGED <<cur, acct>>
        /\ \E w \in {"idle", "refresh"} : pc' = [pc EXCEPT ![p] = w]
    BY <1>9 DEF Unlock, runVars
  <2> QED BY <2>1 DEF Turns, Running, TypeOK
<1>10. ASSUME NEW p \in Procs, pc[p] \in {"idle", "refresh"}, UNCHANGED <<cur, acct>>,
              NEW w \in {"idle", "refresh", "wait"}, pc' = [pc EXCEPT ![p] = w]
       PROVE  Turns'
  BY <1>10 DEF Turns, Running, TypeOK
<1>11. CASE Tick \/ TakeSyncNow \/ SyncNow \/ SyncConnection
  BY <1>10, <1>11 DEF Tick, TakeSyncNow, SyncNow, SyncConnection, Start
<1>12. CASE TakePending \/ EndRefresh
  BY <1>10, <1>12 DEF TakePending, EndRefresh, runVars
<1>13. ASSUME NEW k \in Keys, SyncAccount(k) PROVE Turns'
  BY <1>1, <1>10, <1>13 DEF SyncAccount, Start, runVars
<1>14. ASSUME \/ \E p \in Procs : SkipSource(p) \/ SkipAccount(p)
              \/ DropPending \/ Reschedule \/ AdminStep \/ DiscoverFlexAccounts
              \/ \E k \in Keys : InvalidateAccount(k) \/ ComesDue(k)
              \/ \E c \in Reports : ReadFlexAccounts(c)
              \/ \E a \in Accounts : Fill(a)
       PROVE  UNCHANGED <<cur, acct, pc>>
  BY <1>14 DEF SkipSource, SkipAccount, DropPending, Reschedule, AdminStep, SetSyncConfig, OnBrokersChanged,
     ReloadFails, UpsertConnection, DeleteConnection, InvalidateAccount, ComesDue, ReadFlexAccounts,
     DiscoverFlexAccounts, Fill, runVars
<1> QED
  BY <1>1, <1>2, <1>3, <1>4, <1>5, <1>6, <1>7, <1>8, <1>9, <1>11, <1>12, <1>13, <1>14
  DEF Next, SyncStep, LoopStep

\* The versions written and fetched never run ahead of the account or behind what is shown.
LEMMA RecentStep == ASSUME TypeOK, TypeOK', Turns, Recent, Next PROVE Recent'
<1> USE PortfolioAssumption
<1>1. CASE UNCHANGED <<truth, who, ver, acct, fetched>> /\ \A p \in Procs : acct[p] # NoAccount => cur'[p] = cur[p]
  BY <1>1 DEF Recent
<1>2. ASSUME NEW a \in Accounts, Fill(a) PROVE Recent'
  <2>1. UNCHANGED <<who, ver, acct, fetched, cur>>
    BY <1>2 DEF Fill, store, runVars
  <2>2. \A b \in Accounts : truth[b] \in Nat /\ truth'[b] \in Nat /\ truth[b] <= truth'[b]
    BY <1>2 DEF Fill, TypeOK
  <2>3. /\ \A b \in Accounts, i \in Res : ver[b][i] \in Nat
        /\ \A p \in Procs : fetched[p] \in Nat /\ acct[p] \in Accounts \cup {NoAccount}
    BY DEF TypeOK
  <2> QED BY <2>1, <2>2, <2>3 DEF Recent
<1>3. ASSUME NEW p \in Procs, ResolveAccount(p) PROVE Recent'
  <2>1. PICK a \in Accounts, v \in Nat :
            /\ v <= truth[a]
            /\ acct' = [acct EXCEPT ![p] = a] /\ fetched' = [fetched EXCEPT ![p] = v]
            /\ cur[p] \notin Reports => v = truth[a]
    <3>1. \A a \in Accounts : \A v \in 0..truth[a] : v \in Nat /\ v <= truth[a]
      BY DEF TypeOK
    <3> QED BY <1>3, <3>1 DEF ResolveAccount, TypeOK
  <2>2. UNCHANGED <<truth, who, ver, cur>>
    BY <1>3 DEF ResolveAccount, store, outside
  <2>3. /\ acct'[p] = a /\ fetched'[p] = v /\ v <= truth[a]
        /\ \A q \in Procs : q # p => acct'[q] = acct[q] /\ fetched'[q] = fetched[q]
    BY <2>1 DEF TypeOK
  <2> QED BY <2>1, <2>2, <2>3 DEF Recent
<1>4. ASSUME NEW p \in Procs, Advance(p), UNCHANGED <<truth, cur>>,
             \A a \in Accounts, i \in Res : ver'[a][i] <= truth[a],
             \A i \in Res : who'[acct[p]][i] = cur[p] => who[acct[p]][i] = cur[p] \/ ver'[acct[p]][i] = fetched[p],
             \A i \in Res : ver'[acct[p]][i] \in {ver[acct[p]][i], fetched[p]},
             acct[p] # NoAccount
      PROVE  Recent'
  <2>1. \A q \in Procs : q # p => acct[q] = NoAccount
    BY <1>4 DEF Turns, Running
  <2>2. \A q \in Procs : /\ acct'[q] # NoAccount => q = p /\ acct'[q] = acct[q] /\ fetched'[q] = fetched[q]
    <3>1. CASE nextRes[p] = Len(Resources)
      <4>1. acct' = [acct EXCEPT ![p] = NoAccount]
        BY <1>4, <3>1 DEF Advance
      <4> QED BY <2>1, <4>1 DEF TypeOK
    <3>2. CASE nextRes[p] # Len(Resources)
      <4>1. UNCHANGED <<acct, fetched>>
        BY <1>4, <3>2 DEF Advance
      <4> QED BY <2>1, <4>1
    <3> QED BY <3>1, <3>2
  <2>3. fetched[p] <= truth[acct[p]]
    BY <1>4 DEF Recent
  <2>4. fetched[p] \in Nat
    BY DEF TypeOK
  <2>5. cur[p] \notin Reports => \A i \in Res : who'[acct[p]][i] = cur[p] => ver'[acct[p]][i] <= fetched[p]
    BY <1>4, <2>4 DEF Recent
  <2> QED BY <1>4, <2>2, <2>3, <2>5 DEF Recent
<1>5. ASSUME NEW p \in Procs, StoreResource(p) PROVE Recent'
  <2>1. /\ acct[p] \in Accounts /\ nextRes[p] \in Res /\ acct[p] # NoAccount /\ Advance(p)
        /\ who' = [who EXCEPT ![acct[p]][nextRes[p]] = cur[p]]
        /\ ver' = [ver EXCEPT ![acct[p]][nextRes[p]] = fetched[p]]
        /\ UNCHANGED <<truth, cur>>
    BY <1>5 DEF StoreResource, AtResource, outside, TypeOK
  <2>2. \A a \in Accounts, i \in Res :
            /\ who'[a][i] = IF a = acct[p] /\ i = nextRes[p] THEN cur[p] ELSE who[a][i]
            /\ ver'[a][i] = IF a = acct[p] /\ i = nextRes[p] THEN fetched[p] ELSE ver[a][i]
    <3>1. who \in [Accounts -> [Res -> Conns \cup {NoConn}]] /\ ver \in [Accounts -> [Res -> 0..MaxFills]]
      BY DEF TypeOK
    <3>2. \A a \in Accounts, i \in Res :
              who'[a][i] = IF a = acct[p] /\ i = nextRes[p] THEN cur[p] ELSE who[a][i]
      BY <2>1, <3>1
    <3>3. \A a \in Accounts, i \in Res :
              ver'[a][i] = IF a = acct[p] /\ i = nextRes[p] THEN fetched[p] ELSE ver[a][i]
      BY <2>1, <3>1
    <3> QED BY <3>2, <3>3
  <2>3. \A a \in Accounts, i \in Res : ver'[a][i] <= truth[a]
    BY <2>1, <2>2 DEF Recent
  <2> QED BY <1>4, <2>1, <2>2, <2>3
<1>6. ASSUME NEW p \in Procs, ResourceFails(p) \/ ResourceKept(p) PROVE Recent'
  <2>1. Advance(p) /\ acct[p] # NoAccount /\ UNCHANGED <<truth, who, ver, cur>>
    BY <1>6 DEF ResourceFails, ResourceKept, AtResource, RecordError, store, outside
  <2> QED BY <1>4, <2>1 DEF Recent
<1>7. ASSUME NEW p \in Procs, \/ StoreAccounts(p) \/ SkipSource(p) \/ SkipAccount(p) \/ Lock(p) \/ Unlock(p)
      PROVE  Recent'
  BY <1>1, <1>7 DEF StoreAccounts, ReplaceAccounts, SkipSource, SkipAccount, Lock, Unlock, store, runVars, outside
<1>8. ASSUME NEW p \in Procs, AccountsFail(p) \/ EndSource(p) \/ \E c \in Conns : BeginSource(p, c)
      PROVE  Recent'
  <2>1. UNCHANGED <<truth, who, ver, acct, fetched>> /\ acct[p] = NoAccount
    BY <1>8 DEF AccountsFail, RecordError, EndSource, BeginSource, AtAccount, Turns, store, outside
  <2>2. \A q \in Procs : q # p => cur'[q] = cur[q]
    BY <1>8 DEF AccountsFail, EndSource, BeginSource, TypeOK
  <2> QED BY <1>1, <2>1, <2>2
<1>9. ASSUME \/ LoopStep \/ SyncNow \/ SyncConnection \/ AdminStep \/ DiscoverFlexAccounts
             \/ \E k \in Keys : InvalidateAccount(k) \/ ComesDue(k)
             \/ \E c \in Reports : ReadFlexAccounts(c)
      PROVE  UNCHANGED <<truth, who, ver, acct, fetched, cur>>
  BY <1>9 DEF LoopStep, Tick, TakeSyncNow, DropPending, TakePending, SyncAccount, Reschedule, EndRefresh,
     SyncNow, SyncConnection, AdminStep, SetSyncConfig, OnBrokersChanged, ReloadFails, UpsertConnection,
     DeleteConnection, InvalidateAccount, ComesDue, ReadFlexAccounts, DiscoverFlexAccounts, ReplaceAccounts,
     Start, store, runVars, outside
<1> QED
  BY <1>1, <1>2, <1>3, <1>5, <1>6, <1>7, <1>8, <1>9 DEF Next, SyncStep

-----------------------------------------------------------------------------
(***************************************************************************)
(* The passes owed to an invalidation.                                     *)
(***************************************************************************)
LEMMA PassesStep == ASSUME TypeOK, TypeOK', Taken, FollowUps, Next PROVE Taken' /\ FollowUps'
<1> USE PortfolioAssumption DEF Passes, None, Procs
<1>1. CASE UNCHANGED <<pending, ready, now, owed>> /\ pc'["loop"] = pc["loop"]
  BY <1>1 DEF Taken, FollowUps
<1>2. ASSUME UNCHANGED <<pending, ready, now, owed>>, pc["loop"] \notin {"idle", "refresh"},
             pc'["loop"] \notin {"idle", "refresh"}
      PROVE  Taken' /\ FollowUps'
  BY <1>2 DEF Taken, FollowUps
<1>3. ASSUME NEW p \in Procs, Unlock(p) PROVE Taken' /\ FollowUps'
  <2>1. UNCHANGED <<pending, ready, now, owed>>
    BY <1>3 DEF Unlock, refresh
  <2>2. CASE p = "loop"
    <3>1. pc["loop"] = "run" /\ pc'["loop"] = IF now # NoKey THEN "refresh" ELSE "idle"
      BY <1>3, <2>2 DEF Unlock, TypeOK
    <3> QED BY <2>1, <3>1 DEF Taken, FollowUps
  <2>3. CASE p # "loop"
    BY <1>1, <1>3, <2>1, <2>3 DEF Unlock, TypeOK
  <2> QED BY <2>2, <2>3
<1>4. ASSUME NEW p \in Procs,
             \/ Lock(p) \/ SkipSource(p) \/ (\E c \in Conns : BeginSource(p, c)) \/ StoreAccounts(p) \/ AccountsFail(p)
             \/ ResolveAccount(p) \/ SkipAccount(p) \/ StoreResource(p) \/ ResourceFails(p) \/ ResourceKept(p)
             \/ EndSource(p)
      PROVE  Taken' /\ FollowUps'
  <2>1. UNCHANGED <<pending, ready, now, owed>>
    BY <1>4 DEF Lock, SkipSource, BeginSource, StoreAccounts, AccountsFail, ResolveAccount, SkipAccount,
       StoreResource, ResourceFails, ResourceKept, EndSource, refresh
  <2>2. /\ \A q \in Procs : q # p => pc'[q] = pc[q]
        /\ pc[p] \in {"wait", "run", "listing"} /\ pc'[p] \in {"wait", "run", "listing"}
    BY <1>4 DEF Lock, SkipSource, BeginSource, StoreAccounts, AccountsFail, ResolveAccount, SkipAccount,
       AtAccount, StoreResource, ResourceFails, ResourceKept, AtResource, EndSource, TypeOK
  <2> QED BY <1>1, <1>2, <2>1, <2>2
<1>5. CASE Tick \/ TakeSyncNow
  <2>1. /\ UNCHANGED <<pending, ready, now, owed>>
        /\ pc["loop"] = "idle" /\ pc'["loop"] = "wait"
    BY <1>5 DEF Tick, TakeSyncNow, Start, refresh, TypeOK
  <2> QED BY <2>1 DEF Taken, FollowUps
<1>6. CASE SyncNow \/ SyncConnection
  <2>1. UNCHANGED <<pending, ready, now, owed>> /\ pc'["loop"] = pc["loop"]
    BY <1>6 DEF SyncNow, SyncConnection, Start, refresh, TypeOK
  <2> QED BY <1>1, <2>1
<1>7. CASE DropPending
  BY <1>7 DEF DropPending, Taken, FollowUps
<1>8. CASE TakePending
  <2>1. /\ pc["loop"] = "idle" /\ now = NoKey /\ UNCHANGED <<owed, now>> /\ pc'["loop"] = "refresh"
    BY <1>8 DEF TakePending, Taken, TypeOK
  <2>2. \A k \in Keys : ready[k] = -1
    BY <2>1 DEF Taken
  <2>3. \A k \in Keys : \/ pending'[k] = pending[k] /\ ready'[k] = ready[k]
                        \/ pending'[k] = -1 /\ ready'[k] = pending[k]
    BY <1>8, <2>2 DEF TakePending
  <2>4. Taken'
    BY <2>1 DEF Taken
  <2>5. ASSUME NEW k \in Keys, owed[k] > 0
        PROVE  \/ pending'[k] \in 0..(3 - owed[k])
               \/ pending'[k] = -1 /\ ready'[k] # -1 /\ ready'[k] <= 3 - owed[k]
    <3>1. pending[k] \in 0..(3 - owed[k])
      BY <2>2, <2>5 DEF FollowUps
    <3>2. pending[k] # -1 /\ pending[k] <= 3 - owed[k]
      BY <3>1 DEF TypeOK
    <3> QED BY <2>3, <3>1, <3>2
  <2> QED BY <2>1, <2>4, <2>5 DEF FollowUps
<1>9. ASSUME NEW k \in Keys, SyncAccount(k) PROVE Taken' /\ FollowUps'
  <2>1. /\ pc["loop"] = "refresh" /\ now = NoKey /\ ready[k] # -1 /\ now' = k
        /\ owed' = [owed EXCEPT ![k] = IF @ = 0 THEN 0 ELSE @ - 1]
        /\ UNCHANGED <<pending, ready>> /\ pc'["loop"] \in {"refresh", "wait"}
    BY <1>9 DEF SyncAccount, Start, TypeOK
  <2>2. Taken'
    BY <2>1 DEF Taken
  <2>3. owed[k] \in 0..3 /\ pending[k] \in -1..2 /\ ready[k] \in -1..2
    BY DEF TypeOK
  <2>4. ASSUME owed'[k] > 0
        PROVE  \/ pending[k] \in 0..(3 - owed'[k])
               \/ pending[k] = -1 /\ ready[k] # -1 /\ ready[k] <= 3 - owed'[k] - 1
    <3>1. owed'[k] = owed[k] - 1 /\ owed[k] > 0
      BY <2>1, <2>3, <2>4 DEF TypeOK
    <3>2. \/ pending[k] \in 0..(3 - owed[k])
          \/ pending[k] = -1 /\ ready[k] # -1 /\ ready[k] <= 3 - owed[k]
      BY <2>1, <3>1 DEF FollowUps
    <3> QED BY <2>3, <3>1, <3>2
  <2>5. \A j \in Keys : j # k => owed'[j] = owed[j]
    BY <2>1 DEF TypeOK
  <2>6. FollowUps'
    BY <2>1, <2>4, <2>5 DEF FollowUps
  <2> QED BY <2>2, <2>6
<1>10. CASE Reschedule
  <2>1. /\ pc["loop"] = "refresh" /\ pc'["loop"] = "refresh" /\ now \in Keys /\ now' = NoKey
        /\ ready' = [ready EXCEPT ![now] = -1] /\ UNCHANGED owed
        /\ pending' = IF ready[now] < 2 /\ pending[now] = -1
                      THEN [pending EXCEPT ![now] = ready[now] + 1] ELSE pending
    BY <1>10 DEF Reschedule, TypeOK
  <2>2. Taken'
    BY <2>1 DEF Taken
  <2>3. \A k \in Keys : k # now => pending'[k] = pending[k] /\ ready'[k] = ready[k]
    BY <2>1 DEF TypeOK
  <2>4. ASSUME owed[now] > 0 PROVE pending'[now] \in 0..(3 - owed[now])
    <3>1. owed[now] \in 0..3 /\ pending[now] \in -1..2 /\ ready[now] \in -1..2
      BY <2>1 DEF TypeOK
    <3>2. CASE pending[now] \in 0..(3 - owed[now])
      <4>1. pending[now] # -1
        BY <3>1, <3>2
      <4> QED BY <2>1, <3>2, <4>1
    <3>3. CASE pending[now] = -1 /\ ready[now] # -1 /\ ready[now] <= 3 - owed[now] - 1
      <4>1. ready[now] < 2 /\ ready[now] + 1 \in 0..(3 - owed[now])
        BY <2>4, <3>1, <3>3
      <4>2. pending'[now] = ready[now] + 1
        BY <2>1, <3>3, <4>1 DEF TypeOK
      <4> QED BY <4>1, <4>2
    <3> QED BY <2>1, <2>4, <3>2, <3>3 DEF FollowUps
  <2>5. FollowUps'
    BY <2>1, <2>3, <2>4 DEF FollowUps
  <2> QED BY <2>2, <2>5
<1>11. CASE EndRefresh
  <2>1. /\ now = NoKey /\ (\A k \in Keys : ready[k] = -1) /\ UNCHANGED <<pending, ready, now, owed>>
    BY <1>11 DEF EndRefresh, refresh
  <2> QED BY <2>1 DEF Taken, FollowUps
<1>12. ASSUME NEW k \in Keys, InvalidateAccount(k) PROVE Taken' /\ FollowUps'
  <2>1. /\ pending' = [pending EXCEPT ![k] = 0] /\ owed' = [owed EXCEPT ![k] = 3]
        /\ UNCHANGED <<ready, now, pc>>
    BY <1>12 DEF InvalidateAccount
  <2>2. /\ pending'[k] = 0 /\ owed'[k] = 3
        /\ \A j \in Keys : j # k => pending'[j] = pending[j] /\ owed'[j] = owed[j]
    BY <2>1 DEF TypeOK
  <2> QED BY <2>1, <2>2 DEF Taken, FollowUps
<1>13. ASSUME \/ AdminStep \/ DiscoverFlexAccounts
              \/ \E k \in Keys : ComesDue(k)
              \/ \E c \in Reports : ReadFlexAccounts(c)
              \/ \E a \in Accounts : Fill(a)
       PROVE  UNCHANGED <<pending, ready, now, owed, pc>>
  BY <1>13 DEF AdminStep, SetSyncConfig, OnBrokersChanged, ReloadFails, UpsertConnection, DeleteConnection,
     ComesDue, ReadFlexAccounts, DiscoverFlexAccounts, Fill, refresh
<1> QED
  BY <1>1, <1>3, <1>4, <1>5, <1>6, <1>7, <1>8, <1>9, <1>10, <1>11, <1>12, <1>13 DEF Next, SyncStep, LoopStep

-----------------------------------------------------------------------------
\* The invariant holds in every behaviour.
LEMMA SyncInvariant == Spec => []SyncInv
<1>1. SyncInv /\ [Next]_vars => SyncInv'
  <2> SUFFICES ASSUME SyncInv, [Next]_vars PROVE SyncInv'
    OBVIOUS
  <2> USE DEF SyncInv
  <2>1. CASE Next
    <3>1. TypeOK'
      BY <2>1, SyncTypes
    <3> QED BY <2>1, <3>1, OwnershipStep, TurnsStep, RecentStep, PassesStep
  <2>2. CASE UNCHANGED vars
    <3>1. UNCHANGED <<conn, known, archived, link, primary, who, ver, failed, pending, due, ready, now>>
      BY <2>2 DEF vars, store, refresh
    <3>2. UNCHANGED <<todo, cur, list, acct, nextRes, fetched, truth, changed, changes, found, finder,
                      sources, cfg, syncNow, pc, owed>>
      BY <2>2 DEF vars, runVars, outside
    <3>3. TypeOK'
      BY <3>1, <3>2 DEF TypeOK
    <3>4. Owned' /\ DeletedLeavesNothing' /\ Turns'
      BY <3>1, <3>2 DEF Owned, DeletedLeavesNothing, Turns, Running
    <3>5. Recent' /\ Taken' /\ FollowUps'
      BY <3>1, <3>2 DEF Recent, Taken, FollowUps
    <3> QED BY <3>3, <3>4, <3>5
  <2> QED BY <2>1, <2>2
<1> QED BY <1>1, SyncStart, PTL DEF Spec

\* Types: the store, the queue of refreshes and the running synchronisations.
THEOREM SyncTypeCorrect == Spec => []TypeOK
<1>1. SyncInv => TypeOK
  BY DEF SyncInv
<1> QED BY <1>1, SyncInvariant, PTL

\* Whatever synchronisations, deletions and discoveries interleave between the transactions of
\* the store, an account with links has one primary among them, one without is archived, and a
\* deleted connection has neither links nor error rows.
THEOREM SyncOwnershipSound == Spec => []OwnershipSound
<1>1. SyncInv => OwnershipSound
  <2>1. Owned => AccountOwned
    <3> SUFFICES ASSUME Owned, NEW a \in Accounts
                 PROVE  /\ link[a] # {} => Cardinality(primary[a]) = 1 /\ primary[a] \subseteq link[a]
                        /\ a \in known => (a \in archived <=> link[a] = {})
                        /\ link[a] # {} => a \in known
      BY DEF AccountOwned
    <3>1. ASSUME link[a] # {} PROVE Cardinality(primary[a]) = 1 /\ primary[a] \subseteq link[a]
      <4>1. PICK c \in link[a] : primary[a] = {c}
        BY <3>1 DEF Owned
      <4> QED BY <4>1, FS_Singleton
    <3> QED BY <3>1 DEF Owned
  <2> QED BY <2>1 DEF SyncInv, OwnershipSound
<1> QED BY <1>1, SyncInvariant, PTL

\* The passes owed to an invalidation are pending or in the hands of the running refresh: neither
\* its Reschedule nor a new invalidation loses the other's.
THEOREM SyncFollowUps == Spec => []FollowUps
<1>1. SyncInv => FollowUps
  BY DEF SyncInv
<1> QED BY <1>1, SyncInvariant, PTL

\* A projection is only written by a stored resource, under syncMu, to an account its connection
\* is linked to.
LEMMA WrittenByStore ==
    ASSUME SyncInv, Next, ~UNCHANGED <<who, ver>>
    PROVE  \E p \in Procs : /\ StoreResource(p) /\ acct[p] \in Accounts /\ nextRes[p] \in Res
                            /\ cur[p] \in link[acct[p]] /\ Allowed(cur[p], acct[p], nextRes[p])
                            /\ \A a \in Accounts, i \in Res :
                                  /\ who'[a][i] = IF a = acct[p] /\ i = nextRes[p] THEN cur[p] ELSE who[a][i]
                                  /\ ver'[a][i] = IF a = acct[p] /\ i = nextRes[p] THEN fetched[p] ELSE ver[a][i]
<1>1. PICK p \in Procs : StoreResource(p)
  BY DEF Next, SyncStep, LoopStep, AdminStep, Lock, SkipSource, BeginSource, StoreAccounts, ReplaceAccounts,
     AccountsFail, RecordError, ResolveAccount, SkipAccount, ResourceFails, ResourceKept, EndSource, Unlock,
     Tick, TakeSyncNow, DropPending, TakePending, SyncAccount, Reschedule, EndRefresh, SyncNow, SyncConnection,
     SetSyncConfig, OnBrokersChanged, ReloadFails, UpsertConnection, DeleteConnection, InvalidateAccount,
     ComesDue, ReadFlexAccounts, DiscoverFlexAccounts, Fill, store
<1>2. /\ acct[p] \in Accounts /\ nextRes[p] \in Res
      /\ cur[p] \in link[acct[p]] /\ Allowed(cur[p], acct[p], nextRes[p])
      /\ who' = [who EXCEPT ![acct[p]][nextRes[p]] = cur[p]]
      /\ ver' = [ver EXCEPT ![acct[p]][nextRes[p]] = fetched[p]]
  BY <1>1 DEF StoreResource, AtResource, SyncInv, TypeOK
<1>3. \A a \in Accounts, i \in Res :
        /\ who'[a][i] = IF a = acct[p] /\ i = nextRes[p] THEN cur[p] ELSE who[a][i]
        /\ ver'[a][i] = IF a = acct[p] /\ i = nextRes[p] THEN fetched[p] ELSE ver[a][i]
  BY <1>2 DEF SyncInv, TypeOK
<1> QED BY <1>1, <1>2, <1>3

\* The versions an interactive connection writes never go back, because syncMu is held from the
\* fetch to the last write.
THEOREM SyncNeverBackwards == Spec => NeverBackwards
<1> DEFINE A == \A a \in Accounts, i \in Res :
                  who[a][i] = who'[a][i] /\ who[a][i] \notin Reports => ver[a][i] <= ver'[a][i]
<1>1. SyncInv /\ [Next]_vars => [A]_vars
  <2> SUFFICES ASSUME SyncInv, Next, NEW a \in Accounts, NEW i \in Res,
                      who[a][i] = who'[a][i], who[a][i] \notin Reports
               PROVE  ver[a][i] <= ver'[a][i]
    OBVIOUS
  <2>1. ver[a][i] \in Nat
    BY DEF SyncInv, TypeOK
  <2>2. CASE UNCHANGED <<who, ver>>
    BY <2>1, <2>2
  <2>3. CASE ~UNCHANGED <<who, ver>>
    <3>1. PICK p \in Procs : /\ StoreResource(p) /\ acct[p] \in Accounts
                             /\ who'[a][i] = IF a = acct[p] /\ i = nextRes[p] THEN cur[p] ELSE who[a][i]
                             /\ ver'[a][i] = IF a = acct[p] /\ i = nextRes[p] THEN fetched[p] ELSE ver[a][i]
      BY <2>3, WrittenByStore
    <3>2. CASE a = acct[p] /\ i = nextRes[p]
      <4>1. acct[p] # NoAccount
        BY <3>1, PortfolioAssumption
      <4> QED BY <3>1, <3>2, <4>1 DEF SyncInv, Recent
    <3>3. CASE ~(a = acct[p] /\ i = nextRes[p])
      BY <2>1, <3>1, <3>3
    <3> QED BY <3>2, <3>3
  <2> QED BY <2>2, <2>3
<1> QED BY <1>1, SyncInvariant, PTL DEF Spec, NeverBackwards

\* What is shown of an archived account stays, as nobody is linked to it, and a report stores
\* positions only as the primary.
THEOREM SyncProjectionsStand == Spec => ProjectionsStand
<1> DEFINE A == \A a \in archived : a \in archived' => who'[a] = who[a] /\ ver'[a] = ver[a]
           G == \A a \in Accounts, i \in Res : Resources[i] = "positions" => Stands(a, i)
<1>1. SyncInv /\ [Next]_vars => [A]_vars
  <2> SUFFICES ASSUME SyncInv, Next, NEW a \in archived PROVE who'[a] = who[a] /\ ver'[a] = ver[a]
    OBVIOUS
  <2>1. a \in Accounts /\ link[a] = {}
    BY DEF SyncInv, TypeOK, Owned
  <2>2. CASE ~UNCHANGED <<who, ver>>
    <3>1. PICK p \in Procs : /\ StoreResource(p) /\ acct[p] \in Accounts /\ cur[p] \in link[acct[p]]
                             /\ acct[p] # a
      BY <2>1, <2>2, WrittenByStore
    <3> QED BY <2>1, <3>1 DEF StoreResource, SyncInv, TypeOK
  <2> QED BY <2>2
<1>2. SyncInv /\ [Next]_vars => [G]_vars
  <2> SUFFICES ASSUME SyncInv, Next, NEW a \in Accounts, NEW i \in Res, Resources[i] = "positions"
               PROVE  Stands(a, i)
    OBVIOUS
  <2>1. SUFFICES ASSUME NEW g \in Conns \ Reports, who[a][i] = g, primary[a] = {g} PROVE who'[a][i] \notin Reports
    BY DEF Stands
  <2>2. CASE ~UNCHANGED <<who, ver>>
    <3>1. PICK p \in Procs : /\ Allowed(cur[p], acct[p], nextRes[p])
                             /\ who'[a][i] = IF a = acct[p] /\ i = nextRes[p] THEN cur[p] ELSE who[a][i]
      BY <2>2, WrittenByStore
    <3> QED BY <2>1, <3>1 DEF Allowed
  <2> QED BY <2>1, <2>2
<1> QED BY <1>1, <1>2, SyncInvariant, PTL DEF Spec, ProjectionsStand, ArchivedUntouched, GatewayPositionsStand

=============================================================================
