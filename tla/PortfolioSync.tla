--------------------------- MODULE PortfolioSync ---------------------------
(***************************************************************************)
(* Portfolio synchronisation: internal/portfolio (SyncService) over the    *)
(* broker projections of internal/store.                                   *)
(*                                                                         *)
(* Two goroutines run synchronisations: "loop" (StartBackground: the       *)
(* ticker, Invalidate requests and the refresh of invalidated accounts)    *)
(* and "api" (SyncNow, SyncConnection).  syncMu lets one of them run at a  *)
(* time.  Not under that mutex, and so free to act between any two store   *)
(* transactions of a synchronisation: the administrator who saves and      *)
(* deletes connections, the history worker that discovers the accounts of  *)
(* a Flex report, and the trading events that invalidate an account.       *)
(*                                                                         *)
(* A store transaction is one step; a broker call is a choice of its       *)
(* outcome.  A projection is abstracted to the connection that wrote it    *)
(* and the version of the account it shows.                                *)
(***************************************************************************)
EXTENDS Integers, FiniteSets, Sequences

CONSTANTS
    Conns,        \* broker connections of one provider (row ids, never reused)
    Reports,      \* those that only read reports (IBKR, auth_type api_key: Flex)
    Accounts,     \* the accounts the provider knows
    Resources,    \* the sequence of resources stored per account
    Keys,         \* the <<connection, account>> pairs trading events invalidate
    NoConn, NoAccount, NoKey,
    All,          \* the empty account scope: every account
    MaxFills,     \* bound: how often an account changes at the broker
    MaxChanges,   \* bound: how often the administrator changes a connection
    MaxErrors     \* bound: error rows of broker_sync_status at one time

ASSUME PortfolioAssumption ==
    /\ Reports \subseteq Conns
    /\ Resources \in Seq({"details", "cash", "positions", "performance"})
    /\ Len(Resources) > 0
    /\ Keys \subseteq (Conns \ Reports) \X (Accounts \cup {All})
    /\ NoConn \notin Conns /\ NoAccount \notin Accounts /\ All \notin Accounts
    /\ NoKey \notin Keys
    /\ MaxFills \in Nat /\ MaxChanges \in Nat /\ MaxErrors \in Nat

VARIABLES
    \* the store
    conn,      \* [Conns -> {"none", "enabled", "disabled", "deleted"}]
    known,     \* accounts with a broker_accounts row
    archived,  \* those of them with archived_at set
    link,      \* [Accounts -> SUBSET Conns]: broker_account_connections
    primary,   \* [Accounts -> SUBSET Conns]: the links with is_primary = 1
    who,       \* [Accounts -> [1..Len(Resources) -> Conns \cup {NoConn}]]: writer
    ver,       \* [Accounts -> [1..Len(Resources) -> 0..MaxFills]]: version shown
    failed,    \* sync_status rows with an error: <<connection, account, resource>>
    \* the SyncService
    sources,   \* connections with a registered source
    cfg,       \* BrokerSyncConfig: "on", "off", or "others": off for this provider only
    syncNow,   \* TRUE: the buffered Invalidate request is there
    pending,   \* [Keys -> -1..2]: attempt of a pending refresh, -1 when there is none
    due,       \* pending keys whose time has come
    ready,     \* [Keys -> -1..2]: what the running refresh has taken from pending
    now,       \* the key it is synchronising, or NoKey
    pc,        \* [Procs -> {"idle", "refresh", "wait", "run", "listing"}]
    todo,      \* [Procs -> SUBSET Conns]: sources captured and not yet visited
    cur,       \* [Procs -> Conns \cup {NoConn}]: the connection being synchronised
    list,      \* [Procs -> SUBSET Accounts]: its accounts not yet visited
    acct,      \* [Procs -> Accounts \cup {NoAccount}]: the account resolved
    nextRes,   \* [Procs -> 1..Len(Resources)]: its next resource
    fetched,   \* [Procs -> 0..MaxFills]: the version Resolve returned
    \* around it
    truth,     \* [Accounts -> 0..MaxFills]: the account's version at the broker
    changed,   \* TRUE: a saved change whose OnBrokersChanged has not run yet
    changes,   \* how many changes the administrator has made
    found,     \* history worker: links read and report to store, or {} when idle
    finder,    \* history worker: the Flex connection it fetched with, or NoConn
    owed       \* [Keys -> 0..3]: passes still due to the last invalidation (auxiliary)

store == <<conn, known, archived, link, primary, who, ver, failed>>
refresh == <<pending, due, ready, now>>
runVars == <<todo, cur, list, acct, nextRes, fetched>>
outside == <<truth, changed, changes, found, finder>>
vars == <<store, refresh, runVars, outside, sources, cfg, syncNow, pc, owed>>

Procs == {"loop", "api"}
None == -1
Passes == 3
Res == 1..Len(Resources)
Stored == {c \in Conns : conn[c] \in {"enabled", "disabled"}}

-----------------------------------------------------------------------------
(***************************************************************************)
(* The store: who owns an account.                                         *)
(***************************************************************************)

\* promoteOrDeleteBrokerAccountTx's ORDER BY: enabled connections first, reports
\* last, the present primary before the others; what is left of the order
\* (first_seen_at, id) is left open.
Preferred(links, flags) ==
    LET enabled == {c \in links : conn'[c] = "enabled"}
        alive   == IF enabled = {} THEN links ELSE enabled
        live    == IF alive \ Reports = {} THEN alive ELSE alive \ Reports
    IN  IF live \cap flags = {} THEN live ELSE live \cap flags

\* It archives an account without links, and gives any other exactly one primary.
PromoteOrDelete(touched) ==
    /\ archived' = {a \in known' : IF a \in touched THEN link'[a] = {} ELSE a \in archived}
    /\ primary' \in [Accounts -> {{}} \cup {{c} : c \in Conns}]
    /\ \A a \in Accounts :
         IF a \notin touched THEN primary'[a] = primary[a]
         ELSE IF link'[a] = {} THEN primary'[a] = {}
         ELSE primary'[a] \in {{c} : c \in Preferred(link'[a], primary[a])}

\* ReplaceBrokerConnectionAccounts: one transaction.
ReplaceAccounts(c, listed) ==
    /\ UNCHANGED <<conn, who, ver>>
    /\ known' = known \cup listed
    /\ link' = [a \in Accounts |-> IF a \in listed THEN link[a] \cup {c} ELSE link[a] \ {c}]
    /\ PromoteOrDelete(listed \cup {a \in Accounts : c \in link[a]})
    /\ failed' = failed \ {<<c, NoAccount, "accounts">>}

\* Mutant: status rows do not reference the connection.
RecordErrorAnyway(c, a, what) ==
    /\ failed' = failed \cup {<<c, a, what>>}
    /\ Cardinality(failed') <= MaxErrors
    /\ UNCHANGED <<conn, known, archived, link, primary, who, ver>>

\* RecordBrokerConnectionSyncError; a deleted connection takes no rows.
RecordError(c, a, what) ==
    /\ failed' = IF conn[c] = "deleted" THEN failed ELSE failed \cup {<<c, a, what>>}
    /\ Cardinality(failed') <= MaxErrors
    /\ UNCHANGED <<conn, known, archived, link, primary, who, ver>>

-----------------------------------------------------------------------------
(***************************************************************************)
(* One synchronisation: syncSelectedSources and syncBrokerResources.       *)
(***************************************************************************)

\* What this synchronisation is limited to: SyncAccount's scope, or everything.
Scope(p) == IF p = "loop" /\ now # NoKey /\ now[2] # All THEN {now[2]} ELSE Accounts

\* Start with the sources captured, before the mutex is taken.
Start(p, captured) ==
    /\ todo' = [todo EXCEPT ![p] = captured]
    /\ pc' = [pc EXCEPT ![p] = "wait"]
    /\ UNCHANGED <<cur, list, acct, nextRes, fetched>>

\* p holds syncMu.
Running(p) == pc[p] \in {"run", "listing"}

\* Mutant: synchronisations are not serialised.
LockUnguarded(p) ==
    /\ pc[p] = "wait"
    /\ pc' = [pc EXCEPT ![p] = "run"]
    /\ todo' = [todo EXCEPT ![p] = IF p = "loop" /\ cfg # "on" THEN {} ELSE @]
    /\ UNCHANGED <<store, refresh, outside, sources, cfg, syncNow, owed,
                   cur, list, acct, nextRes, fetched>>

\* syncMu.Lock; the configuration is read once, after it.
Lock(p) ==
    /\ pc[p] = "wait" /\ \A q \in Procs : ~Running(q)
    /\ pc' = [pc EXCEPT ![p] = "run"]
    /\ todo' = [todo EXCEPT ![p] = IF p = "loop" /\ cfg # "on" THEN {} ELSE @]
    /\ UNCHANGED <<store, refresh, outside, sources, cfg, syncNow, owed,
                   cur, list, acct, nextRes, fetched>>

\* A source is left out: its connection is gone or disabled, or gives no lease.
SkipSource(p) ==
    /\ pc[p] = "run" /\ cur[p] = NoConn
    /\ \E c \in todo[p] : todo' = [todo EXCEPT ![p] = @ \ {c}]
    /\ UNCHANGED <<store, refresh, outside, sources, cfg, syncNow, owed, pc,
                   cur, list, acct, nextRes, fetched>>

\* The connection is enabled and its provider is leased.
BeginSource(p, c) ==
    /\ pc[p] = "run" /\ cur[p] = NoConn /\ c \in todo[p]
    /\ conn[c] = "enabled"
    /\ todo' = [todo EXCEPT ![p] = @ \ {c}]
    /\ cur' = [cur EXCEPT ![p] = c]
    /\ pc' = [pc EXCEPT ![p] = "listing"]
    /\ UNCHANGED <<store, refresh, outside, sources, cfg, syncNow, owed,
                   list, acct, nextRes, fetched>>

\* ListAccountSnapshots answers with accounts, and they are stored.
StoreAccounts(p) ==
    /\ pc[p] = "listing" /\ cur[p] \in Stored
    /\ \E listed \in SUBSET Accounts \ {{}} :
         /\ ReplaceAccounts(cur[p], listed)
         /\ list' = [list EXCEPT ![p] = listed \cap Scope(p)]
    /\ pc' = [pc EXCEPT ![p] = "run"]
    /\ UNCHANGED <<refresh, outside, sources, cfg, syncNow, owed,
                   todo, cur, acct, nextRes, fetched>>

\* The call fails or returns no accounts, or they cannot be stored.
AccountsFail(p) ==
    /\ pc[p] = "listing"
    /\ RecordError(cur[p], NoAccount, "accounts")
    /\ cur' = [cur EXCEPT ![p] = NoConn]
    /\ pc' = [pc EXCEPT ![p] = "run"]
    /\ UNCHANGED <<refresh, outside, sources, cfg, syncNow, owed,
                   todo, list, acct, nextRes, fetched>>

AtAccount(p) == pc[p] = "run" /\ cur[p] # NoConn /\ acct[p] = NoAccount

\* The account is this connection's to synchronise: resolve its resources.  A report
\* may be older than the account.
ResolveAccount(p) ==
    /\ AtAccount(p)
    /\ \E a \in list[p] :
         /\ cur[p] \in link[a] /\ cur[p] \in primary[a]
         /\ list' = [list EXCEPT ![p] = @ \ {a}]
         /\ acct' = [acct EXCEPT ![p] = a]
         /\ \E v \in 0..truth[a] :
              /\ cur[p] \notin Reports => v = truth[a]
              /\ fetched' = [fetched EXCEPT ![p] = v]
    /\ nextRes' = [nextRes EXCEPT ![p] = 1]
    /\ UNCHANGED <<store, refresh, outside, sources, cfg, syncNow, owed, pc, todo, cur>>

\* Another connection owns it, or the link has gone.
SkipAccount(p) ==
    /\ AtAccount(p)
    /\ \E a \in list[p] :
         /\ cur[p] \notin link[a] \/ cur[p] \notin primary[a]
         /\ list' = [list EXCEPT ![p] = @ \ {a}]
    /\ UNCHANGED <<store, refresh, outside, sources, cfg, syncNow, owed, pc,
                   todo, cur, acct, nextRes, fetched>>

\* On to the next resource, or to the next account after the last one.
Advance(p) ==
    IF nextRes[p] = Len(Resources)
    THEN /\ acct' = [acct EXCEPT ![p] = NoAccount]
         /\ nextRes' = [nextRes EXCEPT ![p] = 1]
         /\ fetched' = [fetched EXCEPT ![p] = 0]
    ELSE nextRes' = [nextRes EXCEPT ![p] = @ + 1] /\ UNCHANGED <<acct, fetched>>

AtResource(p) == pc[p] = "run" /\ acct[p] # NoAccount

\* Mutant: positions are stored whoever sends them.
AllowedAlways(c, a, i) == TRUE

\* allowIBKRProjectionTx: positions of a report go in only while it is the primary.
Allowed(c, a, i) == Resources[i] = "positions" /\ c \in Reports => c \in primary[a]

\* Mutant: the account is found without looking for the link.
StoreResourceUnlinked(p) ==
    /\ AtResource(p)
    /\ LET c == cur[p] a == acct[p] i == nextRes[p]
       IN  /\ who' = [who EXCEPT ![a][i] = c]
           /\ ver' = [ver EXCEPT ![a][i] = fetched[p]]
           /\ failed' = failed \ {<<c, a, Resources[i]>>}
    /\ Advance(p)
    /\ UNCHANGED <<conn, known, archived, link, primary, refresh, outside,
                   sources, cfg, syncNow, owed, pc, todo, cur, list>>

\* ReplaceBrokerConnectionAccountDetails, ...CashBalances, ...AccountPositions and
\* ...AccountPerformance: brokerAccountIDTx finds the link, the rows are replaced.
StoreResource(p) ==
    /\ AtResource(p)
    /\ LET c == cur[p] a == acct[p] i == nextRes[p]
       IN  /\ c \in link[a]
           /\ Allowed(c, a, i)
           /\ who' = [who EXCEPT ![a][i] = c]
           /\ ver' = [ver EXCEPT ![a][i] = fetched[p]]
           /\ failed' = failed \ {<<c, a, Resources[i]>>}
    /\ Advance(p)
    /\ UNCHANGED <<conn, known, archived, link, primary, refresh, outside,
                   sources, cfg, syncNow, owed, pc, todo, cur, list>>

\* The resource could not be read, or its account is no longer linked.
ResourceFails(p) ==
    /\ AtResource(p)
    /\ RecordError(cur[p], acct[p], Resources[nextRes[p]])
    /\ Advance(p)
    /\ UNCHANGED <<refresh, outside, sources, cfg, syncNow, owed, pc, todo, cur, list>>

\* A report that omits the section, or whose positions are not allowed, leaves it be.
ResourceKept(p) ==
    /\ AtResource(p)
    /\ \/ cur[p] \in Reports /\ Resources[nextRes[p]] # "details"
       \/ cur[p] \in link[acct[p]] /\ ~Allowed(cur[p], acct[p], nextRes[p])
    /\ Advance(p)
    /\ UNCHANGED <<store, refresh, outside, sources, cfg, syncNow, owed, pc, todo, cur, list>>

\* The lease is released.
EndSource(p) ==
    /\ AtAccount(p) /\ list[p] = {}
    /\ cur' = [cur EXCEPT ![p] = NoConn]
    /\ UNCHANGED <<store, refresh, outside, sources, cfg, syncNow, owed, pc,
                   todo, list, acct, nextRes, fetched>>

\* syncMu.Unlock; the loop goes on with its refresh, if that is what called.
Unlock(p) ==
    /\ pc[p] = "run" /\ cur[p] = NoConn /\ todo[p] = {}
    /\ pc' = [pc EXCEPT ![p] = IF p = "loop" /\ now # NoKey THEN "refresh" ELSE "idle"]
    /\ UNCHANGED <<store, refresh, runVars, outside, sources, cfg, syncNow, owed>>

-----------------------------------------------------------------------------
(***************************************************************************)
(* Who asks for a synchronisation.                                         *)
(***************************************************************************)

\* The ticker fires, and StartBackground calls Sync.
Tick ==
    /\ pc["loop"] = "idle"
    /\ Start("loop", sources)
    /\ UNCHANGED <<store, refresh, outside, sources, cfg, syncNow, owed>>

\* An Invalidate request is taken from the channel.
TakeSyncNow ==
    /\ pc["loop"] = "idle" /\ syncNow
    /\ syncNow' = FALSE
    /\ Start("loop", sources)
    /\ UNCHANGED <<store, refresh, outside, sources, cfg, owed>>

\* SyncNow: every source, whatever the schedule.
SyncNow ==
    /\ pc["api"] = "idle"
    /\ Start("api", sources)
    /\ UNCHANGED <<store, refresh, outside, sources, cfg, syncNow, owed>>

\* SyncConnection: the one source registered for it.
SyncConnection ==
    /\ pc["api"] = "idle"
    /\ \E c \in sources : Start("api", {c})
    /\ UNCHANGED <<store, refresh, outside, sources, cfg, syncNow, owed>>

\* Mutant: every invalidation waits its delay anew.
InvalidateAccountLater(k) ==
    /\ cfg # "off"
    /\ pending' = [pending EXCEPT ![k] = 0]
    /\ due' = due \ {k}
    /\ owed' = [owed EXCEPT ![k] = Passes]
    /\ UNCHANGED <<store, outside, runVars, sources, cfg, syncNow, pc, ready, now>>

\* InvalidateAccount, called by a trading event while synchronisation is enabled: a
\* pending entry starts over and is no later than it was; a new one waits its delay.
InvalidateAccount(k) ==
    /\ cfg # "off"
    /\ pending' = [pending EXCEPT ![k] = 0]
    /\ owed' = [owed EXCEPT ![k] = Passes]
    /\ UNCHANGED <<store, outside, runVars, sources, cfg, syncNow, pc, due, ready, now>>

\* The delay of a pending entry passes.
ComesDue(k) ==
    /\ pending[k] # None /\ k \notin due
    /\ due' = due \cup {k}
    /\ UNCHANGED <<store, outside, runVars, sources, cfg, syncNow, pc, owed, pending, ready, now>>

\* refreshPendingAccounts with synchronisation disabled: what is pending is dropped.
DropPending ==
    /\ pc["loop"] = "idle" /\ cfg = "off"
    /\ pending' = [k \in Keys |-> None] /\ due' = {}
    /\ owed' = [k \in Keys |-> 0]
    /\ UNCHANGED <<store, outside, runVars, sources, cfg, syncNow, pc, ready, now>>

\* refreshPendingAccounts takes the due entries out of the map.
TakePending ==
    /\ pc["loop"] = "idle" /\ cfg # "off" /\ due # {}
    /\ ready' = [k \in Keys |-> IF k \in due THEN pending[k] ELSE None]
    /\ pending' = [k \in Keys |-> IF k \in due THEN None ELSE pending[k]]
    /\ due' = {}
    /\ pc' = [pc EXCEPT !["loop"] = "refresh"]
    /\ UNCHANGED <<store, outside, runVars, sources, cfg, syncNow, owed, now>>

\* SyncAccount for one of them; without a source it returns at once.
SyncAccount(k) ==
    /\ pc["loop"] = "refresh" /\ now = NoKey /\ ready[k] # None
    /\ now' = k
    /\ owed' = [owed EXCEPT ![k] = IF @ = 0 THEN 0 ELSE @ - 1]
    /\ IF k[1] \in sources THEN Start("loop", {k[1]}) ELSE UNCHANGED <<runVars, pc>>
    /\ UNCHANGED <<store, outside, sources, cfg, syncNow, pending, due, ready>>

\* Mutant: the next attempt replaces a new invalidation.
RescheduleOver ==
    /\ pc["loop"] = "refresh" /\ now # NoKey
    /\ pending' = IF ready[now] < Passes - 1
                  THEN [pending EXCEPT ![now] = ready[now] + 1] ELSE pending
    /\ ready' = [ready EXCEPT ![now] = None]
    /\ now' = NoKey
    /\ UNCHANGED <<store, outside, runVars, sources, cfg, syncNow, pc, owed, due>>

\* After it, the next attempt is scheduled unless a new invalidation is there.
Reschedule ==
    /\ pc["loop"] = "refresh" /\ now # NoKey
    /\ pending' = IF ready[now] < Passes - 1 /\ pending[now] = None
                  THEN [pending EXCEPT ![now] = ready[now] + 1] ELSE pending
    /\ ready' = [ready EXCEPT ![now] = None]
    /\ now' = NoKey
    /\ UNCHANGED <<store, outside, runVars, sources, cfg, syncNow, pc, owed, due>>

EndRefresh ==
    /\ pc["loop"] = "refresh" /\ now = NoKey /\ \A k \in Keys : ready[k] = None
    /\ pc' = [pc EXCEPT !["loop"] = "idle"]
    /\ UNCHANGED <<store, refresh, outside, runVars, sources, cfg, syncNow, owed>>

-----------------------------------------------------------------------------
(***************************************************************************)
(* Around the service.                                                     *)
(***************************************************************************)

\* SetSyncConfig.
SetSyncConfig ==
    /\ changes < MaxChanges /\ changes' = changes + 1
    /\ cfg' \in {"on", "off", "others"} \ {cfg}
    /\ UNCHANGED <<store, refresh, runVars, sources, syncNow, pc, owed,
                   truth, changed, found, finder>>

\* UpsertBrokerConnection creates, enables or disables a connection; the links and
\* their primaries are not looked at.
UpsertConnection(c) ==
    /\ changes < MaxChanges /\ changes' = changes + 1
    /\ conn[c] # "deleted"
    /\ \E e \in {"enabled", "disabled"} \ {conn[c]} : conn' = [conn EXCEPT ![c] = e]
    /\ changed' = TRUE
    /\ UNCHANGED <<known, archived, link, primary, who, ver, failed, refresh, runVars,
                   sources, cfg, syncNow, pc, owed, truth, found, finder>>

\* Mutant: the accounts of a deleted connection are not looked at.
DeleteConnectionOnly(c) ==
    /\ changes < MaxChanges /\ changes' = changes + 1
    /\ c \in Stored
    /\ conn' = [conn EXCEPT ![c] = "deleted"]
    /\ link' = [a \in Accounts |-> link[a] \ {c}]
    /\ failed' = {f \in failed : f[1] # c}
    /\ changed' = TRUE
    /\ UNCHANGED <<known, archived, primary, who, ver, refresh, runVars, sources, cfg,
                   syncNow, pc, owed, truth, found, finder>>

\* DeleteBrokerConnection: links and status rows go with the row (ON DELETE CASCADE).
DeleteConnection(c) ==
    /\ changes < MaxChanges /\ changes' = changes + 1
    /\ c \in Stored
    /\ conn' = [conn EXCEPT ![c] = "deleted"]
    /\ known' = known
    /\ link' = [a \in Accounts |-> link[a] \ {c}]
    /\ PromoteOrDelete({a \in Accounts : c \in link[a]})
    /\ failed' = {f \in failed : f[1] # c}
    /\ changed' = TRUE
    /\ UNCHANGED <<who, ver, refresh, runVars, sources, cfg, syncNow, pc, owed,
                   truth, found, finder>>

\* OnBrokersChanged: Reload, SetSources, Invalidate.
OnBrokersChanged ==
    /\ changed
    /\ changed' = FALSE
    /\ sources' = {c \in Conns : conn[c] = "enabled"}
    /\ syncNow' = TRUE
    /\ UNCHANGED <<store, refresh, runVars, cfg, pc, owed, truth, changes, found, finder>>

\* Reload fails: sources stay as they were.
ReloadFails ==
    /\ changed
    /\ changed' = FALSE
    /\ UNCHANGED <<store, refresh, runVars, sources, cfg, syncNow, pc, owed,
                   truth, changes, found, finder>>

\* discoverFlexAccounts reads the links of its connection (archived accounts have
\* none) and adds the accounts of the report.
ReadFlexAccounts(c) ==
    /\ finder = NoConn /\ conn[c] = "enabled"
    /\ finder' = c
    /\ \E report \in SUBSET Accounts \ {{}} :
         found' = {a \in Accounts : c \in link[a]} \cup report
    /\ UNCHANGED <<store, refresh, runVars, sources, cfg, syncNow, pc, owed,
                   truth, changed, changes>>

\* Then it stores the list, in a transaction of its own.
DiscoverFlexAccounts ==
    /\ finder # NoConn
    /\ IF finder \in Stored THEN ReplaceAccounts(finder, found) ELSE UNCHANGED store
    /\ finder' = NoConn /\ found' = {}
    /\ UNCHANGED <<refresh, runVars, sources, cfg, syncNow, pc, owed, truth, changed, changes>>

\* The account changes at the broker.
Fill(a) ==
    /\ truth[a] < MaxFills
    /\ truth' = [truth EXCEPT ![a] = @ + 1]
    /\ UNCHANGED <<store, refresh, runVars, sources, cfg, syncNow, pc, owed,
                   changed, changes, found, finder>>

-----------------------------------------------------------------------------
Init ==
    /\ conn = [c \in Conns |-> "none"]
    /\ known = {} /\ archived = {} /\ failed = {}
    /\ link = [a \in Accounts |-> {}] /\ primary = [a \in Accounts |-> {}]
    /\ who = [a \in Accounts |-> [i \in Res |-> NoConn]]
    /\ ver = [a \in Accounts |-> [i \in Res |-> 0]]
    /\ sources = {} /\ cfg = "on" /\ syncNow = FALSE
    /\ pending = [k \in Keys |-> None] /\ due = {}
    /\ ready = [k \in Keys |-> None] /\ now = NoKey
    /\ pc = [p \in Procs |-> "idle"]
    /\ todo = [p \in Procs |-> {}] /\ cur = [p \in Procs |-> NoConn]
    /\ list = [p \in Procs |-> {}] /\ acct = [p \in Procs |-> NoAccount]
    /\ nextRes = [p \in Procs |-> 1] /\ fetched = [p \in Procs |-> 0]
    /\ truth = [a \in Accounts |-> 0]
    /\ changed = FALSE /\ changes = 0 /\ found = {} /\ finder = NoConn
    /\ owed = [k \in Keys |-> 0]

SyncStep(p) ==
    \/ Lock(p) \/ SkipSource(p) \/ (\E c \in Conns : BeginSource(p, c))
    \/ StoreAccounts(p) \/ AccountsFail(p) \/ ResolveAccount(p) \/ SkipAccount(p)
    \/ StoreResource(p) \/ ResourceFails(p) \/ ResourceKept(p)
    \/ EndSource(p) \/ Unlock(p)

LoopStep ==
    \/ Tick \/ TakeSyncNow \/ DropPending \/ TakePending
    \/ (\E k \in Keys : SyncAccount(k)) \/ Reschedule \/ EndRefresh

AdminStep ==
    \/ SetSyncConfig \/ OnBrokersChanged \/ ReloadFails
    \/ \E c \in Conns : UpsertConnection(c) \/ DeleteConnection(c)

Next ==
    \/ \E p \in Procs : SyncStep(p)
    \/ LoopStep \/ SyncNow \/ SyncConnection \/ AdminStep
    \/ \E k \in Keys : InvalidateAccount(k) \/ ComesDue(k)
    \/ \E c \in Reports : ReadFlexAccounts(c)
    \/ DiscoverFlexAccounts
    \/ \E a \in Accounts : Fill(a)

Spec == Init /\ [][Next]_vars

-----------------------------------------------------------------------------
TypeOK ==
    /\ conn \in [Conns -> {"none", "enabled", "disabled", "deleted"}]
    /\ known \in SUBSET Accounts /\ archived \in SUBSET Accounts
    /\ link \in [Accounts -> SUBSET Conns] /\ primary \in [Accounts -> SUBSET Conns]
    /\ who \in [Accounts -> [Res -> Conns \cup {NoConn}]]
    /\ ver \in [Accounts -> [Res -> 0..MaxFills]]
    /\ failed \subseteq Conns \X (Accounts \cup {NoAccount})
                       \X {"accounts", "details", "cash", "positions", "performance"}
    /\ sources \in SUBSET Conns /\ cfg \in {"on", "off", "others"} /\ syncNow \in BOOLEAN
    /\ pending \in [Keys -> -1..2] /\ due \in SUBSET Keys
    /\ ready \in [Keys -> -1..2] /\ now \in Keys \cup {NoKey}
    /\ pc \in [Procs -> {"idle", "refresh", "wait", "run", "listing"}]
    /\ todo \in [Procs -> SUBSET Conns] /\ cur \in [Procs -> Conns \cup {NoConn}]
    /\ list \in [Procs -> SUBSET Accounts]
    /\ acct \in [Procs -> Accounts \cup {NoAccount}]
    /\ nextRes \in [Procs -> Res] /\ fetched \in [Procs -> 0..MaxFills]
    /\ truth \in [Accounts -> 0..MaxFills]
    /\ changed \in BOOLEAN /\ changes \in 0..MaxChanges
    /\ found \in SUBSET Accounts /\ finder \in Conns \cup {NoConn}
    /\ owed \in [Keys -> 0..Passes]

\* Every account is owned: an account with links has exactly one primary among them,
\* whatever synchronisations, deletions and discoveries interleave, and an account is
\* archived exactly when its last link has gone.
AccountOwned ==
    \A a \in Accounts :
        /\ link[a] # {} => Cardinality(primary[a]) = 1 /\ primary[a] \subseteq link[a]
        /\ a \in known => (a \in archived <=> link[a] = {})
        /\ link[a] # {} => a \in known

\* A connection that is gone leaves nothing behind: no link, and no error row, though
\* its synchronisation may still be running when it is deleted.
DeletedLeavesNothing ==
    \A c \in Conns : conn[c] = "deleted" =>
        /\ \A a \in Accounts : c \notin link[a]
        /\ \A f \in failed : f[1] # c

\* Who owns an account, and what a connection leaves behind when it goes.
OwnershipSound == AccountOwned /\ DeletedLeavesNothing

\* "new fill must get its own follow-up passes" (account_refresh_test.go): as long as
\* passes are owed to an invalidation, an entry with few enough attempts is pending,
\* or in the hands of the running refresh; a late Reschedule never overwrites it.
FollowUps ==
    \A k \in Keys : owed[k] > 0 =>
        \/ pending[k] \in 0..(Passes - owed[k])
        \/ pending[k] = None /\ ready[k] # None
             /\ ready[k] <= (IF now = k THEN Passes - owed[k] - 1 ELSE Passes - owed[k])

\* What is shown never goes back: while one interactive connection writes an account's
\* resource, each write is at least as recent at the broker as the one before
\* (synchronisations are serialised by syncMu from their fetch to their last write).
NeverBackwards ==
    [][\A a \in Accounts, i \in Res :
         who[a][i] = who'[a][i] /\ who[a][i] \notin Reports => ver[a][i] <= ver'[a][i]]_vars

\* The projection of an archived account does not change, though a synchronisation
\* that resolved it may still be running when its last connection is deleted.
ArchivedUntouched ==
    [][\A a \in archived : a \in archived' => who'[a] = who[a] /\ ver'[a] = ver[a]]_vars

\* A resource shown by an interactive connection that is the primary and stays it is not
\* replaced by a report's.
Stands(a, i) ==
    \A g \in Conns \ Reports :
        who[a][i] = g /\ primary[a] = {g} /\ primary'[a] = {g} => who'[a][i] \notin Reports

\* "A Flex snapshot must never overwrite a Gateway primary, even if imported later"
\* (broker_projections.go:566), as to positions: no report's replace them as long as the
\* Gateway is the primary.
GatewayPositionsStand ==
    [][\A a \in Accounts, i \in Res : Resources[i] = "positions" => Stands(a, i)]_vars

\* A projection is not overwritten by who does not own it any more.
ProjectionsStand == ArchivedUntouched /\ GatewayPositionsStand

-----------------------------------------------------------------------------
(***************************************************************************)
(* Fairness.  The loop's select chooses at random between what is ready,   *)
(* and both tickers keep firing, so each case is taken again and again;    *)
(* Go's mutex hands over to a waiter; broker calls run under a deadline or *)
(* return.                                                                 *)
(* Nothing is assumed of users, of the administrator or of fills.          *)
(***************************************************************************)
SyncFairness ==
    /\ SF_vars(Lock("loop"))
    /\ \A p \in Procs : WF_vars(SyncStep(p))

RefreshSpec ==
    /\ Spec /\ SyncFairness
    /\ SF_vars(TakePending) /\ SF_vars(DropPending)
    /\ \A k \in Keys : WF_vars(ComesDue(k))
    /\ WF_vars((\E k \in Keys : SyncAccount(k)) \/ Reschedule \/ EndRefresh)

\* An invalidated account is refreshed, or synchronisation is off: owed passes begin.
InvalidationServed ==
    \A k \in Keys : (owed[k] = Passes) ~> (owed[k] < Passes)
=============================================================================
