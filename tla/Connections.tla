---------------------------- MODULE Connections ----------------------------
(***************************************************************************)
(* The live broker sessions of a server process: ConnectionManager and its *)
(* Reload (internal/runtime/connections.go), the routes of                 *)
(* MarketDataService and TradingService (internal/broker), the callers     *)
(* that use a session, the supervisor and workers of StartTradingEvents    *)
(* (internal/runtime/trading_events.go) and OnBrokersChanged               *)
(* (cmd/server/main.go), which runs Reload and hands the sources on.       *)
(*                                                                         *)
(* The three read-write locks are not variables: a caller holds the read   *)
(* side while it is not idle, Reload waits for or holds the write side at  *)
(* "wantB", "wantMd" and "wantTr", and a waiting writer keeps new readers  *)
(* out, as sync.RWMutex does.                                              *)
(***************************************************************************)
EXTENDS Naturals, FiniteSets

CONSTANTS
    Conns,       \* broker connections
    Sessions,    \* session objects that may be opened: a bound
    ConnOf,      \* ConnectionID() of a session
    Boot,        \* the session the first Reload opened for a connection
    Configs,     \* values of a connection's runtime configuration
    BootConfig,
    Trades,      \* connections whose session is a TradingProvider
    Watched,     \* connections whose session is a TradingEventProvider
    Callers,     \* requests and jobs that use sessions
    Admins,      \* requests that change the configuration
    NoSession, NoAdmin,
    MaxSaves,    \* bound: configuration changes of a behaviour
    MaxFaults    \* bound: failed reloads, failed closes and the end of the process

ASSUME ConnectionsAssumption ==
    /\ NoSession \notin Sessions
    /\ NoAdmin \notin Admins
    /\ ConnOf \in [Sessions -> Conns]
    /\ Boot \in [Conns -> Sessions \cup {NoSession}]
    /\ \A c \in Conns : Boot[c] # NoSession => ConnOf[Boot[c]] = c
    /\ BootConfig \in Configs
    /\ Trades \subseteq Conns /\ Watched \subseteq Conns
    /\ MaxSaves \in Nat /\ MaxFaults \in Nat

VARIABLES
    enabled, conf,              \* the rows of broker_connections
    life,                       \* life[s]: "unborn", "open" or "closed"
    from,                       \* from[s]: the configuration it was opened with
    sessions, using,            \* b.sessions and b.sessionConfigs
    quotes, traders,            \* the routes of MarketDataService and TradingService
    sources, accounts,          \* the connections SyncService and account.Service know
    call, held,                 \* what a caller is doing and the session it holds
    admin,                      \* where a request to OnBrokersChanged stands
    seen,                       \* the sources it has read and not yet set
    reloader, step,             \* the holder of reloadMu and where Reload stands
    todo, built, builtFrom, reused, previous, leaving,   \* locals of Reload
    syncOn,                     \* SyncEnabled()
    quit, sup, current,         \* the process stops; the supervisor of the event workers
    worker, work, cancelled,    \* its workers: their session, state and contexts
    invalid,                    \* accounts reported changed and not yet refreshed
    saves, faults,
    owed, abandoned             \* auxiliary: changes no reload has read since it
                                \* was told, sessions a failed Close left behind

store == <<enabled, conf>>
routes == <<sessions, using, quotes, traders>>
listed == <<sources, accounts>>
callers == <<call, held>>
locals == <<todo, built, builtFrom, reused, previous, leaving>>
events == <<syncOn, quit, sup, current, worker, work, cancelled, invalid>>
vars == <<store, life, from, routes, listed, callers, admin, seen, reloader, step, locals, events,
          saves, faults, owed, abandoned>>

None == [c \in Conns |-> NoSession]
Serving(m) == {c \in Conns : m[c] # NoSession}

Steps == {"off", "load", "wantB", "wantMd", "wantTr", "close", "await"}
AdminStates == {"idle", "saved", "reloading", "loaded", "sources", "listed", "accounts"}

TypeOK ==
    /\ enabled \subseteq Conns
    /\ conf \in [Conns -> Configs]
    /\ life \in [Sessions -> {"unborn", "open", "closed"}]
    /\ from \in [Sessions -> Configs]
    /\ sessions \in [Conns -> Sessions \cup {NoSession}]
    /\ using \in [Conns -> Configs]
    /\ quotes \in [Conns -> Sessions \cup {NoSession}]
    /\ traders \in [Conns -> Sessions \cup {NoSession}]
    /\ sources \subseteq Conns /\ accounts \subseteq Conns
    /\ call \in [Callers -> {"idle", "lease", "quote", "order"}]
    /\ held \in [Callers -> Sessions \cup {NoSession}]
    /\ admin \in [Admins -> AdminStates]
    /\ seen \in [Admins -> SUBSET Conns]
    /\ reloader \in Admins \cup {NoAdmin}
    /\ step \in Steps
    /\ todo \subseteq Conns /\ reused \subseteq Conns /\ leaving \subseteq Conns
    /\ built \in [Conns -> Sessions \cup {NoSession}]
    /\ builtFrom \in [Conns -> Configs]
    /\ previous \in [Conns -> Sessions \cup {NoSession}]
    /\ syncOn \in {"on", "off"}
    /\ quit \in {"no", "yes"}
    /\ sup \in {"tick", "sweep", "stopping", "stopped"}
    /\ current \in [Watched -> Sessions \cup {NoSession}]
    /\ worker \in [Watched -> Sessions \cup {NoSession}]
    /\ work \in [Watched -> {"none", "start", "watching", "emitting", "ended"}]
    /\ cancelled \subseteq Watched
    /\ invalid \subseteq Watched
    /\ saves \in Nat /\ faults \in Nat
    /\ owed \subseteq Conns
    /\ abandoned \subseteq Sessions

\* What BuildConnectionManager and the Build functions of sync.go leave behind.
Init ==
    /\ enabled = Serving(Boot)
    /\ conf = [c \in Conns |-> BootConfig]
    /\ life = [s \in Sessions |-> IF Boot[ConnOf[s]] = s THEN "open" ELSE "unborn"]
    /\ from = [s \in Sessions |-> BootConfig]
    /\ sessions = Boot
    /\ using = [c \in Conns |-> BootConfig]
    /\ quotes = Boot
    /\ traders = [c \in Conns |-> IF c \in Trades THEN Boot[c] ELSE NoSession]
    /\ sources = Serving(Boot) /\ accounts = Serving(Boot)
    /\ call = [k \in Callers |-> "idle"]
    /\ held = [k \in Callers |-> NoSession]
    /\ admin = [a \in Admins |-> "idle"]
    /\ seen = [a \in Admins |-> {}]
    /\ reloader = NoAdmin /\ step = "off"
    /\ todo = {} /\ reused = {} /\ leaving = {}
    /\ built = None /\ previous = None
    /\ builtFrom = [c \in Conns |-> BootConfig]
    /\ syncOn = "on"
    /\ quit = "no" /\ sup = "tick"
    /\ current = [c \in Watched |-> NoSession]
    /\ worker = [c \in Watched |-> NoSession]
    /\ work = [c \in Watched |-> "none"]
    /\ cancelled = {} /\ invalid = {}
    /\ saves = 0 /\ faults = 0
    /\ owed = {} /\ abandoned = {}

\* Mutant: b.mu is released only when Reload returns.
ManagerHeldThroughout == step \notin {"wantB", "wantMd", "wantTr", "close", "await"}

\* No writer holds a lock or waits for it.
ManagerReadable == step \notin {"wantB", "wantMd"}
QuotesReadable == step # "wantMd"
TradersReadable == step # "wantTr"

(***************************************************************************)
(* Configuration changes                                                   *)
(***************************************************************************)

\* A handler of internal/api saves a connection, then calls OnBrokersChanged.
SaveConnection(a) ==
    /\ admin[a] = "idle"
    /\ saves < MaxSaves
    /\ saves' = saves + 1
    /\ \E c \in Conns, v \in Configs :
        /\ conf' = [conf EXCEPT ![c] = v]
        /\ enabled' \in {enabled \cup {c}, enabled \ {c}}
    /\ admin' = [admin EXCEPT ![a] = "saved"]
    /\ UNCHANGED <<life, from, routes, listed, callers, seen, reloader, step, locals, events,
                   faults, owed, abandoned>>

\* A token refresh writes the row of its connection; nothing is reloaded.
PersistSchwabToken ==
    /\ saves < MaxSaves
    /\ saves' = saves + 1
    /\ \E c \in Conns \ Watched, v \in Configs :
        /\ sessions[c] # NoSession
        /\ conf' = [conf EXCEPT ![c] = v]
        /\ owed' = owed \cup {c}
    /\ UNCHANGED <<enabled, life, from, routes, listed, callers, admin, seen, reloader, step, locals,
                   events, faults, abandoned>>

\* settings.OnApply: automatic synchronization is switched on or off.
ApplySyncConfig ==
    /\ saves < MaxSaves
    /\ saves' = saves + 1
    /\ syncOn' = IF syncOn = "on" THEN "off" ELSE "on"
    /\ UNCHANGED <<store, life, from, routes, listed, callers, admin, seen, reloader, step, locals,
                   quit, sup, current, worker, work, cancelled, invalid, faults, owed, abandoned>>

(***************************************************************************)
(* Reload                                                                  *)
(***************************************************************************)

\* reloadMu.Lock, and the list of connections.
ReloadBegin(a) ==
    /\ admin[a] = "saved"
    /\ reloader = NoAdmin
    /\ reloader' = a
    /\ admin' = [admin EXCEPT ![a] = "reloading"]
    /\ step' = "load"
    /\ todo' = enabled
    /\ built' = None
    /\ reused' = {}
    /\ owed' = owed \ (Conns \ enabled)
    /\ UNCHANGED <<store, life, from, routes, listed, callers, seen, builtFrom, previous, leaving,
                   events, saves, faults, abandoned>>

\* Mutant: any session of the connection is reused.
ReusableAny(c) == sessions[c] # NoSession

\* reflect.DeepEqual of the configuration read now and the one in use.
Reusable(c) == sessions[c] # NoSession /\ using[c] = conf[c]

LoadConnection(c) ==
    /\ step = "load" /\ c \in todo
    /\ todo' = todo \ {c}
    /\ builtFrom' = [builtFrom EXCEPT ![c] = conf[c]]
    /\ owed' = owed \ {c}
    /\ \/ /\ Reusable(c)
          /\ built' = [built EXCEPT ![c] = sessions[c]]
          /\ reused' = reused \cup {c}
          /\ UNCHANGED <<life, from>>
       \/ /\ ~Reusable(c)
          /\ \E s \in Sessions :
              /\ life[s] = "unborn" /\ ConnOf[s] = c
              /\ life' = [life EXCEPT ![s] = "open"]
              /\ from' = [from EXCEPT ![s] = conf[c]]
              /\ built' = [built EXCEPT ![c] = s]
          /\ UNCHANGED reused
    /\ UNCHANGED <<store, routes, listed, callers, admin, seen, reloader, step, previous,
                   leaving, events, saves, faults, abandoned>>

\* Mutants: a failed Reload closes nothing; closing drops the other sessions.
DiscardedNone == {}
\* The sessions that the deferred function of a failed Reload closes.
Discarded == {s \in Sessions : built[ConnOf[s]] = s /\ ConnOf[s] \notin reused}

Closed(ss) == [s \in Sessions |-> IF s \in ss THEN "closed" ELSE life[s]]

\* The store fails, a factory refuses the configuration or the request is
\* cancelled: the error goes to the client.
ReloadFails ==
    /\ step = "load"
    /\ faults < MaxFaults
    /\ faults' = faults + 1
    /\ life' = Closed(Discarded)
    /\ step' = "off" /\ reloader' = NoAdmin
    /\ admin' = [admin EXCEPT ![reloader] = "idle"]
    /\ built' = None /\ reused' = {} /\ todo' = {}
    /\ owed' = Conns
    /\ UNCHANGED <<store, from, routes, listed, callers, seen, builtFrom, previous, leaving, events,
                   saves, abandoned>>

\* b.mu.Lock announces the writer.
AnnounceSwap ==
    /\ step = "load" /\ todo = {}
    /\ step' = "wantB"
    /\ UNCHANGED <<store, life, from, routes, listed, callers, admin, seen, reloader, locals, events,
                   saves, faults, owed, abandoned>>

\* Mutant: the swap does not wait for leases.
SwapUnderLease ==
    /\ step = "wantB"
    /\ previous' = sessions
    /\ sessions' = built
    /\ using' = builtFrom
    /\ step' = "wantMd"
    /\ UNCHANGED <<store, life, from, quotes, traders, listed, callers, admin, seen, reloader, todo,
                   built, builtFrom, reused, leaving, events, saves, faults, owed, abandoned>>

\* The leases are gone: the sessions are swapped, and b.mu stays held while
\* MarketData.Replace waits for its own lock.
SwapSessions ==
    /\ step = "wantB"
    /\ \A k \in Callers : call[k] # "lease"
    /\ previous' = sessions
    /\ sessions' = built
    /\ using' = builtFrom
    /\ step' = "wantMd"
    /\ UNCHANGED <<store, life, from, quotes, traders, listed, callers, admin, seen, reloader, todo,
                   built, builtFrom, reused, leaving, events, saves, faults, owed, abandoned>>

MarketDataReplace ==
    /\ step = "wantMd"
    /\ \A k \in Callers : call[k] # "quote"
    /\ quotes' = built
    /\ step' = "wantTr"
    /\ UNCHANGED <<store, life, from, sessions, using, traders, listed, callers, admin, seen, reloader,
                   locals, events, saves, faults, owed, abandoned>>

\* Mutant: sessions that were reused are closed as well.
ReplacedAll == {c \in Conns : previous[c] # NoSession}

\* The previous sessions that Reload closes.
Replaced == {c \in Conns : previous[c] # NoSession /\ c \notin reused}

TradingReplace ==
    /\ step = "wantTr"
    /\ \A k \in Callers : call[k] # "order"
    /\ traders' = [c \in Conns |-> IF c \in Trades THEN built[c] ELSE NoSession]
    /\ leaving' = Replaced
    /\ step' = "close"
    /\ UNCHANGED <<store, life, from, sessions, using, quotes, listed, callers, admin, seen, reloader,
                   todo, built, builtFrom, reused, previous, events, saves, faults, owed, abandoned>>

\* Session.Close: marks the session closed and cancels its watcher.
CloseReplaced(c) ==
    /\ step = "close" /\ c \in leaving
    /\ life' = [life EXCEPT ![previous[c]] = "closed"]
    /\ leaving' = leaving \ {c}
    /\ step' = "await"
    /\ UNCHANGED <<store, from, routes, listed, callers, admin, seen, reloader, todo, built, builtFrom,
                   reused, previous, events, saves, faults, owed, abandoned>>

\* A watcher that has taken the session's eventDone and not returned.
Watching(c) == work[c] \in {"watching", "emitting"}
\* Close of the session it watches waits for it.
UnderClose(c) == Watching(c) /\ worker[c] = previous[c] /\ life[worker[c]] = "closed"
WatcherLeft == \E c \in Watched : UnderClose(c)

\* Close returns once the watcher of the session has.
CloseDone ==
    /\ step = "await"
    /\ ~WatcherLeft
    /\ step' = "close"
    /\ UNCHANGED <<store, life, from, routes, listed, callers, admin, seen, reloader, locals, events,
                   saves, faults, owed, abandoned>>

\* The request is cancelled while Close waits: Reload returns its error and
\* leaves the remaining previous sessions as they are.
CloseGivesUp ==
    /\ step = "await"
    /\ WatcherLeft
    /\ faults < MaxFaults
    /\ faults' = faults + 1
    /\ abandoned' = abandoned \cup {previous[c] : c \in leaving}
                               \cup {worker[c] : c \in {d \in Watched : UnderClose(d)}}
    /\ step' = "off" /\ reloader' = NoAdmin
    /\ admin' = [admin EXCEPT ![reloader] = "idle"]
    /\ built' = None /\ previous' = None /\ reused' = {} /\ leaving' = {}
    /\ UNCHANGED <<store, life, from, routes, listed, callers, seen, todo, builtFrom, events, saves, owed>>

ReloadReturns ==
    /\ step = "close" /\ leaving = {}
    /\ step' = "off" /\ reloader' = NoAdmin
    /\ admin' = [admin EXCEPT ![reloader] = "loaded"]
    /\ built' = None /\ previous' = None /\ reused' = {}
    /\ UNCHANGED <<store, life, from, routes, listed, callers, seen, todo, builtFrom, leaving, events,
                   saves, faults, owed, abandoned>>

Reload ==
    \/ \E c \in Conns : LoadConnection(c) \/ CloseReplaced(c)
    \/ ReloadFails
    \/ AnnounceSwap
    \/ SwapSessions
    \/ MarketDataReplace
    \/ TradingReplace
    \/ CloseDone
    \/ CloseGivesUp
    \/ ReloadReturns

(***************************************************************************)
(* The rest of OnBrokersChanged                                            *)
(***************************************************************************)

\* SyncSources or AccountSources, then SetSources with what was read.
ReadSources(a) ==
    /\ admin[a] \in {"loaded", "listed"}
    /\ ManagerReadable
    /\ seen' = [seen EXCEPT ![a] = Serving(sessions)]
    /\ admin' = [admin EXCEPT ![a] = IF admin[a] = "loaded" THEN "sources" ELSE "accounts"]
    /\ UNCHANGED <<store, life, from, routes, listed, callers, reloader, step, locals, events, saves,
                   faults, owed, abandoned>>

SetSources(a) ==
    /\ \/ /\ admin[a] = "sources"
          /\ sources' = seen[a]
          /\ admin' = [admin EXCEPT ![a] = "listed"]
          /\ UNCHANGED accounts
       \/ /\ admin[a] = "accounts"
          /\ accounts' = seen[a]
          /\ admin' = [admin EXCEPT ![a] = "idle"]
          /\ UNCHANGED sources
    /\ seen' = [seen EXCEPT ![a] = {}]
    /\ UNCHANGED <<store, life, from, routes, callers, reloader, step, locals, events, saves, faults,
                   owed, abandoned>>

(***************************************************************************)
(* Callers                                                                 *)
(***************************************************************************)

\* AcquireSession, AcquireDefaultSession, acquirePortfolioProvider,
\* acquireAccountEquityProvider and the login operations: b.mu.RLock for the
\* whole operation.
AcquireSession(k, c) ==
    /\ ManagerReadable
    /\ sessions[c] # NoSession
    /\ call' = [call EXCEPT ![k] = "lease"]
    /\ held' = [held EXCEPT ![k] = sessions[c]]

\* GetQuoteForConnection and the other operations of MarketDataService.
GetQuote(k, c) ==
    /\ QuotesReadable
    /\ quotes[c] # NoSession
    /\ call' = [call EXCEPT ![k] = "quote"]
    /\ held' = [held EXCEPT ![k] = quotes[c]]

\* PlaceOrder and the other operations of TradingService.
PlaceOrder(k, c) ==
    /\ TradersReadable
    /\ traders[c] # NoSession
    /\ call' = [call EXCEPT ![k] = "order"]
    /\ held' = [held EXCEPT ![k] = traders[c]]

Begin(k) ==
    /\ call[k] = "idle"
    /\ \E c \in Conns : AcquireSession(k, c) \/ GetQuote(k, c) \/ PlaceOrder(k, c)
    /\ UNCHANGED <<store, life, from, routes, listed, admin, seen, reloader, step, locals, events,
                   saves, faults, owed, abandoned>>

Release(k) ==
    /\ call[k] # "idle"
    /\ call' = [call EXCEPT ![k] = "idle"]
    /\ held' = [held EXCEPT ![k] = NoSession]
    /\ UNCHANGED <<store, life, from, routes, listed, admin, seen, reloader, step, locals, events,
                   saves, faults, owed, abandoned>>

(***************************************************************************)
(* StartTradingEvents                                                      *)
(***************************************************************************)

notEvents == <<store, life, from, routes, listed, callers, admin, seen, reloader, step, locals, saves,
               faults, owed, abandoned>>

\* Mutant: a worker is stopped only when its connection is gone.
StaleRemoved == {c \in Watched : worker[c] # NoSession /\ current[c] = NoSession}

\* workerCtx.Err() of a worker.
Ended(c) == c \in cancelled \/ quit = "yes"

\* The workers the supervisor has to stop: their session is not current.
Stale == {c \in Watched : worker[c] # NoSession /\ worker[c] # current[c]}

SupervisorReads ==
    /\ sup = "tick"
    /\ syncOn = "on" => ManagerReadable
    /\ current' = [c \in Watched |-> IF syncOn = "on" THEN sessions[c] ELSE NoSession]
    /\ sup' = "sweep"
    /\ UNCHANGED <<notEvents, syncOn, quit, worker, work, cancelled, invalid>>

CancelWorker(c) ==
    /\ sup = "sweep" /\ c \in Stale /\ cancelled = {}
    /\ cancelled' = {c}
    /\ UNCHANGED <<notEvents, syncOn, quit, sup, current, worker, work, invalid>>

\* <-worker.done, delete(workers, id).
ReapWorker(c) ==
    /\ sup = "sweep" /\ c \in cancelled
    /\ work[c] = "ended"
    /\ worker' = [worker EXCEPT ![c] = NoSession]
    /\ work' = [work EXCEPT ![c] = "none"]
    /\ cancelled' = {}
    /\ UNCHANGED <<notEvents, syncOn, quit, sup, current, invalid>>

StartWorkers ==
    /\ sup = "sweep" /\ Stale = {}
    /\ worker' = [c \in Watched |-> IF worker[c] = NoSession THEN current[c] ELSE worker[c]]
    /\ work' = [c \in Watched |->
                    IF worker[c] = NoSession /\ current[c] # NoSession THEN "start" ELSE work[c]]
    /\ sup' = "tick"
    /\ UNCHANGED <<notEvents, syncOn, quit, current, cancelled, invalid>>

\* The context of the process ends, and with it the context of every worker.
StopTradingEvents ==
    /\ quit = "no"
    /\ quit' = "yes"
    /\ faults < MaxFaults
    /\ faults' = faults + 1
    /\ UNCHANGED <<store, life, from, routes, listed, callers, admin, seen, reloader, step, locals, saves,
                   owed, abandoned, syncOn, sup, current, worker, work, cancelled, invalid>>

SupervisorStops ==
    /\ sup = "tick" /\ quit = "yes"
    /\ sup' = "stopping"
    /\ UNCHANGED <<notEvents, syncOn, quit, current, worker, work, cancelled, invalid>>

AllWorkersDone == \A c \in Watched : work[c] \in {"none", "ended"}

\* Mutant: the supervisor does not wait for its workers.
SupervisorLeaves ==
    /\ sup = "stopping"
    /\ sup' = "stopped"
    /\ UNCHANGED <<notEvents, syncOn, quit, current, worker, work, cancelled, invalid>>

SupervisorReturns ==
    /\ sup = "stopping"
    /\ AllWorkersDone
    /\ sup' = "stopped"
    /\ UNCHANGED <<notEvents, syncOn, quit, current, worker, work, cancelled, invalid>>

\* Mutant: a closed session is watched.
WatchableAlways(s) == TRUE

\* The check of WatchTradingEvents before it takes the session's watcher slot.
Watchable(s) == life[s] # "closed"

WatchTradingEvents(c) ==
    /\ work[c] = "start"
    /\ work' = [work EXCEPT ![c] = IF Watchable(worker[c]) THEN "watching" ELSE "ended"]
    /\ UNCHANGED <<notEvents, syncOn, quit, sup, current, worker, cancelled, invalid>>

\* An event that asks for a refresh reaches the callback and passes its first check.
EventArrives(c) ==
    /\ work[c] = "watching"
    /\ ~Ended(c) /\ syncOn = "on"
    /\ work' = [work EXCEPT ![c] = "emitting"]
    /\ UNCHANGED <<notEvents, syncOn, quit, sup, current, worker, cancelled, invalid>>

\* Mutant: the callback does not look again.
CurrentAlways(c) == TRUE

\* b.sessions[id] == session, read under b.mu.
StillCurrent(c) == sessions[c] = worker[c]

EmitEvent(c) ==
    /\ work[c] = "emitting"
    /\ ManagerReadable
    /\ invalid' = IF StillCurrent(c) THEN invalid \cup {c} ELSE invalid
    /\ work' = [work EXCEPT ![c] = "watching"]
    /\ UNCHANGED <<notEvents, syncOn, quit, sup, current, worker, cancelled>>

\* The watcher returns once its context or its session ended it.
WatchReturns(c) ==
    /\ work[c] = "watching"
    /\ Ended(c) \/ life[worker[c]] = "closed"
    /\ work' = [work EXCEPT ![c] = "ended"]
    /\ UNCHANGED <<notEvents, syncOn, quit, sup, current, worker, cancelled, invalid>>

\* SyncService refreshes what was reported (see PortfolioSync).
RefreshPending ==
    /\ invalid # {}
    /\ invalid' = {}
    /\ UNCHANGED <<notEvents, syncOn, quit, sup, current, worker, work, cancelled>>

WorkerStep(c) == WatchTradingEvents(c) \/ EmitEvent(c) \/ WatchReturns(c)
Supervise ==
    \/ SupervisorReads
    \/ \E c \in Watched : CancelWorker(c) \/ ReapWorker(c)
    \/ StartWorkers
    \/ SupervisorStops
    \/ SupervisorReturns

(***************************************************************************)
(* The specification                                                       *)
(***************************************************************************)

AdminStep(a) == ReloadBegin(a) \/ ReadSources(a) \/ SetSources(a)

Next ==
    \/ \E a \in Admins : SaveConnection(a) \/ AdminStep(a)
    \/ PersistSchwabToken
    \/ ApplySyncConfig
    \/ Reload
    \/ \E k \in Callers : Begin(k) \/ Release(k)
    \/ Supervise
    \/ StopTradingEvents
    \/ \E c \in Watched : WorkerStep(c) \/ EventArrives(c)
    \/ RefreshPending

Spec == Init /\ [][Next]_vars

\* Goroutines that can run do, a caller ends its operation, and a sync.Mutex
\* serves whoever waits for it: reloadMu and, whatever comes and goes, the
\* read side of b.mu.
Fairness ==
    /\ WF_vars(Reload)
    /\ \A a \in Admins : SF_vars(AdminStep(a))
    /\ \A k \in Callers : WF_vars(Release(k))
    /\ SF_vars(Supervise)
    /\ \A c \in Watched : SF_vars(WorkerStep(c))

FairSpec == Spec /\ Fairness
(***************************************************************************)
(* Properties                                                              *)
(***************************************************************************)

\* A request, a job or an order never works with a session that was closed,
\* although Reload closes sessions while operations are in flight ("so Reload
\* cannot close or replace the session while it is in use").
InUseIsOpen == \A k \in Callers : held[k] # NoSession => life[held[k]] = "open"

\* Nothing that leads to a session leads to a closed one, at any point of a
\* Reload and after a Reload that failed half way.
RoutedIsOpen ==
    \A m \in {sessions, quotes, traders}, c \in Conns : m[c] # NoSession => life[m[c]] = "open"

\* A saved configuration is in use once every request that changed one has
\* returned, unless a reload failed or only a token was written: a reload that
\* read an older value never overwrites what a later one installed.
SavedIsApplied ==
    \A c \in Conns \ owed :
        (\A a \in Admins : admin[a] \notin {"saved", "reloading"}) =>
            /\ c \in enabled <=> sessions[c] # NoSession
            /\ c \in enabled => from[sessions[c]] = conf[c]

\* Every open session is routed, held by the reload in progress, or left
\* behind by a Close that failed.
OpenIsOwned ==
    \A s \in Sessions :
        life[s] = "open" =>
            \/ s \in {sessions[ConnOf[s]], built[ConnOf[s]], previous[ConnOf[s]]}
            \/ s \in abandoned

\* A watcher outlives its session only while Close waits for it or gave up
\* waiting: one that starts late, after Close, finds the session closed.
WatchedIsOpen ==
    \A c \in Watched :
        Watching(c) =>
            \/ life[worker[c]] = "open"
            \/ step = "await" /\ worker[c] = previous[c]
            \/ worker[c] \in abandoned

\* "stop waits for every websocket/poll worker before the store can be closed".
StoppedIsQuiet == sup = "stopped" => AllWorkersDone

\* Every session is accounted for, from its opening to the end of the process, at any point of
\* a Reload that may fail half way.
SessionsAccounted == RoutedIsOpen /\ OpenIsOwned /\ WatchedIsOpen /\ StoppedIsQuiet

\* An account is never reported changed through a session that was closed,
\* although the event was accepted before the session was replaced.
NoLateEvents == [][\A c \in invalid' \ invalid : life[worker[c]] = "open"]_vars

\* OnBrokersChanged returns: no order of the three locks, the leases, the
\* watchers and the callbacks that take b.mu leaves everybody waiting.
ReloadsReturn == \A a \in Admins : admin[a] = "saved" ~> admin[a] = "idle"

\* StartTradingEvents "follows enabled sessions, including configuration
\* reloads": while synchronization is on the current session is watched.
EventsFollow ==
    \A c \in Watched :
        []<>(\/ quit = "yes"
             \/ syncOn = "off"
             \/ sessions[c] = NoSession
             \/ worker[c] = sessions[c] /\ Watching(c))
=============================================================================
