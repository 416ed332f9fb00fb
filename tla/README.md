# Traio core: TLA+ models, checks and proofs

Traio is a self-hosted service that connects to brokers (IBKR, Schwab, Alpaca), keeps a copy of
accounts, positions and account history, places orders and computes daily performance. It is one
Go process over SQLite, or several over PostgreSQL. This directory models the parts whose
correctness depends on the order in which goroutines, processes, users and brokers act.

## 1. Inventory

State in **bold** is durable (database rows).

| Part | State | Operations | Why it is hard |
|---|---|---|---|
| History job queue (`store/activity_jobs.go`, `history/worker.go`) | **jobs with status, phase, owner, lease, generation; raw records, observations, coverage**; a worker's claimed job | create, claim, renew, fetch, store, normalize, cover, finish, retry, wake | several processes; leases that run out during a write; committed writes reported as errors; restart in the middle |
| History requests and scheduler (`history/service.go`, `scheduler.go`) | **jobs, coverage**; the last run of each slot | daily, weekly and monthly slots; explicit requests | windows, gaps and skips; a slot used up by a run that achieved nothing |
| History imports (`history/service.go`, `store/activity_jobs.go`) | **uploaded reports** | preview, store evidence, commit, expire | a preview in two transactions, committed by several requests |
| Activity ledger (`store/activity_records.go`, `activity_resolution.go`) | **raw records, activities, revisions, identities, issues** | normalize, match, conflict, resolve, page | the same event from two sources, a reviewer's decision against later reports |
| Reconciliation (`store/activity_reconciliation.go`, `activity/validation.go`) | **snapshots, coverage, issues** | merge ranges, compare balances | gaps of a day, repeated jobs |
| Daily performance (`performance`, `store/performance.go`) | **daily points per currency, one mark per account**; a lock per account | read, recalculate, refresh, replace, invalidate a source | the ledger changes during a calculation |
| Connection manager (`runtime/connections.go`) | sessions and their configurations, leases | reload, acquire, release, close | four locks, sessions replaced while used, failures half-way |
| Trading events (`runtime/trading_events.go`) | a worker per session | start, cancel, reap, emit | events of replaced sessions, shutdown order |
| Market data and trading routes (`broker/market_data_service.go`, `trading.go`) | route maps under read-write locks | replace, quote, order | readers against replacement |
| Order sessions of Alpaca and Schwab (`broker/order_session.go`, adapters) | previews, attempts | search, preview, place | repeated requests, lost answers |
| IBKR order flow (`broker/ibkr/order_workflow.go`) | attempts, pending confirmation, replies | preview, place, reply, cancel | questions answered by questions, lost answers |
| IBKR live orders (`broker/ibkr/trading_events.go`) | order rows, executions seen, readiness, the listening socket | poll, stream update, snapshot, event | a snapshot older than an update, a socket that breaks with unread messages |
| Schwab token (`broker/schwab/oauth.go`) | token; **copy in the connection row** | refresh, exchange, persist | two writers of the token, read-modify-write of the row |
| Schwab streamer (`broker/schwab/streamer.go`, `api/websocket.go`) | subscribers, one connection, its subscriptions | subscribe, cancel, connect, dispatch, back off, close | wake-ups between a look and a wait |
| Portfolio synchronisation (`portfolio`, `store/broker_projections.go`, `broker_catalog.go`) | **connections, accounts, links, primaries, projections, error rows**; pending refreshes | sync, refresh, discover, save, disable, delete | ownership moves between two transactions of a synchronisation |
| Authentication (`auth`, `store/auth.go`, `api/auth.go`) | **users, members, invitations, sessions, flows**; the login limiter | login, logout, invite, change and remove members, OAuth state | one-time states, a role read before it is used, the last owner |
| Public market data (`market`, `api/tiingo.go`) | **the Tiingo row**; the installed client, cached quotes and charts, crumbs | save, test, delete, route, fall back, coalesce | administrators without a lock, an upstream that blocks whoever insists |
| API, MCP, configuration, migrations, parsing | little or none | request decoding, calls into the above | sequential |

Interactions. The API and the background loops call the services directly. `OnBrokersChanged`
(`cmd/server/main.go`) is the hub: it reloads the connection manager, which replaces the routes of
market data and trading, and then hands new source lists to the portfolio synchronisation and
the equity service. Trading events invalidate accounts in the synchronisation. The scheduler, users
and uploads create jobs; the history worker acquires sessions, fetches, writes the ledger (which
marks the performance series) and calls `RefreshAccounts`. A refreshed Schwab token is a
configuration change of its own. Shared state is the database; in memory it is protected by mutexes
that are named in the modules.

What makes each part correct is stated as properties (section 4); what can go wrong and where is
the `hazards` list of `PROJECT.json`.

## 2. Modules

| Module | Models | Checked through | Proofs |
|---|---|---|---|
| `HistoryJobs` | queue rows, leases, workers, evidence | `MCHistoryJobs` in `MCHistory` | `HistoryProofs` |
| `HistoryJobPromise` | what the queue promises, without processes or leases (abstract) | instantiated by `HistoryJobs` as `Promise` | `HistoryProofs` |
| `HistoryScheduler` | slots, windows, fresh coverage, explicit requests, over days | `MCHistoryScheduler`, `MCHistory` | `HistoryProofs` |
| `HistoryImports` | preview and commit of uploaded reports | `MCHistory` | `HistoryProofs` |
| `ActivityLedger` | normalisation, revisions, issues, review, paging | `MCActivityLedger`, `MCStore` | `StoreProofs` |
| `Reconciliation` | coverage ranges and balances | `MCActivityLedger`, `MCStore` | `StoreProofs` |
| `PerformanceSeries` | the stored daily series, its mark and its calculations | `MCPerformanceSeries` in `MCStore` | `StoreProofs` |
| `PortfolioSync` | synchronisation, ownership of accounts, projections, account refresh | `MCPortfolioSync` | `PortfolioSyncProofs` |
| `Connections` | connection manager, routes, callers, event supervisor, `OnBrokersChanged` | `MCConnections` | `ConnectionsProofs` |
| `MarketData` | administration of the Tiingo source, routing of public market data | `MCClients` | `ClientsProofs` |
| `YahooClient` | the gate, caches, crumbs and retries of one in-memory client | `MCClients` | `ClientsProofs` |
| `SchwabTokens` | the token of a Schwab connection in client and row | `MCOrderSession` in `MCClients` | `ClientsProofs` |
| `OrderPromise` | what an order adapter promises of an order, without handlers, questions or lost answers (abstract) | instantiated by `OrderSession` and `IbkrOrderFlow` as `Promise` | `AdapterProofs`, `IbkrProofs` |
| `OrderSession` | Alpaca and Schwab order submission | `MCOrderSession` in `MCClients` | `AdapterProofs` |
| `SchwabStream` | subscriptions and the stream of one Schwab client | `MCStreams` | `AdapterProofs` |
| `IbkrOrderFlow` | IBKR order submission with confirmations | `MCIbkrOrderFlow` | `IbkrProofs` |
| `IbkrLiveOrders` | the cache of live orders of a watched session | `MCStreams` | `IbkrProofs` |
| `Access` | identities, members, logins, sessions and permissions | `MCAccess` | `AccessProofs` |

`PROJECT.json` maps every definition to source lines. A definition that no specification uses and
that stands before another of almost the same name (`FreshForever` before `Fresh`) is that
definition with a plausible mistake: each property is known to fail when it takes the other's place.

### HistoryJobs
A row of `broker_history_jobs` is one index of `status`, `phase`, `owner`, `gen`, `lease`,
`attempt`, `next` and `request`; the worker of a process is `pc`, `job`, `held`, `todo`, `worst`,
`renew`; evidence is `raw`, `obs`, `cov` and `booked`. A transaction is a step, and every write of
`runJob` may commit and still be reported as an error (`Wrote`). Abstractions:
- Times are reduced to what SQL compares: a lease is live, expired, or exactly at its end ("edge",
  where it can be neither renewed nor reclaimed). Clocks are read when the statement runs, except
  in `RenewHistoryJob`, whose reading may be late.
- The owner uuid is the process; a crash loses its memory and the next claim is a new generation.
- `normalize_status` is "clean" or "review" (unsupported or conflicting); records are normalized in any order.
- `MaxAttempts` is 5 in the code. Deleting a connection and the performance hook at the end of
  `runJob` (part of `PerformanceSeries`) are left out.

### HistoryScheduler and HistoryImports
Time is days. `Tick` is the first tick of a day that finds something to do; the jobs of a day end on
that day, well (`Settle`) or badly (`Fail`). `Schedule` marks the slots that are due as run and
creates the requests that `Skipped` does not reject, or all but those whose insert failed. Whether
coverage exactly as old as its cadence still counts depends on the minute in which its job ended,
so `Fresh` takes either (`edge`). A report asked for up to today may end a day short (`lag`).
`troubled` remembers the last day on which anything went wrong, so that the property can say what
holds after a quiet time. `Never` lies 1000 days before the first day, and a month is assumed to be no
longer than that, so that a slot that never ran is due. An upload is a row of `broker_history_imports`; its preview is two
transactions, its commit one, split where the row lock, the checks and the insert can interleave.

### ActivityLedger and Reconciliation
A raw record is what the parser makes of it under each version of its rules, a record of its account,
source, identities, dates, legs and marks. `MCWorlds` holds every three of nine such records: a trade reported
by two sources and corrected, removed or overlapping, and the two sides of a transfer, some to be
reviewed. Every operation is one transaction over the account's row, hence one step. Of the revisions only
the current one is kept, with a number, and which raw records were ever principal. A listing is paged by the
date and activity of the last row shown, compared as the SQL does (`Under`), and the numbers of
revision of the accounts. In `Reconciliation` a day, a balance and a leg are small numbers; jobs
reconcile whatever snapshots, coverage and activities there are at the time. Which of two ranges
that begin on the same day comes first is left open, as the sort is not stable (`InOrder`), and so is
the order in which one job reports its mismatches.

### Connections, MarketData and YahooClient
The read-write locks `b.mu`, of market data and of trading are represented by positions: a caller
holds the read side while it is not idle, `Reload` waits for or holds the write side at "wantB",
"wantMd" and "wantTr", and a waiting writer keeps new readers out. `reloadMu` is `reloader`.
Abstractions: configurations are opaque values (`reflect.DeepEqual`), deletion acts as disabling,
the session identity is fixed by `ConnOf`, login and lease calls are one kind of call, a
watcher's two emitting goroutines are one, and a broker call returns. The process does not close
sessions when it stops. In `MarketData` administrators' requests read, ask the provider, write the
row and reload as separate steps; a reader's request is a source order, an adjustment and the
answers of the sources. `YahooClient` admits one call at a time; the upstream may withdraw any crumb.

### OrderSession, IbkrOrderFlow, SchwabTokens
A request is a client order id and a ticket. The network and the broker are external: a written
request may be taken, refused or lost, also after the caller stopped waiting. A 4xx answer is
taken to mean that the broker did not take the order. In `OrderSession` the mutex covers map
accesses only, so handlers overlap; in `IbkrOrderFlow` it covers whole operations, so `busy` is one
variable and what is uncertain is the Gateway. Refusals that change nothing are not steps; reply
ids are fresh; a 401 is an unknown outcome; a replaced session and a crash are the same
(`NewSession`). Cancel, get and list of Alpaca and Schwab keep no state and are left out.
`OrderPromise` is what the two have in common: `said` is read off the attempts (an attempt that
waits for the user's consent is still open, a declined one refused), `fate` off the broker (an order that is
refused, dropped or lost on its way will never be there; one the Gateway asks about is on its way). It promises
nothing about time: a caller may wait for ever.
In `SchwabTokens` a token is a number; the provider accepts a refresh token once. `refreshMu` is
held across the refresh and its storing; the exchange of a code takes no lock.

### SchwabStream and IbkrLiveOrders
The loop of `SchwabStream` is one action per point at which it looks at or waits for something
(`Top`, `Idle`, `Prepare`, `Login`, `Stream`, `Failed`, `Backoff`); the wake channel holds one token.
Quotes are counted per subscriber and dropped when its channel is full. In `IbkrLiveOrders` an order is
the number of its last change and every second change is a fill; a poll is a REST snapshot that was
taken (`FetchOrderRows`), answered and applied at different times, and the socket delivers messages
in order until it breaks. Rows that age out after 24 hours are not modelled.

### PortfolioSync
Store transactions are single steps (true on SQLite, which has one connection; on PostgreSQL some
interleave). A projection is its writer and the version of the account it shows. `syncMu` admits
the loop or an API request; the administrator, the history worker's account discovery, fills and
trading events act between any two transactions. The tie-break among equally preferred links is
left open, `auth_type` is fixed per connection (`Reports`), connection ids are not reused, sync
status is the set of error rows, and the per-provider switches are on, off, or off for this
provider. A lease refused by `Connections` is `SkipSource`, always possible.

### PerformanceSeries
One account in `licensed_persistence` mode. The ledger is `led[d]`, the number of revisions dated
`d` or earlier; a stored point is that number as its calculation loaded it (`val`), and `prev` is the point its
`daily_pnl` starts from. `calculate` is five steps under the account's lock; commits and the
removal of a source do not take it. The transient cache, the arithmetic of the calculator and
re-adding a source are not modelled; a failed query, a cancelled request and a crash are
`CalculateFails`.

### Access
A request is a handler in flight, one step per transaction or statement; the role it acts with is
the one read when it was authenticated. Reading and writing in one transaction are two steps; with
`Serializable` nobody else uses the database between them, as on SQLite with its one connection.

## 3. Runs and bounds

Passing runs end with the full state space searched. Some runs carry parts of the system that share
no variable: a behaviour then is one of a single part, chosen by its initial state, while
the others rest. Nothing is lost by it, as no step of one part reads or writes another.

| Run (module, cfg) | Instance | Shows |
|---|---|---|
| `history` (`MCHistory`) | 1 job row, 2 requests of one scope, 2 processes, 2 attempts, 1 fault, 1 wake; 12 days, an IBKR and a Schwab connection, 1 event out of routine; 1 upload, 3 handlers of 2 users | fencing, single booking, completeness, refinement, every queued job settles; history is asked for and audited; an upload is one job |
| `history_cadence` (`MCHistoryScheduler`) | as above, nothing out of routine | violation, see section 4 |
| `store` (`MCStore`) | 3 records of 2 accounts; 3 days, 2 snapshots, 2 ranges, 1 activity; 2 callers, 2 days, 1 currency, 2 changes of the performance series | one activity per event; decisions stand; coverage exact; calculations never older, marks lost only to races |
| `ledger_lookalikes` (`MCActivityLedger`) | the ledger of `store` | violation, see section 4 |
| `portfolio_owners` (`MCPortfolioSync`) | Gateway and Flex connection, 1 account, 4 changes, 1 error row | one owner, nothing left of deleted connections, positions stand |
| `portfolio_refresh` (`MCPortfolioSync`) | 1 connection, 1 invalidated key, 1 fill, 2 changes, 1 error row | refreshes begin, follow-ups not lost, no older state written |
| `connections` (`MCConnections`) | 2 connections (1 watched), 6 sessions, 2 admins, 2 saves, 2 faults | no closed session routed, none lost, saves applied, events never late |
| `connections_live` (`MCConnections`) | 1 watched connection, 1 admin, 1 caller, 2 saves, 1 fault | a session in use stays open; reloads return; workers follow the session |
| `clients` (`MCClients`) | 2 handlers, 1 id, 2 tickets, 2 sessions, 3 clock values; 2 calls, 3 tokens, 2 clients, 1 edit; 2 administrators of Tiingo, or 1 and a reader; 2 lookups, 3 crumbs, a cache of 2 | one POST, outcomes true and final; one refresh at a time; sources, labels and upstream |
| `ibkr_order_flow` (`MCIbkrOrderFlow`) | 3 ids of which 2 fit, 2 questions, 2 sessions | nothing sent twice, outcomes true and final, confirmations answerable |
| `streams` (`MCStreams`) | 2 web sockets, 2 symbols, a buffer of 2; 1 order, 2 changes, 2 unread messages | the stream follows its subscribers, forgets none and ends; the cache of live orders catches up |
| `access` (`MCAccess`) | 2 people, 2 requests, 1 flow, 2 sessions, limit 1 | an owner remains; one-time states and the limiter; the removed stay out |

Why this is enough. Every hazard is a conflict of two actors over one object: two processes over a
job, two handlers over an id, two connections over an account, two callers over a series. Ids, keys
and accounts do not influence one another in the code, so one suffices, except where the code
compares them (records of the ledger, symbols of a stream), where there are two or three. Records
meet in a job's summary and in a loop a crash may interrupt; TLC takes one, and the proofs hold for
any number of everything named here (section 5). Attempts need two (one retry). Faults, saves, wakes, fills and
revisions are counted because they are unbounded in reality; one of each already comes before,
during or after any other step, and two give one of each order. Sessions are as many as the saves
of the run can open. The calendar of `HistoryScheduler` is scaled: a week of 2 days, a month of 4, a
quarter of 5 and a report of at most 4 days keep the order and the differences of 7, 30, 90 and 365
that windows and cadences depend on, and 12 days are more than two of the longest cadence. Limits
(the limiter's 5, buffers, caches, 10000 rows) are 1 or 2, so that they are reached. Symmetry is used only
for interchangeable processes, handlers and callers, and never in a liveness run. Callers of a session only
delay the reload that replaces it, so they are left to `connections_live`. In `store` only one caller
waits for the account's lock at a time (waiting changes nothing), and beside a reader of `clients`
one administrator works, who does not test the source (a test installs no client). `CHECK_DEADLOCK FALSE`
appears where all jobs may be finished, all budgets used or a client closed.

Fairness.
- `HistoryJobs`: worker loops poll for ever (`workerLoop`), time passes, steps of a running job return.
  Nothing is assumed of users; crashes are limited by a budget.
- `Connections`: runnable goroutines run, callers end their calls, mutex waiters are served (strong
  fairness, since the lock comes and goes).
- `PortfolioSync`: the `select` of the loop chooses at random among ready cases, so each case is
  taken again and again (strong fairness); Go hands a mutex over to a starved waiter.
- `SchwabStream`: the stream's goroutine and the web sockets run on, as every wait of theirs has a
  deadline or a channel that is filled or closed. Nothing is assumed of logins or the upstream.
- `IbkrLiveOrders`: the timer fires, messages are read, and a poll that is tried for ever succeeds
  in the end (strong fairness of its good answers): catching up is promised to nobody whose Gateway never answers.
- Orders have no liveness property: the clients have no timeout, so none can be promised.
- `PerformanceSeries` has none either: a failed calculation is not retried before the next day.

## 4. Properties

A property in parentheses is a conjunct of the one before it.

- **HistoryJobs**: `WholeIsWhole` (a job that ended well stored and decided everything and says what
  it decided), `BookedOnce`, `KeepsPromise` (refinement of `HistoryJobPromise`), `EventuallySettled`.
- **HistoryScheduler**: `HistoryAsked` (`Revisited`: after a quiet time every day of the history was
  checked within twice its cadence; `QueueServable`: no job is one its source refuses).
- **HistoryImports**: `ImportedOnce`.
- **ActivityLedger**: `OneActivityPerIdentity`, `ReviewListed` (what needs review has an open issue),
  `ReviewStands` (nothing changes an activity after a reviewer's decision on a duplicate), `PagesAgree` (accepted cursors see one state).
- **Reconciliation**: `ReconciledExactly` (`CoverageExact`, `MismatchOnce`).
- **PortfolioSync**: `OwnershipSound` (`AccountOwned`, `DeletedLeavesNothing`), `ProjectionsStand`
  (`ArchivedUntouched`, `GatewayPositionsStand`: no report's positions replace those of an interactive
  primary; of two interactive connections, the former primary's synchronisation in flight may still
  write), `FollowUps`, `NeverBackwards`, `InvalidationServed`.
- **PerformanceSeries**: `OnlyRacesLoseMarks`, `NeverOlder`.
- **Connections**: `InUseIsOpen`, `SessionsAccounted` (`RoutedIsOpen`, `OpenIsOwned`, `WatchedIsOpen`,
  `StoppedIsQuiet`), `SavedIsApplied`, `NoLateEvents`, `ReloadsReturn`, `EventsFollow`.
- **MarketData**: `SourcesSound` (`OnlyRacesMisconfigure`, `LabelledAsPriced`).
- **YahooClient**: `UpstreamSpared` (`Coalesced`, `RefusedCrumbsForgotten`).
- **OrderSession**: `SentOnce`, `KeepsOrderPromise` (refinement of `OrderPromise`: what is said of an order is true
  of the broker, is said once, and nothing is written after it).
- **SchwabTokens**: `TokensGuarded` (`OneRefresh`, `OnlyRacesPartTokens`, `OnlyCutsLoseEdits`).
- **IbkrOrderFlow**: `WrittenOnce`, `KeepsOrderPromise` (the same promise), `OneOpenQuestion` (`PendingAnswerable`, `QuietWhilePending`).
- **SchwabStream**: `StreamSound` (`ReadersReleased`: no send to a closed channel, nobody forgotten;
  `WakePending`), `StreamSettles` (`StreamFollows`, `CloseEnds`).
- **IbkrLiveOrders**: `SnapshotsMoveForward`, `OnlyRacesHide`, `CacheCatchesUp`.
- **Access**: `OwnerRemains`, `LoginsBounded` (`OneUse`, `LimiterBound`), `RemovedStayOut`.

Properties named `OnlyRaces...` say that the wrong state is reached only through the race they name,
which the code allows, and never otherwise.

### Where code and documentation disagree
Two of these are runs that end in a violation, each with a finding that quotes the line.

| Run | What happens |
|---|---|
| `ledger_lookalikes` | a record quarantined as the lookalike of another source's activity is booked beside it by its next revision |
| `history_cadence` | weekly and monthly audits happen every second time only: the run in between finds the coverage still fresh, and is used up |

Three more were found with earlier versions of the runs. The models still have the behaviour, and the
passing properties are stated so as not to exclude it:
- waking a job that needed action beside an identical queued one leaves both active
  (`store/activity_jobs.go:420`, against the comment at line 79);
- a Flex synchronisation overwrites cash balances of a Gateway that became primary
  (`store/broker_projections.go:225`, against the comment at line 566);
- `daily_pnl` may start from a value in another currency (`store/performance.go:264`, against
  `docs/daily-performance.md:8`).

Behaviour that no document excludes, but a reader may not expect:
- a renewal whose clock was read late revives a lease after another job of the scope was claimed
  (`HistoryJobs`; fencing by generation still holds);
- days that Schwab, Alpaca or a Gateway were not asked for during an outage of more than a week are
  never asked for again, as their only window is the last week (`HistoryScheduler`);
- linking a transfer resolves whatever issue it is asked about, open issues of replaced revisions stay open, no operation resolves a balance mismatch, and an identity conflict leaves its
  raw record pending (`ActivityLedger`, `Reconciliation`);
- one failing `Close` leaves the other replaced sessions open, and two configuration changes may
  set their source lists in the opposite order of their reloads (`Connections`, `cmd/server/main.go:159`);
- a test of the Tiingo source beside its deletion leaves it enabled without a token, and the next
  start of the server ends in `log.Fatalf`; a revoked token may keep serving after two overlapping
  reloads; a candle without adjusted fields stays raw under the adjusted label (`MarketData`);
- on PostgreSQL two requests may remove the last two owners (`Access` with `Serializable = FALSE`);
- a refresh beside an exchange of a code may part the token of the client from that of the row (`SchwabTokens`);
- a web socket whose client a reload has closed keeps sending heartbeats and no quotes (`SchwabStream`);
- an archived account keeps its projections, although a comment calls them deleted, and account
  discovery may revoke a link that was added after it read the links (`PortfolioSync`);
- a revision committed during a calculation loses its mark, a calculation in one currency deletes
  the mark another currency still needs, `daily_pnl` after a gap starts from a point several days
  old, and a calculation under way may store points of a revoked source (`PerformanceSeries`).

## 5. Proofs

Proved by TLAPS for every value of the constants that meets the `ASSUME`s, which TLC evaluates on each
run. Each theorem rests on an inductive invariant: the property, and what else a step relies on.

- `HistoryProofs`. *Jobs*: `TypeCorrect`, `WholeIsAlwaysWhole`, `AlwaysBookedOnce`, `AlwaysFenced`,
  `FinalStaysFinal`, and the refinement `PromiseKept`. `IInv` adds to the types `RowsKnow` (idle workers
  hold nothing; evidence appears only after the fetch phase) and `HolderKnows`: a process that still
  holds its job's generation has not been overtaken, so its list of records to normalize is right.
  Without it, finishing a job says nothing about its evidence. `PromiseKept` shows each step to be a
  step of the promise or a stutter; the promise's state is read off the rows and evidence.
  *Uploads*: `ImportCommittedOnce`. `ImportsInv` says that the request between its row lock and its
  commit is the only one (`RowHeld`), so that what it found under the lock still holds (`Learned`).
  *Scheduler*: `RequestsServable`, for every calendar: the windows of the slots are no longer than
  their sources serve, and no job outlives its day. `HistoryAlwaysAsked` adds `Revisited`, where every connection has a source at
  all (`EverySourced`; one without any is never asked). That a slot is used up by its run, whatever the
  run skipped, makes the property far from inductive: a day moves from the daily window to the weekly
  and then the monthly one while runs skip what is fresh. `AuditInv` therefore says when each slot last
  ran (`Punctual`); that the last run left no day of its windows neither checked within the
  cadence nor asked for (`Answered`); and that a day was checked shortly before it left the daily window
  (`WeekKept`) and the weekly one (`QuarterKept`). Under it lie lemmas that the windows of `HistoryWindows` leave no gap
  (`WindowsCover`) and that the sweep of `IntervalsCover` finds no day covered that is not
  (`IntervalsCoverSound`), by a least day at which it would go wrong. The assumption `Span >= Quarter - Week` is what
  keeps the weekly window within one report (365 and 90 - 7 in the code).
- `StoreProofs`. *Performance*: `TypeCorrect`, `SeriesNeverOlder`, and, for an account asked for in its
  own currency only, `MarksSurvive`. The invariant puts the input of the one calculation under way
  between the stored points and the ledger (`OneHolder`, `InputBetween`, `PointsSeen`). For
  `MarksSurvive`, what the calculation has not seen is raced (`MissedIsRaced`), and so is
  every stale point before its first day (`BehindIsRaced`). The assumption on currencies is
  needed: a calculation in another currency deletes the account's mark.
  *Ledger*: `LedgerInvariance`, `LedgerOneActivityPerIdentity`, `LedgerReviewListed`, `LedgerPagesAgree`,
  `LedgerReviewStands`, for every set of records, whatever they say and however they arrive.
  `LedgerInv` says that an identity has one owner of its account (`OneOwner`) and that what stands behind
  a revision or an issue has given it all its identities (`Behind`), so two activities cannot share
  one; that a conflict never names the reviewer's own revision (`Conflicts`), so accepting an old one is
  refused after a decision; and that a listing's generations never run ahead (`Paging`).
  *Reconciliation*: `LedgerReconciledExactly`, for every number of days and every set of ranges. A finite
  set of ranges can be ordered (`OrderExists`); every day the loop over them counts as covered lies in a range
  (`CoveredSound`), and where it stops at a gap all ranges after it begin behind the gap (`CoveredComplete`).
  `ReconciliationInv` adds to the property that the open mismatches are a list, as a job looks among them first.
- `AdapterProofs`. *Order sessions*: `TypeCorrect`, `AlwaysSentOnce`, `AlwaysHonest`, `AlwaysPreviewed`,
  `OutcomeStays`. The invariant says that the handler `Begin` let through is the only one working
  on its id (`WorkerOwns`, `OneWorker`), that an id without attempt has not left the process
  (`Unsent`), that verdicts are true of the broker (`Truthful`), and that the preview map agrees
  with what was shown (`Shown`).
  `OrderPromiseKept` is the refinement: `Begin` takes charge of an order, `Post` writes it, `Finish` says how
  it ended, which `Truthful` makes a step of the promise; what callers see of the rest is a
  stutter. *Schwab's stream*: `StreamsSound`, where `StreamInv` ties a registration to the place of its
  web socket (`Registered`).
- `IbkrProofs`. *Order entry*: `FlowTypeCorrect`, `FlowWrittenOnce`, `FlowRecordHonest`,
  `FlowOneOpenQuestion`. `FlowInv` follows the one question a session waits for: nobody replied to
  it yet (`Waiting`); while its reply is under way the Gateway is at most one question ahead
  (`Replying`), and that one belongs to this order and was never replied to (`Fresh`).
  `FlowPromiseKept` shows that IBKR's questions do not change what is promised: an order that is asked about
  stays open, and an outcome is recorded only of an attempt that was open (`Subject`, `PendingAnswerable`).
  *Live orders*: `SnapshotsForward`, and `RacesAloneHide` where the cache has room for the orders (`Roomy`; a full one
  refuses new rows). `LiveInv` says that no row is ahead of the Gateway, or of the answer to a poll that
  began before the row was written (`Backed`), and that the last unread message about an order is its present
  state (`UpToDate`): a late message may take a row back, but one that restores it then waits.
- `AccessProofs`: `AccessTypeCorrect`, `AccessOwnerRemains`, `AccessLoginsBounded`, `AccessLimiterBound`,
  `AccessRemovedStayOut`. Of the transactions that read and then write at most one is open
  (`Exclusive`), so that what it read is so when it writes (`ClaimStands`, `FlowStands`).
  `AccessOwnerRemains` and `AccessLoginsBounded` assume `Serializable`, which SQLite's one connection
  gives; with `Serializable = FALSE` TLC finds both properties violated. The others hold without it.
- `ClientsProofs`: `SchwabTokensGuarded` (`TokensInv`: a refresh holds its client's mutex until the row is
  written, and stores the client's token unless an exchange interfered), `YahooUpstreamSpared`
  (`YahooInv`: what a call past the cache was not served is not in the cache until it is fetched),
  `MarketSourcesSound` (`MarketInv`: a checked save is loadable while the row is the one it was
  checked against, and the client differs from the row only while a request is on its way to
  install it; `LabelsInv`: readers are answered with the label of their prices).
- `ConnectionsProofs`: `ConnectionsTypeCorrect`, `ConnectionsSessionsAccounted`, `ConnectionsInUseIsOpen`,
  `ConnectionsSavedIsApplied`, `ConnectionsNoLateEvents`. `ConnInv` says which session maps agree at each
  step of Reload (`Shape`), that what they lead to is open until `Close` (`Lives`), that a caller's
  session is still routed because writers wait for it (`Holding`), and that between the reading and the use of
  a row only a request that will reload again can have changed it (`Applied`, `Origins`).
- `PortfolioSyncProofs`: `SyncTypeCorrect`, `SyncOwnershipSound`, `SyncFollowUps`, `SyncNeverBackwards`,
  `SyncProjectionsStand`. `SyncInv` says that an account with links has one primary among them (`Owned`),
  that `syncMu` admits one synchronisation (`Turns`), that what it fetched is at least as recent as
  what it is about to replace (`Recent`), and which refreshes the loop has taken (`Taken`).

Only model-checked:
- liveness (`EventuallySettled`, `ReloadsReturn`, `EventsFollow`, `InvalidationServed`, `StreamSettles`,
  `CacheCatchesUp`), as fairness and ENABLED are beyond the prover;
- the violations of section 4, which are counterexamples.

Every invariant and action property of a passing run is stated by a theorem. Where a definition is recursive
(the sweeps over coverage), it is a recursive function, whose existence follows from the
well-foundedness of the numbers it runs over, and a minimal counterexample takes the place of an induction.

## 6. Not modelled, and the plan

Stateless code (HTTP clients, decoding, Flex parsing, decimal arithmetic, portfolio views), schema and
migrations, start-up configuration, process files, MCP, news, AI and indicators are not modelled; the
reasons are in `PROJECT.json`. `http.DefaultClient` has no timeout (`broker/alpaca/client.go:63`): a
broker that never answers holds its caller, so every liveness property above assumes that calls return.

Next models: the transient mode of the performance cache; cancellation of Alpaca and Schwab orders;
polling of a Flex report. Next proofs: what else holds of `Access` on PostgreSQL.
