--------------------------- MODULE IbkrLiveOrders ---------------------------
(***************************************************************************)
(* The cache of live orders that an IBKR client keeps while a session is   *)
(* watched: internal/broker/ibkr/trading_events.go, and ListOrders and     *)
(* invalidateOrderCache, which read and distrust it.                       *)
(*                                                                         *)
(* The web socket and two polls run independently: the poll of the timer   *)
(* and the one that primes a new stream, from the stream's own goroutine.  *)
(* An order is the number of its last change; every second change is a     *)
(* fill and has an execution.  Times are only compared: a row was written  *)
(* "after a poll started" exactly when it is in the poll's set later.      *)
(***************************************************************************)
EXTENDS FiniteSets, Integers, Sequences

CONSTANTS
    Orders,
    MaxChange,      \* bound: changes of an order
    MaxUnread,      \* bound: messages on the socket that were not read yet
    MaxRows,        \* 10000 in the code
    MaxSeen         \* 50000 in the code

ASSUME LiveOrdersAssumption == {MaxChange, MaxUnread, MaxRows, MaxSeen} \subseteq Nat

Polls == {"timer", "prime"}

VARIABLES
    book,           \* external: the Gateway's orders, 0 for none
    watch,          \* WatchTradingEvents: "off", "on", or "ending" after its context was cancelled
    link,           \* the stream: "down", "priming", "primed" or "up"
    unread,         \* messages the stream has not read
    rows,           \* orderState.rows: the change an order was last seen at, 0 for no row
    ready,          \* orderState.readyAt is at most a minute ago
    seen,           \* orderState.executions
    stage,          \* where a poll is
    reply,          \* its answer to the request for orders
    later,          \* orders whose row is newer than the start of the poll
    refreshed,      \* how often an execution made the account refresh
    known,          \* the change of an order that a caller of this program was told about
    outdated,       \* polls that started before the cache was last invalidated
    doubtful        \* a snapshot or a broken stream left older rows in a cache that looks ready

liveVars == <<book, watch, link, unread, rows, ready, seen, stage, reply, later, refreshed, known,
              outdated, doubtful>>

Executions == {<<o, n>> : o \in Orders, n \in 1..(MaxChange \div 2)}

\* External: the executions of an order that has changed so often.
Executed(o, change) == {e \in Executions : e[1] = o /\ 2 * e[2] <= change}

LiveInit ==
    /\ book = [o \in Orders |-> 0] /\ rows = book /\ known = book
    /\ watch = "off" /\ link = "down" /\ unread = <<>> /\ ready = FALSE /\ seen = {}
    /\ stage = [p \in Polls |-> "idle"] /\ reply = [p \in Polls |-> book]
    /\ later = [p \in Polls |-> {}]
    /\ refreshed = [e \in Executions |-> 0]
    /\ outdated = {} /\ doubtful = FALSE

-----------------------------------------------------------------------------
(***************************************************************************)
(* What is applied                                                         *)
(***************************************************************************)
\* applyExecutionRows: one that was seen with the same economics is not; a full map starts over.
ApplyExecutionRows(es) ==
    LET new == es \ seen IN
    /\ refreshed' = [e \in Executions |-> IF e \in new THEN refreshed[e] + 1 ELSE refreshed[e]]
    /\ seen' = IF new # {} /\ Cardinality(seen) >= MaxSeen THEN new ELSE seen \cup new

\* A snapshot overwrites every row.
NotRolledBackNever(p, os) == os

\* A snapshot only adds rows.
NotRolledBackKnown(p, os) == {o \in os : rows[o] = 0}

\* A REST response started before a later update of a row must not roll it back.
NotRolledBack(p, os) == os \ later[p]

\* A new row needs room.
Admitted(os) == {o \in os : rows[o] > 0 \/ Cardinality({x \in Orders : rows[x] > 0}) < MaxRows}

\* applyOrderRows: for the polls that run on, the rows it writes are later ones.
WriteRows(os, changes, running) ==
    /\ rows' = [o \in Orders |-> IF o \in os THEN changes[o] ELSE rows[o]]
    /\ later' = [q \in Polls |-> IF q \in running THEN later[q] \cup os ELSE {}]

\* Polls that have started and not yet applied what they were answered.
Running == {q \in Polls : stage[q] \in {"waiting", "asked", "answered"}}

-----------------------------------------------------------------------------
(***************************************************************************)
(* pollTradingEvents                                                       *)
(***************************************************************************)
PollBegins(p) ==
    /\ stage[p] = "idle"
    /\ stage' = [stage EXCEPT ![p] = "waiting"]
    /\ later' = [later EXCEPT ![p] = {}]

\* The ticker fires.  The Gateway's tickle of a regular poll changes nothing here.
TimerPoll ==
    /\ watch = "on"
    /\ PollBegins("timer")
    /\ UNCHANGED <<book, watch, link, unread, rows, ready, seen, reply, refreshed, known, outdated, doubtful>>

\* fetchOrderRows: requestMu and the interval between two requests keep requests apart.
FetchOrderRows(p) ==
    /\ watch = "on" /\ stage[p] = "waiting"
    /\ \A q \in Polls : stage[q] # "asked"
    /\ stage' = [stage EXCEPT ![p] = "asked"]
    /\ UNCHANGED <<book, watch, link, unread, rows, ready, seen, reply, later, refreshed, known, outdated, doubtful>>

\* External: the Gateway answers; the lock is released before the answer is applied.
OrdersAnswered(p) ==
    /\ watch = "on" /\ stage[p] = "asked"
    /\ stage' = [stage EXCEPT ![p] = "answered"]
    /\ reply' = [reply EXCEPT ![p] = book]
    /\ UNCHANGED <<book, watch, link, unread, rows, ready, seen, later, refreshed, known, outdated, doubtful>>

\* getTradingJSON fails, the snapshot is still pending or the wait was cancelled: the trades are
\* asked for all the same.
OrdersFail(p) ==
    /\ stage[p] = "asked" \/ (watch = "ending" /\ stage[p] = "waiting")
    /\ stage' = [stage EXCEPT ![p] = "trades"]
    /\ later' = [later EXCEPT ![p] = {}] /\ outdated' = outdated \ {p}
    /\ UNCHANGED <<book, watch, link, unread, rows, ready, seen, reply, refreshed, known, doubtful>>

ApplyOrderRows(p) ==
    LET os == Admitted(NotRolledBack(p, {o \in Orders : reply[p][o] > 0})) IN
    /\ stage[p] = "answered"
    /\ stage' = [stage EXCEPT ![p] = "trades"]
    /\ WriteRows(os, reply[p], Running \ {p})
    /\ ready' = TRUE
    /\ doubtful' = (p \in outdated \/ (doubtful /\ later[p] # {}))
    /\ outdated' = outdated \ {p}
    /\ UNCHANGED <<book, watch, link, unread, seen, reply, refreshed, known>>

\* The request for trades, answered or not; then the poll is over.
PollTrades(p, answered) ==
    /\ stage[p] = "trades" /\ (answered => watch = "on")
    /\ stage' = [stage EXCEPT ![p] = "idle"]
    /\ IF answered THEN ApplyExecutionRows(UNION {Executed(o, book[o]) : o \in Orders})
       ELSE UNCHANGED <<refreshed, seen>>
    /\ link' = IF p = "prime" THEN "primed" ELSE link
    /\ UNCHANGED <<book, watch, unread, rows, ready, reply, later, known, outdated, doubtful>>

-----------------------------------------------------------------------------
(***************************************************************************)
(* streamTradingEvents                                                     *)
(***************************************************************************)
\* streamSession and the request for accounts succeed; today's orders are polled before sor.
\* (When one of them fails the stream stays down.)
StreamPrimes ==
    /\ watch = "on" /\ link = "down"
    /\ link' = "priming"
    /\ PollBegins("prime")
    /\ UNCHANGED <<book, watch, unread, rows, ready, seen, reply, refreshed, known, outdated, doubtful>>

\* The handshake and both subscriptions succeed, or the stream is retried.
StreamOpens(opened) ==
    /\ link = "primed" /\ (opened => watch = "on")
    /\ link' = IF opened THEN "up" ELSE "down"
    /\ UNCHANGED <<book, watch, unread, rows, ready, seen, stage, reply, later, refreshed, known, outdated, doubtful>>

\* consumeTradingMessage: sor and str.
ReadMessage ==
    /\ link = "up" /\ unread # <<>>
    /\ unread' = Tail(unread)
    /\ LET m == Head(unread) IN
       IF m.topic = "sor"
       THEN WriteRows(Admitted({m.order}), [o \in Orders |-> m.change], Running) /\ UNCHANGED <<seen, refreshed>>
       ELSE ApplyExecutionRows({m.execution}) /\ UNCHANGED <<rows, later>>
    /\ UNCHANGED <<book, watch, link, ready, stage, reply, known, outdated, doubtful>>

Disconnected ==
    /\ link' = IF link = "up" THEN "down" ELSE link
    /\ unread' = <<>>
    /\ doubtful' = (doubtful \/ unread # <<>>)
    /\ UNCHANGED <<book, rows, ready, seen, stage, reply, later, refreshed, known, outdated>>

\* A read fails, a heartbeat cannot be written, or sts says that authentication was lost.
StreamBreaks == link = "up" /\ Disconnected /\ UNCHANGED watch

WatchTradingEvents ==
    /\ watch = "off"
    /\ watch' = "on"
    /\ UNCHANGED <<book, link, unread, rows, ready, seen, stage, reply, later, refreshed, known, outdated, doubtful>>

\* The context is cancelled: the socket is closed, and requests under way fail.
CancelWatch == watch = "on" /\ watch' = "ending" /\ Disconnected

\* It waits for its workers; the cache stays.
WatchReturns ==
    /\ watch = "ending" /\ link = "down" /\ \A p \in Polls : stage[p] = "idle"
    /\ watch' = "off"
    /\ UNCHANGED <<book, link, unread, rows, ready, seen, stage, reply, later, refreshed, known, outdated, doubtful>>

-----------------------------------------------------------------------------
(***************************************************************************)
(* The Gateway, and the callers of this program                            *)
(***************************************************************************)
\* External: an order changes, and the stream is told when somebody listens.
OrderChanges(o) ==
    LET change == book[o] + 1
        told == <<[topic |-> "sor", order |-> o, change |-> change]>> \o
                (IF change % 2 = 0 THEN <<[topic |-> "str", execution |-> <<o, change \div 2>>]>> ELSE <<>>) IN
    /\ change <= MaxChange
    /\ book' = [book EXCEPT ![o] = change]
    /\ unread' = IF link = "up" THEN unread \o told ELSE unread
    /\ Len(unread') <= MaxUnread
    /\ UNCHANGED <<watch, link, rows, ready, seen, stage, reply, later, refreshed, known, outdated, doubtful>>

\* The cache stays ready.
InvalidateOrderCacheNot == UNCHANGED <<ready, outdated, doubtful>>

InvalidateOrderCache ==
    /\ ready' = FALSE
    /\ outdated' = Running
    /\ doubtful' = FALSE

\* An order was submitted, answered or cancelled through this program, which now knows of it.
CallerHears(o) ==
    /\ known[o] < book[o]
    /\ known' = [known EXCEPT ![o] = book[o]]
    /\ InvalidateOrderCache
    /\ UNCHANGED <<book, watch, link, unread, rows, seen, stage, reply, later, refreshed>>

\* A minute without a snapshot.
CacheExpires ==
    /\ ready
    /\ ready' = FALSE
    /\ UNCHANGED <<book, watch, link, unread, rows, seen, stage, reply, later, refreshed, known, outdated, doubtful>>

\* ListOrders and cachedOrders: from the cache when it is ready, else from the Gateway.
Listed(o) == IF ready THEN rows[o] ELSE book[o]

LiveNext ==
    \/ TimerPoll \/ StreamPrimes \/ ReadMessage \/ StreamBreaks \/ CacheExpires
    \/ WatchTradingEvents \/ CancelWatch \/ WatchReturns
    \/ \E p \in Polls : \/ FetchOrderRows(p) \/ OrdersAnswered(p) \/ OrdersFail(p) \/ ApplyOrderRows(p)
                        \/ \E answered \in BOOLEAN : PollTrades(p, answered)
    \/ \E opened \in BOOLEAN : StreamOpens(opened)
    \/ \E o \in Orders : OrderChanges(o) \/ CallerHears(o)

LiveSpec == LiveInit /\ [][LiveNext]_liveVars

\* The poll's ticker keeps firing, and the Gateway does not fail every poll from some time on.
LiveFairness ==
    /\ WF_liveVars(TimerPoll)
    /\ WF_liveVars(ReadMessage)
    /\ \A p \in Polls :
        /\ WF_liveVars(FetchOrderRows(p)) /\ SF_liveVars(FetchOrderRows(p))
        /\ WF_liveVars(OrdersAnswered(p) \/ OrdersFail(p)) /\ SF_liveVars(OrdersAnswered(p))
        /\ WF_liveVars(ApplyOrderRows(p))
        /\ WF_liveVars(\E answered \in BOOLEAN : PollTrades(p, answered))
        /\ SF_liveVars(PollTrades(p, TRUE))

-----------------------------------------------------------------------------
(***************************************************************************)
(* Properties                                                              *)
(***************************************************************************)
LiveTypeOK ==
    /\ book \in [Orders -> 0..MaxChange] /\ rows \in [Orders -> 0..MaxChange]
    /\ watch \in {"off", "on", "ending"} /\ link \in {"down", "priming", "primed", "up"}
    /\ stage \in [Polls -> {"idle", "waiting", "asked", "answered", "trades"}]
    /\ later \in [Polls -> SUBSET Orders] /\ seen \subseteq Executions

\* "A REST response started before a websocket update must not roll it back": a snapshot, however
\* late it is applied, never replaces a row by an older state of the order.
SnapshotsMoveForward ==
    [][\A p \in Polls : stage[p] = "answered" /\ stage'[p] = "trades" =>
          \A o \in Orders : rows[o] <= rows'[o]]_liveVars

\* What a caller was told about an order it finds in the list: after invalidateOrderCache a
\* list does not show an older state, unless a newer message is waiting on the stream, a poll
\* that started before the invalidation has vouched for the cache since, or a broken stream has
\* lost messages.
OnlyRacesHide ==
    ~doubtful => \A o \in Orders :
        \/ Listed(o) >= known[o]
        \/ \E i \in DOMAIN unread : unread[i].topic = "sor" /\ unread[i].order = o /\ unread[i].change >= known[o]

\* Whatever messages are lost, and whichever polls fail: while a session is watched, the cache
\* comes to show what the Gateway shows and every execution refreshes the account.
CacheCatchesUp ==
    <>[](watch = "on") =>
    <>[](/\ \A o \in Orders : rows[o] = book[o]
         /\ \A o \in Orders : \A e \in Executed(o, book[o]) : refreshed[e] > 0)
=============================================================================
