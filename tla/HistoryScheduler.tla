-------------------------- MODULE HistoryScheduler --------------------------
(***************************************************************************)
(* Who asks for history: internal/history/scheduler.go, and Enqueue of     *)
(* service.go with its choice of a connection, a source and dates.  What a *)
(* job does is in HistoryJobs; here it ends, well or badly, on the day it  *)
(* was created.                                                            *)
(*                                                                         *)
(* Time is counted in days.  The scheduler's ticker runs once a minute;    *)
(* its first tick of a day that finds something to do is the one modelled, *)
(* so a cadence of a day or less is due in every step.  The account of a   *)
(* connection is known by the name of the connection.                      *)
(***************************************************************************)
EXTENDS Integers, FiniteSets, FiniteSetsExt

CONSTANTS
    Conns,          \* enabled connections with activity_history_enabled
    AnyConn,        \* a request that names no connection
    IbkrConns,      \* those of provider IBKR
    Configured,     \* [Conns -> SUBSET Sources]: validateConnectionSource succeeds
    HistoryFrom,    \* activity_history_from
    Week,           \* 7 days: how far a daily window goes back, and a cadence
    Month,          \* 30 days, a cadence
    Quarter,        \* 90 days: how far a weekly window goes back
    Span,           \* 365 days: the longest Flex report
    FirstDay,       \* the day before the program is first started
    LastDay,        \* bound: the clock stops here
    MaxEvents       \* bound on what is not routine: trouble, restarts, requests of users

Sources == {"gateway", "flex", "native"}    \* native: schwab or alpaca

ASSUME CalendarAssumption ==
    /\ Week \in Nat \ {0} /\ {Month, Quarter, Span} \subseteq Nat
    /\ Month >= 2 * Week /\ Month <= 1000 /\ Quarter >= Month /\ Span > Week /\ Span >= Quarter - Week
    /\ HistoryFrom \in Int /\ FirstDay \in Int /\ HistoryFrom <= FirstDay
ASSUME ConnectionAssumption ==
    /\ IbkrConns \subseteq Conns /\ AnyConn \notin Conns
    /\ \A c \in Conns : Configured[c] \subseteq
            (IF c \in IbkrConns THEN {"gateway", "flex"} ELSE {"native"})

VARIABLES
    today,          \* now
    auto,           \* autoSyncEnabled and autoSyncOthers: the providers in this set
    lastRun,        \* Service.lastRun, empty after a start
    linked,         \* connections whose account is known
    queue,          \* active jobs: their requests
    coverage,       \* rows of broker_history_coverage with data_type activities
    lag,            \* days a Flex report falls short of a window that ends today
    troubled,       \* history: the last day on which something went wrong
    events          \* counted against the bound

schedulerVars == <<today, auto, lastRun, linked, queue, coverage, lag, troubled, events>>

\* So long ago that every slot is due.
Never == FirstDay - 1000
Slots == {"native", "gateway", "daily", "weekly", "monthly"}
SlotCadence == [native |-> 1, gateway |-> 1, daily |-> 1, weekly |-> Week, monthly |-> Month]
SourceOf(s) == IF s \in {"native", "gateway"} THEN s ELSE "flex"

SchedulerTypeOK ==
    /\ today \in FirstDay..LastDay /\ troubled \in FirstDay..LastDay
    /\ auto \subseteq {"ibkr", "others"}
    /\ lastRun \in [Conns -> [Slots -> FirstDay..LastDay \cup {Never}]]
    /\ linked \subseteq Conns
    /\ \A j \in queue : j.conn \in Conns /\ j.source \in Sources
    /\ \A r \in coverage : r.account \in Conns /\ r.at \in FirstDay..LastDay
    /\ lag \in {0, 1} /\ events \in 0..MaxEvents

-----------------------------------------------------------------------------
(***************************************************************************)
(* schedule                                                                *)
(***************************************************************************)
Request(c, source, named, period, from, to) ==
    [conn |-> c, source |-> source, named |-> named, period |-> period, from |-> from, to |-> to]

\* Off by one: a window as long as the span and a day.
HistoryWindowsLong(from, to) ==
    {<<s, Min({s + Span, to})>> : s \in {d \in from..to : (d - from) % (Span + 1) = 0}}

\* historyWindows: a range in windows of at most Span days.
HistoryWindows(from, to) ==
    {<<s, Min({s + Span - 1, to})>> : s \in {d \in from..to : (d - from) % Span = 0}}

SlotWindows(s, t) ==
    CASE s \in {"native", "gateway", "daily"} -> {<<t - Week, t>>}
      [] s = "weekly" -> {<<t - Quarter, t - Week - 1>>}
      [] s = "monthly" -> HistoryWindows(HistoryFrom, t - Quarter - 1)

\* The audit cadence of a window that ends on this day.
Cadence(to, t) == IF to < t - Quarter THEN Month ELSE IF to < t - Week THEN Week ELSE 1

\* Coverage is a permanent skip marker.
FreshForever(t, cadence, edge) == coverage

\* Rows checked after now less the cadence.  Whether a job of the slot's last run ended in the
\* minute of the day that this tick falls into decides about a row exactly as old as the cadence.
Fresh(t, cadence, edge) == {r \in coverage : r.at > t - cadence \/ (edge /\ r.at = t - cadence)}

\* The sweep goes on after a gap.
IntervalsCoverGaps(rows, from, to) == \E r \in rows : r.to >= to

\* intervalsCover: a sweep over the rows by their first day, until one starts after a gap.
IntervalsCover(rows, from, to) ==
    LET relevant == {r \in rows : r.to >= from /\ r.from <= to}
        first == Min({r.from : r \in relevant} \cup {from})
        until[d \in (first - 1)..to] ==
            IF d < first THEN from - 1
            ELSE LET ends == {r.to : r \in {x \in relevant : x.from = d}}
                     before == until[d - 1] IN
                 IF d > before + 1 THEN before ELSE Max(ends \cup {before}) IN
    from <= to /\ until[to] >= to

\* completelyCovered: only complete Flex rows count, and never for an unknown account.
CompletelyCovered(c, from, to, rows) ==
    c \in linked /\
    IntervalsCover({r \in rows : r.account = c /\ r.source = "flex" /\ r.complete}, from, to)

\* Native and Gateway jobs are asked for the known accounts, Flex discovers them.
Applies(c, s) ==
    /\ (IF c \in IbkrConns THEN "ibkr" ELSE "others") \in auto
    /\ SourceOf(s) \in Configured[c]
    /\ s \in {"native", "gateway"} => c \in linked

\* due: the slot is used up, whatever becomes of it.
Due(c, s, t, last) == Applies(c, s) /\ t - last[c][s] >= SlotCadence[s]

\* enqueueScheduledWindow
Skipped(c, w, t, edge) ==
    w[1] > w[2] \/ CompletelyCovered(c, w[1], w[2], Fresh(t, Cadence(w[2], t), edge))

Wanted(c, s, t, edge) ==
    {Request(c, SourceOf(s), c \in linked, FALSE, w[1], w[2]) :
        w \in {v \in SlotWindows(s, t) : SourceOf(s) = "flex" => ~Skipped(c, v, t, edge)}}

\* The requests of the slots that are due.
Asks(t, last, edge) ==
    [p \in {q \in Conns \X Slots : Due(q[1], q[2], t, last)} |-> Wanted(p[1], p[2], t, edge)]

\* A job that cannot be created is not tried again before the slot's next run.
Schedule(t, last, asks, refused) ==
    /\ lastRun' =
        [c \in Conns |-> [s \in Slots |-> IF <<c, s>> \in DOMAIN asks THEN t ELSE last[c][s]]]
    /\ queue' = queue \cup (UNION {asks[p] : p \in DOMAIN asks} \ refused)

SchedulerInit ==
    /\ today = FirstDay /\ troubled = FirstDay
    /\ auto = {"ibkr", "others"}
    /\ lastRun = [c \in Conns |-> [s \in Slots |-> Never]]
    /\ linked \in {{}, Conns}
    /\ queue = {} /\ coverage = {} /\ lag \in {0, 1}
    /\ events = 0

Event == events < MaxEvents /\ events' = events + 1
Trouble(day) == Event /\ troubled' = day /\ UNCHANGED lag
Calm == UNCHANGED <<troubled, events, lag>>

\* A new process starts with an empty lastRun and schedules at once.
Start ==
    /\ Event
    /\ LET last == [c \in Conns |-> [s \in Slots |-> Never]] IN
       \E edge \in BOOLEAN : Schedule(today, last, Asks(today, last, edge), {})
    /\ UNCHANGED <<today, auto, linked, coverage, troubled, lag>>

\* Assumed: the jobs of a day end on that day.
Tick ==
    /\ today < LastDay /\ queue = {}
    /\ today' = today + 1
    /\ \E edge \in BOOLEAN :
        LET asks == Asks(today + 1, lastRun, edge) IN
        \/ Schedule(today + 1, lastRun, asks, {}) /\ Calm
        \/ /\ Trouble(today + 1)
           /\ \E p \in DOMAIN asks :
                asks[p] # {} /\ Schedule(today + 1, lastRun, asks, asks[p])
    /\ UNCHANGED <<auto, linked, coverage>>

\* The process is down, or schedule cannot list connections or coverage.
Miss ==
    /\ today < LastDay /\ queue = {}
    /\ today' = today + 1 /\ Trouble(today + 1)
    /\ UNCHANGED <<auto, lastRun, linked, queue, coverage>>

SetSyncConfig(providers) ==
    /\ auto' = providers /\ providers # auto
    /\ Trouble(today)
    /\ UNCHANGED <<today, lastRun, linked, queue, coverage>>

-----------------------------------------------------------------------------
(***************************************************************************)
(* Enqueue, for a user                                                     *)
(***************************************************************************)
NoDate == Never

\* preferredSource, when the request names none.
PreferredSource(c, from) ==
    CASE c \notin IbkrConns -> "native"
      [] "flex" \in Configured[c] /\ from # NoDate /\ from < today - Week -> "flex"
      [] "gateway" \in Configured[c] -> "gateway"
      [] OTHER -> "flex"

Chosen(c, source, from) == IF source = "any" THEN PreferredSource(c, from) ELSE source

\* resolveRequestScope: connections that have the source and all the accounts.
Candidates(conn, source, accounts, from) ==
    {c \in Conns : conn \in {c, AnyConn} /\ Chosen(c, source, from) \in Configured[c]
                   /\ accounts \subseteq {c} \cap linked}

\* normalizeRequestDates
Servable(source, from, to) ==
    /\ from <= to /\ to <= today
    /\ source = "gateway" => from >= today - Week
    /\ source = "flex" => to - from < Span

Enqueue(conn, source, accounts, from, to) ==
    LET c == CHOOSE x \in Candidates(conn, source, accounts, from) : TRUE
        chosen == Chosen(c, source, from)
        start == IF from = NoDate THEN today - Week ELSE from
        end == IF to = NoDate THEN today ELSE to
        named == accounts # {} \/ (chosen # "flex" /\ c \in linked) IN
    /\ Event
    /\ Cardinality(Candidates(conn, source, accounts, from)) = 1
    /\ named \/ chosen = "flex"
    /\ Servable(chosen, start, end)
    /\ queue' = queue \cup
        {Request(c, chosen, named, chosen = "flex" /\ from = NoDate /\ to = NoDate, start, end)}
    /\ UNCHANGED <<today, auto, lastRun, linked, coverage, troubled, lag>>

-----------------------------------------------------------------------------
(***************************************************************************)
(* The ends of a job                                                       *)
(***************************************************************************)
\* verifiedReportCoverage proves a Flex report's own range, all sections present; the others
\* are observed.  A report asked for up to today may end a day earlier.
Settle(j) ==
    /\ queue' = queue \ {j}
    /\ linked' = linked \cup (IF j.source = "flex" THEN {j.conn} ELSE {})
    /\ coverage' = coverage \cup
        {[account |-> j.conn, source |-> j.source, complete |-> j.source = "flex", from |-> j.from,
          to |-> IF j.source = "flex" THEN Min({j.to, today - lag}) ELSE j.to, at |-> today]}
    /\ UNCHANGED <<today, auto, lastRun>> /\ Calm

\* failed, needs_action, or complete with a section missing from the report.
Fail(j) ==
    /\ queue' = queue \ {j}
    /\ Trouble(today)
    /\ UNCHANGED <<today, auto, lastRun, linked, coverage>>

\* The portfolio synchronisation finds the account.
LinkAccount(c) ==
    /\ c \notin linked /\ linked' = linked \cup {c}
    /\ Trouble(today)
    /\ UNCHANGED <<today, auto, lastRun, queue, coverage>>

Dates == {NoDate, today - Week - 1, today}

SchedulerNext ==
    \/ Start \/ Tick \/ Miss
    \/ \E providers \in {{}, {"ibkr", "others"}} : SetSyncConfig(providers)
    \/ \E conn \in Conns \cup {AnyConn}, source \in Sources \cup {"any"},
          accounts \in {{}} \cup {{c} : c \in Conns}, from, to \in Dates :
            events < MaxEvents /\ Enqueue(conn, source, accounts, from, to)
    \/ \E j \in queue : Settle(j) \/ Fail(j)
    \/ \E c \in Conns : LinkAccount(c)

SchedulerSpec == SchedulerInit /\ [][SchedulerNext]_schedulerVars

-----------------------------------------------------------------------------
(***************************************************************************)
(* Properties                                                              *)
(***************************************************************************)
\* The days a connection is to be audited for, and the last time one was.
ByReports(c) == "flex" \in Configured[c]
Audited(c) == IF ByReports(c) THEN HistoryFrom..(today - 1) ELSE (today - Week)..today
Checks(c, d) ==
    {r \in coverage : r.account = c /\ r.from <= d /\ d <= r.to /\ (ByReports(c) => r.complete)}
Checked(c, d) == Max({r.at : r \in Checks(c, d)} \cup {Never})

\* "Successful coverage is revisited on its audit cadence so later broker corrections remain
\* discoverable": once nothing has gone wrong for that long, no day of the history is left
\* unchecked for more than twice its cadence, although a slot is used up by a run that skips
\* what it finds fresh.
Revisited ==
    queue = {} /\ auto = {"ibkr", "others"} =>
        \A c \in linked : \A d \in Audited(c) :
            LET patience == 2 * Cadence(d, today) IN
            today - troubled > patience => today - Checked(c, d) <= patience

\* No job is created that its source refuses: in the future, too far back for the Gateway or
\* too long for a report.
QueueServable == \A j \in queue : Servable(j.source, j.from, j.to)

\* The comment, taken at its word: a day more than the cadence is allowed for the ticker.
RevisitedOnCadence ==
    queue = {} /\ auto = {"ibkr", "others"} =>
        \A c \in linked : \A d \in Audited(c) :
            LET patience == Cadence(d, today) + 1 IN
            today - troubled > patience => today - Checked(c, d) <= patience

\* What the scheduler and the users ask for between them.
HistoryAsked == Revisited /\ QueueServable
=============================================================================
