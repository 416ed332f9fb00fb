------------------------- MODULE PerformanceSeries -------------------------
(***************************************************************************)
(* The daily performance series of one account in licensed_persistence     *)
(* mode: internal/performance (Service) over internal/store/performance.go.*)
(*                                                                         *)
(* Activities are committed by the history worker and by users who resolve *)
(* issues; each commit marks the account dirty from its earliest date.     *)
(* API reads, API recalculations, the history hook and the daily refresh   *)
(* all end in calculate, which holds the account's lock from the load of   *)
(* its input to the replacement of the stored points.  Commits, and the    *)
(* removal of a market data source, do not take that lock.                 *)
(*                                                                         *)
(* The ledger is abstracted to led[d], the number of revisions dated d or  *)
(* earlier, so a point is up to date when it was computed from that many.  *)
(* prev is the stored point whose value a point's daily_pnl starts from.   *)
(***************************************************************************)
EXTENDS Integers

CONSTANTS
    Callers,      \* goroutines that calculate
    Currencies,   \* base currencies asked for
    Home,         \* the account's own base currency
    NoCell,
    MaxDay,       \* bound: days of the calendar
    MaxRevisions  \* bound: revisions committed

ASSUME PerformanceAssumption ==
    /\ Home \in Currencies
    /\ MaxDay \in Nat \ {0} /\ MaxRevisions \in Nat
    /\ NoCell \notin Currencies \X (1..MaxDay)

VARIABLES
    today,     \* the UTC day
    led,       \* [Days -> 0..MaxRevisions]
    dirty,     \* account_performance_rebuild.dirty_from, 0 when there is no row
    val,       \* [Cells -> -1..MaxRevisions]: revisions a stored point saw, -1: no point
    prev,      \* [Cells -> Cells \cup {NoCell}]
    licensed,  \* points whose source_mix names the Tiingo provider
    source,    \* "on", "revoking" (its points removed, the provider still set) or "off"
    pc,        \* [Callers -> {"idle", "wait", "loaded", "bounded", "anchored", "priced", "reread"}]
    ask,       \* [Callers -> {"get", "again", "recalculate"}]: who called calculate
    cur,       \* [Callers -> Currencies]
    qfrom,     \* [Callers -> 0..MaxDay]: query.From, 0 when it is empty
    qto,       \* [Callers -> 0..MaxDay]: query.To, 0 when it is empty
    from, to,  \* [Callers -> 0..MaxDay]: the days to calculate
    clear,     \* [Callers -> {"keep", "clear"}]: clearDirty
    input,     \* [Callers -> [Days -> 0..MaxRevisions]]: the ledger as loaded
    anchor,    \* [Callers -> Cells \cup {NoCell}]
    prices,    \* [Callers -> {"yahoo", "tiingo"}]
    raced      \* days revised while a calculation was under way (auxiliary)

Days == 1..MaxDay
Cells == Currencies \X Days
Absent == -1

points == <<val, prev, licensed>>
calls == <<pc, ask, cur, qfrom, qto, from, to, clear, input, anchor, prices>>
vars == <<today, led, dirty, points, source, calls, raced>>

\* p holds the account's lock.
Holding(p) == pc[p] \in {"loaded", "bounded", "anchored", "priced"}

\* MIN(performance_date) of some days.
First(S) == CHOOSE d \in S : \A e \in S : d <= e

\* Mutant: a mark that is there stays (ON CONFLICT DO NOTHING).
FirstMark(d, e) == IF d = 0 THEN e ELSE d

\* The earlier of two marks, where 0 is none.
Earlier(d, e) == IF d = 0 \/ (e # 0 /\ e < d) THEN e ELSE d

-----------------------------------------------------------------------------
(***************************************************************************)
(* What changes under the series.                                          *)
(***************************************************************************)

\* A revision whose earliest date is d is committed, with its mark
\* (markPerformanceDirtyTx) in the same transaction.
CommitRevision(d) ==
    /\ d <= today /\ led[MaxDay] < MaxRevisions
    /\ led' = [e \in Days |-> IF e >= d THEN led[e] + 1 ELSE led[e]]
    /\ dirty' = Earlier(dirty, d)
    /\ raced' = IF \E p \in Callers : Holding(p) THEN raced \cup {d} ELSE raced
    /\ UNCHANGED <<today, points, source, calls>>

NextDay ==
    /\ today < MaxDay
    /\ today' = today + 1
    /\ UNCHANGED <<led, dirty, points, source, calls, raced>>

\* deleteTiingoConfiguration, first: InvalidatePerformanceSource removes the points from
\* the first that used the provider, in every currency, and marks the account.
InvalidatePerformanceSource ==
    /\ source = "on"
    /\ source' = "revoking"
    /\ LET used == {x[2] : x \in licensed}
           gone == IF used = {} THEN {} ELSE {x \in Cells : x[2] >= First(used)}
       IN  /\ val' = [x \in Cells |-> IF x \in gone THEN Absent ELSE val[x]]
           /\ prev' = [x \in Cells |-> IF x \in gone THEN NoCell ELSE prev[x]]
           /\ licensed' = licensed \ gone
           /\ dirty' = IF used = {} THEN dirty ELSE Earlier(dirty, First(used))
    /\ UNCHANGED <<today, led, calls, raced>>

\* Then onChanged takes the provider out of the market data service.
DeactivateSource ==
    /\ source = "revoking"
    /\ source' = "off"
    /\ UNCHANGED <<today, led, dirty, points, calls, raced>>

-----------------------------------------------------------------------------
(***************************************************************************)
(* Who calculates.                                                         *)
(***************************************************************************)

Ask(p, why, c, f, t) ==
    /\ ask' = [ask EXCEPT ![p] = why]
    /\ cur' = [cur EXCEPT ![p] = c]
    /\ qfrom' = [qfrom EXCEPT ![p] = f]
    /\ qto' = [qto EXCEPT ![p] = t]
    /\ pc' = [pc EXCEPT ![p] = "wait"]
    /\ UNCHANGED <<today, led, dirty, points, source, raced, from, to, clear, input, anchor, prices>>

\* calculate returns and its locals are gone.
Unlock(p) ==
    /\ input' = [input EXCEPT ![p] = [d \in Days |-> 0]]
    /\ from' = [from EXCEPT ![p] = 0]
    /\ to' = [to EXCEPT ![p] = 0]
    /\ clear' = [clear EXCEPT ![p] = "keep"]
    /\ anchor' = [anchor EXCEPT ![p] = NoCell]
    /\ prices' = [prices EXCEPT ![p] = "yahoo"]

\* The caller is done.
Leave(p) ==
    /\ pc' = [pc EXCEPT ![p] = "idle"]
    /\ ask' = [ask EXCEPT ![p] = "get"]
    /\ cur' = [cur EXCEPT ![p] = Home]
    /\ qfrom' = [qfrom EXCEPT ![p] = 0]
    /\ qto' = [qto EXCEPT ![p] = 0]
    /\ Unlock(p)

\* A range normalizeReadQuery or calculate accepts.
Valid(f, t) == t <= today /\ (f # 0 => f <= (IF t = 0 THEN today ELSE t))

\* LoadPerformanceSeries finds a point in the range.
Found(c, f, t) ==
    \E d \in Days : val[<<c, d>>] # Absent /\ d >= f /\ d <= t

\* Calculate (GET): normalizeReadQuery fixes the last day, today when none is given; a
\* marked account is recalculated before it is read; one that is not is calculated
\* only if it has no points.
Calculate(p) ==
    /\ pc[p] = "idle"
    /\ \E c \in Currencies, f \in 0..MaxDay, t \in Days :
         /\ Valid(f, t)
         /\ \/ dirty # 0 /\ Ask(p, "get", c, f, t)
            \/ dirty = 0 /\ ~Found(c, f, t) /\ Ask(p, "again", c, f, t)

\* After it, the points are read; without any, the range is calculated once more.
Reread(p) ==
    /\ pc[p] = "reread"
    /\ IF Found(cur[p], qfrom[p], qto[p])
       THEN Leave(p) /\ UNCHANGED <<today, led, dirty, points, source, raced>>
       ELSE Ask(p, "again", cur[p], qfrom[p], qto[p])

\* Recalculate: a POST, with any range and currency.
Recalculate(p) ==
    /\ pc[p] = "idle"
    /\ \E c \in Currencies, f \in 0..MaxDay, t \in 0..MaxDay :
         Valid(f, t) /\ Ask(p, "recalculate", c, f, t)

\* RefreshAccounts, called by the history worker from its job's first day, and
\* refreshAll at the start: the account's own currency, up to today.
RefreshAccounts(p) ==
    /\ pc[p] = "idle"
    /\ \E f \in 0..MaxDay : Valid(f, 0) /\ Ask(p, "recalculate", Home, f, 0)

\* refreshLoop at 01:15 UTC: the day that has ended.
DailyRefresh(p) ==
    /\ pc[p] = "idle" /\ today > 1
    /\ Ask(p, "recalculate", Home, today - 1, today - 1)

-----------------------------------------------------------------------------
(***************************************************************************)
(* calculate.                                                              *)
(***************************************************************************)

\* inputActivityRange: the first day with activity up to t, or t itself.
FirstDay(t) ==
    LET active == {d \in 1..t : led[d] > 0}
    IN  IF active = {} THEN t ELSE First(active)

\* Mutant: the account is not locked.
LoadUnlocked(p) ==
    /\ pc[p] = "wait"
    /\ LET t == IF qto[p] = 0 THEN today ELSE qto[p]
           f == IF qfrom[p] = 0 THEN FirstDay(t) ELSE qfrom[p]
       IN  /\ to' = [to EXCEPT ![p] = t]
           /\ from' = [from EXCEPT ![p] = f]
           /\ clear' = [clear EXCEPT ![p] = IF t < today THEN "keep" ELSE "clear"]
    /\ input' = [input EXCEPT ![p] = led]
    /\ pc' = [pc EXCEPT ![p] = "loaded"]
    /\ UNCHANGED <<today, led, dirty, points, source, raced, ask, cur, qfrom, qto, anchor, prices>>

\* lockAccount, then LoadPerformanceInput; only Calculate needs its range again.
LoadPerformanceInput(p) ==
    /\ pc[p] = "wait" /\ \A q \in Callers : ~Holding(q)
    /\ LET t == IF qto[p] = 0 THEN today ELSE qto[p]
           f == IF qfrom[p] = 0 THEN FirstDay(t) ELSE qfrom[p]
       IN  /\ to' = [to EXCEPT ![p] = t]
           /\ from' = [from EXCEPT ![p] = f]
           /\ clear' = [clear EXCEPT ![p] = IF t < today THEN "keep" ELSE "clear"]
    /\ input' = [input EXCEPT ![p] = led]
    /\ pc' = [pc EXCEPT ![p] = "loaded"]
    /\ qfrom' = [qfrom EXCEPT ![p] = IF ask[p] = "get" THEN @ ELSE 0]
    /\ qto' = [qto EXCEPT ![p] = IF ask[p] = "get" THEN @ ELSE 0]
    /\ UNCHANGED <<today, led, dirty, points, source, raced, ask, cur, anchor, prices>>

\* PerformanceDirtyFrom: the mark replaces the first day; in a read without marks at its
\* start ("again"), only if it is earlier.
PerformanceDirtyFrom(p) ==
    /\ pc[p] = "loaded"
    /\ from' = [from EXCEPT ![p] =
                  IF dirty # 0 /\ (ask[p] # "again" \/ dirty < @) THEN dirty ELSE @]
    /\ pc' = [pc EXCEPT ![p] = "bounded"]
    /\ UNCHANGED <<today, led, dirty, points, source, raced, ask, cur, qfrom, qto,
                   to, clear, input, anchor, prices>>

\* LoadPerformanceAnchor: the last stored point before the first day, in any currency.
LoadPerformanceAnchor(p) ==
    /\ pc[p] = "bounded"
    /\ LET before == {x \in Cells : val[x] # Absent /\ x[2] < from[p]}
           last   == {x \in before : \A y \in before : y[2] <= x[2]}
       IN  \E a \in (IF last = {} THEN {NoCell} ELSE last) : anchor' = [anchor EXCEPT ![p] = a]
    /\ pc' = [pc EXCEPT ![p] = "anchored"]
    /\ UNCHANGED <<today, led, dirty, points, source, raced, ask, cur, qfrom, qto,
                   from, to, clear, input, prices>>

\* DailyPrices and DailyFX: Tiingo while it is set, with Yahoo as the fallback.
DailyPrices(p) ==
    /\ pc[p] = "anchored"
    /\ \E s \in {"yahoo", "tiingo"} :
         /\ s = "tiingo" => source # "off"
         /\ prices' = [prices EXCEPT ![p] = s]
    /\ pc' = [pc EXCEPT ![p] = "priced"]
    /\ UNCHANGED <<today, led, dirty, points, source, raced, ask, cur, qfrom, qto,
                   from, to, clear, input, anchor>>

\* calculate has succeeded; Calculate goes on to read.
Return(p) ==
    IF ask[p] = "get"
    THEN pc' = [pc EXCEPT ![p] = "reread"] /\ Unlock(p) /\ UNCHANGED <<ask, cur, qfrom, qto>>
    ELSE Leave(p)

\* The points of this calculation: one a day, each starting from the one before.
Written(p) == {x \in Cells : x[1] = cur[p] /\ x[2] >= from[p] /\ x[2] <= to[p]}

\* ReplacePerformanceSeries: every point of the currency from the first day on is
\* deleted, the new ones are inserted, and the mark is deleted with them.
ReplacePerformanceSeries(p) ==
    /\ pc[p] = "priced"
    /\ LET gone == {x \in Cells : x[1] = cur[p] /\ x[2] >= from[p]}
       IN  /\ val' = [x \in Cells |-> IF x \in Written(p) THEN input[p][x[2]]
                                      ELSE IF x \in gone THEN Absent ELSE val[x]]
           /\ prev' = [x \in Cells |->
                         IF x \notin gone THEN prev[x]
                         ELSE IF x \notin Written(p) THEN NoCell
                         ELSE IF x[2] = from[p] THEN anchor[p] ELSE <<x[1], x[2] - 1>>]
           /\ licensed' = (licensed \ gone) \cup (IF prices[p] = "tiingo" THEN Written(p) ELSE {})
    /\ dirty' = IF clear[p] = "clear" THEN 0 ELSE dirty
    /\ raced' = IF input[p] = led /\ clear[p] = "clear" THEN {d \in raced : d < from[p]} ELSE raced
    /\ Return(p)
    /\ UNCHANGED <<today, led, source>>

\* A query fails or the request is cancelled: nothing is stored.
CalculateFails(p) ==
    /\ Holding(p)
    /\ Leave(p)
    /\ UNCHANGED <<today, led, dirty, points, source, raced>>

-----------------------------------------------------------------------------
Init ==
    /\ today = 1 /\ dirty = 0 /\ raced = {} /\ licensed = {} /\ source = "on"
    /\ led = [d \in Days |-> 0]
    /\ val = [x \in Cells |-> Absent]
    /\ prev = [x \in Cells |-> NoCell]
    /\ pc = [p \in Callers |-> "idle"]
    /\ ask = [p \in Callers |-> "get"]
    /\ cur = [p \in Callers |-> Home]
    /\ qfrom = [p \in Callers |-> 0] /\ qto = [p \in Callers |-> 0]
    /\ from = [p \in Callers |-> 0] /\ to = [p \in Callers |-> 0]
    /\ clear = [p \in Callers |-> "keep"]
    /\ input = [p \in Callers |-> [d \in Days |-> 0]]
    /\ anchor = [p \in Callers |-> NoCell]
    /\ prices = [p \in Callers |-> "yahoo"]

CalculateStep(p) ==
    \/ LoadPerformanceInput(p) \/ PerformanceDirtyFrom(p) \/ LoadPerformanceAnchor(p)
    \/ DailyPrices(p) \/ ReplacePerformanceSeries(p) \/ CalculateFails(p)

Next ==
    \/ \E d \in Days : CommitRevision(d)
    \/ NextDay \/ InvalidatePerformanceSource \/ DeactivateSource
    \/ \E p \in Callers :
         \/ Calculate(p) \/ Reread(p) \/ Recalculate(p) \/ RefreshAccounts(p) \/ DailyRefresh(p)
         \/ CalculateStep(p)

Spec == Init /\ [][Next]_vars

-----------------------------------------------------------------------------
TypeOK ==
    /\ today \in Days
    /\ led \in [Days -> 0..MaxRevisions]
    /\ dirty \in 0..MaxDay /\ raced \in SUBSET Days
    /\ val \in [Cells -> -1..MaxRevisions]
    /\ prev \in [Cells -> Cells \cup {NoCell}]
    /\ licensed \in SUBSET Cells /\ source \in {"on", "revoking", "off"}
    /\ pc \in [Callers -> {"idle", "wait", "loaded", "bounded", "anchored", "priced", "reread"}]
    /\ ask \in [Callers -> {"get", "again", "recalculate"}]
    /\ cur \in [Callers -> Currencies]
    /\ qfrom \in [Callers -> 0..MaxDay] /\ qto \in [Callers -> 0..MaxDay]
    /\ from \in [Callers -> 0..MaxDay] /\ to \in [Callers -> 0..MaxDay]
    /\ clear \in [Callers -> {"keep", "clear"}]
    /\ input \in [Callers -> [Days -> 0..MaxRevisions]]
    /\ anchor \in [Callers -> Cells \cup {NoCell}]
    /\ prices \in [Callers -> {"yahoo", "tiingo"}]

\* A stored point that the ledger has left behind.
Stale(x) == val[x] # Absent /\ val[x] # led[x[2]]

\* A stale point is covered by the account's mark.
Marked(x) == dirty # 0 /\ dirty <= x[2]

\* In the account's one currency, a mark is only ever lost through the window between
\* the load of the input and the replacement: a stale point without a mark has a
\* revision of its day or before that was committed while a calculation was under way.
OnlyRacesLoseMarks ==
    \A x \in Cells : x[1] = Home /\ Stale(x) => Marked(x) \/ \E d \in raced : d <= x[2]

\* A stored point is never replaced by one that saw less of the ledger: calculations
\* of an account are serialised from their load to their replacement.
NeverOlder ==
    [][\A x \in Cells : val[x] # Absent /\ val'[x] # Absent => val[x] <= val'[x]]_vars

=============================================================================
