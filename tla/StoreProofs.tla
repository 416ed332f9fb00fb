---------------------------- MODULE StoreProofs -----------------------------
(***************************************************************************)
(* Proofs about what the store keeps of an account: the daily performance  *)
(* series, the ledger of activities and its reconciliation.                *)
(*                                                                         *)
(* Of PerformanceSeries, for every set of callers and currencies and every *)
(* bound, IInv is inductive: the account's lock has one holder, what the   *)
(* holder loaded lies between what is stored and the ledger, and the       *)
(* ledger has no fewer revisions up to a later day.                        *)
(*                                                                         *)
(* Of ActivityLedger, for every set of records, whatever they say and in   *)
(* whatever order they arrive, LedgerInv is: what stands behind a revision *)
(* or an issue has given all its identities to the activity.               *)
(*                                                                         *)
(* Of Reconciliation, for every number of days: the loop over the sorted   *)
(* ranges is a recursive function, and what it computes is shown by the    *)
(* least index at which it would be wrong.                                 *)
(***************************************************************************)
EXTENDS PerformanceSeries, ActivityLedger, Reconciliation, WellFoundedInduction, FiniteSetTheorems, TLAPS

\* A later day has seen every revision an earlier day has seen.
LedgerGrows == \A d, e \in Days : d <= e => led[d] <= led[e]

\* lockAccount admits one calculation at a time.
OneHolder == \A p, q \in Callers : Holding(p) /\ Holding(q) => p = q

\* A calculation under way has its days.
HolderDays == \A p \in Callers : Holding(p) => from[p] \in Days /\ to[p] \in Days

\* No stored point has seen more than the ledger holds.
PointsSeen == \A x \in Cells : val[x] <= led[x[2]]

\* What a calculation loaded is no more than the ledger, and no less than any point.
InputBetween ==
    \A p \in Callers : Holding(p) =>
        /\ \A d \in Days : input[p][d] <= led[d]
        /\ \A x \in Cells : val[x] <= input[p][x[2]]

IInv == TypeOK /\ LedgerGrows /\ OneHolder /\ HolderDays /\ PointsSeen /\ InputBetween

-----------------------------------------------------------------------------
\* A set of natural numbers that is not empty has a least one.
LEMMA LeastNumber ==
    ASSUME NEW S \in SUBSET Nat, S # {}
    PROVE  \E n \in S : \A e \in S : n <= e
<1>1. \E d \in S : \A e \in S : ~(<<e, d>> \in OpToRel(<, Nat))
  BY WFMin, NatLessThanWellFounded, Zenon
<1>2. PICK d \in S : \A e \in S : ~(<<e, d>> \in OpToRel(<, Nat))
  BY <1>1
<1>3. ASSUME NEW e \in S PROVE d <= e
  <2>1. <<e, d>> \in Nat \X Nat /\ ~(<<e, d>>[1] < <<e, d>>[2])
    BY <1>2, Zenon DEF OpToRel
  <2> QED BY <2>1
<1> QED BY <1>3

\* First picks a least day of a set of days that is not empty.
LEMMA FirstDays ==
    ASSUME NEW S \in SUBSET Nat, S # {}
    PROVE  First(S) \in S /\ \A e \in S : First(S) <= e
<1>1. \E n \in S : \A e \in S : n <= e
  BY LeastNumber
<1> QED BY <1>1 DEF First

\* The first day of a calculation without one is a day.
LEMMA FirstDayIsDay == ASSUME TypeOK, NEW t \in Days PROVE FirstDay(t) \in Days
<1> DEFINE active == {d \in 1..t : led[d] > 0}
<1>1. CASE active = {}
  BY <1>1 DEF FirstDay
<1>2. CASE active # {}
  <2>1. First(active) \in active
    <3> HIDE DEF active
    <3>1. active \in SUBSET Nat
      BY DEF active
    <3> QED BY <1>2, <3>1, FirstDays
  <2>2. FirstDay(t) = First(active)
    BY <1>2 DEF FirstDay
  <2> QED BY <2>1, <2>2, PerformanceAssumption DEF Days
<1> QED BY <1>1, <1>2

\* What the removal of a source does: points disappear, the mark stays a day.
LEMMA InvalidateEffect ==
    ASSUME TypeOK, InvalidatePerformanceSource
    PROVE  /\ val' \in [Cells -> -1..MaxRevisions] /\ prev' \in [Cells -> Cells \cup {NoCell}]
           /\ licensed' \in SUBSET Cells
           /\ dirty' \in 0..MaxDay
           /\ \A x \in Cells : val'[x] = Absent \/ val'[x] = val[x]
<1> DEFINE used == {x[2] : x \in licensed}
           gone == IF used = {} THEN {} ELSE {x \in Cells : x[2] >= First(used)}
<1>1. used # {} => First(used) \in Days
  <2>1. used \in SUBSET Days
    BY DEF TypeOK, Cells
  <2>2. used \in SUBSET Nat
    BY <2>1 DEF Days
  <2> HIDE DEF used
  <2> QED BY <2>1, <2>2, FirstDays
<1>2. /\ val' = [x \in Cells |-> IF x \in gone THEN Absent ELSE val[x]]
      /\ prev' = [x \in Cells |-> IF x \in gone THEN NoCell ELSE prev[x]]
      /\ licensed' = licensed \ gone
      /\ dirty' = IF used = {} THEN dirty ELSE Earlier(dirty, First(used))
  BY DEF InvalidatePerformanceSource
<1> HIDE DEF used, gone
<1>3. dirty' \in 0..MaxDay
  BY <1>1, <1>2, PerformanceAssumption DEF Earlier, TypeOK, Days
<1>4. val' \in [Cells -> -1..MaxRevisions] /\ \A x \in Cells : val'[x] = Absent \/ val'[x] = val[x]
  BY <1>2, PerformanceAssumption DEF TypeOK, Absent
<1>5. prev' \in [Cells -> Cells \cup {NoCell}] /\ licensed' \in SUBSET Cells
  BY <1>2 DEF TypeOK
<1> QED BY <1>3, <1>4, <1>5

\* What a replacement does: a point of the calculation gets what was loaded, another
\* point stays or disappears.
LEMMA ReplaceEffect ==
    ASSUME TypeOK, HolderDays, NEW p \in Callers, ReplacePerformanceSeries(p)
    PROVE  /\ val' \in [Cells -> -1..MaxRevisions] /\ prev' \in [Cells -> Cells \cup {NoCell}]
           /\ licensed' \in SUBSET Cells
           /\ \A x \in Cells : \/ val'[x] = Absent
                               \/ val'[x] = val[x] /\ ~(x[1] = cur[p] /\ x[2] >= from[p])
                               \/ val'[x] = input[p][x[2]] /\ x \in Written(p)
<1> DEFINE gone == {x \in Cells : x[1] = cur[p] /\ x[2] >= from[p]}
<1>1. /\ val' = [x \in Cells |-> IF x \in Written(p) THEN input[p][x[2]]
                                 ELSE IF x \in gone THEN Absent ELSE val[x]]
      /\ prev' = [x \in Cells |->
                    IF x \notin gone THEN prev[x]
                    ELSE IF x \notin Written(p) THEN NoCell
                    ELSE IF x[2] = from[p] THEN anchor[p] ELSE <<x[1], x[2] - 1>>]
      /\ licensed' = (licensed \ gone) \cup (IF prices[p] = "tiingo" THEN Written(p) ELSE {})
  BY DEF ReplacePerformanceSeries
<1>2. \A x \in Cells : x[1] \in Currencies /\ x[2] \in Days /\ (x \in gone <=> x[1] = cur[p] /\ x[2] >= from[p])
  BY DEF Cells
<1>3. Written(p) \subseteq gone /\ gone \subseteq Cells
  BY DEF Written
<1>4. from[p] \in Days
  BY DEF HolderDays, Holding, ReplacePerformanceSeries
<1> HIDE DEF gone
<1>5. \A x \in Cells : input[p][x[2]] \in -1..MaxRevisions /\ val[x] \in -1..MaxRevisions
  BY <1>2, PerformanceAssumption DEF TypeOK
<1>6. Absent \in -1..MaxRevisions
  BY PerformanceAssumption DEF Absent
<1>7. val' \in [Cells -> -1..MaxRevisions]
  BY <1>1, <1>5, <1>6
<1>8. \A x \in Cells : \/ val'[x] = Absent
                       \/ val'[x] = val[x] /\ ~(x[1] = cur[p] /\ x[2] >= from[p])
                       \/ val'[x] = input[p][x[2]] /\ x \in Written(p)
  BY <1>1, <1>2, <1>3
<1>9. ASSUME NEW x \in Cells, x \in gone, x[2] # from[p] PROVE <<x[1], x[2] - 1>> \in Cells
  <2>1. x[1] \in Currencies /\ x[2] \in Days /\ x[2] > from[p]
    BY <1>2, <1>4, <1>9 DEF Days
  <2>2. x[2] - 1 \in Days
    BY <2>1, <1>4, PerformanceAssumption DEF Days
  <2> QED BY <2>1, <2>2 DEF Cells
<1>10. prev' \in [Cells -> Cells \cup {NoCell}]
  <2>1. anchor[p] \in Cells \cup {NoCell} /\ \A x \in Cells : prev[x] \in Cells \cup {NoCell}
    BY DEF TypeOK
  <2> DEFINE new(x) == IF x \notin gone THEN prev[x]
                       ELSE IF x \notin Written(p) THEN NoCell
                       ELSE IF x[2] = from[p] THEN anchor[p] ELSE <<x[1], x[2] - 1>>
  <2>2. \A x \in Cells : new(x) \in Cells \cup {NoCell}
    BY <1>3, <1>9, <2>1
  <2>3. prev' = [x \in Cells |-> new(x)]
    BY <1>1
  <2> HIDE DEF new
  <2> QED BY <2>2, <2>3
<1>11. licensed' \in SUBSET Cells
  BY <1>1, <1>3 DEF TypeOK
<1> QED BY <1>7, <1>8, <1>10, <1>11

\* The locals of a calculation that ends have their types, and the caller holds nothing.
LEMMA UnlockTyped ==
    ASSUME TypeOK, NEW p \in Callers, Unlock(p)
    PROVE  /\ input' \in [Callers -> [Days -> 0..MaxRevisions]]
           /\ from' \in [Callers -> 0..MaxDay] /\ to' \in [Callers -> 0..MaxDay]
           /\ clear' \in [Callers -> {"keep", "clear"}]
           /\ anchor' \in [Callers -> Cells \cup {NoCell}]
           /\ prices' \in [Callers -> {"yahoo", "tiingo"}]
BY PerformanceAssumption DEF TypeOK, Unlock

LEMMA LeaveTyped ==
    ASSUME TypeOK, NEW p \in Callers, Leave(p)
    PROVE  /\ pc' \in [Callers -> {"idle", "wait", "loaded", "bounded", "anchored", "priced", "reread"}]
           /\ ask' \in [Callers -> {"get", "again", "recalculate"}]
           /\ cur' \in [Callers -> Currencies]
           /\ qfrom' \in [Callers -> 0..MaxDay] /\ qto' \in [Callers -> 0..MaxDay]
           /\ input' \in [Callers -> [Days -> 0..MaxRevisions]]
           /\ from' \in [Callers -> 0..MaxDay] /\ to' \in [Callers -> 0..MaxDay]
           /\ clear' \in [Callers -> {"keep", "clear"}]
           /\ anchor' \in [Callers -> Cells \cup {NoCell}]
           /\ prices' \in [Callers -> {"yahoo", "tiingo"}]
<1>1. Unlock(p)
  BY DEF Leave
<1>2. 0 \in 0..MaxDay /\ Home \in Currencies
  BY PerformanceAssumption
<1> QED BY <1>1, <1>2, UnlockTyped DEF TypeOK, Leave

\* A call keeps the types when its arguments have theirs.
LEMMA AskTyped ==
    ASSUME TypeOK, NEW p \in Callers, NEW why \in {"get", "again", "recalculate"},
           NEW c \in Currencies, NEW f \in 0..MaxDay, NEW t \in 0..MaxDay, Ask(p, why, c, f, t)
    PROVE  TypeOK'
BY DEF TypeOK, Ask, points

\* The days of a calculation that begins.
LEMMA LoadDays ==
    ASSUME TypeOK, NEW p \in Callers, LoadPerformanceInput(p)
    PROVE  \E f \in Days, t \in Days : to' = [to EXCEPT ![p] = t] /\ from' = [from EXCEPT ![p] = f]
<1> DEFINE t == IF qto[p] = 0 THEN today ELSE qto[p]
           f == IF qfrom[p] = 0 THEN FirstDay(t) ELSE qfrom[p]
<1>1. t \in Days
  BY PerformanceAssumption DEF TypeOK, Days
<1>2. to' = [to EXCEPT ![p] = t] /\ from' = [from EXCEPT ![p] = f]
  BY DEF LoadPerformanceInput
<1>3. FirstDay(t) \in Days
  <2> HIDE DEF t
  <2> QED BY <1>1, FirstDayIsDay
<1>4. f \in Days
  <2>1. qfrom[p] # 0 => qfrom[p] \in Days
    BY PerformanceAssumption DEF TypeOK, Days
  <2> HIDE DEF t
  <2> QED BY <1>3, <2>1
<1> HIDE DEF t, f
<1> QED BY <1>1, <1>2, <1>4

\* Every step keeps every variable within its type; a replacement and a load need to
\* know their days, and a revision that the ledger grows.
LEMMA TypeStep == TypeOK /\ LedgerGrows /\ HolderDays /\ [Next]_vars => TypeOK'
<1> SUFFICES ASSUME TypeOK, LedgerGrows, HolderDays, [Next]_vars PROVE TypeOK'
  OBVIOUS
<1>1. ASSUME NEW d \in Days, CommitRevision(d) PROVE TypeOK'
  <2>1. \A e \in Days : led[e] \in 0..MaxRevisions /\ led[e] <= led[MaxDay]
    BY PerformanceAssumption DEF TypeOK, LedgerGrows, Days
  <2>2. led[MaxDay] \in 0..MaxRevisions /\ led[MaxDay] < MaxRevisions
    BY <1>1, PerformanceAssumption DEF TypeOK, CommitRevision, Days
  <2>3. led' \in [Days -> 0..MaxRevisions]
    BY <1>1, <2>1, <2>2, PerformanceAssumption DEF CommitRevision
  <2>4. dirty' \in 0..MaxDay
    BY <1>1, PerformanceAssumption DEF CommitRevision, Earlier, TypeOK, Days
  <2>5. raced' \in SUBSET Days
    BY <1>1 DEF CommitRevision, TypeOK
  <2> QED BY <1>1, <2>3, <2>4, <2>5 DEF CommitRevision, TypeOK, points, calls
<1>2. CASE NextDay
  <2>1. today' \in Days
    BY <1>2, PerformanceAssumption DEF NextDay, TypeOK, Days
  <2> QED BY <1>2, <2>1 DEF NextDay, TypeOK, points, calls
<1>3. CASE InvalidatePerformanceSource
  <2>1. source' \in {"on", "revoking", "off"} /\ UNCHANGED <<today, led, calls, raced>>
    BY <1>3 DEF InvalidatePerformanceSource
  <2> QED BY <1>3, <2>1, InvalidateEffect DEF TypeOK, calls
<1>4. CASE DeactivateSource
  BY <1>4 DEF DeactivateSource, TypeOK, points, calls
<1>5. ASSUME NEW p \in Callers, Calculate(p) PROVE TypeOK'
  <2>1. PICK c \in Currencies, f \in 0..MaxDay, t \in Days :
          Ask(p, "get", c, f, t) \/ Ask(p, "again", c, f, t)
    BY <1>5 DEF Calculate
  <2>2. t \in 0..MaxDay
    BY PerformanceAssumption DEF Days
  <2> QED BY <2>1, <2>2, AskTyped
<1>6. ASSUME NEW p \in Callers, Reread(p) PROVE TypeOK'
  <2>1. CASE Ask(p, "again", cur[p], qfrom[p], qto[p])
    <3>1. cur[p] \in Currencies /\ qfrom[p] \in 0..MaxDay /\ qto[p] \in 0..MaxDay
      BY DEF TypeOK
    <3> QED BY <2>1, <3>1, AskTyped
  <2>2. CASE Leave(p) /\ UNCHANGED <<today, led, dirty, points, source, raced>>
    BY <2>2, LeaveTyped DEF TypeOK, points
  <2> QED BY <1>6, <2>1, <2>2 DEF Reread
<1>7. ASSUME NEW p \in Callers, Recalculate(p) PROVE TypeOK'
  BY <1>7, AskTyped DEF Recalculate
<1>8. ASSUME NEW p \in Callers, RefreshAccounts(p) PROVE TypeOK'
  BY <1>8, AskTyped, PerformanceAssumption DEF RefreshAccounts
<1>9. ASSUME NEW p \in Callers, DailyRefresh(p) PROVE TypeOK'
  <2>1. today - 1 \in 0..MaxDay
    BY PerformanceAssumption DEF TypeOK, Days
  <2> QED BY <1>9, <2>1, AskTyped, PerformanceAssumption DEF DailyRefresh
<1>10. ASSUME NEW p \in Callers, LoadPerformanceInput(p) PROVE TypeOK'
  <2>0. Days \subseteq 0..MaxDay
    BY PerformanceAssumption DEF Days
  <2>1. PICK f \in 0..MaxDay, t \in 0..MaxDay :
          to' = [to EXCEPT ![p] = t] /\ from' = [from EXCEPT ![p] = f]
    BY <1>10, <2>0, LoadDays
  <2>2. /\ qfrom' \in [Callers -> 0..MaxDay] /\ qto' \in [Callers -> 0..MaxDay]
        /\ clear' \in [Callers -> {"keep", "clear"}]
    BY <1>10, PerformanceAssumption DEF LoadPerformanceInput, TypeOK
  <2>3. /\ input' \in [Callers -> [Days -> 0..MaxRevisions]]
        /\ pc' \in [Callers -> {"idle", "wait", "loaded", "bounded", "anchored", "priced", "reread"}]
    BY <1>10 DEF LoadPerformanceInput, TypeOK
  <2>4. from' \in [Callers -> 0..MaxDay] /\ to' \in [Callers -> 0..MaxDay]
    BY <2>1 DEF TypeOK
  <2> QED BY <1>10, <2>2, <2>3, <2>4 DEF LoadPerformanceInput, TypeOK, points
<1>11. ASSUME NEW p \in Callers, PerformanceDirtyFrom(p) PROVE TypeOK'
  BY <1>11 DEF PerformanceDirtyFrom, TypeOK, points
<1>12. ASSUME NEW p \in Callers, LoadPerformanceAnchor(p) PROVE TypeOK'
  <2>1. PICK a \in Cells \cup {NoCell} : anchor' = [anchor EXCEPT ![p] = a]
    BY <1>12 DEF LoadPerformanceAnchor
  <2> QED BY <1>12, <2>1 DEF LoadPerformanceAnchor, TypeOK, points
<1>13. ASSUME NEW p \in Callers, DailyPrices(p) PROVE TypeOK'
  BY <1>13 DEF DailyPrices, TypeOK, points
<1>14. ASSUME NEW p \in Callers, ReplacePerformanceSeries(p) PROVE TypeOK'
  <2>1. dirty' \in 0..MaxDay /\ raced' \in SUBSET Days /\ UNCHANGED <<today, led, source>>
    BY <1>14, PerformanceAssumption DEF ReplacePerformanceSeries, TypeOK
  <2>2. CASE Leave(p)
    BY <1>14, <2>1, <2>2, LeaveTyped, ReplaceEffect DEF TypeOK
  <2>3. CASE pc' = [pc EXCEPT ![p] = "reread"] /\ Unlock(p) /\ UNCHANGED <<ask, cur, qfrom, qto>>
    BY <1>14, <2>1, <2>3, UnlockTyped, ReplaceEffect DEF TypeOK
  <2> QED BY <1>14, <2>2, <2>3 DEF ReplacePerformanceSeries, Return
<1>15. ASSUME NEW p \in Callers, CalculateFails(p) PROVE TypeOK'
  BY <1>15, LeaveTyped DEF CalculateFails, TypeOK, points
<1>16. CASE UNCHANGED vars
  BY <1>16 DEF TypeOK, vars, points, calls
<1> QED BY <1>1, <1>2, <1>3, <1>4, <1>5, <1>6, <1>7, <1>8, <1>9, <1>10, <1>11, <1>12, <1>13, <1>14, <1>15, <1>16
     DEF Next, CalculateStep

-----------------------------------------------------------------------------
\* q holds the lock after a step only if it held it before, with the same locals; the
\* first day alone may move, to another day.
Kept(q) ==
    Holding(q)' =>
        /\ Holding(q) /\ to'[q] = to[q] /\ input'[q] = input[q]
        /\ from[q] \in Days => from'[q] \in Days

\* Only LoadPerformanceInput gives the lock to a caller that does not have it.
LEMMA LockStep ==
    ASSUME TypeOK, [Next]_vars
    PROVE  (\A q \in Callers : Kept(q)) \/ \E p \in Callers : LoadPerformanceInput(p)
<1>1. ASSUME NEW p \in Callers, Leave(p) PROVE \A q \in Callers : Kept(q)
  BY <1>1 DEF Leave, Unlock, Kept, Holding, TypeOK
<1>2. ASSUME NEW p \in Callers, pc' = [pc EXCEPT ![p] = "reread"], Unlock(p)
      PROVE  \A q \in Callers : Kept(q)
  BY <1>2 DEF Unlock, Kept, Holding, TypeOK
<1>3. ASSUME NEW p \in Callers, NEW why, NEW c, NEW f, NEW t, Ask(p, why, c, f, t)
      PROVE  \A q \in Callers : Kept(q)
  BY <1>3 DEF Ask, Kept, Holding, TypeOK
<1>4. CASE UNCHANGED calls
  BY <1>4 DEF calls, Kept, Holding
<1>5. ASSUME NEW p \in Callers,
             Calculate(p) \/ Reread(p) \/ Recalculate(p) \/ RefreshAccounts(p) \/ DailyRefresh(p)
      PROVE  \A q \in Callers : Kept(q)
  BY <1>1, <1>3, <1>5 DEF Calculate, Reread, Recalculate, RefreshAccounts, DailyRefresh
<1>6. ASSUME NEW p \in Callers, PerformanceDirtyFrom(p) PROVE \A q \in Callers : Kept(q)
  <2>1. dirty # 0 => dirty \in Days
    BY PerformanceAssumption DEF TypeOK, Days
  <2> QED BY <1>6, <2>1 DEF PerformanceDirtyFrom, Kept, Holding, TypeOK
<1>7. ASSUME NEW p \in Callers, LoadPerformanceAnchor(p) \/ DailyPrices(p)
      PROVE  \A q \in Callers : Kept(q)
  BY <1>7 DEF LoadPerformanceAnchor, DailyPrices, Kept, Holding, TypeOK
<1>8. ASSUME NEW p \in Callers, ReplacePerformanceSeries(p) \/ CalculateFails(p)
      PROVE  \A q \in Callers : Kept(q)
  BY <1>1, <1>2, <1>8 DEF ReplacePerformanceSeries, CalculateFails, Return
<1>9. ASSUME (\E d \in Days : CommitRevision(d)) \/ NextDay
             \/ InvalidatePerformanceSource \/ DeactivateSource \/ UNCHANGED vars
      PROVE  UNCHANGED calls
  BY <1>9 DEF CommitRevision, NextDay, InvalidatePerformanceSource, DeactivateSource, vars
<1> QED BY <1>4, <1>5, <1>6, <1>7, <1>8, <1>9 DEF Next, CalculateStep

\* The ledger, the points and the mark change only in these ways.
LEMMA DataStep ==
    ASSUME [Next]_vars
    PROVE  \/ UNCHANGED <<led, val, dirty, raced>>
           \/ \E d \in Days : CommitRevision(d)
           \/ InvalidatePerformanceSource
           \/ \E p \in Callers : ReplacePerformanceSeries(p)
BY DEF Next, CalculateStep, vars, points, NextDay, DeactivateSource, Calculate, Reread, Recalculate,
       RefreshAccounts, DailyRefresh, Ask, LoadPerformanceInput, PerformanceDirtyFrom,
       LoadPerformanceAnchor, DailyPrices, CalculateFails

\* The lock keeps one holder, and the holder has its days.
LEMMA HolderStep == TypeOK /\ OneHolder /\ HolderDays /\ [Next]_vars => OneHolder' /\ HolderDays'
<1> SUFFICES ASSUME TypeOK, OneHolder, HolderDays, [Next]_vars PROVE OneHolder' /\ HolderDays'
  OBVIOUS
<1>1. CASE \A q \in Callers : Kept(q)
  BY <1>1 DEF Kept, OneHolder, HolderDays
<1>2. ASSUME NEW p \in Callers, LoadPerformanceInput(p) PROVE OneHolder' /\ HolderDays'
  <2>1. \A q \in Callers : ~Holding(q) /\ (q # p => pc'[q] = pc[q])
    BY <1>2 DEF LoadPerformanceInput, TypeOK
  <2>2. \A q \in Callers : Holding(q)' => q = p
    BY <2>1 DEF Holding
  <2>3. from'[p] \in Days /\ to'[p] \in Days
    BY <1>2, LoadDays DEF TypeOK
  <2> QED BY <2>2, <2>3 DEF OneHolder, HolderDays
<1> QED BY <1>1, <1>2, LockStep

\* Revisions are counted into their day and every later one.
LEMMA LedgerStep == TypeOK /\ LedgerGrows /\ [Next]_vars => LedgerGrows'
<1> SUFFICES ASSUME TypeOK, LedgerGrows, [Next]_vars PROVE LedgerGrows'
  OBVIOUS
<1>1. ASSUME NEW d \in Days, CommitRevision(d) PROVE LedgerGrows'
  <2>1. \A e \in Days : led[e] \in Nat /\ led'[e] = IF e >= d THEN led[e] + 1 ELSE led[e]
    BY <1>1 DEF CommitRevision, TypeOK
  <2>2. \A e \in Days : e \in Nat
    BY DEF Days
  <2> QED BY <2>1, <2>2 DEF LedgerGrows
<1>2. CASE UNCHANGED led
  BY <1>2 DEF LedgerGrows
<1> QED BY <1>1, <1>2, DataStep DEF InvalidatePerformanceSource, ReplacePerformanceSeries

\* What is loaded stays between what is stored and the ledger.
LEMMA SeenStep ==
    IInv /\ [Next]_vars => PointsSeen' /\ InputBetween'
<1> SUFFICES ASSUME IInv, [Next]_vars PROVE PointsSeen' /\ InputBetween'
  OBVIOUS
<1>0. /\ \A x \in Cells : x[2] \in Days /\ val[x] \in -1..MaxRevisions
      /\ \A d \in Days : led[d] \in Nat /\ \A p \in Callers : input[p][d] \in Nat
      /\ Absent = -1
  BY DEF IInv, TypeOK, Cells, Absent
<1>1. ASSUME NEW p \in Callers, LoadPerformanceInput(p) PROVE PointsSeen' /\ InputBetween'
  <2>1. \A q \in Callers : Holding(q)' => q = p
    BY <1>1 DEF LoadPerformanceInput, Holding, IInv, TypeOK
  <2>2. input'[p] = led /\ UNCHANGED <<led, val>>
    BY <1>1 DEF LoadPerformanceInput, IInv, TypeOK, points
  <2> QED BY <1>0, <2>1, <2>2 DEF IInv, PointsSeen, InputBetween
<1>2. CASE (\A q \in Callers : Kept(q)) /\ UNCHANGED <<led, val>>
  BY <1>2 DEF Kept, IInv, PointsSeen, InputBetween
<1>3. ASSUME \A q \in Callers : Kept(q), NEW d \in Days, CommitRevision(d)
      PROVE  PointsSeen' /\ InputBetween'
  <2>1. \A e \in Days : led'[e] \in Nat /\ led[e] <= led'[e]
    BY <1>0, <1>3 DEF CommitRevision, IInv, TypeOK
  <2>2. UNCHANGED val
    BY <1>3 DEF CommitRevision, points
  <2>3. PointsSeen'
    BY <1>0, <2>1, <2>2 DEF IInv, PointsSeen
  <2>4. InputBetween'
    BY <1>0, <1>3, <2>1, <2>2 DEF Kept, IInv, InputBetween
  <2> QED BY <2>3, <2>4
<1>4. CASE (\A q \in Callers : Kept(q)) /\ InvalidatePerformanceSource
  <2>1. UNCHANGED led /\ \A x \in Cells : val'[x] = Absent \/ val'[x] = val[x]
    BY <1>4, InvalidateEffect DEF InvalidatePerformanceSource, IInv
  <2> QED BY <1>0, <1>4, <2>1 DEF Kept, IInv, PointsSeen, InputBetween
<1>5. ASSUME \A q \in Callers : Kept(q), NEW p \in Callers, ReplacePerformanceSeries(p)
      PROVE  PointsSeen' /\ InputBetween'
  <2>1. UNCHANGED led /\ \A x \in Cells : val'[x] \in {Absent, val[x], input[p][x[2]]}
    BY <1>5, ReplaceEffect DEF ReplacePerformanceSeries, IInv
  <2>2. Holding(p) /\ ~Holding(p)'
    BY <1>5 DEF ReplacePerformanceSeries, Return, Leave, Holding, IInv, TypeOK
  <2>3. PointsSeen'
    BY <1>0, <2>1, <2>2 DEF IInv, PointsSeen, InputBetween
  <2>4. \A q \in Callers : ~Holding(q)'
    BY <1>5, <2>2 DEF Kept, IInv, OneHolder
  <2> QED BY <2>3, <2>4 DEF InputBetween
<1> QED BY <1>1, <1>2, <1>3, <1>4, <1>5, LockStep, DataStep DEF IInv

\* The invariant holds in the initial states.
LEMMA InitInvariant == Init => IInv
<1> SUFFICES ASSUME Init PROVE IInv
  OBVIOUS
<1>1. TypeOK
  BY PerformanceAssumption DEF Init, TypeOK, Days, Absent
<1>2. \A p \in Callers : ~Holding(p)
  BY DEF Init, Holding
<1>3. LedgerGrows
  BY DEF Init, LedgerGrows
<1>4. PointsSeen
  BY DEF Init, PointsSeen, Cells, Absent
<1> QED BY <1>1, <1>2, <1>3, <1>4 DEF IInv, OneHolder, HolderDays, InputBetween

\* Every step keeps it.
LEMMA StepInvariant == IInv /\ [Next]_vars => IInv'
BY TypeStep, LedgerStep, HolderStep, SeenStep DEF IInv

\* The inductive invariant holds.
THEOREM Invariance == Spec => []IInv
BY InitInvariant, StepInvariant, PTL DEF Spec

\* The ledger, the stored series, the marks and every calculation keep their types.
THEOREM TypeCorrect == Spec => []TypeOK
<1>1. IInv => TypeOK
  BY DEF IInv
<1> QED BY <1>1, Invariance, PTL

\* Whatever calculates, and however often, no stored point is replaced by one that saw
\* less of the ledger.
THEOREM SeriesNeverOlder == Spec => NeverOlder
<1>1. IInv /\ [Next]_vars => [\A x \in Cells : val[x] # Absent /\ val'[x] # Absent => val[x] <= val'[x]]_vars
  <2> SUFFICES ASSUME IInv, [Next]_vars, NEW x \in Cells, val[x] # Absent, val'[x] # Absent
               PROVE  val[x] <= val'[x]
    OBVIOUS
  <2>0. val[x] \in Int
    BY DEF IInv, TypeOK
  <2>1. CASE UNCHANGED val
    BY <2>0, <2>1
  <2>2. CASE InvalidatePerformanceSource
    BY <2>0, <2>2, InvalidateEffect DEF IInv
  <2>3. ASSUME NEW p \in Callers, ReplacePerformanceSeries(p) PROVE val[x] <= val'[x]
    <3>1. val'[x] = val[x] \/ val'[x] = input[p][x[2]]
      BY <2>3, ReplaceEffect DEF IInv
    <3>2. Holding(p)
      BY <2>3 DEF ReplacePerformanceSeries, Holding
    <3> QED BY <2>0, <3>1, <3>2 DEF IInv, InputBetween
  <2> QED BY <2>1, <2>2, <2>3, DataStep DEF CommitRevision, points
<1> QED BY <1>1, Invariance, PTL DEF Spec, NeverOlder

-----------------------------------------------------------------------------
(***************************************************************************)
(* An account that is only asked for in its own currency loses a mark only *)
(* to a race.  RInv adds to IInv what a calculation under way may not      *)
(* repair: days revised since its load, and points before its first day.   *)
(***************************************************************************)

\* p has read the mark.
Bounded(p) == pc[p] \in {"bounded", "anchored", "priced"}

\* What a calculation has not seen was committed while it was under way.
MissedIsRaced ==
    \A p \in Callers : Holding(p) =>
        \A d \in Days : input[p][d] # led[d] => \E r \in raced : r <= d

\* Nor does it repair a stale point before its first day, unless a race made it stale.
BehindIsRaced ==
    \A p \in Callers : Bounded(p) =>
        \A x \in Cells : Stale(x) /\ x[2] < from[p] => \E r \in raced : r <= x[2]

RInv == IInv /\ MissedIsRaced /\ BehindIsRaced /\ OnlyRacesLoseMarks

\* q goes on with the first day it has.
BoundKept(q) == Bounded(q)' => Bounded(q) /\ from'[q] = from[q]

\* Only PerformanceDirtyFrom changes the first day of a calculation or reads the mark.
LEMMA BoundStep ==
    ASSUME TypeOK, [Next]_vars
    PROVE  (\A q \in Callers : BoundKept(q)) \/ \E p \in Callers : PerformanceDirtyFrom(p)
<1>1. ASSUME NEW p \in Callers, Leave(p) PROVE \A q \in Callers : BoundKept(q)
  BY <1>1 DEF Leave, Unlock, Bounded, BoundKept, TypeOK
<1>2. ASSUME NEW p \in Callers, pc' = [pc EXCEPT ![p] = "reread"], Unlock(p) PROVE \A q \in Callers : BoundKept(q)
  BY <1>2 DEF Unlock, Bounded, BoundKept, TypeOK
<1>3. ASSUME NEW p \in Callers, NEW why, NEW c, NEW f, NEW t, Ask(p, why, c, f, t) PROVE \A q \in Callers : BoundKept(q)
  BY <1>3 DEF Ask, Bounded, BoundKept, TypeOK
<1>4. CASE UNCHANGED calls
  BY <1>4 DEF calls, Bounded, BoundKept
<1>5. ASSUME NEW p \in Callers,
             Calculate(p) \/ Reread(p) \/ Recalculate(p) \/ RefreshAccounts(p) \/ DailyRefresh(p)
      PROVE  \A q \in Callers : BoundKept(q)
  BY <1>1, <1>3, <1>5 DEF Calculate, Reread, Recalculate, RefreshAccounts, DailyRefresh
<1>6. ASSUME NEW p \in Callers, LoadPerformanceInput(p) PROVE \A q \in Callers : BoundKept(q)
  <2>1. PICK f \in Days : from' = [from EXCEPT ![p] = f]
    BY <1>6, LoadDays
  <2> QED BY <1>6, <2>1 DEF LoadPerformanceInput, Bounded, BoundKept, TypeOK
<1>7. ASSUME NEW p \in Callers, LoadPerformanceAnchor(p) \/ DailyPrices(p) PROVE \A q \in Callers : BoundKept(q)
  BY <1>7 DEF LoadPerformanceAnchor, DailyPrices, Bounded, BoundKept, TypeOK
<1>8. ASSUME NEW p \in Callers, ReplacePerformanceSeries(p) \/ CalculateFails(p) PROVE \A q \in Callers : BoundKept(q)
  BY <1>1, <1>2, <1>8 DEF ReplacePerformanceSeries, CalculateFails, Return
<1>9. ASSUME (\E d \in Days : CommitRevision(d)) \/ NextDay
             \/ InvalidatePerformanceSource \/ DeactivateSource \/ UNCHANGED vars
      PROVE  UNCHANGED calls
  BY <1>9 DEF CommitRevision, NextDay, InvalidatePerformanceSource, DeactivateSource, vars
<1> QED BY <1>4, <1>5, <1>6, <1>7, <1>8, <1>9 DEF Next, CalculateStep

\* The cells of an account with one currency, and what is known of their numbers.
LEMMA CellFacts ==
    ASSUME TypeOK
    PROVE  /\ \A x \in Cells : x[2] \in Days /\ x[1] \in Currencies
           /\ \A d \in Days : d \in Nat /\ d # 0
           /\ raced \subseteq Days /\ dirty \in Nat
BY PerformanceAssumption DEF TypeOK, Cells, Days

\* A revision: its day is marked, and raced when a calculation is under way.
LEMMA CommitRaced ==
    ASSUME RInv, NEW d \in Days, CommitRevision(d)
    PROVE  MissedIsRaced' /\ BehindIsRaced' /\ OnlyRacesLoseMarks'
<1>0. TypeOK
  BY DEF RInv, IInv
<1>1. /\ UNCHANGED <<val, pc, from, input>> /\ raced \subseteq raced'
      /\ \A e \in Days : led'[e] = IF e >= d THEN led[e] + 1 ELSE led[e]
      /\ dirty' # 0 /\ dirty' <= d /\ (dirty # 0 => dirty' <= dirty)
      /\ (\E p \in Callers : Holding(p)) => d \in raced'
  BY <1>0, CellFacts DEF CommitRevision, Earlier, points, calls
<1>2. dirty' \in Nat
  BY <1>0, CellFacts DEF CommitRevision, Earlier
<1>3. MissedIsRaced'
  <2> SUFFICES ASSUME NEW p \in Callers, Holding(p), NEW e \in Days, input[p][e] # led'[e]
               PROVE  \E r \in raced' : r <= e
    BY <1>1 DEF MissedIsRaced, Holding
  <2>1. CASE e >= d
    BY <1>1, <2>1, <1>0, CellFacts
  <2>2. CASE ~(e >= d)
    BY <1>1, <2>2 DEF RInv, MissedIsRaced
  <2> QED BY <2>1, <2>2
<1>4. BehindIsRaced'
  <2> SUFFICES ASSUME NEW p \in Callers, Bounded(p), NEW x \in Cells, Stale(x)', x[2] < from[p]
               PROVE  \E r \in raced' : r <= x[2]
    BY <1>1 DEF BehindIsRaced, Bounded
  <2>0. x[2] \in Days
    BY <1>0, CellFacts
  <2>1. CASE x[2] >= d
    BY <1>1, <2>0, <2>1, <1>0, CellFacts DEF Bounded, Holding
  <2>2. CASE ~(x[2] >= d)
    <3>1. Stale(x)
      BY <1>1, <2>0, <2>2 DEF Stale, Absent
    <3> QED BY <1>1, <3>1 DEF RInv, BehindIsRaced
  <2> QED BY <2>1, <2>2
<1>5. OnlyRacesLoseMarks'
  <2> SUFFICES ASSUME NEW x \in Cells, x[1] = Home, Stale(x)'
               PROVE  Marked(x)' \/ \E r \in raced' : r <= x[2]
    BY DEF OnlyRacesLoseMarks
  <2>0. x[2] \in Days
    BY <1>0, CellFacts
  <2>1. CASE x[2] >= d
    BY <1>0, <1>1, <1>2, <2>0, <2>1, CellFacts DEF Marked
  <2>2. CASE ~(x[2] >= d)
    <3>1. Stale(x)
      BY <1>1, <2>0, <2>2 DEF Stale, Absent
    <3>2. Marked(x) \/ \E r \in raced : r <= x[2]
      BY <3>1 DEF RInv, OnlyRacesLoseMarks
    <3> QED BY <1>0, <1>1, <1>2, <2>0, <3>2, CellFacts DEF Marked
  <2> QED BY <2>1, <2>2
<1> QED BY <1>3, <1>4, <1>5

\* The removal of a source makes nothing stale and marks no later.
LEMMA InvalidateRaced ==
    ASSUME RInv, InvalidatePerformanceSource
    PROVE  MissedIsRaced' /\ BehindIsRaced' /\ OnlyRacesLoseMarks'
<1>0. TypeOK
  BY DEF RInv, IInv
<1>1. UNCHANGED <<led, pc, from, input, raced>>
  BY DEF InvalidatePerformanceSource, calls
<1>2. \A x \in Cells : Stale(x)' => Stale(x)
  BY <1>0, <1>1, InvalidateEffect DEF Stale
<1>3. dirty # 0 => dirty' # 0 /\ dirty' <= dirty
  <2> DEFINE used == {x[2] : x \in licensed}
  <2>1. dirty' = IF used = {} THEN dirty ELSE Earlier(dirty, First(used))
    BY DEF InvalidatePerformanceSource
  <2>2. used # {} => First(used) \in Days
    <3>1. used \in SUBSET Days
      BY <1>0 DEF TypeOK, Cells
    <3>2. used \in SUBSET Nat
      BY <3>1 DEF Days
    <3> HIDE DEF used
    <3> QED BY <3>1, <3>2, FirstDays
  <2> HIDE DEF used
  <2> QED BY <1>0, <2>1, <2>2, CellFacts DEF Earlier
<1>4. dirty \in Nat /\ dirty' \in Nat
  BY <1>0, InvalidateEffect, CellFacts
<1>5. MissedIsRaced'
  BY <1>1 DEF RInv, MissedIsRaced, Holding
<1>6. BehindIsRaced'
  BY <1>1, <1>2 DEF RInv, BehindIsRaced, Bounded
<1>7. OnlyRacesLoseMarks'
  <2> SUFFICES ASSUME NEW x \in Cells, x[1] = Home, Stale(x)'
               PROVE  Marked(x)' \/ \E r \in raced' : r <= x[2]
    BY DEF OnlyRacesLoseMarks
  <2>1. Marked(x) \/ \E r \in raced : r <= x[2]
    BY <1>2 DEF RInv, OnlyRacesLoseMarks
  <2>2. x[2] \in Nat
    BY <1>0, CellFacts
  <2> QED BY <1>1, <1>3, <1>4, <2>1, <2>2 DEF Marked
<1> QED BY <1>5, <1>6, <1>7

\* A replacement in the account's only currency repairs what is marked from its first
\* day on; what it does not repair was raced.
LEMMA ReplaceRaced ==
    ASSUME Currencies = {Home}, RInv, NEW p \in Callers, ReplacePerformanceSeries(p),
           \A q \in Callers : Kept(q)
    PROVE  MissedIsRaced' /\ BehindIsRaced' /\ OnlyRacesLoseMarks'
<1>0. TypeOK /\ HolderDays
  BY DEF RInv, IInv
<1>1. \A q \in Callers : ~Holding(q)'
  <2>1. Holding(p) /\ ~Holding(p)'
    BY <1>0 DEF ReplacePerformanceSeries, Return, Leave, Holding, TypeOK
  <2> QED BY <2>1 DEF Kept, RInv, IInv, OneHolder
<1>2. MissedIsRaced' /\ BehindIsRaced'
  BY <1>1 DEF MissedIsRaced, BehindIsRaced, Bounded, Holding
<1>3. OnlyRacesLoseMarks'
  <2> SUFFICES ASSUME NEW x \in Cells, Stale(x)'
               PROVE  Marked(x)' \/ \E r \in raced' : r <= x[2]
    BY DEF OnlyRacesLoseMarks
  <2>0. x[2] \in Days /\ x[1] = cur[p] /\ x[1] = Home /\ from[p] \in Days
    BY <1>0, CellFacts DEF TypeOK, HolderDays, ReplacePerformanceSeries, Holding
  <2>1. UNCHANGED led /\ val'[x] # Absent /\ val'[x] # led[x[2]]
    BY DEF ReplacePerformanceSeries, Stale
  <2>2. CASE val'[x] = val[x] /\ ~(x[1] = cur[p] /\ x[2] >= from[p])
    <3>1. Stale(x) /\ x[2] < from[p]
      BY <2>0, <2>1, <2>2, <1>0, CellFacts DEF Stale
    <3>2. PICK r \in raced : r <= x[2]
      BY <3>1 DEF RInv, BehindIsRaced, Bounded, ReplacePerformanceSeries
    <3>3. r < from[p]
      BY <1>0, <2>0, <3>1, <3>2, CellFacts
    <3>4. r \in raced'
      BY <3>3 DEF ReplacePerformanceSeries
    <3> QED BY <3>2, <3>4
  <2>3. CASE val'[x] = input[p][x[2]]
    <3>1. PICK r \in raced : r <= x[2]
      BY <2>0, <2>1, <2>3 DEF RInv, MissedIsRaced, Holding, ReplacePerformanceSeries
    <3>2. input[p] # led
      BY <2>1, <2>3
    <3>3. raced' = raced
      BY <3>2 DEF ReplacePerformanceSeries
    <3> QED BY <3>1, <3>3
  <2> QED BY <1>0, <2>1, <2>2, <2>3, ReplaceEffect
<1> QED BY <1>2, <1>3

\* Asked for in one currency only, an account loses a mark only to a revision that is
\* committed while a calculation is under way.
THEOREM MarksSurvive == ASSUME Currencies = {Home} PROVE Spec => []OnlyRacesLoseMarks
<1>1. Init => RInv
  <2> SUFFICES ASSUME Init PROVE RInv
    OBVIOUS
  <2>1. \A p \in Callers : ~Holding(p) /\ ~Bounded(p)
    BY DEF Init, Holding, Bounded
  <2>2. \A x \in Cells : ~Stale(x)
    BY DEF Init, Stale
  <2>3. IInv
    BY InitInvariant
  <2> QED BY <2>1, <2>2, <2>3 DEF RInv, MissedIsRaced, BehindIsRaced, OnlyRacesLoseMarks
<1>2. RInv /\ [Next]_vars => RInv'
  <2> SUFFICES ASSUME RInv, [Next]_vars PROVE RInv'
    OBVIOUS
  <2>0. TypeOK /\ IInv
    BY DEF RInv, IInv
  <2>1. IInv'
    BY <2>0, StepInvariant
  <2>2. ASSUME NEW p \in Callers, LoadPerformanceInput(p)
        PROVE  MissedIsRaced' /\ BehindIsRaced' /\ OnlyRacesLoseMarks'
    <3>1. UNCHANGED <<led, val, dirty, raced>> /\ input'[p] = led
      BY <2>0, <2>2 DEF LoadPerformanceInput, points, TypeOK
    <3>2. \A q \in Callers : (Holding(q)' => q = p) /\ ~Bounded(q)'
      BY <2>0, <2>2 DEF LoadPerformanceInput, Holding, Bounded, TypeOK
    <3> QED BY <3>1, <3>2 DEF RInv, MissedIsRaced, BehindIsRaced, OnlyRacesLoseMarks, Stale, Marked
  <2>3. CASE (\A q \in Callers : Kept(q)) /\ UNCHANGED <<led, val, dirty, raced>>
    <3>1. MissedIsRaced' /\ OnlyRacesLoseMarks'
      BY <2>3 DEF RInv, Kept, MissedIsRaced, OnlyRacesLoseMarks, Stale, Marked
    <3>2. BehindIsRaced'
      <4>1. CASE \A q \in Callers : BoundKept(q)
        BY <2>3, <4>1 DEF RInv, BoundKept, BehindIsRaced, Stale
      <4>2. ASSUME NEW p \in Callers, PerformanceDirtyFrom(p) PROVE BehindIsRaced'
        <5> SUFFICES ASSUME NEW q \in Callers, Bounded(q)', NEW x \in Cells, Stale(x)', x[2] < from'[q]
                     PROVE  \E r \in raced' : r <= x[2]
          BY DEF BehindIsRaced
        <5>0. Stale(x) /\ x[2] \in Days /\ x[1] = Home
          BY <2>0, <2>3, CellFacts DEF Stale
        <5>1. CASE q # p
          <6>1. Bounded(q) /\ from'[q] = from[q]
            BY <2>0, <4>2, <5>1 DEF PerformanceDirtyFrom, Bounded, TypeOK
          <6> QED BY <2>3, <5>0, <6>1 DEF RInv, BehindIsRaced
        <5>2. CASE q = p
          <6>1. dirty # 0 => from'[p] <= dirty
            BY <2>0, <4>2, CellFacts DEF PerformanceDirtyFrom, TypeOK
          <6>2. from'[p] \in Nat
            BY <2>0, <4>2, CellFacts DEF PerformanceDirtyFrom, TypeOK
          <6>3. ~Marked(x)
            BY <2>0, <5>0, <5>2, <6>1, <6>2, CellFacts DEF Marked
          <6> QED BY <2>3, <5>0, <6>3 DEF RInv, OnlyRacesLoseMarks
        <5> QED BY <5>1, <5>2
      <4> QED BY <2>0, <4>1, <4>2, BoundStep
    <3> QED BY <2>1, <3>1, <3>2 DEF RInv
  <2>4. CASE \A q \in Callers : Kept(q)
    BY <2>1, <2>3, <2>4, CommitRaced, InvalidateRaced, ReplaceRaced, DataStep DEF RInv
  <2> QED BY <2>0, <2>1, <2>2, <2>4, LockStep DEF RInv
<1>3. RInv => OnlyRacesLoseMarks
  BY DEF RInv
<1> QED BY <1>1, <1>2, <1>3, PTL DEF Spec

-----------------------------------------------------------------------------
(***************************************************************************)
(* The ledger of activities                                                *)
(***************************************************************************)
\* The shapes of revisions and issues.
IsRevision(x) ==
    /\ x = [no |-> x.no, kind |-> x.kind, date |-> x.date, legs |-> x.legs, cost |-> x.cost,
            mark |-> x.mark, priority |-> x.priority, time |-> x.time, rule |-> x.rule,
            principal |-> x.principal, others |-> x.others]
    /\ x.no \in Nat /\ x.date \in Int

IsIssue(i) ==
    /\ i = [f \in DOMAIN i |-> i[f]]
    /\ DOMAIN i = {"raw", "activity", "type", "mark", "seen", "proposed", "open"}
    /\ i.raw \in Raws /\ i.activity \in Raws /\ i.seen \in Nat

LedgerShape ==
    /\ rec \in Worlds /\ rule \in Nat
    /\ DOMAIN parsedBy = Raws /\ DOMAIN rawStatus = Raws
    /\ current = [a \in Raws |-> current[a]] /\ \A a \in Raws : IsRevision(current[a])
    /\ principals \in [Raws -> SUBSET Raws]
    /\ \A i \in issues : IsIssue(i)
    /\ generation \in [LedgerAccounts -> Nat] /\ listed.generation \in [LedgerAccounts -> Nat]
    /\ listed.cursor.date \in Int /\ listed.cursor.id \in Int

\* An identity belongs to one activity, and to one of its account.
OneOwner ==
    /\ \A e \in identities : e = <<e[1], e[2], e[3]>> /\ e[3] \in Raws /\ rec[e[3]].account = e[1]
    /\ \A e, f \in identities : e[1] = f[1] /\ e[2] = f[2] => e[3] = f[3]

\* All identities of a record belong to the activity.
Knows(r, a) == \A j \in IdentitiesOf(r) : <<rec[r].account, j, a>> \in identities

\* What stands behind a revision or an issue has given its identities to the activity.
Behind ==
    /\ \A a \in Raws : \A r \in principals[a] : Knows(r, a)
    /\ \A i \in issues : Knows(i.raw, i.activity)

\* A conflict was reported at a revision there was, which no reviewer had decided.
Conflicts ==
    \A i \in issues :
        /\ i.seen <= current[i.activity].no
        /\ i.type = "conflict" /\ current[i.activity].priority = manualReviewSourcePriority =>
            i.seen < current[i.activity].no

\* What a reviewer decided needs no review.
Decided ==
    \A a \in Raws : current[a].priority = manualReviewSourcePriority => current[a].mark \notin Review

\* The generations only grow, and a client that starts over has seen nothing.
Paging ==
    /\ \A x \in LedgerAccounts : listed.generation[x] <= generation[x]
    /\ listed.cursor = NoCursor => listed.shown = {}

\* Inductive.
LedgerInv ==
    /\ LedgerShape
    /\ OneOwner /\ Behind
    /\ Conflicts /\ Decided
    /\ ReviewListed
    /\ Paging /\ PagesAgree

-----------------------------------------------------------------------------
\* What a transaction leaves of the revisions, the issues and the pages.

\* Nothing to be paged has changed.
SamePages ==
    /\ listed' = listed /\ generation' = generation
    /\ \A a \in Raws : current'[a].no = current[a].no /\ current'[a].date = current[a].date

\* The generation of an account has grown.
Bumped ==
    /\ listed' = listed /\ generation' \in [LedgerAccounts -> Nat]
    /\ \A x \in LedgerAccounts : generation[x] <= generation'[x]
    /\ \E x \in LedgerAccounts : generation[x] < generation'[x]

\* The pages fit as before.
LEMMA SamePagesAgree ==
    ASSUME LedgerShape, Paging, PagesAgree, SamePages PROVE Paging' /\ PagesAgree'
<1>1. Activities' = Activities /\ \A a \in Activities : Position(a)' = Position(a)
  BY DEF SamePages, Activities, Position
<1>2. Below(listed.cursor)' = Below(listed.cursor)
  BY <1>1 DEF SamePages, Below, Under, NoCursor, NoRow
<1>3. {<<a, current'[a].no>> : a \in Activities \ Below(listed.cursor)}
        = {<<a, current[a].no>> : a \in Activities \ Below(listed.cursor)}
  BY DEF SamePages, Activities
<1> QED BY <1>1, <1>2, <1>3 DEF SamePages, Paging, PagesAgree, NoCursor, NoRow

\* A cursor of an older generation promises nothing.
LEMMA BumpedPagesAgree ==
    ASSUME LedgerShape, Paging, PagesAgree, Bumped PROVE Paging' /\ PagesAgree'
<1>1. PICK x \in LedgerAccounts : generation[x] < generation'[x]
  BY DEF Bumped
<1>2. listed.generation[x] < generation'[x]
  BY <1>1 DEF LedgerShape, Paging, Bumped
<1>3. listed'.generation # generation'
  BY <1>2 DEF Bumped, LedgerShape
<1>4. \A y \in LedgerAccounts : listed'.generation[y] <= generation'[y]
  BY DEF LedgerShape, Paging, Bumped
<1> QED BY <1>3, <1>4 DEF Paging, PagesAgree, Bumped, NoCursor, NoRow

\* Every transaction that revises bumps the generation of an account there is.
LEMMA BumpBumps ==
    ASSUME LedgerShape, NEW S, NEW r \in Raws, rec[r].account \in S, Bump(S), listed' = listed
    PROVE  Bumped
<1>1. rec[r].account \in LedgerAccounts
  BY LedgerAssumption DEF LedgerShape
<1> QED BY <1>1 DEF Bump, Bumped, LedgerShape

\* Closing an issue changes nothing else about it.
LEMMA Closed ==
    ASSUME NEW i, IsIssue(i)
    PROVE  LET c == [i EXCEPT !.open = FALSE] IN
           /\ IsIssue(c) /\ c.raw = i.raw /\ c.activity = i.activity /\ c.type = i.type
           /\ c.seen = i.seen
<1> DEFINE c == [i EXCEPT !.open = FALSE]
<1>1. /\ c = [f \in DOMAIN c |-> c[f]] /\ DOMAIN c = DOMAIN i
      /\ c.raw = i.raw /\ c.activity = i.activity /\ c.type = i.type /\ c.seen = i.seen
  BY DEF IsIssue
<1> HIDE DEF c
<1>2. IsIssue(c)
  BY <1>1 DEF IsIssue
<1> QED BY <1>1, <1>2 DEF c

\* Every issue of the closed ones was one before.
LEMMA CloseKeeps ==
    ASSUME LedgerShape, NEW closing, NEW c \in Close(closing)
    PROVE  /\ IsIssue(c)
           /\ \E i \in issues : c.raw = i.raw /\ c.activity = i.activity /\ c.type = i.type /\ c.seen = i.seen
<1>1. PICK i \in issues : c = IF i \in closing THEN [i EXCEPT !.open = FALSE] ELSE i
  BY DEF Close
<1>2. IsIssue(i)
  BY DEF LedgerShape
<1> QED BY <1>1, <1>2, Closed

\* What is not closed stays.
LEMMA CloseSpares ==
    ASSUME NEW closing, NEW i \in issues, i \notin closing PROVE i \in Close(closing)
BY DEF Close

\* A corroborating record changes only the others.
LEMMA OthersOnly ==
    ASSUME NEW x, IsRevision(x), NEW o
    PROVE  LET y == [x EXCEPT !.others = o] IN
           /\ IsRevision(y) /\ y.no = x.no /\ y.date = x.date /\ y.mark = x.mark
           /\ y.priority = x.priority /\ y.principal = x.principal
BY DEF IsRevision

-----------------------------------------------------------------------------
\* The activity a record is normalised into.
Owner(r) == IF Matched(r) = {} THEN r ELSE CHOOSE x \in Matched(r) : TRUE

Added(r, a) ==
    {<<rec[r].account, i, a>> : i \in {j \in IdentitiesOf(r) :
        ~\E e \in identities : e[1] = rec[r].account /\ e[2] = j}}

\* It is an activity of the record's account, and the only one that has an identity of it.
LEMMA OwnerFound ==
    ASSUME LedgerShape, OneOwner, NEW r \in Raws, Cardinality(Matched(r)) <= 1
    PROVE  Owner(r) \in Raws /\ rec[Owner(r)].account = rec[r].account /\ Matched(r) \subseteq {Owner(r)}
<1>1. Matched(r) \subseteq Raws /\ \A x \in Matched(r) : rec[x].account = rec[r].account
  BY DEF Matched, OneOwner
<1>2. CASE Matched(r) = {}
  BY <1>2 DEF Owner
<1>3. CASE Matched(r) # {}
  <2>1. IsFiniteSet(Matched(r))
    BY <1>1, LedgerAssumption, FS_Subset
  <2>2. Cardinality(Matched(r)) # 0 /\ Cardinality(Matched(r)) \in Nat
    BY <1>3, <2>1, FS_EmptySet, FS_CardinalityType
  <2>3. Cardinality(Matched(r)) = 1
    BY <2>2
  <2>4. PICK x : Matched(r) = {x}
    BY <2>1, <2>3, FS_Singleton
  <2>5. Owner(r) = x
    BY <2>4 DEF Owner
  <2> QED BY <1>1, <2>4, <2>5
<1> QED BY <1>2, <1>3

\* The record gives it all its identities, and no identity changes hands.
LEMMA OwnerKnows ==
    ASSUME LedgerShape, OneOwner, NEW r \in Raws, Cardinality(Matched(r)) <= 1,
           NEW a, a = Owner(r), rec' = rec, identities' = identities \cup Added(r, a)
    PROVE  OneOwner' /\ Knows(r, a)' /\ identities \subseteq identities'
<1>0. a \in Raws /\ rec[a].account = rec[r].account /\ Matched(r) \subseteq {a}
  BY OwnerFound
<1>1. \A e \in Added(r, a) :
        /\ e = <<e[1], e[2], e[3]>> /\ e[1] = rec[r].account /\ e[3] = a /\ e[2] \in IdentitiesOf(r)
        /\ \A f \in identities : ~(f[1] = e[1] /\ f[2] = e[2])
  BY DEF Added
<1>2. identities' = identities \cup Added(r, a)
  OBVIOUS
<1>3. \A e \in identities' : e = <<e[1], e[2], e[3]>> /\ e[3] \in Raws /\ rec[e[3]].account = e[1]
  BY <1>0, <1>1, <1>2 DEF OneOwner
<1>4. ASSUME NEW e \in identities', NEW f \in identities', e[1] = f[1], e[2] = f[2] PROVE e[3] = f[3]
  BY <1>1, <1>2, <1>4 DEF OneOwner
<1>5. ASSUME NEW j \in IdentitiesOf(r) PROVE <<rec[r].account, j, a>> \in identities'
  <2>1. CASE \E e \in identities : e[1] = rec[r].account /\ e[2] = j
    <3>1. PICK e \in identities : e[1] = rec[r].account /\ e[2] = j
      BY <2>1
    <3>2. e[3] \in Matched(r) /\ e = <<e[1], e[2], e[3]>>
      BY <3>1 DEF Matched, OneOwner
    <3> QED BY <1>0, <1>2, <3>1, <3>2
  <2>2. CASE ~\E e \in identities : e[1] = rec[r].account /\ e[2] = j
    BY <1>2, <2>2 DEF Added
  <2> QED BY <2>1, <2>2
<1>6. IdentitiesOf(r)' = IdentitiesOf(r)
  BY DEF IdentitiesOf
<1>7. OneOwner'
  BY <1>3, <1>4 DEF OneOwner
<1>8. Knows(r, a)'
  BY <1>5, <1>6 DEF Knows
<1> QED BY <1>2, <1>7, <1>8

\* What an activity knows it never forgets.
LEMMA KnowsOn ==
    ASSUME NEW r, NEW a, Knows(r, a), rec' = rec, identities \subseteq identities' PROVE Knows(r, a)'
BY DEF Knows, IdentitiesOf

\* Who knows a record is the activity it is normalised into.
LEMMA KnownOwner ==
    ASSUME LedgerShape, OneOwner, NEW r \in Raws, NEW b, Knows(r, b), Cardinality(Matched(r)) <= 1
    PROVE  b = Owner(r)
<1> DEFINE j == <<rec[r].source, rec[r].key>>
<1>1. j \in IdentitiesOf(r)
  BY DEF IdentitiesOf
<1> HIDE DEF j
<1>2. <<rec[r].account, j, b>> \in identities
  BY <1>1 DEF Knows
<1>3. b \in Matched(r)
  <2> DEFINE e == <<rec[r].account, j, b>>
  <2>1. e[1] = rec[r].account /\ e[2] = j /\ e[3] = b
    OBVIOUS
  <2> HIDE DEF e
  <2>2. e \in identities
    BY <1>2 DEF e
  <2> QED BY <1>1, <2>1, <2>2 DEF Matched
<1> QED BY <1>3, OwnerFound

-----------------------------------------------------------------------------
\* A new revision is the next one, and what it was made from.
LEMMA NewRevisionIs ==
    ASSUME NEW a, IsRevision(current[a]), NEW effects, effects.date \in Int,
           NEW priority, NEW time, NEW by, NEW principal
    PROVE  LET y == NewRevision(a, effects, priority, time, by, principal) IN
           /\ IsRevision(y) /\ y.no = current[a].no + 1
           /\ y.mark = effects.mark /\ y.priority = priority /\ y.principal = principal
BY DEF IsRevision, NewRevision

\* The dates of records are days.
LEMMA ParsedDate == ASSUME LedgerShape, NEW r \in Raws PROVE Parsed(r).date \in Int
BY LedgerAssumption DEF LedgerShape, Parsed

LEMMA BookedDate == ASSUME LedgerShape, NEW r \in Raws, NEW a PROVE Booked(r, a).date \in Int
<1>1. Booked(r, a).date = Parsed(r).date
  BY DEF Booked, Parsed
<1> QED BY <1>1, ParsedDate

\* The revision b is the same but for the records that corroborate it.
SameRevision(b) ==
    /\ IsRevision(current'[b])
    /\ current'[b].no = current[b].no /\ current'[b].date = current[b].date
    /\ current'[b].mark = current[b].mark /\ current'[b].priority = current[b].priority
    /\ current'[b].principal = current[b].principal

\* Either the record replaces the activity's revision, or it corroborates it.
Replaced(r, a) ==
    /\ Replaces(r, a)
    /\ IsRevision(current'[a]) /\ current'[a].no = current[a].no + 1
    /\ current'[a].mark = Booked(r, a).mark /\ current'[a].priority = Priority(r)
    /\ current'[a].principal = r
    /\ principals' = [principals EXCEPT ![a] = @ \cup {r}]
    /\ Bump({rec[r].account})

Corroborated(r, a) ==
    /\ ~Replaces(r, a)
    /\ SameRevision(a)
    /\ UNCHANGED <<principals, generation>>

\* What Normalize does, the owner of the record given.
LEMMA NormalizeDoes ==
    ASSUME LedgerShape, OneOwner, NEW r \in Raws, Normalize(r), NEW a \in Raws, a = Owner(r)
    PROVE  /\ Cardinality(Matched(r)) <= 1 /\ identities' = identities \cup Added(r, a)
           /\ UNCHANGED <<rec, rule, parsedBy, duplicateOf, transfers, listed>>
           /\ DOMAIN rawStatus' = Raws
           /\ current' = [b \in Raws |-> current'[b]]
           /\ \A b \in Raws \ {a} : SameRevision(b)
           /\ Replaced(r, a) \/ Corroborated(r, a)
<1>1. /\ Cardinality(Matched(r)) <= 1 /\ identities' = identities \cup Added(r, a)
      /\ UNCHANGED <<rec, rule, parsedBy, duplicateOf, transfers, listed>>
  BY DEF Normalize, Owner, Added
<1>2. DOMAIN rawStatus' = Raws
  BY DEF Normalize, LedgerShape
<1>3. CASE Replaces(r, a)
  <2> DEFINE y == NewRevision(a, Booked(r, a), Priority(r), rec[r].time, rule, r)
  <2>1. /\ current' = [current EXCEPT ![a] = y]
        /\ principals' = [principals EXCEPT ![a] = @ \cup {r}]
        /\ Bump({rec[r].account})
    BY <1>3 DEF Normalize, Owner
  <2>2. /\ IsRevision(y) /\ y.no = current[a].no + 1 /\ y.mark = Booked(r, a).mark
        /\ y.priority = Priority(r) /\ y.principal = r
    <3>1. Booked(r, a).date \in Int
      BY BookedDate
    <3>2. IsRevision(current[a])
      BY DEF LedgerShape
    <3> QED BY <3>1, <3>2, NewRevisionIs
  <2> HIDE DEF y
  <2>3. current'[a] = y /\ \A b \in Raws \ {a} : current'[b] = current[b]
    BY <2>1 DEF LedgerShape
  <2>4. current' = [b \in Raws |-> current'[b]]
    BY <2>1 DEF LedgerShape
  <2> QED BY <1>1, <1>2, <1>3, <2>1, <2>2, <2>3, <2>4 DEF Replaced, SameRevision, LedgerShape
<1>4. CASE ~Replaces(r, a)
  <2> DEFINE y == [current[a] EXCEPT !.others = @ \cup ({r} \ {current[a].principal})]
  <2>1. current' = [current EXCEPT ![a] = y] /\ UNCHANGED <<principals, generation>>
    BY <1>4 DEF Normalize, Owner
  <2>2. /\ IsRevision(y) /\ y.no = current[a].no /\ y.date = current[a].date /\ y.mark = current[a].mark
        /\ y.priority = current[a].priority /\ y.principal = current[a].principal
    BY OthersOnly DEF LedgerShape
  <2> HIDE DEF y
  <2>3. current'[a] = y /\ \A b \in Raws \ {a} : current'[b] = current[b]
    BY <2>1 DEF LedgerShape
  <2>4. current' = [b \in Raws |-> current'[b]]
    BY <2>1 DEF LedgerShape
  <2> QED BY <1>1, <1>2, <1>4, <2>1, <2>2, <2>3, <2>4 DEF Corroborated, SameRevision, LedgerShape
<1> QED BY <1>3, <1>4

\* The issues that Normalize leaves.
LEMMA NormalizeReports ==
    ASSUME LedgerShape, NEW r \in Raws, Normalize(r), NEW a \in Raws, a = Owner(r)
    PROVE  /\ \A c \in issues' :
                \/ \E i \in issues : IsIssue(c) /\ c.raw = i.raw /\ c.activity = i.activity
                                     /\ c.type = i.type /\ c.seen = i.seen
                \/ /\ IsIssue(c) /\ c.raw = r /\ c.activity = a /\ c.seen = current[a].no
                   /\ c.type = "conflict" => UnorderedConflict(r, a)
           /\ \A i \in issues : i \in issues' \/ (i.raw = r /\ Replaces(r, a))
           /\ Replaces(r, a) /\ Booked(r, a).mark \in Review =>
                \E c \in issues' : c.raw = r /\ c.activity = a /\ c.open
<1> DEFINE superseded == {i \in issues : RuleUpgrade(r, current[a]) /\ Replaces(r, a) /\ i.raw = r /\ i.open}
           verdicts == IF UnorderedConflict(r, a) THEN {Issue(r, a, "conflict", Booked(r, a).mark)} ELSE {}
           reviews == IF Replaces(r, a) /\ Booked(r, a).mark \in Review \cup {"unsupported"}
                      THEN {Issue(r, a, "review", Booked(r, a).mark)} ELSE {}
<1>1. issues' = Close(superseded) \cup verdicts \cup reviews
  BY DEF Normalize, Owner, ReviewIssue
<1>2. \A c \in Close(superseded) : IsIssue(c) /\ \E i \in issues :
        c.raw = i.raw /\ c.activity = i.activity /\ c.type = i.type /\ c.seen = i.seen
  BY CloseKeeps
<1>3. \A type, mark : LET c == Issue(r, a, type, mark) IN
        /\ IsIssue(c) /\ c.raw = r /\ c.activity = a /\ c.seen = current[a].no /\ c.type = type
        /\ c.open
  BY DEF Issue, IsIssue, LedgerShape, IsRevision
<1>4. \A i \in issues : i \in Close(superseded) \/ i \in superseded
  BY CloseSpares
<1>5. \A c \in verdicts : /\ IsIssue(c) /\ c.raw = r /\ c.activity = a /\ c.seen = current[a].no
                          /\ UnorderedConflict(r, a)
  BY <1>3
<1>6. \A c \in reviews : /\ IsIssue(c) /\ c.raw = r /\ c.activity = a /\ c.seen = current[a].no
                         /\ c.type = "review"
  BY <1>3
<1>7. ASSUME Replaces(r, a), Booked(r, a).mark \in Review
      PROVE  \E c \in issues' : c.raw = r /\ c.activity = a /\ c.open
  <2>1. Issue(r, a, "review", Booked(r, a).mark) \in issues'
    BY <1>1, <1>7
  <2> QED BY <2>1, <1>3
<1>8. \A c \in issues' : c \in Close(superseded) \/ c \in verdicts \/ c \in reviews
  BY <1>1
<1>9. \A i \in superseded : i.raw = r /\ Replaces(r, a)
  OBVIOUS
<1>10. Close(superseded) \subseteq issues'
  BY <1>1
<1> HIDE DEF superseded, verdicts, reviews
<1> QED BY <1>2, <1>4, <1>5, <1>6, <1>7, <1>8, <1>9, <1>10

-----------------------------------------------------------------------------
\* An accepted or manual revision has more weight than any record, by its priority.
LEMMA RecordsWeigh == ASSUME NEW r PROVE Priority(r) \in {10, 30}
BY DEF Priority

\* A record neither replaces a reviewer's revision nor is reported as a conflict with it.
LEMMA ManualStands ==
    ASSUME NEW r, NEW a, current[a].no > 0, current[a].priority = manualReviewSourcePriority
    PROVE  ~Replaces(r, a) /\ ~UnorderedConflict(r, a)
BY RecordsWeigh DEF Replaces, UnorderedConflict, RuleUpgrade, CostOnly, manualReviewSourcePriority,
                    acceptedRevisionSourcePriority

\* Normalize keeps the invariant.
LEMMA NormalizeKeeps == ASSUME LedgerInv, NEW r \in Raws, Normalize(r) PROVE LedgerInv'
<1> USE DEF LedgerInv
<1>1. Cardinality(Matched(r)) <= 1
  BY DEF Normalize
<1>2. PICK a \in Raws : a = Owner(r)
  BY <1>1, OwnerFound
<1>3. /\ identities' = identities \cup Added(r, a)
      /\ UNCHANGED <<rec, rule, parsedBy, duplicateOf, transfers, listed>>
      /\ DOMAIN rawStatus' = Raws
      /\ current' = [b \in Raws |-> current'[b]]
      /\ \A b \in Raws \ {a} : SameRevision(b)
      /\ Replaced(r, a) \/ Corroborated(r, a)
  BY <1>2, NormalizeDoes
<1>4. /\ \A c \in issues' :
          \/ \E i \in issues : IsIssue(c) /\ c.raw = i.raw /\ c.activity = i.activity
                               /\ c.type = i.type /\ c.seen = i.seen
          \/ /\ IsIssue(c) /\ c.raw = r /\ c.activity = a /\ c.seen = current[a].no
             /\ c.type = "conflict" => UnorderedConflict(r, a)
      /\ \A i \in issues : i \in issues' \/ (i.raw = r /\ Replaces(r, a))
      /\ Replaces(r, a) /\ Booked(r, a).mark \in Review =>
           \E c \in issues' : c.raw = r /\ c.activity = a /\ c.open
  BY <1>2, NormalizeReports
<1>5. OneOwner' /\ Knows(r, a)' /\ identities \subseteq identities'
  BY <1>1, <1>2, <1>3, OwnerKnows
<1>6. /\ principals' \in [Raws -> SUBSET Raws]
      /\ \A b \in Raws : principals'[b] \subseteq principals[b] \cup (IF b = a THEN {r} ELSE {})
  BY <1>3 DEF LedgerShape, Replaced, Corroborated
<1>7. Bump({rec[r].account}) \/ generation' = generation
  BY <1>3 DEF Replaced, Corroborated
<1>8. generation' \in [LedgerAccounts -> Nat]
  BY <1>7 DEF Bump, LedgerShape
<1>9. \A b \in Raws : IsRevision(current'[b])
  BY <1>3 DEF SameRevision, Replaced, Corroborated
<1>10. LedgerShape'
  BY <1>3, <1>4, <1>6, <1>8, <1>9 DEF LedgerShape
<1>11. Behind'
  <2>1. ASSUME NEW b \in Raws, NEW s \in principals'[b] PROVE Knows(s, b)'
    <3>1. CASE s \in principals[b]
      BY <1>3, <1>5, <3>1, KnowsOn DEF Behind
    <3>2. CASE s = r /\ b = a
      BY <1>5, <3>2
    <3> QED BY <1>6, <3>1, <3>2
  <2>2. ASSUME NEW c \in issues' PROVE Knows(c.raw, c.activity)'
    <3>1. CASE \E i \in issues : c.raw = i.raw /\ c.activity = i.activity
      <4>1. PICK i \in issues : c.raw = i.raw /\ c.activity = i.activity
        BY <3>1
      <4>2. Knows(i.raw, i.activity)'
        BY <1>3, <1>5, KnowsOn DEF Behind
      <4> QED BY <4>1, <4>2 DEF Knows
    <3>2. CASE c.raw = r /\ c.activity = a
      BY <1>5, <3>2 DEF Knows
    <3> QED BY <1>4, <3>1, <3>2
  <2> QED BY <2>1, <2>2 DEF Behind
<1>12. \A b \in Raws : /\ current[b].no <= current'[b].no
                       /\ current'[b].priority = manualReviewSourcePriority =>
                            /\ current'[b].no = current[b].no /\ current'[b].mark = current[b].mark
                            /\ current[b].priority = manualReviewSourcePriority
  BY <1>3, RecordsWeigh DEF SameRevision, Replaced, Corroborated, manualReviewSourcePriority,
                             LedgerShape, IsRevision
<1>13. Conflicts'
  <2> SUFFICES ASSUME NEW c \in issues'
               PROVE  /\ c.seen <= current'[c.activity].no
                      /\ c.type = "conflict" /\ current'[c.activity].priority = manualReviewSourcePriority =>
                           c.seen < current'[c.activity].no
    BY DEF Conflicts
  <2>1. CASE \E i \in issues : c.activity = i.activity /\ c.type = i.type /\ c.seen = i.seen
    <3>1. PICK i \in issues : c.activity = i.activity /\ c.type = i.type /\ c.seen = i.seen
      BY <2>1
    <3>2. i.activity \in Raws /\ i.seen \in Nat /\ current[i.activity].no \in Nat
      BY DEF LedgerShape, IsIssue, IsRevision
    <3>3. current'[i.activity].no \in Nat
      BY <1>9, <3>2 DEF IsRevision
    <3> QED BY <1>12, <3>1, <3>2, <3>3 DEF Conflicts
  <2>2. CASE c.activity = a /\ c.seen = current[a].no /\ (c.type = "conflict" => UnorderedConflict(r, a))
    <3>1. current[a].no \in Nat /\ current'[a].no \in Nat
      BY <1>9 DEF LedgerShape, IsRevision
    <3>2. ASSUME c.type = "conflict", current'[a].priority = manualReviewSourcePriority PROVE FALSE
      <4>1. UnorderedConflict(r, a) /\ current[a].priority = manualReviewSourcePriority
        BY <1>12, <2>2, <3>2
      <4>2. current[a].no > 0
        BY <4>1 DEF UnorderedConflict
      <4> QED BY <4>1, <4>2, ManualStands
    <3> QED BY <1>12, <2>2, <3>1, <3>2
  <2> QED BY <1>4, <2>1, <2>2
<1>14. Decided'
  BY <1>12 DEF Decided
<1>15. ReviewListed'
  <2> SUFFICES ASSUME NEW b \in Activities', current'[b].mark \in Review, ~\E t \in Raws : <<b, t>> \in transfers
               PROVE  \E c \in issues' : c.activity = b /\ c.raw = current'[b].principal /\ c.open
    BY <1>3 DEF ReviewListed
  <2>0. b \in Raws
    BY DEF Activities
  <2>1. CASE b = a /\ Replaced(r, a)
    BY <1>4, <2>1 DEF Replaced
  <2>2. CASE SameRevision(b) /\ (b # a \/ ~Replaces(r, a))
    <3>1. PICK i \in issues : i.activity = b /\ i.raw = current[b].principal /\ i.open
      BY <2>2 DEF ReviewListed, SameRevision, Activities
    <3>2. i \in issues'
      <4>1. SUFFICES ASSUME i.raw = r, Replaces(r, a) PROVE FALSE
        BY <1>4
      <4>2. Knows(r, b)
        BY <3>1, <4>1 DEF Behind
      <4> QED BY <1>1, <1>2, <2>2, <4>1, <4>2, KnownOwner
    <3> QED BY <2>2, <3>1, <3>2 DEF SameRevision
  <2> QED BY <1>3, <2>0, <2>1, <2>2 DEF Corroborated
<1>16. Paging' /\ PagesAgree'
  <2>1. CASE Replaced(r, a)
    <3>1. Bumped
      BY <1>3, <2>1, BumpBumps DEF Replaced
    <3> QED BY <3>1, BumpedPagesAgree
  <2>2. CASE Corroborated(r, a)
    <3>1. SamePages
      BY <1>3, <2>2 DEF Corroborated, SamePages, SameRevision
    <3> QED BY <3>1, SamePagesAgree
  <2> QED BY <1>3, <2>1, <2>2
<1> QED BY <1>5, <1>10, <1>11, <1>13, <1>14, <1>15, <1>16

-----------------------------------------------------------------------------
\* What the three decisions have in common: the issue is closed, its activity gets a revision
\* that needs no review, and nothing else is revised.
Decision(i) ==
    /\ i.raw \in Raws /\ i.activity \in Raws
    /\ current' = [b \in Raws |-> current'[b]]
    /\ \A b \in Raws \ {i.activity} : SameRevision(b)
    /\ IsRevision(current'[i.activity]) /\ current'[i.activity].no = current[i.activity].no + 1
    /\ current'[i.activity].mark \notin Review
    /\ principals' \in [Raws -> SUBSET Raws]
    /\ \A b \in Raws : principals'[b] \subseteq principals[b] \cup (IF b = i.activity THEN {i.raw} ELSE {})
    /\ DOMAIN rawStatus' = Raws
    /\ issues' = Close({i})
    /\ Bump({rec[i.raw].account})
    /\ UNCHANGED <<rec, rule, parsedBy, identities, transfers, listed>>

\* It was not yet decided by a reviewer.
Undecided(i) == current[i.activity].priority # manualReviewSourcePriority

\* A reviewer's revision keeps the effects but for the mark.
LEMMA EffectsAndMark ==
    ASSUME NEW x, NEW mark
    PROVE  /\ Effects(x).date = x.date
           /\ LET y == [Effects(x) EXCEPT !.mark = mark] IN y.date = x.date /\ y.mark = mark
BY DEF Effects

LEMMA ParsedAndMark ==
    ASSUME NEW r, NEW mark
    PROVE  LET y == [Parsed(r) EXCEPT !.mark = mark] IN y.date = Parsed(r).date /\ y.mark = mark
BY DEF Parsed

\* A revision written by Decide.
LEMMA Decides ==
    ASSUME LedgerShape, NEW i \in issues, NEW effects, effects.date \in Int, effects.mark \notin Review,
           NEW priority, NEW time, NEW by,
           Decide(i, NewRevision(i.activity, effects, priority, time, by, i.raw))
    PROVE  Decision(i)
<1> DEFINE y == NewRevision(i.activity, effects, priority, time, by, i.raw)
<1>1. i.raw \in Raws /\ i.activity \in Raws
  BY DEF LedgerShape, IsIssue
<1>2. IsRevision(current[i.activity])
  BY <1>1 DEF LedgerShape
<1>3. /\ IsRevision(y) /\ y.no = current[i.activity].no + 1 /\ y.mark = effects.mark
      /\ y.principal = i.raw
  BY <1>2, NewRevisionIs
<1>4. /\ current' = [current EXCEPT ![i.activity] = y]
      /\ principals' = [principals EXCEPT ![i.activity] = @ \cup {y.principal}]
      /\ DOMAIN rawStatus' = Raws
      /\ issues' = Close({i})
      /\ Bump({rec[i.raw].account})
      /\ UNCHANGED <<rec, rule, parsedBy, identities, transfers, listed>>
  BY DEF Decide, LedgerShape
<1> HIDE DEF y
<1>5. current'[i.activity] = y /\ \A b \in Raws \ {i.activity} : current'[b] = current[b]
  BY <1>1, <1>4 DEF LedgerShape
<1>6. current' = [b \in Raws |-> current'[b]]
  BY <1>4 DEF LedgerShape
<1>7. /\ principals' \in [Raws -> SUBSET Raws]
      /\ \A b \in Raws : principals'[b] \subseteq principals[b] \cup (IF b = i.activity THEN {i.raw} ELSE {})
  BY <1>1, <1>3, <1>4 DEF LedgerShape
<1> QED BY <1>1, <1>3, <1>4, <1>5, <1>6, <1>7 DEF Decision, SameRevision, LedgerShape

\* Confirming a record as distinct is a decision about what was under review.
LEMMA ConfirmDistinctDecides ==
    ASSUME LedgerInv, NEW i \in issues, ConfirmDistinct(i) PROVE Decision(i) /\ Undecided(i)
<1> DEFINE effects == [Parsed(i.raw) EXCEPT !.mark = "effective"]
<1>1. i.raw \in Raws /\ i.activity \in Raws
  BY DEF LedgerInv, LedgerShape, IsIssue
<1>2. effects.date \in Int /\ effects.mark = "effective"
  BY <1>1, ParsedDate, ParsedAndMark DEF LedgerInv
<1>3. Decide(i, NewRevision(i.activity, effects, manualReviewSourcePriority, current[i.activity].time, 0, i.raw))
  BY DEF ConfirmDistinct, ManualRevision
<1> HIDE DEF effects
<1>4. Decision(i)
  BY <1>2, <1>3, Decides DEF LedgerInv, Review
<1>5. Undecided(i)
  BY <1>1 DEF ConfirmDistinct, UnderReview, Undecided, LedgerInv, Decided
<1> QED BY <1>4, <1>5

\* Accepting a revision is one about a conflict that is still fresh.
LEMMA AcceptRevisionDecides ==
    ASSUME LedgerInv, NEW i \in issues, AcceptRevision(i) PROVE Decision(i) /\ Undecided(i)
<1>1. i.raw \in Raws /\ i.activity \in Raws
  BY DEF LedgerInv, LedgerShape, IsIssue
<1>2. Parsed(i.raw).date \in Int /\ Parsed(i.raw).mark \notin Review
  BY <1>1, ParsedDate DEF LedgerInv, AcceptRevision, Review
<1>3. Decide(i, NewRevision(i.activity, Parsed(i.raw), acceptedRevisionSourcePriority,
                            rec[i.raw].time, 0, i.raw))
  BY DEF AcceptRevision
<1>4. Decision(i)
  BY <1>2, <1>3, Decides DEF LedgerInv
<1>5. Undecided(i)
  <2>1. current[i.activity].no = i.seen /\ i.type = "conflict" /\ i.seen \in Nat
    BY DEF AcceptRevision, FreshConflict, LedgerInv, LedgerShape, IsIssue
  <2> QED BY <2>1 DEF Undecided, LedgerInv, Conflicts
<1> QED BY <1>4, <1>5

\* Confirming a duplicate voids the activity and leaves the target's effects.
LEMMA ConfirmSameDecides ==
    ASSUME LedgerInv, NEW i \in issues, NEW t \in Raws, ConfirmSame(i, t) PROVE Decision(i) /\ Undecided(i)
<1> DEFINE effects == [Effects(current[i.activity]) EXCEPT !.mark = "voided"]
           y == NewRevision(i.activity, effects, manualReviewSourcePriority, current[i.activity].time, 0, i.raw)
           z == [current[t] EXCEPT !.others = @ \cup ({i.raw} \ {current[t].principal})]
<1>1. i.raw \in Raws /\ i.activity \in Raws /\ t # i.activity
  BY DEF LedgerInv, LedgerShape, IsIssue, ConfirmSame
<1>2. IsRevision(current[i.activity]) /\ IsRevision(current[t])
  BY <1>1 DEF LedgerInv, LedgerShape
<1>3. effects.date \in Int /\ effects.mark = "voided"
  BY <1>2, EffectsAndMark DEF IsRevision
<1>4. IsRevision(y) /\ y.no = current[i.activity].no + 1 /\ y.mark = "voided" /\ y.principal = i.raw
  <2> HIDE DEF effects
  <2> QED BY <1>2, <1>3, NewRevisionIs
<1>5. /\ IsRevision(z) /\ z.no = current[t].no /\ z.date = current[t].date /\ z.mark = current[t].mark
      /\ z.priority = current[t].priority /\ z.principal = current[t].principal
  BY <1>2, OthersOnly
<1>6. /\ current' = [current EXCEPT ![i.activity] = y, ![t] = z]
      /\ principals' = principals
      /\ DOMAIN rawStatus' = Raws
      /\ issues' = Close({i})
      /\ Bump({rec[i.raw].account})
      /\ UNCHANGED <<rec, rule, parsedBy, identities, transfers, listed>>
  BY <1>1 DEF ConfirmSame, ManualRevision, LedgerInv, LedgerShape
<1> HIDE DEF y, z
<1>7. /\ current'[i.activity] = y /\ current'[t] = z
      /\ \A b \in Raws \ {i.activity, t} : current'[b] = current[b]
      /\ current' = [b \in Raws |-> current'[b]]
  BY <1>1, <1>6 DEF LedgerInv, LedgerShape
<1>8. \A b \in Raws \ {i.activity} : SameRevision(b)
  BY <1>5, <1>7 DEF SameRevision, LedgerInv, LedgerShape
<1>9. Decision(i)
  BY <1>1, <1>4, <1>6, <1>7, <1>8 DEF Decision, LedgerInv, LedgerShape, Review
<1>10. Undecided(i)
  BY <1>1 DEF ConfirmSame, UnderReview, Undecided, LedgerInv, Decided
<1> QED BY <1>9, <1>10

\* A decision keeps the invariant.
LEMMA DecisionKeeps == ASSUME LedgerInv, NEW i \in issues, Decision(i) PROVE LedgerInv'
<1> USE DEF LedgerInv
<1>1. \A c \in issues' : IsIssue(c) /\ \E k \in issues :
        c.raw = k.raw /\ c.activity = k.activity /\ c.type = k.type /\ c.seen = k.seen
  BY CloseKeeps DEF Decision
<1>2. \A k \in issues \ {i} : k \in issues'
  BY CloseSpares DEF Decision
<1>3. \A b \in Raws : IsRevision(current'[b])
  BY DEF Decision, SameRevision
<1>4. generation' \in [LedgerAccounts -> Nat]
  BY DEF Decision, Bump, LedgerShape
<1>5. LedgerShape'
  BY <1>1, <1>3, <1>4 DEF LedgerShape, Decision
<1>6. OneOwner'
  BY DEF OneOwner, Decision
<1>7. ASSUME NEW r, NEW a, Knows(r, a) PROVE Knows(r, a)'
  BY <1>7, KnowsOn DEF Decision
<1>8. Behind'
  <2>1. \A k \in issues : Knows(k.raw, k.activity)'
    BY <1>7 DEF Behind
  <2>2. ASSUME NEW b \in Raws, NEW s \in principals'[b] PROVE Knows(s, b)'
    <3>1. s \in principals[b] \/ (s = i.raw /\ b = i.activity)
      BY DEF Decision
    <3> QED BY <1>7, <2>1, <3>1 DEF Behind, Knows
  <2>3. ASSUME NEW c \in issues' PROVE Knows(c.raw, c.activity)'
    <3>1. PICK k \in issues : c.raw = k.raw /\ c.activity = k.activity
      BY <1>1
    <3> QED BY <2>1, <3>1 DEF Knows
  <2> QED BY <2>2, <2>3 DEF Behind
<1>9. Conflicts'
  <2> SUFFICES ASSUME NEW c \in issues'
               PROVE  /\ c.seen <= current'[c.activity].no
                      /\ c.type = "conflict" /\ current'[c.activity].priority = manualReviewSourcePriority =>
                           c.seen < current'[c.activity].no
    BY DEF Conflicts
  <2>1. PICK k \in issues : c.activity = k.activity /\ c.type = k.type /\ c.seen = k.seen
    BY <1>1
  <2>2. k.activity \in Raws /\ k.seen \in Nat /\ current[k.activity].no \in Nat
    BY DEF LedgerShape, IsIssue, IsRevision
  <2>3. CASE k.activity = i.activity
    BY <2>1, <2>2, <2>3 DEF Conflicts, Decision
  <2>4. CASE k.activity # i.activity
    <3>1. SameRevision(k.activity)
      BY <2>2, <2>4 DEF Decision
    <3> QED BY <2>1, <2>2, <3>1 DEF Conflicts, SameRevision
  <2> QED BY <2>3, <2>4
<1>10. Decided'
  BY DEF Decided, Decision, SameRevision
<1>11. ReviewListed'
  <2> SUFFICES ASSUME NEW b \in Activities', current'[b].mark \in Review, ~\E t \in Raws : <<b, t>> \in transfers
               PROVE  \E c \in issues' : c.activity = b /\ c.raw = current'[b].principal /\ c.open
    BY DEF ReviewListed, Decision
  <2>1. b \in Raws /\ b # i.activity
    BY DEF Activities, Decision
  <2>2. SameRevision(b)
    BY <2>1 DEF Decision
  <2>3. PICK k \in issues : k.activity = b /\ k.raw = current[b].principal /\ k.open
    BY <2>2 DEF ReviewListed, SameRevision, Activities
  <2> QED BY <1>2, <2>1, <2>2, <2>3 DEF SameRevision
<1>12. Bumped
  BY BumpBumps DEF Decision
<1> QED BY <1>5, <1>6, <1>8, <1>9, <1>10, <1>11, <1>12, BumpedPagesAgree

-----------------------------------------------------------------------------
\* The other transactions.

\* A linked transfer no longer needs the issue that it closes.
LEMMA LinkTransferKeeps ==
    ASSUME LedgerInv, NEW i \in issues, NEW t \in Raws, LinkTransfer(i, t) PROVE LedgerInv'
<1> USE DEF LedgerInv
<1>1. /\ issues' = Close({i}) /\ transfers' = transfers \cup {<<i.activity, t>>}
      /\ UNCHANGED <<rec, rule, parsedBy, rawStatus, identities, current, principals, duplicateOf, listed>>
      /\ Bump({rec[i.activity].account, rec[t].account})
  BY DEF LinkTransfer
<1>2. \A c \in issues' : IsIssue(c) /\ \E k \in issues :
        c.raw = k.raw /\ c.activity = k.activity /\ c.type = k.type /\ c.seen = k.seen
  BY <1>1, CloseKeeps
<1>3. \A k \in issues \ {i} : k \in issues'
  BY <1>1, CloseSpares
<1>4. generation' \in [LedgerAccounts -> Nat]
  BY <1>1 DEF Bump, LedgerShape
<1>5. LedgerShape'
  BY <1>1, <1>2, <1>4 DEF LedgerShape
<1>6. OneOwner'
  BY <1>1 DEF OneOwner
<1>7. ASSUME NEW r, NEW a, Knows(r, a) PROVE Knows(r, a)'
  BY <1>1, <1>7, KnowsOn
<1>8. Behind'
  <2>1. ASSUME NEW b \in Raws, NEW s \in principals'[b] PROVE Knows(s, b)'
    BY <1>1, <1>7 DEF Behind
  <2>2. ASSUME NEW c \in issues' PROVE Knows(c.raw, c.activity)'
    <3>1. PICK k \in issues : c.raw = k.raw /\ c.activity = k.activity
      BY <1>2
    <3>2. Knows(k.raw, k.activity)'
      BY <1>7 DEF Behind
    <3> QED BY <3>1, <3>2 DEF Knows
  <2> QED BY <2>1, <2>2 DEF Behind
<1>9. Conflicts' /\ Decided'
  <2>1. Decided'
    BY <1>1 DEF Decided
  <2>2. ASSUME NEW c \in issues'
        PROVE  /\ c.seen <= current[c.activity].no
               /\ c.type = "conflict" /\ current[c.activity].priority = manualReviewSourcePriority =>
                    c.seen < current[c.activity].no
    <3>1. PICK k \in issues : c.activity = k.activity /\ c.type = k.type /\ c.seen = k.seen
      BY <1>2
    <3> QED BY <3>1 DEF Conflicts
  <2> QED BY <1>1, <2>1, <2>2 DEF Conflicts
<1>10. ReviewListed'
  <2> SUFFICES ASSUME NEW b \in Activities', current'[b].mark \in Review, ~\E u \in Raws : <<b, u>> \in transfers'
               PROVE  \E c \in issues' : c.activity = b /\ c.raw = current'[b].principal /\ c.open
    BY DEF ReviewListed
  <2>1. PICK k \in issues : k.activity = b /\ k.raw = current[b].principal /\ k.open
    BY <1>1 DEF ReviewListed, Activities
  <2>2. k # i
    BY <1>1, <2>1
  <2> QED BY <1>1, <1>3, <2>1, <2>2
<1>11. Bumped
  BY <1>1, BumpBumps
<1> QED BY <1>5, <1>6, <1>8, <1>9, <1>10, <1>11, BumpedPagesAgree

\* Of a page, the row is the next below the cursor.
LEMMA NextRow ==
    ASSUME LedgerShape, NEW row \in Below(listed.cursor),
           \A b \in Below(listed.cursor) \ {row} : Under(Position(b), Position(row))
    PROVE  Activities \ Below(Position(row)) = (Activities \ Below(listed.cursor)) \cup {row}
<1>1. row \in Activities /\ row \in Raws /\ Position(row) # NoCursor
  BY LedgerAssumption DEF Below, Activities, Position, NoCursor, NoRow
<1>2. \A a \in Raws : /\ Position(a).date \in Int /\ Position(a).id \in Int
  BY LedgerAssumption DEF Position, LedgerShape, IsRevision
<1>3. ~Under(Position(row), Position(row))
  BY <1>1, <1>2 DEF Under
<1>4. ASSUME NEW a \in Activities, a \notin Below(listed.cursor) PROVE ~Under(Position(a), Position(row))
  <2>1. Under(Position(row), listed.cursor) /\ ~Under(Position(a), listed.cursor)
    BY <1>4 DEF Below
  <2>2. Position(a).date \in Int /\ Position(a).id \in Int
    BY <1>2 DEF Activities
  <2> QED BY <1>1, <1>2, <2>1, <2>2 DEF Under, LedgerShape
<1> QED BY <1>1, <1>3, <1>4 DEF Below

\* A page shows the next row, or the client starts over.
LEMMA NextPageKeeps == ASSUME LedgerInv, NextPage PROVE LedgerInv'
<1> USE DEF LedgerInv
<1>1. UNCHANGED <<rec, rule, parsedBy, rawStatus, identities, current, principals, issues,
                  duplicateOf, transfers, generation>>
  BY DEF NextPage
<1>2. OneOwner' /\ Behind' /\ Conflicts' /\ Decided' /\ ReviewListed'
  BY <1>1 DEF OneOwner, Behind, Knows, IdentitiesOf, Conflicts, Decided, ReviewListed, Activities
<1>3. CASE listed' = Idle
  <2>1. listed'.cursor = NoCursor /\ listed'.generation = generation /\ listed'.shown = {}
    BY <1>3 DEF Idle
  <2>2. LedgerShape'
    BY <1>1, <2>1 DEF LedgerShape, IsIssue, IsRevision, NoCursor, NoRow
  <2>3. Paging' /\ PagesAgree'
    BY <1>1, <2>1 DEF Paging, PagesAgree, NoCursor, NoRow, LedgerShape
  <2> QED BY <1>2, <2>2, <2>3
<1>4. CASE listed' # Idle
  <2>1. PICK row \in Below(listed.cursor) :
          /\ \A b \in Below(listed.cursor) \ {row} : Under(Position(b), Position(row))
          /\ listed' = [cursor |-> Position(row), generation |-> generation,
                        shown |-> listed.shown \cup {<<row, current[row].no>>}]
          /\ ~CursorStale
    BY <1>4 DEF NextPage
  <2>2. /\ listed'.cursor = Position(row) /\ listed'.generation = generation
        /\ listed'.shown = listed.shown \cup {<<row, current[row].no>>}
    BY <2>1
  <2>3. row \in Raws /\ Position(row) # NoCursor /\ Position(row).date \in Int /\ Position(row).id \in Int
    BY LedgerAssumption DEF Below, Activities, Position, NoCursor, NoRow, LedgerShape, IsRevision
  <2>4. LedgerShape'
    BY <1>1, <2>2, <2>3 DEF LedgerShape, IsIssue, IsRevision
  <2>5. Paging'
    BY <1>1, <2>2, <2>3 DEF Paging, LedgerShape, NoCursor, NoRow
  <2>6. listed.shown = {<<a, current[a].no>> : a \in Activities \ Below(listed.cursor)}
    <3>1. CASE listed.cursor = NoCursor
      BY <3>1 DEF Paging, Below
    <3>2. CASE listed.cursor # NoCursor
      BY <2>1, <3>2 DEF CursorStale, PagesAgree
    <3> QED BY <3>1, <3>2
  <2>7. listed'.shown = {<<a, current[a].no>> : a \in Activities \ Below(Position(row))}
    BY <2>1, <2>2, <2>6, NextRow
  <2>8. Activities' = Activities /\ Below(listed.cursor)' = Below(Position(row))
    BY <1>1, <2>2 DEF Activities, Below, Under, Position, NoCursor, NoRow
  <2>9. PagesAgree'
    BY <1>1, <2>7, <2>8 DEF PagesAgree
  <2> QED BY <1>2, <2>4, <2>5, <2>9
<1> QED BY <1>3, <1>4

\* Records are stored and parsed again without touching the ledger.
LEMMA RawsKeep ==
    ASSUME LedgerInv, Upgrade \/ (\E r \in Raws : SaveHistoryRaw(r)) PROVE LedgerInv'
<1>1. /\ UNCHANGED <<rec, identities, current, principals, issues, duplicateOf, transfers,
                     generation, listed>>
      /\ rule' \in Nat /\ DOMAIN parsedBy' = Raws /\ DOMAIN rawStatus' = Raws
  BY DEF Upgrade, SaveHistoryRaw, LedgerInv, LedgerShape
<1>2. LedgerShape' /\ OneOwner' /\ Behind' /\ Conflicts' /\ Decided' /\ ReviewListed'
  BY <1>1 DEF LedgerInv, LedgerShape, IsIssue, IsRevision, OneOwner, Behind, Knows, IdentitiesOf,
              Conflicts, Decided, ReviewListed, Activities
<1>3. SamePages
  BY <1>1 DEF SamePages
<1> QED BY <1>2, <1>3, SamePagesAgree DEF LedgerInv

\* The ledger is empty.
LEMMA LedgerBegins == LedgerInit => LedgerInv
<1> SUFFICES ASSUME LedgerInit PROVE LedgerInv
  OBVIOUS
<1> USE LedgerAssumption DEF LedgerInit
<1>1. /\ listed.cursor = NoCursor /\ listed.generation = generation /\ listed.shown = {}
      /\ NoCursor.date = 0 /\ NoCursor.id = -1
  BY DEF Idle, NoCursor, NoRow
<1>2. \A a \in Raws : IsRevision(current[a]) /\ current[a].no = 0 /\ current[a].priority = 0
  BY DEF NoRevision, IsRevision
<1>3. LedgerShape
  BY <1>1, <1>2 DEF LedgerShape
<1>4. Activities = {}
  <2>1. ASSUME NEW a \in Raws PROVE ~(current[a].no > 0)
    BY <1>2
  <2> QED BY <2>1, Zenon DEF Activities
<1> QED BY <1>1, <1>2, <1>3, <1>4 DEF LedgerInv, OneOwner, Behind, Conflicts, Decided, ReviewListed,
           Paging, PagesAgree, LedgerShape, manualReviewSourcePriority

\* Every step keeps the invariant.
LEMMA RevisionsStep == LedgerInv /\ [LedgerNext]_ledgerVars => LedgerInv'
<1> SUFFICES ASSUME LedgerInv, [LedgerNext]_ledgerVars PROVE LedgerInv'
  OBVIOUS
<1>1. ASSUME NEW i \in issues, NEW t \in Raws, ConfirmSame(i, t) PROVE LedgerInv'
  BY <1>1, ConfirmSameDecides, DecisionKeeps
<1>2. ASSUME NEW i \in issues, ConfirmDistinct(i) PROVE LedgerInv'
  BY <1>2, ConfirmDistinctDecides, DecisionKeeps
<1>3. ASSUME NEW i \in issues, AcceptRevision(i) PROVE LedgerInv'
  BY <1>3, AcceptRevisionDecides, DecisionKeeps
<1>4. CASE UNCHANGED ledgerVars
  <2>1. LedgerShape' /\ OneOwner' /\ Behind' /\ Conflicts' /\ Decided' /\ ReviewListed'
    BY <1>4 DEF ledgerVars, LedgerInv, LedgerShape, IsIssue, IsRevision, OneOwner, Behind, Knows,
                IdentitiesOf, Conflicts, Decided, ReviewListed, Activities
  <2>2. SamePages
    BY <1>4 DEF SamePages, ledgerVars
  <2> QED BY <2>1, <2>2, SamePagesAgree DEF LedgerInv
<1> QED BY <1>1, <1>2, <1>3, <1>4, NormalizeKeeps, LinkTransferKeeps, NextPageKeeps, RawsKeep DEF LedgerNext

-----------------------------------------------------------------------------
\* LedgerInv in every instance.
THEOREM LedgerInvariance == LedgerSpec => []LedgerInv
BY LedgerBegins, RevisionsStep, PTL DEF LedgerSpec

\* The lookups of normalizeHistoryRecord keep what shares an identity in one activity.
THEOREM LedgerOneActivityPerIdentity == LedgerSpec => []OneActivityPerIdentity
<1>1. LedgerInv => OneActivityPerIdentity
  <2> SUFFICES ASSUME LedgerInv, NEW a \in Activities, NEW b \in Activities, a # b,
                      rec[a].account = rec[b].account,
                      NEW r \in principals[a], NEW s \in principals[b], NEW j,
                      j \in IdentitiesOf(r), j \in IdentitiesOf(s)
               PROVE  FALSE
    BY DEF OneActivityPerIdentity
  <2>1. a \in Raws /\ b \in Raws
    BY DEF Activities
  <2> DEFINE e == <<rec[r].account, j, a>>
             f == <<rec[s].account, j, b>>
  <2>2. e \in identities /\ f \in identities
    BY <2>1 DEF LedgerInv, Behind, Knows
  <2>3. /\ e[1] = rec[r].account /\ e[2] = j /\ e[3] = a
        /\ f[1] = rec[s].account /\ f[2] = j /\ f[3] = b
    OBVIOUS
  <2> HIDE DEF e, f
  <2>4. rec[a].account = rec[r].account /\ rec[b].account = rec[s].account
    BY <2>2, <2>3 DEF LedgerInv, OneOwner
  <2> QED BY <2>2, <2>3, <2>4 DEF LedgerInv, OneOwner
<1> QED BY <1>1, LedgerInvariance, PTL

\* What is under review has an open issue, whatever is parsed again, decided or upgraded.
THEOREM LedgerReviewListed == LedgerSpec => []ReviewListed
<1>1. LedgerInv => ReviewListed
  BY DEF LedgerInv
<1> QED BY <1>1, LedgerInvariance, PTL

\* A client with an accepted cursor was shown each current revision above it, once.
THEOREM LedgerPagesAgree == LedgerSpec => []PagesAgree
<1>1. LedgerInv => PagesAgree
  BY DEF LedgerInv
<1> QED BY <1>1, LedgerInvariance, PTL

\* A decision that was made by a reviewer is not taken back by a record or another decision.
THEOREM LedgerReviewStands == LedgerSpec => ReviewStands
<1> DEFINE Stand == \A a \in Activities : current[a].priority = manualReviewSourcePriority =>
                                            current'[a].no = current[a].no
<1>1. LedgerInv /\ [LedgerNext]_ledgerVars => [Stand]_ledgerVars
  <2> SUFFICES ASSUME LedgerInv, LedgerNext,
                      NEW a \in Raws, current[a].no > 0, current[a].priority = manualReviewSourcePriority
               PROVE  current'[a].no = current[a].no
    BY DEF Activities
  <2>1. ASSUME NEW r \in Raws, Normalize(r) PROVE current'[a].no = current[a].no
    <3>1. Cardinality(Matched(r)) <= 1
      BY <2>1 DEF Normalize
    <3>2. PICK b \in Raws : b = Owner(r)
      BY <3>1, OwnerFound DEF LedgerInv
    <3>3. /\ \A c \in Raws \ {b} : SameRevision(c)
          /\ Replaced(r, b) \/ Corroborated(r, b)
      BY <2>1, <3>2, NormalizeDoes DEF LedgerInv
    <3> QED BY <3>3, ManualStands DEF Replaced, Corroborated, SameRevision
  <2>2. ASSUME NEW i \in issues, Decision(i), Undecided(i) PROVE current'[a].no = current[a].no
    BY <2>2 DEF Decision, Undecided, SameRevision
  <2>3. ASSUME current' = current PROVE current'[a].no = current[a].no
    BY <2>3
  <2>4. ASSUME NEW i \in issues, NEW t \in Raws, ConfirmSame(i, t) PROVE current'[a].no = current[a].no
    BY <2>2, <2>4, ConfirmSameDecides
  <2>5. ASSUME NEW i \in issues, ConfirmDistinct(i) PROVE current'[a].no = current[a].no
    BY <2>2, <2>5, ConfirmDistinctDecides
  <2>6. ASSUME NEW i \in issues, AcceptRevision(i) PROVE current'[a].no = current[a].no
    BY <2>2, <2>6, AcceptRevisionDecides
  <2> QED BY <2>1, <2>3, <2>4, <2>5, <2>6 DEF LedgerNext, LinkTransfer, SaveHistoryRaw, Upgrade, NextPage
<1> QED BY <1>1, LedgerInvariance, PTL DEF LedgerSpec, ReviewStands

-----------------------------------------------------------------------------
(***************************************************************************)
(* Coverage.                                                               *)
(***************************************************************************)
\* The orders that sort.Slice may leave: every range, by the first day.
IsOrder(s, S) ==
    /\ s \in [1..Cardinality(S) -> S] /\ Range(s) = S
    /\ \A a, b \in DOMAIN s : a < b => s[a].from <= s[b].from

\* Of a set of ranges that is not empty one starts last.
LEMMA LastStart ==
    ASSUME NEW S \in SUBSET Ranges, S # {}
    PROVE  \E m \in S : \A i \in S : i.from <= m.from
<1> DEFINE late == {LastDay - i.from : i \in S}
<1>1. LastDay \in Nat /\ \A i \in S : i.from \in 1..LastDay
  BY ReconciliationAssumption DEF Ranges, LedgerDays
<1>2. late \in SUBSET Nat /\ late # {}
  BY <1>1
<1>3. PICK n \in late : \A e \in late : n <= e
  <2> HIDE DEF late
  <2> QED BY <1>2, LeastNumber
<1>4. PICK m \in S : n = LastDay - m.from
  BY <1>3
<1>5. ASSUME NEW i \in S PROVE i.from <= m.from
  <2>1. LastDay - i.from \in late
    OBVIOUS
  <2>2. LastDay - m.from <= LastDay - i.from
    <3> HIDE DEF late
    <3> QED BY <1>3, <1>4, <2>1
  <2> QED BY <1>1, <2>2
<1> QED BY <1>5

\* Ranges of a finite set with a number of them can be ordered when those with fewer can.
LEMMA OrderGrows ==
    ASSUME NEW S \in SUBSET Ranges, IsFiniteSet(S), S # {},
           \A T \in SUBSET Ranges :
               IsFiniteSet(T) /\ Cardinality(T) < Cardinality(S) => \E s : IsOrder(s, T)
    PROVE  \E s : IsOrder(s, S)
<1>1. PICK m \in S : \A i \in S : i.from <= m.from
  BY LastStart
<1> DEFINE T == S \ {m}
<1>2. IsFiniteSet(T) /\ Cardinality(T) = Cardinality(S) - 1
  BY FS_RemoveElement
<1>3. Cardinality(S) \in Nat /\ Cardinality(T) \in Nat
  BY <1>2, FS_CardinalityType
<1>4. PICK s : IsOrder(s, T)
  BY <1>2, <1>3
<1> DEFINE N == Cardinality(S)
           t == [k \in 1..N |-> IF k = N THEN m ELSE s[k]]
<1>5. N \in Nat \ {0} /\ s \in [1..N - 1 -> T] /\ Range(s) = T
  <2>1. N \in Nat \ {0} /\ Cardinality(T) = N - 1
    BY <1>2, <1>3
  <2>2. s \in [1..Cardinality(T) -> T] /\ Range(s) = T
    BY <1>4 DEF IsOrder
  <2> HIDE DEF T
  <2> QED BY <2>1, <2>2
<1>6. \A a, b \in 1..N - 1 : a < b => s[a].from <= s[b].from
  BY <1>4, <1>5 DEF IsOrder
<1>7. DOMAIN t = 1..N /\ t[N] = m /\ \A k \in 1..N - 1 : t[k] = s[k] /\ s[k] \in T
  BY <1>5
<1>8. t \in [1..N -> S]
  BY <1>5
<1>9. Range(t) = S
  <2> HIDE DEF t
  <2>1. ASSUME NEW i \in S PROVE \E k \in 1..N : t[k] = i
    <3>1. CASE i = m BY <1>5, <1>7, <3>1
    <3>2. CASE i # m
      <4>1. PICK k \in DOMAIN s : s[k] = i
        BY <1>5, <3>2 DEF Range
      <4> QED BY <1>5, <1>7, <4>1
    <3> QED BY <3>1, <3>2
  <2> QED BY <1>7, <1>8, <2>1 DEF Range
<1>10. ASSUME NEW a \in 1..N, NEW b \in 1..N, a < b PROVE t[a].from <= t[b].from
  <2> HIDE DEF t
  <2>1. a \in 1..N - 1
    BY <1>5, <1>10
  <2>2. CASE b = N
    <3>1. t[a] \in S
      BY <1>8
    <3> QED BY <1>1, <1>7, <2>2, <3>1
  <2>3. CASE b # N
    <3>1. b \in 1..N - 1
      BY <1>5, <2>3
    <3> QED BY <1>6, <1>7, <2>1, <3>1, <1>10
  <2> QED BY <2>2, <2>3
<1>11. IsOrder(t, S)
  <2> HIDE DEF t
  <2> QED BY <1>7, <1>8, <1>9, <1>10 DEF IsOrder
<1> QED BY <1>11

\* Ranges of a finite set can be ordered by their first day.
LEMMA OrderExists ==
    ASSUME NEW S \in SUBSET Ranges, IsFiniteSet(S)
    PROVE  \E s : IsOrder(s, S)
<1> SUFFICES ASSUME ~ \E s : IsOrder(s, S) PROVE FALSE
  OBVIOUS
<1> DEFINE Sizes == {n \in Nat : \E T \in SUBSET Ranges : IsFiniteSet(T) /\ Cardinality(T) = n /\ ~ \E s : IsOrder(s, T)}
<1>1. Cardinality(S) \in Sizes
  BY FS_CardinalityType
<1>2. PICK n \in Sizes : \A e \in Sizes : n <= e
  <2>1. Sizes \in SUBSET Nat /\ Sizes # {}
    BY <1>1
  <2> HIDE DEF Sizes
  <2> QED BY <2>1, LeastNumber
<1>3. PICK T \in SUBSET Ranges : IsFiniteSet(T) /\ Cardinality(T) = n /\ ~ \E s : IsOrder(s, T)
  BY <1>2
<1>4. ASSUME NEW U \in SUBSET Ranges, IsFiniteSet(U), Cardinality(U) < Cardinality(T) PROVE \E s : IsOrder(s, U)
  <2>1. Cardinality(U) \in Nat
    BY <1>4, FS_CardinalityType
  <2>2. Cardinality(U) \notin Sizes
    <3> HIDE DEF Sizes
    <3>1. n \in Nat
      BY <1>2 DEF Sizes
    <3> QED BY <1>2, <1>3, <1>4, <2>1, <3>1
  <2> QED BY <1>4, <2>1, <2>2
<1>5. CASE T = {}
  <2> DEFINE e == [k \in 1..0 |-> k]
  <2>1. Cardinality(T) = 0
    BY <1>5, FS_EmptySet
  <2>2. IsOrder(e, T)
    BY <1>5, <2>1 DEF IsOrder, Range
  <2> QED BY <1>3, <2>2
<1>6. CASE T # {}
  BY <1>3, <1>4, <1>6, OrderGrows
<1> QED BY <1>5, <1>6

\* InOrder orders.
LEMMA InOrderOrders ==
    ASSUME NEW S \in SUBSET Ranges, IsFiniteSet(S)
    PROVE  IsOrder(InOrder(S), S)
<1>1. \E s \in [1..Cardinality(S) -> S] : Range(s) = S /\ \A a, b \in DOMAIN s : a < b => s[a].from <= s[b].from
  BY OrderExists DEF IsOrder
<1> QED BY <1>1, Zenon DEF InOrder, IsOrder

-----------------------------------------------------------------------------
\* What coveredUntil is up to the n-th range.
IsCovered(f, s, first, n) ==
    f = [k \in 0..n |-> IF k = 0 THEN first - 1 ELSE Extend(f[k - 1], s[k])]

LEMMA ExtendTyped ==
    ASSUME NEW done \in Int, NEW i \in Ranges
    PROVE  Extend(done, i) \in Int
BY DEF Extend, Ranges, LedgerDays

\* The loop over the ranges ends.
LEMMA CoveredExists ==
    ASSUME NEW s, NEW first, NEW len \in Nat
    PROVE  \E f : IsCovered(f, s, first, len)
<1> SUFFICES ASSUME ~ \E f : IsCovered(f, s, first, len) PROVE FALSE
  OBVIOUS
<1> DEFINE Bad == {n \in Nat : ~ \E f : IsCovered(f, s, first, n)}
<1>1. PICK n \in Bad : \A e \in Bad : n <= e
  <2>1. Bad \in SUBSET Nat /\ Bad # {}
    OBVIOUS
  <2> HIDE DEF Bad
  <2> QED BY <2>1, LeastNumber
<1>2. n \in Nat /\ ~ \E f : IsCovered(f, s, first, n)
  BY <1>1
<1>3. CASE n = 0
  <2> DEFINE g == [k \in 0..0 |-> first - 1]
  <2>1. IsCovered(g, s, first, 0)
    BY DEF IsCovered
  <2> QED BY <1>2, <1>3, <2>1
<1>4. CASE n # 0
  <2>1. n - 1 \in Nat /\ n - 1 \notin Bad
    <3> HIDE DEF Bad
    <3> QED BY <1>1, <1>2, <1>4
  <2>2. PICK f : IsCovered(f, s, first, n - 1)
    BY <2>1
  <2> DEFINE g == [k \in 0..n |-> IF k = n THEN Extend(f[n - 1], s[n]) ELSE f[k]]
             h == [k \in 0..n |-> IF k = 0 THEN first - 1 ELSE Extend(g[k - 1], s[k])]
  <2>3. ASSUME NEW k \in 0..n PROVE g[k] = h[k]
    <3>1. CASE k = n
      <4>1. g[k] = Extend(f[n - 1], s[n]) /\ g[n - 1] = f[n - 1]
        BY <1>2, <1>4, <3>1
      <4> QED BY <1>2, <1>4, <3>1, <4>1
    <3>2. CASE k # n
      <4>1. k \in 0..n - 1 /\ g[k] = f[k]
        BY <1>2, <3>2
      <4>2. f[k] = IF k = 0 THEN first - 1 ELSE Extend(f[k - 1], s[k])
        BY <2>2, <4>1 DEF IsCovered
      <4>3. k # 0 => k - 1 \in 0..n /\ k - 1 # n
        BY <1>2, <4>1
      <4>4. k # 0 => g[k - 1] = f[k - 1]
        BY <4>3
      <4>5. h[k] = IF k = 0 THEN first - 1 ELSE Extend(g[k - 1], s[k])
        OBVIOUS
      <4> HIDE DEF g, h
      <4> QED BY <4>1, <4>2, <4>4, <4>5
    <3> QED BY <3>1, <3>2
  <2>4. g = h
    <3>1. DOMAIN g = 0..n /\ DOMAIN h = 0..n /\ g = [k \in 0..n |-> g[k]] /\ h = [k \in 0..n |-> h[k]]
      OBVIOUS
    <3> HIDE DEF g, h
    <3> QED BY <2>3, <3>1
  <2>5. IsCovered(g, s, first, n)
    <3>1. g = [k \in 0..n |-> IF k = 0 THEN first - 1 ELSE Extend(g[k - 1], s[k])]
      <4> HIDE DEF g
      <4> QED BY <2>4
    <3> HIDE DEF g
    <3> QED BY <3>1 DEF IsCovered
  <2> QED BY <1>2, <2>5
<1> QED BY <1>3, <1>4

LEMMA CoveredIs ==
    ASSUME NEW s, NEW first, Len(s) \in Nat
    PROVE  IsCovered(CoveredUntil(s, first), s, first, Len(s))
<1>1. PICK f : IsCovered(f, s, first, Len(s))
  BY CoveredExists
<1>2. f = [n \in 0..Len(s) |-> IF n = 0 THEN first - 1 ELSE Extend(f[n - 1], s[n])]
  BY <1>1 DEF IsCovered
<1>3. \E g : g = [n \in 0..Len(s) |-> IF n = 0 THEN first - 1 ELSE Extend(g[n - 1], s[n])]
  BY <1>2, Zenon
<1> QED BY <1>3, Zenon DEF CoveredUntil, IsCovered

\* Each day from first to last lies in some range of S.
Covers(S, first, last) == \A d \in first..last : \E i \in S : d \in i.from..i.to

\* What is covered is a day, and each wanted day up to it lies in some range.
LEMMA CoveredSound ==
    ASSUME NEW len \in Nat, NEW S \in SUBSET Ranges, NEW s \in [1..len -> S],
           NEW first \in Int, NEW c, IsCovered(c, s, first, len), NEW n \in 0..len
    PROVE  c[n] \in Int /\ c[n] >= first - 1 /\ Covers(S, first, c[n])
<1> DEFINE Right(k) == c[k] \in Int /\ c[k] >= first - 1 /\ Covers(S, first, c[k])
           Bad == {k \in 0..len : ~Right(k)}
<1> USE DEF Covers
<1> SUFFICES ASSUME ~Right(n) PROVE FALSE
  OBVIOUS
<1>1. PICK k \in Bad : \A e \in Bad : k <= e
  <2>1. Bad \in SUBSET Nat /\ Bad # {}
    OBVIOUS
  <2> HIDE DEF Bad
  <2> QED BY <2>1, LeastNumber
<1>2. k \in 0..len /\ ~Right(k)
  BY <1>1
<1>3. CASE k = 0
  <2>1. c[0] = first - 1
    BY DEF IsCovered
  <2> QED BY <1>2, <1>3, <2>1
<1>4. CASE k # 0
  <2>1. k - 1 \in 0..len /\ k - 1 \notin Bad
    <3> HIDE DEF Bad
    <3> QED BY <1>1, <1>2, <1>4
  <2>2. Right(k - 1)
    BY <2>1
  <2>3. c[k] = Extend(c[k - 1], s[k]) /\ s[k] \in S
    BY <1>2, <1>4 DEF IsCovered
  <2>4. s[k].from \in Int /\ s[k].to \in Int
    BY <2>3 DEF Ranges, LedgerDays
  <2>5. CASE c[k] = c[k - 1]
    BY <1>2, <2>2, <2>5
  <2>6. CASE c[k] # c[k - 1]
    <3>1. s[k].from <= c[k - 1] + 1 /\ c[k - 1] < s[k].to /\ c[k] = s[k].to
      BY <2>2, <2>3, <2>4, <2>6 DEF Extend
    <3>2. ASSUME NEW d \in first..c[k] PROVE \E i \in S : d \in i.from..i.to
      <4>1. CASE d <= c[k - 1]
        BY <2>2, <4>1
      <4>2. CASE d > c[k - 1]
        <5>1. d \in s[k].from..s[k].to
          BY <2>2, <2>4, <3>1, <4>2
        <5> QED BY <2>3, <5>1
      <4> QED BY <2>2, <4>1, <4>2
    <3> QED BY <1>2, <2>2, <2>4, <3>1, <3>2
  <2> QED BY <2>5, <2>6
<1> QED BY <1>3, <1>4

\* What is covered grows with each range.
LEMMA CoveredGrows ==
    ASSUME NEW len \in Nat, NEW S \in SUBSET Ranges, NEW s \in [1..len -> S],
           NEW first \in Int, NEW c, IsCovered(c, s, first, len), NEW m \in 0..len, NEW n \in m..len
    PROVE  c[m] <= c[n]
<1> DEFINE Bad == {k \in m..len : ~(c[m] <= c[k])}
<1> SUFFICES ASSUME ~(c[m] <= c[n]) PROVE FALSE
  OBVIOUS
<1>1. PICK k \in Bad : \A e \in Bad : k <= e
  <2>1. Bad \in SUBSET Nat /\ Bad # {}
    OBVIOUS
  <2> HIDE DEF Bad
  <2> QED BY <2>1, LeastNumber
<1>2. k \in m..len /\ ~(c[m] <= c[k])
  BY <1>1
<1>3. \A e \in 0..len : c[e] \in Int
  BY CoveredSound
<1>4. k # m
  BY <1>2, <1>3
<1>5. k - 1 \in m..len /\ k - 1 \notin Bad
  <2> HIDE DEF Bad
  <2> QED BY <1>1, <1>2, <1>4
<1>6. c[m] <= c[k - 1]
  BY <1>5
<1>7. c[k] = Extend(c[k - 1], s[k]) /\ s[k] \in S
  BY <1>2, <1>4 DEF IsCovered
<1>8. c[k - 1] <= c[k]
  BY <1>2, <1>3, <1>5, <1>7 DEF Extend, Ranges, LedgerDays
<1> QED BY <1>2, <1>3, <1>5, <1>6, <1>8

\* If every wanted day lies in some range, the ordered ranges cover them all.
LEMMA CoveredComplete ==
    ASSUME NEW len \in Nat, NEW S \in SUBSET Ranges, NEW s \in [1..len -> S], Range(s) = S,
           \A a, b \in 1..len : a < b => s[a].from <= s[b].from,
           NEW first \in Int, NEW last \in Int,
           Covers(S, first, last), NEW c, IsCovered(c, s, first, len)
    PROVE  c[len] >= last
<1> SUFFICES ASSUME c[len] < last PROVE FALSE
  <2>1. c[len] \in Int
    BY CoveredSound
  <2> QED BY <2>1
<1> DEFINE d == c[len] + 1
<1>1. \A e \in 0..len : c[e] \in Int /\ c[e] >= first - 1
  BY CoveredSound
<1>2. d \in first..last
  BY <1>1
<1>3. PICK i \in S : d \in i.from..i.to
  BY <1>2 DEF Covers
<1>4. PICK n \in 1..len : s[n] = i
  BY DEF Range
<1>5. c[n] = Extend(c[n - 1], i) /\ n - 1 \in 0..len
  BY <1>4 DEF IsCovered
<1>6. c[n] <= c[len]
  <2>1. n \in 0..len /\ len \in n..len
    BY <1>4
  <2> QED BY <2>1, CoveredGrows
<1>7. i.from \in Int /\ i.to \in Int
  BY DEF Ranges, LedgerDays
<1>8. i.from > c[n - 1] + 1
  BY <1>1, <1>2, <1>3, <1>5, <1>6, <1>7 DEF Extend
\* The ranges after the gap all start behind it.
<1>9. \A e \in n..len : c[e] = c[n - 1]
  <2> DEFINE Bad == {e \in n..len : c[e] # c[n - 1]}
  <2> SUFFICES ASSUME Bad # {} PROVE FALSE
    OBVIOUS
  <2>1. PICK e \in Bad : \A x \in Bad : e <= x
    <3>1. Bad \in SUBSET Nat
      OBVIOUS
    <3> HIDE DEF Bad
    <3> QED BY <3>1, LeastNumber
  <2>2. e \in n..len /\ c[e] # c[n - 1]
    BY <2>1
  <2>3. c[e - 1] = c[n - 1]
    <3>1. CASE e = n
      BY <3>1
    <3>2. CASE e # n
      <4>1. e - 1 \in n..len /\ e - 1 \notin Bad
        <5> HIDE DEF Bad
        <5> QED BY <2>1, <2>2, <3>2
      <4> QED BY <4>1
    <3> QED BY <3>1, <3>2
  <2>4. c[e] = Extend(c[e - 1], s[e]) /\ s[e] \in S
    BY <2>2 DEF IsCovered
  <2>5. s[e].from >= i.from
    BY <1>4, <1>7, <2>2
  <2>6. s[e].from \in Int
    BY <2>4 DEF Ranges, LedgerDays
  <2> QED BY <1>1, <1>5, <1>7, <1>8, <2>2, <2>3, <2>4, <2>5, <2>6 DEF Extend
<1>10. c[len] = c[n - 1]
  BY <1>4, <1>9
<1> QED BY <1>1, <1>3, <1>5, <1>7, <1>8, <1>10

\* The loop over ordered ranges covers the wanted days exactly when each lies in some range.
LEMMA CoveredExact ==
    ASSUME NEW S \in SUBSET Ranges, Cardinality(S) \in Nat, NEW s, IsOrder(s, S),
           NEW first \in Int, NEW last \in Int, NEW c, IsCovered(c, s, first, Cardinality(S))
    PROVE  c[Cardinality(S)] >= last <=> Covers(S, first, last)
<1> DEFINE len == Cardinality(S)
<1>0. len \in Nat /\ len \in 0..len
  OBVIOUS
<1>1. s \in [1..len -> S] /\ Range(s) = S /\ \A a, b \in 1..len : a < b => s[a].from <= s[b].from
  BY DEF IsOrder
<1>2. IsCovered(c, s, first, len)
  OBVIOUS
<1> HIDE DEF len
<1>3. c[len] \in Int /\ Covers(S, first, c[len])
  BY <1>0, <1>1, <1>2, CoveredSound
<1>4. ASSUME c[len] >= last PROVE Covers(S, first, last)
  <2>1. ASSUME NEW d \in first..last PROVE d \in first..c[len]
    BY <1>3, <1>4
  <2> QED BY <1>3, <2>1 DEF Covers
<1>5. ASSUME Covers(S, first, last) PROVE c[len] >= last
  BY <1>0, <1>1, <1>2, <1>5, CoveredComplete
<1> QED BY <1>4, <1>5 DEF len

-----------------------------------------------------------------------------
\* The image of a finite set is finite.
LEMMA ImageFinite ==
    ASSUME NEW S, IsFiniteSet(S), NEW f
    PROVE  IsFiniteSet({f[x] : x \in S})
<1> DEFINE T == {f[x] : x \in S}
           g == [x \in S |-> f[x]]
<1>1. g \in Surjection(S, T)
  BY DEF Surjection
<1> HIDE DEF T, g
<1>2. IsFiniteSet(T)
  BY <1>1, FS_Surjection
<1> QED BY <1>2 DEF T

\* There are finitely many ranges of days.
LEMMA RangesFinite == IsFiniteSet(Ranges)
<1> DEFINE pairs == LedgerDays \X LedgerDays
           range == [p \in pairs |-> [from |-> p[1], to |-> p[2]]]
           image == {range[p] : p \in pairs}
<1>1. IsFiniteSet(LedgerDays)
  BY FS_Interval, ReconciliationAssumption DEF LedgerDays
<1>2. IsFiniteSet(pairs)
  BY <1>1, FS_Product
<1>3. IsFiniteSet(image)
  <2> HIDE DEF pairs, range
  <2> QED BY <1>2, ImageFinite
<1>4. ASSUME NEW i \in Ranges PROVE i \in image
  <2>1. <<i.from, i.to>> \in pairs /\ i = range[<<i.from, i.to>>]
    BY DEF Ranges
  <2> QED BY <2>1
<1>5. Ranges \subseteq image
  BY <1>4
<1> QED BY <1>3, <1>5, FS_Subset

\* reconciliationCoverageComplete answers "complete" exactly when each wanted day lies in some
\* range, for every set of ranges and every order that the sort may leave.
LEMMA CoverageIsExact ==
    ASSUME NEW R \in SUBSET Ranges, NEW w \in Ranges
    PROVE  CoverageComplete(R, w.from, w.to)
               <=> \A d \in w.from..w.to : \E i \in R : d \in i.from..i.to
<1> DEFINE S == {i \in R : i.to >= w.from /\ i.from <= w.to}
           s == InOrder(S)
           c == CoveredUntil(s, w.from)
<1>1. w.from \in Int /\ w.to \in Int /\ w.from <= w.to
  BY DEF Ranges, LedgerDays
<1>2. S \in SUBSET Ranges /\ IsFiniteSet(S)
  BY RangesFinite, FS_Subset
<1>3. IsOrder(s, S)
  <2> HIDE DEF S
  <2> QED BY <1>2, InOrderOrders
<1>4. Cardinality(S) \in Nat
  BY <1>2, FS_CardinalityType
<1> DEFINE len == Cardinality(S)
<1>5. s \in [1..len -> S]
  <2> HIDE DEF S, s
  <2> QED BY <1>3, Zenon DEF IsOrder
<1>6. Len(s) = len
  <2> HIDE DEF S, s
  <2> QED BY <1>4, <1>5
<1>7. IsCovered(c, s, w.from, len)
  <2> HIDE DEF S, s, c
  <2> USE DEF c
  <2> QED BY <1>4, <1>6, CoveredIs
<1>8. CoverageComplete(R, w.from, w.to) <=> c[len] >= w.to
  <2>1. CoverageComplete(R, w.from, w.to) <=> w.from <= w.to /\ c[Len(s)] >= w.to
    BY DEF CoverageComplete
  <2> HIDE DEF S, s, c
  <2> QED BY <1>1, <1>6, <2>1
<1>9. c[len] >= w.to <=> Covers(S, w.from, w.to)
  <2> HIDE DEF S, s, c
  <2> QED BY <1>1, <1>2, <1>3, <1>4, <1>7, CoveredExact
<1>10. \A d \in w.from..w.to : (\E i \in R : d \in i.from..i.to) <=> (\E i \in S : d \in i.from..i.to)
  <2>1. ASSUME NEW d \in w.from..w.to, NEW i \in R, d \in i.from..i.to PROVE i \in S
    <3>1. i.from \in Int /\ i.to \in Int
      BY DEF Ranges, LedgerDays
    <3> QED BY <1>1, <2>1, <3>1
  <2>2. S \subseteq R
    OBVIOUS
  <2> HIDE DEF S
  <2> QED BY <2>1, <2>2
<1> QED
  <2> HIDE DEF S, s, c
  <2> QED BY <1>8, <1>9, <1>10 DEF Covers

-----------------------------------------------------------------------------
(***************************************************************************)
(* Mismatches.                                                             *)
(***************************************************************************)
\* SetToSeq lists elements of a finite set, none of them twice.
LEMMA ListedOnce ==
    ASSUME NEW S, IsFiniteSet(S)
    PROVE  SetToSeq(S) \in Seq(S) /\ \A i, j \in DOMAIN SetToSeq(S) : i # j => SetToSeq(S)[i] # SetToSeq(S)[j]
<1>1. Cardinality(S) \in Nat
  BY FS_CardinalityType
<1>2. PICK f : f \in Bijection(1..Cardinality(S), S)
  BY FS_CardinalityType DEF ExistsBijection
<1>3. f \in [1..Cardinality(S) -> S] /\ IsInjective(f)
  BY <1>2, Zenon DEF Bijection, Injection
<1>4. \E g \in [1..Cardinality(S) -> S] : IsInjective(g)
  BY <1>3
<1>5. SetToSeq(S) \in [1..Cardinality(S) -> S] /\ IsInjective(SetToSeq(S))
  BY <1>4, Zenon DEF SetToSeq
<1>6. SetToSeq(S) \in Seq(S)
  BY <1>1, <1>5
<1> QED BY <1>5, <1>6 DEF IsInjective

\* The mismatches are listed, none of them twice.
ListedMismatches == mismatches \in Seq(Range(mismatches)) /\ MismatchOnce

ReconciliationInv == proofs \subseteq Ranges /\ ListedMismatches

\* What is reported again is not listed again.
LEMMA SaveKeepsOnce ==
    ASSUME ListedMismatches, NEW found, IsFiniteSet(found), SaveReconciliationIssue(found)
    PROVE  ListedMismatches'
<1> DEFINE new == {d \in found : d \notin Range(mismatches)}
           t == SetToSeq(new)
           all == Range(mismatches) \cup new
<1>1. IsFiniteSet(new)
  BY FS_Subset
<1>2. t \in Seq(new) /\ \A i, j \in DOMAIN t : i # j => t[i] # t[j]
  <2> HIDE DEF new
  <2> QED BY <1>1, ListedOnce
<1>3. mismatches' = mismatches \o t
  BY DEF SaveReconciliationIssue
<1>4. mismatches \in Seq(all) /\ t \in Seq(all)
  <2>1. mismatches \in Seq(Range(mismatches))
    BY DEF ListedMismatches
  <2> HIDE DEF new, t
  <2> QED BY <1>2, <2>1
<1>5. Len(mismatches) \in Nat /\ Len(t) \in Nat /\ Len(mismatches') = Len(mismatches) + Len(t)
  <2> HIDE DEF new, t, all
  <2> QED BY <1>3, <1>4
<1>6. /\ DOMAIN mismatches = 1..Len(mismatches) /\ DOMAIN t = 1..Len(t)
      /\ DOMAIN mismatches' = 1..Len(mismatches) + Len(t) /\ mismatches' \in Seq(all)
  <2> HIDE DEF new, t, all
  <2> QED BY <1>3, <1>4, <1>5
<1>7. \A i \in 1..Len(mismatches) : mismatches'[i] = mismatches[i] /\ mismatches'[i] \in Range(mismatches)
  <2>1. \A i \in 1..Len(mismatches) : mismatches'[i] = mismatches[i]
    <3> HIDE DEF new, t, all
    <3> QED BY <1>3, <1>4, <1>5
  <2> HIDE DEF new, t, all
  <2> QED BY <1>6, <2>1 DEF Range
<1>8. ASSUME NEW i \in 1..Len(mismatches) + Len(t), i > Len(mismatches)
      PROVE  /\ i - Len(mismatches) \in 1..Len(t) /\ mismatches'[i] = t[i - Len(mismatches)]
             /\ mismatches'[i] \notin Range(mismatches)
  <2>1. i - Len(mismatches) \in 1..Len(t)
    <3> HIDE DEF new, t, all
    <3> QED BY <1>5, <1>8
  <2>2. mismatches'[i] = t[i - Len(mismatches)]
    <3> HIDE DEF new, t, all
    <3> QED BY <1>3, <1>4, <1>5, <1>8
  <2>3. t[i - Len(mismatches)] \in new
    <3> HIDE DEF new, t, all
    <3> QED BY <1>2, <2>1
  <2> QED BY <2>1, <2>2, <2>3
<1>9. ASSUME NEW i \in DOMAIN mismatches', NEW j \in DOMAIN mismatches', i # j
      PROVE  mismatches'[i] # mismatches'[j]
  <2> HIDE DEF new, t, all
  <2>0. i \in Nat /\ j \in Nat
    BY <1>6
  <2>1. CASE i <= Len(mismatches) /\ j <= Len(mismatches)
    <3>1. i \in DOMAIN mismatches /\ j \in DOMAIN mismatches
      BY <1>5, <1>6, <2>1
    <3>2. mismatches[i] # mismatches[j]
      BY <1>9, <3>1 DEF ListedMismatches, MismatchOnce
    <3> QED BY <1>6, <1>7, <3>1, <3>2
  <2>2. CASE i <= Len(mismatches) /\ j > Len(mismatches)
    BY <1>5, <1>6, <1>7, <1>8, <2>2
  <2>3. CASE i > Len(mismatches) /\ j <= Len(mismatches)
    BY <1>5, <1>6, <1>7, <1>8, <2>3
  <2>4. CASE i > Len(mismatches) /\ j > Len(mismatches)
    <3>1. i - Len(mismatches) \in DOMAIN t /\ j - Len(mismatches) \in DOMAIN t
      BY <1>6, <1>8, <2>4
    <3>2. i - Len(mismatches) # j - Len(mismatches)
      BY <1>5, <2>0, <1>9
    <3>3. t[i - Len(mismatches)] # t[j - Len(mismatches)]
      BY <1>2, <3>1, <3>2
    <3> QED BY <1>6, <1>8, <2>4, <3>3
  <2> QED BY <1>5, <2>0, <2>1, <2>2, <2>3, <2>4
<1>10. mismatches' \in Seq(Range(mismatches'))
  <2>1. \A i \in 1..Len(mismatches') : mismatches'[i] \in Range(mismatches')
    <3> HIDE DEF new, t, all
    <3> QED BY <1>5, <1>6 DEF Range
  <2> HIDE DEF new, t, all
  <2> QED BY <1>5, <1>6, <2>1
<1> HIDE DEF new, t, all
<1> QED BY <1>9, <1>10 DEF ListedMismatches, MismatchOnce

\* A job reports a finite number of balances.
LEMMA JobKeepsOnce ==
    ASSUME ReconciliationInv, NEW first, NEW last, NEW own, NEW decided,
           ReconcileHistoryJob(first, last, own, decided)
    PROVE  ReconciliationInv'
<1>1. PICK c \in {Latest(first, last)} \ {0} : \E o \in {Latest(1, snapshots[c].date - 1)} \ {0} :
        LET items == Between(snapshots[o].date, snapshots[c].date)
            wrong == {k \in BalanceKeys : Expected(snapshots[o], k, items) # snapshots[c].balances[k]} IN
        /\ SaveReconciliationIssue({[opening |-> o, closing |-> c, key |-> k, expected |-> Expected(snapshots[o], k, items)] : k \in wrong})
        /\ UNCHANGED proofs
  BY DEF ReconcileHistoryJob
<1>2. PICK o \in {Latest(1, snapshots[c].date - 1)} \ {0} :
        LET items == Between(snapshots[o].date, snapshots[c].date)
            wrong == {k \in BalanceKeys : Expected(snapshots[o], k, items) # snapshots[c].balances[k]} IN
        /\ SaveReconciliationIssue({[opening |-> o, closing |-> c, key |-> k, expected |-> Expected(snapshots[o], k, items)] : k \in wrong})
        /\ UNCHANGED proofs
  BY <1>1
<1> DEFINE items == Between(snapshots[o].date, snapshots[c].date)
           issue == [k \in BalanceKeys |-> [opening |-> o, closing |-> c, key |-> k, expected |-> Expected(snapshots[o], k, items)]]
           wrong == {k \in BalanceKeys : Expected(snapshots[o], k, items) # snapshots[c].balances[k]}
           found == {issue[k] : k \in wrong}
<1>3. found = {[opening |-> o, closing |-> c, key |-> k, expected |-> Expected(snapshots[o], k, items)] : k \in wrong}
  BY Zenon
<1>4. SaveReconciliationIssue(found) /\ UNCHANGED proofs
  BY <1>2, <1>3
<1>5. IsFiniteSet(wrong)
  BY FS_Subset, ReconciliationAssumption
<1>6. IsFiniteSet(found)
  <2> HIDE DEF issue, wrong
  <2> QED BY <1>5, ImageFinite
<1>7. ListedMismatches'
  <2> HIDE DEF found
  <2> QED BY <1>4, <1>6, SaveKeepsOnce DEF ReconciliationInv
<1> QED BY <1>4, <1>7 DEF ReconciliationInv

\* ReconciliationInv is inductive.
LEMMA ReconciliationBegins == ReconciliationInit => ReconciliationInv
BY DEF ReconciliationInit, ReconciliationInv, ListedMismatches, MismatchOnce

LEMMA ReconciliationStep ==
    ReconciliationInv /\ [ReconciliationNext]_reconciliationVars => ReconciliationInv'
<1> SUFFICES ASSUME ReconciliationInv, [ReconciliationNext]_reconciliationVars PROVE ReconciliationInv'
  OBVIOUS
<1>1. ASSUME UNCHANGED <<proofs, mismatches>> PROVE ReconciliationInv'
  BY <1>1 DEF ReconciliationInv, ListedMismatches, MismatchOnce
<1>2. ASSUME NEW d \in LedgerDays, NEW g \in Grades, NEW b \in [BalanceKeys -> Amounts], SaveSnapshot(d, g, b)
      PROVE  ReconciliationInv'
  BY <1>1, <1>2 DEF SaveSnapshot
<1>3. ASSUME NEW before \in {{}} \cup {{i} : i \in proofs}, NEW now \in {{}} \cup {{i} : i \in Ranges},
             RecordProof(before, now)
      PROVE  ReconciliationInv'
  BY <1>3 DEF RecordProof, ReconciliationInv, ListedMismatches, MismatchOnce
<1>4. ASSUME NEW n \in 1..MaxEntries, NEW e \in Entry, CommitEntry(n, e)
      PROVE  ReconciliationInv'
  BY <1>1, <1>4 DEF CommitEntry
<1>5. ASSUME NEW i \in Ranges, NEW own \in {{}, {i}}, NEW decided \in BOOLEAN,
             ReconcileHistoryJob(i.from, i.to, own, decided)
      PROVE  ReconciliationInv'
  BY <1>5, JobKeepsOnce
<1>6. CASE UNCHANGED reconciliationVars
  BY <1>1, <1>6 DEF reconciliationVars
<1> QED BY <1>2, <1>3, <1>4, <1>5, <1>6 DEF ReconciliationNext

LEMMA ReconciliationInvariance == ReconciliationSpec => []ReconciliationInv
<1> QED BY ReconciliationBegins, ReconciliationStep, PTL DEF ReconciliationSpec

\* For every number of days and every set of ranges, in whatever order the sort leaves those of
\* the same first day, the loop over the ranges finds coverage complete exactly when it is; and a
\* mismatch is listed once, however many jobs meet it.
THEOREM LedgerReconciledExactly == ReconciliationSpec => []ReconciledExactly
<1>1. ReconciliationInv => ReconciledExactly
  <2> SUFFICES ASSUME ReconciliationInv PROVE CoverageExact /\ MismatchOnce
    BY DEF ReconciledExactly
  <2>1. CoverageExact
    BY CoverageIsExact, Zenon DEF CoverageExact, ReconciliationInv
  <2> QED BY <2>1 DEF ReconciliationInv, ListedMismatches
<1> QED BY <1>1, ReconciliationInvariance, PTL
=============================================================================
