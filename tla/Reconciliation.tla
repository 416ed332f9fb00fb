--------------------------- MODULE Reconciliation ---------------------------
(***************************************************************************)
(* Reconciling an account's ledger with its balances:                      *)
(* ReconcileHistoryJob of internal/store/activity_reconciliation.go and    *)
(* Reconcile of internal/activity/validation.go, for one account.          *)
(*                                                                         *)
(* Snapshots of balances, proofs that a range of days was fetched and      *)
(* activities accumulate; jobs reconcile whatever is there, again and      *)
(* again.  The transaction holds the account's row, so it is one step.     *)
(***************************************************************************)
EXTENDS FiniteSets, FiniteSetsExt, Integers, Sequences, SequencesExt

CONSTANTS
    LastDay,        \* days are 1..LastDay
    BalanceKeys,    \* balances: currencies and instruments
    Amounts,        \* values of balances and of legs
    MaxSnapshots,   \* bound: snapshots stored
    MaxProofs,      \* bound: ranges recorded as completely fetched and normalised
    MaxEntries,     \* bound: activities
    MaxMismatches   \* bound: open issues

ASSUME ReconciliationAssumption ==
    /\ LastDay \in Nat \ {0} /\ Amounts \subseteq Int
    /\ IsFiniteSet(BalanceKeys)
    /\ {MaxSnapshots, MaxProofs, MaxEntries, MaxMismatches} \subseteq Nat

LedgerDays == 1..LastDay
Ranges == {i \in [from : LedgerDays, to : LedgerDays] : i.from <= i.to}

\* The basis of a complete snapshot; a partial one proves nothing on either basis.
Grades == {"trade_date", "settled", "partial"}

VARIABLES
    snapshots,      \* account_reconciliation_snapshots in the order of their creation
    proofs,         \* complete rows of broker_history_coverage
    entries,        \* current revisions: date, status, key and amount, by their number
    mismatches      \* open issues of type balance_mismatch

reconciliationVars == <<snapshots, proofs, entries, mismatches>>

ReconciliationInit ==
    /\ snapshots = <<>> /\ proofs = {} /\ entries = <<>>
    /\ mismatches = <<>>

-----------------------------------------------------------------------------
\* historySnapshot: the last one of the range, of those the one created last.
Latest(from, to) ==
    LET in == {i \in DOMAIN snapshots : snapshots[i].date \in from..to}
        last == {i \in in : \A j \in in : snapshots[j].date <= snapshots[i].date} IN
    IF in = {} THEN 0 ELSE Max(last)

\* A gap between two ranges is not noticed.
ExtendOverGaps(done, i) == IF done < i.to THEN i.to ELSE done

\* One turn of the loop over the ranges: a range that starts after the day to come is a gap,
\* and the days covered so far stay what they are.
Extend(done, i) == IF i.from > done + 1 THEN done ELSE IF done < i.to THEN i.to ELSE done

\* sort.Slice by the first day, which leaves ranges of the same first day in any order.
InOrder(ranges) ==
    CHOOSE s \in [1..Cardinality(ranges) -> ranges] :
        Range(s) = ranges /\ \A a, b \in DOMAIN s : a < b => s[a].from <= s[b].from

\* coveredUntil after the first n ranges of s.
CoveredUntil(s, from) ==
    LET covered[n \in 0..Len(s)] == IF n = 0 THEN from - 1 ELSE Extend(covered[n - 1], s[n]) IN covered

\* reconciliationCoverageComplete: the ranges that touch the wanted one, by their first day.
CoverageComplete(ranges, from, to) ==
    LET touching == InOrder({i \in ranges : i.to >= from /\ i.from <= to}) IN
    from <= to /\ CoveredUntil(touching, from)[Len(touching)] >= to

\* reconciliationActivities: after the opening day, up to and including the closing day.
Between(opening, closing) == {e \in Range(entries) : opening < e.date /\ e.date <= closing}

\* Reconcile: what the opening balance and the booked legs of the same key add up to.  What is
\* in neither snapshot counts as zero when all preconditions hold.
Expected(opening, k, items) ==
    opening.balances[k] + MapThenSumSet(LAMBDA e : e.amount, {e \in items : e.status = "booked" /\ e.key = k})

\* Every job that finds a mismatch reports it.
SaveReconciliationIssueAlways(found) == mismatches' = mismatches \o SetToSeq(found)

\* saveReconciliationIssue, once for each key: not when an open issue has the same details.
SaveReconciliationIssue(found) ==
    mismatches' = mismatches \o SetToSeq({d \in found : d \notin Range(mismatches)})

\* ReconcileHistoryJob of a job for from..to, with the coverage it proves itself and whether
\* all its records were decided.
ReconcileHistoryJob(from, to, own, decided) ==
    \E c \in {Latest(from, to)} \ {0} : \E o \in {Latest(1, snapshots[c].date - 1)} \ {0} :
        LET closing == snapshots[c]
            opening == snapshots[o]
            items == Between(opening.date, closing.date)
            complete ==
                /\ decided /\ opening.grade = closing.grade /\ closing.grade # "partial"
                /\ CoverageComplete(proofs \cup own, opening.date + 1, closing.date)
                /\ \A e \in items : e.status \in {"booked", "voided"}
            wrong == {k \in BalanceKeys : Expected(opening, k, items) # closing.balances[k]}
            details == {[opening |-> o, closing |-> c, key |-> k, expected |-> Expected(opening, k, items)] : k \in wrong} IN
        \* The statuses unknown, incomplete and passed are the job's result and change nothing here.
        /\ complete /\ wrong # {}
        /\ SaveReconciliationIssue(details)
        /\ Len(mismatches') <= MaxMismatches
        /\ UNCHANGED <<snapshots, proofs, entries>>

-----------------------------------------------------------------------------
\* SaveHistorySnapshots.  (One of a date, basis and source reference that is stored already is
\* skipped.)
SaveSnapshot(date, grade, balances) ==
    /\ Len(snapshots) < MaxSnapshots
    /\ snapshots' = Append(snapshots, [date |-> date, grade |-> grade, balances |-> balances])
    /\ UNCHANGED <<proofs, entries, mismatches>>

\* SaveHistoryCoverage: the complete range of a job, if it has one, replaces the one it recorded
\* before it was retried, if it did.
RecordProof(before, now) ==
    /\ proofs' = (proofs \ before) \cup now
    /\ Cardinality(proofs') <= MaxProofs
    /\ UNCHANGED <<snapshots, entries, mismatches>>

\* An activity becomes current, or a revision of it does.
CommitEntry(n, entry) ==
    /\ n \in 1..Len(entries) + 1 /\ n <= MaxEntries
    /\ entries' = IF n > Len(entries) THEN Append(entries, entry) ELSE [entries EXCEPT ![n] = entry]
    /\ UNCHANGED <<snapshots, proofs, mismatches>>

Entry == [date : LedgerDays, status : {"booked", "voided", "under review"}, key : BalanceKeys, amount : Amounts \ {0}]

ReconciliationNext ==
    \/ \E d \in LedgerDays, g \in Grades, b \in [BalanceKeys -> Amounts] : SaveSnapshot(d, g, b)
    \/ \E before \in {{}} \cup {{i} : i \in proofs}, now \in {{}} \cup {{i} : i \in Ranges} :
          before # now /\ RecordProof(before, now)
    \/ \E n \in 1..MaxEntries, e \in Entry : CommitEntry(n, e)
    \/ \E i \in Ranges : \E own \in {{}, {i}}, decided \in BOOLEAN :
          ReconcileHistoryJob(i.from, i.to, own, decided)

ReconciliationSpec == ReconciliationInit /\ [][ReconciliationNext]_reconciliationVars

-----------------------------------------------------------------------------
(***************************************************************************)
(* Properties                                                              *)
(***************************************************************************)
ReconciliationTypeOK ==
    /\ proofs \subseteq Ranges
    /\ \A s \in Range(snapshots) : s.date \in LedgerDays /\ s.grade \in Grades
    /\ Range(entries) \subseteq Entry

\* The loop over sorted ranges in reconciliationCoverageComplete says "complete" exactly when
\* each wanted day lies in some range, however the ranges overlap, touch or repeat.
CoverageExact ==
    \A w \in Ranges :
        CoverageComplete(proofs, w.from, w.to)
            <=> \A d \in w.from..w.to : \E i \in proofs : d \in i.from..i.to

\* However many jobs meet the same mismatch, it is reported once.
MismatchOnce == \A i, j \in DOMAIN mismatches : i # j => mismatches[i] # mismatches[j]

\* What a reconciliation covers, and what it reports, when jobs repeat each other's work.
ReconciledExactly == CoverageExact /\ MismatchOnce
=============================================================================
