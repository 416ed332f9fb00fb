--------------------------- MODULE ActivityLedger ---------------------------
(***************************************************************************)
(* The ledger of account activities: how normalizeHistoryRecord            *)
(* (internal/store/activity_records.go) turns raw records into revisions   *)
(* of activities, how a reviewer's decisions (activity_resolution.go and   *)
(* ResolveHistoryIssue) add revisions, and how a listing is paged.         *)
(*                                                                         *)
(* Every operation is one transaction that first updates the account's row *)
(* and so is serialised with the others.  A raw record is its parsed       *)
(* content under each version of the parser's rules.  An activity is named *)
(* after the raw record that created it.  Of its revisions only the        *)
(* current one is kept, and which raw records were ever principal.         *)
(***************************************************************************)
EXTENDS FiniteSets, Integers

CONSTANTS
    Raws,           \* ids of raw records; the order of ids is the listing's second key
    Worlds,         \* functions from ids to the contents of raw records
    LedgerAccounts,
    NewRule         \* the last version of the parser's rules; the first is 1

ASSUME LedgerAssumption ==
    /\ Raws \subseteq Nat /\ IsFiniteSet(Raws) /\ NewRule \in Nat \ {0}
    /\ \A w \in Worlds : \A r \in Raws : w[r].account \in LedgerAccounts /\ w[r].date \in Int

NoRow == -1

VARIABLES
    rec,            \* the content of every raw record
    rule,           \* activity.RuleVersion of the running program
    parsedBy,       \* broker_raw_records: the rules that parsed it; 0 before it is stored
    rawStatus,      \* ... and "none", "pending", "done", "needs_review" or "unsupported"
    identities,     \* broker_activity_identities: <<account, identity, activity>>
    current,        \* the current revision of an activity, see NoRevision
    principals,     \* raw records that were principal of a revision of the activity
    issues,         \* activity_reconciliation_issues about a raw record
    duplicateOf,    \* activity_links of type duplicate_of
    transfers,      \* activity_links of type transfer_pair
    generation,     \* activity_generation of every account; the performance mark moves with it
    listed          \* a client that pages through the listing

ledgerVars == <<rec, rule, parsedBy, rawStatus, identities, current, principals, issues,
                duplicateOf, transfers, generation, listed>>

manualReviewSourcePriority == 1000
acceptedRevisionSourcePriority == 100

NoRevision ==
    [no |-> 0, kind |-> "none", date |-> 0, legs |-> {}, cost |-> FALSE, mark |-> "none",
     priority |-> 0, time |-> 0, rule |-> 0, principal |-> NoRow, others |-> {}]

\* A mark is a status with its warnings: these three are needs_review.
Review == {"overlap", "unclear", "ambiguous"}

Activities == {a \in Raws : current[a].no > 0}

-----------------------------------------------------------------------------
(***************************************************************************)
(* What a record says                                                      *)
(***************************************************************************)
Effects(x) == [kind |-> x.kind, date |-> x.date, legs |-> x.legs, cost |-> x.cost, mark |-> x.mark]

Parsed(r) ==
    LET x == rec[r] IN
    [kind |-> x.kind, date |-> x.date, legs |-> x.legs, cost |-> x.cost, mark |-> x.marks[parsedBy[r]]]

\* The source's own key and, when the source reports one, the execution's identity.
IdentitiesOf(r) ==
    {<<rec[r].source, rec[r].key>>} \cup {<<"execution", e>> : e \in {rec[r].exec} \ {"none"}}

\* Only the source's own key is looked up.
MatchedByKeyOnly(r) ==
    {i[3] : i \in {j \in identities : j[1] = rec[r].account /\ j[2] = <<rec[r].source, rec[r].key>>}}

Matched(r) == {i[3] : i \in {j \in identities : j[1] = rec[r].account /\ j[2] \in IdentitiesOf(r)}}

Priority(r) == IF rec[r].source = "flex" THEN 30 ELSE 10

\* A time of 0 is missing or without a zone.
Newer(r, old) == old.time > 0 /\ rec[r].time > old.time

\* transferCostOnlyEnrichment
Enriches(next, old) ==
    /\ old.kind = "transfer" /\ old.mark = "effective" /\ ~old.cost /\ next.cost
    /\ [next EXCEPT !.cost = FALSE] = Effects(old)

-----------------------------------------------------------------------------
(***************************************************************************)
(* normalizeHistoryRecord                                                  *)
(***************************************************************************)
RuleUpgrade(r, old) ==
    /\ old.no > 0 /\ old.rule # rule
    /\ old.priority < acceptedRevisionSourcePriority
    /\ old.principal = r

CostOnly(r, old) ==
    /\ old.priority # acceptedRevisionSourcePriority /\ Priority(r) >= old.priority
    /\ Enriches(Parsed(r), old)

\* The record replaces the current revision of the activity a.
Replaces(r, a) ==
    LET old == current[a] IN
    \/ old.no = 0
    \/ /\ Effects(Parsed(r)) # Effects(old)
       /\ ~\E t \in Raws : <<a, t>> \in duplicateOf
       /\ \/ Priority(r) > old.priority
          \/ Priority(r) = old.priority /\ Newer(r, old)
          \/ CostOnly(r, old)
          \/ RuleUpgrade(r, old)

\* Nobody can tell which of two contents is the later one.
UnorderedConflict(r, a) ==
    LET old == current[a]
        accepted == old.priority = acceptedRevisionSourcePriority IN
    /\ old.no > 0
    /\ (Priority(r) = old.priority /\ ~Newer(r, old)) \/ (accepted /\ Priority(r) >= 30)
    /\ Effects(Parsed(r)) # Effects(old)
    /\ old.time \in {0, rec[r].time} \/ rec[r].time = 0 \/ (accepted /\ Newer(r, old))
    /\ ~CostOnly(r, old) /\ ~RuleUpgrade(r, old)
    /\ ~\E t \in Raws : <<a, t>> \in duplicateOf

\* The fingerprint: legs, trade date and type.
LooksLike(x, y) == x.legs = y.legs /\ x.date = y.date /\ x.kind = y.kind

\* Another activity looks the same, and no execution identity tells them apart.
AmbiguousDuplicate(r, a) ==
    LET candidates == {c \in Activities \ {a} : rec[c].account = rec[r].account /\ LooksLike(current[c], Parsed(r))}
        cross(c) == \E p \in principals[c] : rec[p].source # rec[r].source
        comparable(c) == rec[r].exec # "none" /\ \E e \in identities : e[3] = c /\ e[2][1] = "execution" IN
    /\ candidates # {}
    /\ rec[r].exec = "none" \/ \E c \in candidates : cross(c) /\ ~comparable(c)

\* Only the first revision of an activity is held against its lookalikes.
Booked(r, a) ==
    IF current[a].no = 0 /\ Parsed(r).mark = "effective" /\ AmbiguousDuplicate(r, a)
    THEN [Parsed(r) EXCEPT !.mark = "ambiguous"] ELSE Parsed(r)

\* A new current revision; the old one's sources corroborate it.
NewRevision(a, effects, priority, time, by, principal) ==
    LET old == current[a] IN
    [no |-> old.no + 1, kind |-> effects.kind, date |-> effects.date, legs |-> effects.legs,
     cost |-> effects.cost, mark |-> effects.mark, priority |-> priority, time |-> time,
     rule |-> by, principal |-> principal,
     others |-> (old.others \cup {old.principal}) \ {principal, NoRow}]

Bump(accounts) ==
    generation' = [x \in LedgerAccounts |-> IF x \in accounts THEN generation[x] + 1 ELSE generation[x]]

\* Issues are told apart by the revision they were opened at.
Issue(r, a, type, mark) ==
    [raw |-> r, activity |-> a, type |-> type, mark |-> mark, seen |-> current[a].no,
     proposed |-> Parsed(r), open |-> TRUE]

\* Only a new activity opens an issue.
ReviewIssueOnce(r, a, mark) == IF current[a].no = 0 THEN {Issue(r, a, "review", mark)} ELSE {}

ReviewIssue(r, a, mark) == {Issue(r, a, "review", mark)}

Close(closing) == {IF i \in closing THEN [i EXCEPT !.open = FALSE] ELSE i : i \in issues}

\* Two identities that belong to two activities fail the job and leave the record pending.
Normalize(r) ==
    LET a == IF Matched(r) = {} THEN r ELSE CHOOSE x \in Matched(r) : TRUE
        old == current[a]
        replace == Replaces(r, a)
        conflict == UnorderedConflict(r, a)
        booked == Booked(r, a)
        upgraded == RuleUpgrade(r, old)
        superseded == {i \in issues : upgraded /\ replace /\ i.raw = r /\ i.open}
        same == upgraded /\ ~replace
        problem == booked.mark \in Review \cup {"unsupported"}
        verdict == IF booked.mark = "unsupported" THEN "unsupported" ELSE "needs_review" IN
    /\ rawStatus[r] = "pending"
    /\ Cardinality(Matched(r)) <= 1
    /\ IF replace
       THEN /\ current' = [current EXCEPT ![a] =
                    NewRevision(a, booked, Priority(r), rec[r].time, rule, r)]
            /\ principals' = [principals EXCEPT ![a] = @ \cup {r}]
            /\ Bump({rec[r].account})
       ELSE /\ current' = [current EXCEPT ![a].others = @ \cup ({r} \ {old.principal})]
            /\ UNCHANGED <<principals, generation>>
    /\ identities' = identities \cup
            {<<rec[r].account, i, a>> : i \in {j \in IdentitiesOf(r) :
                ~\E e \in identities : e[1] = rec[r].account /\ e[2] = j}}
    /\ issues' = Close(superseded)
            \cup (IF conflict THEN {Issue(r, a, "conflict", booked.mark)} ELSE {})
            \cup (IF replace /\ problem THEN ReviewIssue(r, a, booked.mark) ELSE {})
    /\ rawStatus' = [rawStatus EXCEPT ![r] =
            IF (replace \/ same) /\ problem THEN verdict ELSE IF conflict THEN "needs_review" ELSE "done"]
    /\ UNCHANGED <<rec, rule, parsedBy, duplicateOf, transfers, listed>>

\* SaveHistoryRaw: a record parsed by other rules than the stored one is normalised again.
SaveHistoryRaw(r) ==
    /\ parsedBy[r] # rule
    /\ parsedBy' = [parsedBy EXCEPT ![r] = rule]
    /\ rawStatus' = [rawStatus EXCEPT ![r] = "pending"]
    /\ UNCHANGED <<rec, rule, identities, current, principals, issues, duplicateOf, transfers,
                   generation, listed>>

\* The program is replaced by one with other rules.
Upgrade ==
    /\ rule < NewRule
    /\ rule' = rule + 1
    /\ UNCHANGED <<rec, parsedBy, rawStatus, identities, current, principals, issues, duplicateOf,
                   transfers, generation, listed>>

-----------------------------------------------------------------------------
(***************************************************************************)
(* Decisions of a reviewer, each about an open issue                       *)
(***************************************************************************)
\* hasDuplicateResolutionEvidence
DuplicateEvidence(i) == i.type = "review" /\ i.mark \in {"ambiguous", "overlap"}

\* The record of the issue is still what the current revision, under review, was made from.
UnderReview(i) ==
    /\ i.open /\ DuplicateEvidence(i)
    /\ current[i.activity].mark \in Review
    /\ current[i.activity].principal = i.raw

\* Records that do not validate cannot be booked by a decision.
ValidMark(mark) == mark \notin {"unsupported", "unclear"}

\* What both decisions and the acceptance of a revision end with.
Decide(i, revision) ==
    /\ current' = [current EXCEPT ![i.activity] = revision]
    /\ principals' = [principals EXCEPT ![i.activity] = @ \cup {revision.principal}]
    /\ rawStatus' = [rawStatus EXCEPT ![i.raw] = "done"]
    /\ issues' = Close({i})
    /\ Bump({rec[i.raw].account})
    /\ UNCHANGED <<rec, rule, parsedBy, identities, transfers, listed>>

ManualRevision(i, effects) ==
    NewRevision(i.activity, effects, manualReviewSourcePriority, current[i.activity].time, 0, i.raw)

ConfirmDistinct(i) ==
    /\ UnderReview(i) /\ ValidMark(Parsed(i.raw).mark)
    /\ Decide(i, ManualRevision(i, [Parsed(i.raw) EXCEPT !.mark = "effective"]))
    /\ UNCHANGED duplicateOf

\* duplicateDatesMatch and activityEffectsContained
SameEvent(x, y) == x.date = y.date /\ x.legs # {} /\ x.legs \subseteq y.legs

\* The target gets the record as corroboration, the record's own activity is voided.
ConfirmSame(i, t) ==
    LET voided == ManualRevision(i, [Effects(current[i.activity]) EXCEPT !.mark = "voided"]) IN
    /\ UnderReview(i) /\ ValidMark(Parsed(i.raw).mark) /\ Parsed(i.raw).mark # "voided"
    /\ t \in Activities \ {i.activity}
    /\ rec[t].account = rec[i.raw].account /\ current[t].mark = "effective"
    /\ SameEvent(Parsed(i.raw), current[t])
    /\ duplicateOf' = duplicateOf \cup {<<i.activity, t>>}
    /\ current' = [current EXCEPT ![i.activity] = voided,
                                  ![t].others = @ \cup ({i.raw} \ {current[t].principal})]
    /\ rawStatus' = [rawStatus EXCEPT ![i.raw] = "done"]
    /\ issues' = Close({i})
    /\ Bump({rec[i.raw].account})
    /\ UNCHANGED <<rec, rule, parsedBy, identities, principals, transfers, listed>>

\* A conflict may be accepted whatever happened since it was seen.
FreshConflictAny(i) == i.open /\ i.type = "conflict"

\* accept_revision: only against the revision the conflict was reported at.
FreshConflict(i) ==
    /\ i.open /\ i.type = "conflict"
    /\ current[i.activity].no = i.seen
    /\ i.raw \in current[i.activity].others

AcceptRevision(i) ==
    /\ FreshConflict(i)
    /\ Parsed(i.raw).mark \in {"effective", "voided"} /\ Parsed(i.raw) = i.proposed
    /\ Decide(i, NewRevision(i.activity, Parsed(i.raw), acceptedRevisionSourcePriority,
                             rec[i.raw].time, 0, i.raw))
    /\ UNCHANGED duplicateOf

\* link_transfer looks neither at the status nor at the type of the issue.  (A pair that is
\* linked again changes only the generations; keep_pending changes nothing.)
LinkTransfer(i, t) ==
    LET x == current[i.activity] IN
    /\ t \in Activities \ {i.activity} /\ <<i.activity, t>> \notin transfers
    /\ rec[t].account # rec[i.activity].account
    /\ x.kind = "transfer" /\ current[t].kind = "transfer"
    /\ x.legs # {} /\ current[t].legs = {-l : l \in x.legs}
    /\ transfers' = transfers \cup {<<i.activity, t>>}
    /\ issues' = Close({i})
    /\ Bump({rec[i.activity].account, rec[t].account})
    /\ UNCHANGED <<rec, rule, parsedBy, rawStatus, identities, current, principals, duplicateOf, listed>>

-----------------------------------------------------------------------------
(***************************************************************************)
(* ListActivities, in pages of one activity: newest date first, then by id *)
(***************************************************************************)
NoCursor == [date |-> 0, id |-> NoRow]
Idle == [cursor |-> NoCursor, generation |-> generation, shown |-> {}]

Position(a) == [date |-> current[a].date, id |-> a]

\* v.sort_key<? OR (v.sort_key=? AND a.id<?)
Under(x, y) == x.date < y.date \/ (x.date = y.date /\ x.id < y.id)

Below(cursor) == {a \in Activities : cursor = NoCursor \/ Under(Position(a), cursor)}

\* A cursor is followed whatever has changed.
CursorStaleNever == FALSE

\* A cursor of another generation is refused and the client starts over.
CursorStale == listed.cursor # NoCursor /\ listed.generation # generation

NextPage ==
    LET rows == Below(listed.cursor) IN
    /\ Activities # {}
    /\ IF CursorStale \/ Cardinality(rows) <= 1 THEN listed' = Idle
       ELSE \E row \in rows :
            /\ \A b \in rows \ {row} : Under(Position(b), Position(row))
            /\ listed' = [cursor |-> Position(row), generation |-> generation,
                          shown |-> listed.shown \cup {<<row, current[row].no>>}]
    /\ UNCHANGED <<rec, rule, parsedBy, rawStatus, identities, current, principals, issues,
                   duplicateOf, transfers, generation>>

LedgerInit ==
    /\ rec \in Worlds
    /\ rule = 1
    /\ parsedBy = [r \in Raws |-> 0] /\ rawStatus = [r \in Raws |-> "none"]
    /\ identities = {} /\ issues = {} /\ duplicateOf = {} /\ transfers = {}
    /\ current = [r \in Raws |-> NoRevision] /\ principals = [r \in Raws |-> {}]
    /\ generation = [x \in LedgerAccounts |-> 0]
    /\ listed = Idle

LedgerNext ==
    \/ \E r \in Raws : SaveHistoryRaw(r) \/ Normalize(r)
    \/ Upgrade
    \/ \E i \in issues : \/ ConfirmDistinct(i) \/ AcceptRevision(i)
                         \/ \E t \in Raws : ConfirmSame(i, t) \/ LinkTransfer(i, t)
    \/ NextPage

LedgerSpec == LedgerInit /\ [][LedgerNext]_ledgerVars

-----------------------------------------------------------------------------
(***************************************************************************)
(* Properties                                                              *)
(***************************************************************************)
LedgerTypeOK ==
    /\ rec \in Worlds /\ rule \in 1..NewRule
    /\ parsedBy \in [Raws -> 0..NewRule]
    /\ rawStatus \in [Raws -> {"none", "pending", "done", "needs_review", "unsupported"}]
    /\ \A e \in identities : e[1] \in LedgerAccounts /\ e[3] \in Raws
    /\ duplicateOf \subseteq Raws \X Raws /\ transfers \subseteq Raws \X Raws
    /\ generation \in [LedgerAccounts -> Nat]

\* What shares an identity is one activity: whatever order the sources' records and their
\* corrections arrive in, two records of an account with a common source key or execution
\* never stand behind two activities (the lookups and the ON CONFLICT DO NOTHING of
\* normalizeHistoryRecord).
OneActivityPerIdentity ==
    \A a, b \in Activities : a # b /\ rec[a].account = rec[b].account =>
        \A r \in principals[a], s \in principals[b] : IdentitiesOf(r) \cap IdentitiesOf(s) = {}

\* A reviewer's decision on a duplicate is final: no later record, parser upgrade or acceptance
\* of an older conflict changes the activity again.
ReviewStands ==
    [][\A a \in Activities : current[a].priority = manualReviewSourcePriority =>
          current'[a].no = current[a].no]_ledgerVars

\* Nothing under review is forgotten: the record behind a current revision that needs review
\* has an open issue, unless somebody linked the activity as a transfer.
ReviewListed ==
    \A a \in Activities :
        \/ current[a].mark \notin Review
        \/ \E i \in issues : i.activity = a /\ i.raw = current[a].principal /\ i.open
        \/ \E t \in Raws : <<a, t>> \in transfers

\* Pages of one listing fit together: with a cursor that is still accepted, the client has
\* been shown exactly the current revisions above it, none twice and none skipped.
PagesAgree ==
    listed.cursor # NoCursor /\ listed.generation = generation =>
        listed.shown = {<<a, current[a].no>> : a \in Activities \ Below(listed.cursor)}

\* "Weak cross-source lookalikes are quarantined rather than silently double booked": two
\* activities that look the same, one of which has no execution identity, are not both
\* effective unless a reviewer decided so.
LookalikesQuarantined ==
    \A a, b \in Activities :
        a # b /\ rec[a].account = rec[b].account /\ LooksLike(current[a], current[b])
        /\ current[a].mark = "effective" /\ current[b].mark = "effective"
        /\ rec[current[a].principal].exec = "none"
        => acceptedRevisionSourcePriority <= current[a].priority
           \/ acceptedRevisionSourcePriority <= current[b].priority
=============================================================================
