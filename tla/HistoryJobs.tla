---------------------------- MODULE HistoryJobs ----------------------------
(***************************************************************************)
(* The durable job queue that drives every history import: rows of         *)
(* broker_history_jobs (internal/store/activity_jobs.go), the evidence     *)
(* tables a job fills (broker_raw_records, broker_raw_observations,        *)
(* broker_history_coverage) and the worker of each server process          *)
(* (internal/history/worker.go).                                           *)
(*                                                                         *)
(* A database transaction is one step.  Clock readings are abstracted to   *)
(* what the SQL compares them with: lease_until is "live" (after now),     *)
(* "edge" (equal to now: neither renewable nor reclaimable) or "expired";  *)
(* a retry's next_attempt_at is due or not.                                *)
(***************************************************************************)
EXTENDS Naturals, FiniteSets

CONSTANTS
    Jobs,          \* slots for rows of broker_history_jobs
    Procs,         \* server processes, each running one worker loop
    Requests,      \* the values of the request column
    Records,       \* raw records the brokers may report
    NoJob, NoProc, NoRequest,
    CreatedAt,     \* the second a row is created in: the claim order, ties allowed
    ScopeOf,       \* the source and connection of a request
    FlexScopes,    \* the scopes whose source is flex
    Rewrites,      \* requests that SaveHistoryRaw may store in place of one
                   \* (a flex report names accounts that the request left open)
    Returns,       \* the records a broker holds for a request
    MaxAttempts,   \* attempts before a failure is final: 5 in the code
    MaxFaults,     \* bound: crashes, stalls and database outages of a behaviour
    MaxWakes       \* bound: configuration saves of a behaviour

Scopes == {ScopeOf[r] : r \in Requests}

ASSUME JobsAssumption ==
    /\ NoJob \notin Jobs
    /\ NoProc \notin Procs
    /\ NoRequest \notin Requests
    /\ CreatedAt \in [Jobs -> Nat]
    /\ Returns \in [Requests -> SUBSET Records]
    /\ Rewrites \in [Requests -> SUBSET Requests]
    /\ \A r \in Requests : Rewrites[r] # {} /\ \A x \in Rewrites[r] : ScopeOf[x] = ScopeOf[r]
    /\ FlexScopes \subseteq Scopes
    /\ MaxAttempts \in Nat \ {0}
    /\ MaxFaults \in Nat
    /\ MaxWakes \in Nat

VARIABLES
    \* rows of broker_history_jobs; status "none" is a row not inserted, next
    \* says whether next_attempt_at has come
    status, phase, owner, gen, lease, attempt, next, request,
    \* what the worker of a process holds in memory
    pc,      \* where runJob stands
    job,     \* the job it claimed
    held,    \* the lease generation it claimed it with
    todo,    \* the records it fetched, then those it has still to normalize
    worst,   \* "review" once counts.Unsupported + counts.Conflicts > 0
    renew,   \* its renewing goroutine, "lost" or "db" once that cancelled the context
    \* what jobs leave behind
    raw,     \* raw[x]: normalize_status of record x
    obs,     \* obs[j][x]: the observation of record x by job j, with its outcome
    cov,     \* cov[j]: normalize_status of the coverage rows of job j
    booked,  \* booked[x]: how often record x was carried into the ledger
    faults, wakes

rowVars == <<status, phase, owner, gen, lease, attempt, next, request>>
memory == <<pc, job, held, todo, worst, renew>>
evidence == <<raw, obs, cov, booked>>
budgets == <<faults, wakes>>
vars == <<rowVars, memory, evidence, budgets>>

Active == {"queued", "running", "retry_wait"}
Whole == {"succeeded", "partial"}
Final == Whole \cup {"failed"}
Settled == Final \cup {"needs_action"}
Outcomes == {"clean", "review"}  \* review: counted as unsupported or conflict
FetchPcs == {"fetch", "snapshots", "raw"}
NormalizePcs == {"normalize", "coverage", "finish"}
ErrorPcs == {"failing", "asking"}  \* finishFailure, by the code of the error it got

Statuses == {"none"} \cup Active \cup Settled
Leases == {"none", "live", "edge", "expired"}
Pcs == {"idle"} \cup FetchPcs \cup NormalizePcs \cup ErrorPcs
Renewals == {"off", "wait", "live", "late", "lost", "db"}
RawStates == {"none", "pending"} \cup Outcomes
ObsStates == {"none", "open"} \cup Outcomes

TypeOK ==
    /\ status \in [Jobs -> Statuses]
    /\ phase \in [Jobs -> {"fetch", "normalize"}]
    /\ owner \in [Jobs -> Procs \cup {NoProc}]
    /\ gen \in [Jobs -> Nat]
    /\ lease \in [Jobs -> Leases]
    /\ attempt \in [Jobs -> Nat]
    /\ next \in [Jobs -> {"due", "later"}]
    /\ request \in [Jobs -> Requests \cup {NoRequest}]
    /\ pc \in [Procs -> Pcs]
    /\ job \in [Procs -> Jobs \cup {NoJob}]
    /\ held \in [Procs -> Nat]
    /\ todo \in [Procs -> SUBSET Records]
    /\ worst \in [Procs -> Outcomes]
    /\ renew \in [Procs -> Renewals]
    /\ raw \in [Records -> RawStates]
    /\ obs \in [Jobs -> [Records -> ObsStates]]
    /\ cov \in [Jobs -> {"none", "complete", "partial"}]
    /\ booked \in [Records -> Nat]
    /\ faults \in Nat
    /\ wakes \in Nat

Init ==
    /\ status = [j \in Jobs |-> "none"]
    /\ phase = [j \in Jobs |-> "fetch"]
    /\ owner = [j \in Jobs |-> NoProc]
    /\ gen = [j \in Jobs |-> 0]
    /\ lease = [j \in Jobs |-> "none"]
    /\ attempt = [j \in Jobs |-> 0]
    /\ next = [j \in Jobs |-> "due"]
    /\ request = [j \in Jobs |-> NoRequest]
    /\ pc = [p \in Procs |-> "idle"]
    /\ job = [p \in Procs |-> NoJob]
    /\ held = [p \in Procs |-> 0]
    /\ todo = [p \in Procs |-> {}]
    /\ worst = [p \in Procs |-> "clean"]
    /\ renew = [p \in Procs |-> "off"]
    /\ raw = [x \in Records |-> "none"]
    /\ obs = [j \in Jobs |-> [x \in Records |-> "none"]]
    /\ cov = [j \in Jobs |-> "none"]
    /\ booked = [x \in Records |-> 0]
    /\ faults = 0
    /\ wakes = 0

(***************************************************************************)
(* Creating, waking and claiming jobs                                      *)
(***************************************************************************)

\* createHistoryJobTx: identical active work is returned, otherwise a row is queued.
CreateHistoryJob(r) ==
    /\ \A j \in Jobs : ~(status[j] \in Active /\ request[j] = r)
    /\ \E j \in Jobs :
        /\ status[j] = "none"
        /\ status' = [status EXCEPT ![j] = "queued"]
        /\ request' = [request EXCEPT ![j] = r]
    /\ UNCHANGED <<phase, owner, gen, lease, attempt, next, memory, evidence, budgets>>

\* RetryHistoryConnectionFetches, after the user saves the connection's configuration.
Wakeable(j, s) ==
    /\ status[j] \in {"retry_wait", "needs_action"}
    /\ phase[j] = "fetch"
    /\ ScopeOf[request[j]] = s

RetryHistoryConnectionFetches(s) ==
    /\ wakes < MaxWakes
    /\ \E j \in Jobs : Wakeable(j, s)
    /\ status' = [j \in Jobs |-> IF Wakeable(j, s) THEN "queued" ELSE status[j]]
    /\ attempt' = [j \in Jobs |-> IF Wakeable(j, s) THEN 0 ELSE attempt[j]]
    /\ next' = [j \in Jobs |-> IF Wakeable(j, s) THEN "due" ELSE next[j]]
    /\ wakes' = wakes + 1
    /\ UNCHANGED <<phase, owner, gen, lease, request, memory, evidence, faults>>

Live(j) == status[j] = "running" /\ lease[j] = "live"

SameScope(j, k) == ScopeOf[request[j]] = ScopeOf[request[k]]

\* Mutant: a running job is never taken over.
ClaimableNotExpired(j) ==
    /\ status[j] \in {"queued", "retry_wait"} /\ next[j] = "due"
    /\ ~ \E k \in Jobs \ {j} : Live(k) /\ SameScope(j, k)

Claimable(j) ==
    /\ \/ status[j] \in {"queued", "retry_wait"} /\ next[j] = "due"
       \/ status[j] = "running" /\ lease[j] = "expired"
    /\ ~ \E k \in Jobs \ {j} : Live(k) /\ SameScope(j, k)

Observed(j) == {x \in Records : obs[j][x] # "none"}

\* ClaimHistoryJob: the oldest claimable row gets a lease of a new generation.
ClaimHistoryJob(p) ==
    /\ pc[p] = "idle"
    /\ \E j \in Jobs :
        /\ Claimable(j)
        /\ \A k \in Jobs : Claimable(k) => CreatedAt[j] <= CreatedAt[k]
        /\ status' = [status EXCEPT ![j] = "running"]
        /\ owner' = [owner EXCEPT ![j] = p]
        /\ gen' = [gen EXCEPT ![j] = @ + 1]
        /\ lease' = [lease EXCEPT ![j] = "live"]
        /\ attempt' = [attempt EXCEPT ![j] = @ + 1]
        /\ pc' = [pc EXCEPT ![p] = phase[j]]
        /\ job' = [job EXCEPT ![p] = j]
        /\ held' = [held EXCEPT ![p] = gen[j] + 1]
        /\ todo' = [todo EXCEPT ![p] = Observed(j)]
    /\ renew' = [renew EXCEPT ![p] = "wait"]
    /\ UNCHANGED <<phase, next, request, worst, evidence, budgets>>

(***************************************************************************)
(* The lease                                                               *)
(***************************************************************************)

\* The row conditions shared by RenewHistoryJob, FinishHistoryJob and checkHistoryLease.
Holds(p) ==
    /\ job[p] \in Jobs
    /\ status[job[p]] = "running"
    /\ owner[job[p]] = p
    /\ gen[job[p]] = held[p]

\* Mutant: any live lease will do, whoever holds it.
LeaseValidUnfenced(p) == job[p] \in Jobs /\ Live(job[p])

LeaseValid(p) == Holds(p) /\ lease[job[p]] = "live"

Cancelled(p) == renew[p] \in {"lost", "db"}

\* The renewing goroutine reads its clock and sends the UPDATE ...
RenewSend(p) ==
    /\ renew[p] = "wait"
    /\ renew' = [renew EXCEPT ![p] = IF LeaseValid(p) THEN "live" ELSE "late"]
    /\ UNCHANGED <<rowVars, pc, job, held, todo, worst, evidence, budgets>>

\* ... which the database runs later, comparing lease_until with that reading.
RenewHistoryJob(p) ==
    /\ renew[p] \in {"live", "late"}
    /\ IF Holds(p) /\ renew[p] = "live"
       THEN /\ lease' = [lease EXCEPT ![job[p]] = "live"]
            /\ renew' = [renew EXCEPT ![p] = "wait"]
       ELSE /\ renew' = [renew EXCEPT ![p] = "lost"]
            /\ UNCHANGED lease
    /\ UNCHANGED <<status, phase, owner, gen, attempt, next, request,
                   pc, job, held, todo, worst, evidence, budgets>>

\* The UPDATE fails for another reason: the job's context is cancelled too.
RenewFails(p) ==
    /\ faults < MaxFaults
    /\ renew[p] \in {"live", "late"}
    /\ renew' = [renew EXCEPT ![p] = "db"]
    /\ faults' = faults + 1
    /\ UNCHANGED <<rowVars, pc, job, held, todo, worst, evidence, wakes>>

\* Time passes.  A lease whose holder still renews it runs out only when the
\* holder stalls, which counts as a fault.
Renewed(j) == \E p \in Procs : Holds(p) /\ job[p] = j /\ ~Cancelled(p)

LeaseRunsOut(j) ==
    /\ lease[j] = "live"
    /\ IF Renewed(j) THEN faults < MaxFaults /\ faults' = faults + 1 ELSE UNCHANGED faults
    /\ \E l \in {"edge", "expired"} : lease' = [lease EXCEPT ![j] = l]
    /\ UNCHANGED <<status, phase, owner, gen, attempt, next, request, memory, evidence, wakes>>

EdgePasses(j) ==
    /\ lease[j] = "edge"
    /\ lease' = [lease EXCEPT ![j] = "expired"]
    /\ UNCHANGED <<status, phase, owner, gen, attempt, next, request, memory, evidence, budgets>>

RetryComesDue(j) ==
    /\ status[j] = "retry_wait"
    /\ next[j] = "later"
    /\ next' = [next EXCEPT ![j] = "due"]
    /\ UNCHANGED <<status, phase, owner, gen, lease, attempt, request, memory, evidence, budgets>>

(***************************************************************************)
(* runJob.  A write runs in its own transaction behind checkHistoryLease;  *)
(* an error reported for it may hide that it was committed.                *)
(***************************************************************************)

At(p, l) == pc[p] = l /\ ~Cancelled(p)

\* Where the worker stands after a write: one step on, or with an error.
Wrote(p, l) == pc' \in {[pc EXCEPT ![p] = l], [pc EXCEPT ![p] = "failing"]}

\* runJob returns and the worker loop is free to claim again.
Return(p) ==
    /\ pc' = [pc EXCEPT ![p] = "idle"]
    /\ job' = [job EXCEPT ![p] = NoJob]
    /\ held' = [held EXCEPT ![p] = 0]
    /\ todo' = [todo EXCEPT ![p] = {}]
    /\ worst' = [worst EXCEPT ![p] = "clean"]
    /\ renew' = [renew EXCEPT ![p] = "off"]

FetchJob(p) ==
    /\ At(p, "fetch")
    /\ \E S \in SUBSET Records :
        /\ S \subseteq Returns[request[job[p]]]
        /\ todo' = [todo EXCEPT ![p] = S]
    /\ pc' = [pc EXCEPT ![p] = "snapshots"]
    /\ UNCHANGED <<rowVars, job, held, worst, renew, evidence, budgets>>

\* fetchJob fails, or a step fails before it commits; only the steps of the
\* fetch phase report codes that ask for the user's action.
StepFails(p) ==
    /\ pc[p] \in FetchPcs \cup NormalizePcs
    /\ ~Cancelled(p)
    /\ \E l \in ErrorPcs :
        /\ l = "asking" => pc[p] \in FetchPcs
        /\ pc' = [pc EXCEPT ![p] = l]
    /\ UNCHANGED <<rowVars, job, held, todo, worst, renew, evidence, budgets>>

\* Without snapshots SaveHistorySnapshots returns before it checks the lease.
SaveHistorySnapshots(p) ==
    /\ At(p, "snapshots")
    /\ \/ pc' = [pc EXCEPT ![p] = "raw"]
       \/ LeaseValid(p) /\ Wrote(p, "raw")
    /\ UNCHANGED <<rowVars, job, held, todo, worst, renew, evidence, budgets>>

SaveHistoryRaw(p) ==
    LET j == job[p] IN
    /\ At(p, "raw")
    /\ LeaseValid(p)
    /\ raw' = [x \in Records |-> IF x \in todo[p] /\ raw[x] = "none" THEN "pending" ELSE raw[x]]
    /\ obs' = [obs EXCEPT ![j] = [x \in Records |->
                 IF x \in todo[p] /\ obs[j][x] = "none" THEN "open" ELSE obs[j][x]]]
    /\ phase' = [phase EXCEPT ![j] = "normalize"]
    /\ \E r \in Requests : r \in Rewrites[request[j]] /\ request' = [request EXCEPT ![j] = r]
    /\ Wrote(p, "normalize")
    /\ UNCHANGED <<status, owner, gen, lease, attempt, next, job, held, todo, worst, renew,
                   cov, booked, budgets>>

\* Mutant: a record is booked whenever it is normalized.
RecordOutcomeAgain(j, x, o) ==
    /\ obs' = [obs EXCEPT ![j][x] = o]
    /\ raw' = [raw EXCEPT ![x] = o]
    /\ booked' = [booked EXCEPT ![x] = @ + 1]

\* normalizeHistoryRecord: a recorded outcome is returned, a record that is no
\* longer pending is not booked again, a pending one is carried into the ledger.
RecordOutcome(j, x, o) ==
    \/ obs[j][x] = o /\ UNCHANGED <<obs, raw, booked>>
    \/ /\ obs[j][x] = "open"
       /\ raw[x] = o
       /\ obs' = [obs EXCEPT ![j][x] = o]
       /\ UNCHANGED <<raw, booked>>
    \/ /\ obs[j][x] = "open"
       /\ raw[x] = "pending"
       /\ obs' = [obs EXCEPT ![j][x] = o]
       /\ raw' = [raw EXCEPT ![x] = o]
       /\ booked' = [booked EXCEPT ![x] = @ + 1]

\* Mutant: an outcome recorded before a resumption is not counted again.
CountedOnce(p, x, o) == IF o = "review" /\ obs[job[p]][x] = "open" THEN o ELSE worst[p]

Counted(p, x, o) == IF o = "review" THEN o ELSE worst[p]

\* One round of NormalizeHistoryJob: the outcome is recorded and counted.
NormalizeHistoryRecord(p, x) ==
    /\ At(p, "normalize")
    /\ x \in todo[p]
    /\ LeaseValid(p)
    /\ \E o \in Outcomes :
        /\ RecordOutcome(job[p], x, o)
        /\ worst' = [worst EXCEPT ![p] = Counted(p, x, o)]
    /\ todo' = [todo EXCEPT ![p] = @ \ {x}]
    /\ Wrote(p, "normalize")
    /\ UNCHANGED <<rowVars, job, held, renew, cov, budgets>>

AllNormalized(p) == todo[p] = {}

ReconcileHistoryJob(p) ==
    /\ At(p, "normalize")
    /\ AllNormalized(p)
    /\ LeaseValid(p)
    /\ Wrote(p, "coverage")
    /\ UNCHANGED <<rowVars, job, held, todo, worst, renew, evidence, budgets>>

CoverageStatus(p) == IF worst[p] = "review" THEN "partial" ELSE "complete"

SaveHistoryCoverage(p) ==
    /\ At(p, "coverage")
    /\ LeaseValid(p)
    /\ cov' = [cov EXCEPT ![job[p]] = CoverageStatus(p)]
    /\ Wrote(p, "finish")
    /\ UNCHANGED <<rowVars, job, held, todo, worst, renew, raw, obs, booked, budgets>>

\* FinishHistoryJob gives up the lease; a retry waits for its time.
Finish(j, s) ==
    /\ status' = [status EXCEPT ![j] = s]
    /\ lease' = [lease EXCEPT ![j] = "none"]
    /\ next' = [next EXCEPT ![j] = IF s = "retry_wait" THEN "later" ELSE "due"]
    /\ UNCHANGED <<phase, owner, gen, attempt, request>>

FinishHistoryJob(p) ==
    /\ At(p, "finish")
    /\ LeaseValid(p)
    /\ Finish(job[p], IF worst[p] = "review" THEN "partial" ELSE "succeeded")
    /\ \/ Return(p)
       \/ pc' = [pc EXCEPT ![p] = "failing"] /\ UNCHANGED <<job, held, todo, worst, renew>>
    /\ UNCHANGED <<evidence, budgets>>

\* finishFailure runs under the parent context.  Its own database error
\* leaves the row running until the lease has expired.
FinishFailure(p) ==
    /\ pc[p] \in ErrorPcs
    /\ LeaseValid(p)
    /\ \/ /\ Finish(job[p], CASE pc[p] = "asking" -> "needs_action"
                              [] pc[p] = "failing" /\ attempt[job[p]] >= MaxAttempts -> "failed"
                              [] OTHER -> "retry_wait")
          /\ UNCHANGED faults
       \/ /\ faults < MaxFaults
          /\ faults' = faults + 1
          /\ UNCHANGED rowVars
    /\ Return(p)
    /\ UNCHANGED <<evidence, wakes>>

\* A lease check fails: ErrHistoryLeaseLost, and the job is somebody else's.
LeaseLost(p) ==
    /\ \/ pc[p] \in ErrorPcs
       \/ pc[p] \in {"snapshots", "raw"} \cup NormalizePcs /\ ~Cancelled(p)
    /\ ~LeaseValid(p)
    /\ Return(p)
    /\ UNCHANGED <<rowVars, evidence, budgets>>

\* The renewing goroutine cancelled the context.  While fetching, the error is
\* context.Canceled, which finishFailure drops; later renewErr replaces it.
ContextCancelled(p) ==
    /\ pc[p] \in FetchPcs \cup NormalizePcs
    /\ Cancelled(p)
    /\ IF pc[p] \in NormalizePcs /\ renew[p] = "db"
       THEN pc' = [pc EXCEPT ![p] = "failing"] /\ UNCHANGED <<job, held, todo, worst, renew>>
       ELSE Return(p)
    /\ UNCHANGED <<rowVars, evidence, budgets>>

\* The process dies; the one that replaces it holds no job.
Crash(p) ==
    /\ faults < MaxFaults
    /\ pc[p] # "idle"
    /\ Return(p)
    /\ faults' = faults + 1
    /\ UNCHANGED <<rowVars, evidence, wakes>>

RunJob(p) ==
    \/ FetchJob(p)
    \/ StepFails(p)
    \/ SaveHistorySnapshots(p)
    \/ SaveHistoryRaw(p)
    \/ \E x \in Records : NormalizeHistoryRecord(p, x)
    \/ ReconcileHistoryJob(p)
    \/ SaveHistoryCoverage(p)
    \/ FinishHistoryJob(p)
    \/ FinishFailure(p)
    \/ LeaseLost(p)
    \/ ContextCancelled(p)

Next ==
    \/ \E r \in Requests : CreateHistoryJob(r)
    \/ \E s \in FlexScopes : RetryHistoryConnectionFetches(s)
    \/ \E p \in Procs : ClaimHistoryJob(p) \/ RunJob(p) \/ Crash(p)
    \/ \E p \in Procs : RenewSend(p) \/ RenewHistoryJob(p) \/ RenewFails(p)
    \/ \E j \in Jobs : LeaseRunsOut(j) \/ EdgePasses(j) \/ RetryComesDue(j)

Spec == Init /\ [][Next]_vars

\* Worker loops keep running and time keeps passing; users owe nothing, and
\* faults are bounded by their budget.
Fairness ==
    /\ \A p \in Procs : WF_vars(ClaimHistoryJob(p)) /\ WF_vars(RunJob(p)) /\ WF_vars(RenewHistoryJob(p))
    /\ \A j \in Jobs : WF_vars(LeaseRunsOut(j)) /\ WF_vars(EdgePasses(j)) /\ WF_vars(RetryComesDue(j))

FairSpec == Spec /\ Fairness

(***************************************************************************)
(* Properties                                                              *)
(***************************************************************************)

HolderWrites ==
    \A j \in Jobs :
        obs'[j] # obs[j] \/ cov'[j] # cov[j] \/ phase'[j] # phase[j] =>
            \E p \in Procs : /\ Holds(p) /\ job[p] = j
                             /\ <<pc'[p], todo'[p]>> # <<pc[p], todo[p]>>

\* Evidence, coverage and phase of a job are written only by the process that
\* holds its current lease generation: a worker that lost the job to another
\* process writes nothing any more (checkHistoryLease in every writing
\* transaction).
Fenced == [][HolderWrites]_vars

EndedUntouched ==
    \A j \in Jobs :
        status[j] \in Final =>
            /\ status'[j] = status[j] /\ gen'[j] = gen[j]
            /\ obs'[j] = obs[j] /\ cov'[j] = cov[j]

\* A job that ended is never reopened, finished again or written to, also not
\* by a worker whose finish was committed but reported as an error.
FinalIsFinal == [][EndedUntouched]_vars

InReview(j) == \E x \in Records : obs[j][x] = "review"

\* A finished job stored its evidence, gave every observed record an outcome,
\* and its status and its coverage both say whether one needs review, whatever
\* crashes and resumptions lay between (runJob, NormalizeHistoryJob,
\* SaveHistoryCoverage).
WholeIsWhole ==
    \A j \in Jobs : status[j] \in Whole =>
        /\ phase[j] = "normalize"
        /\ \A x \in Records : obs[j][x] # "open"
        /\ status[j] = IF InReview(j) THEN "partial" ELSE "succeeded"
        /\ cov[j] = IF InReview(j) THEN "partial" ELSE "complete"

\* A stored record is carried into the ledger exactly once, no matter how many
\* jobs observe it or how often one is resumed ("without losing": a pending
\* record still has a job that owes it an outcome).
BookedOnce ==
    \A x \in Records :
        /\ raw[x] \in Outcomes => booked[x] = 1
        /\ raw[x] \in {"none", "pending"} => booked[x] = 0
        /\ raw[x] = "pending" => \E j \in Jobs : obs[j][x] = "open" /\ status[j] \notin Whole

\* The queue keeps the promise of HistoryJobPromise: what crashes, lost leases,
\* retries and late writers do is invisible there (the refinement mapping hides
\* which process works on a job and how often it tried).
Stage(j) == IF status[j] \in Active THEN "open" ELSE status[j]

Promise ==
    INSTANCE HistoryJobPromise WITH
        stage <- [j \in Jobs |-> Stage(j)],
        stored <- {j \in Jobs : phase[j] = "normalize"},
        outcome <- obs, decision <- raw, coverage <- cov

KeepsPromise == Promise!PSpec

\* What the holder of a lease knows of the job it works on: what makes the
\* properties above inductive.
Knows(p) ==
    /\ pc[p] \in FetchPcs => phase[job[p]] = "fetch" /\ worst[p] = "clean"
    /\ pc[p] \in NormalizePcs =>
        /\ phase[job[p]] = "normalize"
        /\ \A x \in Records \ todo[p] : obs[job[p]][x] # "open"
        /\ worst[p] = "review" <=> \E x \in Records \ todo[p] : obs[job[p]][x] = "review"
    /\ pc[p] \in {"coverage", "finish"} => todo[p] = {}
    /\ pc[p] = "finish" => cov[job[p]] = IF worst[p] = "review" THEN "partial" ELSE "complete"

HolderKnows == \A p \in Procs : Holds(p) => Knows(p)

\* Every queued job eventually ends or asks for the user's action, although
\* processes crash, stall and lose leases on the way.
EventuallySettled ==
    \A j \in Jobs : status[j] = "queued" ~> status[j] \in Settled
=============================================================================
