---------------------------- MODULE HistoryProofs ---------------------------
(***************************************************************************)
(* Proofs about the history service: its jobs, its uploads and those who   *)
(* ask for history, for every set of jobs, processes, requests, records,   *)
(* imports, handlers and connections, and every bound.                     *)
(*                                                                         *)
(* About the jobs, IInv is inductive: besides the types it says what rows  *)
(* and idle workers look like and what the holder of a lease knows of its  *)
(* job.  About the schedule, AuditInv is.                                  *)
(***************************************************************************)
EXTENDS HistoryJobs, HistoryImports, HistoryScheduler, WellFoundedInduction,
        FiniteSetTheorems, TLAPS

\* Where the literals that the actions assign belong.
LEMMA Literals ==
    /\ {"none", "queued", "running", "succeeded", "partial", "needs_action", "failed", "retry_wait"}
         \subseteq Statuses
    /\ {"none", "live", "edge", "expired"} \subseteq Leases
    /\ {"idle", "fetch", "snapshots", "raw", "normalize", "coverage", "finish", "failing", "asking"}
         \subseteq Pcs
    /\ ErrorPcs \subseteq Pcs
    /\ {"off", "wait", "live", "late", "lost", "db"} \subseteq Renewals
    /\ {"none", "pending"} \subseteq RawStates /\ Outcomes \subseteq RawStates
    /\ {"none", "open"} \subseteq ObsStates /\ Outcomes \subseteq ObsStates
    /\ {"clean", "review"} \subseteq Outcomes
BY DEF Statuses, Leases, Pcs, Renewals, RawStates, ObsStates, Active, Whole, Final, Settled,
       Outcomes, FetchPcs, NormalizePcs, ErrorPcs

\* Every step keeps every variable within its type.
LEMMA TypeStep == TypeOK /\ [Next]_vars => TypeOK'
<1> SUFFICES ASSUME TypeOK, [Next]_vars PROVE TypeOK'
  OBVIOUS
<1> USE Literals DEF TypeOK, rowVars, memory, evidence, budgets
<1>0. ASSUME NEW p \in Procs, Return(p)
      PROVE  /\ pc' \in [Procs -> Pcs]
             /\ job' \in [Procs -> Jobs \cup {NoJob}]
             /\ held' \in [Procs -> Nat]
             /\ todo' \in [Procs -> SUBSET Records]
             /\ worst' \in [Procs -> Outcomes]
             /\ renew' \in [Procs -> Renewals]
  BY <1>0 DEF Return
<1>1. ASSUME NEW r \in Requests, CreateHistoryJob(r) PROVE TypeOK'
  BY <1>1 DEF CreateHistoryJob
<1>2. ASSUME NEW s \in FlexScopes, RetryHistoryConnectionFetches(s) PROVE TypeOK'
  <2>1. status' \in [Jobs -> Statuses] /\ attempt' \in [Jobs -> Nat]
    BY <1>2 DEF RetryHistoryConnectionFetches
  <2>2. next' \in [Jobs -> {"due", "later"}]
    BY <1>2 DEF RetryHistoryConnectionFetches
  <2> QED BY <1>2, <2>1, <2>2 DEF RetryHistoryConnectionFetches
<1>3. ASSUME NEW p \in Procs, ClaimHistoryJob(p) PROVE TypeOK'
  <2>1. PICK j \in Jobs : ClaimHistoryJob(p)!2!(j)
    BY <1>3 DEF ClaimHistoryJob
  <2>2. phase[j] \in Pcs /\ Observed(j) \in SUBSET Records
    BY DEF Observed
  <2>3. /\ status' \in [Jobs -> Statuses] /\ owner' \in [Jobs -> Procs \cup {NoProc}]
        /\ gen' \in [Jobs -> Nat] /\ lease' \in [Jobs -> Leases] /\ attempt' \in [Jobs -> Nat]
    BY <2>1
  <2>4. /\ pc' \in [Procs -> Pcs] /\ job' \in [Procs -> Jobs \cup {NoJob}]
        /\ held' \in [Procs -> Nat] /\ todo' \in [Procs -> SUBSET Records]
    BY <2>1, <2>2
  <2>5. renew' \in [Procs -> Renewals] /\ UNCHANGED <<phase, next, request, worst, evidence, budgets>>
    BY <1>3 DEF ClaimHistoryJob
  <2> QED BY <2>3, <2>4, <2>5
<1>4. ASSUME NEW p \in Procs, RunJob(p) PROVE TypeOK'
  <2>1. CASE FetchJob(p)
    BY <2>1 DEF FetchJob
  <2>2. CASE StepFails(p)
    BY <2>2 DEF StepFails
  <2>3. CASE SaveHistorySnapshots(p)
    BY <2>3 DEF SaveHistorySnapshots, Wrote
  <2>4. CASE SaveHistoryRaw(p)
    <3>1. raw' \in [Records -> RawStates]
      BY <2>4 DEF SaveHistoryRaw
    <3>2. obs' \in [Jobs -> [Records -> ObsStates]]
      BY <2>4 DEF SaveHistoryRaw, LeaseValid, Holds
    <3>3. phase' \in [Jobs -> {"fetch", "normalize"}] /\ request' \in [Jobs -> Requests \cup {NoRequest}]
      BY <2>4 DEF SaveHistoryRaw
    <3>4. pc' \in [Procs -> Pcs]
      BY <2>4 DEF SaveHistoryRaw, Wrote
    <3> QED BY <2>4, <3>1, <3>2, <3>3, <3>4 DEF SaveHistoryRaw
  <2>5. ASSUME NEW x \in Records, NormalizeHistoryRecord(p, x) PROVE TypeOK'
    <3>1. PICK o \in Outcomes :
            /\ obs' \in {obs, [obs EXCEPT ![job[p]][x] = o]}
            /\ raw' \in {raw, [raw EXCEPT ![x] = o]}
            /\ booked' \in {booked, [booked EXCEPT ![x] = @ + 1]}
            /\ worst' = [worst EXCEPT ![p] = IF o = "review" THEN o ELSE @]
      BY <2>5 DEF NormalizeHistoryRecord, RecordOutcome, Counted
    <3>2. job[p] \in Jobs
      BY <2>5 DEF NormalizeHistoryRecord, LeaseValid, Holds
    <3>3. obs' \in [Jobs -> [Records -> ObsStates]]
      <4>1. [obs[job[p]] EXCEPT ![x] = o] \in [Records -> ObsStates]
        BY <3>2
      <4> QED BY <3>1, <3>2, <4>1
    <3>4. raw' \in [Records -> RawStates] /\ booked' \in [Records -> Nat]
      <4>1. [raw EXCEPT ![x] = o] \in [Records -> RawStates]
        OBVIOUS
      <4>2. booked[x] + 1 \in Nat
        OBVIOUS
      <4>3. [booked EXCEPT ![x] = booked[x] + 1] \in [Records -> Nat]
        BY <4>2
      <4>4. raw' \in [Records -> RawStates]
        BY <3>1, <4>1
      <4>5. booked' \in [Records -> Nat]
        BY <3>1, <4>3
      <4> QED BY <4>4, <4>5
    <3>5. worst' \in [Procs -> Outcomes]
      BY <3>1
    <3>6. pc' \in [Procs -> Pcs]
      BY <2>5 DEF NormalizeHistoryRecord, Wrote
    <3>7. todo' \in [Procs -> SUBSET Records]
      BY <2>5 DEF NormalizeHistoryRecord
    <3> QED BY <2>5, <3>3, <3>4, <3>5, <3>6, <3>7 DEF NormalizeHistoryRecord
  <2>6. CASE ReconcileHistoryJob(p)
    BY <2>6 DEF ReconcileHistoryJob, Wrote
  <2>7. CASE SaveHistoryCoverage(p)
    BY <2>7 DEF SaveHistoryCoverage, CoverageStatus, Wrote
  <2>8. CASE FinishHistoryJob(p)
    <3>1. CASE Return(p)
      BY <1>0, <2>8, <3>1 DEF FinishHistoryJob, Finish
    <3>2. CASE ~Return(p)
      BY <2>8, <3>2 DEF FinishHistoryJob, Finish
    <3> QED BY <3>1, <3>2
  <2>9. CASE FinishFailure(p)
    <3>1. CASE UNCHANGED rowVars
      BY <1>0, <2>9, <3>1 DEF FinishFailure
    <3>2. CASE ~UNCHANGED rowVars
      <4>1. PICK s \in {"needs_action", "failed", "retry_wait"} : Finish(job[p], s)
        BY <2>9, <3>2 DEF FinishFailure
      <4> QED BY <1>0, <2>9, <3>2, <4>1 DEF FinishFailure, Finish
    <3> QED BY <3>1, <3>2
  <2>10. CASE LeaseLost(p)
    BY <1>0, <2>10 DEF LeaseLost
  <2>11. CASE ContextCancelled(p)
    BY <1>0, <2>11 DEF ContextCancelled
  <2> QED BY <1>4, <2>1, <2>2, <2>3, <2>4, <2>5, <2>6, <2>7, <2>8, <2>9, <2>10, <2>11 DEF RunJob
<1>5. ASSUME NEW p \in Procs, RenewSend(p) PROVE TypeOK'
  BY <1>5 DEF RenewSend
<1>6. ASSUME NEW p \in Procs, RenewHistoryJob(p) PROVE TypeOK'
  <2>1. lease' \in [Jobs -> Leases]
    BY <1>6 DEF RenewHistoryJob
  <2>2. renew' \in [Procs -> Renewals]
    BY <1>6 DEF RenewHistoryJob
  <2> QED BY <1>6, <2>1, <2>2 DEF RenewHistoryJob
<1>7. ASSUME NEW p \in Procs, RenewFails(p) PROVE TypeOK'
  BY <1>7 DEF RenewFails
<1>8. ASSUME NEW p \in Procs, Crash(p) PROVE TypeOK'
  BY <1>0, <1>8 DEF Crash
<1>9. ASSUME NEW j \in Jobs, LeaseRunsOut(j) PROVE TypeOK'
  BY <1>9 DEF LeaseRunsOut
<1>10. ASSUME NEW j \in Jobs, EdgePasses(j) PROVE TypeOK'
  BY <1>10 DEF EdgePasses
<1>11. ASSUME NEW j \in Jobs, RetryComesDue(j) PROVE TypeOK'
  BY <1>11 DEF RetryComesDue
<1>12. CASE UNCHANGED vars
  BY <1>12 DEF vars
<1> QED
  BY <1>1, <1>2, <1>3, <1>4, <1>5, <1>6, <1>7, <1>8, <1>9, <1>10, <1>11, <1>12 DEF Next

\* The values of all variables stay within their types.
THEOREM TypeCorrect == Spec => []TypeOK
<1>1. Init => TypeOK
  BY Literals, JobsAssumption DEF Init, TypeOK
<1> QED BY <1>1, TypeStep, PTL DEF Spec

-----------------------------------------------------------------------------
\* Idle workers hold nothing, working ones a row; evidence exists only once its
\* phase is recorded.
RowsKnow ==
    /\ \A p \in Procs : pc[p] = "idle" => job[p] = NoJob /\ worst[p] = "clean"
    /\ \A p \in Procs : pc[p] # "idle" => job[p] \in Jobs
    /\ \A j \in Jobs : phase[j] = "fetch" => \A x \in Records : obs[j][x] = "none"
    /\ \A j \in Jobs : status[j] = "none" => phase[j] = "fetch"

IInv == TypeOK /\ RowsKnow /\ HolderKnows /\ WholeIsWhole /\ BookedOnce

\* At most one process holds a given job: Holds names the row's owner, and an owner
\* is one process (activity_jobs.go writes a single owner_id per row).
LEMMA Distinct ==
    ASSUME NEW p \in Procs, NEW q \in Procs, Holds(p), Holds(q), job[p] = job[q] PROVE p = q
BY DEF Holds

\* What normalizing one record does to the observations.
LEMMA NormalizeEffect ==
    ASSUME TypeOK, NEW p \in Procs, NEW x \in Records, NormalizeHistoryRecord(p, x)
    PROVE  /\ job[p] \in Jobs /\ Holds(p) /\ pc[p] = "normalize" /\ x \in todo[p]
           /\ \A j \in Jobs \ {job[p]} : obs'[j] = obs[j]
           /\ \A y \in Records \ {x} : obs'[job[p]][y] = obs[job[p]][y]
           /\ \E o \in Outcomes :
                /\ obs[job[p]][x] \in {"open", o}
                /\ obs'[job[p]][x] = o
                /\ worst' = [worst EXCEPT ![p] = IF o = "review" THEN o ELSE @]
                /\ \/ raw' = raw /\ booked' = booked /\ (obs[job[p]][x] = "open" => raw[x] = o)
                   \/ /\ raw[x] = "pending" /\ raw' = [raw EXCEPT ![x] = o]
                      /\ obs[job[p]][x] = "open"
                      /\ booked' = [booked EXCEPT ![x] = @ + 1]
<1> USE DEF TypeOK
<1>1. job[p] \in Jobs /\ Holds(p) /\ pc[p] = "normalize" /\ x \in todo[p]
  BY DEF NormalizeHistoryRecord, LeaseValid, Holds, At
<1>2. PICK o \in Outcomes :
        /\ \/ obs[job[p]][x] = o /\ UNCHANGED <<obs, raw, booked>>
           \/ /\ obs[job[p]][x] = "open" /\ raw[x] = o
              /\ obs' = [obs EXCEPT ![job[p]][x] = o]
              /\ UNCHANGED <<raw, booked>>
           \/ /\ obs[job[p]][x] = "open" /\ raw[x] = "pending"
              /\ obs' = [obs EXCEPT ![job[p]][x] = o]
              /\ raw' = [raw EXCEPT ![x] = o]
              /\ booked' = [booked EXCEPT ![x] = @ + 1]
        /\ worst' = [worst EXCEPT ![p] = IF o = "review" THEN o ELSE @]
  BY DEF NormalizeHistoryRecord, RecordOutcome, Counted
<1>3. obs' = [obs EXCEPT ![job[p]][x] = o] =>
        /\ obs'[job[p]][x] = o
        /\ \A j \in Jobs \ {job[p]} : obs'[j] = obs[j]
        /\ \A y \in Records \ {x} : obs'[job[p]][y] = obs[job[p]][y]
  BY <1>1
<1>4. o # "open"
  BY DEF Outcomes
<1> QED BY <1>1, <1>2, <1>3, <1>4

\* No step of the queue or the worker breaks what a stored row knows of its scope.
LEMMA RowsKnowStep == TypeOK /\ RowsKnow /\ [Next]_vars => RowsKnow'
<1> SUFFICES ASSUME TypeOK, RowsKnow, [Next]_vars PROVE RowsKnow'
  OBVIOUS
<1> USE JobsAssumption DEF TypeOK, RowsKnow, rowVars, memory, evidence, budgets
<1>0. ASSUME NEW p \in Procs, Return(p), UNCHANGED <<phase, obs>>,
             \A j \in Jobs : status'[j] = "none" => status[j] = "none"
      PROVE  RowsKnow'
  BY <1>0 DEF Return
<1>1. ASSUME NEW r \in Requests, CreateHistoryJob(r) PROVE RowsKnow'
  BY <1>1 DEF CreateHistoryJob
<1>2. ASSUME NEW s \in FlexScopes, RetryHistoryConnectionFetches(s) PROVE RowsKnow'
  BY <1>2 DEF RetryHistoryConnectionFetches
<1>3. ASSUME NEW p \in Procs, ClaimHistoryJob(p) PROVE RowsKnow'
  <2>1. PICK j \in Jobs : ClaimHistoryJob(p)!2!(j)
    BY <1>3 DEF ClaimHistoryJob
  <2>2. phase[j] # "idle" /\ UNCHANGED <<phase, obs, worst>>
    BY <1>3 DEF ClaimHistoryJob
  <2> QED BY <2>1, <2>2
<1>4. ASSUME NEW p \in Procs, RunJob(p) PROVE RowsKnow'
  <2>1. CASE FetchJob(p)
    BY <2>1 DEF FetchJob, At
  <2>2. CASE StepFails(p)
    BY <2>2 DEF StepFails, ErrorPcs, FetchPcs, NormalizePcs
  <2>3. CASE SaveHistorySnapshots(p)
    BY <2>3 DEF SaveHistorySnapshots, Wrote, At
  <2>4. CASE SaveHistoryRaw(p)
    <3>1. job[p] \in Jobs /\ status[job[p]] = "running"
      BY <2>4 DEF SaveHistoryRaw, LeaseValid, Holds
    <3>2. /\ phase' = [phase EXCEPT ![job[p]] = "normalize"]
          /\ \A j \in Jobs \ {job[p]} : obs'[j] = obs[j]
          /\ UNCHANGED <<status, job, worst>>
      BY <2>4 DEF SaveHistoryRaw
    <3>3. \A q \in Procs : (pc[q] = "idle") <=> (pc'[q] = "idle")
      BY <2>4 DEF SaveHistoryRaw, Wrote, At
    <3> QED BY <3>1, <3>2, <3>3
  <2>5. ASSUME NEW x \in Records, NormalizeHistoryRecord(p, x) PROVE RowsKnow'
    <3>2. \A j \in Jobs, y \in Records : obs[j][y] = "none" => obs'[j][y] = "none"
      <4> HIDE DEF TypeOK
      <4>1. PICK o \in Outcomes : obs[job[p]][x] \in {"open", o}
        BY <2>5, NormalizeEffect
      <4>2. obs[job[p]][x] # "none"
        BY <4>1 DEF Outcomes
      <4>3. /\ \A j \in Jobs \ {job[p]} : obs'[j] = obs[j]
            /\ \A y \in Records \ {x} : obs'[job[p]][y] = obs[job[p]][y]
        BY <2>5, NormalizeEffect
      <4> QED BY <4>2, <4>3
    <3>3. \A q \in Procs : (pc[q] = "idle") <=> (pc'[q] = "idle")
      BY <2>5 DEF NormalizeHistoryRecord, Wrote, At
    <3>4. UNCHANGED <<status, phase, job>> /\ \A q \in Procs \ {p} : worst'[q] = worst[q]
      BY <2>5 DEF NormalizeHistoryRecord
    <3>5. pc[p] # "idle"
      BY <2>5 DEF NormalizeHistoryRecord, At
    <3> QED BY <3>2, <3>3, <3>4, <3>5
  <2>6. CASE ReconcileHistoryJob(p)
    BY <2>6 DEF ReconcileHistoryJob, Wrote, At
  <2>7. CASE SaveHistoryCoverage(p)
    BY <2>7 DEF SaveHistoryCoverage, Wrote, At
  <2>8. CASE FinishHistoryJob(p)
    <3>1. CASE Return(p)
      BY <1>0, <2>8, <3>1 DEF FinishHistoryJob, Finish
    <3>2. CASE ~Return(p)
      BY <2>8, <3>2 DEF FinishHistoryJob, Finish, At, LeaseValid, Holds
    <3> QED BY <3>1, <3>2
  <2>9. CASE FinishFailure(p)
    <3>1. PICK s \in {"needs_action", "failed", "retry_wait"} :
            Finish(job[p], s) \/ UNCHANGED rowVars
      BY <2>9 DEF FinishFailure
    <3>2. \A j \in Jobs : status'[j] = "none" => status[j] = "none"
      BY <3>1 DEF Finish
    <3>3. Return(p) /\ UNCHANGED <<phase, obs>>
      BY <2>9, <3>1 DEF FinishFailure, Finish
    <3> QED BY <1>0, <3>2, <3>3
  <2>10. CASE LeaseLost(p)
    BY <1>0, <2>10 DEF LeaseLost
  <2>11. CASE ContextCancelled(p)
    <3>1. CASE Return(p)
      BY <1>0, <2>11, <3>1 DEF ContextCancelled
    <3>2. CASE ~Return(p)
      BY <2>11, <3>2 DEF ContextCancelled, FetchPcs, NormalizePcs
    <3> QED BY <3>1, <3>2
  <2> QED BY <1>4, <2>1, <2>2, <2>3, <2>4, <2>5, <2>6, <2>7, <2>8, <2>9, <2>10, <2>11 DEF RunJob
<1>5. ASSUME NEW p \in Procs, RenewSend(p) \/ RenewHistoryJob(p) \/ RenewFails(p) PROVE RowsKnow'
  BY <1>5 DEF RenewSend, RenewHistoryJob, RenewFails
<1>6. ASSUME NEW p \in Procs, Crash(p) PROVE RowsKnow'
  BY <1>0, <1>6 DEF Crash
<1>7. ASSUME NEW j \in Jobs, LeaseRunsOut(j) \/ EdgePasses(j) \/ RetryComesDue(j) PROVE RowsKnow'
  BY <1>7 DEF LeaseRunsOut, EdgePasses, RetryComesDue
<1>8. CASE UNCHANGED vars
  BY <1>8 DEF vars
<1> QED
  BY <1>1, <1>2, <1>3, <1>4, <1>5, <1>6, <1>7, <1>8 DEF Next

-----------------------------------------------------------------------------
\* No step breaks what the holder of a lease knows: its in-memory progress agrees with
\* the row it claimed, until the lease is taken from it.
LEMMA HolderKnowsStep == TypeOK /\ RowsKnow /\ HolderKnows /\ [Next]_vars => HolderKnows'
<1> SUFFICES ASSUME TypeOK, RowsKnow, HolderKnows, [Next]_vars, NEW q \in Procs, Holds(q)'
             PROVE  Knows(q)'
  BY DEF HolderKnows
<1> USE DEF TypeOK, rowVars, memory, evidence, budgets
\* A step that leaves the worker q and the row it holds alone.
<1>0. ASSUME Holds(q), UNCHANGED <<pc[q], job[q], todo[q], worst[q]>>,
             UNCHANGED <<phase[job[q]], obs[job[q]], cov[job[q]]>>
      PROVE  Knows(q)'
  <2>1. Knows(q)
    BY <1>0 DEF HolderKnows
  <2> QED BY <1>0, <2>1 DEF Knows
<1>1. ASSUME NEW r \in Requests, CreateHistoryJob(r) PROVE Knows(q)'
  BY <1>0, <1>1 DEF CreateHistoryJob, Holds
<1>2. ASSUME NEW s \in FlexScopes, RetryHistoryConnectionFetches(s) PROVE Knows(q)'
  BY <1>0, <1>2 DEF RetryHistoryConnectionFetches, Holds
<1>3. ASSUME NEW p \in Procs, ClaimHistoryJob(p) PROVE Knows(q)'
  <2>1. PICK j \in Jobs : ClaimHistoryJob(p)!2!(j)
    BY <1>3 DEF ClaimHistoryJob
  <2>2. pc[p] = "idle" /\ UNCHANGED <<phase, obs, cov, worst>>
    BY <1>3 DEF ClaimHistoryJob
  <2>3. CASE q = p
    <3>1. /\ pc'[p] = phase[j] /\ job'[p] = j /\ todo'[p] = Observed(j)
          /\ worst'[p] = "clean" /\ phase'[j] = phase[j] /\ obs'[j] = obs[j]
      BY <2>1, <2>2 DEF RowsKnow
    <3>2. phase[j] \in {"fetch", "normalize"}
      OBVIOUS
    <3>3. \A x \in Records \ Observed(j) : obs[j][x] = "none"
      BY DEF Observed
    <3> QED BY <2>3, <3>1, <3>2, <3>3 DEF Knows, FetchPcs, NormalizePcs
  <2>4. CASE q # p
    BY <1>0, <2>1, <2>2, <2>4 DEF Holds
  <2> QED BY <2>3, <2>4
<1>4. ASSUME NEW p \in Procs, RunJob(p) PROVE Knows(q)'
  \* The row and the evidence of another holder's job are not p's to change.
  <2>0. ASSUME q # p, UNCHANGED <<pc[q], job[q], held[q], todo[q], worst[q]>>, UNCHANGED <<owner, gen>>,
               \/ UNCHANGED <<status, phase, obs, cov>>
               \/ /\ Holds(p)
                  /\ \A j \in Jobs \ {job[p]} : UNCHANGED <<status[j], phase[j], obs[j], cov[j]>>
        PROVE  Knows(q)'
    <3>1. job[q] \in Jobs /\ owner[job[q]] = q
      BY <2>0 DEF Holds
    <3>2. CASE UNCHANGED <<status, phase, obs, cov>>
      BY <1>0, <2>0, <3>2 DEF Holds
    <3>3. CASE Holds(p) /\ \A j \in Jobs \ {job[p]} : UNCHANGED <<status[j], phase[j], obs[j], cov[j]>>
      <4>1. job[q] # job[p]
        BY <2>0, <3>1, <3>3 DEF Holds
      <4> QED BY <1>0, <2>0, <3>1, <3>3, <4>1 DEF Holds
    <3> QED BY <2>0, <3>2, <3>3
  <2>00. ASSUME Return(p), UNCHANGED <<owner, gen, phase, obs, cov>>,
                Holds(p) \/ UNCHANGED status,
                \A j \in Jobs \ {job[p]} : status'[j] = status[j]
         PROVE  Knows(q)'
    <3>1. CASE q = p
      BY <2>00, <3>1, JobsAssumption DEF Return, Holds
    <3>2. CASE q # p
      BY <2>0, <2>00, <3>2 DEF Return
    <3> QED BY <3>1, <3>2
  <2>1. CASE FetchJob(p)
    <3>1. CASE q = p
      <4>1. /\ Holds(p) /\ pc[p] = "fetch" /\ pc'[p] = "snapshots"
            /\ job' = job /\ phase' = phase /\ worst' = worst
        BY <2>1, <3>1 DEF FetchJob, At, Holds
      <4>2. phase[job[p]] = "fetch" /\ worst[p] = "clean"
        BY <4>1 DEF HolderKnows, Knows, FetchPcs
      <4> QED BY <3>1, <4>1, <4>2 DEF Knows, FetchPcs, NormalizePcs
    <3>2. CASE q # p
      BY <2>0, <2>1, <3>2 DEF FetchJob
    <3> QED BY <3>1, <3>2
  <2>2. CASE StepFails(p)
    <3>1. CASE q = p
      BY <2>2, <3>1 DEF StepFails, Knows, ErrorPcs, FetchPcs, NormalizePcs
    <3>2. CASE q # p
      BY <2>0, <2>2, <3>2 DEF StepFails
    <3> QED BY <3>1, <3>2
  <2>3. CASE SaveHistorySnapshots(p)
    <3>1. CASE q = p
      <4>1. /\ Holds(p) /\ pc[p] = "snapshots" /\ pc'[p] \in {"raw", "failing"}
            /\ job' = job /\ phase' = phase /\ worst' = worst
        BY <2>3, <3>1 DEF SaveHistorySnapshots, Wrote, At, Holds
      <4>2. phase[job[p]] = "fetch" /\ worst[p] = "clean"
        BY <4>1 DEF HolderKnows, Knows, FetchPcs
      <4> QED BY <3>1, <4>1, <4>2 DEF Knows, FetchPcs, NormalizePcs
    <3>2. CASE q # p
      BY <2>0, <2>3, <3>2 DEF SaveHistorySnapshots, Wrote
    <3> QED BY <3>1, <3>2
  <2>4. CASE SaveHistoryRaw(p)
    <3>1. /\ Holds(p) /\ job[p] \in Jobs /\ pc[p] = "raw" /\ job' = job /\ todo' = todo /\ worst' = worst
          /\ phase' = [phase EXCEPT ![job[p]] = "normalize"]
          /\ pc'[p] \in {"normalize", "failing"}
          /\ \A x \in Records : obs'[job[p]][x] =
                 IF x \in todo[p] /\ obs[job[p]][x] = "none" THEN "open" ELSE obs[job[p]][x]
      BY <2>4 DEF SaveHistoryRaw, LeaseValid, Holds, At, Wrote
    <3>2. CASE q = p
      <4>1. phase[job[p]] = "fetch" /\ worst[p] = "clean"
        BY <3>1 DEF HolderKnows, Knows, FetchPcs
      <4>2. \A x \in Records : obs[job[p]][x] = "none"
        BY <3>1, <4>1 DEF RowsKnow
      <4> QED BY <3>1, <3>2, <4>1, <4>2 DEF Knows, FetchPcs, NormalizePcs
    <3>3. CASE q # p
      BY <2>0, <2>4, <3>1, <3>3 DEF SaveHistoryRaw, Wrote
    <3> QED BY <3>2, <3>3
  <2>5. ASSUME NEW x \in Records, NormalizeHistoryRecord(p, x) PROVE Knows(q)'
    <3>1. /\ job' = job /\ phase' = phase /\ pc'[p] \in {"normalize", "failing"}
          /\ todo' = [todo EXCEPT ![p] = @ \ {x}]
      BY <2>5 DEF NormalizeHistoryRecord, Wrote
    <3>2. CASE q = p
      <4>1. Holds(p) /\ Knows(p) /\ pc[p] = "normalize" /\ x \in todo[p] /\ job[p] \in Jobs
        BY <2>5, NormalizeEffect DEF HolderKnows
      <4>2. PICK o \in Outcomes : /\ obs'[job[p]][x] = o
                                  /\ worst' = [worst EXCEPT ![p] = IF o = "review" THEN o ELSE @]
        BY <2>5, NormalizeEffect
      <4>3. \A y \in Records : y # x => obs'[job[p]][y] = obs[job[p]][y]
        BY <2>5, <4>1, NormalizeEffect
      <4>4. \A y \in Records \ todo'[p] : y = x \/ y \in Records \ todo[p]
        BY <3>1
      <4>5. x \notin todo'[p] /\ \A y \in Records \ todo[p] : y \in Records \ todo'[p] /\ y # x
        BY <3>1, <4>1
      <4>6. /\ phase[job[p]] = "normalize"
            /\ \A y \in Records \ todo[p] : obs[job[p]][y] # "open"
            /\ worst[p] = "review" <=> \E y \in Records \ todo[p] : obs[job[p]][y] = "review"
        BY <4>1 DEF Knows, NormalizePcs
      <4>7. \A y \in Records \ todo'[p] : obs'[job[p]][y] # "open"
        BY <4>2, <4>3, <4>4, <4>6 DEF Outcomes
      <4>8. worst'[p] = "review" <=> \E y \in Records \ todo'[p] : obs'[job[p]][y] = "review"
        <5>1. CASE o = "review"
          BY <4>2, <4>5, <5>1
        <5>2. CASE o # "review"
          BY <4>2, <4>3, <4>4, <4>5, <4>6, <5>2
        <5> QED BY <5>1, <5>2
      <4> QED BY <3>1, <3>2, <4>6, <4>7, <4>8 DEF Knows, FetchPcs, NormalizePcs
    <3>3. CASE q # p
      <4>1. Holds(p) /\ \A j \in Jobs \ {job[p]} : obs'[j] = obs[j]
        BY <2>5, NormalizeEffect
      <4> QED BY <2>0, <2>5, <3>3, <4>1 DEF NormalizeHistoryRecord, Wrote
    <3> QED BY <3>2, <3>3
  <2>6. CASE ReconcileHistoryJob(p)
    <3>1. CASE q = p
      <4>1. /\ Holds(p) /\ pc[p] = "normalize" /\ pc'[p] \in {"coverage", "failing"} /\ todo[p] = {}
            /\ UNCHANGED <<job, phase, obs, todo, worst>>
        BY <2>6 DEF ReconcileHistoryJob, AllNormalized, Wrote, At, LeaseValid
      <4>2. Knows(p)
        BY <4>1 DEF HolderKnows
      <4> QED BY <3>1, <4>1, <4>2 DEF Knows, FetchPcs, NormalizePcs
    <3>2. CASE q # p
      BY <2>0, <2>6, <3>2 DEF ReconcileHistoryJob, Wrote
    <3> QED BY <3>1, <3>2
  <2>7. CASE SaveHistoryCoverage(p)
    <3>1. /\ Holds(p) /\ job[p] \in Jobs /\ pc[p] = "coverage" /\ pc'[p] \in {"finish", "failing"}
          /\ UNCHANGED <<job, phase, obs, todo, worst>>
          /\ cov' = [cov EXCEPT ![job[p]] = IF worst[p] = "review" THEN "partial" ELSE "complete"]
      BY <2>7 DEF SaveHistoryCoverage, CoverageStatus, Wrote, At, LeaseValid, Holds
    <3>2. CASE q = p
      <4>1. Knows(p)
        BY <3>1 DEF HolderKnows
      <4> QED BY <3>1, <3>2, <4>1 DEF Knows, FetchPcs, NormalizePcs
    <3>3. CASE q # p
      BY <2>0, <2>7, <3>1, <3>3 DEF SaveHistoryCoverage, Wrote
    <3> QED BY <3>2, <3>3
  <2>8. CASE FinishHistoryJob(p)
    <3>1. Holds(p)
      BY <2>8 DEF FinishHistoryJob, LeaseValid
    <3>2. CASE Return(p)
      BY <2>00, <2>8, <3>1, <3>2 DEF FinishHistoryJob, Finish
    <3>3. CASE ~Return(p) /\ q = p
      BY <2>8, <3>3 DEF FinishHistoryJob, Finish, Holds
    <3>4. CASE ~Return(p) /\ q # p
      BY <2>0, <2>8, <3>1, <3>4 DEF FinishHistoryJob, Finish
    <3> QED BY <3>2, <3>3, <3>4
  <2>9. CASE FinishFailure(p)
    BY <2>00, <2>9 DEF FinishFailure, Finish, LeaseValid
  <2>10. CASE LeaseLost(p)
    BY <2>00, <2>10 DEF LeaseLost
  <2>11. CASE ContextCancelled(p)
    <3>1. CASE Return(p)
      BY <2>00, <2>11, <3>1 DEF ContextCancelled
    <3>2. CASE ~Return(p) /\ q = p
      BY <2>11, <3>2 DEF ContextCancelled, Knows, FetchPcs, NormalizePcs
    <3>3. CASE ~Return(p) /\ q # p
      BY <2>0, <2>11, <3>3 DEF ContextCancelled
    <3> QED BY <3>1, <3>2, <3>3
  <2> QED BY <1>4, <2>1, <2>2, <2>3, <2>4, <2>5, <2>6, <2>7, <2>8, <2>9, <2>10, <2>11 DEF RunJob
<1>5. ASSUME NEW p \in Procs, RenewSend(p) \/ RenewHistoryJob(p) \/ RenewFails(p) PROVE Knows(q)'
  BY <1>0, <1>5 DEF RenewSend, RenewHistoryJob, RenewFails, Holds
<1>6. ASSUME NEW p \in Procs, Crash(p) PROVE Knows(q)'
  <2>1. CASE q = p
    BY <1>6, <2>1, JobsAssumption DEF Crash, Return, Holds
  <2>2. CASE q # p
    BY <1>0, <1>6, <2>2 DEF Crash, Return, Holds
  <2> QED BY <2>1, <2>2
<1>7. ASSUME NEW j \in Jobs, LeaseRunsOut(j) \/ EdgePasses(j) \/ RetryComesDue(j) PROVE Knows(q)'
  BY <1>0, <1>7 DEF LeaseRunsOut, EdgePasses, RetryComesDue, Holds
<1>8. CASE UNCHANGED vars
  BY <1>0, <1>8 DEF vars, Holds
<1> QED
  BY <1>1, <1>2, <1>3, <1>4, <1>5, <1>6, <1>7, <1>8 DEF Next

-----------------------------------------------------------------------------
\* Only these steps touch the status of a finished or finishing job, or evidence.
Writes(p) ==
    \/ SaveHistoryRaw(p)
    \/ \E x \in Records : NormalizeHistoryRecord(p, x)
    \/ SaveHistoryCoverage(p)
    \/ FinishHistoryJob(p)
    \/ FinishFailure(p)

Quiet ==
    /\ UNCHANGED <<phase, raw, obs, cov, booked>>
    /\ \A j \in Jobs :
        \/ status'[j] = status[j]
        \/ status[j] = "none" /\ status'[j] = "queued"
        \/ status[j] \in {"retry_wait", "needs_action"} /\ phase[j] = "fetch" /\ status'[j] = "queued"
        \/ status[j] \in Active /\ status'[j] = "running"
    /\ \A j \in Jobs : gen'[j] = gen[j] \/ status[j] \in Active

\* Every other step leaves evidence alone and makes no status final.
LEMMA QuietStep ==
    ASSUME TypeOK, [Next]_vars, \A p \in Procs : ~Writes(p)
    PROVE  Quiet
<1> USE DEF TypeOK, rowVars, memory, evidence, budgets, Active, Quiet
<1>1. ASSUME NEW r \in Requests, CreateHistoryJob(r) PROVE Quiet
  BY <1>1 DEF CreateHistoryJob
<1>2. ASSUME NEW s \in FlexScopes, RetryHistoryConnectionFetches(s) PROVE Quiet
  BY <1>2 DEF RetryHistoryConnectionFetches, Wakeable
<1>3. ASSUME NEW p \in Procs, ClaimHistoryJob(p) PROVE Quiet
  BY <1>3 DEF ClaimHistoryJob, Claimable
<1>4. ASSUME NEW p \in Procs, RunJob(p) PROVE Quiet
  BY <1>4 DEF RunJob, Writes, FetchJob, StepFails, SaveHistorySnapshots, ReconcileHistoryJob, LeaseLost,
              ContextCancelled
<1>5. ASSUME NEW p \in Procs, RenewSend(p) \/ RenewHistoryJob(p) \/ RenewFails(p) \/ Crash(p) PROVE Quiet
  BY <1>5 DEF RenewSend, RenewHistoryJob, RenewFails, Crash
<1>6. ASSUME NEW j \in Jobs, LeaseRunsOut(j) \/ EdgePasses(j) \/ RetryComesDue(j) PROVE Quiet
  BY <1>6 DEF LeaseRunsOut, EdgePasses, RetryComesDue
<1>7. CASE UNCHANGED vars
  BY <1>7 DEF vars
<1> QED BY <1>1, <1>2, <1>3, <1>4, <1>5, <1>6, <1>7 DEF Next

\* What the writing steps do to the rows: a holder writes only to its own job.
LEMMA OwnJobOnly ==
    ASSUME TypeOK, NEW p \in Procs, Writes(p)
    PROVE  /\ Holds(p) /\ job[p] \in Jobs /\ status[job[p]] = "running"
           /\ \A j \in Jobs \ {job[p]} : UNCHANGED <<status[j], phase[j], obs[j], cov[j]>>
<1> USE DEF TypeOK, rowVars, evidence
<1>1. Holds(p)
  BY DEF Writes, SaveHistoryRaw, NormalizeHistoryRecord, SaveHistoryCoverage, FinishHistoryJob,
         FinishFailure, LeaseValid
<1>2. CASE SaveHistoryRaw(p)
  BY <1>1, <1>2 DEF SaveHistoryRaw, Holds
<1>3. ASSUME NEW x \in Records, NormalizeHistoryRecord(p, x)
      PROVE  \A j \in Jobs \ {job[p]} : UNCHANGED <<status[j], phase[j], obs[j], cov[j]>>
  <2>1. \A j \in Jobs \ {job[p]} : obs'[j] = obs[j]
    BY <1>3, NormalizeEffect
  <2> QED BY <1>3, <2>1 DEF NormalizeHistoryRecord
<1>4. CASE SaveHistoryCoverage(p)
  BY <1>1, <1>4 DEF SaveHistoryCoverage, Holds
<1>5. CASE FinishHistoryJob(p)
  BY <1>1, <1>5 DEF FinishHistoryJob, Finish, Holds
<1>6. CASE FinishFailure(p)
  BY <1>1, <1>6 DEF FinishFailure, Finish, Holds
<1> QED BY <1>1, <1>2, <1>3, <1>4, <1>5, <1>6 DEF Writes, Holds

\* What the holder knows when it finishes its job.
LEMMA FinishEffect ==
    ASSUME TypeOK, HolderKnows, NEW p \in Procs, FinishHistoryJob(p)
    PROVE  LET j == job[p] IN
           /\ j \in Jobs /\ status[j] = "running" /\ phase[j] = "normalize"
           /\ UNCHANGED <<phase, raw, obs, cov, booked>>
           /\ \A x \in Records : obs[j][x] # "open"
           /\ status' = [status EXCEPT ![j] = IF InReview(j) THEN "partial" ELSE "succeeded"]
           /\ cov[j] = IF InReview(j) THEN "partial" ELSE "complete"
<1>1. Holds(p) /\ pc[p] = "finish" /\ Knows(p)
  BY DEF FinishHistoryJob, LeaseValid, At, HolderKnows
<1>2. /\ phase[job[p]] = "normalize"
      /\ \A x \in Records : obs[job[p]][x] # "open"
      /\ worst[p] = "review" <=> InReview(job[p])
      /\ cov[job[p]] = IF worst[p] = "review" THEN "partial" ELSE "complete"
  BY <1>1 DEF Knows, NormalizePcs, InReview
<1>3. /\ status' = [status EXCEPT ![job[p]] = IF worst[p] = "review" THEN "partial" ELSE "succeeded"]
      /\ UNCHANGED <<phase, raw, obs, cov, booked>>
  BY DEF FinishHistoryJob, Finish, evidence
<1> QED BY <1>1, <1>2, <1>3 DEF Holds

\* A row that says its scope was stored whole stays backed by the stored records.
LEMMA WholeStep == TypeOK /\ HolderKnows /\ WholeIsWhole /\ [Next]_vars => WholeIsWhole'
<1> SUFFICES ASSUME TypeOK, HolderKnows, WholeIsWhole, [Next]_vars,
                    NEW j \in Jobs, status'[j] \in Whole
             PROVE  WholeIsWhole!(j)'
  BY DEF WholeIsWhole
<1> USE DEF Whole
<1>0. ASSUME UNCHANGED <<status[j], phase[j], obs[j], cov[j]>> PROVE WholeIsWhole!(j)'
  BY <1>0 DEF WholeIsWhole, InReview
<1>1. CASE \A p \in Procs : ~Writes(p)
  <2>1. Quiet
    BY <1>1, QuietStep
  <2>2. status'[j] = status[j]
    BY <2>1 DEF Quiet
  <2> QED BY <1>0, <2>1, <2>2 DEF Quiet
<1>2. ASSUME NEW p \in Procs, Writes(p) PROVE WholeIsWhole!(j)'
  <2>1. CASE j # job[p]
    BY <1>0, <1>2, <2>1, OwnJobOnly
  <2>2. CASE j = job[p]
    <3>1. status[j] = "running"
      BY <1>2, <2>2, OwnJobOnly
    <3>2. status' # status
      BY <3>1
    <3>3. ~SaveHistoryRaw(p) /\ ~SaveHistoryCoverage(p) /\ \A x \in Records : ~NormalizeHistoryRecord(p, x)
      BY <3>2 DEF SaveHistoryRaw, SaveHistoryCoverage, NormalizeHistoryRecord, rowVars
    <3>4. ~FinishFailure(p)
      BY <2>2, <3>2 DEF FinishFailure, Finish, rowVars, TypeOK
    <3>5. FinishHistoryJob(p)
      BY <1>2, <3>3, <3>4 DEF Writes
    <3>6. status'[j] = IF InReview(j) THEN "partial" ELSE "succeeded"
      BY <2>2, <3>5, FinishEffect DEF TypeOK
    <3> QED BY <2>2, <3>5, <3>6, FinishEffect DEF InReview
  <2> QED BY <2>1, <2>2
<1> QED BY <1>1, <1>2

\* No step books one record's movement a second time.
LEMMA BookedStep ==
    TypeOK /\ RowsKnow /\ HolderKnows /\ BookedOnce /\ [Next]_vars => BookedOnce'
<1> SUFFICES ASSUME TypeOK, RowsKnow, HolderKnows, BookedOnce, [Next]_vars, NEW y \in Records
             PROVE  BookedOnce!(y)'
  BY DEF BookedOnce
<1> USE DEF Whole
\* A step that leaves record y alone and completes no job that still owes it an outcome.
<1>0. ASSUME UNCHANGED <<raw[y], booked[y]>>,
             \A j \in Jobs : obs[j][y] = "open" /\ status[j] \notin Whole =>
                             obs'[j][y] = "open" /\ status'[j] \notin Whole
      PROVE  BookedOnce!(y)'
  BY <1>0 DEF BookedOnce
<1>1. CASE \A p \in Procs : ~Writes(p)
  <2>1. Quiet
    BY <1>1, QuietStep
  <2> QED BY <1>0, <2>1 DEF Quiet
<1>2. ASSUME NEW p \in Procs, SaveHistoryRaw(p) PROVE BookedOnce!(y)'
  <2>1. /\ Holds(p) /\ job[p] \in Jobs /\ status[job[p]] = "running" /\ status' = status
        /\ booked' = booked
        /\ raw'[y] = IF y \in todo[p] /\ raw[y] = "none" THEN "pending" ELSE raw[y]
        /\ \A j \in Jobs \ {job[p]} : obs'[j] = obs[j]
        /\ obs'[job[p]][y] = IF y \in todo[p] /\ obs[job[p]][y] = "none" THEN "open" ELSE obs[job[p]][y]
    BY <1>2 DEF SaveHistoryRaw, LeaseValid, Holds, TypeOK
  <2>2. obs[job[p]][y] = "none"
    <3>1. pc[p] = "raw"
      BY <1>2 DEF SaveHistoryRaw, At
    <3>2. phase[job[p]] = "fetch"
      BY <2>1, <3>1 DEF HolderKnows, Knows, FetchPcs
    <3> QED BY <2>1, <3>2 DEF RowsKnow
  <2>3. CASE y \in todo[p] /\ raw[y] = "none"
    BY <2>1, <2>2, <2>3 DEF BookedOnce, Outcomes
  <2>4. CASE ~(y \in todo[p] /\ raw[y] = "none")
    BY <1>0, <2>1, <2>2, <2>4
  <2> QED BY <2>3, <2>4
<1>3. ASSUME NEW p \in Procs, NEW x \in Records, NormalizeHistoryRecord(p, x) PROVE BookedOnce!(y)'
  <2>1. /\ job[p] \in Jobs /\ status' = status
        /\ \A j \in Jobs \ {job[p]} : obs'[j] = obs[j]
        /\ \A z \in Records \ {x} : obs'[job[p]][z] = obs[job[p]][z]
    <3>1. status' = status
      BY <1>3 DEF NormalizeHistoryRecord, rowVars
    <3> QED BY <1>3, <3>1, NormalizeEffect
  <2>2. PICK o \in Outcomes :
          /\ obs[job[p]][x] \in {"open", o}
          /\ obs'[job[p]][x] = o
          /\ \/ raw' = raw /\ booked' = booked /\ (obs[job[p]][x] = "open" => raw[x] = o)
             \/ /\ raw[x] = "pending" /\ raw' = [raw EXCEPT ![x] = o]
                /\ obs[job[p]][x] = "open"
                /\ booked' = [booked EXCEPT ![x] = @ + 1]
    BY <1>3, NormalizeEffect
  <2>3. CASE y # x
    <3>1. UNCHANGED <<raw[y], booked[y]>>
      BY <2>2, <2>3 DEF TypeOK
    <3> QED BY <1>0, <2>1, <2>3, <3>1
  <2>4. CASE y = x /\ raw[x] = "pending" /\ raw' # raw
    <3>1. raw'[y] = o /\ booked'[y] = booked[y] + 1 /\ booked[y] = 0
      BY <2>2, <2>4 DEF TypeOK, BookedOnce
    <3> QED BY <3>1 DEF Outcomes
  <2>5. CASE y = x /\ raw' = raw
    <3>1. booked' = booked
      BY <2>2, <2>5 DEF Outcomes, TypeOK
    <3>2. CASE obs[job[p]][x] = "open"
      <4>1. raw[x] = o
        BY <2>2, <2>5, <3>2 DEF Outcomes, TypeOK
      <4> QED BY <2>5, <3>1, <4>1 DEF BookedOnce, Outcomes
    <3>3. CASE obs[job[p]][x] # "open"
      BY <1>0, <2>1, <2>2, <2>5, <3>1, <3>3
    <3> QED BY <3>2, <3>3
  <2> QED BY <2>2, <2>3, <2>4, <2>5
<1>4. ASSUME NEW p \in Procs, SaveHistoryCoverage(p) PROVE BookedOnce!(y)'
  BY <1>0, <1>4 DEF SaveHistoryCoverage, rowVars
<1>5. ASSUME NEW p \in Procs, FinishHistoryJob(p) PROVE BookedOnce!(y)'
  <2>1. \A j \in Jobs : obs[j][y] = "open" => j # job[p]
    BY <1>5, FinishEffect
  <2>2. \A j \in Jobs : j # job[p] => status'[j] = status[j]
    BY <1>5, FinishEffect DEF TypeOK
  <2>3. UNCHANGED <<raw, obs, booked>>
    BY <1>5, FinishEffect
  <2> QED BY <1>0, <2>1, <2>2, <2>3
<1>6. ASSUME NEW p \in Procs, FinishFailure(p) PROVE BookedOnce!(y)'
  <2>1. \A j \in Jobs : status[j] \notin Whole => status'[j] \notin Whole
    BY <1>6 DEF FinishFailure, Finish, rowVars, TypeOK
  <2> QED BY <1>0, <1>6, <2>1 DEF FinishFailure, evidence
<1> QED BY <1>1, <1>2, <1>3, <1>4, <1>5, <1>6 DEF Writes

\* The invariant that carries the safety properties.
THEOREM Invariance == Spec => []IInv
<1>1. Init => IInv
  <2> SUFFICES ASSUME Init PROVE IInv
    OBVIOUS
  <2>1. TypeOK
    BY Literals, JobsAssumption DEF Init, TypeOK
  <2>2. RowsKnow
    BY DEF Init, RowsKnow
  <2>3. HolderKnows
    BY JobsAssumption DEF Init, HolderKnows, Holds
  <2>4. WholeIsWhole /\ BookedOnce
    BY DEF Init, WholeIsWhole, BookedOnce, Whole, Outcomes
  <2> QED BY <2>1, <2>2, <2>3, <2>4 DEF IInv
<1>2. IInv /\ [Next]_vars => IInv'
  BY TypeStep, RowsKnowStep, HolderKnowsStep, WholeStep, BookedStep DEF IInv
<1> QED BY <1>1, <1>2, PTL DEF Spec

\* A finished job is complete and reports its review state, in every instance.
THEOREM WholeIsAlwaysWhole == Spec => []WholeIsWhole
BY Invariance, PTL DEF IInv

\* No record is booked twice and no pending record is forgotten, in every instance.
THEOREM AlwaysBookedOnce == Spec => []BookedOnce
BY Invariance, PTL DEF IInv

-----------------------------------------------------------------------------
\* Evidence is written only under the job's current lease generation.
THEOREM AlwaysFenced == Spec => Fenced
<1>1. TypeOK /\ [Next]_vars => [HolderWrites]_vars
  <2> SUFFICES ASSUME TypeOK, [Next]_vars, NEW j \in Jobs,
                      obs'[j] # obs[j] \/ cov'[j] # cov[j] \/ phase'[j] # phase[j]
               PROVE  HolderWrites!(j)!2
    BY DEF HolderWrites
  <2>1. PICK p \in Procs : Writes(p)
    BY QuietStep DEF Quiet
  <2>2. Holds(p) /\ job[p] = j
    BY <2>1, OwnJobOnly
  <2>3. ~FinishHistoryJob(p) /\ ~FinishFailure(p)
    BY DEF FinishHistoryJob, FinishFailure, Finish, evidence, rowVars
  <2>4. CASE SaveHistoryRaw(p) \/ SaveHistoryCoverage(p)
    <3>1. pc'[p] # pc[p]
      BY <2>4 DEF SaveHistoryRaw, SaveHistoryCoverage, Wrote, At, TypeOK
    <3> QED BY <2>2, <3>1
  <2>5. ASSUME NEW x \in Records, NormalizeHistoryRecord(p, x) PROVE HolderWrites!(j)!2
    <3>1. todo'[p] # todo[p]
      BY <2>5 DEF NormalizeHistoryRecord, TypeOK
    <3> QED BY <2>2, <3>1
  <2> QED BY <2>1, <2>3, <2>4, <2>5 DEF Writes
<1> QED BY <1>1, TypeCorrect, PTL DEF Spec, Fenced

\* A job that ended stays as it is.
THEOREM FinalStaysFinal == Spec => FinalIsFinal
<1>1. TypeOK /\ [Next]_vars => [EndedUntouched]_vars
  <2> SUFFICES ASSUME TypeOK, [Next]_vars, NEW j \in Jobs, status[j] \in Final
               PROVE  EndedUntouched!(j)!2
    BY DEF EndedUntouched
  <2>1. status[j] \notin Active /\ status[j] \notin {"none", "running", "retry_wait", "needs_action"}
    BY DEF Active, Final, Whole
  <2>2. CASE \A p \in Procs : ~Writes(p)
    <3>1. Quiet
      BY <2>2, QuietStep
    <3> QED BY <2>1, <3>1 DEF Quiet
  <2>3. ASSUME NEW p \in Procs, Writes(p) PROVE EndedUntouched!(j)!2
    <3>1. job[p] # j
      BY <2>1, <2>3, OwnJobOnly
    <3>2. UNCHANGED gen
      BY <2>3 DEF Writes, SaveHistoryRaw, NormalizeHistoryRecord, SaveHistoryCoverage, FinishHistoryJob,
                  FinishFailure, Finish, rowVars
    <3> QED BY <2>3, <3>1, <3>2, OwnJobOnly
  <2> QED BY <2>2, <2>3
<1> QED BY <1>1, TypeCorrect, PTL DEF Spec, FinalIsFinal

-----------------------------------------------------------------------------
\* The abstract state as the refinement mapping sees it.
JobStages == [j \in Jobs |-> Stage(j)]
StoredJobs == {j \in Jobs : phase[j] = "normalize"}

\* Steps that are invisible in the abstract specification.
Hidden ==
    /\ UNCHANGED <<phase, raw, obs, cov>>
    /\ \A j \in Jobs : status'[j] = status[j] \/ (status[j] \in Active /\ status'[j] \in Active)

\* A step that touches neither the stages nor the stored records is a stutter of the
\* promise.
LEMMA HiddenStutters == ASSUME Hidden PROVE UNCHANGED Promise!pvars
<1>1. JobStages' = JobStages /\ StoredJobs' = StoredJobs
  BY DEF Hidden, JobStages, StoredJobs, Stage
<1> QED BY <1>1 DEF Hidden, Promise!pvars, JobStages, StoredJobs

\* Every step of the queue and its workers is a step of the promise, or a stutter.
LEMMA PromiseStep == IInv /\ [Next]_vars => [Promise!PNext]_(Promise!pvars)
<1> SUFFICES ASSUME TypeOK, RowsKnow, HolderKnows, [Next]_vars
             PROVE  Promise!PNext \/ UNCHANGED Promise!pvars
  BY DEF IInv
<1> USE DEF rowVars, memory, evidence, budgets
<1>1. ASSUME NEW r \in Requests, CreateHistoryJob(r) PROVE Promise!PNext
  <2>1. PICK j \in Jobs : status[j] = "none" /\ status' = [status EXCEPT ![j] = "queued"]
    BY <1>1 DEF CreateHistoryJob
  <2>2. JobStages[j] = "none" /\ JobStages' = [JobStages EXCEPT ![j] = "open"]
    BY <2>1 DEF JobStages, Stage, Active, TypeOK
  <2>3. UNCHANGED <<phase, obs, raw, cov>>
    BY <1>1 DEF CreateHistoryJob
  <2>4. Promise!Submit(j)
    BY <2>2, <2>3 DEF Promise!Submit, JobStages
  <2> QED BY <2>4 DEF Promise!PNext
<1>2. ASSUME NEW s \in FlexScopes, RetryHistoryConnectionFetches(s) PROVE Promise!PNext
  <2> DEFINE J == {j \in Jobs : Wakeable(j, s) /\ status[j] = "needs_action"}
  <2>1. UNCHANGED <<phase, obs, raw, cov>>
    BY <1>2 DEF RetryHistoryConnectionFetches
  <2>2. \A j \in J : JobStages[j] = "needs_action" /\ j \notin StoredJobs
    BY DEF Wakeable, JobStages, Stage, Active, StoredJobs
  <2>3. JobStages' = [j \in Jobs |-> IF j \in J THEN "open" ELSE JobStages[j]]
    BY <1>2 DEF RetryHistoryConnectionFetches, Wakeable, JobStages, Stage, Active, TypeOK
  <2>4. Promise!StartOver(J)
    BY <2>1, <2>2, <2>3 DEF Promise!StartOver, JobStages, StoredJobs
  <2> QED BY <2>4 DEF Promise!PNext
<1>3. ASSUME NEW p \in Procs, SaveHistoryRaw(p) PROVE Promise!PNext
  <2>1. Holds(p) /\ job[p] \in Jobs /\ status[job[p]] = "running" /\ pc[p] = "raw"
    BY <1>3 DEF SaveHistoryRaw, LeaseValid, Holds, At
  <2>2. phase[job[p]] = "fetch"
    BY <2>1 DEF HolderKnows, Knows, FetchPcs
  <2>3. \A x \in Records : obs[job[p]][x] = "none"
    BY <2>1, <2>2 DEF RowsKnow
  <2>4. JobStages[job[p]] = "open" /\ JobStages' = JobStages
    BY <1>3, <2>1 DEF SaveHistoryRaw, JobStages, Stage, Active
  <2>5. job[p] \notin StoredJobs /\ StoredJobs' = StoredJobs \cup {job[p]}
    BY <1>3, <2>1, <2>2 DEF SaveHistoryRaw, StoredJobs, TypeOK
  <2>6. obs' = [obs EXCEPT ![job[p]] = [x \in Records |-> IF x \in todo[p] THEN "open" ELSE "none"]]
    <3>1. [x \in Records |-> IF x \in todo[p] /\ obs[job[p]][x] = "none" THEN "open" ELSE obs[job[p]][x]]
            = [x \in Records |-> IF x \in todo[p] THEN "open" ELSE "none"]
      BY <2>3
    <3> QED BY <1>3, <3>1 DEF SaveHistoryRaw
  <2>7. todo[p] \in SUBSET Records /\ UNCHANGED cov
    BY <1>3 DEF SaveHistoryRaw, TypeOK
  <2>8. raw' = [x \in Records |-> IF x \in todo[p] /\ raw[x] = "none" THEN "pending" ELSE raw[x]]
    BY <1>3 DEF SaveHistoryRaw
  <2>9. PICK S \in SUBSET Records : S = todo[p]
    BY <2>7
  <2>10. Promise!StoreEvidence(job[p], S)
    BY <2>4, <2>5, <2>6, <2>7, <2>8, <2>9 DEF Promise!StoreEvidence, JobStages, StoredJobs
  <2> QED BY <2>1, <2>10 DEF Promise!PNext
<1>4. ASSUME NEW p \in Procs, NEW x \in Records, NormalizeHistoryRecord(p, x)
      PROVE  Promise!PNext \/ UNCHANGED Promise!pvars
  <2>1. /\ job[p] \in Jobs /\ status[job[p]] = "running" /\ UNCHANGED <<status, phase, cov>>
    BY <1>4 DEF NormalizeHistoryRecord, LeaseValid, Holds
  <2>2. PICK o \in Outcomes :
          \/ UNCHANGED <<obs, raw>>
          \/ /\ obs[job[p]][x] = "open" /\ raw[x] = o
             /\ obs' = [obs EXCEPT ![job[p]][x] = o] /\ raw' = raw
          \/ /\ obs[job[p]][x] = "open" /\ raw[x] = "pending"
             /\ obs' = [obs EXCEPT ![job[p]][x] = o] /\ raw' = [raw EXCEPT ![x] = o]
    BY <1>4 DEF NormalizeHistoryRecord, RecordOutcome
  <2>3. CASE UNCHANGED <<obs, raw>>
    BY <2>1, <2>3, HiddenStutters DEF Hidden
  <2>4. CASE ~UNCHANGED <<obs, raw>>
    <3>1. /\ obs[job[p]][x] = "open" /\ raw[x] \in {"pending", o}
          /\ obs' = [obs EXCEPT ![job[p]][x] = o]
      BY <2>2, <2>4
    <3>2. raw' = [raw EXCEPT ![x] = o]
      BY <2>2, <2>4 DEF TypeOK
    <3>3. JobStages[job[p]] = "open" /\ JobStages' = JobStages /\ StoredJobs' = StoredJobs
      BY <2>1 DEF JobStages, Stage, StoredJobs, Active
    <3>4. Promise!Decide(job[p], x, o)
      BY <2>1, <3>1, <3>2, <3>3 DEF Promise!Decide, JobStages, StoredJobs
    <3> QED BY <2>1, <3>4 DEF Promise!PNext, Outcomes
  <2> QED BY <2>3, <2>4
<1>5. ASSUME NEW p \in Procs, SaveHistoryCoverage(p) PROVE Promise!PNext
  <2>1. /\ Holds(p) /\ job[p] \in Jobs /\ status[job[p]] = "running" /\ pc[p] = "coverage"
        /\ UNCHANGED <<status, phase, obs, raw>>
        /\ cov' = [cov EXCEPT ![job[p]] = IF worst[p] = "review" THEN "partial" ELSE "complete"]
    BY <1>5 DEF SaveHistoryCoverage, CoverageStatus, LeaseValid, Holds, At
  <2>2. /\ phase[job[p]] = "normalize"
        /\ \A x \in Records : obs[job[p]][x] # "open"
        /\ worst[p] = "review" <=> Promise!InReview(job[p])
    <3>1. Knows(p)
      BY <2>1 DEF HolderKnows
    <3> QED BY <2>1, <3>1 DEF Knows, NormalizePcs, Promise!InReview
  <2>3. JobStages[job[p]] = "open" /\ job[p] \in StoredJobs /\ JobStages' = JobStages /\ StoredJobs' = StoredJobs
    BY <2>1, <2>2 DEF JobStages, Stage, StoredJobs, Active
  <2>4. Promise!Cover(job[p])
    BY <2>1, <2>2, <2>3 DEF Promise!Cover, Promise!Decided, JobStages, StoredJobs
  <2> QED BY <2>1, <2>4 DEF Promise!PNext
<1>6. ASSUME NEW p \in Procs, FinishHistoryJob(p) PROVE Promise!PNext
  <2>1. /\ job[p] \in Jobs /\ status[job[p]] = "running" /\ phase[job[p]] = "normalize"
        /\ UNCHANGED <<phase, raw, obs, cov>>
        /\ \A x \in Records : obs[job[p]][x] # "open"
        /\ status' = [status EXCEPT ![job[p]] = IF InReview(job[p]) THEN "partial" ELSE "succeeded"]
        /\ cov[job[p]] = IF InReview(job[p]) THEN "partial" ELSE "complete"
    BY <1>6, FinishEffect
  <2>2. InReview(job[p]) <=> Promise!InReview(job[p])
    BY DEF InReview, Promise!InReview
  <2>3. JobStages[job[p]] = "open" /\ job[p] \in StoredJobs /\ StoredJobs' = StoredJobs
    BY <2>1 DEF JobStages, Stage, StoredJobs, Active
  <2>4. JobStages' = [JobStages EXCEPT ![job[p]] = IF InReview(job[p]) THEN "partial" ELSE "succeeded"]
    BY <2>1 DEF JobStages, Stage, Active, TypeOK
  <2>5. Promise!Complete(job[p])
    BY <2>1, <2>2, <2>3, <2>4 DEF Promise!Complete, Promise!Decided, JobStages, StoredJobs
  <2> QED BY <2>1, <2>5 DEF Promise!PNext
<1>7. ASSUME NEW p \in Procs, FinishFailure(p) PROVE Promise!PNext \/ UNCHANGED Promise!pvars
  <2>1. job[p] \in Jobs /\ status[job[p]] = "running" /\ UNCHANGED <<phase, raw, obs, cov>>
    BY <1>7 DEF FinishFailure, Finish, LeaseValid, Holds
  <2>2. PICK t \in {"running", "retry_wait", "failed", "needs_action"} :
          status' = [status EXCEPT ![job[p]] = t]
    <3>1. CASE UNCHANGED rowVars
      BY <2>1, <3>1 DEF TypeOK
    <3>2. CASE ~UNCHANGED rowVars
      BY <1>7, <3>2 DEF FinishFailure, Finish
    <3> QED BY <3>1, <3>2
  <2>3. CASE t \in Active
    BY <2>1, <2>2, <2>3, HiddenStutters DEF Hidden, TypeOK, Active
  <2>4. CASE t \notin Active
    <3>1. t \in {"failed", "needs_action"}
      BY <2>4 DEF Active
    <3>2. JobStages[job[p]] = "open" /\ JobStages' = [JobStages EXCEPT ![job[p]] = t] /\ StoredJobs' = StoredJobs
      BY <2>1, <2>2, <3>1 DEF JobStages, Stage, StoredJobs, Active, TypeOK
    <3>3. Promise!GiveUp(job[p])
      BY <2>1, <3>1, <3>2 DEF Promise!GiveUp, JobStages, StoredJobs
    <3> QED BY <2>1, <3>3 DEF Promise!PNext
  <2> QED BY <2>3, <2>4
<1>8. ASSUME NEW p \in Procs, RunJob(p), ~Writes(p) PROVE UNCHANGED Promise!pvars
  <2>1. Hidden
    BY <1>8 DEF Hidden, RunJob, Writes, FetchJob, StepFails, SaveHistorySnapshots, ReconcileHistoryJob,
                LeaseLost, ContextCancelled
  <2> QED BY <2>1, HiddenStutters
<1>9. ASSUME NEW p \in Procs, ClaimHistoryJob(p) PROVE UNCHANGED Promise!pvars
  <2>1. Hidden
    BY <1>9 DEF Hidden, ClaimHistoryJob, Claimable, Active, TypeOK
  <2> QED BY <2>1, HiddenStutters
<1>10. ASSUME NEW p \in Procs, RenewSend(p) \/ RenewHistoryJob(p) \/ RenewFails(p) \/ Crash(p)
       PROVE  UNCHANGED Promise!pvars
  <2>1. Hidden
    BY <1>10 DEF Hidden, RenewSend, RenewHistoryJob, RenewFails, Crash
  <2> QED BY <2>1, HiddenStutters
<1>11. ASSUME NEW j \in Jobs, LeaseRunsOut(j) \/ EdgePasses(j) \/ RetryComesDue(j)
       PROVE  UNCHANGED Promise!pvars
  <2>1. Hidden
    BY <1>11 DEF Hidden, LeaseRunsOut, EdgePasses, RetryComesDue
  <2> QED BY <2>1, HiddenStutters
<1>12. CASE UNCHANGED vars
  <2>1. Hidden
    BY <1>12 DEF Hidden, vars
  <2> QED BY <2>1, HiddenStutters
<1> QED
  BY <1>1, <1>2, <1>3, <1>4, <1>5, <1>6, <1>7, <1>8, <1>9, <1>10, <1>11, <1>12 DEF Next, Writes

\* The queue implements HistoryJobPromise in every instance.
THEOREM PromiseKept == Spec => KeepsPromise
<1>1. Init => Promise!PInit
  BY DEF Init, Promise!PInit, Stage, Active
<1> QED BY <1>1, PromiseStep, Invariance, PTL DEF Spec, KeepsPromise, Promise!PSpec

-----------------------------------------------------------------------------
(***************************************************************************)
(* Uploads                                                                 *)
(***************************************************************************)
\* The transaction that decides about an import has its row, and no other transaction has.
RowHeld ==
    \A i \in Imports, h \in Handlers :
        rowLock[i] = h <=> stage[h] \in {"deciding", "inserting"} /\ subject[h] = i

\* What a request has learned of its import still holds: a preview is never taken back, and
\* one found usable under the lock stays so.
Learned ==
    \A h \in Handlers :
        /\ stage[h] # "idle" => subject[h] \in Imports
        /\ stage[h] \in {"locking", "deciding", "inserting"} => subject[h] \in answered
        /\ stage[h] = "inserting" =>
            importStatus[subject[h]] = "preview" /\ ~committed[subject[h]]

\* An id is known once the evidence is stored.
Known == \A i \in answered : importEvidence[i]

\* A job is created by the commit that links it.
Linked == \A i \in Imports : active[i] => committed[i]

\* Inductive.
ImportsInv == ImportsTypeOK /\ RowHeld /\ Learned /\ Known /\ Linked /\ ImportedOnce

\* Where the literals that the handlers' actions assign belong.
LEMMA ImportsStages == {"idle", "saving", "locking", "deciding", "inserting"} = Stages
BY DEF Stages

\* Nothing was uploaded yet.
LEMMA ImportsBegin == ImportsInit => ImportsInv
BY ImportsAssumption
   DEF ImportsInit, ImportsInv, ImportsTypeOK, RowHeld, Learned, Known, Linked, ImportedOnce, Stages

\* Every step keeps the types.
LEMMA ImportsTypeStep == ImportsTypeOK /\ Learned /\ [ImportsNext]_importVars => ImportsTypeOK'
<1> SUFFICES ASSUME ImportsTypeOK, Learned, [ImportsNext]_importVars PROVE ImportsTypeOK'
  OBVIOUS
<1> USE ImportsStages DEF ImportsTypeOK, Learned, importRows, Move, Leave, Unlock
<1>1. ASSUME NEW h \in Handlers, NEW i \in Imports, PreviewImport(h, i) PROVE ImportsTypeOK'
  BY <1>1 DEF PreviewImport, CreateAnswers
<1>2. ASSUME NEW h \in Handlers, NEW i \in Imports, CommitImport(h, i) PROVE ImportsTypeOK'
  BY <1>2 DEF CommitImport
<1>3. ASSUME NEW h \in Handlers, SaveHistoryImportEvidence(h) PROVE ImportsTypeOK'
  <2>0. subject[h] \in Imports
    BY <1>3 DEF SaveHistoryImportEvidence
  <2>1. importEvidence' \in [Imports -> BOOLEAN] /\ answered' \subseteq Imports
    <3>1. \/ /\ importEvidence' = [importEvidence EXCEPT ![subject[h]] = TRUE]
             /\ answered' = answered \cup {subject[h]}
          \/ importEvidence' = importEvidence /\ answered' = answered
      BY <1>3 DEF SaveHistoryImportEvidence
    <3> QED BY <2>0, <3>1
  <2> QED BY <1>3, <2>1 DEF SaveHistoryImportEvidence
<1>4. ASSUME NEW h \in Handlers, LockRow(h) PROVE ImportsTypeOK'
  BY <1>4 DEF LockRow
<1>5. ASSUME NEW h \in Handlers, Decide(h) PROVE ImportsTypeOK'
  BY <1>5 DEF Decide
<1>6. ASSUME NEW h \in Handlers, Commit(h) PROVE ImportsTypeOK'
  BY <1>6 DEF Commit
<1>7. ASSUME NEW h \in Handlers, RollBack(h) PROVE ImportsTypeOK'
  BY <1>7 DEF RollBack
<1>8. ASSUME NEW i \in Imports, Expire(i) PROVE ImportsTypeOK'
  BY <1>8 DEF Expire
<1>9. ASSUME NEW i \in Imports, JobEnds(i) PROVE ImportsTypeOK'
  BY <1>9 DEF JobEnds
<1>10. CASE UNCHANGED importVars
  BY <1>10 DEF importVars
<1> QED BY <1>1, <1>2, <1>3, <1>4, <1>5, <1>6, <1>7, <1>8, <1>9, <1>10 DEF ImportsNext

\* Every step keeps the invariant.
LEMMA ImportsStep == ImportsInv /\ [ImportsNext]_importVars => ImportsInv'
<1> SUFFICES ASSUME ImportsInv, [ImportsNext]_importVars
             PROVE (RowHeld /\ Learned /\ Known /\ Linked /\ ImportedOnce)'
  BY ImportsTypeStep DEF ImportsInv
<1> DEFINE Rest == RowHeld /\ Learned /\ Known /\ Linked /\ ImportedOnce
<1> USE ImportsAssumption
    DEF ImportsInv, ImportsTypeOK, RowHeld, Learned, Known, Linked, ImportedOnce, importRows,
        Move, Leave, Unlock
<1>1. ASSUME NEW h \in Handlers, NEW i \in Imports, PreviewImport(h, i) PROVE Rest'
  BY <1>1 DEF PreviewImport, CreateAnswers
<1>2. ASSUME NEW h \in Handlers, NEW i \in Imports, CommitImport(h, i) PROVE Rest'
  BY <1>2 DEF CommitImport
<1>3. ASSUME NEW h \in Handlers, SaveHistoryImportEvidence(h) PROVE Rest'
  BY <1>3 DEF SaveHistoryImportEvidence
<1>4. ASSUME NEW h \in Handlers, LockRow(h) PROVE Rest'
  BY <1>4 DEF LockRow
<1>5. ASSUME NEW h \in Handlers, Decide(h) PROVE Rest'
  BY <1>5 DEF Decide, Refused
<1>6. ASSUME NEW h \in Handlers, Commit(h) PROVE Rest'
  <2> DEFINE i == subject[h]
  <2>1. i \in Imports /\ i \in answered /\ importStatus[i] = "preview" /\ ~committed[i]
    BY <1>6 DEF Commit
  <2>2. created[i] = 0 /\ ~active[i] /\ importEvidence[i]
    BY <2>1
  <2>3. RowHeld' /\ Learned' /\ Known'
    BY <1>6, <2>1 DEF Commit
  <2>4. Linked' /\ ImportedOnce'
    BY <1>6, <2>1, <2>2 DEF Commit
  <2> QED BY <2>3, <2>4
<1>7. ASSUME NEW h \in Handlers, RollBack(h) PROVE Rest'
  BY <1>7, ImportsStages DEF RollBack
<1>8. ASSUME NEW i \in Imports, Expire(i) PROVE Rest'
  BY <1>8 DEF Expire
<1>9. ASSUME NEW i \in Imports, JobEnds(i) PROVE Rest'
  BY <1>9 DEF JobEnds
<1>10. CASE UNCHANGED importVars
  BY <1>10 DEF importVars
<1> QED BY <1>1, <1>2, <1>3, <1>4, <1>5, <1>6, <1>7, <1>8, <1>9, <1>10 DEF ImportsNext

\* "Concurrent commits return the same durable job": for any number of requests, an import's
\* commits create one job, from a usable preview whose evidence is stored.
THEOREM ImportCommittedOnce == ImportsSpec => []ImportedOnce
<1>1. ImportsInv => ImportedOnce
  BY DEF ImportsInv
<1> QED BY <1>1, ImportsBegin, ImportsStep, PTL DEF ImportsSpec

-----------------------------------------------------------------------------
(***************************************************************************)
(* Requests                                                                *)
(***************************************************************************)
\* The earlier of two days.
LEMMA EarlierDay == ASSUME NEW a \in Int, NEW b \in Int
                    PROVE  Min({a, b}) \in Int /\ Min({a, b}) <= a /\ Min({a, b}) <= b
<1> DEFINE m == IF a <= b THEN a ELSE b
<1>1. m \in {a, b} /\ \A y \in {a, b} : m <= y
  OBVIOUS
<1>2. Min({a, b}) \in {a, b} /\ \A y \in {a, b} : Min({a, b}) <= y
  BY <1>1 DEF Min
<1> QED BY <1>2

\* Every window of a slot has days for its ends, none after today, and is no longer than what
\* its source serves.
LEMMA WindowsServable ==
    ASSUME NEW s \in Slots, NEW t \in Int, NEW w \in SlotWindows(s, t)
    PROVE  /\ w[1] \in Int /\ w[2] \in Int /\ w[2] <= t
           /\ SourceOf(s) # "flex" => w[1] <= w[2] /\ w[1] = t - Week
           /\ SourceOf(s) = "flex" => w[2] - w[1] < Span
<1> USE CalendarAssumption
<1>1. CASE s \in {"native", "gateway", "daily"}
  <2>1. w = <<t - Week, t>>
    BY <1>1 DEF SlotWindows
  <2> QED BY <2>1, <1>1
<1>2. CASE s = "weekly"
  <2>1. w = <<t - Quarter, t - Week - 1>>
    BY <1>2 DEF SlotWindows
  <2>2. SourceOf(s) = "flex"
    BY <1>2 DEF SourceOf
  <2> QED BY <2>1, <2>2
<1>3. CASE s = "monthly"
  <2> DEFINE to == t - Quarter - 1
  <2>1. PICK d \in HistoryFrom..to : w = <<d, Min({d + Span - 1, to})>>
    BY <1>3 DEF SlotWindows, HistoryWindows
  <2>2. Min({d + Span - 1, to}) \in Int /\ Min({d + Span - 1, to}) <= d + Span - 1
        /\ Min({d + Span - 1, to}) <= to
    <3> HIDE DEF to
    <3>1. d + Span - 1 \in Int /\ to \in Int
      BY DEF to
    <3> QED BY <3>1, EarlierDay
  <2>3. SourceOf(s) = "flex"
    BY <1>3 DEF SourceOf
  <2> QED BY <2>1, <2>2, <2>3
<1> QED BY <1>1, <1>2, <1>3 DEF Slots

\* Servable, on a given day.
ServableOn(t, j) ==
    /\ j.from <= j.to /\ j.to <= t
    /\ j.source = "gateway" => j.from >= t - Week
    /\ j.source = "flex" => j.to - j.from < Span

\* What a slot asks for on a day can be served on that day.
LEMMA WantedServable ==
    ASSUME NEW c \in Conns, NEW s \in Slots, NEW t \in Int, NEW edge, NEW j \in Wanted(c, s, t, edge)
    PROVE  ServableOn(t, j)
<1> USE CalendarAssumption
<1>1. PICK w \in SlotWindows(s, t) :
        /\ SourceOf(s) = "flex" => ~Skipped(c, w, t, edge)
        /\ j = Request(c, SourceOf(s), c \in linked, FALSE, w[1], w[2])
  BY DEF Wanted
<1>2. j.source = SourceOf(s) /\ j.from = w[1] /\ j.to = w[2]
  BY <1>1 DEF Request
<1>3. SourceOf(s) = "flex" => ~(w[1] > w[2])
  BY <1>1 DEF Skipped
<1> QED BY <1>2, <1>3, WindowsServable DEF ServableOn

\* A run of the scheduler adds what its slots want.
LEMMA ScheduleAdds ==
    ASSUME NEW t \in Int, NEW last, NEW edge, NEW refused, Schedule(t, last, Asks(t, last, edge), refused)
    PROVE  \A j \in queue' : j \in queue \/ ServableOn(t, j)
<1> SUFFICES ASSUME NEW j \in queue', j \notin queue PROVE ServableOn(t, j)
  OBVIOUS
<1>1. PICK p \in DOMAIN Asks(t, last, edge) : j \in Asks(t, last, edge)[p]
  BY DEF Schedule
<1>2. p[1] \in Conns /\ p[2] \in Slots /\ j \in Wanted(p[1], p[2], t, edge)
  BY <1>1 DEF Asks
<1> QED BY <1>2, WantedServable

\* No job outlives its day.
SchedulerInv == today \in Int /\ QueueServable

\* The queue is empty.
LEMMA SchedulerBegins == SchedulerInit => SchedulerInv
BY CalendarAssumption DEF SchedulerInit, SchedulerInv, QueueServable

\* Every step keeps the invariant.
LEMMA SchedulerStep == SchedulerInv /\ [SchedulerNext]_schedulerVars => SchedulerInv'
<1> SUFFICES ASSUME SchedulerInv, [SchedulerNext]_schedulerVars PROVE SchedulerInv'
  OBVIOUS
<1> USE CalendarAssumption DEF SchedulerInv, QueueServable
<1>0. ASSUME queue' \subseteq queue, today' = today PROVE SchedulerInv'
  BY <1>0 DEF Servable
<1>1. ASSUME today' \in Int, \A j \in queue' : ServableOn(today', j) PROVE SchedulerInv'
  BY <1>1 DEF Servable, ServableOn
<1>2. ASSUME Start PROVE SchedulerInv'
  <2>1. \A j \in queue' : j \in queue \/ ServableOn(today, j)
    BY <1>2, ScheduleAdds DEF Start
  <2>2. \A j \in queue : ServableOn(today, j)
    BY DEF Servable, ServableOn
  <2> QED BY <1>2, <2>1, <2>2, <1>1 DEF Start
<1>3. ASSUME Tick PROVE SchedulerInv'
  <2>1. today' \in Int /\ today' = today + 1 /\ queue = {}
    BY <1>3 DEF Tick
  <2>2. PICK edge, refused : Schedule(today + 1, lastRun, Asks(today + 1, lastRun, edge), refused)
    BY <1>3 DEF Tick
  <2>3. \A j \in queue' : ServableOn(today', j)
    BY <2>1, <2>2, ScheduleAdds
  <2> QED BY <2>1, <2>3, <1>1
<1>4. ASSUME Miss PROVE SchedulerInv'
  <2>1. today' \in Int /\ queue' = {}
    BY <1>4 DEF Miss
  <2> QED BY <2>1
<1>5. ASSUME NEW providers, SetSyncConfig(providers) PROVE SchedulerInv'
  BY <1>5, <1>0 DEF SetSyncConfig
<1>6. ASSUME NEW conn, NEW source, NEW accounts, NEW from, NEW to, Enqueue(conn, source, accounts, from, to)
      PROVE  SchedulerInv'
  <2>1. PICK j : Servable(j.source, j.from, j.to) /\ queue' = queue \cup {j} /\ today' = today
    <3> DEFINE c == CHOOSE x \in Candidates(conn, source, accounts, from) : TRUE
               chosen == Chosen(c, source, from)
               start == IF from = NoDate THEN today - Week ELSE from
               end == IF to = NoDate THEN today ELSE to
               named == accounts # {} \/ (chosen # "flex" /\ c \in linked)
               j == Request(c, chosen, named, chosen = "flex" /\ from = NoDate /\ to = NoDate, start, end)
    <3>1. Servable(chosen, start, end) /\ queue' = queue \cup {j} /\ today' = today
      BY <1>6 DEF Enqueue
    <3>2. j.source = chosen /\ j.from = start /\ j.to = end
      BY DEF Request
    <3> QED BY <3>1, <3>2
  <2> QED BY <2>1 DEF Servable
<1>7. ASSUME NEW j \in queue, Settle(j) PROVE SchedulerInv'
  BY <1>7, <1>0 DEF Settle
<1>8. ASSUME NEW j \in queue, Fail(j) PROVE SchedulerInv'
  BY <1>8, <1>0 DEF Fail
<1>9. ASSUME NEW c \in Conns, LinkAccount(c) PROVE SchedulerInv'
  BY <1>9, <1>0 DEF LinkAccount
<1>10. CASE UNCHANGED schedulerVars
  BY <1>10, <1>0 DEF schedulerVars
<1> QED BY <1>2, <1>3, <1>4, <1>5, <1>6, <1>7, <1>8, <1>9, <1>10 DEF SchedulerNext

\* No job is created that normalizeRequestDates would refuse, by a schedule of any calendar or
\* by a user.
THEOREM RequestsServable == SchedulerSpec => []QueueServable
<1>1. SchedulerInv => QueueServable
  BY DEF SchedulerInv
<1> QED BY <1>1, SchedulerBegins, SchedulerStep, PTL DEF SchedulerSpec
-----------------------------------------------------------------------------
(***************************************************************************)
(* The audit of what was fetched                                           *)
(*                                                                         *)
(* A slot is used up by its run, whatever the run skips, and a day moves   *)
(* from the daily window to the weekly one and on to the monthly one while *)
(* the schedule goes on.  AuditInv follows it: the last run of a slot      *)
(* looked after the days it reached, and a day was checked shortly before  *)
(* it left the daily window and the weekly one.                            *)
(***************************************************************************)
\* A set of natural numbers that is not empty has a least one.
LEMMA LeastNumber ==
    ASSUME NEW S \in SUBSET Nat, S # {}
    PROVE  \E n \in S : \A e \in S : n <= e
<1>1. \E d \in S : \A e \in S : ~(<<e, d>> \in OpToRel(<, Nat))
  BY WFMin, NatLessThanWellFounded, Zenon
<1>2. PICK d \in S : \A e \in S : ~(<<e, d>> \in OpToRel(<, Nat))
  BY <1>1
<1>3. ASSUME NEW e \in S PROVE d <= e
  <2>1. <<e, d>> \in Nat \X Nat /\ ~(<<e, d>>[1] < <<e, d>>[2])
    BY <1>2, Zenon DEF OpToRel
  <2> QED BY <2>1
<1> QED BY <1>3

\* A set of numbers below a bound has a greatest one.
LEMMA GreatestOf ==
    ASSUME NEW S \in SUBSET Int, S # {}, NEW b \in Int, \A x \in S : x <= b
    PROVE  Max(S) \in S /\ \A x \in S : Max(S) >= x
<1> DEFINE T == {b - x : x \in S}
<1>1. T \in SUBSET Nat /\ T # {}
  <2>1. ASSUME NEW x \in S PROVE b - x \in Nat /\ b - x \in T
    OBVIOUS
  <2>2. T \in SUBSET Nat
    BY <2>1
  <2> HIDE DEF T
  <2> QED BY <2>1, <2>2
<1>2. PICK n \in T : \A e \in T : n <= e
  <2> HIDE DEF T
  <2> QED BY <1>1, LeastNumber
<1>3. PICK m \in S : n = b - m
  BY <1>2
<1>4. ASSUME NEW x \in S PROVE m >= x
  <2>1. b - x \in T
    OBVIOUS
  <2>2. b - m <= b - x
    <3> HIDE DEF T
    <3> QED BY <1>2, <1>3, <2>1
  <2> QED BY <2>2
<1>5. \E x \in S : \A y \in S : x >= y
  BY <1>4
<1> QED BY <1>5, Zenon DEF Max

\* A set of numbers above a bound has a least one.
LEMMA LeastOf ==
    ASSUME NEW S \in SUBSET Int, S # {}, NEW b \in Int, \A x \in S : b <= x
    PROVE  Min(S) \in S /\ \A x \in S : Min(S) <= x
<1> DEFINE T == {x - b : x \in S}
<1>1. T \in SUBSET Nat /\ T # {}
  <2>1. ASSUME NEW x \in S PROVE x - b \in Nat /\ x - b \in T
    OBVIOUS
  <2>2. T \in SUBSET Nat
    BY <2>1
  <2> HIDE DEF T
  <2> QED BY <2>1, <2>2
<1>2. PICK n \in T : \A e \in T : n <= e
  <2> HIDE DEF T
  <2> QED BY <1>1, LeastNumber
<1>3. PICK m \in S : n = m - b
  BY <1>2
<1>4. ASSUME NEW x \in S PROVE m <= x
  <2>1. x - b \in T
    OBVIOUS
  <2>2. m - b <= x - b
    <3> HIDE DEF T
    <3> QED BY <1>2, <1>3, <2>1
  <2> QED BY <2>2
<1>5. \E x \in S : \A y \in S : x <= y
  BY <1>4
<1> QED BY <1>5, Zenon DEF Min

-----------------------------------------------------------------------------
\* The sweep of intervalsCover after the rows that start on day d.
Swept(rows, d, before) ==
    IF d > before + 1 THEN before ELSE Max({r.to : r \in {x \in rows : x.from = d}} \cup {before})

IsSweep(f, rows, first, from, last) ==
    f = [d \in (first - 1)..last |-> IF d < first THEN from - 1 ELSE Swept(rows, d, f[d - 1])]

\* The sweep ends.
LEMMA SweepExists ==
    ASSUME NEW rows, NEW first \in Int, NEW from, NEW last \in Int, last >= first - 1
    PROVE  \E f : IsSweep(f, rows, first, from, last)
<1> SUFFICES ASSUME ~ \E f : IsSweep(f, rows, first, from, last) PROVE FALSE
  OBVIOUS
<1> DEFINE Bad == {n \in Nat : ~ \E f : IsSweep(f, rows, first, from, first - 1 + n)}
<1>1. PICK n \in Bad : \A e \in Bad : n <= e
  <2>1. last - (first - 1) \in Nat /\ first - 1 + (last - (first - 1)) = last
    OBVIOUS
  <2>2. last - (first - 1) \in Bad
    BY <2>1
  <2>3. Bad \in SUBSET Nat /\ Bad # {}
    BY <2>2
  <2> HIDE DEF Bad
  <2> QED BY <2>3, LeastNumber
<1>2. n \in Nat /\ ~ \E f : IsSweep(f, rows, first, from, first - 1 + n)
  BY <1>1
<1> DEFINE end == first - 1 + n
<1>3. CASE n = 0
  <2> DEFINE g == [d \in (first - 1)..(first - 1) |-> from - 1]
  <2>1. IsSweep(g, rows, first, from, first - 1)
    BY DEF IsSweep
  <2>2. first - 1 = end
    BY <1>3
  <2> QED BY <1>2, <2>1, <2>2
<1>4. CASE n # 0
  <2>1. n - 1 \in Nat /\ n - 1 \notin Bad
    <3> HIDE DEF Bad
    <3> QED BY <1>1, <1>2, <1>4
  <2>2. PICK f : IsSweep(f, rows, first, from, first - 1 + (n - 1))
    BY <2>1
  <2>3. end \in Int /\ end >= first /\ first - 1 + (n - 1) = end - 1
    BY <1>2, <1>4
  <2>4. IsSweep(f, rows, first, from, end - 1)
    BY <2>2, <2>3
  <2> HIDE DEF end
  <2> DEFINE g == [d \in (first - 1)..end |-> IF d = end THEN Swept(rows, end, f[end - 1]) ELSE f[d]]
             h == [d \in (first - 1)..end |-> IF d < first THEN from - 1 ELSE Swept(rows, d, g[d - 1])]
  <2>5. ASSUME NEW d \in (first - 1)..end PROVE g[d] = h[d]
    <3>1. CASE d = end
      <4>1. g[d] = Swept(rows, end, f[end - 1]) /\ g[end - 1] = f[end - 1]
        BY <2>3, <3>1
      <4> QED BY <2>3, <3>1, <4>1
    <3>2. CASE d # end
      <4>1. d \in (first - 1)..(end - 1) /\ g[d] = f[d]
        BY <2>3, <3>2
      <4>2. f[d] = IF d < first THEN from - 1 ELSE Swept(rows, d, f[d - 1])
        BY <2>4, <4>1 DEF IsSweep
      <4>3. ~(d < first) => d - 1 \in (first - 1)..end /\ d - 1 # end
        BY <2>3, <4>1
      <4>4. ~(d < first) => g[d - 1] = f[d - 1]
        BY <4>3
      <4>5. h[d] = IF d < first THEN from - 1 ELSE Swept(rows, d, g[d - 1])
        OBVIOUS
      <4> HIDE DEF g, h
      <4> QED BY <4>1, <4>2, <4>4, <4>5
    <3> QED BY <3>1, <3>2
  <2>6. g = h
    <3>1. g = [d \in (first - 1)..end |-> g[d]] /\ h = [d \in (first - 1)..end |-> h[d]]
      OBVIOUS
    <3> HIDE DEF g, h
    <3> QED BY <2>5, <3>1
  <2>7. IsSweep(g, rows, first, from, end)
    <3>1. g = [d \in (first - 1)..end |-> IF d < first THEN from - 1 ELSE Swept(rows, d, g[d - 1])]
      <4> HIDE DEF g
      <4> QED BY <2>6
    <3> HIDE DEF g
    <3> QED BY <3>1 DEF IsSweep
  <2> QED BY <1>2, <2>7 DEF end
<1> QED BY <1>3, <1>4

\* Every day of the range lies in some row.
RowsCover(rows, from, to) == \A d \in from..to : \E r \in rows : r.from <= d /\ d <= r.to

\* One step of the sweep covers what it says.
LEMMA SweptSound ==
    ASSUME NEW rows, NEW hi \in Int, \A r \in rows : r.from \in Int /\ r.to \in Int /\ r.to <= hi,
           NEW d \in Int, NEW before \in Int, NEW from \in Int,
           before >= from - 1, RowsCover(rows, from, before)
    PROVE  /\ Swept(rows, d, before) \in Int /\ Swept(rows, d, before) >= from - 1
           /\ RowsCover(rows, from, Swept(rows, d, before))
<1> DEFINE ends == {r.to : r \in {x \in rows : x.from = d}}
           S == ends \cup {before}
           b == IF before <= hi THEN hi ELSE before
<1>1. CASE d > before + 1
  BY <1>1 DEF Swept
<1>2. CASE ~(d > before + 1)
  <2>1. Swept(rows, d, before) = Max(S)
    BY <1>2 DEF Swept
  <2>2. S \in SUBSET Int /\ S # {} /\ b \in Int /\ \A x \in S : x <= b
    OBVIOUS
  <2>3. Max(S) \in S /\ \A x \in S : Max(S) >= x
    <3> HIDE DEF S, b
    <3> QED BY <2>2, GreatestOf
  <2>4. Max(S) \in Int /\ Max(S) >= before
    <3>1. before \in S
      OBVIOUS
    <3> HIDE DEF S, b
    <3> QED BY <2>2, <2>3, <3>1
  <2>5. CASE Max(S) = before
    BY <2>1, <2>5
  <2>6. CASE Max(S) # before
    <3>1. Max(S) \in ends
      BY <2>3, <2>6
    <3>2. PICK r \in rows : r.from = d /\ r.to = Max(S)
      BY <3>1
    <3>3. ASSUME NEW e \in from..Max(S) PROVE \E q \in rows : q.from <= e /\ e <= q.to
      <4> HIDE DEF S, ends, b
      <4>1. CASE e <= before
        BY <2>4, <4>1 DEF RowsCover
      <4>2. CASE e > before
        <5>1. r.from <= e /\ e <= r.to
          BY <1>2, <2>4, <3>2, <4>2
        <5> QED BY <5>1
      <4> QED BY <2>4, <4>1, <4>2
    <3> HIDE DEF S, ends, b
    <3> QED BY <2>1, <2>4, <3>3 DEF RowsCover
  <2> QED BY <2>5, <2>6
<1> QED BY <1>1, <1>2

LEMMA SweepSound ==
    ASSUME NEW rows, NEW hi \in Int, \A r \in rows : r.from \in Int /\ r.to \in Int /\ r.to <= hi,
           NEW first \in Int, NEW from \in Int, NEW last \in Int,
           NEW f, IsSweep(f, rows, first, from, last), NEW d \in (first - 1)..last
    PROVE  f[d] \in Int /\ f[d] >= from - 1 /\ RowsCover(rows, from, f[d])
<1> DEFINE Right(k) == f[k] \in Int /\ f[k] >= from - 1 /\ RowsCover(rows, from, f[k])
           Bad == {n \in Nat : first - 1 + n <= last /\ ~Right(first - 1 + n)}
<1> SUFFICES ASSUME ~Right(d) PROVE FALSE
  OBVIOUS
<1>1. PICK n \in Bad : \A e \in Bad : n <= e
  <2>1. d - (first - 1) \in Nat /\ first - 1 + (d - (first - 1)) = d
    OBVIOUS
  <2>2. d - (first - 1) \in Bad
    <3> HIDE DEF Right
    <3> QED BY <2>1
  <2>3. Bad \in SUBSET Nat /\ Bad # {}
    BY <2>2
  <2> HIDE DEF Bad
  <2> QED BY <2>3, LeastNumber
<1>2. n \in Nat /\ first - 1 + n <= last /\ ~Right(first - 1 + n)
  BY <1>1
<1> DEFINE k == first - 1 + n
<1>3. k \in (first - 1)..last
  BY <1>2
<1>4. f[k] = IF k < first THEN from - 1 ELSE Swept(rows, k, f[k - 1])
  <2> HIDE DEF k
  <2> QED BY <1>3 DEF IsSweep
<1>5. CASE n = 0
  <2>1. f[k] = from - 1
    BY <1>4, <1>5
  <2> QED BY <1>2, <2>1 DEF RowsCover
<1>6. CASE n # 0
  <2>1. n - 1 \in Nat /\ n - 1 \notin Bad
    <3> HIDE DEF Bad
    <3> QED BY <1>1, <1>2, <1>6
  <2>2. first - 1 + (n - 1) <= last /\ first - 1 + (n - 1) = k - 1
    BY <1>2
  <2>3. Right(k - 1)
    <3> HIDE DEF Right, k
    <3> QED BY <2>1, <2>2
  <2>4. f[k] = Swept(rows, k, f[k - 1]) /\ k \in Int
    BY <1>2, <1>4, <1>6
  <2>5. Right(k)
    <3> HIDE DEF k
    <3> QED BY <2>3, <2>4, SweptSound
  <2> QED BY <1>2, <2>5
<1> QED BY <1>5, <1>6

\* intervalsCover promises only what the rows hold.
LEMMA IntervalsCoverSound ==
    ASSUME NEW rows, NEW lo \in Int, NEW hi \in Int,
           \A r \in rows : r.from \in Int /\ r.to \in Int /\ lo <= r.from /\ r.to <= hi,
           NEW from \in Int, NEW to \in Int, IntervalsCover(rows, from, to)
    PROVE  RowsCover(rows, from, to)
<1> DEFINE relevant == {r \in rows : r.to >= from /\ r.from <= to}
           starts == {r.from : r \in relevant} \cup {from}
           first == Min(starts)
           b == IF lo <= from THEN lo ELSE from
           until == CHOOSE f : f = [d \in (first - 1)..to |->
                        IF d < first THEN from - 1
                        ELSE LET ends == {r.to : r \in {x \in relevant : x.from = d}}
                                 before == f[d - 1] IN
                             IF d > before + 1 THEN before ELSE Max(ends \cup {before})]
<1>1. from <= to /\ until[to] >= to
  BY Zenon DEF IntervalsCover
<1>2. first \in Int /\ first <= from
  <2>1. starts \in SUBSET Int /\ from \in starts /\ b \in Int /\ \A x \in starts : b <= x
    OBVIOUS
  <2> HIDE DEF starts, b
  <2> QED BY <2>1, LeastOf
<1>3. to >= first - 1
  <2> HIDE DEF first
  <2> QED BY <1>1, <1>2
<1>4. IsSweep(until, relevant, first, from, to)
  <2>1. PICK f : IsSweep(f, relevant, first, from, to)
    <3> HIDE DEF relevant, first
    <3> QED BY <1>2, <1>3, SweepExists
  <2> HIDE DEF relevant, first
  <2>2. f = [d \in (first - 1)..to |->
                        IF d < first THEN from - 1
                        ELSE LET ends == {r.to : r \in {x \in relevant : x.from = d}}
                                 before == f[d - 1] IN
                             IF d > before + 1 THEN before ELSE Max(ends \cup {before})]
    BY <2>1 DEF IsSweep, Swept
  <2>3. until = [d \in (first - 1)..to |->
                        IF d < first THEN from - 1
                        ELSE LET ends == {r.to : r \in {x \in relevant : x.from = d}}
                                 before == until[d - 1] IN
                             IF d > before + 1 THEN before ELSE Max(ends \cup {before})]
    BY <2>2, Zenon
  <2> HIDE DEF until
  <2> QED BY <2>3 DEF IsSweep, Swept
<1>5. until[to] \in Int /\ RowsCover(relevant, from, until[to])
  <2>1. \A r \in relevant : r.from \in Int /\ r.to \in Int /\ r.to <= hi
    OBVIOUS
  <2> HIDE DEF relevant, first, until
  <2>2. to \in (first - 1)..to
    BY <1>2, <1>3
  <2> QED BY <1>2, <1>4, <2>1, <2>2, SweepSound
<1>6. relevant \subseteq rows
  OBVIOUS
<1> HIDE DEF relevant, first, until
<1> QED BY <1>1, <1>5, <1>6 DEF RowsCover

-----------------------------------------------------------------------------
\* What division and remainder are.
LEMMA Division ==
    ASSUME NEW a \in Nat, NEW n \in Nat \ {0}
    PROVE  a \div n \in Int /\ a % n \in 0..(n - 1) /\ a = n * (a \div n) + (a % n)
OBVIOUS

\* The start of the window that a day falls into is one of the starts.
LEMMA WindowStart ==
    ASSUME NEW d \in Nat, NEW n \in Nat \ {0}
    PROVE  d % n \in 0..(n - 1) /\ d - (d % n) \in 0..d /\ (d - (d % n)) % n = 0
<1> DEFINE q == d \div n
           r == d % n
<1>1. q \in Int /\ r \in 0..(n - 1) /\ d = n * q + r
  BY Division
<1>2. r <= d
  OBVIOUS
<1> DEFINE x == d - r
           p == x \div n
           u == x % n
<1>3. x = n * q /\ x \in Nat
  <2> HIDE DEF q, r
  <2> QED BY <1>1, <1>2
<1>4. p \in Int /\ u \in 0..(n - 1) /\ x = n * p + u
  <2> HIDE DEF x
  <2> QED BY <1>3, Division
<1>5. u = 0
  <2> HIDE DEF x, q, r, p, u
  <2> DEFINE e == q - p
  <2>1. n * e = u /\ e \in Int
    BY <1>1, <1>3, <1>4
  <2>2. CASE e >= 1
    <3>1. n * e >= n
      BY <2>1, <2>2
    <3> QED BY <1>4, <2>1, <3>1
  <2>3. CASE e <= -1
    <3>1. n * e < 0
      BY <2>1, <2>3
    <3> QED BY <1>4, <2>1, <3>1
  <2>4. CASE e = 0
    BY <2>1, <2>4
  <2> QED BY <2>1, <2>2, <2>3, <2>4
<1> QED BY <1>1, <1>2, <1>5

\* The windows of a range are in it and cover it.
LEMMA WindowsCover ==
    ASSUME NEW from \in Int, NEW to \in Int
    PROVE  /\ \A w \in HistoryWindows(from, to) : w[1] \in from..to /\ w[2] \in Int /\ w[2] <= to
           /\ \A d \in from..to : \E w \in HistoryWindows(from, to) : w[1] <= d /\ d <= w[2]
<1> USE CalendarAssumption
<1>1. Span \in Nat \ {0}
  OBVIOUS
<1> DEFINE starts == {d \in from..to : (d - from) % Span = 0}
<1>2. HistoryWindows(from, to) = {<<s, Min({s + Span - 1, to})>> : s \in starts}
  BY DEF HistoryWindows
<1>3. ASSUME NEW s \in from..to
      PROVE  /\ Min({s + Span - 1, to}) \in {s + Span - 1, to} /\ Min({s + Span - 1, to}) <= to
             /\ Min({s + Span - 1, to}) \in Int
  <2> DEFINE S == {s + Span - 1, to}
             b == IF s + Span - 1 <= to THEN s + Span - 1 ELSE to
  <2>1. S \in SUBSET Int /\ S # {} /\ b \in Int /\ \A x \in S : b <= x
    BY <1>1
  <2>2. to \in S
    OBVIOUS
  <2>3. Min(S) \in S /\ \A x \in S : Min(S) <= x
    <3> HIDE DEF S, b
    <3> QED BY <2>1, LeastOf
  <2>4. Min(S) <= to
    <3> HIDE DEF S
    <3> QED BY <2>2, <2>3
  <2>5. Min(S) \in Int
    <3> HIDE DEF S
    <3> QED BY <2>1, <2>3
  <2> QED BY <2>3, <2>4, <2>5
<1>4. ASSUME NEW w \in HistoryWindows(from, to) PROVE w[1] \in from..to /\ w[2] \in Int /\ w[2] <= to
  <2>1. PICK s \in starts : w = <<s, Min({s + Span - 1, to})>>
    BY <1>2
  <2>2. s \in from..to
    OBVIOUS
  <2> QED BY <1>3, <2>1, <2>2
<1>5. ASSUME NEW d \in from..to PROVE \E w \in HistoryWindows(from, to) : w[1] <= d /\ d <= w[2]
  <2> DEFINE r == (d - from) % Span
             s == d - r
             w == <<s, Min({s + Span - 1, to})>>
  <2>1. d - from \in Nat
    OBVIOUS
  <2>2. r \in 0..(Span - 1) /\ (d - from) - r \in 0..(d - from) /\ ((d - from) - r) % Span = 0
    <3> DEFINE e == d - from
    <3>1. e \in Nat
      BY <2>1
    <3>2. e % Span \in 0..(Span - 1) /\ e - (e % Span) \in 0..e /\ (e - (e % Span)) % Span = 0
      <4> HIDE DEF e
      <4> QED BY <1>1, <3>1, WindowStart
    <3>3. r = e % Span
      OBVIOUS
    <3> HIDE DEF r
    <3> QED BY <1>1, <3>2, <3>3
  <2>3. s \in from..to /\ s - from = (d - from) - r
    <3> HIDE DEF r
    <3> QED BY <1>1, <2>2
  <2>4. s \in starts
    <3> HIDE DEF s, r
    <3> QED BY <2>2, <2>3
  <2>5. w \in HistoryWindows(from, to)
    <3> HIDE DEF s, starts
    <3> QED BY <1>2, <2>4
  <2>6. s <= d /\ d <= s + Span - 1
    <3> HIDE DEF r
    <3> QED BY <1>1, <2>2
  <2>7. d <= Min({s + Span - 1, to})
    <3> HIDE DEF s
    <3> QED BY <1>3, <2>3, <2>6
  <2>8. w[1] <= d /\ d <= w[2]
    <3> HIDE DEF s
    <3> QED BY <2>6, <2>7
  <2> HIDE DEF w
  <2> QED BY <2>5, <2>8
<1> QED BY <1>4, <1>5

-----------------------------------------------------------------------------
\* The slots that look after the days of a connection.
SlotsOf(c) ==
    {s \in Slots : SourceOf(s) = IF ByReports(c) THEN "flex" ELSE IF c \in IbkrConns THEN "gateway" ELSE "native"}

\* The days that a run of the slot on day t looks after: of a report asked for up to today, all
\* but today, which it may not reach.
SlotDays(s, t) ==
    CASE s \in {"native", "gateway"} -> (t - Week)..t
      [] s = "daily" -> (t - Week)..(t - 1)
      [] s = "weekly" -> (t - Quarter)..(t - Week - 1)
      [] s = "monthly" -> HistoryFrom..(t - Quarter - 1)

\* The day was checked on day x or later.
CheckedSince(c, d, x) == \E r \in Checks(c, d) : r.at >= x

\* The request asks the source of the slot for the day.
AsksFor(j, c, s, d) == j.conn = c /\ j.source = SourceOf(s) /\ j.from <= d /\ d <= j.to

\* Some job is still to ask for the day.
Pending(c, s, d) == \E j \in queue : AsksFor(j, c, s, d)

\* No request and no row begins earlier.
Earliest == HistoryFrom - Quarter - 1

\* What the dates of requests can be.
Requested ==
    \A j \in queue : /\ j.conn \in Conns /\ j.source \in Configured[j.conn]
                     /\ j.from \in Int /\ j.to \in Int /\ Earliest <= j.from /\ j.to <= today
\* What the dates of rows can be.
Recorded ==
    \A r \in coverage : /\ r.from \in Int /\ r.to \in Int /\ r.at \in Int
                        /\ Earliest <= r.from /\ r.to <= today /\ r.at <= today

\* The scheduler is on.
AutoSync == auto = {"ibkr", "others"}

\* What the variables are, and that no run, request or row is later than today.
Shape ==
    /\ today \in Int /\ troubled \in Int /\ FirstDay <= troubled /\ troubled <= today
    /\ lag \in {0, 1}
    /\ auto \in {{}, {"ibkr", "others"}}
    /\ linked \subseteq Conns
    /\ lastRun \in [Conns -> [Slots -> Int]]
    /\ \A c \in Conns : \A s \in Slots : lastRun[c][s] <= today
    /\ Requested /\ Recorded

\* Since the last trouble every slot ran when its cadence was over.
Punctual ==
    AutoSync /\ troubled < today =>
        \A c \in Conns : \A s \in SlotsOf(c) :
            (SourceOf(s) = "flex" \/ c \in linked) => today - lastRun[c][s] < SlotCadence[s]

\* What a run of day u skipped was checked within its cadence, and what it asked for is checked
\* or asked for still.
LookedAfter(c, s, u) ==
    \A d \in SlotDays(s, u) : CheckedSince(c, d, u - SlotCadence[s]) \/ Pending(c, s, d)

\* The last run of a slot has looked after its days, unless trouble came since.
Answered ==
    \A c \in Conns : \A s \in SlotsOf(c) :
        lastRun[c][s] > troubled => LookedAfter(c, s, lastRun[c][s])

\* A day that has left the daily window was checked when it was about to.
WeekKept ==
    AutoSync => \A c \in Conns : ByReports(c) =>
        \A d \in Int : troubled < d + Week /\ d + Week < today => CheckedSince(c, d, d + Week - 1)

\* A day that has left the weekly window was checked by one of the last weekly runs that reached it.
QuarterKept ==
    AutoSync => \A c \in Conns : ByReports(c) =>
        \A d \in Int : troubled <= d + Quarter - Week /\ d + Quarter < today
            => CheckedSince(c, d, d + Quarter - 2 * Week + 1)

\* The inductive invariant of the schedule.
AuditInv == Shape /\ Punctual /\ Answered /\ WeekKept /\ QuarterKept

-----------------------------------------------------------------------------
\* The cadences.
LEMMA Cadences ==
    /\ SlotCadence["native"] = 1 /\ SlotCadence["gateway"] = 1 /\ SlotCadence["daily"] = 1
    /\ SlotCadence["weekly"] = Week /\ SlotCadence["monthly"] = Month
    /\ \A s \in Slots : SlotCadence[s] \in Nat /\ SlotCadence[s] >= 1 /\ SlotCadence[s] <= 1000
<1>1. /\ SlotCadence["native"] = 1 /\ SlotCadence["gateway"] = 1 /\ SlotCadence["daily"] = 1
      /\ SlotCadence["weekly"] = Week /\ SlotCadence["monthly"] = Month
  BY DEF SlotCadence
<1> QED BY <1>1, CalendarAssumption DEF Slots

\* Windows lie between the earliest day and today.
LEMMA WindowBounds ==
    ASSUME NEW s \in Slots, NEW t \in Int, FirstDay <= t, NEW w \in SlotWindows(s, t)
    PROVE  w[1] \in Int /\ w[2] \in Int /\ Earliest <= w[1] /\ w[2] <= t
<1> USE CalendarAssumption DEF Earliest
<1>1. CASE s \in {"native", "gateway", "daily"}
  <2>1. w = <<t - Week, t>>
    BY <1>1 DEF SlotWindows
  <2> QED BY <2>1
<1>2. CASE s = "weekly"
  <2>1. w = <<t - Quarter, t - Week - 1>>
    BY <1>2 DEF SlotWindows
  <2> QED BY <2>1
<1>3. CASE s = "monthly"
  <2>1. w \in HistoryWindows(HistoryFrom, t - Quarter - 1)
    BY <1>3 DEF SlotWindows
  <2>2. w[1] \in HistoryFrom..(t - Quarter - 1) /\ w[2] \in Int /\ w[2] <= t - Quarter - 1
    <3>1. t - Quarter - 1 \in Int
      OBVIOUS
    <3> QED BY <2>1, <3>1, WindowsCover
  <2> QED BY <2>2
<1> QED BY <1>1, <1>2, <1>3 DEF Slots

\* Each day that a slot looks after lies in one of its windows, which is audited at the cadence
\* of the slot.
LEMMA SlotCovers ==
    ASSUME NEW s \in Slots, NEW t \in Int, NEW d \in SlotDays(s, t)
    PROVE  /\ d \in Int
           /\ \E w \in SlotWindows(s, t) :
                /\ w[1] \in Int /\ w[2] \in Int /\ w[1] <= d /\ d <= w[2]
                /\ Cadence(w[2], t) = SlotCadence[s]
<1> USE CalendarAssumption, Cadences
<1>1. CASE s \in {"native", "gateway", "daily"}
  <2> DEFINE w == <<t - Week, t>>
  <2>1. w \in SlotWindows(s, t)
    BY <1>1 DEF SlotWindows
  <2>2. d \in (t - Week)..t
    BY <1>1 DEF SlotDays
  <2>3. Cadence(t, t) = 1
    BY DEF Cadence
  <2>4. SlotCadence[s] = 1
    BY <1>1
  <2> QED BY <2>1, <2>2, <2>3, <2>4
<1>2. CASE s = "weekly"
  <2> DEFINE w == <<t - Quarter, t - Week - 1>>
  <2>1. w \in SlotWindows(s, t)
    BY <1>2 DEF SlotWindows
  <2>2. d \in (t - Quarter)..(t - Week - 1)
    BY <1>2 DEF SlotDays
  <2>3. Cadence(t - Week - 1, t) = Week
    BY DEF Cadence
  <2> QED BY <1>2, <2>1, <2>2, <2>3
<1>3. CASE s = "monthly"
  <2> DEFINE end == t - Quarter - 1
  <2>1. SlotWindows(s, t) = HistoryWindows(HistoryFrom, end)
    BY <1>3 DEF SlotWindows
  <2>2. d \in HistoryFrom..end /\ end \in Int
    BY <1>3 DEF SlotDays
  <2>3. PICK w \in HistoryWindows(HistoryFrom, end) : w[1] <= d /\ d <= w[2]
    <3> HIDE DEF end
    <3> QED BY <2>2, WindowsCover
  <2>4. w[1] \in HistoryFrom..end /\ w[2] \in Int /\ w[2] <= end
    <3> HIDE DEF end
    <3> QED BY <2>2, <2>3, WindowsCover
  <2>5. Cadence(w[2], t) = Month
    BY <2>4 DEF Cadence
  <2> QED BY <1>3, <2>1, <2>2, <2>3, <2>4, <2>5
<1> QED BY <1>1, <1>2, <1>3 DEF Slots

\* Rows that are fresh enough to skip a window have checked all its days within the cadence.
LEMMA SkippedChecked ==
    ASSUME Recorded, today \in Int, NEW c \in Conns, NEW t \in Int, NEW edge \in BOOLEAN, NEW w,
           w[1] \in Int, w[2] \in Int, w[1] <= w[2], Cadence(w[2], t) \in Int,
           Skipped(c, w, t, edge), NEW d \in w[1]..w[2]
    PROVE  CheckedSince(c, d, t - Cadence(w[2], t))
<1> DEFINE k == Cadence(w[2], t)
           fresh == Fresh(t, k, edge)
           rows == {r \in fresh : r.account = c /\ r.source = "flex" /\ r.complete}
<1>1. IntervalsCover(rows, w[1], w[2])
  BY DEF Skipped, CompletelyCovered
<1>2. \A r \in rows : r \in coverage /\ r.account = c /\ r.complete /\ r.at >= t - k
  BY DEF Fresh, Recorded
<1>3. \A r \in rows : r.from \in Int /\ r.to \in Int /\ Earliest <= r.from /\ r.to <= today
  <2> HIDE DEF rows
  <2> QED BY <1>2 DEF Recorded
<1>4. Earliest \in Int
  BY CalendarAssumption DEF Earliest
<1>5. RowsCover(rows, w[1], w[2])
  <2> HIDE DEF rows
  <2> QED BY <1>1, <1>3, <1>4, IntervalsCoverSound
<1>6. PICK r \in rows : r.from <= d /\ d <= r.to
  <2> HIDE DEF rows
  <2> QED BY <1>5 DEF RowsCover
<1> HIDE DEF rows, k
<1>7. r \in Checks(c, d) /\ r.at >= t - k
  BY <1>2, <1>6 DEF Checks
<1> QED BY <1>7 DEF CheckedSince, k

\* What a slot wants.
LEMMA WantedIs ==
    ASSUME NEW c \in Conns, NEW s \in Slots, NEW t \in Int, FirstDay <= t, NEW edge,
           NEW j \in Wanted(c, s, t, edge)
    PROVE  /\ j.conn = c /\ j.source = SourceOf(s)
           /\ j.from \in Int /\ j.to \in Int /\ Earliest <= j.from /\ j.to <= t
<1>1. PICK w \in SlotWindows(s, t) : j = Request(c, SourceOf(s), c \in linked, FALSE, w[1], w[2])
  BY DEF Wanted
<1>2. j.conn = c /\ j.source = SourceOf(s) /\ j.from = w[1] /\ j.to = w[2]
  BY <1>1 DEF Request
<1> QED BY <1>2, WindowBounds

\* A run of a slot leaves no day it looks after both unasked for and unchecked.
LEMMA RunLooksAfter ==
    ASSUME Recorded, today \in Int, NEW c \in Conns, NEW s \in Slots, NEW t \in Int, NEW edge \in BOOLEAN,
           NEW d \in SlotDays(s, t)
    PROVE  \/ CheckedSince(c, d, t - SlotCadence[s])
           \/ \E j \in Wanted(c, s, t, edge) : AsksFor(j, c, s, d)
<1>1. PICK w \in SlotWindows(s, t) :
        /\ w[1] \in Int /\ w[2] \in Int /\ w[1] <= d /\ d <= w[2]
        /\ Cadence(w[2], t) = SlotCadence[s]
  BY SlotCovers
<1>2. d \in Int /\ SlotCadence[s] \in Int
  BY SlotCovers, Cadences
<1>3. CASE SourceOf(s) = "flex" /\ Skipped(c, w, t, edge)
  <2>1. CheckedSince(c, d, t - Cadence(w[2], t))
    <3>1. Cadence(w[2], t) \in Int /\ w[1] <= w[2] /\ d \in w[1]..w[2]
      BY <1>1, <1>2
    <3> QED BY <1>1, <1>3, <3>1, SkippedChecked
  <2> QED BY <1>1, <2>1
<1>4. CASE ~(SourceOf(s) = "flex" /\ Skipped(c, w, t, edge))
  <2> DEFINE j == Request(c, SourceOf(s), c \in linked, FALSE, w[1], w[2])
  <2>1. j \in Wanted(c, s, t, edge)
    BY <1>4 DEF Wanted
  <2>2. AsksFor(j, c, s, d)
    BY <1>1 DEF AsksFor, Request
  <2> QED BY <2>1, <2>2
<1> QED BY <1>3, <1>4

-----------------------------------------------------------------------------
\* Nobody can ask for the history of a connection that has no source at all.
EverySourced == \A c \in Conns : Configured[c] # {}

\* The slots of a connection ask a source it has.
LEMMA SlotSources ==
    ASSUME EverySourced, NEW c \in Conns, NEW s \in SlotsOf(c)
    PROVE  s \in Slots /\ SourceOf(s) \in Configured[c]
BY ConnectionAssumption DEF EverySourced, SlotsOf, ByReports

\* What a run of the scheduler does.
LEMMA ScheduleEffect ==
    ASSUME NEW t \in Int, FirstDay <= t, NEW last \in [Conns -> [Slots -> Int]], NEW edge, NEW refused,
           Schedule(t, last, Asks(t, last, edge), refused)
    PROVE  /\ lastRun' \in [Conns -> [Slots -> Int]]
           /\ \A c \in Conns : \A s \in Slots :
                lastRun'[c][s] = IF Due(c, s, t, last) THEN t ELSE last[c][s]
           /\ queue \subseteq queue'
           /\ \A j \in queue' : j \in queue \/
                /\ j.conn \in Conns /\ j.source \in Configured[j.conn]
                /\ j.from \in Int /\ j.to \in Int /\ Earliest <= j.from /\ j.to <= t
           /\ refused = {} =>
                \A c \in Conns : \A s \in Slots :
                    Due(c, s, t, last) => Wanted(c, s, t, edge) \subseteq queue'
<1> DEFINE asks == Asks(t, last, edge)
<1>1. DOMAIN asks = {q \in Conns \X Slots : Due(q[1], q[2], t, last)}
  BY DEF Asks
<1>2. \A p \in DOMAIN asks : asks[p] = Wanted(p[1], p[2], t, edge)
  BY DEF Asks
<1>3. /\ lastRun' = [c \in Conns |-> [s \in Slots |-> IF <<c, s>> \in DOMAIN asks THEN t ELSE last[c][s]]]
      /\ queue' = queue \cup (UNION {asks[p] : p \in DOMAIN asks} \ refused)
  BY DEF Schedule
<1> HIDE DEF asks
<1>4. ASSUME NEW c \in Conns, NEW s \in Slots PROVE <<c, s>> \in DOMAIN asks <=> Due(c, s, t, last)
  BY <1>1
<1>5. \A c \in Conns : \A s \in Slots : lastRun'[c][s] = IF Due(c, s, t, last) THEN t ELSE last[c][s]
  BY <1>3, <1>4
<1>6. lastRun' \in [Conns -> [Slots -> Int]]
  BY <1>3
<1>7. ASSUME NEW j \in queue', j \notin queue
      PROVE  /\ j.conn \in Conns /\ j.source \in Configured[j.conn]
             /\ j.from \in Int /\ j.to \in Int /\ Earliest <= j.from /\ j.to <= t
  <2>1. PICK p \in DOMAIN asks : j \in asks[p]
    BY <1>3, <1>7
  <2>2. p[1] \in Conns /\ p[2] \in Slots /\ Due(p[1], p[2], t, last) /\ j \in Wanted(p[1], p[2], t, edge)
    BY <1>1, <1>2, <2>1
  <2>3. SourceOf(p[2]) \in Configured[p[1]]
    BY <2>2 DEF Due, Applies
  <2> QED BY <2>2, <2>3, WantedIs
<1>8. ASSUME refused = {}, NEW c \in Conns, NEW s \in Slots, Due(c, s, t, last)
      PROVE  Wanted(c, s, t, edge) \subseteq queue'
  <2>1. <<c, s>> \in DOMAIN asks
    BY <1>4, <1>8
  <2>2. asks[<<c, s>>] = Wanted(c, s, t, edge)
    BY <1>2, <2>1
  <2> QED BY <1>3, <1>8, <2>1, <2>2
<1> QED BY <1>3, <1>5, <1>6, <1>7, <1>8

-----------------------------------------------------------------------------
\* What Enqueue adds.
LEMMA EnqueueAdds ==
    ASSUME Shape, NEW conn, NEW source, NEW accounts, NEW from \in Dates, NEW to \in Dates,
           Enqueue(conn, source, accounts, from, to)
    PROVE  \E j : /\ queue' = queue \cup {j}
                  /\ j.conn \in Conns /\ j.source \in Configured[j.conn]
                  /\ j.from \in Int /\ j.to \in Int /\ Earliest <= j.from /\ j.to <= today
<1> DEFINE c == CHOOSE x \in Candidates(conn, source, accounts, from) : TRUE
           chosen == Chosen(c, source, from)
           start == IF from = NoDate THEN today - Week ELSE from
           end == IF to = NoDate THEN today ELSE to
           named == accounts # {} \/ (chosen # "flex" /\ c \in linked)
           j == Request(c, chosen, named, chosen = "flex" /\ from = NoDate /\ to = NoDate, start, end)
<1>1. /\ Cardinality(Candidates(conn, source, accounts, from)) = 1
      /\ Servable(chosen, start, end) /\ queue' = queue \cup {j}
  BY DEF Enqueue
<1>2. Candidates(conn, source, accounts, from) # {}
  BY <1>1, FS_EmptySet
<1>3. c \in Candidates(conn, source, accounts, from)
  BY <1>2
<1>4. c \in Conns /\ chosen \in Configured[c]
  BY <1>3 DEF Candidates
<1>5. j.conn = c /\ j.source = chosen /\ j.from = start /\ j.to = end
  BY DEF Request
<1>6. start \in Int /\ end \in Int /\ Earliest <= start
  BY CalendarAssumption DEF Shape, Dates, NoDate, Never, Earliest
<1>7. end <= today
  BY <1>1 DEF Servable
<1> HIDE DEF c, chosen, start, end, j
<1> QED BY <1>1, <1>4, <1>5, <1>6, <1>7

\* Every step keeps the types and the dates.
LEMMA ShapeStep == Shape /\ [SchedulerNext]_schedulerVars => Shape'
<1> SUFFICES ASSUME Shape, [SchedulerNext]_schedulerVars PROVE Shape'
  OBVIOUS
<1> USE CalendarAssumption
<1>1. ASSUME UNCHANGED <<today, auto, lastRun, linked, queue, coverage, troubled, lag>> PROVE Shape'
  BY <1>1 DEF Shape, Requested, Recorded
<1>2. ASSUME Start PROVE Shape'
  <2> DEFINE last == [c \in Conns |-> [s \in Slots |-> Never]]
  <2>1. PICK edge \in BOOLEAN : Schedule(today, last, Asks(today, last, edge), {})
    BY <1>2 DEF Start
  <2>2. /\ last \in [Conns -> [Slots -> Int]] /\ \A c \in Conns : \A s \in Slots : last[c][s] <= today
        /\ today \in Int /\ FirstDay <= today
    BY DEF Never, Shape
  <2> HIDE DEF last
  <2>3. /\ lastRun' \in [Conns -> [Slots -> Int]]
        /\ \A c \in Conns : \A s \in Slots : lastRun'[c][s] <= today
    <3>1. \A c \in Conns : \A s \in Slots : lastRun'[c][s] = today \/ lastRun'[c][s] = last[c][s]
      BY <2>1, <2>2, ScheduleEffect
    <3> QED BY <2>1, <2>2, <3>1, ScheduleEffect
  <2>4. \A j \in queue' : /\ j.conn \in Conns /\ j.source \in Configured[j.conn]
                          /\ j.from \in Int /\ j.to \in Int /\ Earliest <= j.from /\ j.to <= today
    BY <2>1, <2>2, ScheduleEffect DEF Shape, Requested
  <2> QED BY <1>2, <2>3, <2>4 DEF Start, Shape, Requested, Recorded
<1>3. ASSUME Tick PROVE Shape'
  <2>1. PICK edge, refused : Schedule(today + 1, lastRun, Asks(today + 1, lastRun, edge), refused)
    BY <1>3 DEF Tick
  <2>2. /\ today + 1 \in Int /\ FirstDay <= today + 1 /\ lastRun \in [Conns -> [Slots -> Int]]
        /\ \A c \in Conns : \A s \in Slots : lastRun[c][s] <= today
    BY DEF Shape
  <2>3. /\ lastRun' \in [Conns -> [Slots -> Int]]
        /\ \A c \in Conns : \A s \in Slots : lastRun'[c][s] <= today + 1
    <3>1. \A c \in Conns : \A s \in Slots : lastRun'[c][s] = today + 1 \/ lastRun'[c][s] = lastRun[c][s]
      BY <2>1, <2>2, ScheduleEffect
    <3> QED BY <2>1, <2>2, <3>1, ScheduleEffect DEF Shape
  <2>4. queue = {} /\ today' = today + 1 /\ UNCHANGED <<auto, linked, coverage, lag>>
        /\ troubled' \in {troubled, today + 1}
    BY <1>3 DEF Tick, Calm, Trouble
  <2>5. \A j \in queue' : /\ j.conn \in Conns /\ j.source \in Configured[j.conn]
                          /\ j.from \in Int /\ j.to \in Int /\ Earliest <= j.from /\ j.to <= today + 1
    BY <2>1, <2>2, <2>4, ScheduleEffect
  <2>6. Requested'
    BY <2>4, <2>5 DEF Requested
  <2>7. Recorded'
    BY <2>4 DEF Recorded, Shape
  <2> QED BY <2>3, <2>4, <2>6, <2>7 DEF Shape
<1>4. ASSUME Miss PROVE Shape'
  BY <1>4 DEF Miss, Trouble, Shape, Requested, Recorded
<1>5. ASSUME NEW providers \in {{}, {"ibkr", "others"}}, SetSyncConfig(providers) PROVE Shape'
  BY <1>5 DEF SetSyncConfig, Trouble, Shape, Requested, Recorded
<1>6. ASSUME NEW conn, NEW source, NEW accounts, NEW from \in Dates, NEW to \in Dates,
             Enqueue(conn, source, accounts, from, to)
      PROVE  Shape'
  <2>1. PICK j : /\ queue' = queue \cup {j}
                 /\ j.conn \in Conns /\ j.source \in Configured[j.conn]
                 /\ j.from \in Int /\ j.to \in Int /\ Earliest <= j.from /\ j.to <= today
    BY <1>6, EnqueueAdds
  <2>2. UNCHANGED <<today, auto, lastRun, linked, coverage, troubled, lag>>
    BY <1>6 DEF Enqueue
  <2>3. Requested'
    BY <2>1, <2>2 DEF Shape, Requested
  <2> QED BY <2>2, <2>3 DEF Shape, Recorded
<1>7. ASSUME NEW j \in queue, Settle(j) PROVE Shape'
  <2> DEFINE end == IF j.source = "flex" THEN Min({j.to, today - lag}) ELSE j.to
             row == [account |-> j.conn, source |-> j.source, complete |-> j.source = "flex",
                     from |-> j.from, to |-> end, at |-> today]
  <2>1. /\ queue' = queue \ {j} /\ linked' = linked \cup (IF j.source = "flex" THEN {j.conn} ELSE {})
        /\ coverage' = coverage \cup {row} /\ UNCHANGED <<today, auto, lastRun, troubled, lag>>
    BY <1>7 DEF Settle, Calm
  <2>2. /\ j.conn \in Conns /\ j.from \in Int /\ j.to \in Int /\ Earliest <= j.from /\ j.to <= today
    BY DEF Shape, Requested
  <2>3. end \in Int /\ end <= today
    <3>1. today - lag \in Int
      BY DEF Shape
    <3>2. Min({j.to, today - lag}) \in Int /\ Min({j.to, today - lag}) <= j.to
      BY <2>2, <3>1, EarlierDay
    <3> QED BY <2>2, <3>2 DEF Shape
  <2>4. row.from = j.from /\ row.to = end /\ row.at = today
    OBVIOUS
  <2> HIDE DEF row, end
  <2>5. Recorded'
    BY <2>1, <2>2, <2>3, <2>4 DEF Shape, Recorded
  <2> QED BY <2>1, <2>2, <2>5 DEF Shape, Requested
<1>8. ASSUME NEW j \in queue, Fail(j) PROVE Shape'
  BY <1>8 DEF Fail, Trouble, Shape, Requested, Recorded
<1>9. ASSUME NEW c \in Conns, LinkAccount(c) PROVE Shape'
  BY <1>9 DEF LinkAccount, Trouble, Shape, Requested, Recorded
<1>10. CASE UNCHANGED schedulerVars
  BY <1>10, <1>1 DEF schedulerVars
<1> QED BY <1>2, <1>3, <1>4, <1>5, <1>6, <1>7, <1>8, <1>9, <1>10 DEF SchedulerNext

-----------------------------------------------------------------------------
\* What was checked stays checked, and since a later day is since an earlier one.
LEMMA CheckedStays ==
    ASSUME coverage \subseteq coverage', NEW CONSTANT c, NEW CONSTANT d, NEW CONSTANT x, CheckedSince(c, d, x)
    PROVE  CheckedSince(c, d, x)'
BY DEF CheckedSince, Checks

LEMMA CheckedEarlier ==
    ASSUME Recorded, NEW c, NEW d, NEW x \in Int, NEW y \in Int, y <= x, CheckedSince(c, d, x)
    PROVE  CheckedSince(c, d, y)
BY DEF CheckedSince, Checks, Recorded

\* What was looked after stays so while jobs and rows are only added.
LEMMA LookedStays ==
    ASSUME coverage \subseteq coverage', queue \subseteq queue',
           NEW CONSTANT c, NEW CONSTANT s, NEW CONSTANT u, LookedAfter(c, s, u)
    PROVE  LookedAfter(c, s, u)'
<1>1. ASSUME NEW CONSTANT d \in SlotDays(s, u) PROVE (CheckedSince(c, d, u - SlotCadence[s]) \/ Pending(c, s, d))'
  <2>1. CASE CheckedSince(c, d, u - SlotCadence[s])
    BY <2>1, CheckedStays
  <2>2. CASE Pending(c, s, d)
    BY <2>2 DEF Pending
  <2> QED BY <2>1, <2>2 DEF LookedAfter
<1> QED BY <1>1 DEF LookedAfter

\* Trouble starts the audits anew.
LEMMA TroubleKeeps ==
    ASSUME Shape', troubled' = today'
    PROVE  Punctual' /\ Answered' /\ WeekKept' /\ QuarterKept'
<1>1. Punctual'
  BY DEF Punctual, Shape
<1>2. Answered'
  BY DEF Answered, Shape, SlotsOf
<1>3. WeekKept'
  BY CalendarAssumption DEF WeekKept, Shape
<1>4. QuarterKept'
  BY CalendarAssumption DEF QuarterKept, Shape
<1> QED BY <1>1, <1>2, <1>3, <1>4

\* The days kept stay kept while the day lasts.
LEMMA KeptStays ==
    ASSUME WeekKept, QuarterKept, coverage \subseteq coverage', UNCHANGED <<today, auto, troubled>>
    PROVE  WeekKept' /\ QuarterKept'
<1>1. WeekKept'
  BY CheckedStays DEF WeekKept, AutoSync
<1>2. QuarterKept'
  BY CheckedStays DEF QuarterKept, AutoSync
<1> QED BY <1>1, <1>2

\* What is looked after stays looked after when no slot runs.
LEMMA AnsweredStays ==
    ASSUME Answered, coverage \subseteq coverage', queue \subseteq queue', UNCHANGED <<lastRun, troubled>>
    PROVE  Answered'
<1> SUFFICES ASSUME NEW CONSTANT c \in Conns, NEW CONSTANT s \in SlotsOf(c), lastRun'[c][s] > troubled'
             PROVE  LookedAfter(c, s, lastRun[c][s])'
  BY DEF Answered
<1>1. PICK u : u = lastRun[c][s]
  OBVIOUS
<1>2. LookedAfter(c, s, u)'
  BY <1>1, LookedStays DEF Answered
<1> QED BY <1>1, <1>2 DEF LookedAfter, CheckedSince, Checks, Pending

\* A slot of a connection applies.
LEMMA SlotApplies ==
    ASSUME EverySourced, AutoSync, NEW c \in Conns, NEW s \in SlotsOf(c), SourceOf(s) = "flex" \/ c \in linked
    PROVE  Applies(c, s)
<1>1. s \in {"native", "gateway"} => SourceOf(s) # "flex"
  BY DEF SourceOf
<1> QED BY <1>1, SlotSources DEF Applies, AutoSync

\* A run looks after the days of the slots that are due.
LEMMA RunAnswers ==
    ASSUME Recorded, today \in Int, NEW CONSTANT t \in Int, FirstDay <= t, NEW CONSTANT edge \in BOOLEAN,
           NEW last \in [Conns -> [Slots -> Int]], Schedule(t, last, Asks(t, last, edge), {}),
           UNCHANGED coverage, NEW CONSTANT c \in Conns, NEW CONSTANT s \in Slots, Due(c, s, t, last)
    PROVE  LookedAfter(c, s, t)'
<1>1. Wanted(c, s, t, edge) \subseteq queue'
  BY ScheduleEffect
<1>2. ASSUME NEW CONSTANT d \in SlotDays(s, t)
      PROVE  (CheckedSince(c, d, t - SlotCadence[s]) \/ Pending(c, s, d))'
  <2>1. CASE CheckedSince(c, d, t - SlotCadence[s])
    BY <2>1, CheckedStays
  <2>2. CASE \E j \in Wanted(c, s, t, edge) : AsksFor(j, c, s, d)
    BY <1>1, <2>2 DEF Pending, AsksFor
  <2> QED BY <2>1, <2>2, RunLooksAfter
<1> QED BY <1>2 DEF LookedAfter

\* A report slot looks after no day that a report may not reach.
LEMMA FlexDays ==
    ASSUME NEW s \in Slots, SourceOf(s) = "flex", NEW u \in Int, NEW d \in SlotDays(s, u)
    PROVE  d \in Int /\ d <= u - 1
<1> USE CalendarAssumption
<1>1. s \in {"daily", "weekly", "monthly"}
  BY DEF Slots, SourceOf
<1>2. CASE s = "daily" BY <1>2 DEF SlotDays
<1>3. CASE s = "weekly" BY <1>3 DEF SlotDays
<1>4. CASE s = "monthly" BY <1>4 DEF SlotDays
<1> QED BY <1>1, <1>2, <1>3, <1>4

\* A job that ends well checks the days that its slot looks after.
LEMMA SettleKeeps ==
    ASSUME Shape, Punctual, Answered, WeekKept, QuarterKept, NEW j \in queue, Settle(j)
    PROVE  Punctual' /\ Answered' /\ WeekKept' /\ QuarterKept'
<1> DEFINE end == IF j.source = "flex" THEN Min({j.to, today - lag}) ELSE j.to
           row == [account |-> j.conn, source |-> j.source, complete |-> j.source = "flex",
                   from |-> j.from, to |-> end, at |-> today]
<1>1. /\ queue' = queue \ {j} /\ linked' = linked \cup (IF j.source = "flex" THEN {j.conn} ELSE {})
      /\ coverage' = coverage \cup {row} /\ UNCHANGED <<today, auto, lastRun, troubled, lag>>
  BY DEF Settle, Calm
<1>2. /\ j.conn \in Conns /\ j.source \in Configured[j.conn] /\ j.from \in Int /\ j.to \in Int
      /\ today \in Int /\ lag \in {0, 1}
  BY DEF Shape, Requested
<1>3. WeekKept' /\ QuarterKept'
  <2>1. coverage \subseteq coverage'
    BY <1>1
  <2> QED BY <1>1, <2>1, KeptStays
<1>4. Punctual'
  <2>1. ASSUME NEW c \in Conns, NEW s \in SlotsOf(c), SourceOf(s) = "flex" \/ c \in linked'
        PROVE  SourceOf(s) = "flex" \/ c \in linked
    BY <1>1, <1>2, <2>1 DEF SlotsOf, ByReports
  <2> QED BY <1>1, <2>1 DEF Punctual, AutoSync
<1>5. Answered'
  <2> SUFFICES ASSUME NEW CONSTANT c \in Conns, NEW CONSTANT s \in SlotsOf(c), lastRun'[c][s] > troubled'
               PROVE  LookedAfter(c, s, lastRun[c][s])'
    BY DEF Answered
  <2>1. PICK u : u = lastRun[c][s]
    OBVIOUS
  <2>2. s \in Slots /\ u \in Int /\ u <= today /\ LookedAfter(c, s, u)
    BY <1>1, <2>1 DEF Answered, Shape, SlotsOf
  <2>3. ASSUME NEW CONSTANT d \in SlotDays(s, u)
        PROVE  (CheckedSince(c, d, u - SlotCadence[s]) \/ Pending(c, s, d))'
    <3>1. CASE CheckedSince(c, d, u - SlotCadence[s])
      <4>1. coverage \subseteq coverage'
        BY <1>1
      <4> QED BY <3>1, <4>1, CheckedStays
    <3>2. CASE \E k \in queue \ {j} : AsksFor(k, c, s, d)
      BY <1>1, <3>2 DEF Pending, AsksFor
    <3>3. CASE AsksFor(j, c, s, d)
      <4>1. j.conn = c /\ j.source = SourceOf(s) /\ j.from <= d /\ d <= j.to
        BY <3>3 DEF AsksFor
      <4>2. d \in Int
        BY <2>2, SlotCovers
      <4>3. d <= end
        <5>1. CASE j.source = "flex"
          <6>1. d <= u - 1
            BY <2>2, <4>1, <5>1, FlexDays
          <6>2. today - lag \in Int /\ d <= today - lag
            BY <1>2, <2>2, <4>2, <6>1
          <6>3. Min({j.to, today - lag}) \in {j.to, today - lag}
            <7> DEFINE m == IF j.to <= today - lag THEN j.to ELSE today - lag
            <7>1. m \in {j.to, today - lag} /\ \A y \in {j.to, today - lag} : m <= y
              BY <1>2, <6>2
            <7> HIDE DEF m
            <7> QED BY <7>1 DEF Min
          <6> QED BY <4>1, <5>1, <6>2, <6>3
        <5>2. CASE j.source # "flex"
          BY <4>1, <5>2
        <5> QED BY <5>1, <5>2
      <4>4. /\ row.account = j.conn /\ row.from = j.from /\ row.to = end /\ row.at = today
            /\ row.complete = (j.source = "flex")
        OBVIOUS
      <4>5. ByReports(c) => j.source = "flex"
        BY <4>1 DEF SlotsOf
      <4> HIDE DEF row, end
      <4>6. row \in Checks(c, d)'
        BY <1>1, <4>1, <4>3, <4>4, <4>5 DEF Checks
      <4>7. SlotCadence[s] \in Nat
        BY <2>2, Cadences
      <4>8. row.at >= u - SlotCadence[s]
        BY <1>2, <2>2, <4>4, <4>7
      <4> QED BY <4>6, <4>8 DEF CheckedSince
    <3>4. CheckedSince(c, d, u - SlotCadence[s]) \/ \E k \in queue : AsksFor(k, c, s, d)
      BY <2>2 DEF LookedAfter, Pending
    <3> QED BY <3>1, <3>2, <3>3, <3>4
  <2>4. LookedAfter(c, s, u)'
    BY <2>3 DEF LookedAfter
  <2> QED BY <1>1, <2>1, <2>4 DEF LookedAfter, CheckedSince, Checks, Pending
<1> QED BY <1>3, <1>4, <1>5

\* A start runs every slot.
LEMMA StartKeeps ==
    ASSUME EverySourced, Shape, Punctual, Answered, WeekKept, QuarterKept, Start
    PROVE  Punctual' /\ Answered' /\ WeekKept' /\ QuarterKept'
<1> USE CalendarAssumption
<1> DEFINE last == [c \in Conns |-> [s \in Slots |-> Never]]
<1>1. PICK edge \in BOOLEAN : Schedule(today, last, Asks(today, last, edge), {})
  BY DEF Start
<1>2. UNCHANGED <<today, auto, linked, coverage, troubled, lag>>
  BY DEF Start
<1>3. /\ last \in [Conns -> [Slots -> Int]] /\ \A c \in Conns : \A s \in Slots : last[c][s] = Never
      /\ today \in Int /\ FirstDay <= today /\ FirstDay <= troubled /\ troubled \in Int
  BY DEF Never, Shape
<1> HIDE DEF last
<1>4. ASSUME NEW c \in Conns, NEW s \in Slots
      PROVE  lastRun'[c][s] = IF Due(c, s, today, last) THEN today ELSE Never
  <2>1. \A x \in Conns : \A y \in Slots :
          lastRun'[x][y] = IF Due(x, y, today, last) THEN today ELSE last[x][y]
    BY <1>1, <1>3, ScheduleEffect
  <2>2. last[c][s] = Never
    BY <1>3, <1>4
  <2> QED BY <1>4, <2>1, <2>2
<1>5. ASSUME NEW c \in Conns, NEW s \in Slots, Applies(c, s) PROVE Due(c, s, today, last)
  BY <1>3, <1>5, Cadences DEF Due, Never
<1>6. Punctual'
  <2> SUFFICES ASSUME AutoSync, NEW c \in Conns, NEW s \in SlotsOf(c), SourceOf(s) = "flex" \/ c \in linked
               PROVE  today' - lastRun'[c][s] < SlotCadence[s]
    BY <1>2 DEF Punctual, AutoSync
  <2>1. s \in Slots /\ Applies(c, s)
    BY SlotApplies, SlotSources
  <2>2. lastRun'[c][s] = today
    BY <1>4, <1>5, <2>1
  <2> QED BY <1>2, <1>3, <2>1, <2>2, Cadences
<1>7. Answered'
  <2> SUFFICES ASSUME NEW CONSTANT c \in Conns, NEW CONSTANT s \in SlotsOf(c), lastRun'[c][s] > troubled'
               PROVE  LookedAfter(c, s, lastRun[c][s])'
    BY DEF Answered
  <2>1. s \in Slots
    BY DEF SlotsOf
  <2>2. Due(c, s, today, last) /\ lastRun'[c][s] = today
    BY <1>2, <1>3, <1>4, <2>1 DEF Never
  <2>3. PICK t : t = today
    OBVIOUS
  <2>4. LookedAfter(c, s, t)'
    BY <1>1, <1>2, <1>3, <2>1, <2>2, <2>3, RunAnswers DEF Shape
  <2> QED BY <2>2, <2>3, <2>4 DEF LookedAfter, CheckedSince, Checks, Pending
<1>8. WeekKept' /\ QuarterKept'
  BY <1>2, KeptStays
<1> QED BY <1>6, <1>7, <1>8

\* A calm day runs what is due; the day that leaves a window has just been looked after.
LEMMA TickKeeps ==
    ASSUME EverySourced, Shape, Punctual, Answered, WeekKept, QuarterKept, NEW edge \in BOOLEAN,
           queue = {}, today' = today + 1,
           Schedule(today + 1, lastRun, Asks(today + 1, lastRun, edge), {}),
           UNCHANGED <<auto, linked, coverage, troubled>>
    PROVE  Punctual' /\ Answered' /\ WeekKept' /\ QuarterKept'
<1> USE CalendarAssumption
<1>1. /\ lastRun \in [Conns -> [Slots -> Int]] /\ today \in Int /\ today + 1 \in Int /\ FirstDay <= today + 1
      /\ troubled \in Int /\ troubled <= today /\ \A c \in Conns : \A s \in Slots : lastRun[c][s] <= today
  BY DEF Shape
<1>2. ASSUME NEW c \in Conns, NEW s \in Slots
      PROVE  lastRun'[c][s] = IF Due(c, s, today + 1, lastRun) THEN today + 1 ELSE lastRun[c][s]
  <2>1. \A x \in Conns : \A y \in Slots :
          lastRun'[x][y] = IF Due(x, y, today + 1, lastRun) THEN today + 1 ELSE lastRun[x][y]
    BY <1>1, ScheduleEffect
  <2> QED BY <1>2, <2>1
<1>3. Punctual'
  <2> SUFFICES ASSUME AutoSync, NEW c \in Conns, NEW s \in SlotsOf(c), SourceOf(s) = "flex" \/ c \in linked
               PROVE  today' - lastRun'[c][s] < SlotCadence[s]
    BY DEF Punctual, AutoSync
  <2>1. s \in Slots /\ Applies(c, s)
    BY SlotApplies, SlotSources
  <2>2. CASE Due(c, s, today + 1, lastRun)
    BY <1>1, <1>2, <2>1, <2>2, Cadences
  <2>3. CASE ~Due(c, s, today + 1, lastRun)
    <3>1. lastRun'[c][s] = lastRun[c][s] /\ lastRun[c][s] \in Int
      BY <1>1, <1>2, <2>1, <2>3
    <3>2. ~((today + 1) - lastRun[c][s] >= SlotCadence[s])
      BY <2>1, <2>3, Zenon DEF Due
    <3> QED BY <1>1, <2>1, <3>1, <3>2, Cadences
  <2> QED BY <2>2, <2>3
<1>4. Answered'
  <2> SUFFICES ASSUME NEW CONSTANT c \in Conns, NEW CONSTANT s \in SlotsOf(c), lastRun'[c][s] > troubled'
               PROVE  LookedAfter(c, s, lastRun[c][s])'
    BY DEF Answered
  <2>1. s \in Slots
    BY DEF SlotsOf
  <2>2. PICK u : u = lastRun'[c][s]
    OBVIOUS
  <2>3. CASE Due(c, s, today + 1, lastRun)
    <3>1. PICK t : t = today + 1
      OBVIOUS
    <3>2. LookedAfter(c, s, t)' /\ t = u
      BY <1>1, <1>2, <2>1, <2>2, <2>3, <3>1, RunAnswers DEF Shape
    <3> QED BY <2>2, <3>2 DEF LookedAfter, CheckedSince, Checks, Pending
  <2>4. CASE ~Due(c, s, today + 1, lastRun)
    <3>1. u = lastRun[c][s] /\ u > troubled
      BY <1>2, <2>1, <2>2, <2>4
    <3>2. LookedAfter(c, s, u)
      BY <3>1 DEF Answered
    <3>3. LookedAfter(c, s, u)'
      BY <3>2, LookedStays
    <3> QED BY <2>2, <3>3 DEF LookedAfter, CheckedSince, Checks, Pending
  <2> QED BY <2>3, <2>4
<1>5. ASSUME NEW c \in Conns, ByReports(c), AutoSync, NEW s \in SlotsOf(c), troubled < today
      PROVE  /\ lastRun[c][s] \in Int /\ lastRun[c][s] <= today /\ today - lastRun[c][s] < SlotCadence[s]
             /\ lastRun[c][s] > troubled =>
                  \A d \in SlotDays(s, lastRun[c][s]) : CheckedSince(c, d, lastRun[c][s] - SlotCadence[s])
  <2>1. s \in Slots /\ SourceOf(s) = "flex"
    BY <1>5 DEF SlotsOf
  <2>2. today - lastRun[c][s] < SlotCadence[s]
    BY <1>5, <2>1 DEF Punctual
  <2>3. lastRun[c][s] > troubled =>
          \A d \in SlotDays(s, lastRun[c][s]) : CheckedSince(c, d, lastRun[c][s] - SlotCadence[s])
    BY DEF Answered, LookedAfter, Pending
  <2> QED BY <1>1, <2>1, <2>2, <2>3
<1>6. WeekKept'
  <2> SUFFICES ASSUME AutoSync, NEW CONSTANT c \in Conns, ByReports(c), NEW CONSTANT d \in Int,
                      troubled < d + Week, d + Week < today + 1
               PROVE  CheckedSince(c, d, d + Week - 1)'
    BY DEF WeekKept, AutoSync
  <2>1. CheckedSince(c, d, d + Week - 1)
    <3>1. CASE d + Week < today
      BY <3>1 DEF WeekKept
    <3>2. CASE ~(d + Week < today)
      <4>1. d + Week = today
        BY <1>1, <3>2
      <4>2. "daily" \in SlotsOf(c)
        BY DEF SlotsOf, Slots, SourceOf
      <4>3. lastRun[c]["daily"] = today
        BY <1>1, <1>5, <4>1, <4>2, Cadences
      <4>4. d \in SlotDays("daily", today)
        BY <1>1, <4>1 DEF SlotDays
      <4>5. CheckedSince(c, d, today - SlotCadence["daily"])
        BY <1>5, <4>1, <4>2, <4>3, <4>4
      <4>6. today - SlotCadence["daily"] = d + Week - 1
        BY <4>1, Cadences
      <4> QED BY <4>5, <4>6
    <3> QED BY <3>1, <3>2
  <2> QED BY <2>1, CheckedStays
<1>7. QuarterKept'
  <2> SUFFICES ASSUME AutoSync, NEW CONSTANT c \in Conns, ByReports(c), NEW CONSTANT d \in Int,
                      troubled <= d + Quarter - Week, d + Quarter < today + 1
               PROVE  CheckedSince(c, d, d + Quarter - 2 * Week + 1)'
    BY DEF QuarterKept, AutoSync
  <2>1. CheckedSince(c, d, d + Quarter - 2 * Week + 1)
    <3>1. CASE d + Quarter < today
      BY <3>1 DEF QuarterKept
    <3>2. CASE ~(d + Quarter < today)
      <4>1. d + Quarter = today /\ troubled < today
        BY <1>1, <3>2
      <4>2. "weekly" \in SlotsOf(c)
        BY DEF SlotsOf, Slots, SourceOf
      <4> DEFINE u == lastRun[c]["weekly"]
      <4>3. u \in Int /\ u <= today /\ today - u < Week
        BY <1>5, <4>1, <4>2, Cadences
      <4> HIDE DEF u
      <4>4. u > troubled
        BY <1>1, <4>1, <4>3
      <4>5. d \in SlotDays("weekly", u)
        <5>1. d \in (u - Quarter)..(u - Week - 1)
          BY <1>1, <4>1, <4>3
        <5> QED BY <5>1 DEF SlotDays
      <4>6. CheckedSince(c, d, u - Week)
        BY <1>5, <4>1, <4>2, <4>4, <4>5, Cadences DEF u
      <4>7. d + Quarter - 2 * Week + 1 <= u - Week
        BY <1>1, <4>1, <4>3
      <4> QED BY <4>3, <4>6, <4>7, CheckedEarlier DEF Shape
    <3> QED BY <3>1, <3>2
  <2> QED BY <2>1, CheckedStays
<1> QED BY <1>3, <1>4, <1>6, <1>7

\* AuditInv is inductive.
LEMMA AuditBegins == SchedulerInit => AuditInv
<1> SUFFICES ASSUME SchedulerInit PROVE AuditInv
  OBVIOUS
<1> USE CalendarAssumption
<1>1. Shape
  BY DEF SchedulerInit, Shape, Requested, Recorded, Never
<1>2. today = troubled /\ \A c \in Conns : \A s \in Slots : lastRun[c][s] = Never
  BY DEF SchedulerInit
<1>3. Punctual
  BY <1>1, <1>2 DEF Punctual, Shape
<1>4. Answered
  BY <1>1, <1>2 DEF Answered, Shape, SlotsOf, Never
<1>5. WeekKept /\ QuarterKept
  BY <1>1, <1>2 DEF WeekKept, QuarterKept, Shape
<1> QED BY <1>1, <1>3, <1>4, <1>5 DEF AuditInv

\* Every step keeps the invariant.
LEMMA AuditStep ==
    ASSUME EverySourced
    PROVE  AuditInv /\ [SchedulerNext]_schedulerVars => AuditInv'
<1> SUFFICES ASSUME AuditInv, [SchedulerNext]_schedulerVars PROVE AuditInv'
  OBVIOUS
<1> USE DEF AuditInv
<1>1. Shape'
  BY ShapeStep
<1>2. ASSUME troubled' = today' PROVE AuditInv'
  BY <1>1, <1>2, TroubleKeeps
<1>3. ASSUME UNCHANGED <<today, auto, lastRun, linked, coverage, troubled>>, queue \subseteq queue' PROVE AuditInv'
  <2>1. Punctual'
    BY <1>3 DEF Punctual, AutoSync
  <2>2. Answered'
    BY <1>3, AnsweredStays
  <2>3. WeekKept' /\ QuarterKept'
    BY <1>3, KeptStays
  <2> QED BY <1>1, <2>1, <2>2, <2>3
<1>4. ASSUME Start PROVE AuditInv'
  BY <1>1, <1>4, StartKeeps
<1>5. ASSUME Tick PROVE AuditInv'
  <2>1. queue = {} /\ today' = today + 1 /\ UNCHANGED <<auto, linked, coverage>>
    BY <1>5 DEF Tick
  <2>2. PICK edge \in BOOLEAN :
          \/ Schedule(today + 1, lastRun, Asks(today + 1, lastRun, edge), {}) /\ Calm
          \/ Trouble(today + 1)
    BY <1>5 DEF Tick
  <2>3. CASE Trouble(today + 1)
    BY <1>2, <2>1, <2>3 DEF Trouble
  <2>4. CASE Schedule(today + 1, lastRun, Asks(today + 1, lastRun, edge), {}) /\ Calm
    BY <1>1, <2>1, <2>4, TickKeeps DEF Calm
  <2> QED BY <2>2, <2>3, <2>4
<1>6. ASSUME Miss PROVE AuditInv'
  BY <1>2, <1>6 DEF Miss, Trouble
<1>7. ASSUME NEW providers, SetSyncConfig(providers) PROVE AuditInv'
  BY <1>2, <1>7 DEF SetSyncConfig, Trouble
<1>8. ASSUME NEW conn, NEW source, NEW accounts, NEW from, NEW to, Enqueue(conn, source, accounts, from, to)
      PROVE  AuditInv'
  BY <1>3, <1>8 DEF Enqueue
<1>9. ASSUME NEW j \in queue, Settle(j) PROVE AuditInv'
  BY <1>1, <1>9, SettleKeeps
<1>10. ASSUME NEW j \in queue, Fail(j) PROVE AuditInv'
  BY <1>2, <1>10 DEF Fail, Trouble
<1>11. ASSUME NEW c \in Conns, LinkAccount(c) PROVE AuditInv'
  BY <1>2, <1>11 DEF LinkAccount, Trouble
<1>12. CASE UNCHANGED schedulerVars
  BY <1>3, <1>12 DEF schedulerVars
<1> QED BY <1>4, <1>5, <1>6, <1>7, <1>8, <1>9, <1>10, <1>11, <1>12 DEF SchedulerNext

-----------------------------------------------------------------------------
\* A day checked since then was last checked since then.
LEMMA LastChecked ==
    ASSUME Shape, NEW c, NEW d, NEW x \in Int, CheckedSince(c, d, x)
    PROVE  Checked(c, d) \in Int /\ Checked(c, d) >= x
<1> DEFINE S == {r.at : r \in Checks(c, d)} \cup {Never}
           b == IF today >= Never THEN today ELSE Never
<1>1. Never \in Int
  BY CalendarAssumption DEF Never
<1>2. \A r \in Checks(c, d) : r.at \in Int /\ r.at <= today
  BY DEF Shape, Recorded, Checks
<1>3. S \in SUBSET Int /\ S # {} /\ b \in Int /\ \A y \in S : y <= b
  BY <1>1, <1>2 DEF Shape
<1>4. PICK r \in Checks(c, d) : r.at >= x
  BY DEF CheckedSince
<1>5. r.at \in S
  OBVIOUS
<1>6. Max(S) \in S /\ \A y \in S : Max(S) >= y
  <2> HIDE DEF S, b
  <2> QED BY <1>3, GreatestOf
<1>7. Checked(c, d) = Max(S)
  BY DEF Checked
<1>8. r.at \in Int
  BY <1>2
<1> HIDE DEF S, b
<1>9. Max(S) \in Int /\ Max(S) >= r.at
  BY <1>3, <1>5, <1>6
<1> QED
  <2> DEFINE m == Max(S)
             n == r.at
  <2>1. m \in Int /\ m >= n /\ n \in Int /\ n >= x /\ Checked(c, d) = m
    BY <1>4, <1>7, <1>8, <1>9
  <2> HIDE DEF m, n
  <2> QED BY <2>1

\* Once nothing has gone wrong for as long, every day has been checked within twice its cadence.
LEMMA AuditRevisits == ASSUME EverySourced, AuditInv PROVE Revisited
<1> USE CalendarAssumption DEF AuditInv
<1> SUFFICES ASSUME queue = {}, AutoSync, NEW c \in linked, NEW d \in Audited(c),
                    today - troubled > 2 * Cadence(d, today)
             PROVE  today - Checked(c, d) <= 2 * Cadence(d, today)
  BY DEF Revisited, AutoSync
<1>1. c \in Conns /\ today \in Int /\ troubled \in Int
  BY DEF Shape
<1>2. Cadence(d, today) \in {1, Week, Month} /\ Cadence(d, today) >= 1
  BY DEF Cadence
<1>3. troubled < today
  BY <1>1, <1>2
<1>4. ASSUME NEW x \in Int, CheckedSince(c, d, x), x >= today - 2 * Cadence(d, today)
      PROVE  today - Checked(c, d) <= 2 * Cadence(d, today)
  <2>1. Checked(c, d) \in Int /\ Checked(c, d) >= x
    BY <1>4, LastChecked
  <2> QED BY <1>1, <1>2, <1>4, <2>1
\* What the last run of a slot promises.
<1>5. ASSUME NEW s \in SlotsOf(c)
      PROVE  /\ lastRun[c][s] \in Int /\ lastRun[c][s] <= today /\ today - lastRun[c][s] < SlotCadence[s]
             /\ lastRun[c][s] > troubled =>
                  \A e \in SlotDays(s, lastRun[c][s]) : CheckedSince(c, e, lastRun[c][s] - SlotCadence[s])
  <2>1. s \in Slots
    BY DEF SlotsOf
  <2>2. today - lastRun[c][s] < SlotCadence[s]
    BY <1>1, <1>3 DEF Punctual
  <2>3. lastRun[c][s] > troubled =>
          \A e \in SlotDays(s, lastRun[c][s]) : CheckedSince(c, e, lastRun[c][s] - SlotCadence[s])
    BY <1>1 DEF Answered, LookedAfter, Pending
  <2> QED BY <1>1, <2>1, <2>2, <2>3 DEF Shape
<1>6. CASE ~ByReports(c)
  <2>1. d \in (today - Week)..today
    BY <1>6 DEF Audited
  <2>2. Cadence(d, today) = 1
    BY <1>1, <2>1 DEF Cadence
  <2>3. PICK s \in {"native", "gateway"} : s \in SlotsOf(c)
    BY <1>6 DEF SlotsOf, Slots, SourceOf
  <2>4. SlotCadence[s] = 1
    BY Cadences
  <2>5. lastRun[c][s] = today
    BY <1>1, <1>5, <2>3, <2>4
  <2>6. d \in SlotDays(s, today)
    BY <2>1 DEF SlotDays
  <2>7. CheckedSince(c, d, today - 1)
    BY <1>3, <1>5, <2>3, <2>4, <2>5, <2>6
  <2> QED BY <1>1, <1>4, <2>2, <2>7
<1>7. CASE ByReports(c)
  <2>1. d \in Int /\ HistoryFrom <= d /\ d <= today - 1
    BY <1>1, <1>7 DEF Audited
  <2>2. {"daily", "weekly", "monthly"} \subseteq SlotsOf(c)
    BY <1>7 DEF SlotsOf, Slots, SourceOf
  <2>3. CASE d >= today - Week
    <3>1. Cadence(d, today) = 1
      BY <1>1, <2>1, <2>3 DEF Cadence
    <3>2. lastRun[c]["daily"] = today
      BY <1>1, <1>5, <2>2, Cadences
    <3>3. d \in SlotDays("daily", today)
      BY <1>1, <2>1, <2>3 DEF SlotDays
    <3>4. CheckedSince(c, d, today - 1)
      BY <1>3, <1>5, <2>2, <3>2, <3>3, Cadences
    <3> QED BY <1>1, <1>4, <3>1, <3>4
  <2>4. CASE d < today - Week /\ d >= today - Quarter
    <3>1. Cadence(d, today) = Week
      BY <1>1, <2>1, <2>4 DEF Cadence
    <3> DEFINE u == lastRun[c]["weekly"]
    <3>2. u \in Int /\ u <= today /\ today - u < Week
      BY <1>5, <2>2, Cadences
    <3> HIDE DEF u
    <3>3. u > troubled
      BY <1>1, <3>1, <3>2
    <3>4. CASE d <= u - Week - 1
      <4>1. d \in SlotDays("weekly", u)
        <5>1. d \in (u - Quarter)..(u - Week - 1)
          BY <1>1, <2>1, <2>4, <3>2, <3>4
        <5> QED BY <5>1 DEF SlotDays
      <4>2. CheckedSince(c, d, u - Week)
        BY <1>5, <2>2, <3>3, <4>1, Cadences DEF u
      <4> QED BY <1>1, <1>4, <3>1, <3>2, <4>2
    <3>5. CASE d > u - Week - 1
      <4>1. troubled < d + Week /\ d + Week < today
        BY <1>1, <2>1, <2>4, <3>2, <3>3, <3>5
      <4>2. CheckedSince(c, d, d + Week - 1)
        BY <1>1, <1>7, <2>1, <4>1 DEF WeekKept
      <4>3. d + Week - 1 \in Int /\ d + Week - 1 >= today - 2 * Week
        BY <1>1, <2>1, <3>2, <3>5
      <4> QED BY <1>4, <3>1, <4>2, <4>3
    <3> QED BY <2>1, <3>2, <3>4, <3>5
  <2>5. CASE d < today - Quarter
    <3>1. Cadence(d, today) = Month
      BY <1>1, <2>1, <2>5 DEF Cadence
    <3> DEFINE u == lastRun[c]["monthly"]
    <3>2. u \in Int /\ u <= today /\ today - u < Month
      BY <1>5, <2>2, Cadences
    <3> HIDE DEF u
    <3>3. u > troubled
      BY <1>1, <3>1, <3>2
    <3>4. CASE d <= u - Quarter - 1
      <4>1. d \in SlotDays("monthly", u)
        <5>1. d \in HistoryFrom..(u - Quarter - 1)
          BY <2>1, <3>2, <3>4
        <5> QED BY <5>1 DEF SlotDays
      <4>2. CheckedSince(c, d, u - Month)
        BY <1>5, <2>2, <3>3, <4>1, Cadences DEF u
      <4> QED BY <1>1, <1>4, <3>1, <3>2, <4>2
    <3>5. CASE d > u - Quarter - 1
      <4>1. troubled <= d + Quarter - Week /\ d + Quarter < today
        BY <1>1, <2>1, <2>5, <3>1, <3>2, <3>5
      <4>2. CheckedSince(c, d, d + Quarter - 2 * Week + 1)
        BY <1>1, <1>7, <2>1, <4>1 DEF QuarterKept
      <4>3. d + Quarter - 2 * Week + 1 \in Int /\ d + Quarter - 2 * Week + 1 >= today - 2 * Month
        BY <1>1, <2>1, <3>2, <3>5
      <4> QED BY <1>4, <3>1, <4>2, <4>3
    <3> QED BY <2>1, <3>2, <3>4, <3>5
  <2> QED BY <1>1, <2>1, <2>3, <2>4, <2>5
<1> QED BY <1>6, <1>7

\* "Successful coverage is revisited on its audit cadence": as long as every connection has a
\* source at all, no linked connection has a day that was left unchecked for more than twice its
\* cadence once nothing has gone wrong for that long, whatever the calendar, the days the program
\* was down and the requests of users; and no job asks for what its source refuses.
THEOREM HistoryAlwaysAsked == ASSUME EverySourced PROVE SchedulerSpec => []HistoryAsked
<1>1. SchedulerInit => AuditInv
  BY AuditBegins
<1>2. AuditInv /\ [SchedulerNext]_schedulerVars => AuditInv'
  BY AuditStep
<1>3. AuditInv /\ QueueServable => HistoryAsked
  BY AuditRevisits DEF HistoryAsked
<1> QED BY <1>1, <1>2, <1>3, RequestsServable, PTL DEF SchedulerSpec
=============================================================================
