------------------------- MODULE HistoryJobPromise -------------------------
(***************************************************************************)
(* What the history queue promises to the user who submits an import and   *)
(* to the readers of its results, with no mention of processes, leases,    *)
(* attempts or crashes: a job stores its evidence once, every stored       *)
(* record is decided once (and all jobs that observe a record share its    *)
(* decision), and the job ends with coverage and a status that agree with  *)
(* those decisions.                                                        *)
(***************************************************************************)
CONSTANTS Jobs, Records

VARIABLES
    stage,     \* stage[j]: how far job j is, as the user sees it
    stored,    \* the jobs whose evidence is durable
    outcome,   \* outcome[j][x]: what job j reports of record x
    decision,  \* decision[x]: what became of record x
    coverage   \* coverage[j]: the normalize status of j's coverage

pvars == <<stage, stored, outcome, decision, coverage>>

PInit ==
    /\ stage = [j \in Jobs |-> "none"]
    /\ stored = {}
    /\ outcome = [j \in Jobs |-> [x \in Records |-> "none"]]
    /\ decision = [x \in Records |-> "none"]
    /\ coverage = [j \in Jobs |-> "none"]

InReview(j) == \E x \in Records : outcome[j][x] = "review"
Decided(j) == \A x \in Records : outcome[j][x] # "open"

Submit(j) ==
    /\ stage[j] = "none"
    /\ stage' = [stage EXCEPT ![j] = "open"]
    /\ UNCHANGED <<stored, outcome, decision, coverage>>

StoreEvidence(j, S) ==
    /\ stage[j] = "open" /\ j \notin stored
    /\ stored' = stored \cup {j}
    /\ outcome' = [outcome EXCEPT ![j] = [x \in Records |-> IF x \in S THEN "open" ELSE "none"]]
    /\ decision' = [x \in Records |-> IF x \in S /\ decision[x] = "none" THEN "pending" ELSE decision[x]]
    /\ UNCHANGED <<stage, coverage>>

Decide(j, x, o) ==
    /\ stage[j] = "open" /\ outcome[j][x] = "open"
    /\ decision[x] \in {"pending", o}
    /\ outcome' = [outcome EXCEPT ![j][x] = o]
    /\ decision' = [decision EXCEPT ![x] = o]
    /\ UNCHANGED <<stage, stored, coverage>>

Cover(j) ==
    /\ stage[j] = "open" /\ j \in stored /\ Decided(j)
    /\ coverage' = [coverage EXCEPT ![j] = IF InReview(j) THEN "partial" ELSE "complete"]
    /\ UNCHANGED <<stage, stored, outcome, decision>>

Complete(j) ==
    /\ stage[j] = "open" /\ j \in stored /\ Decided(j)
    /\ coverage[j] = IF InReview(j) THEN "partial" ELSE "complete"
    /\ stage' = [stage EXCEPT ![j] = IF InReview(j) THEN "partial" ELSE "succeeded"]
    /\ UNCHANGED <<stored, outcome, decision, coverage>>

GiveUp(j) ==
    /\ stage[j] = "open"
    /\ \E s \in {"failed", "needs_action"} : stage' = [stage EXCEPT ![j] = s]
    /\ UNCHANGED <<stored, outcome, decision, coverage>>

\* Only jobs that stored nothing are started over.
StartOver(J) ==
    /\ \A j \in J : stage[j] = "needs_action" /\ j \notin stored
    /\ stage' = [j \in Jobs |-> IF j \in J THEN "open" ELSE stage[j]]
    /\ UNCHANGED <<stored, outcome, decision, coverage>>

PNext ==
    \/ \E j \in Jobs : Submit(j) \/ Cover(j) \/ Complete(j) \/ GiveUp(j)
    \/ \E j \in Jobs, S \in SUBSET Records : StoreEvidence(j, S)
    \/ \E j \in Jobs, x \in Records, o \in {"clean", "review"} : Decide(j, x, o)
    \/ \E J \in SUBSET Jobs : StartOver(J)

PSpec == PInit /\ [][PNext]_pvars
=============================================================================
