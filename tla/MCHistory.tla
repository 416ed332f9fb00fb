----------------------------- MODULE MCHistory ------------------------------
(* The history service for TLC: a behaviour is one of the jobs, of those   *)
(* who ask for them, or of the uploads, the others not started.            *)
EXTENDS MCHistoryJobs, MCHistoryScheduler, HistoryImports

CONSTANTS h1, h2, h3

VARIABLE part

\* Two requests of one user, and one of another.
MCUserOf == [h \in Handlers |-> IF h = h3 THEN 2 ELSE 1]

\* The jobs of a day write rows of their own: the order in which they end makes no difference.
InTurn == \A j \in queue \ queue' : j = CHOOSE k \in queue : TRUE

MCInit ==
    /\ Init /\ SchedulerInit /\ ImportsInit
    /\ part \in {"jobs", "requests", "uploads"}
    /\ part # "requests" => linked = {} /\ lag = 0

MCNext ==
    \/ part = "jobs" /\ Next /\ UNCHANGED <<part, schedulerVars, importVars>>
    \/ part = "requests" /\ SchedulerNext /\ InTurn /\ UNCHANGED <<part, vars, importVars>>
    \/ part = "uploads" /\ ImportsNext /\ UNCHANGED <<part, vars, schedulerVars>>

MCSpec == MCInit /\ [][MCNext]_<<part, vars, schedulerVars, importVars>> /\ Fairness
=============================================================================
