--------------------------- MODULE MCHistoryJobs ---------------------------
(* Instances of HistoryJobs for TLC. *)
EXTENDS HistoryJobs, TLC

CONSTANTS j1, j2, p1, p2, flexAll, flexAccts, gateway, x1, x2

\* Two rows created within the same second.
MCCreatedAt == [j \in Jobs |-> 1]

\* A flex request that names no account, the same one once the report named
\* the accounts, and a request of another source.
MCScopeOf == [r \in Requests |-> IF r = gateway THEN "gateway" ELSE "flex"]
MCRewrites == [r \in Requests |-> IF r = flexAll THEN {flexAll, flexAccts} \cap Requests ELSE {r}]
MCReturns == [r \in Requests |-> IF r = gateway THEN {x1} ELSE Records]
\* Processes are interchangeable, and so are rows created within one second.
MCSymmetry == Permutations(Procs) \cup Permutations(Jobs)

MCFlexScopes == {"flex"} \cap Scopes
=============================================================================
