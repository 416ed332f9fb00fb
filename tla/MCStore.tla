------------------------------ MODULE MCStore -------------------------------
(***************************************************************************)
(* The history of accounts in the store for TLC: a behaviour is one of     *)
(* MCActivityLedger or of the performance series, the other resting.  In   *)
(* the series one caller at a time waits for the lock (waiting changes     *)
(* nothing, and the second may ask as soon as the first has the lock), and *)
(* the removal of a source counts as one of the MaxRevisions changes.      *)
(***************************************************************************)
EXTENDS MCPerformanceSeries, MCActivityLedger

StoreInit ==
    /\ Init
    /\ \/ MCInit
       \/ /\ half = "series" /\ LedgerInit /\ ReconciliationInit
          /\ rec = CHOOSE w \in Worlds : TRUE

StoreNext ==
    \/ /\ half = "series" /\ Next /\ UNCHANGED <<half, ledgerVars, reconciliationVars>>
       /\ Cardinality({p \in Callers : pc'[p] = "wait"}) <= 1
       /\ led'[MaxDay] + (IF source' = "on" THEN 0 ELSE 1) <= MaxRevisions
    \/ MCNext /\ UNCHANGED vars

StoreSpec == StoreInit /\ [][StoreNext]_<<half, vars, ledgerVars, reconciliationVars>>
=============================================================================
