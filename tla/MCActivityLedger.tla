-------------------------- MODULE MCActivityLedger --------------------------
(* A behaviour is either one of the ledger, with any three of the contents *)
(* below stored and normalised in any order, or one of the reconciliation, *)
(* where only the difference of balances matters and the first is zero.    *)
EXTENDS ActivityLedger, Reconciliation

VARIABLE half

MCRecord(account, source, key, exec, time, kind, date, legs, cost, marks) ==
    [account |-> account, source |-> source, key |-> key, exec |-> exec, time |-> time,
     kind |-> kind, date |-> date, legs |-> legs, cost |-> cost, marks |-> marks]

MCRecords ==
    <<\* one trade, reported by the Gateway and, later and in several versions, by Flex
      MCRecord(1, "gateway", "g", "x", 0, "trade", 1, {1}, FALSE, <<"effective", "effective">>),
      MCRecord(1, "flex", "f", "none", 1, "trade", 1, {1}, FALSE, <<"effective", "effective">>),
      MCRecord(1, "flex", "f", "x", 1, "trade", 2, {1, 2}, FALSE, <<"effective", "effective">>),
      MCRecord(1, "flex", "f", "none", 2, "trade", 1, {1}, FALSE, <<"voided", "voided">>),
      \* a fee that may be part of it, and a correction of unknown age
      MCRecord(1, "flex", "p", "none", 0, "trade", 2, {2}, FALSE, <<"overlap", "overlap">>),
      MCRecord(1, "flex", "p", "none", 0, "trade", 2, {1}, FALSE, <<"effective", "effective">>),
      \* the two sides of a transfer, and one of them with its cost
      MCRecord(1, "flex", "t", "none", 0, "transfer", 1, {-3}, FALSE, <<"unclear", "effective">>),
      MCRecord(1, "flex", "t", "none", 0, "transfer", 1, {-3}, TRUE, <<"effective", "effective">>),
      MCRecord(2, "flex", "u", "none", 0, "transfer", 1, {3}, FALSE, <<"unsupported", "unclear">>) >>

\* Trades and transfers never meet in the ledger, so no world mixes them; and one with the fee
\* has the trade of the Gateway that it may be part of.
MCWorlds ==
    LET chosen == {t \in [1..3 -> 1..Len(MCRecords)] : t[1] < t[2] /\ t[2] < t[3] /\ (t[3] <= 4 \/ (t[1] = 1 /\ t[3] <= 6) \/ t[1] > 6)} IN
    {[r \in 1..3 |-> MCRecords[t[r]]] : t \in chosen}

MCInit ==
    /\ LedgerInit /\ ReconciliationInit
    /\ \/ half = "ledger"
       \/ half = "reconciliation" /\ rec = CHOOSE w \in Worlds : TRUE

MCNext ==
    \/ half = "ledger" /\ LedgerNext /\ UNCHANGED <<half, reconciliationVars>>
    \/ /\ half = "reconciliation" /\ ReconciliationNext /\ UNCHANGED <<half, ledgerVars>>
       /\ snapshots' # <<>> => snapshots'[1].balances = [k \in BalanceKeys |-> 0]

MCSpec == MCInit /\ [][MCNext]_<<half, ledgerVars, reconciliationVars>>
=============================================================================
