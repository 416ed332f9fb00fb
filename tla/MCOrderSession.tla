--------------------------- MODULE MCOrderSession ---------------------------
(***************************************************************************)
(* OrderSession for TLC: two handlers work on one client order id.  The    *)
(* token of a Schwab session shares no variable with its orders: a         *)
(* behaviour of this run is one of either, the other resting.              *)
(***************************************************************************)
EXTENDS OrderSession, SchwabTokens, TLC

VARIABLE part

\* The handlers are interchangeable.
HandlersAlike == Permutations(Callers)

MCInit == Init /\ TokensInit /\ part \in {"orders", "token"}

MCNext ==
    \/ part = "orders" /\ Next /\ UNCHANGED <<part, tokenVars>>
    \/ part = "token" /\ TokensNext /\ UNCHANGED <<part, vars>>

MCSpec == MCInit /\ [][MCNext]_<<part, vars, tokenVars>>
=============================================================================
