----------------------------- MODULE MCStreams ------------------------------
(***************************************************************************)
(* The streams of two brokers share no variable: a behaviour of this run   *)
(* is one of either, the other not started, so that none of its fair       *)
(* actions is enabled.                                                     *)
(***************************************************************************)
EXTENDS SchwabStream, IbkrLiveOrders

VARIABLE part

MCInit == StreamInit /\ LiveInit /\ part \in {"schwab", "ibkr"}

MCNext ==
    \/ part = "schwab" /\ StreamNext /\ UNCHANGED <<part, liveVars>>
    \/ part = "ibkr" /\ LiveNext /\ UNCHANGED <<part, streamVars>>

MCSpec == MCInit /\ [][MCNext]_<<part, streamVars, liveVars>> /\ StreamFairness /\ LiveFairness
=============================================================================
