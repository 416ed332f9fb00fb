------------------------- MODULE MCHistoryScheduler -------------------------
(* HistoryScheduler for TLC: an IBKR and a Schwab connection, and a        *)
(* calendar whose week has two days and whose month has four.              *)
EXTENDS HistoryScheduler

CONSTANTS ib, sw

MCConfigured == [c \in Conns |-> IF c = ib THEN {"gateway", "flex"} ELSE {"native"}]
MCHistoryFrom == -8
=============================================================================
