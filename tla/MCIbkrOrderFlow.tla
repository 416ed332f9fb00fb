-------------------------- MODULE MCIbkrOrderFlow --------------------------
(***************************************************************************)
(* IbkrOrderFlow for TLC.                                                  *)
(***************************************************************************)
EXTENDS IbkrOrderFlow, TLC

\* Client order ids are interchangeable, and so are reply IDs.
Alike == Permutations(Ids) \cup Permutations(Replies)
=============================================================================
