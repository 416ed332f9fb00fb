------------------------ MODULE MCPerformanceSeries ------------------------
(***************************************************************************)
(* Instances of PerformanceSeries for TLC.                                 *)
(***************************************************************************)
EXTENDS PerformanceSeries, TLC

\* The callers are interchangeable.
CallersAlike == Permutations(Callers)
=============================================================================
