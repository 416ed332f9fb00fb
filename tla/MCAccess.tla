------------------------------ MODULE MCAccess ------------------------------
(* Two people, two requests and one connection to the database.            *)
EXTENDS Access, TLC

AccessSymmetry == Permutations(Users) \cup Permutations(Requests) \cup Permutations(SessionIds)
=============================================================================
