--------------------------- MODULE MCConnections ---------------------------
(* Instances of Connections for TLC. *)
EXTENDS Connections, TLC

CONSTANTS c1, c2, s1, s2, s3, s4, s5, s6, a1, a2, k1, old, new

MCConnOf == [s \in Sessions |-> IF s \in {s1, s3, s5} THEN c1 ELSE c2]
MCBoot == [c \in Conns |-> IF c = c1 THEN s1 ELSE s2]
MCSymmetry == Permutations(Admins)
=============================================================================
