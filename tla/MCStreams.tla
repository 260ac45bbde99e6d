------------------------------ MODULE MCStreams ------------------------------
(* Streams for TLC. *)
EXTENDS Streams, TLC

CONSTANTS s1, o1, o2, c1, c2, l1

MCGens == 1 .. MaxOps
Symmetry == Permutations(Objs) \cup Permutations(Callers)
===============================================================================
