------------------------------ MODULE MCTransport ------------------------------
(***************************************************************************)
(* Constants for model-checking Transport: each session plays a song of    *)
(* its own, so that the source tells which session the player serves.      *)
(* Slots are interchangeable, and so are monitors (a reduction used only    *)
(* where no liveness property is checked).                                  *)
(***************************************************************************)
EXTENDS Transport, TLC

CONSTANTS s1, s2, songA, songB, songX

OwnSource == (s1 :> songA) @@ (s2 :> songB)

Symmetry == Permutations(Slots) \cup Permutations(Monitors)
===============================================================================
