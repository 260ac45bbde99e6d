------------------------------ MODULE MCSessions ------------------------------
(***************************************************************************)
(* Model-checks Sessions with a table of three sessions and identifiers for  *)
(* five, so that it fills up and sessions are evicted twice.  Identifiers  *)
(* are interchangeable.                                                    *)
(***************************************************************************)
EXTENDS Sessions, TLC

Symmetry == Permutations(Ids)
===============================================================================
