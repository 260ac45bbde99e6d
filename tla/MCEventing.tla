------------------------------ MODULE MCEventing ------------------------------
(***************************************************************************)
(* Constants for model-checking Eventing: two subscriptions of different    *)
(* services.                                                               *)
(***************************************************************************)
EXTENDS Eventing

CONSTANTS c1, c2

Paths == [s \in Sids |-> IF s = c1 THEN "AVTransport" ELSE "RenderingControl"]
===============================================================================
