------------------------------ MODULE MCMAClient ------------------------------
(***************************************************************************)
(* Two goroutines use the adapter, one after the other or both at once,    *)
(* while the connection breaks and the active queue changes.               *)
(***************************************************************************)
EXTENDS MAClient

CONSTANTS monitor, handler, own, group

MCCallers == {monitor, handler}
MCQueues == {own, group}
===============================================================================
