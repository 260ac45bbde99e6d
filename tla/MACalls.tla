------------------------------- MODULE MACalls --------------------------------
(***************************************************************************)
(* What callMAResultWithin promises to its callers: a call is carried out  *)
(* by Music Assistant at most once; it returns without an error only after *)
(* it was carried out; one that returns errMACommandTimeout was never      *)
(* asked; one that returns any other error may still be carried out later. *)
(***************************************************************************)
EXTENDS Naturals

CONSTANT Callers

VARIABLES
    progress,   \* of the call each caller has under way
    verdict,    \* what the last call of each caller returned
    stray       \* calls that were given up and may still be carried out

callVars == <<progress, verdict, stray>>

Progress == {"none", "asked", "carried"}
Verdict == {"none", "ok", "error", "timeout"}

Init ==
    /\ progress = [c \in Callers |-> "none"]
    /\ verdict = [c \in Callers |-> "none"]
    /\ stray = 0

Ask(c) ==
    /\ progress[c] = "none"
    /\ progress' = [progress EXCEPT ![c] = "asked"]
    /\ verdict' = [verdict EXCEPT ![c] = "none"]
    /\ UNCHANGED stray

Carry(c) ==
    /\ progress[c] = "asked"
    /\ progress' = [progress EXCEPT ![c] = "carried"]
    /\ UNCHANGED <<verdict, stray>>

Return(c, v) ==
    /\ progress' = [progress EXCEPT ![c] = "none"]
    /\ verdict' = [verdict EXCEPT ![c] = v]

Succeed(c) == progress[c] = "carried" /\ Return(c, "ok") /\ UNCHANGED stray

TimeOut(c) == progress[c] = "asked" /\ Return(c, "timeout") /\ UNCHANGED stray

Fail(c) ==
    /\ progress[c] # "none"
    /\ Return(c, "error")
    /\ stray' \in IF progress[c] = "asked" THEN {stray, stray + 1} ELSE {stray}

\* A request of a call given up is carried out, or lost.
SettleStray ==
    /\ stray > 0
    /\ stray' = stray - 1
    /\ UNCHANGED <<progress, verdict>>

Next ==
    \/ \E c \in Callers : Ask(c) \/ Carry(c) \/ Succeed(c) \/ TimeOut(c) \/ Fail(c)
    \/ SettleStray

Spec == Init /\ [][Next]_callVars
===============================================================================
