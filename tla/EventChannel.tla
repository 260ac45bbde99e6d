------------------------------ MODULE EventChannel ------------------------------
(***************************************************************************)
(* What the bridge promises the control points that subscribe to events: a  *)
(* subscription opens once and ends once; while it is open every event of   *)
(* its service becomes due; events are sent in order, none twice, and none   *)
(* before the control point was told about the subscription; and when it     *)
(* ends nothing is due any more but a NOTIFY that is already on its way.     *)
(***************************************************************************)
EXTENDS Naturals

CONSTANT Sids

VARIABLES
    open,   \* the subscriptions that receive events
    told,   \* those whose control point has been answered
    over,   \* those that ended
    due,    \* sid -> how many events have become due to it
    sent    \* sid -> how many have been sent

channelVars == <<open, told, over, due, sent>>

ChannelInit ==
    /\ open = {} /\ told = {} /\ over = {}
    /\ due = [s \in Sids |-> 0] /\ sent = [s \in Sids |-> 0]

\* The initial event is due at once.
Open(s) ==
    /\ s \notin open \cup over
    /\ open' = open \cup {s}
    /\ due' = [due EXCEPT ![s] = 1]
    /\ UNCHANGED <<told, over, sent>>

Tell(s) == told' = told \cup {s} /\ UNCHANGED <<open, over, due, sent>>

\* An event is due to some of the open subscriptions, while others may end at the same time.
Happen(to, ended) ==
    /\ to \subseteq open \ ended /\ ended \subseteq open
    /\ open' = open \ ended
    /\ over' = over \cup ended
    /\ due' \in [Sids -> Nat]
    /\ \A s \in Sids :
          CASE s \in to    -> due'[s] = due[s] + 1
            [] s \in ended -> due'[s] \in {sent[s], sent[s] + 1} /\ due'[s] <= due[s]
            [] OTHER       -> due'[s] = due[s]
    /\ UNCHANGED <<told, sent>>

Send(s) ==
    /\ s \in told
    /\ sent[s] < due[s]
    /\ sent' = [sent EXCEPT ![s] = @ + 1]
    /\ UNCHANGED <<open, told, over, due>>

ChannelNext ==
    \/ \E s \in Sids : Open(s) \/ Tell(s) \/ Send(s)
    \/ \E to, ended \in SUBSET open : Happen(to, ended)

ChannelSpec == ChannelInit /\ [][ChannelNext]_channelVars
===============================================================================
