-------------------------------- MODULE Eventing --------------------------------
(***************************************************************************)
(* Event subscriptions (GENA) of upnp.Handler: serveEvent, the queue and   *)
(* the worker goroutine of each subscriber, the expiry timers, and         *)
(* notifySubscribers (internal/upnp/upnp.go).                              *)
(*                                                                         *)
(* h.mu protects the map of subscribers, so each section under it is one   *)
(* step; queueMu protects a queue and its closed flag, which the worker    *)
(* reads in steps of its own.  A subscription identifier is a fresh UUID:  *)
(* it is used for one subscription.                                        *)
(*                                                                         *)
(* Time is relative: left[s] is what is left of the subscription of s, and *)
(* Tick lets it pass.  A timer is always set for the rest of its           *)
(* subscription, so it is enough to know whether it is set; once it has    *)
(* fired, its callback is a goroutine that waits for h.mu (late[s] counts   *)
(* them), and stopping the timer does not recall it.                       *)
(*                                                                         *)
(* Left out: callback URLs, their validation and the contents of events.   *)
(* What becomes of a NOTIFY on the network changes nothing here: it is     *)
(* sent once, and the worker goes on after an answer, an error or 5 s.     *)
(***************************************************************************)
EXTENDS Naturals, Sequences, FiniteSets

CONSTANTS
    Sids,        \* subscription identifiers
    Services,    \* the evented services
    ServiceOf,   \* sid -> the service of the path it subscribes to
    Bodies,      \* what an event can say
    Period,      \* the 1800 s of a subscription, in ticks
    MaxSeq,      \* bound: events of a subscription
    MaxLate      \* bound: callbacks of a timer that wait for h.mu

ASSUME EventingAssumption ==
    /\ ServiceOf \in [Sids -> Services]
    /\ Bodies # {}
    /\ Period \in Nat \ {0}
    /\ MaxSeq \in Nat /\ MaxLate \in Nat

VARIABLES
    subscribers,  \* the keys of Handler.subscribers
    seq,          \* eventSubscriber.seq
    left,         \* time until eventSubscriber.expiresAt
    timer,        \* whether expiryTimer is set and has not fired
    late,         \* callbacks of the timer waiting for h.mu
    queue,        \* eventSubscriber.queue
    closed,       \* eventSubscriber.closed
    reply,        \* how far the answer to SUBSCRIBE is; "released": release is closed
    worker,       \* the worker goroutine's next step
    hand,         \* the delivery the worker took last
    sent          \* how many deliveries it has sent

tableVars == <<subscribers, seq, left>>
timerVars == <<timer, late>>
workerVars == <<worker, hand, sent>>
eventingVars == <<tableVars, timerVars, queue, closed, reply, workerVars>>

Delivery == [seq : Nat, body : Bodies]
\* The initial event carries the release channel, later ones do not.
Gated(ed) == ed.seq = 0

NoDelivery == [seq |-> 0, body |-> CHOOSE b \in Bodies : TRUE]

-----------------------------------------------------------------------------
(* The methods that need h.mu, on a set of subscribers at once. *)

\* closeSubscriberLocked and the deletion from the map, which always go together.
CloseAll(gone) ==
    /\ subscribers' = subscribers \ gone
    /\ closed' = [s \in Sids |-> closed[s] \/ s \in gone]
    /\ timer' = [s \in Sids |-> timer[s] /\ s \notin gone]

\* mutant: stops the timer and sets none
StopExpiry(s) == timer' = [timer EXCEPT ![s] = FALSE]
\* scheduleExpiryLocked: stops the timer and sets it again for what is left.
ScheduleExpiry(s) == timer' = [timer EXCEPT ![s] = TRUE]

\* mutant: the sequence number is read before it is advanced
AppendedEarly(to, body) ==
    [s \in Sids |-> IF s \in to THEN Append(queue[s], [seq |-> seq[s], body |-> body])
                                ELSE queue[s]]
\* enqueueSubscriberDeliveryLocked, for an event with the next sequence number.
Appended(to, body) ==
    [s \in Sids |-> IF s \in to THEN Append(queue[s], [seq |-> seq[s] + 1, body |-> body])
                                ELSE queue[s]]

AdvancedAll(to) ==   \* mutant: whatever their service
    [s \in Sids |-> IF s \in subscribers THEN seq[s] + 1 ELSE seq[s]]
Advanced(to) == [s \in Sids |-> IF s \in to THEN seq[s] + 1 ELSE seq[s]]

-----------------------------------------------------------------------------
(* SUBSCRIBE, renewal, UNSUBSCRIBE *)

Subscribe(s, body) ==
    /\ reply[s] = "none"
    /\ reply' = [reply EXCEPT ![s] = "pending"]
    /\ subscribers' = subscribers \cup {s}
    /\ left' = [left EXCEPT ![s] = Period]
    /\ ScheduleExpiry(s)
    /\ queue' = [queue EXCEPT ![s] = <<[seq |-> 0, body |-> body]>>]
    /\ worker' = [worker EXCEPT ![s] = "wait"]
    /\ UNCHANGED <<seq, late, closed, hand, sent>>

\* The answer with the SID is flushed, then the initial event is released.
Answer(s) ==
    /\ reply[s] = "pending"
    /\ reply' = [reply EXCEPT ![s] = "flushed"]
    /\ UNCHANGED <<tableVars, timerVars, queue, closed, workerVars>>

Release(s) ==
    /\ reply[s] = "flushed"
    /\ reply' = [reply EXCEPT ![s] = "released"]
    /\ UNCHANGED <<tableVars, timerVars, queue, closed, workerVars>>

\* A control point knows the SID once it has the answer.
Known(s) == reply[s] \in {"flushed", "released"}

Renew(s) ==
    /\ Known(s) /\ s \in subscribers
    /\ left' = [left EXCEPT ![s] = Period]
    /\ ScheduleExpiry(s)
    /\ UNCHANGED <<subscribers, seq, late, queue, closed, reply, workerVars>>

\* Closing a subscriber empties its queue.
Emptied(gone) == [s \in Sids |-> IF s \in gone THEN <<>> ELSE queue[s]]

Unsubscribe(s) ==
    /\ Known(s) /\ s \in subscribers
    /\ CloseAll({s}) /\ queue' = Emptied({s})
    /\ UNCHANGED <<seq, left, late, reply, workerVars>>

-----------------------------------------------------------------------------
(* Expiry *)

Tick ==
    /\ \E s \in subscribers : left[s] > 0
    /\ left' = [s \in Sids |-> IF s \in subscribers /\ left[s] > 0 THEN left[s] - 1 ELSE left[s]]
    /\ UNCHANGED <<subscribers, seq, timerVars, queue, closed, reply, workerVars>>

TimerFires(s) ==
    /\ timer[s] /\ left[s] = 0
    /\ late[s] < MaxLate
    /\ timer' = [timer EXCEPT ![s] = FALSE]
    /\ late' = [late EXCEPT ![s] = @ + 1]
    /\ UNCHANGED <<tableVars, queue, closed, reply, workerVars>>

\* mutant: the callback trusts its timer
ExpireUnchecked(s) ==
    /\ late[s] > 0
    /\ late' = [late EXCEPT ![s] = @ - 1]
    /\ CloseAll({s}) /\ queue' = Emptied({s})
    /\ UNCHANGED <<seq, left, reply, workerVars>>

ExpireSubscriber(s) ==
    /\ late[s] > 0
    /\ late' = [late EXCEPT ![s] = @ - 1]
    /\ \/ s \notin subscribers /\ UNCHANGED <<subscribers, timer, queue, closed>>
       \/ s \in subscribers /\ left[s] > 0 /\ ScheduleExpiry(s)
                            /\ UNCHANGED <<subscribers, queue, closed>>
       \/ s \in subscribers /\ left[s] = 0 /\ CloseAll({s}) /\ queue' = Emptied({s})
    /\ UNCHANGED <<seq, left, reply, workerVars>>

-----------------------------------------------------------------------------
(* Events *)

\* Those of the subscribers past their time: at the very instant it may go either way.
Overdue == {s \in subscribers : left[s] = 0}

NotifySubscribers(service, body) ==
    \E gone \in SUBSET Overdue :
        LET to == {s \in subscribers \ gone : ServiceOf[s] = service} IN
        /\ \A s \in to : seq[s] < MaxSeq
        /\ CloseAll(gone)
        /\ seq' = Advanced(to)
        /\ queue' = [s \in Sids |-> IF s \in gone THEN <<>> ELSE Appended(to, body)[s]]
        /\ UNCHANGED <<left, late, reply, workerVars>>

\* Handler.Stop
CloseAllSubscribers ==
    /\ subscribers # {}
    /\ CloseAll(subscribers) /\ queue' = Emptied(subscribers)
    /\ UNCHANGED <<seq, left, late, reply, workerVars>>

-----------------------------------------------------------------------------
(* The worker of a subscriber: it waits for a delivery, then for the       *)
(* release of the initial one, looks whether it was closed meanwhile, and  *)
(* sends.                                                                  *)

WorkerIgnoresGate(s) ==   \* mutant
    /\ worker[s] = "wait" /\ ~closed[s] /\ queue[s] # <<>>
    /\ hand' = [hand EXCEPT ![s] = Head(queue[s])]
    /\ queue' = [queue EXCEPT ![s] = Tail(@)]
    /\ worker' = [worker EXCEPT ![s] = "look"]
    /\ UNCHANGED <<tableVars, timerVars, closed, reply, sent>>

WorkerTakes(s) ==
    /\ worker[s] = "wait" /\ ~closed[s] /\ queue[s] # <<>>
    /\ hand' = [hand EXCEPT ![s] = Head(queue[s])]
    /\ queue' = [queue EXCEPT ![s] = Tail(@)]
    /\ worker' = [worker EXCEPT ![s] = IF Gated(Head(queue[s])) THEN "gate" ELSE "look"]
    /\ UNCHANGED <<tableVars, timerVars, closed, reply, sent>>

WorkerReleased(s) ==
    /\ worker[s] = "gate" /\ reply[s] = "released"
    /\ worker' = [worker EXCEPT ![s] = "look"]
    /\ UNCHANGED <<tableVars, timerVars, queue, closed, reply, hand, sent>>

WorkerDoesNotLook(s) ==   \* mutant: sends what it had taken before it was closed
    /\ worker[s] = "look"
    /\ worker' = [worker EXCEPT ![s] = "send"]
    /\ UNCHANGED <<tableVars, timerVars, queue, closed, reply, hand, sent>>

WorkerLooks(s) ==
    /\ worker[s] = "look"
    /\ worker' = [worker EXCEPT ![s] = IF closed[s] THEN "done" ELSE "send"]
    /\ UNCHANGED <<tableVars, timerVars, queue, closed, reply, hand, sent>>

SendEventDelivery(s) ==
    /\ worker[s] = "send"
    /\ worker' = [worker EXCEPT ![s] = "wait"]
    /\ sent' = [sent EXCEPT ![s] = @ + 1]
    /\ UNCHANGED <<tableVars, timerVars, queue, closed, reply, hand>>

\* mutant: closing does not wake the worker
WorkerSleepsOn(s) == FALSE /\ UNCHANGED eventingVars

WorkerEnds(s) ==
    /\ worker[s] = "wait" /\ closed[s]
    /\ worker' = [worker EXCEPT ![s] = "done"]
    /\ UNCHANGED <<tableVars, timerVars, queue, closed, reply, hand, sent>>

WorkerStep(s) ==
    \/ WorkerTakes(s) \/ WorkerReleased(s) \/ WorkerLooks(s)
    \/ SendEventDelivery(s) \/ WorkerEnds(s)

-----------------------------------------------------------------------------
EventingInit ==
    /\ subscribers = {}
    /\ seq = [s \in Sids |-> 0] /\ left = [s \in Sids |-> 0]
    /\ timer = [s \in Sids |-> FALSE] /\ late = [s \in Sids |-> 0]
    /\ queue = [s \in Sids |-> <<>>] /\ closed = [s \in Sids |-> FALSE]
    /\ reply = [s \in Sids |-> "none"]
    /\ worker = [s \in Sids |-> "none"] /\ hand = [s \in Sids |-> NoDelivery]
    /\ sent = [s \in Sids |-> 0]

\* What goes on whatever the services have to say.
SubscriptionStep(s) ==
    \/ Answer(s) \/ Release(s) \/ Renew(s) \/ Unsubscribe(s)
    \/ TimerFires(s) \/ ExpireSubscriber(s) \/ WorkerStep(s)

EventingNext ==
    \/ \E s \in Sids : SubscriptionStep(s) \/ \E b \in Bodies : Subscribe(s, b)
    \/ \E service \in Services, b \in Bodies : NotifySubscribers(service, b)
    \/ Tick
    \/ CloseAllSubscribers

EventingSpec == EventingInit /\ [][EventingNext]_eventingVars

\* Time passes, a timer that is due fires, and goroutines that can run do.
EventingFairness ==
    /\ WF_eventingVars(Tick)
    /\ \A s \in Sids : /\ WF_eventingVars(TimerFires(s))
                       /\ WF_eventingVars(ExpireSubscriber(s))
                       /\ WF_eventingVars(Answer(s) \/ Release(s))
                       /\ WF_eventingVars(WorkerStep(s))

EventingFairSpec == EventingSpec /\ EventingFairness

-----------------------------------------------------------------------------
EventingTypeOK ==
    /\ subscribers \subseteq Sids
    /\ seq \in [Sids -> 0..MaxSeq]
    /\ left \in [Sids -> 0..Period]
    /\ timer \in [Sids -> BOOLEAN]
    /\ late \in [Sids -> 0..MaxLate]
    /\ queue \in [Sids -> Seq(Delivery)]
    /\ closed \in [Sids -> BOOLEAN]
    /\ reply \in [Sids -> {"none", "pending", "flushed", "released"}]
    /\ worker \in [Sids -> {"none", "wait", "gate", "look", "send", "done"}]
    /\ hand \in [Sids -> Delivery]
    /\ sent \in [Sids -> Nat]

Busy(s) == worker[s] \in {"gate", "look", "send"}

(* Events leave in the order of their SEQ, each once and none skipped: what  *)
(* the worker has in hand is the number it has not sent yet, and the queue    *)
(* goes on from there to the last number given out.                           *)
SeqInOrder ==
    \A s \in Sids :
        LET first == sent[s] + (IF Busy(s) THEN 1 ELSE 0) IN
        /\ Busy(s) => hand[s].seq = sent[s]
        /\ \A i \in 1..Len(queue[s]) : queue[s][i].seq = first + i - 1
        /\ s \in subscribers => first + Len(queue[s]) = seq[s] + 1

(* The initial event, and so every event, waits until the control point has *)
(* the answer that tells it the SID of the subscription.                     *)
NothingBeforeAnswer ==
    \A s \in Sids : sent[s] > 0 \/ worker[s] = "send" => reply[s] = "released"

(* Expiry takes only subscriptions whose time is up: a renewal wins against  *)
(* a timer that fired before it and whose callback comes after it.           *)
RenewalWins ==
    [][ \A s \in Sids :
          s \in subscribers /\ late'[s] < late[s] /\ left[s] > 0 => s \in subscribers' ]_eventingVars

(* Every subscription is watched: its timer is set, or a callback that will  *)
(* look at it is under way.                                                   *)
ExpiryWatched == \A s \in subscribers : timer[s] \/ late[s] > 0

(* A subscription as its control point sees it: see EventChannel.  What is   *)
(* due to a subscriber are the numbers given out, and once it is closed only *)
(* the one that is being sent already.                                       *)
Channel == INSTANCE EventChannel WITH
    open <- subscribers,
    told <- {s \in Sids : reply[s] = "released"},
    over <- {s \in Sids : closed[s]},
    due <- [s \in Sids |->
              CASE closed[s]              -> sent[s] + (IF worker[s] = "send" THEN 1 ELSE 0)
                [] s \in subscribers      -> seq[s] + 1
                [] OTHER                  -> 0]

(* Timers, workers and queues together keep the promise of EventChannel.     *)
ImplementsEventChannel == Channel!ChannelSpec

(* A subscription nobody renews ends.                                        *)
AbandonedExpire ==
    \A s \in Sids : s \in subscribers ~> s \notin subscribers \/ left[s] = Period

(* The worker of a subscription that ended ends too, so that neither its     *)
(* goroutine nor its queue is left behind.                                   *)
WorkersEnd == \A s \in Sids : closed[s] ~> worker[s] = "done"
===============================================================================
