---------------------------- MODULE Eventing_proofs ----------------------------
(***************************************************************************)
(* Theorems about event subscriptions, for any number of subscriptions and *)
(* services, any subscription period and any bound on events and timers.   *)
(***************************************************************************)
EXTENDS Eventing, SequenceTheorems, TLAPS

LEMMA NoDeliveryType == NoDelivery \in Delivery
<1>1. \E b \in Bodies : TRUE
  BY EventingAssumption
<1> QED  BY <1>1 DEF NoDelivery, Delivery

-----------------------------------------------------------------------------
(* Types *)

(* Closing subscribers, and setting a timer, keep the types.                *)
LEMMA CloseAllType ==
    ASSUME EventingTypeOK, NEW gone, CloseAll(gone)
    PROVE  /\ subscribers' \subseteq Sids
           /\ closed' \in [Sids -> BOOLEAN]
           /\ timer' \in [Sids -> BOOLEAN]
<1>1. subscribers' \subseteq Sids
  BY DEF EventingTypeOK, CloseAll
<1>2. closed' \in [Sids -> BOOLEAN]
  <2>1. \A s \in Sids : (closed[s] \/ s \in gone) \in BOOLEAN
    BY Zenon DEF EventingTypeOK
  <2> QED  BY <2>1, Zenon DEF CloseAll
<1>3. timer' \in [Sids -> BOOLEAN]
  <2>1. \A s \in Sids : (timer[s] /\ s \notin gone) \in BOOLEAN
    BY Zenon DEF EventingTypeOK
  <2> QED  BY <2>1, Zenon DEF CloseAll
<1> QED  BY <1>1, <1>2, <1>3

LEMMA EmptiedType ==
    ASSUME EventingTypeOK, NEW gone
    PROVE  Emptied(gone) \in [Sids -> Seq(Delivery)]
<1>1. <<>> \in Seq(Delivery)
  BY EmptySeq
<1> QED  BY <1>1 DEF EventingTypeOK, Emptied

(* Queues stay queues of deliveries when an event is appended.              *)
LEMMA AppendedType ==
    ASSUME EventingTypeOK, NEW to, NEW body \in Bodies
    PROVE  Appended(to, body) \in [Sids -> Seq(Delivery)]
<1>1. \A s \in Sids : [seq |-> seq[s] + 1, body |-> body] \in Delivery
  BY EventingAssumption DEF EventingTypeOK, Delivery
<1>2. \A s \in Sids : Append(queue[s], [seq |-> seq[s] + 1, body |-> body]) \in Seq(Delivery)
  BY <1>1, AppendProperties DEF EventingTypeOK
<1> QED  BY <1>2 DEF EventingTypeOK, Appended

(* Each step of the subscriptions keeps the types.                          *)
LEMMA EventingTypeStep ==
    ASSUME EventingTypeOK, [EventingNext]_eventingVars
    PROVE  EventingTypeOK'
<1> USE EventingAssumption
<1>1. CASE UNCHANGED eventingVars
  BY <1>1 DEF EventingTypeOK, eventingVars, tableVars, timerVars, workerVars
<1>2. ASSUME NEW s \in Sids, NEW b \in Bodies, Subscribe(s, b)
      PROVE  EventingTypeOK'
  <2>1. <<[seq |-> 0, body |-> b]>> \in Seq(Delivery)
    BY DEF Delivery
  <2>2. Period \in 0..Period
    OBVIOUS
  <2> QED  BY <1>2, <2>1, <2>2 DEF EventingTypeOK, Subscribe, ScheduleExpiry
<1>3. ASSUME NEW s \in Sids, Answer(s) \/ Release(s)
      PROVE  EventingTypeOK'
  BY <1>3 DEF EventingTypeOK, Answer, Release, tableVars, timerVars, workerVars
<1>4. ASSUME NEW s \in Sids, Renew(s)
      PROVE  EventingTypeOK'
  BY <1>4 DEF EventingTypeOK, Renew, ScheduleExpiry, workerVars
<1>5. ASSUME NEW s \in Sids, Unsubscribe(s)
      PROVE  EventingTypeOK'
  BY <1>5, CloseAllType, EmptiedType DEF EventingTypeOK, Unsubscribe, workerVars
<1>6. ASSUME NEW s \in Sids, TimerFires(s)
      PROVE  EventingTypeOK'
  BY <1>6 DEF EventingTypeOK, TimerFires, tableVars, workerVars
<1>7. ASSUME NEW s \in Sids, ExpireSubscriber(s)
      PROVE  EventingTypeOK'
  <2>1. late' \in [Sids -> 0..MaxLate]
    BY <1>7 DEF EventingTypeOK, ExpireSubscriber
  <2>2. CASE UNCHANGED <<subscribers, timer, queue, closed>>
    BY <1>7, <2>1, <2>2 DEF EventingTypeOK, ExpireSubscriber, workerVars
  <2>3. CASE ScheduleExpiry(s) /\ UNCHANGED <<subscribers, queue, closed>>
    BY <1>7, <2>1, <2>3 DEF EventingTypeOK, ExpireSubscriber, ScheduleExpiry, workerVars
  <2>4. CASE CloseAll({s}) /\ queue' = Emptied({s})
    BY <1>7, <2>1, <2>4, CloseAllType, EmptiedType DEF EventingTypeOK, ExpireSubscriber, workerVars
  <2> QED  BY <1>7, <2>2, <2>3, <2>4 DEF ExpireSubscriber
<1>8. ASSUME NEW s \in Sids, WorkerStep(s)
      PROVE  EventingTypeOK'
  <2>1. CASE WorkerTakes(s)
    <3>1. Head(queue[s]) \in Delivery /\ Tail(queue[s]) \in Seq(Delivery)
      BY <2>1, HeadTailProperties DEF EventingTypeOK, WorkerTakes
    <3> QED  BY <2>1, <3>1 DEF EventingTypeOK, WorkerTakes, tableVars, timerVars
  <2>2. CASE WorkerReleased(s) \/ WorkerLooks(s) \/ WorkerEnds(s)
    BY <2>2 DEF EventingTypeOK, WorkerReleased, WorkerLooks, WorkerEnds, tableVars, timerVars
  <2>3. CASE SendEventDelivery(s)
    BY <2>3 DEF EventingTypeOK, SendEventDelivery, tableVars, timerVars
  <2> QED  BY <1>8, <2>1, <2>2, <2>3 DEF WorkerStep
<1>9. ASSUME NEW service \in Services, NEW b \in Bodies, NotifySubscribers(service, b)
      PROVE  EventingTypeOK'
  <2>1. PICK gone \in SUBSET Overdue :
           LET to == {s \in subscribers \ gone : ServiceOf[s] = service} IN
           /\ \A s \in to : seq[s] < MaxSeq
           /\ CloseAll(gone)
           /\ seq' = Advanced(to)
           /\ queue' = [s \in Sids |-> IF s \in gone THEN <<>> ELSE Appended(to, b)[s]]
           /\ UNCHANGED <<left, late, reply, workerVars>>
    BY <1>9 DEF NotifySubscribers
  <2> DEFINE to == {s \in subscribers \ gone : ServiceOf[s] = service}
  <2>2. seq' \in [Sids -> 0..MaxSeq]
    BY <2>1 DEF EventingTypeOK, Advanced
  <2>3. Appended(to, b) \in [Sids -> Seq(Delivery)] /\ <<>> \in Seq(Delivery)
    BY AppendedType, EmptySeq
  <2>4. queue' \in [Sids -> Seq(Delivery)]
    BY <2>1, <2>3
  <2> QED  BY <2>1, <2>2, <2>4, CloseAllType DEF EventingTypeOK, workerVars
<1>10. CASE Tick
  <2>1. \A s \in Sids : left[s] > 0 => left[s] - 1 \in 0..Period
    BY DEF EventingTypeOK
  <2>2. left' \in [Sids -> 0..Period]
    BY <1>10, <2>1 DEF EventingTypeOK, Tick
  <2> QED  BY <1>10, <2>2 DEF EventingTypeOK, Tick, timerVars, workerVars
<1>11. CASE CloseAllSubscribers
  BY <1>11, CloseAllType, EmptiedType DEF EventingTypeOK, CloseAllSubscribers, workerVars
<1> QED
  BY <1>1, <1>2, <1>3, <1>4, <1>5, <1>6, <1>7, <1>8, <1>9, <1>10, <1>11
     DEF EventingNext, SubscriptionStep

(* Subscriptions, queues, timers and workers keep their types.              *)
THEOREM EventingTypeCorrect == EventingSpec => []EventingTypeOK
<1>1. EventingInit => EventingTypeOK
  BY EventingAssumption, NoDeliveryType, EmptySeq DEF EventingInit, EventingTypeOK
<1> QED  BY <1>1, EventingTypeStep, PTL DEF EventingSpec

-----------------------------------------------------------------------------
(* The inductive invariant, by subscription.                                *)

\* From unused to open to closed: the worker is born with the subscription, and a closed
\* subscription has nothing queued.
Life(t) ==
    /\ reply[t] = "none" =>
          t \notin subscribers /\ closed[t] = FALSE /\ worker[t] = "none" /\ seq[t] = 0 /\ sent[t] = 0
    /\ reply[t] # "none" => worker[t] # "none" /\ (t \in subscribers \/ closed[t] = TRUE)
    /\ t \in subscribers => closed[t] = FALSE
    /\ closed[t] = TRUE => queue[t] = <<>>

\* SeqInOrder of one subscription.
First(t) == sent[t] + (IF Busy(t) THEN 1 ELSE 0)
InOrder(t) ==
    /\ Busy(t) => hand[t].seq = sent[t]
    /\ \A i \in 1..Len(queue[t]) : queue[t][i].seq = First(t) + i - 1
    /\ t \in subscribers => First(t) + Len(queue[t]) = seq[t] + 1

\* NothingBeforeAnswer of one subscription: the gate is behind a worker that has looked.
Answered(t) ==
    (sent[t] > 0 \/ worker[t] \in {"look", "send"}) => reply[t] = "released"

\* ExpiryWatched of one subscription.
Watched(t) == t \in subscribers => timer[t] = TRUE \/ late[t] > 0

Good(t) == Life(t) /\ InOrder(t) /\ Answered(t) /\ Watched(t)

EventingInv == EventingTypeOK /\ \A t \in Sids : Good(t)

\* A step that is not about t.
Same(t) ==
    /\ t \in subscribers' <=> t \in subscribers
    /\ seq'[t] = seq[t] /\ late'[t] = late[t] /\ queue'[t] = queue[t]
    /\ closed'[t] = closed[t] /\ timer'[t] = timer[t]
    /\ reply'[t] = reply[t] /\ worker'[t] = worker[t]
    /\ hand'[t] = hand[t] /\ sent'[t] = sent[t]

LEMMA SameGood ==
    ASSUME NEW t, Good(t), Same(t)
    PROVE  Good(t)'
BY DEF Good, Life, InOrder, First, Answered, Watched, Same, Busy

\* A step of the subscription s leaves the others alone.
LEMMA OthersSame ==
    ASSUME EventingTypeOK, NEW s \in Sids, NEW t \in Sids, t # s,
           SubscriptionStep(s) \/ \E b \in Bodies : Subscribe(s, b)
    PROVE  Same(t)
<1>1. ASSUME NEW b \in Bodies, Subscribe(s, b)
      PROVE  Same(t)
  BY <1>1 DEF Subscribe, ScheduleExpiry, Same, EventingTypeOK
<1>2. CASE Answer(s) \/ Release(s)
  BY <1>2 DEF Answer, Release, Same, EventingTypeOK, tableVars, timerVars, workerVars
<1>3. CASE Renew(s)
  BY <1>3 DEF Renew, ScheduleExpiry, Same, EventingTypeOK, workerVars
<1>4. ASSUME CloseAll({s}), queue' = Emptied({s})
      PROVE  /\ t \in subscribers' <=> t \in subscribers
             /\ queue'[t] = queue[t] /\ closed'[t] = closed[t] /\ timer'[t] = timer[t]
  <2>1. t \notin {s}
    OBVIOUS
  <2>2. closed'[t] = (closed[t] \/ t \in {s}) /\ timer'[t] = (timer[t] /\ t \notin {s})
    BY <1>4, Zenon DEF CloseAll
  <2>3. closed[t] \in BOOLEAN /\ timer[t] \in BOOLEAN
    BY DEF EventingTypeOK
  <2>4. closed'[t] = closed[t] /\ timer'[t] = timer[t]
    BY <2>1, <2>2, <2>3, Zenon
  <2> QED  BY <1>4, <2>4 DEF CloseAll, Emptied
<1>5. CASE Unsubscribe(s)
  BY <1>5, <1>4 DEF Unsubscribe, Same, workerVars
<1>6. CASE TimerFires(s)
  BY <1>6 DEF TimerFires, Same, EventingTypeOK, tableVars, workerVars
<1>7. CASE ExpireSubscriber(s)
  <2>1. CASE CloseAll({s}) /\ queue' = Emptied({s})
    BY <1>7, <1>4, <2>1 DEF ExpireSubscriber, Same, EventingTypeOK, workerVars
  <2> QED
    BY <1>7, <2>1 DEF ExpireSubscriber, ScheduleExpiry, Same, EventingTypeOK, workerVars
<1>8. CASE WorkerStep(s)
  BY <1>8 DEF WorkerStep, WorkerTakes, WorkerReleased, WorkerLooks, SendEventDelivery, WorkerEnds,
              Same, EventingTypeOK, tableVars, timerVars
<1> QED  BY <1>1, <1>2, <1>3, <1>5, <1>6, <1>7, <1>8 DEF SubscriptionStep

\* What closing some of the subscribers does to any of them.
LEMMA ClosedGood ==
    ASSUME EventingInv, NEW gone \in SUBSET subscribers, NEW t \in gone,
           CloseAll(gone), queue'[t] = <<>>,
           seq'[t] = seq[t], reply'[t] = reply[t],
           UNCHANGED workerVars
    PROVE  Good(t)'
<1>1. t \in Sids /\ Good(t)
  BY DEF EventingInv, EventingTypeOK
<1>2. t \notin subscribers' /\ closed'[t] = TRUE
  BY <1>1 DEF CloseAll
<1>3. Len(queue'[t]) = 0
  BY EmptySeq
<1>4. Life(t)'
  BY <1>1, <1>2 DEF Good, Life, workerVars
<1>5. InOrder(t)'
  BY <1>1, <1>2, <1>3 DEF Good, InOrder, First, Busy, workerVars
<1>6. Answered(t)' /\ Watched(t)'
  BY <1>1, <1>2 DEF Good, Answered, Watched, workerVars
<1> QED  BY <1>4, <1>5, <1>6 DEF Good

\* The other subscribers do not notice.
LEMMA SparedByClose ==
    ASSUME EventingTypeOK, NEW gone, NEW t \in Sids, t \notin gone, CloseAll(gone)
    PROVE  /\ t \in subscribers' <=> t \in subscribers
           /\ closed'[t] = closed[t] /\ timer'[t] = timer[t]
<1>1. closed'[t] = (closed[t] \/ t \in gone) /\ timer'[t] = (timer[t] /\ t \notin gone)
  BY Zenon DEF CloseAll
<1>2. closed[t] \in BOOLEAN /\ timer[t] \in BOOLEAN
  BY DEF EventingTypeOK
<1>3. closed'[t] = closed[t] /\ timer'[t] = timer[t]
  BY <1>1, <1>2, Zenon
<1> QED  BY <1>3 DEF CloseAll

(* What the worker does keeps the invariant of its own subscription: the    *)
(* interesting step is the one that takes a delivery, whose number is the    *)
(* next to be sent.                                                          *)
LEMMA WorkerGood ==
    ASSUME EventingInv, NEW s \in Sids, WorkerStep(s)
    PROVE  Good(s)'
<1> USE DEF EventingInv, EventingTypeOK
<1>1. Good(s)
  OBVIOUS
<1>2. CASE WorkerTakes(s)
  <2>1. /\ queue[s] # <<>> /\ queue[s] \in Seq(Delivery)
        /\ queue'[s] = Tail(queue[s]) /\ hand'[s] = Head(queue[s])
        /\ worker[s] = "wait" /\ worker'[s] \in {"gate", "look"}
        /\ worker'[s] = "look" => Head(queue[s]).seq # 0
        /\ UNCHANGED <<tableVars, timerVars, closed, reply, sent>>
    BY <1>2 DEF WorkerTakes, Gated
  <2>2. /\ Len(queue[s]) \in Nat \ {0}
        /\ Head(queue[s]) = queue[s][1]
        /\ Len(queue'[s]) = Len(queue[s]) - 1
        /\ \A i \in 1..Len(queue'[s]) : queue'[s][i] = queue[s][i + 1]
    BY <2>1, HeadTailProperties, EmptySeq
  <2>3. /\ queue[s][1].seq = sent[s]
        /\ \A i \in 1..Len(queue'[s]) : queue'[s][i].seq = sent[s] + i
        /\ s \in subscribers => Len(queue'[s]) = seq[s] - sent[s]
    BY <1>1, <2>1, <2>2 DEF Good, InOrder, First, Busy
  <2>4. InOrder(s)'
    BY <2>1, <2>2, <2>3 DEF InOrder, First, Busy, tableVars
  <2>5. Life(s)'
    BY <1>1, <1>2, <2>1 DEF Good, Life, tableVars, WorkerTakes
  <2>6. Answered(s)'
    BY <1>1, <2>1, <2>2, <2>3 DEF Good, Answered
  <2>7. Watched(s)'
    BY <1>1, <2>1 DEF Good, Watched, tableVars, timerVars
  <2> QED  BY <2>4, <2>5, <2>6, <2>7 DEF Good
<1>3. CASE WorkerReleased(s)
  BY <1>1, <1>3 DEF WorkerReleased, tableVars, timerVars, Good, Life, InOrder, First, Busy, Answered, Watched
<1>4. CASE WorkerLooks(s)
  <2>1. UNCHANGED <<tableVars, timerVars, queue, closed, reply, hand, sent>>
    BY <1>4 DEF WorkerLooks
  <2>2. CASE closed[s] = TRUE
    <3>1. queue[s] = <<>> /\ Len(queue[s]) = 0 /\ s \notin subscribers
      BY <1>1, <2>2, EmptySeq DEF Good, Life
    <3> QED
      BY <1>1, <1>4, <2>1, <2>2, <3>1
         DEF WorkerLooks, tableVars, timerVars, Good, Life, InOrder, First, Busy, Answered, Watched
  <2>3. CASE closed[s] = FALSE
    BY <1>1, <1>4, <2>1, <2>3
       DEF WorkerLooks, tableVars, timerVars, Good, Life, InOrder, First, Busy, Answered, Watched
  <2> QED  BY <2>2, <2>3
<1>5. CASE SendEventDelivery(s)
  <2>1. /\ worker[s] = "send" /\ worker'[s] = "wait" /\ sent'[s] = sent[s] + 1
        /\ UNCHANGED <<tableVars, timerVars, queue, closed, reply, hand>>
    BY <1>5 DEF SendEventDelivery
  <2>2. First(s)' = First(s)
    BY <2>1 DEF First, Busy
  <2> QED
    BY <1>1, <2>1, <2>2 DEF tableVars, timerVars, Good, Life, InOrder, Busy, Answered, Watched
<1>6. CASE WorkerEnds(s)
  BY <1>1, <1>6 DEF WorkerEnds, tableVars, timerVars, Good, Life, InOrder, First, Busy, Answered, Watched
<1> QED  BY <1>2, <1>3, <1>4, <1>5, <1>6 DEF WorkerStep

(* An event has the next number of every subscriber it goes to, and comes   *)
(* after what is queued already.                                             *)
LEMMA NotifyGood ==
    ASSUME EventingInv, NEW service \in Services, NEW b \in Bodies,
           NotifySubscribers(service, b), NEW t \in Sids
    PROVE  Good(t)'
<1>1. PICK gone \in SUBSET Overdue :
         LET to == {s \in subscribers \ gone : ServiceOf[s] = service} IN
         /\ \A s \in to : seq[s] < MaxSeq
         /\ CloseAll(gone)
         /\ seq' = Advanced(to)
         /\ queue' = [s \in Sids |-> IF s \in gone THEN <<>> ELSE Appended(to, b)[s]]
         /\ UNCHANGED <<left, late, reply, workerVars>>
  BY DEF NotifySubscribers
<1> DEFINE to == {s \in subscribers \ gone : ServiceOf[s] = service}
<1>2. EventingTypeOK /\ Good(t) /\ gone \subseteq subscribers
  BY DEF EventingInv, Overdue
<1>3. CASE t \in gone
  BY <1>1, <1>2, <1>3, ClosedGood DEF Advanced
<1>4. CASE t \notin gone /\ t \notin to
  <2>1. seq'[t] = seq[t] /\ queue'[t] = queue[t]
    BY <1>1, <1>4 DEF Advanced, Appended
  <2>2. Same(t)
    BY <1>1, <1>2, <1>4, <2>1, SparedByClose DEF Same, workerVars
  <2> QED  BY <1>2, <2>2, SameGood
<1>5. CASE t \in to
  <2> DEFINE ed == [seq |-> seq[t] + 1, body |-> b]
  <2>1. t \notin gone /\ t \in subscribers
    BY <1>5
  <2>2. seq'[t] = seq[t] + 1 /\ queue'[t] = Append(queue[t], ed)
    BY <1>1, <1>5, <2>1 DEF Advanced, Appended
  <2>3. queue[t] \in Seq(Delivery) /\ ed \in Delivery /\ seq[t] \in Nat /\ sent[t] \in Nat
    <3>1. queue[t] \in Seq(Delivery) /\ seq[t] \in 0..MaxSeq /\ sent[t] \in Nat
      BY <1>2 DEF EventingTypeOK
    <3>2. seq[t] \in Nat
      BY <3>1, EventingAssumption
    <3> QED  BY <3>1, <3>2 DEF Delivery
  <2>4. /\ Len(queue'[t]) = Len(queue[t]) + 1 /\ Len(queue[t]) \in Nat
        /\ \A i \in 1..Len(queue[t]) : queue'[t][i] = queue[t][i]
        /\ queue'[t][Len(queue[t]) + 1] = ed
    BY <2>2, <2>3, AppendProperties, LenProperties
  <2>5. t \in subscribers' /\ closed'[t] = closed[t] /\ timer'[t] = timer[t]
    BY <1>1, <1>2, <2>1, SparedByClose
  <2>6. First(t)' = First(t) /\ First(t) \in Nat
    BY <1>1, <2>3 DEF First, Busy, workerVars
  <2>7. InOrder(t)'
    <3>1. First(t) + Len(queue[t]) = seq[t] + 1
      BY <1>2, <2>1 DEF Good, InOrder
    <3>2. \A i \in 1..Len(queue[t]) : queue[t][i].seq = First(t) + i - 1
      BY <1>2 DEF Good, InOrder
    <3>3. \A i \in 1..(Len(queue[t]) + 1) : queue'[t][i].seq = First(t) + i - 1
      <4>1. SUFFICES ASSUME NEW i \in 1..(Len(queue[t]) + 1)
                     PROVE  queue'[t][i].seq = First(t) + i - 1
        OBVIOUS
      <4>2. CASE i \in 1..Len(queue[t])
        BY <2>4, <3>2, <4>2
      <4>3. CASE i = Len(queue[t]) + 1
        <5>1. queue'[t][i].seq = seq[t] + 1
          BY <2>4, <4>3
        <5> QED  BY <2>3, <2>4, <2>6, <3>1, <4>3, <5>1
      <4> QED  BY <2>4, <4>2, <4>3
    <3>4. First(t) + Len(queue'[t]) = seq'[t] + 1
      BY <2>2, <2>3, <2>4, <2>6, <3>1
    <3>5. Busy(t)' => hand'[t].seq = sent'[t]
      BY <1>1, <1>2 DEF Good, InOrder, Busy, workerVars
    <3> QED  BY <2>4, <2>6, <3>3, <3>4, <3>5 DEF InOrder
  <2>8. Life(t)' /\ Answered(t)' /\ Watched(t)'
    BY <1>1, <1>2, <2>1, <2>5 DEF Good, Life, Answered, Watched, workerVars
  <2> QED  BY <2>7, <2>8 DEF Good
<1> QED  BY <1>3, <1>4, <1>5

(* Every step keeps the invariant: a step of one subscription by its own    *)
(* part, an event by its number, closing and time by what they leave alone.  *)
LEMMA EventingInvStep ==
    ASSUME EventingInv, [EventingNext]_eventingVars
    PROVE  EventingInv'
<1> USE EventingAssumption
<1>1. EventingTypeOK /\ EventingTypeOK' /\ \A t \in Sids : Good(t)
  BY EventingTypeStep DEF EventingInv
<1>2. SUFFICES ASSUME NEW t \in Sids
               PROVE  Good(t)'
  BY <1>1 DEF EventingInv
<1>3. CASE UNCHANGED eventingVars
  <2>1. Same(t)
    BY <1>3 DEF Same, eventingVars, tableVars, timerVars, workerVars
  <2> QED  BY <1>1, <2>1, SameGood
<1>4. ASSUME NEW s \in Sids, SubscriptionStep(s) \/ \E b \in Bodies : Subscribe(s, b)
      PROVE  Good(t)'
  <2>1. CASE t # s
    BY <1>1, <1>4, <2>1, OthersSame, SameGood
  <2>2. CASE t = s
    <3> SUFFICES Good(s)'
      BY <2>2
    <3>1. ASSUME NEW b \in Bodies, Subscribe(s, b)
          PROVE  Good(s)'
      <4>1. /\ Life(s) /\ reply[s] = "none" /\ reply'[s] = "pending" /\ worker'[s] = "wait"
            /\ subscribers' = subscribers \cup {s} /\ timer'[s] = TRUE
            /\ queue'[s] = <<[seq |-> 0, body |-> b]>>
            /\ UNCHANGED <<seq, closed, sent>>
        BY <1>1, <3>1 DEF Subscribe, ScheduleExpiry, EventingTypeOK, Good
      <4>2. seq[s] = 0 /\ sent[s] = 0 /\ closed[s] = FALSE
        BY <4>1 DEF Life
      <4>3. Life(s)' /\ Answered(s)' /\ Watched(s)'
        BY <4>1, <4>2 DEF Life, Answered, Watched
      <4>4. InOrder(s)'
        BY <4>1, <4>2 DEF InOrder, First, Busy
      <4> QED  BY <4>3, <4>4 DEF Good
    <3>2. CASE Answer(s) \/ Release(s)
      <4>1. /\ reply[s] \in {"pending", "flushed"} /\ reply'[s] \in {"flushed", "released"}
            /\ UNCHANGED <<tableVars, timerVars, queue, closed, workerVars>>
        BY <1>1, <3>2 DEF Answer, Release, EventingTypeOK
      <4>2. Life(s)' /\ Answered(s)' /\ Watched(s)'
        BY <1>1, <4>1 DEF Good, Life, Answered, Watched, tableVars, timerVars, workerVars
      <4>3. InOrder(s)'
        BY <1>1, <4>1 DEF Good, InOrder, First, Busy, tableVars, workerVars
      <4> QED  BY <4>2, <4>3 DEF Good
    <3>3. CASE Renew(s)
      BY <1>1, <3>3 DEF Renew, ScheduleExpiry, Good, Life, InOrder, First, Busy, Answered, Watched,
                        EventingTypeOK, workerVars
    <3>4. CASE Unsubscribe(s)
      <4>1. /\ {s} \in SUBSET subscribers /\ s \in {s} /\ CloseAll({s}) /\ queue'[s] = <<>>
            /\ seq'[s] = seq[s] /\ reply'[s] = reply[s] /\ UNCHANGED workerVars
        BY <3>4 DEF Unsubscribe, Emptied
      <4> QED  BY <4>1, ClosedGood
    <3>5. CASE TimerFires(s)
      BY <1>1, <3>5 DEF TimerFires, Good, Life, InOrder, First, Busy, Answered, Watched,
                        EventingTypeOK, tableVars, workerVars
    <3>6. CASE ExpireSubscriber(s)
      <4>1. CASE s \notin subscribers /\ UNCHANGED <<subscribers, timer, queue, closed>>
        BY <1>1, <3>6, <4>1 DEF ExpireSubscriber, Good, Life, InOrder, First, Busy, Answered, Watched,
                                EventingTypeOK, workerVars
      <4>2. CASE ScheduleExpiry(s) /\ UNCHANGED <<subscribers, queue, closed>>
        <5>1. timer'[s] = TRUE /\ UNCHANGED <<subscribers, queue, closed, seq, reply, workerVars>>
          BY <1>1, <3>6, <4>2 DEF ScheduleExpiry, ExpireSubscriber, EventingTypeOK
        <5>2. Life(s)' /\ Answered(s)' /\ Watched(s)'
          BY <1>1, <5>1 DEF Good, Life, Answered, Watched, workerVars
        <5>3. InOrder(s)'
          BY <1>1, <5>1 DEF Good, InOrder, First, Busy, workerVars
        <5> QED  BY <5>2, <5>3 DEF Good
      <4>3. CASE s \in subscribers /\ CloseAll({s}) /\ queue' = Emptied({s})
        <5>1. /\ {s} \in SUBSET subscribers /\ s \in {s} /\ queue'[s] = <<>>
              /\ seq'[s] = seq[s] /\ reply'[s] = reply[s] /\ UNCHANGED workerVars
          BY <3>6, <4>3 DEF ExpireSubscriber, Emptied
        <5> QED  BY <4>3, <5>1, ClosedGood
      <4> QED  BY <3>6, <4>1, <4>2, <4>3 DEF ExpireSubscriber
    <3>7. CASE WorkerStep(s)
      BY <3>7, WorkerGood
    <3> QED  BY <1>4, <3>1, <3>2, <3>3, <3>4, <3>5, <3>6, <3>7 DEF SubscriptionStep
  <2> QED  BY <2>1, <2>2
<1>5. ASSUME NEW service \in Services, NEW b \in Bodies, NotifySubscribers(service, b)
      PROVE  Good(t)'
  BY <1>5, NotifyGood
<1>6. CASE Tick
  <2>1. Same(t)
    BY <1>6 DEF Tick, Same, timerVars, workerVars
  <2> QED  BY <1>1, <2>1, SameGood
<1>7. CASE CloseAllSubscribers
  <2>1. CASE t \in subscribers
    <3>1. queue'[t] = <<>>
      BY <1>7, <2>1 DEF CloseAllSubscribers, Emptied
    <3> QED  BY <1>7, <2>1, <3>1, ClosedGood DEF CloseAllSubscribers
  <2>2. CASE t \notin subscribers
    <3>1. queue'[t] = queue[t]
      BY <1>1, <1>7, <2>2 DEF CloseAllSubscribers, Emptied, EventingTypeOK
    <3>2. Same(t)
      BY <1>1, <1>7, <2>2, <3>1, SparedByClose DEF CloseAllSubscribers, Same, workerVars
    <3> QED  BY <1>1, <3>2, SameGood
  <2> QED  BY <2>1, <2>2
<1> QED  BY <1>3, <1>4, <1>5, <1>6, <1>7 DEF EventingNext

(* The invariant holds of every subscription, always.                       *)
THEOREM EventingInvariant == EventingSpec => []EventingInv
<1>1. EventingInit => EventingInv
  <2>1. EventingInit => EventingTypeOK
    BY EventingAssumption, NoDeliveryType, EmptySeq DEF EventingInit, EventingTypeOK
  <2>2. ASSUME EventingInit, NEW t \in Sids
        PROVE  Good(t)
    <3>1. Len(<<>>) = 0
      BY EmptySeq
    <3> QED  BY <2>2, <3>1 DEF EventingInit, Good, Life, InOrder, First, Busy, Answered, Watched
  <2> QED  BY <2>1, <2>2 DEF EventingInv
<1> QED  BY <1>1, EventingInvStep, PTL DEF EventingSpec

(* Events leave in the order of their SEQ, each once and none skipped.      *)
THEOREM SeqInOrderTheorem == EventingSpec => []SeqInOrder
<1>1. EventingInv => SeqInOrder
  BY DEF EventingInv, Good, InOrder, First, SeqInOrder
<1> QED  BY <1>1, EventingInvariant, PTL

(* No event is sent before the answer to SUBSCRIBE.                         *)
THEOREM NothingBeforeAnswerTheorem == EventingSpec => []NothingBeforeAnswer
<1>1. EventingInv => NothingBeforeAnswer
  BY DEF EventingInv, Good, Answered, NothingBeforeAnswer
<1> QED  BY <1>1, EventingInvariant, PTL

(* Every subscription has a timer, or a callback that will look at it.      *)
THEOREM ExpiryWatchedTheorem == EventingSpec => []ExpiryWatched
<1>1. EventingInv => ExpiryWatched
  <2>1. ASSUME EventingInv, NEW s \in subscribers
        PROVE  timer[s] \/ late[s] > 0
    <3>1. timer[s] = TRUE \/ late[s] > 0
      BY <2>1 DEF EventingInv, EventingTypeOK, Good, Watched
    <3> QED  BY <3>1, Zenon
  <2> QED  BY <2>1 DEF ExpiryWatched
<1> QED  BY <1>1, EventingInvariant, PTL

\* Only timers and their callbacks change how many callbacks wait.
LEMMA LateChanges ==
    ASSUME EventingNext, late' # late
    PROVE  \E r \in Sids : ExpireSubscriber(r) \/ TimerFires(r)
BY DEF EventingNext, SubscriptionStep, WorkerStep, Subscribe, Answer, Release, Renew, Unsubscribe,
       NotifySubscribers, Tick, CloseAllSubscribers, WorkerTakes, WorkerReleased, WorkerLooks,
       SendEventDelivery, WorkerEnds, timerVars

(* A renewal wins against a timer that fired before it.                     *)
THEOREM RenewalWinsTheorem == EventingSpec => RenewalWins
<1> DEFINE Step == \A s \in Sids :
             s \in subscribers /\ late'[s] < late[s] /\ left[s] > 0 => s \in subscribers'
<1>1. ASSUME EventingTypeOK, [EventingNext]_eventingVars
      PROVE  [Step]_eventingVars
  <2>1. SUFFICES ASSUME EventingNext, NEW s \in Sids,
                        s \in subscribers, late'[s] < late[s], left[s] > 0
                 PROVE  s \in subscribers'
    BY <1>1
  <2>2. PICK r \in Sids : ExpireSubscriber(r) \/ TimerFires(r)
    <3>1. late' # late
      BY <1>1, <2>1 DEF EventingTypeOK
    <3> QED  BY <2>1, <3>1, LateChanges
  <2>3. r = s /\ ExpireSubscriber(s)
    <3>1. late[s] \in Int /\ late[r] \in Int
      BY <1>1 DEF EventingTypeOK
    <3>2. CASE TimerFires(r)
      <4>1. late'[s] = IF s = r THEN late[s] + 1 ELSE late[s]
        BY <1>1, <3>2 DEF TimerFires, EventingTypeOK
      <4> QED  BY <2>1, <3>1, <4>1
    <3>3. CASE ExpireSubscriber(r)
      <4>1. late'[s] = IF s = r THEN late[s] - 1 ELSE late[s]
        BY <1>1, <3>3 DEF ExpireSubscriber, EventingTypeOK
      <4>2. r = s
        BY <2>1, <3>1, <4>1
      <4> QED  BY <3>3, <4>2
    <3> QED  BY <2>2, <3>2, <3>3
  <2> QED  BY <1>1, <2>1, <2>3 DEF ExpireSubscriber, EventingTypeOK
<1> QED  BY <1>1, EventingTypeCorrect, PTL DEF EventingSpec, RenewalWins

-----------------------------------------------------------------------------
(* The subscriptions implement EventChannel.                                *)

\* What EventChannel's variables are mapped to.
Told == {s \in Sids : reply[s] = "released"}
Over == {s \in Sids : closed[s]}
Due == [s \in Sids |->
          CASE closed[s]         -> sent[s] + (IF worker[s] = "send" THEN 1 ELSE 0)
            [] s \in subscribers -> seq[s] + 1
            [] OTHER             -> 0]

\* The same, case by case.
DueOf(s) ==
    /\ closed[s] = TRUE /\ worker[s] = "send" => Due[s] = sent[s] + 1
    /\ closed[s] = TRUE /\ worker[s] # "send" => Due[s] = sent[s]
    /\ s \in subscribers => Due[s] = seq[s] + 1
    /\ closed[s] = FALSE /\ s \notin subscribers => Due[s] = 0

LEMMA DueCases ==
    ASSUME EventingInv, NEW s \in Sids
    PROVE  DueOf(s)
<1>1. /\ closed[s] \in BOOLEAN /\ (s \in subscribers => closed[s] = FALSE)
      /\ sent[s] \in Nat
  BY DEF EventingInv, EventingTypeOK, Good, Life
<1> QED  BY <1>1 DEF DueOf, Due

LEMMA DueCasesNext ==
    ASSUME EventingInv', NEW s \in Sids
    PROVE  DueOf(s)'
<1>1. /\ closed'[s] \in BOOLEAN /\ (s \in subscribers' => closed'[s] = FALSE)
      /\ sent'[s] \in Nat
  BY DEF EventingInv, EventingTypeOK, Good, Life
<1> QED  BY <1>1 DEF DueOf, Due

\* Steps that the abstract channel does not see.
LEMMA Stutters ==
    ASSUME EventingInv, EventingInv',
           UNCHANGED <<subscribers, seq, closed, sent>>, Told' = Told,
           \A s \in Sids : closed[s] = TRUE => (worker'[s] = "send" <=> worker[s] = "send")
    PROVE  UNCHANGED Channel!channelVars
<1>1. \A s \in Sids : closed[s] \in BOOLEAN
  BY DEF EventingInv, EventingTypeOK
<1>2. \A s \in Sids : Due'[s] = Due[s]
  BY <1>1, DueCases, DueCasesNext DEF DueOf
<1>3. Due' = Due
  BY <1>2 DEF Due
<1>4. Over' = Over
  BY DEF Over
<1> QED  BY <1>3, <1>4 DEF Channel!channelVars, Told, Over, Due

\* An event for some subscribers, while others are closed.
LEMMA Happens ==
    ASSUME EventingInv, EventingInv', NEW gone \in SUBSET subscribers,
           NEW to \in SUBSET (subscribers \ gone),
           CloseAll(gone), seq' = Advanced(to), UNCHANGED <<reply, workerVars>>
    PROVE  Channel!Happen(to, gone)
<1>1. EventingTypeOK /\ EventingTypeOK'
  BY DEF EventingInv
<1>2. /\ subscribers' = subscribers \ gone
      /\ \A s \in Sids : closed'[s] = TRUE <=> (closed[s] = TRUE \/ s \in gone)
      /\ \A s \in Sids : closed[s] \in BOOLEAN /\ closed'[s] \in BOOLEAN
  <2>1. subscribers' = subscribers \ gone
    BY DEF CloseAll
  <2>2. \A s \in Sids : closed[s] \in BOOLEAN /\ closed'[s] \in BOOLEAN
    BY <1>1 DEF EventingTypeOK
  <2>3. \A s \in Sids : closed'[s] = (closed[s] \/ s \in gone)
    BY Zenon DEF CloseAll
  <2>4. \A s \in Sids : closed'[s] = TRUE <=> (closed[s] = TRUE \/ s \in gone)
    BY <2>2, <2>3, Zenon
  <2> QED  BY <2>1, <2>2, <2>4
<1>3. Over' = Over \cup gone
  BY <1>1, <1>2 DEF Over, EventingTypeOK
<1>4. Told' = Told
  BY DEF Told
<1>5. \A s \in Sids : seq[s] \in Nat /\ sent[s] \in Nat
  BY <1>1, EventingAssumption DEF EventingTypeOK
<1>6. ASSUME NEW s \in to
      PROVE  s \in Sids /\ Due'[s] = Due[s] + 1
  <2>1. s \in Sids /\ s \in subscribers /\ s \in subscribers' /\ seq'[s] = seq[s] + 1
    BY <1>1, <1>2, <1>6 DEF Advanced, EventingTypeOK
  <2> QED  BY <1>5, <2>1, DueCases, DueCasesNext DEF DueOf
<1>7. ASSUME NEW s \in gone
      PROVE  /\ s \in Sids
             /\ Due'[s] \in {sent[s], sent[s] + 1}
             /\ Due'[s] <= Due[s]
  <2>1. s \in Sids /\ s \in subscribers /\ closed'[s] = TRUE
    BY <1>1, <1>2, <1>7 DEF EventingTypeOK
  <2>2. /\ worker[s] = "send" => Due'[s] = sent[s] + 1
        /\ worker[s] # "send" => Due'[s] = sent[s]
        /\ Due[s] = seq[s] + 1
    BY <2>1, DueCases, DueCasesNext DEF workerVars, DueOf
  <2>3. First(s) + Len(queue[s]) = seq[s] + 1 /\ Len(queue[s]) \in Nat
    BY <1>1, <2>1, LenProperties DEF EventingInv, EventingTypeOK, Good, InOrder
  <2>4. First(s) \in Nat /\ sent[s] <= First(s) /\ (worker[s] = "send" => First(s) = sent[s] + 1)
    BY <1>5, <2>1 DEF First, Busy
  <2> QED  BY <1>5, <2>1, <2>2, <2>3, <2>4
<1>8. ASSUME NEW s \in Sids, s \notin to, s \notin gone
      PROVE  Due'[s] = Due[s]
  <2>1. /\ s \in subscribers' <=> s \in subscribers
        /\ closed'[s] = closed[s] /\ seq'[s] = seq[s]
    BY <1>2, <1>8 DEF Advanced
  <2> QED  BY <1>2, <2>1, DueCases, DueCasesNext DEF workerVars, DueOf
<1>9. \A s \in Sids : Due[s] \in Nat
  <2>1. ASSUME NEW s \in Sids
        PROVE  Due[s] \in Nat
    <3>1. DueOf(s)
      BY DueCases
    <3>2. closed[s] \in BOOLEAN /\ seq[s] \in Nat /\ sent[s] \in Nat
      BY <1>2, <1>5
    <3> QED  BY <3>1, <3>2 DEF DueOf
  <2> QED  BY <2>1
<1>10. Due' \in [Sids -> Nat]
  <2>1. \A s \in Sids : Due'[s] \in Nat
    BY <1>5, <1>6, <1>7, <1>8, <1>9
  <2> QED  BY <2>1 DEF Due
<1>11. \A s \in Sids :
          CASE s \in to   -> Due'[s] = Due[s] + 1
            [] s \in gone -> Due'[s] \in {sent[s], sent[s] + 1} /\ Due'[s] <= Due[s]
            [] OTHER      -> Due'[s] = Due[s]
  BY <1>5, <1>6, <1>7, <1>8
<1> QED
  BY <1>2, <1>3, <1>4, <1>10, <1>11 DEF Channel!Happen, Told, Over, Due, workerVars

\* A delivery that is sent was due, and its subscriber has been told.
LEMMA Sends ==
    ASSUME EventingInv, EventingInv', NEW s \in Sids, SendEventDelivery(s)
    PROVE  Channel!Send(s)
<1>1. EventingTypeOK /\ Good(s)
  BY DEF EventingInv
<1>2. /\ worker[s] = "send" /\ worker' = [worker EXCEPT ![s] = "wait"]
      /\ sent' = [sent EXCEPT ![s] = @ + 1]
      /\ UNCHANGED <<subscribers, seq, closed, reply>>
  BY DEF SendEventDelivery, tableVars
<1>3. \A t \in Sids : seq[t] \in Nat /\ sent[t] \in Nat /\ closed[t] \in BOOLEAN
  BY <1>1, EventingAssumption DEF EventingTypeOK
<1>4. s \in Told
  BY <1>1, <1>2 DEF Good, Answered, Told
<1>5. sent[s] < Due[s]
  <2> DueOf(s)
    BY DueCases
  <2>1. CASE closed[s] = TRUE
    BY <1>2, <1>3, <2>1 DEF DueOf
  <2>2. CASE s \in subscribers
    <3>1. First(s) + Len(queue[s]) = seq[s] + 1 /\ Len(queue[s]) \in Nat
      BY <1>1, <2>2, LenProperties DEF EventingTypeOK, Good, InOrder
    <3>2. First(s) = sent[s] + 1
      BY <1>2 DEF First, Busy
    <3> QED  BY <1>3, <2>2, <3>1, <3>2 DEF DueOf
  <2> QED  BY <1>1, <1>2, <2>1, <2>2 DEF Good, Life
<1>6. \A t \in Sids : Due'[t] = Due[t]
  <2>1. SUFFICES ASSUME NEW t \in Sids
                 PROVE  Due'[t] = Due[t]
    OBVIOUS
  <2> DueOf(t) /\ DueOf(t)'
    BY DueCases, DueCasesNext
  <2>2. CASE t # s
    <3>1. worker'[t] = worker[t] /\ sent'[t] = sent[t]
      BY <1>1, <1>2, <2>2 DEF EventingTypeOK
    <3> QED  BY <1>2, <1>3, <3>1 DEF DueOf
  <2>3. CASE t = s
    <3>1. worker'[s] = "wait" /\ sent'[s] = sent[s] + 1
      BY <1>1, <1>2 DEF EventingTypeOK
    <3> QED  BY <1>2, <1>3, <2>3, <3>1 DEF DueOf
  <2> QED  BY <2>2, <2>3
<1>7. Due' = Due
  BY <1>6 DEF Due
<1>8. Told' = Told /\ Over' = Over
  BY <1>2 DEF Told, Over
<1> QED  BY <1>2, <1>4, <1>5, <1>7, <1>8 DEF Channel!Send, Told, Over, Due

\* Every step of the subscriptions is a step of the channel or is not seen there.
LEMMA ChannelStep ==
    ASSUME EventingInv, EventingInv', [EventingNext]_eventingVars
    PROVE  [Channel!ChannelNext]_Channel!channelVars
<1>1. EventingTypeOK /\ \A s \in Sids : Good(s)
  BY DEF EventingInv
<1>2. CASE UNCHANGED eventingVars
  <2>1. Told' = Told
    BY <1>2 DEF Told, eventingVars
  <2> QED  BY <1>2, <2>1, Stutters DEF eventingVars, tableVars, workerVars
<1>3. ASSUME NEW s \in Sids, NEW b \in Bodies, Subscribe(s, b)
      PROVE  Channel!ChannelNext
  <2>1. /\ s \notin subscribers /\ closed[s] = FALSE /\ seq[s] = 0 /\ worker[s] = "none"
        /\ subscribers' = subscribers \cup {s}
        /\ reply[s] = "none" /\ reply' = [reply EXCEPT ![s] = "pending"]
        /\ worker' = [worker EXCEPT ![s] = "wait"]
        /\ UNCHANGED <<seq, closed, sent>>
    BY <1>1, <1>3 DEF Subscribe, Good, Life
  <2>2. Told' = Told /\ Over' = Over /\ s \notin Over
    BY <1>1, <2>1 DEF Told, Over, EventingTypeOK
  <2>3. Due'[s] = 1
    <3>1. DueOf(s)' /\ s \in subscribers' /\ seq'[s] = 0
      BY <2>1, DueCasesNext
    <3> QED  BY <3>1 DEF DueOf
  <2>4. ASSUME NEW t \in Sids, t # s
        PROVE  Due'[t] = Due[t]
    <3>1. worker'[t] = worker[t] /\ (t \in subscribers' <=> t \in subscribers) /\ closed[t] \in BOOLEAN
      BY <1>1, <2>1, <2>4 DEF EventingTypeOK
    <3> QED  BY <2>1, <3>1, DueCases, DueCasesNext DEF DueOf
  <2>5. Due' = [Due EXCEPT ![s] = 1]
    BY <2>3, <2>4 DEF Due
  <2>6. Channel!Open(s)
    BY <2>1, <2>2, <2>5 DEF Channel!Open, Told, Over, Due
  <2> QED  BY <2>6 DEF Channel!ChannelNext
<1>4. ASSUME NEW s \in Sids, Release(s)
      PROVE  Channel!ChannelNext
  <2>1. reply' = [reply EXCEPT ![s] = "released"] /\ UNCHANGED <<subscribers, seq, closed, worker, sent>>
    BY <1>4 DEF Release, tableVars, workerVars
  <2>2. Told' = Told \cup {s}
    BY <1>1, <2>1 DEF Told, EventingTypeOK
  <2>3. Over' = Over /\ Due' = Due
    BY <2>1 DEF Over, Due
  <2>4. Channel!Tell(s)
    BY <2>1, <2>2, <2>3 DEF Channel!Tell, Told, Over, Due
  <2> QED  BY <2>4 DEF Channel!ChannelNext
<1>5. ASSUME NEW s \in Sids, Answer(s) \/ Renew(s) \/ TimerFires(s)
      PROVE  UNCHANGED Channel!channelVars
  <2>1. UNCHANGED <<subscribers, seq, closed, sent, worker>>
    BY <1>5 DEF Answer, Renew, TimerFires, tableVars, workerVars
  <2>2. Told' = Told
    BY <1>1, <1>5 DEF Told, Answer, Renew, TimerFires, EventingTypeOK
  <2> QED  BY <2>1, <2>2, Stutters
<1>6. ASSUME NEW gone \in SUBSET subscribers, CloseAll(gone), UNCHANGED <<seq, reply, workerVars>>
      PROVE  Channel!ChannelNext
  <2>1. seq' = Advanced({})
    BY <1>1, <1>6 DEF Advanced, EventingTypeOK
  <2>2. Channel!Happen({}, gone)
    BY <1>6, <2>1, Happens
  <2> QED  BY <2>2 DEF Channel!ChannelNext
<1>7. ASSUME NEW s \in Sids, Unsubscribe(s)
      PROVE  Channel!ChannelNext
  BY <1>6, <1>7 DEF Unsubscribe
<1>8. ASSUME NEW s \in Sids, ExpireSubscriber(s)
      PROVE  [Channel!ChannelNext]_Channel!channelVars
  <2>1. CASE UNCHANGED <<subscribers, closed>>
    <3>1. Told' = Told /\ UNCHANGED <<seq, worker, sent>>
      BY <1>8 DEF ExpireSubscriber, Told, workerVars
    <3> QED  BY <2>1, <3>1, Stutters
  <2>2. CASE s \in subscribers /\ CloseAll({s})
    BY <1>6, <1>8, <2>2 DEF ExpireSubscriber
  <2> QED  BY <1>8, <2>1, <2>2 DEF ExpireSubscriber
<1>9. ASSUME NEW s \in Sids, WorkerStep(s)
      PROVE  [Channel!ChannelNext]_Channel!channelVars
  <2>1. CASE SendEventDelivery(s)
    BY <2>1, Sends DEF Channel!ChannelNext
  <2>2. CASE WorkerTakes(s) \/ WorkerReleased(s) \/ WorkerLooks(s) \/ WorkerEnds(s)
    <3>1. UNCHANGED <<subscribers, seq, closed, sent, reply>>
      BY <2>2 DEF WorkerTakes, WorkerReleased, WorkerLooks, WorkerEnds, tableVars
    <3>2. Told' = Told
      BY <3>1 DEF Told
    <3>3. \A t \in Sids : closed[t] = TRUE => (worker'[t] = "send" <=> worker[t] = "send")
      BY <1>1, <2>2 DEF WorkerTakes, WorkerReleased, WorkerLooks, WorkerEnds, EventingTypeOK
    <3> QED  BY <3>1, <3>2, <3>3, Stutters
  <2> QED  BY <1>9, <2>1, <2>2 DEF WorkerStep
<1>10. ASSUME NEW service \in Services, NEW b \in Bodies, NotifySubscribers(service, b)
       PROVE  Channel!ChannelNext
  <2>1. PICK gone \in SUBSET Overdue :
           LET to == {s \in subscribers \ gone : ServiceOf[s] = service} IN
           /\ \A s \in to : seq[s] < MaxSeq
           /\ CloseAll(gone)
           /\ seq' = Advanced(to)
           /\ queue' = [s \in Sids |-> IF s \in gone THEN <<>> ELSE Appended(to, b)[s]]
           /\ UNCHANGED <<left, late, reply, workerVars>>
    BY <1>10 DEF NotifySubscribers
  <2> DEFINE to == {s \in subscribers \ gone : ServiceOf[s] = service}
  <2>2. gone \in SUBSET subscribers /\ to \in SUBSET (subscribers \ gone) /\ to \in SUBSET subscribers
    BY DEF Overdue
  <2>3. CloseAll(gone) /\ seq' = Advanced(to) /\ UNCHANGED <<reply, workerVars>>
    BY <2>1
  <2> HIDE DEF to
  <2>4. Channel!Happen(to, gone)
    BY <2>2, <2>3, Happens
  <2> QED  BY <2>2, <2>4 DEF Channel!ChannelNext
<1>11. CASE CloseAllSubscribers
  BY <1>6, <1>11 DEF CloseAllSubscribers
<1>12. CASE Tick
  <2>1. UNCHANGED <<subscribers, seq, closed, sent, worker, reply>>
    BY <1>12 DEF Tick, workerVars
  <2>2. Told' = Told
    BY <2>1 DEF Told
  <2> QED  BY <2>1, <2>2, Stutters
<1> QED
  BY <1>2, <1>3, <1>4, <1>5, <1>7, <1>8, <1>9, <1>10, <1>11, <1>12 DEF EventingNext, SubscriptionStep

(* Queues, workers and timers together keep the promise of EventChannel.    *)
THEOREM ImplementsEventChannelTheorem == EventingSpec => ImplementsEventChannel
<1>1. EventingInit => Channel!ChannelInit
  BY DEF EventingInit, Channel!ChannelInit
<1> QED
  BY <1>1, EventingInvariant, ChannelStep, PTL DEF EventingSpec, ImplementsEventChannel, Channel!ChannelSpec
===============================================================================
