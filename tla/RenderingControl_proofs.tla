------------------------ MODULE RenderingControl_proofs ------------------------
(***************************************************************************)
(* Theorems about the RenderingControl service, for any number of requests  *)
(* in progress and of subscribers, whichever calls of the player fail.      *)
(***************************************************************************)
EXTENDS RenderingControl, Eventing_proofs

LEMMA BodyTypes ==
    ASSUME NEW v \in 0..100, NEW m \in BOOLEAN
    PROVE  [volume |-> v, muted |-> m] \in Bodies
BY RenderingAssumption

LEMMA RestingType ==
    Resting \in [step : {"idle", "player", "record", "notify"},
                 kind : {"volume", "mute", "unmute", "sync"}, level : 0..100, body : Bodies]
BY NoDeliveryType DEF Resting, Delivery

(* Whatever number comes in, the volume is one the player has.              *)
LEMMA ClampRange == ASSUME NEW v \in Int PROVE Clamp(v) \in 0..100
BY DEF Clamp

-----------------------------------------------------------------------------
(* The service uses the subscriptions only through their operations, so     *)
(* whatever is proved of these holds in it.                                 *)

RCTypes ==
    /\ volume \in 0..100 /\ prevVolume \in 0..100 /\ muted \in BOOLEAN
    /\ rcMu \in Requests \cup {Nobody}
    /\ call \in [Requests -> [step : {"idle", "player", "record", "notify"},
                              kind : {"volume", "mute", "unmute", "sync"},
                              level : 0..100, body : Bodies]]
    /\ playerVolume \in 0..100 /\ agreed \in BOOLEAN
    /\ commands \in 0..MaxCommands

LEMMA RecordType == ASSUME RCTypes PROVE Record \in Bodies
BY BodyTypes DEF RCTypes, Record

LEMMA EventingNextInRC ==
    ASSUME RCTypes, [RCNext]_rcVars
    PROVE  [EventingNext]_eventingVars
<1>1. CASE UNCHANGED rcVars
  BY <1>1 DEF rcVars
<1>2. ASSUME NEW r \in Requests, RequestStep(r)
      PROVE  [EventingNext]_eventingVars
  <2>1. CASE SetVolume(r) \/ SetMute(r) \/ PlayerAnswers(r) \/ UpdateRecord(r)
    BY <2>1 DEF SetVolume, SetMute, Begin, PlayerAnswers, UpdateRecord
  <2>2. CASE NotifyVolume(r)
    <3>1. call[r].body \in Bodies
      BY DEF RCTypes
    <3> QED  BY <2>2, <3>1, RenderingAssumption DEF NotifyVolume, EventingNext
  <2> QED  BY <1>2, <2>1, <2>2 DEF RequestStep
<1>3. CASE TurnVolume
  BY <1>3 DEF TurnVolume
<1>4. ASSUME NEW s \in Sids, SubscriptionStep(s) \/ Subscribe(s, Record)
      PROVE  EventingNext
  BY <1>4, RecordType DEF EventingNext
<1>5. CASE Tick
  BY <1>5 DEF EventingNext
<1>6. CASE Rested
  BY <1>6 DEF Rested, rcVars
<1> QED  BY <1>1, <1>2, <1>3, <1>4, <1>5, <1>6 DEF RCNext

-----------------------------------------------------------------------------
(* Types *)

LEMMA BeginTypes ==
    ASSUME RCTypes, NEW r \in Requests, NEW kind \in {"volume", "mute", "unmute", "sync"},
           NEW level \in 0..100, NEW body \in Bodies, Begin(r, kind, level, body)
    PROVE  RCTypes'
<1>1. commands' \in 0..MaxCommands
  BY RenderingAssumption DEF RCTypes, Begin
<1> QED  BY <1>1 DEF RCTypes, Begin, Lock, recordVars, externalVars

LEMMA SetMuteTypes ==
    ASSUME RCTypes, NEW r \in Requests, SetMute(r)
    PROVE  RCTypes'
<1>1. RestoreVolume \in 0..100
  BY DEF RCTypes, RestoreVolume
<1>2. CASE Begin(r, "sync", IF muted THEN 0 ELSE volume, Record)
  <2>1. (IF muted THEN 0 ELSE volume) \in 0..100
    BY DEF RCTypes
  <2> QED  BY <1>2, <2>1, RecordType, BeginTypes
<1>3. CASE Begin(r, "mute", 0, [volume |-> volume, muted |-> TRUE])
  <2>1. [volume |-> volume, muted |-> TRUE] \in Bodies
    BY BodyTypes DEF RCTypes
  <2> QED  BY <1>3, <2>1, BeginTypes
<1>4. CASE Begin(r, "unmute", RestoreVolume, [volume |-> RestoreVolume, muted |-> FALSE])
  <2>1. [volume |-> RestoreVolume, muted |-> FALSE] \in Bodies
    BY <1>1, BodyTypes
  <2> QED  BY <1>1, <1>4, <2>1, BeginTypes
<1> QED  BY <1>2, <1>3, <1>4 DEF SetMute

LEMMA RCTypesStep ==
    ASSUME RCTypes, [RCNext]_rcVars
    PROVE  RCTypes'
<1>1. CASE UNCHANGED renderingVars
  BY <1>1 DEF RCTypes, renderingVars, recordVars, externalVars
<1>2. ASSUME NEW r \in Requests, SetVolume(r)
      PROVE  RCTypes'
  <2>1. PICK desired \in Desired :
           Begin(r, "volume", Clamp(desired), [volume |-> Clamp(desired), muted |-> muted])
    BY <1>2 DEF SetVolume
  <2>2. Clamp(desired) \in 0..100
    BY ClampRange, RenderingAssumption
  <2>3. [volume |-> Clamp(desired), muted |-> muted] \in Bodies
    BY <2>2, BodyTypes DEF RCTypes
  <2> QED  BY <2>1, <2>2, <2>3, BeginTypes
<1>3. ASSUME NEW r \in Requests, SetMute(r)
      PROVE  RCTypes'
  BY <1>3, SetMuteTypes
<1>4. ASSUME NEW r \in Requests, PlayerAnswers(r)
      PROVE  RCTypes'
  <2>1. call' \in [Requests -> [step : {"idle", "player", "record", "notify"},
                                kind : {"volume", "mute", "unmute", "sync"},
                                level : 0..100, body : Bodies]]
    BY <1>4, RestingType DEF RCTypes, PlayerAnswers
  <2>2. playerVolume' \in 0..100 /\ agreed' \in BOOLEAN
    BY <1>4 DEF RCTypes, PlayerAnswers, externalVars
  <2> QED  BY <1>4, <2>1, <2>2 DEF RCTypes, PlayerAnswers, Unlock, recordVars
<1>5. ASSUME NEW r \in Requests, UpdateRecord(r)
      PROVE  RCTypes'
  <2>1. /\ call[r].body \in [volume : 0..100, muted : BOOLEAN]
        /\ call[r].level \in 0..100 /\ call[r].body.volume \in 0..100
    BY RenderingAssumption DEF RCTypes
  <2>2. muted' \in BOOLEAN
    BY <1>5, <2>1 DEF UpdateRecord, MutedAfter, RCTypes
  <2>3. volume' \in 0..100 /\ prevVolume' \in 0..100
    BY <1>5, <2>1 DEF UpdateRecord, RCTypes
  <2>4. [call[r].body EXCEPT !.muted = muted'] \in Bodies
    BY <2>1, <2>2, RenderingAssumption
  <2>5. call' = [call EXCEPT ![r] = [call[r] EXCEPT !.step = "notify", !.body = [call[r].body EXCEPT !.muted = muted']]]
    BY <1>5 DEF UpdateRecord, RCTypes
  <2> QED  BY <1>5, <2>2, <2>3, <2>4, <2>5 DEF RCTypes, UpdateRecord, externalVars
<1>6. ASSUME NEW r \in Requests, NotifyVolume(r)
      PROVE  RCTypes'
  BY <1>6, RestingType DEF RCTypes, NotifyVolume, Unlock, recordVars, externalVars
<1>7. CASE TurnVolume
  <2>1. commands' \in 0..MaxCommands
    BY <1>7, RenderingAssumption DEF RCTypes, TurnVolume
  <2>2. playerVolume' \in 0..100 /\ agreed' = FALSE
    BY <1>7, RenderingAssumption DEF TurnVolume
  <2> QED  BY <1>7, <2>1, <2>2 DEF RCTypes, TurnVolume, recordVars
<1> QED
  BY <1>1, <1>2, <1>3, <1>4, <1>5, <1>6, <1>7 DEF RCNext, RequestStep, Rested, rcVars

LEMMA RCTypesInit == RCInit => RCTypes
<1> SUFFICES ASSUME RCInit
             PROVE  RCTypes
  OBVIOUS
<1>1. volume \in 0..100 /\ prevVolume \in 0..100
  <2>1. volume = 50 /\ prevVolume = 50
    BY DEF RCInit
  <2> QED  BY <2>1
<1>2. playerVolume \in 0..100 /\ commands \in 0..MaxCommands
  BY RenderingAssumption DEF RCInit
<1>3. muted \in BOOLEAN /\ agreed \in BOOLEAN
  BY Zenon DEF RCInit
<1> QED  BY <1>1, <1>2, <1>3, RestingType DEF RCInit, RCTypes

(* Every behaviour of the service is one of the subscriptions.              *)
THEOREM RCImplementsEventing == RCSpec => EventingSpec
<1>1. RCInit => EventingInit
  BY DEF RCInit
<1> QED
  BY <1>1, RCTypesInit, RCTypesStep, EventingNextInRC, PTL DEF RCSpec, EventingSpec

(* The service is well typed.                                               *)
THEOREM RCTypeCorrect == RCSpec => []RCTypeOK
<1>1. RCTypes /\ EventingTypeOK => RCTypeOK
  BY DEF RCTypes, RCTypeOK
<1> QED
  BY <1>1, RCTypesInit, RCTypesStep, RCImplementsEventing, EventingTypeCorrect, PTL DEF RCSpec

-----------------------------------------------------------------------------
(* The record, the player and the events.                                   *)

\* What is heard when the record is right.
Heard == IF muted THEN 0 ELSE volume

\* A request that is not idle holds rcMu, so that the record is what it was when it began;
\* what it sends to the player fits what it will record, and what it tells is the record.
CallOK(r) ==
    /\ call[r].step # "idle" => rcMu = r
    /\ call[r].step \in {"player", "record"} =>
          /\ call[r].kind = "sync"   => call[r].step = "player" /\ call[r].level = Heard
          /\ call[r].kind = "volume" => call[r].body.volume = call[r].level
          /\ call[r].kind = "mute"   => /\ call[r].level = 0 /\ call[r].body.volume = volume
                                       /\ call[r].body.muted = TRUE
          /\ call[r].kind = "unmute" => call[r].body.volume = call[r].level /\ call[r].body.muted = FALSE
    /\ call[r].step = "record" /\ agreed = TRUE => playerVolume = call[r].level
    /\ call[r].step = "notify" => call[r].body = Record

Agrees == agreed = TRUE /\ (\A r \in Requests : call[r].step # "record") => playerVolume = Heard

RCInv == RCTypes /\ Agrees /\ \A r \in Requests : CallOK(r)

\* Requests that are not idle exclude each other.
LEMMA Alone ==
    ASSUME RCInv, NEW r \in Requests, NEW q \in Requests, q # r, call[r].step # "idle"
    PROVE  call[q].step = "idle"
BY DEF RCInv, CallOK

\* An idle request needs nothing of the record.
LEMMA IdleOK ==
    ASSUME NEW q, call'[q].step = "idle"
    PROVE  CallOK(q)'
BY DEF CallOK

\* Where a request begins nobody is between the player and the record.
LEMMA BeginKeeps ==
    ASSUME RCInv, NEW r \in Requests, NEW kind \in {"volume", "mute", "unmute", "sync"},
           NEW level \in 0..100, NEW body \in Bodies, Begin(r, kind, level, body),
           kind = "sync" => level = Heard,
           kind \in {"volume", "unmute"} => body.volume = level,
           kind = "mute" => level = 0 /\ body.volume = volume /\ body.muted = TRUE,
           kind = "unmute" => body.muted = FALSE
    PROVE  Agrees' /\ \A q \in Requests : CallOK(q)'
<1>1. /\ rcMu = Nobody /\ rcMu' = r
      /\ call' = [call EXCEPT ![r] = [step |-> "player", kind |-> kind, level |-> level, body |-> body]]
      /\ UNCHANGED <<recordVars, externalVars>>
  BY DEF Begin, Lock
<1>2. \A q \in Requests : call[q].step = "idle"
  BY <1>1, RenderingAssumption DEF RCInv, CallOK
<1>3. call'[r] = [step |-> "player", kind |-> kind, level |-> level, body |-> body]
  BY <1>1 DEF RCInv, RCTypes
<1>4. \A q \in Requests : q # r => call'[q] = call[q]
  BY <1>1 DEF RCInv, RCTypes
<1>5. CallOK(r)'
  BY <1>1, <1>3 DEF CallOK, Heard, recordVars
<1>6. \A q \in Requests : CallOK(q)'
  BY <1>2, <1>4, <1>5, IdleOK
<1>7. \A q \in Requests : call[q].step # "record"
  BY <1>2
<1>8. Agrees'
  BY <1>1, <1>7 DEF RCInv, Agrees, Heard, recordVars, externalVars
<1> QED  BY <1>6, <1>8

\* The player answers: what it was told is what the record is or will be.
LEMMA AnswerKeeps ==
    ASSUME RCInv, NEW r \in Requests, PlayerAnswers(r)
    PROVE  Agrees' /\ \A q \in Requests : CallOK(q)'
<1>1. /\ call[r].step = "player" /\ CallOK(r) /\ UNCHANGED recordVars
      /\ \A q \in Requests : q # r => call[q].step = "idle" /\ call'[q] = call[q]
      /\ call \in [Requests -> [step : {"idle", "player", "record", "notify"},
                                kind : {"volume", "mute", "unmute", "sync"},
                                level : 0..100, body : Bodies]]
  <2>1. call[r].step = "player" /\ UNCHANGED recordVars
    BY DEF PlayerAnswers
  <2>2. \A q \in Requests : q # r => call'[q] = call[q]
    BY DEF PlayerAnswers, RCInv, RCTypes
  <2>3. \A q \in Requests : q # r => call[q].step = "idle"
    BY <2>1, Alone
  <2> QED  BY <2>1, <2>2, <2>3 DEF RCInv, RCTypes
<1>2. \A q \in Requests : q # r => CallOK(q)'
  BY <1>1, IdleOK
<1>3. ASSUME call' = [call EXCEPT ![r] = Resting]
      PROVE  \A q \in Requests : CallOK(q)' /\ call'[q].step = "idle" /\ (q # r => call[q].step = "idle")
  <2>1. call'[r].step = "idle"
    BY <1>1, <1>3 DEF Resting
  <2> QED  BY <1>1, <1>2, <2>1, IdleOK
<1>4. CASE /\ call' = [call EXCEPT ![r].step = "record"] /\ UNCHANGED rcMu
           /\ playerVolume' = call[r].level /\ call[r].kind # "sync"
  <2>1. /\ call'[r].step = "record" /\ call'[r].kind = call[r].kind
        /\ call'[r].level = call[r].level /\ call'[r].body = call[r].body
    BY <1>1, <1>4
  <2>2. CallOK(r)'
    BY <1>1, <1>4, <2>1 DEF CallOK, recordVars
  <2> QED  BY <1>2, <2>1, <2>2 DEF Agrees
<1>5. CASE /\ call' = [call EXCEPT ![r] = Resting]
           /\ agreed' = TRUE /\ playerVolume' = call[r].level /\ call[r].kind = "sync"
  BY <1>1, <1>3, <1>5 DEF Agrees, CallOK, Heard, recordVars
<1>6. CASE call' = [call EXCEPT ![r] = Resting] /\ (UNCHANGED externalVars \/ agreed' = FALSE)
  <2>1. \A q \in Requests : call[q].step # "record"
    BY <1>1
  <2>2. Agrees'
    BY <1>1, <1>6, <2>1 DEF RCInv, Agrees, Heard, recordVars, externalVars
  <2> QED  BY <1>3, <1>6, <2>2
<1> QED  BY <1>4, <1>5, <1>6 DEF PlayerAnswers

\* The record follows.
LEMMA UpdateKeeps ==
    ASSUME RCInv, RCTypes', NEW r \in Requests, UpdateRecord(r)
    PROVE  Agrees' /\ \A q \in Requests : CallOK(q)'
<1>1. /\ call[r].step = "record" /\ CallOK(r) /\ UNCHANGED <<rcMu, externalVars>>
      /\ \A q \in Requests : q # r => call[q].step = "idle" /\ call'[q] = call[q]
  <2>1. call[r].step = "record" /\ UNCHANGED <<rcMu, externalVars>>
    BY DEF UpdateRecord
  <2>2. \A q \in Requests : q # r => call'[q] = call[q]
    BY DEF UpdateRecord, RCInv, RCTypes
  <2>3. \A q \in Requests : q # r => call[q].step = "idle"
    BY <2>1, Alone
  <2> QED  BY <2>1, <2>2, <2>3 DEF RCInv
<1>2. call[r] \in [step : {"idle", "player", "record", "notify"},
                   kind : {"volume", "mute", "unmute", "sync"},
                   level : 0..100, body : [volume : 0..100, muted : BOOLEAN]]
  BY RenderingAssumption DEF RCInv, RCTypes
<1>3. call'[r].step = "notify" /\ call'[r].body = [volume |-> call[r].body.volume, muted |-> muted']
  BY <1>2 DEF UpdateRecord, RCInv, RCTypes
<1>4. volume' = call[r].body.volume
  BY <1>1, <1>2 DEF UpdateRecord, CallOK
<1>5. CallOK(r)'
  BY <1>1, <1>3, <1>4 DEF CallOK, Record
<1>6. agreed = TRUE => call[r].level = Heard'
  <2>1. CASE call[r].kind = "volume"
    BY <1>1, <1>2, <1>4, <2>1 DEF UpdateRecord, CallOK, MutedAfter, Heard
  <2>2. CASE call[r].kind = "mute"
    BY <1>1, <1>2, <1>4, <2>2 DEF UpdateRecord, CallOK, Heard
  <2>3. CASE call[r].kind = "unmute"
    BY <1>1, <1>2, <1>4, <2>3 DEF UpdateRecord, CallOK, Heard
  <2>4. call[r].kind # "sync"
    BY <1>1 DEF CallOK
  <2> QED  BY <1>2, <2>1, <2>2, <2>3, <2>4
<1>7. Agrees'
  BY <1>1, <1>6 DEF CallOK, Agrees, externalVars
<1> QED  BY <1>1, <1>5, <1>7, IdleOK

LEMMA RCInvStep ==
    ASSUME RCInv, [RCNext]_rcVars
    PROVE  RCInv'
<1>1. RCTypes /\ RCTypes'
  BY RCTypesStep DEF RCInv
<1>2. SUFFICES Agrees' /\ \A q \in Requests : CallOK(q)'
  BY <1>1 DEF RCInv
<1>3. CASE UNCHANGED renderingVars
  BY <1>3 DEF RCInv, Agrees, CallOK, Heard, Record, renderingVars, recordVars, externalVars
<1>4. ASSUME NEW r \in Requests, SetVolume(r)
      PROVE  Agrees' /\ \A q \in Requests : CallOK(q)'
  <2>1. PICK desired \in Desired :
           Begin(r, "volume", Clamp(desired), [volume |-> Clamp(desired), muted |-> muted])
    BY <1>4 DEF SetVolume
  <2>2. Clamp(desired) \in 0..100
    BY ClampRange, RenderingAssumption
  <2>3. [volume |-> Clamp(desired), muted |-> muted] \in Bodies
    BY <1>1, <2>2, BodyTypes DEF RCTypes
  <2> QED  BY <2>1, <2>2, <2>3, BeginKeeps
<1>5. ASSUME NEW r \in Requests, SetMute(r)
      PROVE  Agrees' /\ \A q \in Requests : CallOK(q)'
  <2>1. CASE Begin(r, "sync", IF muted THEN 0 ELSE volume, Record)
    <3>1. Begin(r, "sync", Heard, Record)
      BY <2>1 DEF Heard
    <3>2. Heard \in 0..100 /\ Record \in Bodies
      BY <1>1, RecordType DEF RCTypes, Heard
    <3> QED  BY <3>1, <3>2, BeginKeeps
  <2>2. CASE Begin(r, "mute", 0, [volume |-> volume, muted |-> TRUE])
    <3> DEFINE body == [volume |-> volume, muted |-> TRUE]
    <3>1. body \in Bodies /\ body.volume = volume /\ body.muted = TRUE
      BY <1>1, BodyTypes DEF RCTypes
    <3>2. Begin(r, "mute", 0, body) /\ 0 \in 0..100
      BY <2>2
    <3> HIDE DEF body
    <3> QED  BY <3>1, <3>2, BeginKeeps
  <2>3. CASE Begin(r, "unmute", RestoreVolume, [volume |-> RestoreVolume, muted |-> FALSE])
    <3>1. RestoreVolume \in 0..100
      BY <1>1 DEF RCTypes, RestoreVolume
    <3>2. [volume |-> RestoreVolume, muted |-> FALSE] \in Bodies
      BY <3>1, BodyTypes
    <3> QED  BY <2>3, <3>1, <3>2, BeginKeeps
  <2> QED  BY <1>5, <2>1, <2>2, <2>3 DEF SetMute
<1>6. ASSUME NEW r \in Requests, PlayerAnswers(r)
      PROVE  Agrees' /\ \A q \in Requests : CallOK(q)'
  BY <1>6, AnswerKeeps
<1>7. ASSUME NEW r \in Requests, UpdateRecord(r)
      PROVE  Agrees' /\ \A q \in Requests : CallOK(q)'
  BY <1>1, <1>7, UpdateKeeps
<1>8. ASSUME NEW r \in Requests, NotifyVolume(r)
      PROVE  Agrees' /\ \A q \in Requests : CallOK(q)'
  <2>1. /\ call[r].step = "notify" /\ call' = [call EXCEPT ![r] = Resting]
        /\ UNCHANGED <<recordVars, externalVars>>
    BY <1>8 DEF NotifyVolume
  <2>2. \A q \in Requests : call[q].step # "record" /\ call'[q].step = "idle"
    BY <1>1, <2>1, Alone DEF RCTypes, Resting
  <2>3. Agrees'
    BY <2>1, <2>2 DEF RCInv, Agrees, Heard, recordVars, externalVars
  <2> QED  BY <2>2, <2>3, IdleOK
<1>9. CASE TurnVolume
  <2>1. agreed' = FALSE /\ UNCHANGED <<recordVars, rcMu, call>>
    BY <1>9 DEF TurnVolume
  <2> QED  BY <2>1 DEF RCInv, Agrees, CallOK, Heard, Record, recordVars
<1> QED
  BY <1>3, <1>4, <1>5, <1>6, <1>7, <1>8, <1>9 DEF RCNext, RequestStep, Rested, rcVars

LEMMA RCInvInit == RCInit => RCInv
<1> SUFFICES ASSUME RCInit
             PROVE  RCInv
  OBVIOUS
<1>1. \A r \in Requests : call[r].step = "idle"
  BY DEF RCInit, Resting
<1> QED  BY <1>1, RCTypesInit DEF RCInit, RCInv, CallOK, Agrees

(* Volume and mute are what is heard, after any sequence of requests and    *)
(* failures.                                                                *)
THEOREM VolumeAgreesTheorem == RCSpec => []VolumeAgrees
<1>1. RCInv => VolumeAgrees
  BY DEF RCInv, RCTypes, Agrees, Heard, VolumeAgrees
<1> QED  BY <1>1, RCInvInit, RCInvStep, PTL DEF RCSpec

-----------------------------------------------------------------------------
(* The events.                                                              *)

\* A subscription keeps its last event through everything but a new event and its end.
LEMMA SameLastEvent ==
    ASSUME NEW t, Same(t)
    PROVE  LastEvent(t)' = LastEvent(t)
BY DEF Same, LastEvent

LEMMA LastEventKept ==
    ASSUME EventingTypeOK, NEW s \in Sids, SubscriptionStep(s), NEW t \in subscribers'
    PROVE  t \in subscribers /\ LastEvent(t)' = LastEvent(t)
<1>1. t \in subscribers
  BY DEF SubscriptionStep, Answer, Release, Renew, Unsubscribe, TimerFires, ExpireSubscriber, WorkerStep,
         WorkerTakes, WorkerReleased, WorkerLooks, SendEventDelivery, WorkerEnds, CloseAll, tableVars
<1>2. CASE t # s
  BY <1>1, <1>2, OthersSame, SameLastEvent DEF EventingTypeOK
<1>3. CASE t = s
  <2> SUFFICES LastEvent(s)' = LastEvent(s)
    BY <1>1, <1>3
  <2> s \in subscribers'
    BY <1>3
  <2>1. CASE WorkerTakes(s)
    <3>1. /\ queue[s] # <<>> /\ queue[s] \in Seq(Delivery)
          /\ queue'[s] = Tail(queue[s]) /\ hand'[s] = Head(queue[s])
      BY <2>1 DEF WorkerTakes, EventingTypeOK
    <3>2. /\ Len(queue[s]) \in Nat \ {0} /\ Head(queue[s]) = queue[s][1]
          /\ queue'[s] \in Seq(Delivery) /\ Len(queue'[s]) = Len(queue[s]) - 1
          /\ \A i \in 1..Len(queue'[s]) : queue'[s][i] = queue[s][i + 1]
      BY <3>1, HeadTailProperties, EmptySeq
    <3>3. CASE queue'[s] = <<>>
      <4>1. Len(queue[s]) = 1
        BY <3>2, <3>3, EmptySeq
      <4> QED  BY <3>1, <3>2, <3>3, <4>1 DEF LastEvent
    <3>4. CASE queue'[s] # <<>>
      <4>1. Len(queue'[s]) \in Nat \ {0}
        BY <3>2, <3>4, EmptySeq
      <4>2. queue'[s][Len(queue'[s])] = queue[s][Len(queue[s])]
        <5> DEFINE n == Len(queue'[s])
                   m == Len(queue[s])
        <5>0. n \in Nat \ {0} /\ m \in Nat \ {0} /\ n = m - 1
          BY <3>2, <4>1
        <5>1. n \in 1..n /\ n + 1 = m
          <6> HIDE DEF n, m
          <6> QED  BY <5>0
        <5>2. queue'[s][Len(queue'[s])] = queue[s][Len(queue'[s]) + 1]
          BY <3>2, <5>1
        <5> QED  BY <5>1, <5>2
      <4>3. LastEvent(s)' = queue'[s][Len(queue'[s])].body
        BY <3>4 DEF LastEvent
      <4>4. LastEvent(s) = queue[s][Len(queue[s])].body
        BY <3>1 DEF LastEvent
      <4> QED  BY <4>2, <4>3, <4>4
    <3> QED  BY <3>3, <3>4
  <2>2. CASE UNCHANGED <<queue, hand>>
    BY <2>2 DEF LastEvent
  <2> QED
    BY <2>1, <2>2
       DEF SubscriptionStep, Answer, Release, Renew, Unsubscribe, TimerFires, ExpireSubscriber, WorkerStep,
           WorkerReleased, WorkerLooks, SendEventDelivery, WorkerEnds, CloseAll, workerVars
<1> QED  BY <1>2, <1>3

\* A new subscription starts with the record.
LEMMA FirstEvent ==
    ASSUME EventingTypeOK, NEW s \in Sids, NEW body, Subscribe(s, body)
    PROVE  LastEvent(s)' = body
<1>1. queue'[s] = <<[seq |-> 0, body |-> body]>>
  BY DEF Subscribe, EventingTypeOK
<1> QED  BY <1>1 DEF LastEvent

\* An event is the last one of all the subscribers of its service.
LEMMA EventIsLast ==
    ASSUME EventingTypeOK, NEW service, NEW body \in Bodies, NotifySubscribers(service, body),
           NEW t \in subscribers', ServiceOf[t] = service
    PROVE  LastEvent(t)' = body
<1>1. PICK gone \in SUBSET Overdue :
         LET to == {s \in subscribers \ gone : ServiceOf[s] = service} IN
         /\ \A s \in to : seq[s] < MaxSeq
         /\ CloseAll(gone)
         /\ seq' = Advanced(to)
         /\ queue' = [s \in Sids |-> IF s \in gone THEN <<>> ELSE Appended(to, body)[s]]
         /\ UNCHANGED <<left, late, reply, workerVars>>
  BY DEF NotifySubscribers
<1> DEFINE ed == [seq |-> seq[t] + 1, body |-> body]
<1>2. t \in Sids /\ t \in subscribers /\ t \notin gone
  BY <1>1 DEF CloseAll, EventingTypeOK
<1>3. queue'[t] = Append(queue[t], ed)
  BY <1>1, <1>2 DEF Appended
<1>4. queue[t] \in Seq(Delivery) /\ ed \in Delivery
  <2>1. seq[t] \in 0..MaxSeq /\ queue[t] \in Seq(Delivery)
    BY <1>2 DEF EventingTypeOK
  <2> QED  BY <2>1, EventingAssumption DEF Delivery
<1>5. queue'[t] # <<>> /\ queue'[t][Len(queue'[t])] = ed
  BY <1>3, <1>4, AppendProperties
<1> QED  BY <1>5 DEF LastEvent

Pending == \E r \in Requests : call[r].step = "notify"
Converged(t) == t \in subscribers /\ ServiceOf[t] = "RenderingControl" => LastEvent(t) = Record

LEMMA ConvergeStep ==
    ASSUME RCInv, RCInv', EventingTypeOK, EventingTypeOK', Pending \/ \A t \in Sids : Converged(t), [RCNext]_rcVars
    PROVE  (Pending \/ \A t \in Sids : Converged(t))'
<1>1. RCTypes
  BY DEF RCInv
<1>2. ASSUME UNCHANGED <<recordVars, eventingVars>>, ~Pending' => ~Pending
      PROVE  (Pending \/ \A t \in Sids : Converged(t))'
  BY <1>2 DEF Converged, LastEvent, Record, recordVars, eventingVars, tableVars, workerVars
<1>3. CASE UNCHANGED rcVars
  BY <1>2, <1>3 DEF rcVars, renderingVars, Pending
<1>4. ASSUME NEW r \in Requests, SetVolume(r) \/ SetMute(r)
      PROVE  (Pending \/ \A t \in Sids : Converged(t))'
  <2>1. PICK kind, level, body : Begin(r, kind, level, body)
    BY <1>4 DEF SetVolume, SetMute
  <2>2. /\ call[r].step = "idle" /\ \A q \in Requests : q # r => call'[q] = call[q]
        /\ UNCHANGED <<recordVars, eventingVars>>
    BY <1>1, <2>1 DEF Begin, RCTypes
  <2>3. ~Pending' => ~Pending
    BY <2>2 DEF Pending
  <2> QED  BY <1>2, <2>2, <2>3
<1>5. ASSUME NEW r \in Requests, PlayerAnswers(r)
      PROVE  (Pending \/ \A t \in Sids : Converged(t))'
  <2>1. /\ call[r].step = "player" /\ \A q \in Requests : q # r => call'[q] = call[q]
        /\ UNCHANGED <<recordVars, eventingVars>>
    BY <1>1, <1>5 DEF PlayerAnswers, RCTypes
  <2>2. ~Pending' => ~Pending
    BY <2>1 DEF Pending
  <2> QED  BY <1>2, <2>1, <2>2
<1>6. ASSUME NEW r \in Requests, UpdateRecord(r)
      PROVE  Pending'
  BY <1>1, <1>6 DEF UpdateRecord, RCTypes, Pending
<1>7. ASSUME NEW r \in Requests, NotifyVolume(r), NEW t \in Sids
      PROVE  Converged(t)'
  <2>1. /\ call[r].body = Record /\ call[r].body \in Bodies /\ UNCHANGED recordVars
        /\ NotifySubscribers("RenderingControl", call[r].body)
    BY <1>7 DEF NotifyVolume, RCInv, RCTypes, CallOK
  <2>2. Record' = Record
    BY <2>1 DEF Record, recordVars
  <2> QED  BY <2>1, <2>2, EventIsLast DEF Converged
<1>8. CASE TurnVolume
  BY <1>2, <1>8 DEF TurnVolume, Pending
<1>9. ASSUME UNCHANGED renderingVars
      PROVE  Record' = Record /\ (Pending' <=> Pending)
  BY <1>9 DEF renderingVars, recordVars, Record, Pending
<1>10. ASSUME NEW s \in Sids, SubscriptionStep(s), UNCHANGED renderingVars
       PROVE  (Pending \/ \A t \in Sids : Converged(t))'
  BY <1>9, <1>10, LastEventKept DEF Converged
<1>11. ASSUME NEW s \in Sids, Subscribe(s, Record), UNCHANGED renderingVars
       PROVE  (Pending \/ \A t \in Sids : Converged(t))'
  <2>1. ASSUME NEW t \in Sids, Converged(t)
        PROVE  Converged(t)'
    <3>1. CASE t = s
      BY <1>9, <1>11, <3>1, FirstEvent DEF Converged
    <3>2. CASE t # s
      <4>1. Same(t)
        BY <1>1, <1>11, <3>2, OthersSame, RecordType
      <4> QED  BY <1>9, <1>11, <2>1, <4>1, SameLastEvent DEF Converged, Same
    <3> QED  BY <3>1, <3>2
  <2> QED  BY <1>9, <1>11, <2>1
<1>12. CASE Tick /\ UNCHANGED renderingVars
  <2>1. UNCHANGED <<subscribers, queue, hand>>
    BY <1>12 DEF Tick, workerVars
  <2> QED  BY <1>9, <1>12, <2>1 DEF Converged, LastEvent
<1> QED
  BY <1>3, <1>4, <1>5, <1>6, <1>7, <1>8, <1>10, <1>11, <1>12 DEF RCNext, RequestStep, Rested

(* The last event of every subscriber of the service is the present volume  *)
(* and mute, once no request has one to send.                                *)
THEOREM EventsConvergeTheorem == RCSpec => []EventsConverge
<1> DEFINE C == Pending \/ \A t \in Sids : Converged(t)
<1>1. RCInit => C
  BY DEF RCInit, EventingInit, Converged
<1>2. RCSpec => [](RCInv /\ EventingTypeOK)
  BY RCInvInit, RCInvStep, RCImplementsEventing, EventingTypeCorrect, PTL DEF RCSpec
<1>3. RCInv /\ RCInv' /\ EventingTypeOK /\ EventingTypeOK' /\ C /\ [RCNext]_rcVars => C'
  BY ConvergeStep
<1>4. EventingTypeOK /\ C => EventsConverge
  BY DEF EventsConverge, Pending, Converged, EventingTypeOK
<1> HIDE DEF C
<1> QED  BY <1>1, <1>2, <1>3, <1>4, PTL DEF RCSpec
===============================================================================
