---------------------------- MODULE RenderingControl ----------------------------
(***************************************************************************)
(* The RenderingControl service of upnp.Handler (serveRenderingControl in  *)
(* internal/upnp/upnp.go) composed with the event subscriptions: volume    *)
(* and mute as the bridge records them, the volume of the player, and the  *)
(* events that tell the subscribers.                                       *)
(*                                                                         *)
(* SetVolume and SetMute hold rcMu from their first read to their event,   *)
(* so at most one is in progress; it calls the player, then changes the    *)
(* record under h.mu, then queues the event under h.mu again.  New         *)
(* subscribers read the record for their initial event at any moment in    *)
(* between.  Everybody in the house may turn the volume of the player.     *)
(***************************************************************************)
EXTENDS Eventing, Integers

CONSTANTS
    Requests,      \* SetVolume and SetMute requests that can be in progress
    Nobody,        \* no request
    Desired,       \* the numbers control points send as DesiredVolume
    Levels,        \* volumes the player can be turned to by hand
    Failures,      \* subset of {"lost", "late"}: what a failed call may have done
    MaxCommands    \* bound: requests, and turns of the player's volume, in all

ASSUME RenderingAssumption ==
    /\ Nobody \notin Requests
    /\ Bodies = [volume : 0..100, muted : BOOLEAN]
    /\ "RenderingControl" \in Services
    /\ Desired \subseteq Int
    /\ Levels \subseteq 0..100 /\ Levels # {}
    /\ Failures \subseteq {"lost", "late"}
    /\ MaxCommands \in Nat

VARIABLES
    volume, prevVolume, muted,   \* the fields of Handler
    rcMu,                        \* the request that holds Handler.rcMu
    call,                        \* request -> [step, kind, level, body]
    playerVolume,                \* external: the volume of the player
    agreed,                      \* nothing but the bridge has set it since its last success
    commands                     \* bound: requests still to come

recordVars == <<volume, prevVolume, muted>>
externalVars == <<playerVolume, agreed>>
renderingVars == <<recordVars, rcMu, call, externalVars, commands>>
rcVars == <<renderingVars, eventingVars>>

Record == [volume |-> volume, muted |-> muted]
Resting == [step |-> "idle", kind |-> "sync", level |-> 0, body |-> NoDelivery.body]

ClampAbove(v) == IF v > 100 THEN 100 ELSE v   \* mutant: no lower limit
\* What does not parse as a number counts as 50, which is one of Desired.
Clamp(v) == IF v < 0 THEN 0 ELSE IF v > 100 THEN 100 ELSE v

-----------------------------------------------------------------------------
(* The requests *)

LockNothing(r) == UNCHANGED rcMu   \* mutant: h.mu alone
Lock(r) == rcMu = Nobody /\ rcMu' = r
Unlock(r) == rcMu' = IF rcMu = r THEN Nobody ELSE rcMu

\* A request takes rcMu, reads the record, and knows the level to send to the player, what it
\* will record (kind) and, but for mute after a new volume, what it will tell (body).
Begin(r, kind, level, body) ==
    /\ call[r].step = "idle"
    /\ commands > 0 /\ commands' = commands - 1
    /\ Lock(r)
    /\ call' = [call EXCEPT ![r] = [step |-> "player", kind |-> kind, level |-> level, body |-> body]]
    /\ UNCHANGED <<recordVars, externalVars, eventingVars>>

KeepsMuted(v) == muted   \* mutant: a new volume leaves mute on
MutedAfter(v) == muted /\ v = 0

SetVolume(r) ==
    \E desired \in Desired :
        LET v == Clamp(desired) IN Begin(r, "volume", v, [volume |-> v, muted |-> muted])

\* The volume a renderer that is not muted any more goes back to.
RestoreVolume == IF prevVolume > 0 THEN prevVolume ELSE volume

SetMute(r) ==
    \/ Begin(r, "sync", IF muted THEN 0 ELSE volume, Record)
    \/ ~muted /\ Begin(r, "mute", 0, [volume |-> volume, muted |-> TRUE])
    \/ muted  /\ Begin(r, "unmute", RestoreVolume, [volume |-> RestoreVolume, muted |-> FALSE])

\* A SetMute that changes nothing ends with the player's answer, as a failure does.
PlayerAnswers(r) ==
    /\ call[r].step = "player"
    /\ \/ /\ playerVolume' = call[r].level /\ agreed' = TRUE
          /\ IF call[r].kind = "sync"
             THEN call' = [call EXCEPT ![r] = Resting] /\ Unlock(r)
             ELSE call' = [call EXCEPT ![r].step = "record"] /\ UNCHANGED rcMu
       \/ /\ \/ "lost" \in Failures /\ UNCHANGED externalVars
             \/ "late" \in Failures /\ playerVolume' = call[r].level /\ agreed' = FALSE
          /\ call' = [call EXCEPT ![r] = Resting] /\ Unlock(r)
    /\ UNCHANGED <<recordVars, commands, eventingVars>>

\* A new volume takes mute away in the section that records it.
UpdateRecord(r) ==
    /\ call[r].step = "record"
    /\ IF call[r].kind = "mute" THEN prevVolume' = volume /\ UNCHANGED volume
                                ELSE volume' = call[r].body.volume /\ UNCHANGED prevVolume
    /\ muted' = IF call[r].kind = "volume" THEN MutedAfter(call[r].level) ELSE call[r].body.muted
    /\ call' = [call EXCEPT ![r].step = "notify", ![r].body.muted = muted']
    /\ UNCHANGED <<rcMu, externalVars, commands, eventingVars>>

NotifyVolume(r) ==
    /\ call[r].step = "notify"
    /\ NotifySubscribers("RenderingControl", call[r].body)
    /\ call' = [call EXCEPT ![r] = Resting] /\ Unlock(r)
    /\ UNCHANGED <<recordVars, externalVars, commands>>

\* Somebody turns the volume of the player itself.
TurnVolume ==
    /\ commands > 0 /\ commands' = commands - 1
    /\ playerVolume' \in Levels /\ agreed' = FALSE
    /\ UNCHANGED <<recordVars, rcMu, call, eventingVars>>

-----------------------------------------------------------------------------
RCInit ==
    /\ EventingInit
    /\ volume = 50 /\ prevVolume = 50 /\ muted = FALSE
    /\ rcMu = Nobody
    /\ call = [r \in Requests |-> Resting]
    /\ playerVolume \in Levels /\ agreed = FALSE
    /\ commands = MaxCommands

RequestStep(r) ==
    SetVolume(r) \/ SetMute(r) \/ PlayerAnswers(r) \/ UpdateRecord(r) \/ NotifyVolume(r)

\* The requests the bound allows are all answered.
Rested ==
    /\ commands = 0 /\ \A r \in Requests : call[r].step = "idle"
    /\ UNCHANGED rcVars

RCNext ==
    \/ \E r \in Requests : RequestStep(r)
    \/ TurnVolume
    \/ /\ \/ \E s \in Sids : SubscriptionStep(s) \/ Subscribe(s, Record)
          \/ Tick
       /\ UNCHANGED renderingVars
    \/ Rested

RCSpec == RCInit /\ [][RCNext]_rcVars

-----------------------------------------------------------------------------
RCTypeOK ==
    /\ EventingTypeOK
    /\ volume \in 0..100 /\ prevVolume \in 0..100 /\ muted \in BOOLEAN
    /\ rcMu \in Requests \cup {Nobody}
    /\ call \in [Requests -> [step : {"idle", "player", "record", "notify"},
                              kind : {"volume", "mute", "unmute", "sync"},
                              level : 0..100, body : Bodies]]
    /\ playerVolume \in 0..100 /\ agreed \in BOOLEAN
    /\ commands \in 0..MaxCommands

(* The record and the player agree whenever no request is between them:     *)
(* after any sequence of volumes, mutes and failed calls, GetVolume and     *)
(* GetMute say what is heard, unless somebody else turned the volume or a    *)
(* call that was reported as failed was carried out.                         *)
VolumeAgrees ==
    agreed /\ (\A r \in Requests : call[r].step # "record")
        => playerVolume = IF muted THEN 0 ELSE volume

\* What a subscriber was or will be told last.
LastEvent(s) ==
    IF queue[s] # <<>> THEN queue[s][Len(queue[s])].body ELSE hand[s].body

(* The last event of every subscriber of the service is the present volume  *)
(* and mute, once no request has an event to send: no two events overtake    *)
(* each other, and no subscriber that comes in between misses one.           *)
EventsConverge ==
    (\A r \in Requests : call[r].step # "notify") =>
        \A s \in subscribers : ServiceOf[s] = "RenderingControl" => LastEvent(s) = Record
===============================================================================
