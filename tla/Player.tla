-------------------------------- MODULE Player --------------------------------
(***************************************************************************)
(* The Music Assistant player the bridge controls, as the code of the      *)
(* bridge sees it through maadapter.PlayerClient: a queue that holds one   *)
(* source and a playback state.  It is external to the repository; the     *)
(* people in the house also operate it from its own user interface.        *)
(*                                                                         *)
(* "unknown" stands for every state string the bridge has no case for, in  *)
(* particular for the player loading a source it was told to play.         *)
(***************************************************************************)
EXTENDS Naturals

CONSTANTS
    Sources,       \* the source URLs control points and users choose
    NoSource,      \* an empty queue
    Foreign,       \* sources started from Music Assistant's own user interface
    Outcomes,      \* what may become of a command: subset of {"ok", "lost", "late"}
    MaxExternal    \* bound: how often the user interface is used

ASSUME PlayerAssumption ==
    /\ NoSource \notin Sources
    /\ Foreign \subseteq Sources
    /\ Outcomes \subseteq {"ok", "lost", "late"}
    /\ MaxExternal \in Nat

VARIABLES
    player,        \* [state, source]
    external       \* uses of the user interface left

playerVars == <<player, external>>

PlayerState == {"playing", "paused", "idle", "unknown"}

PlayerInit ==
    /\ player = [state |-> "idle", source |-> NoSource]
    /\ external = MaxExternal

\* What a command does to the player when it takes effect.
Effect(cmd, source) ==
    CASE cmd = "play_media" -> {[state |-> "unknown", source |-> source]}
      [] cmd = "resume"     -> IF player.source = NoSource THEN {player}
                               ELSE {[player EXCEPT !.state = "unknown"],
                                     [player EXCEPT !.state = "playing"]}
      [] cmd = "pause"      -> {[player EXCEPT !.state = s] : s \in
                                  CASE player.state = "playing" -> {"paused"}
                                    [] player.state = "unknown" -> {"paused", "unknown"}
                                    [] OTHER                    -> {player.state}}
      [] cmd = "stop"       -> {[player EXCEPT !.state = "idle"]}
      [] cmd = "seek"       -> {player}

\* The bridge's call returned without an error: the command took effect.
CommandOK(cmd, source) ==
    /\ player' \in Effect(cmd, source)
    /\ UNCHANGED external

\* The call returned an error.  The command was lost, or it was carried out although the
\* answer was not read (a timeout, a connection that broke after the request was written).
CommandFails(cmd, source) ==
    /\ \/ "lost" \in Outcomes /\ UNCHANGED player
       \/ "late" \in Outcomes /\ player' \in Effect(cmd, source)
    /\ UNCHANGED external

-----------------------------------------------------------------------------
(* What the player does by itself, and what its own users do. *)

PlayerStarts ==
    /\ player.state = "unknown"
    /\ player' = [player EXCEPT !.state = "playing"]
    /\ UNCHANGED external

\* The end of the track, or a source that cannot be played.
PlayerEnds ==
    /\ player.state \in {"playing", "unknown"}
    /\ player' = [player EXCEPT !.state = "idle"]
    /\ UNCHANGED external

UserToggles ==
    /\ external > 0
    /\ \/ player.state = "playing" /\ player' = [player EXCEPT !.state = "paused"]
       \/ player.state = "paused" /\ player' = [player EXCEPT !.state = "playing"]
    /\ external' = external - 1

UserPlays ==
    /\ external > 0
    /\ \E source \in Foreign : player' = [state |-> "playing", source |-> source]
    /\ external' = external - 1

PlayerStep == PlayerStarts \/ PlayerEnds \/ UserToggles \/ UserPlays

PlayerTypeOK ==
    /\ player \in [state : PlayerState, source : Sources \cup {NoSource}]
    /\ external \in 0..MaxExternal
===============================================================================
