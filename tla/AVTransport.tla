------------------------------ MODULE AVTransport ------------------------------
(***************************************************************************)
(* What the bridge promises a control point about the AVTransport service: *)
(* the transport state that GetTransportInfo reports for the media loaded  *)
(* last, and how it may change.  The table is the one of section 7 of      *)
(* docs/pre-PRD.md and of the switch of GetTransportInfo.                  *)
(*                                                                         *)
(* One step is wider than a renderer with a single thread would need:      *)
(* Pause may also be accepted by media that has just stopped, because a    *)
(* Pause that waits for the player's position may lose a race against the  *)
(* end of the track and is then carried out all the same.                  *)
(***************************************************************************)
CONSTANTS Media, NoMedia

VARIABLES media, used, transportState, transportStatus

avtVars == <<media, used, transportState, transportStatus>>

AVTInit ==
    /\ media = NoMedia /\ used = {}
    /\ transportState = "STOPPED" /\ transportStatus = "OK"

Becomes(state, status) ==
    /\ transportState' = state /\ transportStatus' = status
    /\ UNCHANGED <<media, used>>

\* Media is loaded once: a new SetAVTransportURI never brings an old session back.
Load ==
    /\ \E m \in Media \ used : media' = m /\ used' = used \cup {m}
    /\ transportState' = "STOPPED" /\ transportStatus' = "OK"

Start ==
    /\ media # NoMedia
    /\ transportState \in {"STOPPED", "PAUSED_PLAYBACK"}
    /\ Becomes("TRANSITIONING", "OK")

\* PLAYING is never reached from STOPPED: it confirms a Play or resumes a pause.
Confirm == transportState \in {"TRANSITIONING", "PAUSED_PLAYBACK"} /\ Becomes("PLAYING", "OK")

Hold == media # NoMedia /\ transportState # "PAUSED_PLAYBACK" /\ Becomes("PAUSED_PLAYBACK", "OK")

End == media # NoMedia /\ \E status \in {"OK", "ERROR_OCCURRED"} : Becomes("STOPPED", status)

AVTNext == Load \/ Start \/ Confirm \/ Hold \/ End

AVTSpec == AVTInit /\ [][AVTNext]_avtVars
===============================================================================
