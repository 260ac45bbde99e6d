------------------------------- MODULE Position -------------------------------
(***************************************************************************)
(* The position cache of the AVTransport service (internal/upnp/upnp.go)   *)
(* over discrete time, with the requests that set it, the polls of         *)
(* GetPositionInfo and what the player reports meanwhile.                  *)
(*                                                                         *)
(* Time is relative: the cached position runs with the clock while the     *)
(* cache says so, and guards count down to the last instant at which they  *)
(* still hold.  Requests come one at a time (module Transport is about     *)
(* their races), polls at any time; a poll may be overtaken by requests    *)
(* between its look at session and player and its use of the cache.  What  *)
(* requests do to a session that is still starting is left out.            *)
(*                                                                         *)
(* A player that was paused or resumed may say 0 for a while; one that was *)
(* sought to 0 at the start of a track may go on counting from where it    *)
(* was; an idle one says 0.  Otherwise it reports where it is, or nothing. *)
(***************************************************************************)
EXTENDS Integers

CONSTANTS
    FreshMin, FreshMax, FreshHold,  \* freshPlayRebaseMin, -Max, -Hold
    ZeroLimit,                      \* the 2 s up to which a position may be a stale zero
    Guard,                          \* the 10 s of guardZero after a pause or resume
    ZeroFor,                        \* a stale zero lasts at most so long: an assumption on the player
    Slack,                          \* ticks while a request or poll is under way
    Tolerance,                      \* what an answer may be off
    MaxPos                          \* bound on positions, the cached one included

ASSUME PositionAssumption ==
    /\ {FreshMin, FreshMax, FreshHold, ZeroLimit, Guard, ZeroFor, Slack, Tolerance, MaxPos}
         \subseteq Nat
    /\ FreshMin <= ZeroLimit /\ ZeroLimit < FreshMax /\ FreshMax < MaxPos
    /\ ZeroFor + 2 * Slack <= Guard /\ Slack < FreshHold /\ FreshHold <= Guard

VARIABLES
    session,  \* the state of the current session; "ended" is stopped or error
    cache,    \* posCache: known (valid, and of the current session), position, running, zero
              \* (guard), fresh (hold); sure is not in the code: nothing has moved the player since
              \* that the cache does not know of
    player,   \* state, pos, stale (which reports), off (added to them), left (for so long)
    req,      \* the request under way: pc, pos (resumePos, offset), want (where the player was)
    poll,     \* GetPositionInfo: busy, st (the state it saw), status, crossed (by a step that it should have seen)
    waited    \* ticks since req or poll was begun

vars == <<session, cache, player, req, poll, waited>>

Off == -1  \* a guard that is not set or over

NoCache == [known |-> FALSE, position |-> 0, running |-> FALSE, zero |-> Off, fresh |-> Off,
            sure |-> TRUE]

-----------------------------------------------------------------------------
(* posCache: the operators map the cache to the cache after the method, or, *)
(* where the method answers with a position, are conditions of answering.   *)

Set(c, pos, running) ==
    [known |-> TRUE, position |-> pos, running |-> running, sure |-> TRUE,
     zero |-> IF ~c.known \/ pos > ZeroLimit THEN Off ELSE c.zero,
     fresh |-> IF ~c.known \/ pos > FreshMin THEN Off ELSE c.fresh]

\* mutant: the guard is forgotten
NoGuard(c, duration) == c
\* mutant: whatever session the position is of
GuardAny(c, duration) == [c EXCEPT !.zero = duration]
GuardZero(c, duration) == IF c.known THEN [c EXCEPT !.zero = duration] ELSE c

\* mutant: the hold is forgotten
NoHold(c) == c
HoldFreshZero(c) == IF c.known THEN [c EXCEPT !.fresh = FreshHold] ELSE c

\* The position is kept up to date by Tick, so an estimate only changes whether it runs.
Estimate(c, running) == IF c.known THEN [c EXCEPT !.running = running] ELSE c

Suppressed(c, pos) == c.known /\ c.fresh # Off /\ pos > FreshMin

GuardedZero(c, pos) == pos <= ZeroLimit /\ c.known /\ c.zero # Off /\ c.position > ZeroLimit

\* mutant: an idle player is believed
IdleTaken(c, status) == FALSE
IdleZero(c, status) ==
    status.state = "idle" /\ status.pos <= ZeroLimit /\ c.known /\ c.position > ZeroLimit

NoStatus == [state |-> "none", pos |-> 0, right |-> FALSE]

\* A report from the start ends the hold, whether or not it is believed afterwards.
Unheld(c, status) ==
    IF c.known /\ status # NoStatus /\ status.pos <= FreshMin THEN [c EXCEPT !.fresh = Off] ELSE c

CacheBackendPosition(c, status, running) ==
    IF \/ status = NoStatus
       \/ Suppressed(c, status.pos)
       \/ GuardedZero(c, status.pos)
    THEN Estimate(Unheld(c, status), running)
    ELSE [Set(Unheld(c, status), status.pos, running)
            EXCEPT !.sure = \/ status.right /\ (running <=> status.state = "playing")
                            \/ c.sure /\ c.position > ZeroLimit]

\* playbackPositionForSession for a session seen in state st: the cache after it
PlaybackPosition(c, st, status) ==
    LET running == st = "playing" IN
    IF st \notin {"playing", "paused"} THEN Estimate(c, running)
    ELSE IF status # NoStatus /\ ~Suppressed(c, status.pos) /\ IdleZero(c, status)
    THEN Estimate(Unheld(c, status), running)
    ELSE CacheBackendPosition(c, status, running)

-----------------------------------------------------------------------------
(* The player *)

\* right is not in the code: that the position is the one of the player
Reported ==
    LET p == IF player.state = "idle" \/ player.stale = "zero" THEN 0
             ELSE IF player.pos + player.off < MaxPos THEN player.pos + player.off ELSE MaxPos
    IN [state |-> player.state, pos |-> p, right |-> p = player.pos]

Statuses == {Reported, NoStatus}

At(state, pos) == [state |-> state, pos |-> pos, stale |-> "no", off |-> 0, left |-> 0]

\* Where the player stands or goes on at pos.  Below the limit a zero is not guarded against.
Commanded(state, pos) ==
    {At(state, pos)} \cup
        (IF pos > ZeroLimit + 2 * Slack
         THEN {[At(state, pos) EXCEPT !.stale = "zero", !.left = ZeroFor]} ELSE {})

Settled == [player EXCEPT !.stale = "no", !.off = 0, !.left = 0]

Settle ==
    /\ player.stale # "no" /\ player' = Settled
    /\ UNCHANGED <<session, cache, req, poll, waited>>

Crossed == poll' = [poll EXCEPT !.crossed = poll.busy]
Unsure == cache' = [cache EXCEPT !.sure = FALSE]

\* Somebody pauses or resumes the player itself, or the track ends, not amid a request.
UserPauses ==
    /\ player.state = "playing" /\ req.pc = "none"
    /\ player' = At("paused", player.pos) /\ Unsure /\ Crossed
    /\ UNCHANGED <<session, req, waited>>

UserResumes ==
    /\ player.state = "paused" /\ req.pc = "none"
    /\ player' = At("playing", player.pos) /\ Unsure /\ Crossed
    /\ UNCHANGED <<session, req, waited>>

Finishes ==
    /\ player.state = "playing" /\ req.pc = "none"
    /\ player' = At("idle", 0) /\ Unsure /\ Crossed
    /\ UNCHANGED <<session, req, waited>>

\* A paused player may go idle; pos is then where it was paused, though it says 0.  If it does so
\* while Pause waits, and a poll has lifted the guard, Pause takes that 0.
GoesIdle ==
    /\ player.state = "paused" /\ session = "paused"
    /\ player' = At("idle", player.pos)
    /\ IF req.pc = "paused" THEN Unsure /\ Crossed ELSE UNCHANGED <<cache, poll>>
    /\ UNCHANGED <<session, req, waited>>

\* The clock.  Guards that have reached 0 still hold, at that instant.
Count(left) == IF left = Off THEN Off ELSE left - 1

Tick ==
    /\ player.state = "playing" => player.pos < MaxPos
    /\ waited < Slack \/ (req.pc = "none" /\ ~poll.busy)
    /\ waited' = IF req.pc = "none" /\ ~poll.busy THEN 0 ELSE waited + 1
    /\ cache' = [cache EXCEPT !.position = IF cache.running /\ @ < MaxPos THEN @ + 1 ELSE @,
                              !.zero = Count(@), !.fresh = Count(@)]
    /\ LET p == IF player.stale # "no" /\ player.left = 0 THEN Settled ELSE player IN
       player' = [p EXCEPT !.pos = IF p.state = "playing" THEN @ + 1 ELSE @,
                           !.left = IF @ > 0 THEN @ - 1 ELSE 0]
    /\ UNCHANGED <<session, req, poll>>

-----------------------------------------------------------------------------
(* GetPositionInfo and the monitors *)

NoPoll == [busy |-> FALSE, st |-> "none", status |-> NoStatus, crossed |-> FALSE]

PollBegin ==
    /\ ~poll.busy /\ session # "none"
    /\ \E s \in IF session \in {"playing", "paused"} THEN Statuses ELSE {NoStatus} :
          poll' = [busy |-> TRUE, st |-> session, status |-> s, crossed |-> req.pc \in {"seek", "pause"}]
    /\ waited' = IF req.pc = "none" THEN 0 ELSE waited
    /\ UNCHANGED <<session, cache, player, req>>

PollEnd ==
    /\ poll.busy /\ poll' = NoPoll
    /\ LET c == PlaybackPosition(cache, poll.st, poll.status) IN
       cache' = [c EXCEPT !.sure = @ /\ ~poll.crossed]
    /\ UNCHANGED <<session, player, req, waited>>

\* The monitor, or GetTransportInfo, finds the player paused, playing again or at its end.
FindsPaused ==
    /\ req.pc = "none" /\ session = "playing" /\ player.state = "paused"
    /\ \E s \in Statuses : cache' = CacheBackendPosition(cache, s, FALSE)
    /\ session' = "paused"
    /\ Crossed
    /\ UNCHANGED <<player, req, waited>>

FindsPlaying ==
    /\ req.pc = "none" /\ session = "paused" /\ player.state = "playing"
    /\ session' = "playing"
    /\ Crossed
    /\ UNCHANGED <<cache, player, req, waited>>

FindsIdle ==
    /\ req.pc = "none" /\ session = "playing" /\ player.state = "idle"
    /\ session' = "ended" /\ cache' = NoCache
    /\ Crossed
    /\ UNCHANGED <<player, req, waited>>

-----------------------------------------------------------------------------
(* Requests *)

Idle == [pc |-> "none", pos |-> 0, want |-> Off]

Begins == req.pc = "none" /\ waited' = (IF poll.busy THEN waited ELSE 0) /\ Crossed
Goes(pc) == req' = [req EXCEPT !.pc = pc] /\ Crossed /\ UNCHANGED waited
Ends == req' = Idle /\ Crossed /\ UNCHANGED waited

\* A poll of the session before leaves the new one without a position; it is not pursued.
SetURI ==
    /\ Begins /\ ~poll.busy
    /\ session' = "loaded"
    /\ cache' = Set(NoCache, 0, FALSE)
    /\ UNCHANGED <<player, req>>

Stop ==
    /\ Begins /\ session # "none"
    /\ session' = "ended" /\ cache' = NoCache
    /\ player' \in {player, At("idle", player.pos)}
    /\ UNCHANGED req

\* A fresh Play: when its call returns the track has been playing for a moment, or it failed.
\* What a request that failed has left in the cache is still there: position, guard and hold.
PlayFresh ==
    /\ Begins /\ session \in {"loaded", "ended"}
    /\ Unsure
    /\ \/ /\ session' = "starting" /\ req' = [Idle EXCEPT !.pc = "confirmFresh"]
          /\ \E p \in 0 .. FreshMax + 1 : player' = At("playing", p)
       \/ session' = "ended" /\ UNCHANGED <<player, req>>

Accept == session' = "playing" /\ Ends

\* tryRebaseFreshPlay: the seek may fail, which changes nothing.
ConfirmFresh ==
    /\ req.pc = "confirmFresh" /\ player.state = "playing"
    /\ \E s \in Statuses :
          LET rebase == s # NoStatus /\ s.pos >= FreshMin /\ s.pos <= FreshMax IN
          \/ /\ rebase
             /\ player' = [At("playing", 0) EXCEPT !.stale = "old", !.off = player.pos,
                                                   !.left = FreshHold - Slack]
             /\ Goes("rebased") /\ UNCHANGED <<session, cache>>
          \/ cache' = CacheBackendPosition(cache, s, TRUE) /\ Accept /\ UNCHANGED player

Rebased ==
    /\ req.pc = "rebased"
    /\ cache' = HoldFreshZero(GuardZero(Set(cache, 0, TRUE), FreshHold))
    /\ Accept
    /\ UNCHANGED player

\* A Play of a paused session.  want is only kept where the cache is to be trusted.  From below the
\* limit there is no seek back, and the time such requests take adds to what the cache is off.
PlayPaused ==
    /\ Begins /\ session = "paused"
    /\ session' = "starting"
    /\ cache' = [GuardZero(Estimate(cache, FALSE), Guard) EXCEPT !.sure = @ /\ cache.position > ZeroLimit]
    /\ req' = [pc |-> "resume", pos |-> IF cache.known THEN cache.position ELSE 0,
               want |-> IF cache.sure /\ player.state # "playing" THEN player.pos ELSE Off]
    /\ UNCHANGED player

Fail == session' = "ended" /\ Ends

\* mutant: the player is left where it goes on
ResumeOnly ==
    /\ req.pc = "resume" /\ Goes("confirm")
    /\ \E p \in {0, player.pos} : player' \in Commanded("playing", p)
    /\ UNCHANGED <<session, cache>>

\* The player goes on where it was, or from the start.
Resume ==
    /\ req.pc = "resume"
    /\ \/ /\ \E p \in {0, player.pos} : player' \in Commanded("playing", p)
          /\ Goes(IF req.pos > ZeroLimit THEN "seekBack" ELSE "confirm")
          /\ UNCHANGED session
       \/ Fail /\ UNCHANGED player
    /\ UNCHANGED cache

\* After a seek back that failed the player is paused.
SeekBack ==
    /\ req.pc = "seekBack"
    /\ \/ /\ player' \in Commanded(player.state, req.pos)
          /\ cache' = GuardZero(Set(cache, req.pos, FALSE), Guard)
          /\ Goes("confirm") /\ UNCHANGED session
       \/ Fail /\ player' \in {player, At("paused", player.pos)} /\ UNCHANGED cache

Confirm ==
    /\ req.pc = "confirm" /\ player.state = "playing"
    /\ \E s \in Statuses :
          LET c == CacheBackendPosition(cache, s, TRUE) IN
          cache' = IF req.pos > ZeroLimit THEN GuardZero(c, Guard) ELSE c
    /\ Accept
    /\ UNCHANGED player

PlayTimesOut ==
    /\ req.pc \in {"confirmFresh", "confirm"}
    /\ cache' = NoCache /\ Fail
    /\ UNCHANGED player

\* The cache is brought up to date and stopped before the player is told.
Pause ==
    /\ Begins /\ session = "playing"
    /\ session' = "paused"
    /\ \E s \in Statuses :
          cache' = GuardZero(Estimate(PlaybackPosition(cache, session, s), FALSE), Guard)
    /\ req' = [Idle EXCEPT !.pc = "pause"]
    /\ UNCHANGED player

\* A pause that fails leaves the cache as it is.
PauseCall ==
    /\ req.pc = "pause"
    /\ \/ /\ player' \in {player} \cup (IF player.state = "playing"
                                        THEN {At("idle", player.pos)} \cup
                                             Commanded("paused", player.pos) ELSE {})
          /\ Goes("paused") /\ UNCHANGED session
       \/ Fail /\ UNCHANGED player
    /\ UNCHANGED cache

PauseConfirmed ==
    /\ req.pc = "paused" /\ player.state # "playing"
    /\ \E s \in Statuses : cache' = CacheBackendPosition(cache, s, FALSE)
    /\ Ends
    /\ UNCHANGED <<session, player>>

\* The player plays on, and so does the session, but not the cache.
PauseTimesOut ==
    /\ req.pc = "paused" /\ player.state = "playing"
    /\ session' = "playing" /\ Unsure /\ Ends
    /\ UNCHANGED player

SeekBegin ==
    /\ Begins /\ session \in {"playing", "paused"}
    /\ \E offset \in 0 .. MaxPos :
          /\ cache' = [Set(cache, offset, session = "playing")
                         EXCEPT !.sure = session = "playing" <=> player.state = "playing"]
          /\ req' = [pc |-> "seek", pos |-> offset, want |-> Off]
    /\ UNCHANGED <<session, player>>

SeekCall ==
    /\ req.pc = "seek"
    /\ \/ player' = At(player.state, req.pos) /\ Ends /\ UNCHANGED session
       \/ Fail /\ UNCHANGED player
    /\ UNCHANGED cache

-----------------------------------------------------------------------------
Init ==
    /\ session = "none"
    /\ cache = NoCache
    /\ player = At("idle", 0)
    /\ req = Idle
    /\ poll = NoPoll
    /\ waited = 0

World == Settle \/ UserPauses \/ UserResumes \/ Finishes \/ GoesIdle \/ Tick

Reads == PollBegin \/ PollEnd \/ FindsPaused \/ FindsPlaying \/ FindsIdle

Requests ==
    \/ SetURI \/ Stop
    \/ PlayFresh \/ ConfirmFresh \/ Rebased
    \/ PlayPaused \/ Resume \/ SeekBack \/ Confirm \/ PlayTimesOut
    \/ Pause \/ PauseCall \/ PauseConfirmed \/ PauseTimesOut
    \/ SeekBegin \/ SeekCall

Next == World \/ Reads \/ Requests

Spec == Init /\ [][Next]_vars

-----------------------------------------------------------------------------
Near(a, b) == a <= b + Tolerance /\ b <= a + Tolerance

PositionTypeOK ==
    /\ session \in {"none", "loaded", "starting", "playing", "paused", "ended"}
    /\ cache \in [known : BOOLEAN, position : 0 .. MaxPos, running : BOOLEAN, sure : BOOLEAN,
                  zero : Off .. Guard, fresh : Off .. FreshHold]
    /\ cache.known \/ [cache EXCEPT !.sure = TRUE] = NoCache
    /\ player.state \in {"playing", "paused", "idle"} /\ player.pos \in 0 .. MaxPos
    /\ player.stale \in {"no", "zero", "old"} /\ player.off \in 0 .. FreshMax
    /\ player.left \in 0 .. (ZeroFor + FreshHold)
    /\ req.pc \in {"none", "confirmFresh", "rebased", "resume", "seekBack", "confirm", "pause",
                   "paused", "seek"}
    /\ req.pos \in 0 .. MaxPos /\ req.want \in Off .. MaxPos
    /\ waited \in 0 .. Slack

(* GetPositionInfo tells where the player is, be it playing, paused or idle  *)
(* after a pause, while the player says 0 or counts on from before a seek to *)
(* the start, or cannot be asked: as long as nothing has moved the player     *)
(* behind the back of the cache.                                             *)
AnswersNearPlayer ==
    /\ cache.sure /\ req.pc # "seek"
    /\ \/ session = "playing" /\ player.state = "playing"
       \/ session = "paused" /\ player.state # "playing"
    => \A s \in Statuses : LET c == PlaybackPosition(cache, session, s) IN
                           c.known => Near(c.position, player.pos)

(* A resume ends where the player was when it was asked for, though the     *)
(* player may start over and say 0 for a while.                             *)
ResumesInPlace ==
    req.pc = "confirm" /\ req.want # Off /\ player.state = "playing" => Near(player.pos, req.want)
=============================================================================
