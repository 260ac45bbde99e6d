---------------------------- MODULE Position_proofs ----------------------------
(***************************************************************************)
(* Theorems about the position cache, for any limits, guards and delays    *)
(* that PositionAssumption allows.                                         *)
(***************************************************************************)
EXTENDS Position, TLAPS

-----------------------------------------------------------------------------
(* The inductive invariant                                                  *)

States   == {"none", "loaded", "starting", "playing", "paused", "ended"}
PlayerStates == {"playing", "paused", "idle"}

CacheType == [known : BOOLEAN, position : 0 .. MaxPos, running : BOOLEAN, sure : BOOLEAN,
              zero : Off .. Guard, fresh : Off .. FreshHold]

PlayerType == [state : PlayerStates, pos : 0 .. MaxPos, stale : {"no", "zero", "old"},
               off : 0 .. FreshMax, left : 0 .. (ZeroFor + FreshHold)]

PCs == {"none", "confirmFresh", "rebased", "resume", "seekBack", "confirm", "pause", "paused", "seek"}

ReqType == [pc : PCs, pos : 0 .. MaxPos, want : Off .. MaxPos]

StatusType == [state : PlayerStates \cup {"none"}, pos : 0 .. MaxPos, right : BOOLEAN]

PollType == [busy : BOOLEAN, st : States, status : StatusType, crossed : BOOLEAN]

Types ==
    /\ session \in States
    /\ cache \in CacheType /\ (cache.known \/ [cache EXCEPT !.sure = TRUE] = NoCache)
    /\ player \in PlayerType
    /\ req \in ReqType
    /\ poll \in PollType
    /\ waited \in 0 .. Slack

\* The session and the player go together, so that answers are promised.
InStep ==
    \/ session = "playing" /\ player.state = "playing"
    \/ session = "paused" /\ player.state # "playing"

\* What is read and is not the player's position, and how the cache is on its guard
ZeroGuarded == player.stale = "zero" => cache.zero >= player.left + Slack
Harmless == player.off <= ZeroLimit /\ player.off <= Slack
Held == cache.fresh >= player.left + Slack /\ cache.position <= player.pos

WorldOK ==
    /\ player.stale = "no" => player.off = 0
    /\ player.stale = "zero" =>
          player.pos > ZeroLimit + 2 * Slack /\ player.left <= ZeroFor /\ player.state # "idle"
    /\ player.stale = "old" => player.state = "playing"
    /\ cache.sure /\ ~cache.known => session \in {"none", "ended"}

\* The cache is behind by the delays of one poll and one pause, and ahead by that of a seek.
CacheOK ==
    cache.sure /\ req.pc # "seek" /\ InStep =>
        /\ cache.running <=> session = "playing"
        /\ cache.position <= player.pos + Slack
        /\ player.pos <= cache.position + 2 * Slack
        /\ session = "playing" => player.pos <= cache.position + Slack
        /\ ZeroGuarded
        /\ player.stale = "old" => Harmless \/ player.pos = MaxPos \/ Held

\* What a request under way finds
PhaseOK ==
    /\ req.pc \in {"confirmFresh", "rebased", "resume", "seekBack", "confirm"} => session = "starting"
    /\ req.pc \in {"pause", "paused"} => session = "paused"
    /\ req.pc = "seek" => session \in {"playing", "paused"}
    /\ req.pc = "confirmFresh" => player.stale = "no" /\ player.state = "playing"
    /\ req.pc = "seekBack" => player.state = "playing" /\ req.pos > ZeroLimit
    /\ req.pc = "rebased" =>
         /\ player.state = "playing" /\ player.stale # "zero"
         /\ player.pos <= waited /\ player.left <= FreshHold - Slack

\* And what it finds in a cache that can be trusted
SureOK ==
    cache.sure =>
    /\ req.pc = "none" /\ session \in {"playing", "paused"} => InStep
    /\ req.pc \notin {"confirmFresh", "rebased"}
    /\ req.pc \in {"resume", "seekBack", "confirm"} =>
          ~cache.running /\ req.pos = cache.position /\ cache.position > ZeroLimit
    /\ req.pc = "confirm" =>
          /\ cache.position <= player.pos /\ player.pos <= cache.position + waited
          /\ ZeroGuarded /\ player.stale # "old"
    /\ req.pc = "pause" =>
          /\ player.state = "playing" /\ ~cache.running
          /\ cache.position <= player.pos + Slack
          /\ player.pos <= cache.position + Slack + waited
          /\ cache.zero >= Guard - waited
    /\ req.pc = "paused" /\ player.state = "idle" =>
          player.pos = 0 \/ cache.zero >= Guard - waited
    /\ req.pc = "seek" =>
          /\ session = "playing" <=> player.state = "playing"
          /\ cache.running <=> session = "playing"
          /\ req.pos <= cache.position /\ cache.position <= req.pos + waited
          /\ session = "paused" => cache.position = req.pos

\* Where a resume is bound to end
WantOK ==
    req.want # Off =>
    /\ req.pc = "resume" => player.pos = req.want /\ player.state # "playing"
    /\ req.pc \in {"resume", "seekBack"} =>
          req.want <= req.pos + 2 * Slack /\ req.pos <= req.want + Slack
    /\ req.pc = "confirm" =>
          req.want <= player.pos + ZeroLimit + 2 * Slack /\ player.pos <= req.want + Slack + waited

\* The status a poll carries is near the player, or is known for what it is when it is used.
PollClose ==
    /\ poll.status.pos <= player.pos + Slack /\ player.pos <= poll.status.pos + waited
    /\ player.stale # "zero"
    /\ player.stale = "old" => Harmless \/ player.pos = MaxPos

PollRight ==
    /\ poll.status.pos <= player.pos /\ player.pos <= poll.status.pos + waited
    /\ player.stale # "zero"
    /\ player.state # "playing" => player.pos = poll.status.pos
    /\ player.stale = "old" => player.off = 0 \/ player.pos = MaxPos

PollWrong ==
    /\ ~poll.status.right
    /\ \/ poll.status.state = "idle" /\ poll.status.pos = 0
       \/ poll.status.pos = 0 /\ player.stale # "old" /\ cache.zero >= Slack - waited
       \/ /\ cache.fresh >= Slack - waited
          /\ \/ poll.status.pos > FreshMin
             \/ cache.position + Slack - waited <= poll.status.pos

PollOK ==
    poll.busy /\ ~poll.crossed =>
    /\ poll.st = session
    /\ poll.status # NoStatus =>
         /\ req.pc \in {"none", "paused"} /\ session \in {"playing", "paused"}
         /\ \/ poll.status.state = player.state
            \/ poll.status.state = "paused" /\ player.state = "idle" /\ req.pc = "none"
         /\ poll.status.state = "idle" => poll.status.pos = 0
         /\ poll.status.right => PollRight
         /\ cache.sure /\ InStep => PollClose \/ PollWrong

PositionInv == Types /\ WorldOK /\ CacheOK /\ PhaseOK /\ SureOK /\ WantOK /\ PollOK

-----------------------------------------------------------------------------
(* The methods of the cache *)

\* The assumption on the constants, one by one
LEMMA Constants ==
    /\ FreshMin \in Nat /\ FreshMax \in Nat /\ FreshHold \in Nat /\ ZeroLimit \in Nat /\ Guard \in Nat
    /\ ZeroFor \in Nat /\ Slack \in Nat /\ Tolerance \in Nat /\ MaxPos \in Nat
    /\ FreshMin <= ZeroLimit /\ ZeroLimit < FreshMax /\ FreshMax < MaxPos
    /\ ZeroFor + 2 * Slack <= Guard /\ Slack < FreshHold /\ FreshHold <= Guard
    /\ Off = -1 /\ Off \in Int
  BY PositionAssumption DEF PositionAssumption, Off

\* A cache that holds nothing
LEMMA NoCacheType ==
    /\ NoCache \in CacheType /\ ~NoCache.known
    /\ [NoCache EXCEPT !.sure = TRUE] = NoCache
<1>1. NoCache \in CacheType /\ NoCache.sure = TRUE /\ ~NoCache.known
  BY Constants DEF NoCache, CacheType
<1>2. ASSUME NEW c \in CacheType, c.sure = TRUE
      PROVE  [c EXCEPT !.sure = TRUE] = c
  BY <1>2 DEF CacheType
<1> QED  BY <1>1, <1>2

\* set: guards do not outlive a position past what they guard against.
LEMMA SetType ==
    ASSUME NEW c \in CacheType, NEW pos \in 0 .. MaxPos, NEW running \in BOOLEAN
    PROVE  /\ Set(c, pos, running) \in CacheType
           /\ Set(c, pos, running).known /\ Set(c, pos, running).position = pos
           /\ Set(c, pos, running).running = running /\ Set(c, pos, running).sure
           /\ Set(c, pos, running).zero = IF ~c.known \/ pos > ZeroLimit THEN Off ELSE c.zero
           /\ Set(c, pos, running).fresh = IF ~c.known \/ pos > FreshMin THEN Off ELSE c.fresh
  BY Constants DEF Set, CacheType

\* guardZero changes the guard of a known position only.
LEMMA GuardType ==
    ASSUME NEW c \in CacheType, NEW duration \in {Guard, FreshHold}
    PROVE  /\ GuardZero(c, duration) \in CacheType
           /\ GuardZero(c, duration).known = c.known
           /\ GuardZero(c, duration).position = c.position
           /\ GuardZero(c, duration).running = c.running
           /\ GuardZero(c, duration).sure = c.sure
           /\ GuardZero(c, duration).fresh = c.fresh
           /\ GuardZero(c, duration).zero = IF c.known THEN duration ELSE c.zero
           /\ ~c.known => GuardZero(c, duration) = c
  BY Constants DEF GuardZero, CacheType

\* An estimate changes whether a known position runs, and nothing else.
LEMMA EstimateType ==
    ASSUME NEW c \in CacheType, NEW running \in BOOLEAN
    PROVE  /\ Estimate(c, running) \in CacheType
           /\ Estimate(c, running).known = c.known
           /\ Estimate(c, running).position = c.position
           /\ Estimate(c, running).running = IF c.known THEN running ELSE c.running
           /\ Estimate(c, running).sure = c.sure
           /\ Estimate(c, running).zero = c.zero
           /\ Estimate(c, running).fresh = c.fresh
           /\ ~c.known => Estimate(c, running) = c
  BY DEF Estimate, CacheType

\* The position of the player is taken over.
Taken(c, d, status, running) ==
    /\ status # NoStatus /\ ~Suppressed(c, status.pos) /\ ~GuardedZero(c, status.pos)
    /\ d \in CacheType /\ d.known /\ d.position = status.pos /\ d.running = running
    /\ d.sure = (\/ status.right /\ (running <=> status.state = "playing")
                 \/ c.sure /\ c.position > ZeroLimit)
    /\ d.zero = IF ~c.known \/ status.pos > ZeroLimit THEN Off ELSE c.zero
    /\ d.fresh = Off

\* The estimate is kept.  A report from the start that is refused has ended the hold all the same.
Estimated(c, d, status, running) ==
    /\ d \in CacheType /\ d.known = c.known /\ d.position = c.position
    /\ d.running = IF c.known THEN running ELSE c.running
    /\ d.sure = c.sure /\ d.zero = c.zero
    /\ \/ d.fresh = c.fresh
       \/ d.fresh = Off /\ status # NoStatus /\ status.pos <= FreshMin /\ c.position > ZeroLimit
    /\ ~c.known => d = c

\* What a report does to the hold
LEMMA UnheldType ==
    ASSUME NEW c \in CacheType, NEW status \in StatusType
    PROVE  /\ Unheld(c, status) \in CacheType
           /\ Unheld(c, status).known = c.known
           /\ Unheld(c, status).position = c.position
           /\ Unheld(c, status).running = c.running
           /\ Unheld(c, status).sure = c.sure
           /\ Unheld(c, status).zero = c.zero
           /\ Unheld(c, status).fresh = IF c.known /\ status # NoStatus /\ status.pos <= FreshMin
                                        THEN Off ELSE c.fresh
           /\ ~c.known => Unheld(c, status) = c
  BY Constants DEF Unheld, CacheType

\* An estimate after a report that is refused, or after none
LEMMA RefusedEstimate ==
    ASSUME NEW c \in CacheType, NEW status \in StatusType, NEW running \in BOOLEAN,
           status = NoStatus \/ Suppressed(c, status.pos) \/ c.position > ZeroLimit
    PROVE  Estimated(c, Estimate(Unheld(c, status), running), status, running)
<1> DEFINE u == Unheld(c, status)
           d == Estimate(u, running)
<1>1. /\ u \in CacheType /\ u.known = c.known /\ u.position = c.position /\ u.running = c.running
      /\ u.sure = c.sure /\ u.zero = c.zero
      /\ u.fresh = IF c.known /\ status # NoStatus /\ status.pos <= FreshMin THEN Off ELSE c.fresh
      /\ ~c.known => u = c
  BY UnheldType
<1>2. \/ u.fresh = c.fresh
      \/ u.fresh = Off /\ status # NoStatus /\ status.pos <= FreshMin /\ c.position > ZeroLimit
  <2>1. status.pos \in Int /\ FreshMin \in Int
    BY Constants DEF StatusType
  <2> QED  BY <1>1, <2>1 DEF Suppressed
<1> HIDE DEF u
<1>3. /\ d \in CacheType /\ d.known = u.known /\ d.position = u.position
      /\ d.running = IF u.known THEN running ELSE u.running
      /\ d.sure = u.sure /\ d.zero = u.zero /\ d.fresh = u.fresh
      /\ ~u.known => d = u
  BY <1>1, EstimateType
<1>4. Estimated(c, d, status, running)
  BY <1>1, <1>2, <1>3 DEF Estimated
<1> QED  BY <1>4 DEF u

\* cacheBackendPosition either takes the position over or keeps the estimate.
LEMMA BackendPosition ==
    ASSUME NEW c \in CacheType, NEW status \in StatusType, NEW running \in BOOLEAN
    PROVE  \/ Taken(c, CacheBackendPosition(c, status, running), status, running)
           \/ Estimated(c, CacheBackendPosition(c, status, running), status, running)
<1> DEFINE u == Unheld(c, status)
           d == CacheBackendPosition(c, status, running)
<1>1. CASE status = NoStatus \/ Suppressed(c, status.pos) \/ GuardedZero(c, status.pos)
  <2>1. d = Estimate(Unheld(c, status), running)
    BY <1>1 DEF CacheBackendPosition
  <2>2. status = NoStatus \/ Suppressed(c, status.pos) \/ c.position > ZeroLimit
    BY <1>1 DEF GuardedZero
  <2> QED  BY <2>1, <2>2, RefusedEstimate
<1>2. CASE ~(status = NoStatus \/ Suppressed(c, status.pos) \/ GuardedZero(c, status.pos))
  <2>1. status.pos \in 0 .. MaxPos
    BY DEF StatusType
  <2>2. /\ u \in CacheType /\ u.known = c.known /\ u.zero = c.zero
        /\ u.fresh = IF c.known /\ status.pos <= FreshMin THEN Off ELSE c.fresh
    BY <1>2, UnheldType
  <2>3. PICK e \in CacheType :
          /\ e = Set(u, status.pos, running)
          /\ e.known /\ e.position = status.pos /\ e.running = running
          /\ e.zero = IF ~u.known \/ status.pos > ZeroLimit THEN Off ELSE u.zero
          /\ e.fresh = IF ~u.known \/ status.pos > FreshMin THEN Off ELSE u.fresh
    BY <2>1, <2>2, SetType
  <2>4. d = [e EXCEPT !.sure = \/ status.right /\ (running <=> status.state = "playing")
                               \/ c.sure /\ c.position > ZeroLimit]
    BY <1>2, <2>3 DEF CacheBackendPosition
  <2>5. /\ d \in CacheType /\ d.known /\ d.position = status.pos /\ d.running = running
        /\ d.sure = (\/ status.right /\ (running <=> status.state = "playing")
                     \/ c.sure /\ c.position > ZeroLimit)
        /\ d.zero = e.zero /\ d.fresh = e.fresh
    BY <2>3, <2>4 DEF CacheType
  <2>6. d.fresh = Off /\ d.zero = IF ~c.known \/ status.pos > ZeroLimit THEN Off ELSE c.zero
    BY <2>1, <2>2, <2>3, <2>5, Constants
  <2> QED  BY <1>2, <2>5, <2>6 DEF Taken
<1> QED  BY <1>1, <1>2

\* So does playbackPositionForSession, which also keeps it from an idle player.
LEMMA Playback ==
    ASSUME NEW c \in CacheType, NEW st \in States, NEW status \in StatusType
    PROVE  \/ /\ Taken(c, PlaybackPosition(c, st, status), status, st = "playing")
              /\ st \in {"playing", "paused"} /\ ~IdleZero(c, status)
           \/ Estimated(c, PlaybackPosition(c, st, status), status, st = "playing")
<1> DEFINE idle == status # NoStatus /\ ~Suppressed(c, status.pos) /\ IdleZero(c, status)
<1>1. CASE st \notin {"playing", "paused"}
  <2>1. PlaybackPosition(c, st, status) = Estimate(c, FALSE) /\ (st = "playing") = FALSE
    BY <1>1 DEF PlaybackPosition
  <2>2. Estimated(c, Estimate(c, FALSE), status, FALSE)
    BY EstimateType DEF Estimated
  <2> QED  BY <2>1, <2>2
<1>2. CASE st \in {"playing", "paused"} /\ idle
  <2>1. PlaybackPosition(c, st, status) = Estimate(Unheld(c, status), st = "playing")
    BY <1>2 DEF PlaybackPosition
  <2>2. c.position > ZeroLimit
    BY <1>2 DEF IdleZero
  <2> QED  BY <2>1, <2>2, RefusedEstimate
<1>3. CASE st \in {"playing", "paused"} /\ ~idle
  <2>1. PlaybackPosition(c, st, status) = CacheBackendPosition(c, status, st = "playing")
    BY <1>3 DEF PlaybackPosition
  <2>2. \/ Taken(c, CacheBackendPosition(c, status, st = "playing"), status, st = "playing")
        \/ Estimated(c, CacheBackendPosition(c, status, st = "playing"), status, st = "playing")
    BY BackendPosition
  <2>3. Taken(c, CacheBackendPosition(c, status, st = "playing"), status, st = "playing")
           => ~IdleZero(c, status)
    BY <1>3 DEF Taken
  <2> QED  BY <1>3, <2>1, <2>2, <2>3
<1> QED  BY <1>1, <1>2, <1>3

(* What the player reports, if it answers                                   *)
LEMMA ReportedType ==
    ASSUME Types
    PROVE  /\ Reported \in StatusType /\ Reported # NoStatus /\ NoStatus \in StatusType
           /\ Reported.state = player.state
           /\ Reported.right <=> Reported.pos = player.pos
           /\ player.state = "idle" \/ player.stale = "zero" => Reported.pos = 0
           /\ player.state # "idle" /\ player.stale # "zero" =>
                 Reported.pos = IF player.pos + player.off < MaxPos THEN player.pos + player.off ELSE MaxPos
<1> DEFINE p == IF player.state = "idle" \/ player.stale = "zero" THEN 0
                ELSE IF player.pos + player.off < MaxPos THEN player.pos + player.off ELSE MaxPos
<1>1. p \in 0 .. MaxPos
  BY Constants DEF Types, PlayerType
<1>2. Reported = [state |-> player.state, pos |-> p, right |-> p = player.pos]
  BY DEF Reported
<1>3. player.state \in PlayerStates
  BY DEF Types, PlayerType
<1>4. NoStatus \in StatusType
  BY Constants DEF NoStatus, StatusType
<1>5. Reported # NoStatus
  BY <1>2, <1>3 DEF NoStatus, PlayerStates
<1> HIDE DEF p
<1>6. Reported \in StatusType /\ Reported.state = player.state /\ Reported.pos = p
      /\ Reported.right = (p = player.pos)
  BY <1>1, <1>2, <1>3 DEF StatusType
<1> QED  BY <1>4, <1>5, <1>6 DEF p

(* A position taken over, as long as the cache can be trusted, is near the  *)
(* player, for all that the player may say.                                 *)
LEMMA ReadPosition ==
    ASSUME Types, WorldOK, NEW c \in CacheType, NEW d, NEW s \in Statuses, NEW running \in BOOLEAN,
           Taken(c, d, s, running), d.sure,
           c.sure => /\ c.known
                     /\ player.stale = "zero" => c.zero >= player.left + Slack
                     /\ player.stale = "old" =>
                           \/ Harmless \/ player.pos = MaxPos
                           \/ c.fresh >= player.left + Slack /\ c.position <= player.pos
                     /\ player.state = "idle" => \/ c.zero >= 0 \/ player.pos = 0
                                                \/ c.position <= ZeroLimit
    PROVE  /\ player.stale # "zero" /\ player.pos <= d.position /\ d.position <= player.pos + Slack
           /\ player.stale = "old" => Harmless \/ player.pos = MaxPos
           /\ player.stale # "old" => d.position = player.pos
<1>1. s = Reported
  BY DEF Taken, Statuses
<1>2. /\ player.pos \in 0 .. MaxPos /\ player.off \in 0 .. FreshMax /\ player.left \in Nat
      /\ player.stale \in {"no", "zero", "old"} /\ c.zero \in Int /\ c.fresh \in Int /\ c.position \in Nat
  BY Constants DEF Types, PlayerType, CacheType
<1>3. d.position = Reported.pos
  BY <1>1 DEF Taken
<1>4. CASE Reported.right
  BY <1>2, <1>3, <1>4, ReportedType, Constants DEF WorldOK, Harmless
<1>5. CASE ~Reported.right
  <2>1. c.sure /\ c.position > ZeroLimit /\ c.known
    BY <1>1, <1>5 DEF Taken
  <2>2. ~(Reported.pos <= ZeroLimit /\ c.zero # Off)
    BY <1>1, <2>1 DEF Taken, GuardedZero
  <2>3. player.stale # "zero" /\ player.state # "idle"
    BY <1>2, <1>5, <2>1, <2>2, ReportedType, Constants
  <2>4. player.stale = "old"
    BY <1>2, <1>5, <2>3, ReportedType, Constants DEF WorldOK
  <2>5. player.pos # MaxPos /\ player.pos <= Reported.pos /\ Reported.pos <= player.pos + player.off
    BY <1>2, <1>5, <2>3, ReportedType, Constants
  <2>6. Harmless
    <3>1. ~(c.fresh # Off /\ Reported.pos > FreshMin)
      BY <1>1, <2>1 DEF Taken, Suppressed
    <3>2. Harmless \/ (c.fresh >= player.left + Slack /\ c.position <= player.pos)
      BY <2>1, <2>4, <2>5
    <3>3. CASE c.fresh >= player.left + Slack /\ c.position <= player.pos
      <4>1. c.fresh # Off
        BY <1>2, <3>3, Constants
      <4>2. Reported.pos <= FreshMin /\ Reported.pos \in Nat
        BY <3>1, <4>1, ReportedType, Constants DEF StatusType
      <4> QED  BY <1>2, <2>1, <2>5, <3>3, <4>2, Constants
    <3> QED  BY <3>2, <3>3
  <2>7. player.off <= Slack
    BY <2>6 DEF Harmless
  <2>8. Reported.pos \in Nat
    BY ReportedType, Constants DEF StatusType
  <2> QED  BY <1>2, <1>3, <2>3, <2>4, <2>5, <2>6, <2>7, <2>8, Constants
<1> QED  BY <1>4, <1>5

-----------------------------------------------------------------------------
(* Steps of the world *)

\* A step that moves the player behind the back of the cache
LEMMA UnsureType ==
    ASSUME Types, Unsure
    PROVE  /\ cache' \in CacheType /\ (cache'.known \/ [cache' EXCEPT !.sure = TRUE] = NoCache)
           /\ ~cache'.sure
  BY DEF Types, Unsure, CacheType, NoCache

(* A poll that was crossed promises nothing.                                *)
LEMMA CrossedOK ==
    ASSUME Types, Crossed
    PROVE  poll' \in PollType /\ PollOK'
  BY DEF Types, Crossed, PollType, PollOK

\* A player that says where it is
LEMMA PlayerAt ==
    ASSUME NEW state \in PlayerStates, NEW pos \in 0 .. MaxPos
    PROVE  /\ At(state, pos) \in PlayerType
           /\ At(state, pos).state = state /\ At(state, pos).pos = pos
           /\ At(state, pos).stale = "no" /\ At(state, pos).off = 0 /\ At(state, pos).left = 0
  BY Constants DEF At, PlayerType

\* A player that no longer says what is wrong
LEMMA SettledType ==
    ASSUME Types
    PROVE  /\ Settled \in PlayerType
           /\ Settled.state = player.state /\ Settled.pos = player.pos
           /\ Settled.stale = "no" /\ Settled.off = 0 /\ Settled.left = 0
<1>1. 0 \in 0 .. FreshMax /\ 0 \in 0 .. (ZeroFor + FreshHold)
  BY Constants
<1> QED  BY <1>1 DEF Types, PlayerType, Settled

(* Without trust in the cache there is little to show.                      *)
LEMMA UserStep ==
    ASSUME PositionInv, UserPauses \/ UserResumes \/ Finishes
    PROVE  PositionInv'
<1>1. /\ Types /\ Unsure /\ Crossed /\ UNCHANGED <<session, req, waited>> /\ req.pc = "none"
      /\ \E state \in PlayerStates, pos \in {0, player.pos} : player' = At(state, pos)
  BY DEF PositionInv, UserPauses, UserResumes, Finishes, PlayerStates
<1>2. player' \in PlayerType /\ player'.stale = "no" /\ player'.off = 0
  <2>1. player.pos \in 0 .. MaxPos /\ 0 \in 0 .. MaxPos
    BY <1>1, Constants DEF Types, PlayerType
  <2> QED  BY <1>1, <2>1, PlayerAt
<1>3. Types'
  BY <1>1, <1>2, UnsureType, CrossedOK DEF Types
<1>4. req.want # Off => UNCHANGED req
  BY <1>1
<1> QED
  BY <1>1, <1>2, <1>3, UnsureType, CrossedOK DEF PositionInv, WorldOK, CacheOK, PhaseOK, SureOK, WantOK

(* When the player stops telling wrong positions, less can go wrong.        *)
LEMMA SettleStep ==
    ASSUME PositionInv, Settle
    PROVE  PositionInv'
<1>1. Types /\ player' = Settled /\ UNCHANGED <<session, cache, req, poll, waited>>
  BY DEF PositionInv, Settle
<1>2. /\ player' \in PlayerType
      /\ player'.state = player.state /\ player'.pos = player.pos
      /\ player'.stale = "no" /\ player'.off = 0 /\ player'.left = 0
  BY <1>1, SettledType
<1>3. Types'
  BY <1>1, <1>2 DEF Types
<1>4. InStep' <=> InStep
  BY <1>1, <1>2 DEF InStep
<1>5. WorldOK' /\ CacheOK' /\ WantOK'
  BY <1>1, <1>2, <1>4 DEF PositionInv, WorldOK, CacheOK, WantOK, ZeroGuarded
<1>6. PhaseOK'
  BY <1>1, <1>2, Constants DEF PositionInv, PhaseOK
<1>7. SureOK'
  BY <1>1, <1>2, <1>4 DEF PositionInv, SureOK, ZeroGuarded
<1>8. PollOK'
  BY <1>1, <1>2, <1>4 DEF PositionInv, PollOK, PollRight, PollClose, PollWrong
<1> QED  BY <1>3, <1>5, <1>6, <1>7, <1>8 DEF PositionInv

(* A paused player that goes idle stays where it was.                       *)
LEMMA GoesIdleStep ==
    ASSUME PositionInv, GoesIdle
    PROVE  PositionInv'
<1>1. /\ Types /\ player.state = "paused" /\ session = "paused"
      /\ player' = At("idle", player.pos) /\ UNCHANGED <<session, req, waited>>
  BY DEF PositionInv, GoesIdle
<1>2. /\ player' \in PlayerType
      /\ player'.state = "idle" /\ player'.pos = player.pos
      /\ player'.stale = "no" /\ player'.off = 0 /\ player'.left = 0
  BY <1>1, PlayerAt DEF Types, PlayerType, PlayerStates
<1>3. InStep' /\ InStep
  BY <1>1, <1>2 DEF InStep
<1>4. CASE req.pc = "paused"
  <2>1. Unsure /\ Crossed
    BY <1>4 DEF GoesIdle
  <2>2. Types'
    BY <1>1, <1>2, <2>1, UnsureType, CrossedOK DEF Types
  <2>3. WorldOK' /\ CacheOK' /\ PhaseOK' /\ SureOK' /\ WantOK'
    BY <1>1, <1>2, <1>4, <2>1, UnsureType DEF PositionInv, WorldOK, CacheOK, PhaseOK, SureOK, WantOK
  <2> QED  BY <1>1, <2>1, <2>2, <2>3, CrossedOK DEF PositionInv
<1>5. CASE req.pc # "paused"
  <2>1. UNCHANGED <<cache, poll>>
    BY <1>5 DEF GoesIdle
  <2>2. Types'
    BY <1>1, <1>2, <2>1 DEF Types
  <2>3. WorldOK' /\ CacheOK' /\ WantOK'
    BY <1>1, <1>2, <1>3, <2>1 DEF PositionInv, WorldOK, CacheOK, PhaseOK, WantOK, ZeroGuarded
  <2>4. PhaseOK' /\ SureOK'
    BY <1>1, <1>2, <1>3, <1>5, <2>1 DEF PositionInv, PhaseOK, SureOK, InStep, ZeroGuarded
  <2>5. PollOK'
    <3>1. ASSUME poll.busy, ~poll.crossed, poll.status # NoStatus
          PROVE  /\ poll.status.state = "paused" /\ req.pc = "none" /\ poll.st = session
                 /\ poll.status.right => PollRight
                 /\ cache.sure => PollClose \/ PollWrong
      BY <1>1, <1>3, <1>5, <3>1 DEF PositionInv, PollOK
    <3>2. PollRight => PollRight'
      BY <1>1, <1>2, <2>1 DEF PollRight
    <3>3. PollClose \/ PollWrong => PollClose' \/ PollWrong'
      BY <1>1, <1>2, <2>1 DEF PollClose, PollWrong
    <3>4. poll.busy /\ ~poll.crossed => poll.st = session
      BY DEF PositionInv, PollOK
    <3> QED  BY <1>1, <1>2, <2>1, <3>1, <3>2, <3>3, <3>4 DEF PollOK
  <2> QED  BY <2>2, <2>3, <2>4, <2>5 DEF PositionInv
<1> QED  BY <1>4, <1>5

(* What a tick does to the cache, the player and the clock of requests.     *)
LEMMA TickFields ==
    ASSUME Types, WorldOK, Tick
    PROVE  /\ UNCHANGED <<session, req, poll>>
           /\ cache' \in CacheType /\ (cache'.known \/ [cache' EXCEPT !.sure = TRUE] = NoCache)
           /\ cache'.known = cache.known /\ cache'.running = cache.running /\ cache'.sure = cache.sure
           /\ cache'.position = IF cache.running /\ cache.position < MaxPos THEN cache.position + 1
                                ELSE cache.position
           /\ cache'.zero = (IF cache.zero = Off THEN Off ELSE cache.zero - 1)
           /\ cache'.fresh = (IF cache.fresh = Off THEN Off ELSE cache.fresh - 1)
           /\ player' \in PlayerType /\ player'.state = player.state
           /\ player'.pos = IF player.state = "playing" THEN player.pos + 1 ELSE player.pos
           /\ player.state = "playing" => player.pos < MaxPos
           /\ \/ player'.stale = "no" /\ player'.off = 0 /\ player'.left = 0
              \/ /\ player'.stale = player.stale /\ player'.off = player.off /\ player.left > 0
                 /\ player'.left = player.left - 1
           /\ waited' \in 0 .. Slack
           /\ \/ waited' = waited + 1
              \/ req.pc = "none" /\ ~poll.busy /\ waited' = 0
<1> USE Constants
<1>1. /\ UNCHANGED <<session, req, poll>>
      /\ player.state = "playing" => player.pos < MaxPos
  BY DEF Tick
<1>2. PICK position, zero, fresh :
        /\ cache' = [cache EXCEPT !.position = position, !.zero = zero, !.fresh = fresh]
        /\ position = IF cache.running /\ cache.position < MaxPos THEN cache.position + 1
                      ELSE cache.position
        /\ zero = IF cache.zero = Off THEN Off ELSE cache.zero - 1
        /\ fresh = IF cache.fresh = Off THEN Off ELSE cache.fresh - 1
  BY DEF Tick, Count
<1>3. position \in 0 .. MaxPos /\ zero \in Off .. Guard /\ fresh \in Off .. FreshHold
  BY <1>2 DEF Types, CacheType
<1>4. /\ cache' \in CacheType
      /\ cache'.known = cache.known /\ cache'.running = cache.running /\ cache'.sure = cache.sure
      /\ cache'.position = position /\ cache'.zero = zero /\ cache'.fresh = fresh
  BY <1>2, <1>3 DEF Types, CacheType
<1>5. cache'.known \/ [cache' EXCEPT !.sure = TRUE] = NoCache
  <2>1. CASE cache.known
    BY <1>4, <2>1
  <2>2. CASE ~cache.known
    <3>1. ~cache.running /\ cache.position = 0 /\ cache.zero = Off /\ cache.fresh = Off
      BY <2>2 DEF Types, CacheType, NoCache
    <3>2. cache' = cache
      BY <1>2, <3>1 DEF Types, CacheType
    <3> QED  BY <2>2, <3>2 DEF Types
  <2> QED  BY <2>1, <2>2
<1>6. PICK q \in PlayerType :
        /\ q.state = player.state /\ q.pos = player.pos
        /\ \/ q.stale = "no" /\ q.off = 0 /\ q.left = 0
           \/ q = player /\ player.left > 0
        /\ player' = [q EXCEPT !.pos = IF q.state = "playing" THEN @ + 1 ELSE @,
                               !.left = IF @ > 0 THEN @ - 1 ELSE 0]
  <2>1. CASE player.stale # "no" /\ player.left = 0
    BY <2>1, SettledType DEF Tick
  <2>2. CASE player.stale = "no"
    <3>1. player \in PlayerType /\ player.off = 0
      BY <2>2 DEF Types, WorldOK
    <3>2. player.left = 0 \/ player.left > 0
      BY <3>1 DEF PlayerType
    <3> QED  BY <2>2, <3>1, <3>2 DEF Tick
  <2>3. CASE player.stale # "no" /\ player.left # 0
    <3>1. player \in PlayerType /\ player.left > 0
      BY <2>3 DEF Types, PlayerType
    <3> QED  BY <2>3, <3>1 DEF Tick
  <2> QED  BY <2>1, <2>2, <2>3
<1>7. PICK pos, left :
        /\ player' = [q EXCEPT !.pos = pos, !.left = left]
        /\ pos = IF q.state = "playing" THEN q.pos + 1 ELSE q.pos
        /\ left = IF q.left > 0 THEN q.left - 1 ELSE 0
  BY <1>6
<1>8. pos \in 0 .. MaxPos /\ left \in 0 .. (ZeroFor + FreshHold)
  BY <1>1, <1>6, <1>7 DEF PlayerType
<1>9. /\ player' \in PlayerType /\ player'.state = q.state /\ player'.pos = pos /\ player'.left = left
      /\ player'.stale = q.stale /\ player'.off = q.off
  BY <1>6, <1>7, <1>8 DEF PlayerType
<1>10. /\ waited' \in 0 .. Slack
       /\ waited' = waited + 1 \/ (req.pc = "none" /\ ~poll.busy /\ waited' = 0)
  <2>1. waited \in 0 .. Slack
    BY DEF Types
  <2>2. CASE req.pc = "none" /\ ~poll.busy
    BY <2>2 DEF Tick
  <2>3. CASE ~(req.pc = "none" /\ ~poll.busy)
    <3>1. waited < Slack /\ waited' = waited + 1
      BY <2>3 DEF Tick
    <3> QED  BY <2>1, <3>1
  <2> QED  BY <2>2, <2>3
<1> QED  BY <1>1, <1>2, <1>4, <1>5, <1>6, <1>7, <1>9, <1>10

(* Cache and player go at the same pace, and guards outlast what they guard *)
(* against.                                                                 *)
LEMMA TickStep ==
    ASSUME PositionInv, Tick
    PROVE  PositionInv'
<1> USE Constants
<1>0. Types /\ WorldOK /\ UNCHANGED <<session, req, poll>>
  BY TickFields DEF PositionInv
<1>1. Types'
  BY <1>0, TickFields DEF Types
<1>a. /\ cache.position \in 0 .. MaxPos /\ cache.zero \in Int /\ cache.fresh \in Int /\ cache.zero >= Off
      /\ cache.fresh >= Off
      /\ player.pos \in 0 .. MaxPos /\ player.left \in Nat /\ player.off \in Nat
      /\ waited \in 0 .. Slack /\ waited' \in 0 .. Slack
      /\ req.pos \in 0 .. MaxPos /\ req.want \in Int
      /\ poll.status.pos \in Nat
  BY <1>0, <1>1 DEF Types, CacheType, PlayerType, ReqType, PollType, StatusType
<1>2. InStep' <=> InStep
  BY <1>0, TickFields DEF InStep
<1>3. WorldOK'
  BY <1>0, <1>a, TickFields DEF WorldOK
<1>4. cache.zero >= player.left + Slack /\ player'.stale # "no" => cache'.zero >= player'.left + Slack
  BY <1>0, <1>a, TickFields
<1>5. CacheOK'
  <2>1. Harmless => Harmless'
    BY <1>0, <1>a, TickFields DEF Harmless
  <2>2. CASE ~(cache.sure /\ req.pc # "seek" /\ InStep)
    BY <1>0, <1>2, <2>2, TickFields DEF CacheOK
  <2>3. CASE cache.sure /\ req.pc # "seek" /\ InStep
    <3>1. /\ cache.running <=> session = "playing"
          /\ cache.position <= player.pos + Slack
          /\ player.pos <= cache.position + 2 * Slack
          /\ session = "playing" => player.pos <= cache.position + Slack
          /\ session = "playing" <=> player.state = "playing"
          /\ ZeroGuarded
          /\ player.stale = "old" => Harmless \/ player.pos = MaxPos \/ Held
      BY <2>3 DEF PositionInv, CacheOK, InStep
    <3>2. /\ cache'.running <=> session' = "playing"
          /\ cache'.position <= player'.pos + Slack
          /\ player'.pos <= cache'.position + 2 * Slack
          /\ session' = "playing" => player'.pos <= cache'.position + Slack
      BY <1>0, <1>a, <3>1, TickFields
    <3>3. ZeroGuarded'
      BY <1>0, <1>4, <3>1, TickFields DEF ZeroGuarded
    <3>4. player'.stale = "old" => Harmless' \/ player'.pos = MaxPos \/ Held'
      <4>1. CASE player'.stale = "old" /\ Held
        <5>1. player.state = "playing" /\ player'.pos = player.pos + 1 /\ player'.left = player.left - 1
              /\ player.left > 0
          BY <1>0, <4>1, TickFields DEF WorldOK
        <5>2. cache'.position <= player'.pos /\ cache'.fresh >= player'.left + Slack
          BY <1>0, <1>a, <4>1, <5>1, TickFields DEF Held
        <5> QED  BY <5>2 DEF Held
      <4>2. player'.stale = "old" /\ player.pos = MaxPos => player'.pos = MaxPos
        BY <1>0, <1>a, TickFields DEF WorldOK
      <4> QED  BY <1>0, <2>1, <3>1, <4>1, <4>2, TickFields
    <3> QED  BY <3>2, <3>3, <3>4 DEF CacheOK
  <2> QED  BY <2>2, <2>3
<1>6. PhaseOK'
  BY <1>0, <1>a, TickFields DEF PositionInv, PhaseOK
<1>7. SureOK'
  <2>1. CASE ~cache.sure
    BY <1>0, <2>1, TickFields DEF SureOK
  <2>2. CASE req.pc \in {"none", "confirmFresh", "rebased", "resume", "seekBack"}
    BY <1>0, <1>2, <2>2, TickFields DEF PositionInv, SureOK
  <2>3. CASE cache.sure /\ req.pc = "confirm"
    <3>1. ~cache.running /\ req.pos = cache.position /\ cache.position > ZeroLimit
          /\ cache.position <= player.pos /\ player.pos <= cache.position + waited
          /\ ZeroGuarded /\ player.stale # "old"
      BY <2>3 DEF PositionInv, SureOK
    <3>2. ZeroGuarded'
      BY <1>0, <1>4, <3>1, TickFields DEF ZeroGuarded
    <3>3. cache'.position <= player'.pos /\ player'.pos <= cache'.position + waited'
      BY <1>0, <1>a, <2>3, <3>1, TickFields
    <3> QED  BY <1>0, <2>3, <3>1, <3>2, <3>3, TickFields DEF SureOK
  <2>4. CASE cache.sure /\ req.pc = "pause"
    BY <1>0, <1>a, <2>4, TickFields DEF PositionInv, SureOK
  <2>5. CASE cache.sure /\ req.pc = "paused"
    BY <1>0, <1>a, <2>5, TickFields DEF PositionInv, SureOK
  <2>6. CASE cache.sure /\ req.pc = "seek"
    BY <1>0, <1>a, <2>6, TickFields DEF PositionInv, SureOK
  <2> QED  BY <1>0, <2>1, <2>2, <2>3, <2>4, <2>5, <2>6 DEF Types, ReqType, PCs
<1>8. WantOK'
  BY <1>0, <1>a, TickFields DEF PositionInv, WantOK
<1>9. PollOK'
  BY <1>0, <1>a, <1>2, TickFields DEF PositionInv, PollOK, PollRight, PollClose, PollWrong, Harmless
<1> QED  BY <1>1, <1>3, <1>5, <1>6, <1>7, <1>8, <1>9 DEF PositionInv

-----------------------------------------------------------------------------
(* Polls *)

(* What a poll reads is near the player, or is known for what it is until   *)
(* the poll ends.                                                           *)
LEMMA PollBeginStep ==
    ASSUME PositionInv, PollBegin
    PROVE  PositionInv'
<1> USE Constants
<1>0. Types /\ WorldOK /\ UNCHANGED <<session, cache, player, req>> /\ ~poll.busy /\ session # "none"
  BY DEF PositionInv, PollBegin
<1>1. PICK s \in Statuses :
        /\ s # NoStatus => session \in {"playing", "paused"}
        /\ poll' = [busy |-> TRUE, st |-> session, status |-> s, crossed |-> req.pc \in {"seek", "pause"}]
  BY DEF PollBegin, Statuses
<1>2. waited' = (IF req.pc = "none" THEN 0 ELSE waited) /\ waited' \in 0 .. Slack
  BY <1>0 DEF PollBegin, Types
<1>3. poll'.st = session /\ poll'.status = s /\ (poll'.crossed <=> req.pc \in {"seek", "pause"})
  BY <1>1
<1>4. s \in StatusType /\ session \in States
  BY <1>0, ReportedType DEF Statuses, Types
<1>5. Types'
  <2>1. poll' \in PollType
    BY <1>1, <1>4 DEF PollType
  <2> QED  BY <1>0, <1>2, <2>1 DEF Types
<1>6. InStep' <=> InStep
  BY <1>0 DEF InStep
<1>7. WorldOK' /\ CacheOK'
  BY <1>0, <1>6 DEF PositionInv, WorldOK, CacheOK, ZeroGuarded, Harmless, Held
<1>8. PhaseOK' /\ WantOK'
  BY <1>0, <1>2 DEF PositionInv, PhaseOK, WantOK
<1>9. SureOK'
  BY <1>0, <1>2, <1>6 DEF PositionInv, SureOK, ZeroGuarded
<1>10. ASSUME s # NoStatus, req.pc \notin {"seek", "pause"}
       PROVE  /\ req.pc \in {"none", "paused"} /\ session \in {"playing", "paused"}
              /\ s.state = player.state
              /\ s.state = "idle" => s.pos = 0
              /\ s.right => PollRight'
              /\ cache.sure /\ InStep => PollClose' \/ PollWrong'
  <2>1. s = Reported /\ session \in {"playing", "paused"}
    BY <1>1, <1>10 DEF Statuses
  <2>2. req.pc \in {"none", "paused"}
    BY <1>0, <1>10, <2>1 DEF PositionInv, PhaseOK, Types, ReqType, PCs
  <2>3. /\ player.pos \in 0 .. MaxPos /\ player.off \in Nat /\ player.left \in Nat
        /\ player.stale \in {"no", "zero", "old"} /\ cache.zero \in Int /\ cache.fresh \in Int
        /\ cache.position \in Nat /\ s.pos \in Nat
    BY <1>0, <1>4 DEF Types, PlayerType, CacheType, StatusType
  <2>4. ASSUME s.right
        PROVE  PollRight'
    <3>1. s.pos = player.pos
      BY <1>0, <2>1, <2>4, ReportedType
    <3>2. player.stale # "zero"
      BY <1>0, <2>1, <2>3, <3>1, ReportedType DEF WorldOK
    <3>3. player.stale = "old" => player.off = 0 \/ player.pos = MaxPos
      BY <1>0, <2>1, <2>3, <3>1, ReportedType DEF WorldOK
    <3> QED  BY <1>0, <1>2, <1>3, <2>3, <3>1, <3>2, <3>3 DEF PollRight
  <2>5. ASSUME cache.sure, InStep
        PROVE  PollClose' \/ PollWrong'
    <3>1. /\ player.stale = "zero" => cache.zero >= player.left + Slack
          /\ player.stale = "old" => Harmless \/ player.pos = MaxPos \/ Held
      BY <2>2, <2>5 DEF PositionInv, CacheOK, ZeroGuarded
    <3>2. CASE s.right
      BY <1>0, <1>2, <1>3, <2>3, <2>4, <3>2 DEF PollRight, PollClose, Harmless
    <3>3. CASE ~s.right /\ player.state = "idle"
      BY <1>0, <1>3, <2>1, <3>3, ReportedType DEF PollWrong
    <3>4. CASE ~s.right /\ player.stale = "zero"
      BY <1>0, <1>2, <1>3, <2>1, <2>3, <3>1, <3>4, ReportedType DEF PollWrong
    <3>5. CASE ~s.right /\ player.state # "idle" /\ player.stale # "zero"
      <4>1. player.stale = "old" /\ player.pos # MaxPos
        BY <1>0, <2>1, <2>3, <3>5, ReportedType DEF WorldOK
      <4>2. s.pos = IF player.pos + player.off < MaxPos THEN player.pos + player.off ELSE MaxPos
        BY <1>0, <2>1, <3>5, ReportedType
      <4>3. CASE Harmless
        <5>1. s.pos <= player.pos + Slack /\ player.pos <= s.pos + waited'
          BY <1>2, <2>3, <4>2, <4>3 DEF Harmless
        <5> QED  BY <1>0, <1>3, <4>1, <4>3, <5>1 DEF PollClose, Harmless
      <4>4. CASE Held /\ ~Harmless
        <5>1. cache.fresh >= Slack - waited'
          BY <1>2, <2>3, <4>4 DEF Held
        <5>2. s.pos > FreshMin \/ cache.position + Slack - waited' <= s.pos
          BY <1>2, <2>3, <4>2, <4>4 DEF Held, Harmless
        <5> QED  BY <1>0, <1>3, <3>5, <5>1, <5>2 DEF PollWrong
      <4> QED  BY <3>1, <4>1, <4>3, <4>4
    <3> QED  BY <3>2, <3>3, <3>4, <3>5
  <2> QED  BY <1>0, <2>1, <2>2, <2>4, <2>5, ReportedType
<1>11. PollOK'
  BY <1>0, <1>3, <1>6, <1>10 DEF PollOK
<1> QED  BY <1>5, <1>7, <1>8, <1>9, <1>11 DEF PositionInv

(* What is not the player's position does not get into a cache that can be  *)
(* trusted, even if the poll that read it comes late.                       *)
LEMMA PollEndStep ==
    ASSUME PositionInv, PollEnd
    PROVE  PositionInv'
<1> USE Constants
<1> DEFINE c == PlaybackPosition(cache, poll.st, poll.status)
<1>0. /\ Types /\ WorldOK /\ UNCHANGED <<session, player, req, waited>> /\ poll.busy /\ poll' = NoPoll
      /\ cache' = [c EXCEPT !.sure = @ /\ ~poll.crossed]
  BY DEF PositionInv, PollEnd
<1>1. /\ cache \in CacheType /\ poll.st \in States /\ poll.status \in StatusType
      /\ player.pos \in 0 .. MaxPos /\ waited \in 0 .. Slack /\ cache.zero \in Int /\ cache.fresh \in Int
      /\ cache.position \in Nat /\ poll.status.pos \in Nat
  BY <1>0 DEF Types, PollType, StatusType, CacheType, PlayerType
<1>2. \/ /\ Taken(cache, c, poll.status, poll.st = "playing")
         /\ poll.st \in {"playing", "paused"} /\ ~IdleZero(cache, poll.status)
      \/ Estimated(cache, c, poll.status, poll.st = "playing")
  BY <1>1, Playback
<1>3. c \in CacheType /\ (c.known \/ [c EXCEPT !.sure = TRUE] = NoCache)
  <2>1. CASE Taken(cache, c, poll.status, poll.st = "playing")
    BY <2>1 DEF Taken
  <2>2. CASE Estimated(cache, c, poll.status, poll.st = "playing")
    BY <1>0, <2>2 DEF Types, Estimated
  <2> QED  BY <1>2, <2>1, <2>2
<1> HIDE DEF c
<1>4. /\ cache' \in CacheType /\ (cache'.known \/ [cache' EXCEPT !.sure = TRUE] = NoCache)
      /\ cache'.known = c.known /\ cache'.position = c.position /\ cache'.running = c.running
      /\ cache'.zero = c.zero /\ cache'.fresh = c.fresh
      /\ (cache'.sure <=> c.sure /\ ~poll.crossed)
  BY <1>0, <1>3 DEF CacheType, NoCache
<1>5. Types' /\ PollOK'
  <2>1. poll' \in PollType /\ ~poll'.busy
    BY <1>0 DEF NoPoll, PollType, States, StatusType, NoStatus
  <2> QED  BY <1>0, <1>4, <2>1 DEF Types, PollOK
<1>6. InStep' <=> InStep
  BY <1>0 DEF InStep
<1>7. PhaseOK' /\ WantOK'
  BY <1>0 DEF PositionInv, PhaseOK, WantOK
<1>8. CASE ~cache'.sure
  BY <1>0, <1>5, <1>7, <1>8 DEF PositionInv, WorldOK, CacheOK, SureOK
<1>9. CASE cache'.sure /\ Estimated(cache, c, poll.status, poll.st = "playing")
  <2>1. poll.st = session
    BY <1>0, <1>4, <1>9 DEF PositionInv, PollOK
  <2>2. /\ cache'.known = cache.known /\ cache'.position = cache.position
        /\ cache'.zero = cache.zero /\ cache.sure
        /\ cache.known => (cache'.running <=> session = "playing")
    BY <1>4, <1>9, <2>1 DEF Estimated
  <2>3. WorldOK'
    BY <1>0, <2>2 DEF WorldOK
  <2>4. CacheOK'
    <3>1. ASSUME InStep, player.stale = "old", Held
          PROVE  Harmless \/ player.pos = MaxPos \/ Held'
      <4>1. CASE cache'.fresh = cache.fresh
        BY <1>0, <2>2, <3>1, <4>1 DEF Held
      <4>2. CASE cache'.fresh # cache.fresh
        <5>1. poll.status # NoStatus /\ poll.status.pos <= FreshMin /\ cache.position > ZeroLimit
          BY <1>4, <1>9, <4>2 DEF Estimated
        <5>2. /\ poll.status.state = player.state \/ player.state = "idle"
              /\ PollClose \/ PollWrong
          BY <1>0, <1>4, <1>9, <2>2, <3>1, <5>1 DEF PositionInv, PollOK
        <5>3. ~PollWrong
          <6>1. player.state = "playing"
            BY <1>0, <3>1 DEF WorldOK
          <6>2. cache.position + Slack - waited > poll.status.pos
            BY <1>1, <5>1
          <6> QED  BY <1>1, <3>1, <5>1, <5>2, <6>1, <6>2 DEF PollWrong
        <5> QED  BY <3>1, <5>2, <5>3 DEF PollClose
      <4> QED  BY <4>1, <4>2
    <3> QED  BY <1>0, <1>6, <2>2, <3>1 DEF PositionInv, WorldOK, CacheOK, ZeroGuarded, Harmless, InStep
  <2>5. SureOK'
    BY <1>0, <1>6, <2>2 DEF PositionInv, WorldOK, PhaseOK, SureOK, ZeroGuarded
  <2> QED  BY <1>5, <1>7, <2>3, <2>4, <2>5 DEF PositionInv
<1>10. CASE cache'.sure /\ Taken(cache, c, poll.status, poll.st = "playing") /\ ~IdleZero(cache, poll.status)
  <2>1. /\ poll.st = session /\ poll.status # NoStatus
        /\ req.pc \in {"none", "paused"} /\ session \in {"playing", "paused"}
        /\ \/ poll.status.state = player.state
           \/ poll.status.state = "paused" /\ player.state = "idle" /\ req.pc = "none"
        /\ poll.status.state = "idle" => poll.status.pos = 0
        /\ poll.status.right => PollRight
        /\ cache.sure /\ InStep => PollClose \/ PollWrong
    BY <1>0, <1>4, <1>10 DEF PositionInv, PollOK, Taken
  <2>2. /\ cache'.known /\ cache'.position = poll.status.pos
        /\ (cache'.running <=> session = "playing")
        /\ \/ poll.status.right /\ (session = "playing" <=> poll.status.state = "playing")
           \/ ~poll.status.right /\ cache.sure /\ cache.position > ZeroLimit
           \/ poll.status.right /\ cache.sure
    BY <1>4, <1>10, <2>1 DEF Taken
  <2>3. WorldOK'
    BY <1>0, <2>2 DEF WorldOK
  <2>4. ASSUME InStep, ~poll.status.right
        PROVE  PollClose
    <3>1. cache.sure /\ cache.position > ZeroLimit /\ cache.known
      BY <2>1, <2>2, <2>4, <1>0 DEF WorldOK
    <3>2. ~PollWrong
      <4>1. ~(cache.fresh # Off /\ poll.status.pos > FreshMin)
        BY <1>10, <3>1 DEF Taken, Suppressed
      <4>2. ~(poll.status.pos <= ZeroLimit /\ cache.zero # Off)
        BY <1>10, <3>1 DEF Taken, GuardedZero
      <4>3. ~(poll.status.state = "idle" /\ poll.status.pos <= ZeroLimit)
        BY <1>10, <3>1 DEF IdleZero
      <4> QED  BY <1>1, <3>1, <4>1, <4>2, <4>3 DEF PollWrong
    <3> QED  BY <2>1, <2>4, <3>1, <3>2
  <2>5. CacheOK'
    <3>1. ASSUME InStep
          PROVE  /\ poll.status.pos <= player.pos + Slack /\ player.pos <= poll.status.pos + Slack
                 /\ player.stale # "zero"
                 /\ player.stale = "old" => Harmless \/ player.pos = MaxPos
      BY <1>1, <2>1, <2>4, <3>1 DEF PollRight, PollClose, Harmless
    <3>2. ASSUME InStep
          PROVE  player.pos <= poll.status.pos + 2 * Slack
      BY <1>1, <3>1, <3>2
    <3> QED  BY <1>0, <1>6, <2>2, <3>1, <3>2 DEF CacheOK, ZeroGuarded, Harmless
  <2>6. SureOK'
    <3>1. req.pc = "none" => InStep
      BY <1>0, <2>1, <2>2 DEF PositionInv, SureOK, InStep, PollRight
    <3>2. ASSUME req.pc = "paused", player.state = "idle"
          PROVE  player.pos = 0
      <4>1. poll.status.state = "idle" /\ poll.status.pos = 0 /\ InStep
        BY <1>0, <2>1, <3>2 DEF PositionInv, PhaseOK, InStep
      <4>2. ~(cache.sure /\ cache.position > ZeroLimit)
        BY <1>0, <1>10, <2>1, <4>1 DEF IdleZero, WorldOK
      <4> QED  BY <2>1, <2>2, <3>2, <4>1, <4>2 DEF PollRight
    <3> QED  BY <1>0, <1>6, <2>1, <3>1, <3>2 DEF SureOK
  <2> QED  BY <1>5, <1>7, <2>3, <2>5, <2>6 DEF PositionInv
<1> QED  BY <1>2, <1>8, <1>9, <1>10

-----------------------------------------------------------------------------
(* Requests, and the monitor: polls are crossed.                            *)

\* What is common to the steps of requests: types, and the polls they overtake
LEMMA CrossedStep ==
    ASSUME Types, Crossed,
           session' \in States, player' \in PlayerType, req' \in ReqType, waited' \in 0 .. Slack,
           cache' \in CacheType, cache'.known \/ [cache' EXCEPT !.sure = TRUE] = NoCache
    PROVE  Types' /\ PollOK'
  BY CrossedOK DEF Types

(* A request starts a clock of its own, unless a poll is under way.         *)
LEMMA BeginsOK ==
    ASSUME Types, Begins
    PROVE  /\ req.pc = "none" /\ Crossed /\ waited' \in 0 .. Slack
           /\ waited' = waited \/ waited' = 0
  BY Constants DEF Types, Begins

\* No request
LEMMA IdleType == Idle \in ReqType /\ Idle.pc = "none" /\ Idle.pos = 0 /\ Idle.want = Off
  BY Constants DEF Idle, ReqType, PCs

\* A request that ends
LEMMA EndsOK ==
    ASSUME Types, Ends
    PROVE  /\ req' \in ReqType /\ req'.pc = "none" /\ req'.want = Off
           /\ Crossed /\ waited' \in 0 .. Slack /\ waited' = waited
  BY IdleType DEF Types, Ends

\* A request that goes on
LEMMA GoesOK ==
    ASSUME Types, NEW pc \in PCs, Goes(pc)
    PROVE  /\ req' \in ReqType /\ req'.pc = pc /\ req'.pos = req.pos /\ req'.want = req.want
           /\ Crossed /\ waited' \in 0 .. Slack /\ waited' = waited
  BY DEF Types, Goes, ReqType

\* What the player says when it can be asked
LEMMA StatusesType ==
    ASSUME Types, NEW s \in Statuses
    PROVE  s \in StatusType /\ s.pos \in 0 .. MaxPos
  BY ReportedType, Constants DEF Statuses, StatusType

(* The cache is not trusted while the session plays and the player does not; *)
(* what the monitor reads then is the player's position or is not trusted.   *)
LEMMA FindsPausedStep ==
    ASSUME PositionInv, FindsPaused
    PROVE  PositionInv'
<1> USE Constants
<1>1. /\ Types /\ WorldOK /\ req.pc = "none" /\ session = "playing" /\ player.state = "paused"
      /\ session' = "paused" /\ Crossed /\ UNCHANGED <<player, req, waited>>
  BY DEF PositionInv, FindsPaused
<1>2. PICK s \in Statuses : cache' = CacheBackendPosition(cache, s, FALSE)
  BY DEF FindsPaused
<1>3. ~cache.sure
  BY <1>1 DEF PositionInv, SureOK, InStep
<1>4. \/ Taken(cache, cache', s, FALSE)
      \/ Estimated(cache, cache', s, FALSE)
  BY <1>1, <1>2, StatusesType, BackendPosition DEF Types
<1>5. /\ cache' \in CacheType /\ (cache'.known \/ [cache' EXCEPT !.sure = TRUE] = NoCache)
      /\ cache'.sure => Taken(cache, cache', s, FALSE) /\ cache'.known /\ ~cache'.running
  BY <1>1, <1>3, <1>4 DEF Types, Taken, Estimated
<1>6. Types' /\ PollOK'
  BY <1>1, <1>5, CrossedStep DEF Types, States
<1>7. InStep'
  BY <1>1 DEF InStep
<1>8. cache'.sure => cache'.position = player.pos /\ player.stale = "no"
  <2>1. cache'.sure => player.stale # "zero" /\ (player.stale # "old" => cache'.position = player.pos)
    BY <1>1, <1>3, <1>5, ReadPosition DEF Types
  <2> QED  BY <1>1, <2>1 DEF WorldOK, Types, PlayerType
<1>9. WorldOK' /\ PhaseOK' /\ WantOK'
  BY <1>1, <1>5 DEF PositionInv, WorldOK, PhaseOK, WantOK
<1>10. CacheOK'
  <2>1. player.pos \in Nat
    BY <1>1 DEF Types, PlayerType
  <2> QED  BY <1>1, <1>5, <1>8, <2>1 DEF CacheOK, ZeroGuarded
<1>11. SureOK'
  BY <1>1, <1>7 DEF SureOK
<1> QED  BY <1>6, <1>9, <1>10, <1>11 DEF PositionInv

\* A session found playing again has a cache that is not trusted.
LEMMA FindsPlayingStep ==
    ASSUME PositionInv, FindsPlaying
    PROVE  PositionInv'
<1>1. /\ Types /\ WorldOK /\ req.pc = "none" /\ session = "paused" /\ player.state = "playing"
      /\ session' = "playing" /\ Crossed /\ UNCHANGED <<cache, player, req, waited>>
  BY DEF PositionInv, FindsPlaying
<1>2. ~cache.sure
  BY <1>1 DEF PositionInv, SureOK, InStep
<1>3. Types' /\ PollOK'
  BY <1>1, CrossedStep DEF Types, States
<1> QED
  BY <1>1, <1>2, <1>3 DEF PositionInv, WorldOK, CacheOK, PhaseOK, SureOK, WantOK

(* A session that has ended, is loaded or starts promises no position.      *)
LEMMA NoAnswerStep ==
    ASSUME PositionInv, FindsIdle \/ SetURI \/ Stop \/ PlayTimesOut
    PROVE  PositionInv'
<1>1. /\ Types /\ WorldOK /\ session' \in {"ended", "loaded"} /\ Crossed
      /\ \/ cache' = NoCache /\ session' = "ended"
         \/ cache' = Set(NoCache, 0, FALSE)
      /\ \/ player' = player
         \/ player' = At("idle", player.pos)
      /\ req' \in ReqType /\ req'.pc = "none"
      /\ waited' \in 0 .. Slack
  <2>1. Types /\ WorldOK /\ req \in ReqType /\ waited \in 0 .. Slack
    BY DEF PositionInv, Types
  <2>2. CASE FindsIdle
    BY <2>1, <2>2 DEF FindsIdle
  <2>3. CASE SetURI
    BY <2>1, <2>3, BeginsOK DEF SetURI
  <2>4. CASE Stop
    BY <2>1, <2>4, BeginsOK DEF Stop
  <2>5. CASE PlayTimesOut
    BY <2>1, <2>5, EndsOK DEF PlayTimesOut, Fail
  <2> QED  BY <2>2, <2>3, <2>4, <2>5
<1>2. /\ req' \in ReqType /\ req'.pc = "none"
      /\ player' \in PlayerType
      /\ \/ player' = player
         \/ player'.stale = "no" /\ player'.off = 0
  BY <1>1, PlayerAt DEF Types, PlayerType, PlayerStates
<1>3. /\ cache' \in CacheType /\ (cache'.known \/ [cache' EXCEPT !.sure = TRUE] = NoCache)
      /\ cache'.known \/ session' = "ended"
  <2>2. 0 \in 0 .. MaxPos /\ FALSE \in BOOLEAN
    BY Constants
  <2>3. Set(NoCache, 0, FALSE) \in CacheType /\ Set(NoCache, 0, FALSE).known
    BY <2>2, NoCacheType, SetType
  <2>4. CASE cache' = NoCache
    BY <1>1, <2>3, <2>4, NoCacheType
  <2>5. CASE cache' = Set(NoCache, 0, FALSE)
    BY <2>3, <2>5
  <2> QED  BY <1>1, <2>4, <2>5
<1>4. Types' /\ PollOK'
  BY <1>1, <1>2, <1>3, CrossedStep DEF States
<1> QED
  BY <1>1, <1>2, <1>3, <1>4 DEF PositionInv, WorldOK, CacheOK, InStep, PhaseOK, SureOK, WantOK

\* After a fresh Play the cache is not trusted until it is confirmed.
LEMMA PlayFreshStep ==
    ASSUME PositionInv, PlayFresh
    PROVE  PositionInv'
<1>1. Types /\ WorldOK /\ Unsure /\ Begins
  BY DEF PositionInv, PlayFresh
<1>2. cache' \in CacheType /\ (cache'.known \/ [cache' EXCEPT !.sure = TRUE] = NoCache) /\ ~cache'.sure
  BY <1>1, UnsureType
<1>3. req.pc = "none" /\ Crossed /\ waited' \in 0 .. Slack
  BY <1>1, BeginsOK
<1>4. CASE session' = "ended" /\ UNCHANGED <<player, req>>
  <2>1. Types' /\ PollOK'
    BY <1>1, <1>2, <1>3, <1>4, CrossedStep DEF Types, States
  <2> QED
    BY <1>1, <1>2, <1>3, <1>4, <2>1 DEF PositionInv, WorldOK, CacheOK, PhaseOK, SureOK, WantOK
<1>5. ASSUME session' = "starting", req' = [Idle EXCEPT !.pc = "confirmFresh"],
             NEW p \in 0 .. FreshMax + 1, player' = At("playing", p)
      PROVE  PositionInv'
  <2>1. p \in 0 .. MaxPos
    BY <1>5, Constants
  <2>2. /\ player' \in PlayerType /\ player'.state = "playing" /\ player'.stale = "no" /\ player'.off = 0
    BY <1>5, <2>1, PlayerAt DEF PlayerStates
  <2>3. req' \in ReqType /\ req'.pc = "confirmFresh" /\ req'.want = Off
    BY <1>5, IdleType DEF ReqType, PCs
  <2>4. Types' /\ PollOK'
    BY <1>1, <1>2, <1>3, <1>5, <2>2, <2>3, CrossedStep DEF States
  <2> QED
    BY <1>2, <1>5, <2>2, <2>3, <2>4 DEF PositionInv, WorldOK, CacheOK, PhaseOK, SureOK, WantOK
<1> QED  BY <1>4, <1>5 DEF PlayFresh

\* A pause that was never confirmed leaves a cache that is not trusted.
LEMMA PauseTimesOutStep ==
    ASSUME PositionInv, PauseTimesOut
    PROVE  PositionInv'
<1>1. Types /\ WorldOK /\ Unsure /\ Ends /\ session' = "playing" /\ UNCHANGED player
  BY DEF PositionInv, PauseTimesOut
<1>2. cache' \in CacheType /\ (cache'.known \/ [cache' EXCEPT !.sure = TRUE] = NoCache) /\ ~cache'.sure
  BY <1>1, UnsureType
<1>3. /\ req' \in ReqType /\ req'.pc = "none" /\ req'.want = Off /\ Crossed /\ waited' \in 0 .. Slack
  BY <1>1, EndsOK
<1>4. Types' /\ PollOK'
  BY <1>1, <1>2, <1>3, CrossedStep DEF Types, States
<1> QED
  BY <1>1, <1>2, <1>3, <1>4 DEF PositionInv, WorldOK, CacheOK, PhaseOK, SureOK, WantOK

(* A request that fails ends the session, and nothing is promised of it.    *)
LEMMA FailStep ==
    ASSUME PositionInv, Fail, UNCHANGED cache,
           player' \in PlayerType, player' = player \/ (player'.stale = "no" /\ player'.off = 0)
    PROVE  PositionInv'
<1>1. Types /\ WorldOK /\ Ends /\ session' = "ended"
  BY DEF PositionInv, Fail
<1>2. /\ req' \in ReqType /\ req'.pc = "none" /\ req'.want = Off /\ Crossed /\ waited' \in 0 .. Slack
  BY <1>1, EndsOK
<1>3. Types' /\ PollOK'
  BY <1>1, <1>2, CrossedStep DEF Types, States
<1> QED
  BY <1>1, <1>2, <1>3 DEF PositionInv, WorldOK, CacheOK, InStep, PhaseOK, SureOK, WantOK

\* A Play that is confirmed ends with the session playing.
LEMMA AcceptOK ==
    ASSUME Types, Accept, cache' \in CacheType, cache'.known \/ [cache' EXCEPT !.sure = TRUE] = NoCache,
           player' \in PlayerType
    PROVE  /\ Types' /\ PollOK' /\ session' = "playing"
           /\ req'.pc = "none" /\ req'.want = Off /\ waited' = waited
  BY EndsOK, CrossedStep DEF Accept, States

\* A fresh Play takes the position of the player over, or seeks back to the start.
LEMMA ConfirmFreshStep ==
    ASSUME PositionInv, ConfirmFresh
    PROVE  PositionInv'
<1> USE Constants
<1>1. /\ Types /\ WorldOK /\ req.pc = "confirmFresh" /\ player.state = "playing"
      /\ session = "starting" /\ player.stale = "no" /\ player.off = 0 /\ ~cache.sure
  BY DEF PositionInv, ConfirmFresh, PhaseOK, SureOK, WorldOK
<1>2. cache \in CacheType /\ player.pos \in 0 .. MaxPos /\ waited \in 0 .. Slack
  BY <1>1 DEF Types, PlayerType
<1>3. ASSUME NEW s \in Statuses, s # NoStatus, s.pos <= FreshMax,
             player' = [At("playing", 0) EXCEPT !.stale = "old", !.off = player.pos,
                                                !.left = FreshHold - Slack],
             Goes("rebased"), UNCHANGED <<session, cache>>
      PROVE  PositionInv'
  <2>1. player.pos \in 0 .. FreshMax
    BY <1>1, <1>2, <1>3, ReportedType DEF Statuses
  <2>2. FreshHold - Slack \in 0 .. (ZeroFor + FreshHold) /\ 0 \in 0 .. MaxPos
    OBVIOUS
  <2>3. /\ player' \in PlayerType /\ player'.state = "playing" /\ player'.pos = 0
        /\ player'.stale = "old" /\ player'.left = FreshHold - Slack
    BY <1>3, <2>1, <2>2 DEF At, PlayerType, PlayerStates
  <2>4. req' \in ReqType /\ req'.pc = "rebased" /\ Crossed /\ waited' = waited /\ waited' \in 0 .. Slack
    BY <1>1, <1>3, GoesOK DEF PCs
  <2>5. Types' /\ PollOK'
    BY <1>1, <1>3, <2>3, <2>4, CrossedStep DEF Types
  <2> QED
    BY <1>1, <1>2, <1>3, <2>3, <2>4, <2>5 DEF PositionInv, WorldOK, CacheOK, PhaseOK, SureOK, WantOK
<1>4. ASSUME NEW s \in Statuses, cache' = CacheBackendPosition(cache, s, TRUE), Accept, UNCHANGED player
      PROVE  PositionInv'
  <2>1. Taken(cache, cache', s, TRUE) \/ Estimated(cache, cache', s, TRUE)
    BY <1>1, <1>2, <1>4, StatusesType, BackendPosition
  <2>2. /\ cache' \in CacheType /\ (cache'.known \/ [cache' EXCEPT !.sure = TRUE] = NoCache)
        /\ cache'.sure => Taken(cache, cache', s, TRUE) /\ cache'.known /\ cache'.running
    BY <1>1, <1>2, <2>1 DEF Types, Taken, Estimated
  <2>3. cache'.sure => cache'.position = player.pos
    BY <1>1, <1>2, <2>2, ReadPosition
  <2>4. /\ Types' /\ PollOK' /\ session' = "playing"
        /\ req'.pc = "none" /\ req'.want = Off /\ waited' = waited
    BY <1>1, <1>4, <2>2, AcceptOK DEF Types
  <2>5. CacheOK'
    <3>1. cache'.position = player.pos => /\ cache'.position <= player'.pos + Slack
                                          /\ player'.pos <= cache'.position + 2 * Slack
                                          /\ player'.pos <= cache'.position + Slack
      <4>1. player'.pos = player.pos /\ player.pos \in Nat
        BY <1>2, <1>4
      <4> QED  BY <4>1
    <3>2. player'.stale = "no" /\ session' = "playing"
      BY <1>1, <1>4, <2>4
    <3>3. cache'.sure => cache'.running /\ cache'.position = player.pos
      BY <2>2, <2>3
    <3> QED  BY <3>1, <3>2, <3>3 DEF CacheOK, ZeroGuarded
  <2>6. WorldOK' /\ PhaseOK' /\ WantOK'
    BY <1>1, <1>4, <2>2, <2>4 DEF WorldOK, PhaseOK, WantOK
  <2>7. SureOK'
    BY <1>1, <1>4, <2>4 DEF SureOK, InStep
  <2> QED  BY <2>4, <2>5, <2>6, <2>7 DEF PositionInv
<1> QED  BY <1>3, <1>4 DEF ConfirmFresh

(* The hold outlasts the time in which the player counts on.                *)
LEMMA RebasedStep ==
    ASSUME PositionInv, Rebased
    PROVE  PositionInv'
<1> USE Constants
<1>1. /\ Types /\ WorldOK /\ req.pc = "rebased" /\ Accept /\ UNCHANGED player
      /\ player.state = "playing" /\ player.stale # "zero" /\ player.pos <= waited
      /\ player.left <= FreshHold - Slack
  BY DEF PositionInv, Rebased, PhaseOK
<1>2. /\ cache \in CacheType /\ player \in PlayerType /\ waited \in 0 .. Slack
      /\ player.pos \in Nat /\ player.left \in Nat
  BY <1>1 DEF Types, PlayerType
<1>3. PICK d \in CacheType :
        /\ d = Set(cache, 0, TRUE)
        /\ d.known /\ d.position = 0 /\ d.running /\ d.sure
  <2>1. 0 \in 0 .. MaxPos /\ TRUE \in BOOLEAN
    OBVIOUS
  <2>2. /\ Set(cache, 0, TRUE) \in CacheType /\ Set(cache, 0, TRUE).known
        /\ Set(cache, 0, TRUE).position = 0 /\ Set(cache, 0, TRUE).running = TRUE
        /\ Set(cache, 0, TRUE).sure
    BY <1>2, <2>1, SetType
  <2> QED  BY <2>2
<1>4. PICK e \in CacheType :
        /\ e = GuardZero(d, FreshHold)
        /\ e.known /\ e.position = 0 /\ e.running /\ e.sure /\ e.zero = FreshHold
  <2>1. /\ GuardZero(d, FreshHold) \in CacheType
        /\ GuardZero(d, FreshHold).known = d.known /\ GuardZero(d, FreshHold).position = d.position
        /\ GuardZero(d, FreshHold).running = d.running /\ GuardZero(d, FreshHold).sure = d.sure
        /\ GuardZero(d, FreshHold).zero = IF d.known THEN FreshHold ELSE d.zero
    BY GuardType
  <2> QED  BY <1>3, <2>1
<1>5. /\ cache' \in CacheType /\ cache'.known /\ cache'.position = 0 /\ cache'.running
      /\ cache'.sure /\ cache'.zero = FreshHold /\ cache'.fresh = FreshHold
  <2>1. cache' = HoldFreshZero(e)
    BY <1>3, <1>4 DEF Rebased
  <2>2. cache' = [e EXCEPT !.fresh = FreshHold]
    BY <1>4, <2>1 DEF HoldFreshZero
  <2> QED  BY <1>4, <2>2 DEF CacheType
<1>6. /\ Types' /\ PollOK' /\ session' = "playing"
      /\ req'.pc = "none" /\ req'.want = Off /\ waited' = waited
  BY <1>1, <1>2, <1>5, AcceptOK
<1>7. CacheOK'
  BY <1>1, <1>2, <1>5, <1>6 DEF CacheOK, ZeroGuarded, Held
<1>8. SureOK'
  BY <1>1, <1>6 DEF SureOK, InStep
<1> QED  BY <1>1, <1>5, <1>6, <1>7, <1>8 DEF PositionInv, WorldOK, PhaseOK, WantOK

(* A Play of a paused session keeps where the player is, as the cache has it. *)
LEMMA PlayPausedStep ==
    ASSUME PositionInv, PlayPaused
    PROVE  PositionInv'
<1> USE Constants
<1>1. /\ Types /\ WorldOK /\ Begins /\ session = "paused" /\ session' = "starting" /\ UNCHANGED player
  BY DEF PositionInv, PlayPaused
<1>2. /\ cache \in CacheType /\ cache.position \in 0 .. MaxPos /\ player.pos \in 0 .. MaxPos
      /\ player.state \in PlayerStates
  BY <1>1 DEF Types, CacheType, PlayerType
<1>3. req.pc = "none" /\ Crossed /\ waited' \in 0 .. Slack
  BY <1>1, BeginsOK
<1>4. PICK d \in CacheType :
        /\ d = Estimate(cache, FALSE)
        /\ d.known = cache.known /\ d.position = cache.position /\ d.sure = cache.sure
        /\ d.running = IF cache.known THEN FALSE ELSE cache.running
        /\ ~cache.known => d = cache
  BY <1>2, EstimateType
<1>5. PICK e \in CacheType :
        /\ e = GuardZero(d, Guard)
        /\ e.known = d.known /\ e.position = d.position /\ e.sure = d.sure /\ e.running = d.running
        /\ ~d.known => e = d
  BY <1>4, GuardType
<1>6. cache' = [e EXCEPT !.sure = @ /\ cache.position > ZeroLimit]
  BY <1>4, <1>5 DEF PlayPaused
<1>7. /\ cache' \in CacheType /\ (cache'.known \/ [cache' EXCEPT !.sure = TRUE] = NoCache)
      /\ cache'.known = cache.known /\ cache'.position = cache.position
      /\ cache'.sure => cache.sure /\ cache.position > ZeroLimit
      /\ cache.known => ~cache'.running
  <2>1. /\ cache' \in CacheType
        /\ cache'.known = cache.known /\ cache'.position = cache.position
        /\ cache'.sure => cache.sure /\ cache.position > ZeroLimit
        /\ cache.known => ~cache'.running
    BY <1>4, <1>5, <1>6 DEF CacheType
  <2>2. ~cache.known => [cache' EXCEPT !.sure = TRUE] = [cache EXCEPT !.sure = TRUE]
    BY <1>2, <1>4, <1>5, <1>6 DEF CacheType
  <2> QED  BY <1>1, <2>1, <2>2 DEF Types
<1>8. PICK pos, want :
        /\ req' = [pc |-> "resume", pos |-> pos, want |-> want]
        /\ pos = (IF cache.known THEN cache.position ELSE 0)
        /\ want = IF cache.sure /\ player.state # "playing" THEN player.pos ELSE Off
  BY DEF PlayPaused
<1>9. req' \in ReqType /\ req'.pc = "resume" /\ req'.pos = pos /\ req'.want = want
  BY <1>2, <1>8 DEF ReqType, PCs
<1>10. Types' /\ PollOK'
  BY <1>1, <1>3, <1>7, <1>9, CrossedStep DEF Types, States
<1>11. cache.sure => cache.known
  BY <1>1 DEF WorldOK
<1>12. WorldOK'
  BY <1>1, <1>7, <1>11 DEF WorldOK
<1>13. SureOK'
  BY <1>1, <1>7, <1>8, <1>9, <1>11 DEF SureOK
<1>14. WantOK'
  <2>1. CASE cache.sure /\ player.state # "playing"
    <3>1. /\ cache.position <= player.pos + Slack
          /\ player.pos <= cache.position + 2 * Slack
      BY <1>1, <1>3, <2>1 DEF PositionInv, CacheOK, InStep
    <3> QED  BY <1>1, <1>8, <1>9, <1>11, <2>1, <3>1 DEF WantOK
  <2>2. CASE ~(cache.sure /\ player.state # "playing")
    BY <1>8, <1>9, <2>2 DEF WantOK
  <2> QED  BY <2>1, <2>2
<1> QED
  BY <1>1, <1>9, <1>10, <1>12, <1>13, <1>14 DEF PositionInv, CacheOK, InStep, PhaseOK

(* A player that was told says where it is, or 0 for a while.               *)
LEMMA CommandedOK ==
    ASSUME NEW state \in PlayerStates, NEW pos \in 0 .. MaxPos, NEW p \in Commanded(state, pos)
    PROVE  /\ p \in PlayerType /\ p.state = state /\ p.pos = pos /\ p.off = 0
           /\ \/ p.stale = "no"
              \/ p.stale = "zero" /\ p.left = ZeroFor /\ pos > ZeroLimit + 2 * Slack
<1>1. CASE p = At(state, pos)
  BY <1>1, PlayerAt
<1>2. CASE p = [At(state, pos) EXCEPT !.stale = "zero", !.left = ZeroFor]
  <2>1. ZeroFor \in 0 .. (ZeroFor + FreshHold) /\ 0 \in 0 .. FreshMax
    BY Constants
  <2>2. p \in PlayerType /\ p.state = state /\ p.pos = pos /\ p.off = 0
        /\ p.stale = "zero" /\ p.left = ZeroFor
    BY <1>2, <2>1 DEF At, PlayerType
  <2>3. pos > ZeroLimit + 2 * Slack
    BY <2>2, PlayerAt DEF Commanded
  <2> QED  BY <2>2, <2>3
<1> QED  BY <1>1, <1>2 DEF Commanded

(* The player goes on where it was; where it starts over, the seek back is   *)
(* still to come, or there was little to go back over.                      *)
LEMMA ResumeStep ==
    ASSUME PositionInv, Resume
    PROVE  PositionInv'
<1> USE Constants
<1>1. /\ Types /\ WorldOK /\ req.pc = "resume" /\ session = "starting" /\ UNCHANGED cache
  BY DEF PositionInv, Resume, PhaseOK
<1>2. /\ player.pos \in 0 .. MaxPos /\ waited \in 0 .. Slack /\ req.pos \in 0 .. MaxPos
      /\ req.want \in Int
  BY <1>1 DEF Types, PlayerType, ReqType
<1>3. ASSUME NEW p \in {0, player.pos}, player' \in Commanded("playing", p),
             NEW pc \in {"seekBack", "confirm"}, pc = "seekBack" <=> req.pos > ZeroLimit,
             Goes(pc), UNCHANGED session
      PROVE  PositionInv'
  <2>1. p \in 0 .. MaxPos
    BY <1>2
  <2>2. /\ player' \in PlayerType /\ player'.state = "playing" /\ player'.pos = p /\ player'.off = 0
        /\ \/ player'.stale = "no"
           \/ player'.stale = "zero" /\ player'.left = ZeroFor /\ p > ZeroLimit + 2 * Slack
    BY <1>3, <2>1, CommandedOK DEF PlayerStates
  <2>3. /\ req' \in ReqType /\ req'.pc = pc /\ req'.pos = req.pos /\ req'.want = req.want
        /\ Crossed /\ waited' \in 0 .. Slack /\ waited' = waited
    BY <1>1, <1>3, GoesOK DEF PCs
  <2>4. Types' /\ PollOK'
    BY <1>1, <1>3, <2>2, <2>3, CrossedStep DEF Types
  <2>5. WorldOK' /\ PhaseOK' /\ CacheOK'
    BY <1>1, <1>3, <2>2, <2>3 DEF WorldOK, PhaseOK, CacheOK, InStep
  <2>6. SureOK'
    <3>1. cache.sure => ~cache.running /\ req.pos = cache.position /\ cache.position > ZeroLimit
      BY <1>1 DEF PositionInv, SureOK
    <3> QED  BY <1>1, <1>3, <2>3, <3>1 DEF SureOK
  <2>7. WantOK'
    <3>1. req.want # Off => /\ player.pos = req.want
                            /\ req.want <= req.pos + 2 * Slack /\ req.pos <= req.want + Slack
      BY <1>1 DEF PositionInv, WantOK
    <3>2. ASSUME req.want # Off, pc = "confirm"
          PROVE  req.want <= p + ZeroLimit + 2 * Slack /\ p <= req.want + Slack + waited
      <4>1. req.pos <= ZeroLimit /\ p \in Nat /\ p <= player.pos
        BY <1>2, <1>3, <3>2
      <4> QED  BY <1>2, <3>1, <3>2, <4>1
    <3> QED  BY <1>3, <2>2, <2>3, <3>1, <3>2 DEF WantOK
  <2> QED  BY <2>4, <2>5, <2>6, <2>7 DEF PositionInv
<1>4. CASE Fail /\ UNCHANGED player
  <2>1. player' \in PlayerType /\ player' = player /\ UNCHANGED cache
    BY <1>1, <1>4 DEF Types
  <2> QED  BY <1>4, <2>1, FailStep
<1>5. ASSUME NEW p \in {0, player.pos}, player' \in Commanded("playing", p),
             Goes(IF req.pos > ZeroLimit THEN "seekBack" ELSE "confirm"), UNCHANGED session
      PROVE  PositionInv'
  <2>1. CASE req.pos > ZeroLimit
    BY <1>3, <1>5, <2>1
  <2>2. CASE ~(req.pos > ZeroLimit)
    BY <1>3, <1>5, <2>2
  <2> QED  BY <2>1, <2>2
<1> QED  BY <1>4, <1>5 DEF Resume

(* The seek back sets the cache anew, and guards it.                        *)
LEMMA SeekBackStep ==
    ASSUME PositionInv, SeekBack
    PROVE  PositionInv'
<1> USE Constants
<1>1. /\ Types /\ WorldOK /\ req.pc = "seekBack" /\ session = "starting"
      /\ player.state = "playing" /\ req.pos > ZeroLimit
  BY DEF PositionInv, SeekBack, PhaseOK
<1>2. /\ cache \in CacheType /\ player \in PlayerType /\ waited \in 0 .. Slack
      /\ player.pos \in 0 .. MaxPos /\ req.pos \in 0 .. MaxPos /\ req.want \in Int
  BY <1>1 DEF Types, PlayerType, ReqType
<1>3. ASSUME player' \in Commanded(player.state, req.pos),
             cache' = GuardZero(Set(cache, req.pos, FALSE), Guard), Goes("confirm"), UNCHANGED session
      PROVE  PositionInv'
  <2>0. session' = "starting"
    BY <1>1, <1>3
  <2>1. /\ player' \in PlayerType /\ player'.state = "playing" /\ player'.pos = req.pos /\ player'.off = 0
        /\ \/ player'.stale = "no"
           \/ player'.stale = "zero" /\ player'.left = ZeroFor /\ req.pos > ZeroLimit + 2 * Slack
    BY <1>1, <1>2, <1>3, CommandedOK DEF PlayerStates
  <2>2. PICK d \in CacheType :
          d = Set(cache, req.pos, FALSE) /\ d.known /\ d.position = req.pos /\ ~d.running
    <3>1. FALSE \in BOOLEAN
      OBVIOUS
    <3>2. /\ Set(cache, req.pos, FALSE) \in CacheType /\ Set(cache, req.pos, FALSE).known
          /\ Set(cache, req.pos, FALSE).position = req.pos
          /\ Set(cache, req.pos, FALSE).running = FALSE
      BY <1>2, <3>1, SetType
    <3> QED  BY <3>2
  <2>3. /\ cache' \in CacheType /\ cache'.known /\ cache'.position = req.pos /\ ~cache'.running
        /\ cache'.zero = Guard
    <3>1. /\ GuardZero(d, Guard) \in CacheType
          /\ GuardZero(d, Guard).known = d.known /\ GuardZero(d, Guard).position = d.position
          /\ GuardZero(d, Guard).running = d.running
          /\ GuardZero(d, Guard).zero = IF d.known THEN Guard ELSE d.zero
      BY GuardType
    <3> QED  BY <1>3, <2>2, <3>1
  <2>4. /\ req' \in ReqType /\ req'.pc = "confirm" /\ req'.pos = req.pos /\ req'.want = req.want
        /\ Crossed /\ waited' \in 0 .. Slack /\ waited' = waited
    BY <1>1, <1>3, GoesOK DEF PCs
  <2>5. Types' /\ PollOK'
    BY <1>1, <1>3, <2>1, <2>3, <2>4, CrossedStep DEF Types
  <2>6. WorldOK' /\ PhaseOK' /\ CacheOK'
    BY <2>0, <2>1, <2>3, <2>4 DEF WorldOK, PhaseOK, CacheOK, InStep
  <2>7. SureOK'
    <3>1. ZeroGuarded'
      BY <2>1, <2>3 DEF ZeroGuarded
    <3>2. cache'.position <= player'.pos /\ player'.pos <= cache'.position + waited'
      BY <1>2, <2>1, <2>3, <2>4
    <3> QED  BY <1>1, <2>0, <2>1, <2>3, <2>4, <3>1, <3>2 DEF SureOK
  <2>8. WantOK'
    <3>1. req.want # Off => req.want <= req.pos + 2 * Slack /\ req.pos <= req.want + Slack
      BY <1>1 DEF PositionInv, WantOK
    <3> QED  BY <1>2, <2>1, <2>4, <3>1 DEF WantOK
  <2> QED  BY <2>5, <2>6, <2>7, <2>8 DEF PositionInv
<1>4. ASSUME Fail, player' \in {player, At("paused", player.pos)}, UNCHANGED cache
      PROVE  PositionInv'
  <2>1. player' \in PlayerType /\ (player' = player \/ (player'.stale = "no" /\ player'.off = 0))
    <3>1. At("paused", player.pos) \in PlayerType /\ At("paused", player.pos).stale = "no"
          /\ At("paused", player.pos).off = 0
      BY <1>2, PlayerAt DEF PlayerStates
    <3> QED  BY <1>2, <1>4, <3>1
  <2>2. UNCHANGED cache
    BY <1>4
  <2> QED  BY <1>4, <2>1, <2>2, FailStep
<1> QED  BY <1>3, <1>4 DEF SeekBack

(* A position read while the resume is confirmed is taken over if it is the  *)
(* player's, and the guard starts anew.                                     *)
LEMMA ConfirmStep ==
    ASSUME PositionInv, Confirm
    PROVE  PositionInv'
<1> USE Constants
<1>1. /\ Types /\ WorldOK /\ req.pc = "confirm" /\ player.state = "playing" /\ session = "starting"
      /\ Accept /\ UNCHANGED player
  BY DEF PositionInv, Confirm, PhaseOK
<1>2. /\ cache \in CacheType /\ player \in PlayerType /\ waited \in 0 .. Slack
      /\ player.pos \in 0 .. MaxPos /\ player.left \in Nat /\ cache.position \in Nat
      /\ cache.zero \in Int
  BY <1>1 DEF Types, PlayerType, CacheType
<1>3. cache.sure =>
        /\ cache.known /\ req.pos = cache.position /\ cache.position > ZeroLimit
        /\ cache.position <= player.pos /\ player.pos <= cache.position + waited
        /\ (player.stale = "zero" => cache.zero >= player.left + Slack) /\ player.stale # "old"
  BY <1>1 DEF PositionInv, WorldOK, SureOK, ZeroGuarded
<1>4. PICK s \in Statuses :
        cache' = IF req.pos > ZeroLimit THEN GuardZero(CacheBackendPosition(cache, s, TRUE), Guard)
                 ELSE CacheBackendPosition(cache, s, TRUE)
  BY DEF Confirm
<1>5. PICK c : c = CacheBackendPosition(cache, s, TRUE)
  OBVIOUS
<1>6. Taken(cache, c, s, TRUE) \/ Estimated(cache, c, s, TRUE)
  BY <1>1, <1>2, <1>5, StatusesType, BackendPosition
<1>7. /\ c \in CacheType /\ (c.known \/ [c EXCEPT !.sure = TRUE] = NoCache)
      /\ c.known => c.running
  BY <1>1, <1>2, <1>6 DEF Types, Taken, Estimated
<1>8. ASSUME c.sure
      PROVE  /\ c.known
             /\ c.position <= player.pos + Slack /\ player.pos <= c.position + Slack
             /\ player.stale = "zero" => cache.sure
             /\ player.stale = "old" => Harmless \/ player.pos = MaxPos
  <2>1. CASE Estimated(cache, c, s, TRUE)
    <3>1. c.sure = cache.sure /\ c.known = cache.known /\ c.position = cache.position
      BY <2>1 DEF Estimated
    <3> QED  BY <1>2, <1>3, <1>8, <3>1
  <2>2. CASE Taken(cache, c, s, TRUE)
    <3>1. /\ player.stale # "zero" /\ player.pos <= c.position /\ c.position <= player.pos + Slack
          /\ player.stale = "old" => Harmless \/ player.pos = MaxPos
      BY <1>1, <1>2, <1>3, <1>8, <2>2, ReadPosition
    <3>2. c.position \in Nat /\ c.known
      BY <1>7, <2>2 DEF CacheType, Taken
    <3> QED  BY <1>2, <3>1, <3>2
  <2> QED  BY <1>6, <2>1, <2>2
<1>9. /\ cache' \in CacheType /\ (cache'.known \/ [cache' EXCEPT !.sure = TRUE] = NoCache)
      /\ cache'.known = c.known /\ cache'.position = c.position /\ cache'.sure = c.sure
      /\ cache'.running = c.running
      /\ req.pos > ZeroLimit /\ c.known => cache'.zero = Guard
  <2>1. CASE req.pos > ZeroLimit
    <3>1. cache' = GuardZero(c, Guard)
      BY <1>4, <1>5, <2>1
    <3>2. /\ GuardZero(c, Guard) \in CacheType
          /\ GuardZero(c, Guard).known = c.known /\ GuardZero(c, Guard).position = c.position
          /\ GuardZero(c, Guard).running = c.running /\ GuardZero(c, Guard).sure = c.sure
          /\ GuardZero(c, Guard).zero = IF c.known THEN Guard ELSE c.zero
          /\ ~c.known => GuardZero(c, Guard) = c
      BY <1>7, GuardType
    <3> QED  BY <1>7, <3>1, <3>2
  <2>2. CASE ~(req.pos > ZeroLimit)
    <3>1. cache' = c
      BY <1>4, <1>5, <2>2
    <3> QED  BY <1>7, <2>2, <3>1
  <2> QED  BY <2>1, <2>2
<1>10. /\ Types' /\ PollOK' /\ session' = "playing"
       /\ req'.pc = "none" /\ req'.want = Off /\ waited' = waited
  BY <1>1, <1>2, <1>9, AcceptOK
<1>11. CacheOK'
  <2>1. ASSUME c.sure
        PROVE  /\ ZeroGuarded'
               /\ player'.stale = "old" => Harmless' \/ player'.pos = MaxPos
    <3>1. player.stale = "zero" => cache'.zero = Guard /\ player.left <= ZeroFor
      BY <1>1, <1>3, <1>8, <1>9, <2>1 DEF WorldOK
    <3>2. ZeroGuarded'
      <4>1. player.stale = "zero" => cache'.zero >= player.left + Slack
        BY <1>2, <3>1
      <4> QED  BY <1>1, <4>1 DEF ZeroGuarded
    <3> QED  BY <1>1, <1>8, <2>1, <3>2 DEF Harmless
  <2>2. ASSUME c.sure
        PROVE  /\ cache'.position <= player'.pos + Slack /\ player'.pos <= cache'.position + Slack
               /\ player'.pos <= cache'.position + 2 * Slack
    <3>1. c.position \in Nat /\ cache'.position = c.position /\ player'.pos = player.pos
      BY <1>1, <1>7, <1>9 DEF CacheType
    <3> QED  BY <1>2, <1>8, <2>2, <3>1
  <2>3. c.sure => cache'.running
    BY <1>7, <1>8, <1>9
  <2> QED  BY <1>9, <1>10, <2>1, <2>2, <2>3 DEF CacheOK
<1>12. WorldOK'
  BY <1>1, <1>8, <1>9 DEF WorldOK
<1>13. PhaseOK' /\ SureOK' /\ WantOK'
  BY <1>1, <1>10 DEF PhaseOK, SureOK, WantOK, InStep
<1> QED  BY <1>10, <1>11, <1>12, <1>13 DEF PositionInv

(* Pause brings the cache up to date, stops it and guards it, before the     *)
(* player is told.                                                          *)
LEMMA PauseStep ==
    ASSUME PositionInv, Pause
    PROVE  PositionInv'
<1> USE Constants
<1>1. /\ Types /\ WorldOK /\ Begins /\ session = "playing" /\ session' = "paused" /\ UNCHANGED player
      /\ req' = [Idle EXCEPT !.pc = "pause"]
  BY DEF PositionInv, Pause
<1>2. /\ cache \in CacheType /\ player \in PlayerType
      /\ player.pos \in 0 .. MaxPos /\ player.left \in Nat /\ cache.position \in Nat
  BY <1>1 DEF Types, PlayerType, CacheType
<1>3. req.pc = "none" /\ Crossed /\ waited' \in 0 .. Slack
  BY <1>1, BeginsOK
<1>4. cache.sure =>
        /\ cache.known /\ player.state = "playing"
        /\ cache.position <= player.pos + Slack /\ player.pos <= cache.position + Slack
        /\ (player.stale = "zero" => cache.zero >= player.left + Slack)
        /\ player.stale = "old" =>
              \/ Harmless \/ player.pos = MaxPos
              \/ cache.fresh >= player.left + Slack /\ cache.position <= player.pos
  BY <1>1, <1>3 DEF PositionInv, WorldOK, SureOK, InStep, CacheOK, ZeroGuarded, Held
<1>5. PICK s \in Statuses :
        cache' = GuardZero(Estimate(PlaybackPosition(cache, "playing", s), FALSE), Guard)
  BY <1>1 DEF Pause
<1>6. PICK c : c = PlaybackPosition(cache, "playing", s)
  OBVIOUS
<1>7. Taken(cache, c, s, TRUE) \/ Estimated(cache, c, s, TRUE)
  <2>1. "playing" \in States /\ s \in StatusType
    BY <1>1, StatusesType DEF States
  <2> QED  BY <1>2, <1>6, <2>1, Playback
<1>8. c \in CacheType /\ (c.known \/ [c EXCEPT !.sure = TRUE] = NoCache)
  BY <1>1, <1>2, <1>7 DEF Types, Taken, Estimated
<1>9. ASSUME c.sure
      PROVE  /\ c.known /\ player.state = "playing"
             /\ c.position <= player.pos + Slack /\ player.pos <= c.position + Slack
  <2>1. CASE Estimated(cache, c, s, TRUE)
    <3>1. c.sure = cache.sure /\ c.known = cache.known /\ c.position = cache.position
      BY <2>1 DEF Estimated
    <3> QED  BY <1>4, <1>9, <3>1
  <2>2. CASE Taken(cache, c, s, TRUE)
    <3>1. player.state = "playing"
      <4>1. s = Reported /\ (s.state = "playing" \/ cache.sure)
        BY <1>9, <2>2 DEF Taken, Statuses
      <4> QED  BY <1>1, <1>4, <4>1, ReportedType
    <3>2. player.pos <= c.position /\ c.position <= player.pos + Slack
      BY <1>1, <1>2, <1>4, <1>9, <2>2, <3>1, ReadPosition
    <3>3. c.position \in Nat /\ c.known
      BY <1>8, <2>2 DEF CacheType, Taken
    <3> QED  BY <1>2, <3>1, <3>2, <3>3
  <2> QED  BY <1>7, <2>1, <2>2
<1>10. PICK d \in CacheType :
         /\ d = Estimate(c, FALSE)
         /\ d.known = c.known /\ d.position = c.position /\ d.sure = c.sure
         /\ c.known => ~d.running
         /\ ~c.known => d = c
  BY <1>8, EstimateType
<1>11. /\ cache' \in CacheType /\ (cache'.known \/ [cache' EXCEPT !.sure = TRUE] = NoCache)
       /\ cache'.known = c.known /\ cache'.position = c.position /\ cache'.sure = c.sure
       /\ c.known => ~cache'.running /\ cache'.zero = Guard
  <2>1. cache' = GuardZero(d, Guard)
    BY <1>5, <1>6, <1>10
  <2>2. /\ GuardZero(d, Guard) \in CacheType
        /\ GuardZero(d, Guard).known = d.known /\ GuardZero(d, Guard).position = d.position
        /\ GuardZero(d, Guard).running = d.running /\ GuardZero(d, Guard).sure = d.sure
        /\ GuardZero(d, Guard).zero = IF d.known THEN Guard ELSE d.zero
        /\ ~d.known => GuardZero(d, Guard) = d
    BY GuardType
  <2> QED  BY <1>8, <1>10, <2>1, <2>2
<1>12. req' \in ReqType /\ req'.pc = "pause" /\ req'.want = Off
  BY <1>1, IdleType DEF ReqType, PCs
<1>13. Types' /\ PollOK'
  BY <1>1, <1>2, <1>3, <1>11, <1>12, CrossedStep DEF States
<1>14. WorldOK'
  BY <1>1, <1>9, <1>11 DEF WorldOK
<1>15. CacheOK'
  BY <1>1, <1>9, <1>11 DEF CacheOK, InStep
<1>16. SureOK'
  <2>1. ASSUME c.sure
        PROVE  /\ player'.state = "playing" /\ ~cache'.running
               /\ cache'.position <= player'.pos + Slack
               /\ player'.pos <= cache'.position + Slack + waited'
               /\ cache'.zero >= Guard - waited'
    <3>1. /\ c.position \in Nat /\ cache'.position = c.position /\ player'.pos = player.pos
          /\ cache'.zero = Guard /\ ~cache'.running /\ player'.state = "playing"
      BY <1>1, <1>8, <1>9, <1>11, <2>1 DEF CacheType
    <3>2. c.position <= player.pos + Slack /\ player.pos <= c.position + Slack
      BY <1>9, <2>1
    <3>3. PICK w \in Nat : waited' = w
      BY <1>3
    <3>4. player.pos <= c.position + Slack + w /\ Guard >= Guard - w
      <4>1. player.pos \in Nat /\ c.position \in Nat
        BY <1>2, <3>1
      <4> QED  BY <3>2, <4>1
    <3>5. /\ cache'.position <= player'.pos + Slack
          /\ player'.pos <= cache'.position + Slack + waited'
          /\ cache'.zero >= Guard - waited'
      <4>1. cache'.position = c.position /\ player'.pos = player.pos /\ cache'.zero = Guard
        BY <3>1
      <4> QED  BY <3>2, <3>3, <3>4, <4>1
    <3> QED  BY <3>1, <3>5
  <2> QED  BY <1>11, <1>12, <2>1 DEF SureOK
<1> QED  BY <1>1, <1>12, <1>13, <1>14, <1>15, <1>16 DEF PositionInv, PhaseOK, WantOK

(* The guard is there before the player can say 0.                          *)
LEMMA PauseCallStep ==
    ASSUME PositionInv, PauseCall
    PROVE  PositionInv'
<1> USE Constants
<1>1. /\ Types /\ WorldOK /\ req.pc = "pause" /\ session = "paused" /\ UNCHANGED cache
  BY DEF PositionInv, PauseCall, PhaseOK
<1>2. /\ cache \in CacheType /\ player \in PlayerType /\ waited \in 0 .. Slack
      /\ player.pos \in 0 .. MaxPos /\ cache.position \in Nat /\ cache.zero \in Int
  BY <1>1 DEF Types, PlayerType, CacheType
<1>3. cache.sure =>
        /\ player.state = "playing" /\ ~cache.running
        /\ cache.position <= player.pos + Slack
        /\ player.pos <= cache.position + Slack + waited
        /\ cache.zero >= Guard - waited
  BY <1>1 DEF PositionInv, SureOK
<1>4. CASE Fail /\ UNCHANGED player
  <2>1. player' \in PlayerType /\ player' = player
    BY <1>2, <1>4
  <2> QED  BY <1>1, <1>4, <2>1, FailStep
<1>5. ASSUME Goes("paused"), UNCHANGED session,
             player' \in {player} \cup (IF player.state = "playing"
                                        THEN {At("idle", player.pos)} \cup
                                             Commanded("paused", player.pos) ELSE {})
      PROVE  PositionInv'
  <2>1. /\ req' \in ReqType /\ req'.pc = "paused"
        /\ Crossed /\ waited' \in 0 .. Slack /\ waited' = waited
    BY <1>1, <1>5, GoesOK DEF PCs
  <2>2. \/ player' = player
        \/ /\ player' \in PlayerType /\ player'.pos = player.pos /\ player'.off = 0
           /\ player'.state \in {"idle", "paused"}
           /\ \/ player'.stale = "no"
              \/ /\ player'.stale = "zero" /\ player'.left = ZeroFor /\ player'.state = "paused"
                 /\ player.pos > ZeroLimit + 2 * Slack
    BY <1>2, <1>5, PlayerAt, CommandedOK DEF PlayerStates
  <2>3. Types' /\ PollOK'
    <3>1. player' \in PlayerType
      BY <1>2, <2>2
    <3> QED  BY <1>1, <1>5, <2>1, <3>1, CrossedStep DEF Types
  <2>4. WorldOK' /\ PhaseOK'
    BY <1>1, <1>5, <2>1, <2>2 DEF WorldOK, PhaseOK
  <2>5. CacheOK'
    <3>1. ASSUME cache.sure, player'.state # "playing"
          PROVE  /\ ~cache.running
                 /\ cache.position <= player'.pos + Slack
                 /\ player'.pos <= cache.position + 2 * Slack
                 /\ player'.stale = "zero" => cache.zero >= player'.left + Slack
                 /\ player'.stale # "old"
      BY <1>2, <1>3, <2>2, <3>1
    <3> QED  BY <1>1, <1>5, <3>1 DEF CacheOK, InStep, ZeroGuarded
  <2>6. SureOK'
    BY <1>1, <1>3, <2>1 DEF SureOK
  <2> QED  BY <2>1, <2>3, <2>4, <2>5, <2>6 DEF PositionInv, WantOK
<1> QED  BY <1>4, <1>5 DEF PauseCall

\* A pause is confirmed with a position of the player, or with the estimate.
LEMMA PauseConfirmedStep ==
    ASSUME PositionInv, PauseConfirmed
    PROVE  PositionInv'
<1> USE Constants
<1>1. /\ Types /\ WorldOK /\ req.pc = "paused" /\ session = "paused" /\ player.state # "playing"
      /\ Ends /\ UNCHANGED <<session, player>> /\ InStep
  BY DEF PositionInv, PauseConfirmed, PhaseOK, InStep
<1>2. /\ cache \in CacheType /\ player \in PlayerType /\ waited \in 0 .. Slack
      /\ player.pos \in 0 .. MaxPos /\ player.left \in Nat /\ cache.position \in Nat
      /\ cache.zero \in Int
  BY <1>1 DEF Types, PlayerType, CacheType
<1>3. cache.sure =>
        /\ cache.known
        /\ cache.position <= player.pos + Slack /\ player.pos <= cache.position + 2 * Slack
        /\ (player.stale = "zero" => cache.zero >= player.left + Slack)
        /\ player.state = "idle" => player.pos = 0 \/ cache.zero >= 0
  <2>1. cache.sure /\ player.state = "idle" => player.pos = 0 \/ cache.zero >= Guard - waited
    BY <1>1 DEF PositionInv, SureOK
  <2> QED  BY <1>1, <1>2, <2>1 DEF PositionInv, WorldOK, CacheOK, ZeroGuarded
<1>4. PICK s \in Statuses : cache' = CacheBackendPosition(cache, s, FALSE)
  BY DEF PauseConfirmed
<1>5. player.stale # "old"
  BY <1>1 DEF WorldOK
<1>6. Taken(cache, cache', s, FALSE) \/ Estimated(cache, cache', s, FALSE)
  BY <1>1, <1>2, <1>4, StatusesType, BackendPosition
<1>7. /\ cache' \in CacheType /\ (cache'.known \/ [cache' EXCEPT !.sure = TRUE] = NoCache)
      /\ cache'.known => ~cache'.running
  BY <1>1, <1>2, <1>6 DEF Types, Taken, Estimated
<1>8. ASSUME cache'.sure
      PROVE  /\ cache'.known
             /\ cache'.position <= player.pos + Slack /\ player.pos <= cache'.position + 2 * Slack
             /\ player.stale = "zero" => cache'.zero >= player.left + Slack
  <2>1. CASE Estimated(cache, cache', s, FALSE)
    <3>1. cache'.sure = cache.sure /\ cache'.known = cache.known
          /\ cache'.position = cache.position /\ cache'.zero = cache.zero
      BY <2>1 DEF Estimated
    <3> QED  BY <1>3, <1>8, <3>1
  <2>2. CASE Taken(cache, cache', s, FALSE)
    <3>1. /\ player.stale # "zero" /\ player.pos <= cache'.position
          /\ cache'.position <= player.pos + Slack
      BY <1>1, <1>2, <1>3, <1>5, <1>8, <2>2, ReadPosition
    <3>2. cache'.position \in Nat /\ cache'.known
      BY <1>7, <2>2 DEF CacheType, Taken
    <3> QED  BY <1>2, <3>1, <3>2
  <2> QED  BY <1>6, <2>1, <2>2
<1>9. /\ req' \in ReqType /\ req'.pc = "none" /\ req'.want = Off
      /\ Crossed /\ waited' \in 0 .. Slack
  BY <1>1, EndsOK
<1>10. Types' /\ PollOK'
  BY <1>1, <1>7, <1>9, CrossedStep DEF Types
<1>11. WorldOK'
  BY <1>1, <1>8 DEF WorldOK
<1>12. CacheOK'
  <2>1. player' = player /\ session' = "paused"
    BY <1>1
  <2>2. cache'.sure => ~cache'.running
    BY <1>7, <1>8
  <2> QED  BY <1>5, <1>8, <2>1, <2>2 DEF CacheOK, ZeroGuarded
<1>13. SureOK'
  BY <1>1, <1>9 DEF SureOK, InStep
<1> QED  BY <1>1, <1>9, <1>10, <1>11, <1>12, <1>13 DEF PositionInv, PhaseOK, WantOK

(* A seek sets the cache before the player is told.                         *)
LEMMA SeekBeginStep ==
    ASSUME PositionInv, SeekBegin
    PROVE  PositionInv'
<1> USE Constants
<1>1. /\ Types /\ WorldOK /\ Begins /\ session \in {"playing", "paused"}
      /\ UNCHANGED <<session, player>>
  BY DEF PositionInv, SeekBegin
<1>2. /\ cache \in CacheType /\ player \in PlayerType
  BY <1>1 DEF Types
<1>3. req.pc = "none" /\ Crossed /\ waited' \in 0 .. Slack
  BY <1>1, BeginsOK
<1>4. PICK offset \in 0 .. MaxPos :
        /\ cache' = [Set(cache, offset, session = "playing")
                       EXCEPT !.sure = session = "playing" <=> player.state = "playing"]
        /\ req' = [pc |-> "seek", pos |-> offset, want |-> Off]
  BY DEF SeekBegin
<1>5. PICK c \in CacheType :
        /\ c = Set(cache, offset, session = "playing")
        /\ c.known /\ c.position = offset /\ (c.running <=> session = "playing")
  <2>1. CASE session = "playing"
    <3>1. TRUE \in BOOLEAN /\ (session = "playing") = TRUE
      BY <2>1
    <3>2. /\ Set(cache, offset, TRUE) \in CacheType /\ Set(cache, offset, TRUE).known
          /\ Set(cache, offset, TRUE).position = offset /\ Set(cache, offset, TRUE).running = TRUE
      BY <1>2, <3>1, SetType
    <3> QED  BY <2>1, <3>1, <3>2
  <2>2. CASE session # "playing"
    <3>1. FALSE \in BOOLEAN /\ (session = "playing") = FALSE
      BY <2>2
    <3>2. /\ Set(cache, offset, FALSE) \in CacheType /\ Set(cache, offset, FALSE).known
          /\ Set(cache, offset, FALSE).position = offset
          /\ Set(cache, offset, FALSE).running = FALSE
      BY <1>2, <3>1, SetType
    <3> QED  BY <2>2, <3>1, <3>2
  <2> QED  BY <2>1, <2>2
<1>6. /\ cache' \in CacheType /\ cache'.known /\ cache'.position = offset
      /\ (cache'.running <=> session = "playing")
      /\ (cache'.sure <=> (session = "playing" <=> player.state = "playing"))
  <2>1. cache' = [c EXCEPT !.sure = session = "playing" <=> player.state = "playing"]
    BY <1>4, <1>5
  <2> HIDE <1>4
  <2> QED  BY <1>5, <2>1 DEF CacheType
<1>7. req' \in ReqType /\ req'.pc = "seek" /\ req'.pos = offset /\ req'.want = Off
  BY <1>4 DEF ReqType, PCs
<1>8. Types' /\ PollOK'
  BY <1>1, <1>2, <1>3, <1>6, <1>7, CrossedStep DEF Types
<1>9. WorldOK' /\ CacheOK' /\ PhaseOK' /\ WantOK'
  BY <1>1, <1>6, <1>7 DEF WorldOK, CacheOK, PhaseOK, WantOK
<1>10. SureOK'
  <2>1. /\ req'.pos <= cache'.position /\ cache'.position <= req'.pos + waited'
        /\ cache'.position = req'.pos
    <3>1. PICK w \in Nat : waited' = w
      BY <1>3
    <3>2. offset <= offset /\ offset <= offset + w
      OBVIOUS
    <3> QED  BY <1>6, <1>7, <3>1, <3>2
  <2>2. cache'.sure => /\ session' = "playing" <=> player'.state = "playing"
                       /\ cache'.running <=> session' = "playing"
    BY <1>1, <1>6
  <2> QED  BY <1>7, <2>1, <2>2 DEF SureOK
<1> QED  BY <1>8, <1>9, <1>10 DEF PositionInv

\* When the seek has been carried out, the player is where the cache says.
LEMMA SeekCallStep ==
    ASSUME PositionInv, SeekCall
    PROVE  PositionInv'
<1> USE Constants
<1>1. /\ Types /\ WorldOK /\ req.pc = "seek" /\ session \in {"playing", "paused"} /\ UNCHANGED cache
  BY DEF PositionInv, SeekCall, PhaseOK
<1>2. /\ cache \in CacheType /\ player \in PlayerType /\ waited \in 0 .. Slack
      /\ player.state \in PlayerStates /\ req.pos \in 0 .. MaxPos /\ cache.position \in Nat
  BY <1>1 DEF Types, PlayerType, CacheType, ReqType
<1>3. cache.sure =>
        /\ session = "playing" <=> player.state = "playing"
        /\ cache.running <=> session = "playing"
        /\ req.pos <= cache.position /\ cache.position <= req.pos + waited
        /\ cache.known
  BY <1>1 DEF PositionInv, SureOK, WorldOK
<1>4. CASE Fail /\ UNCHANGED player
  <2>1. player' \in PlayerType /\ player' = player
    BY <1>2, <1>4
  <2> QED  BY <1>1, <1>4, <2>1, FailStep
<1>5. ASSUME player' = At(player.state, req.pos), Ends, UNCHANGED session
      PROVE  PositionInv'
  <2>1. /\ player' \in PlayerType /\ player'.state = player.state /\ player'.pos = req.pos
        /\ player'.stale = "no" /\ player'.off = 0
    BY <1>2, <1>5, PlayerAt
  <2>2. /\ req' \in ReqType /\ req'.pc = "none" /\ req'.want = Off
        /\ Crossed /\ waited' \in 0 .. Slack /\ waited' = waited
    BY <1>1, <1>5, EndsOK
  <2>3. Types' /\ PollOK'
    BY <1>1, <1>5, <2>1, <2>2, CrossedStep DEF Types
  <2>4. WorldOK' /\ PhaseOK' /\ WantOK'
    BY <1>1, <1>5, <2>1, <2>2 DEF WorldOK, PhaseOK, WantOK
  <2>5. CacheOK'
    <3>1. cache.sure => /\ cache.position <= player'.pos + Slack
                        /\ player'.pos <= cache.position + Slack
                        /\ player'.pos <= cache.position + 2 * Slack
      BY <1>2, <1>3, <2>1
    <3> QED  BY <1>1, <1>3, <1>5, <2>1, <3>1 DEF CacheOK, ZeroGuarded
  <2>6. SureOK'
    BY <1>1, <1>3, <1>5, <2>1, <2>2 DEF SureOK, InStep
  <2> QED  BY <2>3, <2>4, <2>5, <2>6 DEF PositionInv
<1> QED  BY <1>4, <1>5 DEF SeekCall

-----------------------------------------------------------------------------
(* The invariant holds                                                      *)

\* The invariant holds before the first request.
LEMMA PositionInit == Init => PositionInv
<1> SUFFICES ASSUME Init PROVE PositionInv
  OBVIOUS
<1> USE Constants
<1>1. /\ session = "none" /\ cache = NoCache /\ player = At("idle", 0) /\ req = Idle /\ poll = NoPoll
      /\ waited = 0
  BY DEF Init
<1>2. /\ player \in PlayerType /\ player.stale = "no" /\ player.off = 0
  <2>1. "idle" \in PlayerStates /\ 0 \in 0 .. MaxPos
    BY DEF PlayerStates
  <2> QED  BY <1>1, <2>1, PlayerAt
<1>3. poll \in PollType /\ ~poll.busy
  BY <1>1 DEF NoPoll, NoStatus, PollType, StatusType, States
<1>4. Types
  BY <1>1, <1>2, <1>3, NoCacheType, IdleType DEF Types, States
<1>5. WorldOK /\ CacheOK /\ PhaseOK /\ SureOK /\ WantOK /\ PollOK
  BY <1>1, <1>2, <1>3, IdleType DEF WorldOK, CacheOK, InStep, PhaseOK, SureOK, WantOK, PollOK
<1> QED  BY <1>4, <1>5 DEF PositionInv

\* Every step keeps the invariant.
LEMMA PositionStep == PositionInv /\ [Next]_vars => PositionInv'
<1> SUFFICES ASSUME PositionInv, [Next]_vars PROVE PositionInv'
  OBVIOUS
<1>1. CASE World
  BY <1>1, SettleStep, UserStep, GoesIdleStep, TickStep DEF World
<1>2. CASE Reads
  BY <1>2, PollBeginStep, PollEndStep, FindsPausedStep, FindsPlayingStep, NoAnswerStep DEF Reads
<1>3. CASE Requests
  BY <1>3, NoAnswerStep, PlayFreshStep, ConfirmFreshStep, RebasedStep, PlayPausedStep, ResumeStep,
     SeekBackStep, ConfirmStep, PauseStep, PauseCallStep, PauseConfirmedStep, PauseTimesOutStep,
     SeekBeginStep, SeekCallStep
  DEF Requests
<1>4. CASE UNCHANGED vars
  BY <1>4 DEF vars, PositionInv, Types, WorldOK, CacheOK, InStep, ZeroGuarded, Harmless, Held, PhaseOK,
              SureOK, WantOK, PollOK, PollRight, PollClose, PollWrong
<1> QED  BY <1>1, <1>2, <1>3, <1>4 DEF Next

(* The inductive invariant of the position cache: how far cache and player  *)
(* are apart in every phase of a request, and which guard outlasts each     *)
(* wrong report of the player.                                              *)
THEOREM PositionSound == Spec => []PositionInv
  BY PositionInit, PositionStep, PTL DEF Spec

(* The variables of the position cache, its player, requests and polls keep  *)
(* their types, and a cache without a position is blank.                    *)
THEOREM PositionTypeCorrect == Spec => []PositionTypeOK
<1>1. PositionInv => PositionTypeOK
  BY Constants DEF PositionInv, Types, States, CacheType, PlayerType, PlayerStates, ReqType, PCs,
                   PositionTypeOK
<1> QED  BY <1>1, PositionSound, PTL

-----------------------------------------------------------------------------
(* What answers and resumes are worth                                       *)

(* GetPositionInfo, answered from the player or from the cache, is within   *)
(* the tolerance of where the player is, for any limits: the tolerance has  *)
(* to allow for a zero that is not guarded against and for the delays of a  *)
(* request and a poll.                                                      *)
LEMMA NearAnswers ==
    ASSUME PositionInv, ZeroLimit + 2 * Slack <= Tolerance
    PROVE  AnswersNearPlayer
<1> USE Constants
<1> SUFFICES ASSUME cache.sure, req.pc # "seek", InStep, NEW s \in Statuses,
                    PlaybackPosition(cache, session, s).known
             PROVE  Near(PlaybackPosition(cache, session, s).position, player.pos)
  BY DEF AnswersNearPlayer, InStep
<1>1. /\ Types /\ WorldOK /\ cache \in CacheType /\ s \in StatusType /\ session \in States
      /\ player.pos \in 0 .. MaxPos /\ player.off \in Nat /\ player.left \in Nat
      /\ player.stale \in {"no", "zero", "old"}
      /\ cache.position \in Nat /\ cache.zero \in Int /\ cache.fresh \in Int
  BY StatusesType DEF PositionInv, Types, CacheType, PlayerType
<1>2. /\ cache.known
      /\ cache.position <= player.pos + Slack /\ player.pos <= cache.position + 2 * Slack
      /\ player.stale = "zero" => cache.zero >= player.left + Slack
      /\ player.stale = "old" =>
            \/ Harmless \/ player.pos = MaxPos
            \/ cache.fresh >= player.left + Slack /\ cache.position <= player.pos
  BY DEF PositionInv, WorldOK, CacheOK, InStep, ZeroGuarded, Held
<1>3. PICK c : c = PlaybackPosition(cache, session, s)
  OBVIOUS
<1>4. CASE Estimated(cache, c, s, session = "playing")
  <2>1. c.position = cache.position
    BY <1>4 DEF Estimated
  <2>2. cache.position <= player.pos + Tolerance /\ player.pos <= cache.position + Tolerance
    BY <1>1, <1>2
  <2> QED  BY <1>3, <2>1, <2>2 DEF Near
<1>5. CASE Taken(cache, c, s, session = "playing") /\ ~IdleZero(cache, s)
  <2>1. s = Reported /\ c.position = s.pos /\ s.pos \in Nat
    BY <1>1, <1>5 DEF Taken, Statuses, StatusType
  <2>2. ~(cache.fresh # Off /\ s.pos > FreshMin)
    BY <1>2, <1>5 DEF Taken, Suppressed
  <2>3. ~(s.pos <= ZeroLimit /\ cache.zero # Off /\ cache.position > ZeroLimit)
    BY <1>2, <1>5 DEF Taken, GuardedZero
  <2>4. ~(s.state = "idle" /\ s.pos <= ZeroLimit /\ cache.position > ZeroLimit)
    BY <1>2, <1>5 DEF IdleZero
  <2>5. s.pos <= player.pos + Tolerance /\ player.pos <= s.pos + Tolerance
    <3>1. CASE s.right
      BY <1>1, <2>1, <3>1, ReportedType
    <3>2. CASE player.state = "idle" /\ ~s.right
      <4>1. s.pos = 0 /\ s.state = "idle"
        BY <1>1, <2>1, <3>2, ReportedType
      <4>2. cache.position <= ZeroLimit
        BY <1>1, <2>4, <4>1
      <4> QED  BY <1>1, <1>2, <4>1, <4>2
    <3>3. CASE player.stale = "zero" /\ ~s.right
      <4>1. s.pos = 0 /\ player.pos > ZeroLimit + 2 * Slack
        BY <1>1, <2>1, <3>3, ReportedType DEF WorldOK
      <4>2. cache.zero # Off /\ cache.position > ZeroLimit
        BY <1>1, <1>2, <3>3, <4>1
      <4> QED  BY <2>3, <4>1, <4>2
    <3>4. CASE player.state # "idle" /\ player.stale # "zero" /\ ~s.right
      <4>1. s.pos = IF player.pos + player.off < MaxPos THEN player.pos + player.off ELSE MaxPos
        BY <1>1, <2>1, <3>4, ReportedType
      <4>2. s.pos # player.pos
        BY <1>1, <2>1, <3>4, ReportedType
      <4>3. player.stale = "old" /\ player.pos # MaxPos /\ player.pos <= s.pos
            /\ s.pos <= player.pos + player.off
        BY <1>1, <3>4, <4>1, <4>2 DEF WorldOK
      <4>4. CASE Harmless
        BY <1>1, <2>1, <4>3, <4>4 DEF Harmless
      <4>5. CASE cache.fresh >= player.left + Slack
        <5>1. s.pos <= FreshMin
          BY <1>1, <2>1, <2>2, <4>5
        <5> QED  BY <1>1, <2>1, <4>3, <5>1
      <4> QED  BY <1>2, <4>3, <4>4, <4>5
    <3> QED  BY <3>1, <3>2, <3>3, <3>4
  <2> QED  BY <1>3, <2>1, <2>5 DEF Near
<1> QED  BY <1>1, <1>3, <1>4, <1>5, Playback

(* GetPositionInfo tells where the player is, while the player says 0, counts *)
(* on from before a seek, is idle or cannot be asked, and after polls that   *)
(* requests have overtaken.                                                 *)
THEOREM AnswersAreNear ==
    ASSUME ZeroLimit + 2 * Slack <= Tolerance
    PROVE  Spec => []AnswersNearPlayer
<1>1. PositionInv => AnswersNearPlayer
  BY NearAnswers
<1> QED  BY <1>1, PositionSound, PTL

(* A resume that is to be confirmed has the player where it was when the    *)
(* resume was asked for, whether the player went on or started over.        *)
THEOREM ResumesAreInPlace ==
    ASSUME ZeroLimit + 2 * Slack <= Tolerance
    PROVE  Spec => []ResumesInPlace
<1>1. PositionInv => ResumesInPlace
  <2> SUFFICES ASSUME PositionInv, req.pc = "confirm", req.want # Off
               PROVE  Near(player.pos, req.want)
    BY DEF ResumesInPlace
  <2>1. /\ req.want <= player.pos + ZeroLimit + 2 * Slack
        /\ player.pos <= req.want + Slack + waited
    BY DEF PositionInv, WantOK
  <2>2. waited \in 0 .. Slack /\ player.pos \in Nat /\ req.want \in Int
    BY Constants DEF PositionInv, Types, PlayerType, ReqType
  <2> QED  BY <2>1, <2>2, Constants DEF Near
<1> QED  BY <1>1, PositionSound, PTL
=============================================================================
