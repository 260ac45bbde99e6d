--------------------------- MODULE AVTransport_proofs ---------------------------
(***************************************************************************)
(* What a control point sees.  The handlers, the monitors and the player   *)
(* together implement AVTransport, for every number of requests, monitors  *)
(* and sessions; and with one request at a time, for every number of       *)
(* monitors and sessions, the transport state is also the right one        *)
(* (Alone, below).                                                         *)
(*                                                                         *)
(* A step of Transport changes at most one session through one method of   *)
(* the manager, or creates one.  Only one of these steps could break the   *)
(* promise: a mark that makes a session playing which no Play has ever     *)
(* started.  StartedOK excludes it: whoever is about to use a session that *)
(* is still as it was loaded is a Play or a Stop that has only just begun, *)
(* or an event that nothing follows.                                       *)
(***************************************************************************)
EXTENDS Transport_proofs

\* A Play or a Stop has reached the session, or a later SetAVTransportURI.
Started(id) == sessions[id] \notin {"unborn", "loaded"}

\* Where a process may be about a session that is still as it was loaded.
Early(p) ==
    \/ pc[p] \in {"stopLock", "stopSession"}
    \/ pc[p] \in {"playOp", "positionOp", "playSession"} /\ loc[p].snap \notin {"starting", "paused"}
    \/ pc[p] \in {"notify", "send"} /\ loc[p].then \in {"idle", "off"}

ProcessStarted(p) ==
    \/ pc[p] \in Sessionless
    \/ Started(sid(p))
    \/ Early(p) /\ sessions[sid(p)] = "loaded"

StartedOK == \A p \in Procs : ProcessStarted(p)

-----------------------------------------------------------------------------
(* What a step does to the session table. *)

\* A method of the manager that moves a session on as a control point may see it.
Changes(id, st) ==
    /\ Exists(id) /\ SetState(id, st)
    /\ st # "loaded"
    /\ st = "starting" => CanPlay(id)
    /\ st = "playing" => sessions[id] \in {"starting", "paused"}

\* A method that a step calls moves its session as a control point may see it.
LEMMA UseChanges ==
    ASSUME TypeOK, StartedOK, NEW p \in Procs, sid(p) \in Ids, UsesManager(p)
    PROVE  \E st \in State : Changes(sid(p), st)
<1> USE DEF Changes, Exists, State, Active
<1>1. CASE Play(sid(p))
  <2>1. Changes(sid(p), "starting")
    BY <1>1 DEF Play, CanPlay
  <2> QED  BY <2>1
<1>2. CASE Stop(sid(p)) \/ StopIfGeneration(sid(p), 0)
  <2>1. Changes(sid(p), "stopped")
    BY <1>2 DEF Stop, StopIfGeneration, CanStopIfGeneration
  <2> QED  BY <2>1
<1>3. CASE Pause(sid(p)) \/ MarkPausedIfGeneration(sid(p), 0)
  <2>1. Changes(sid(p), "paused")
    BY <1>3 DEF Pause, MarkPausedIfGeneration, CanMarkPaused
  <2> QED  BY <2>1
<1>4. CASE SetErrorIfGeneration(sid(p), 0) \/ StopWithErrorIfGenerationActive(sid(p), 0)
  <2>1. Changes(sid(p), "error")
    BY <1>4 DEF SetErrorIfGeneration, CanSetError, StopWithErrorIfGenerationActive,
                IsCurrentGenerationActive
  <2> QED  BY <2>1
<1>5. CASE SetPlayingAcceptedIfGeneration(sid(p), 0)
  <2>1. Changes(sid(p), "playing")
    BY <1>5 DEF SetPlayingAcceptedIfGeneration, CanSetPlayingAccepted
  <2> QED  BY <2>1
<1>6. CASE pc[p] = "markPlaying" /\ MarkPlayingIfGeneration(sid(p), 0)
  <2>1. Started(sid(p))
    BY <1>6 DEF StartedOK, ProcessStarted, Early, Sessionless
  <2>2. Changes(sid(p), "playing")
    BY <1>6, <2>1 DEF MarkPlayingIfGeneration, CanMarkPlaying, Started
  <2> QED  BY <2>2
<1> QED  BY <1>1, <1>2, <1>3, <1>4, <1>5, <1>6 DEF UsesManager

\* A step creates a session, leaves the table alone or changes one session.
LEMMA StepChanges ==
    ASSUME TypeOK, StartedOK, [Next]_vars
    PROVE  \/ \E s \in Slots : SetURICreate(s)
           \/ UNCHANGED sessionsVars
           \/ \E id \in Ids, st \in State : Changes(id, st)
<1>1. ASSUME NEW s \in Slots, Arrive(s) \/ RequestStep(s), ~SetURICreate(s)
      PROVE  UNCHANGED sessionsVars \/ \E id \in Ids, st \in State : Changes(id, st)
  BY <1>1, StepsUseManager, UseChanges DEF Procs
<1>2. ASSUME NEW m \in Monitors, MonitorStep(m)
      PROVE  UNCHANGED sessionsVars \/ \E id \in Ids, st \in State : Changes(id, st)
  BY <1>2, StepsUseManager, UseChanges DEF Procs
<1>3. CASE PlayerMoves \/ UNCHANGED vars
  BY <1>3 DEF PlayerMoves, vars
<1> QED  BY <1>1, <1>2, <1>3 DEF Next, Rested

\* SetAVTransportURI brings one new session and ends all others.
LEMMA CreateChanges ==
    ASSUME SessionsTypeOK, NEW s, SetURICreate(s)
    PROVE  \E id \in Ids :
              /\ sessions[id] = "unborn" /\ sessions'[id] = "loaded" /\ currentSessionID' = id
              /\ Notify(s, id, "STOPPED", "idle")
              /\ \A i \in Ids \ {id} : /\ sessions[i] = "unborn" => sessions'[i] = "unborn"
                                       /\ sessions[i] # "unborn" => sessions'[i] \in {"stopped", "evicted"}
<1>1. PICK id \in Ids : CreateWithBase(id) /\ Notify(s, id, "STOPPED", "idle")
  BY DEF SetURICreate
<1>2. PICK gone \in Victims :
         sessions' = [i \in Ids |-> IF i = id THEN "loaded"
                                    ELSE IF i \in gone THEN "evicted" ELSE StoppedAll[i]]
  BY <1>1 DEF CreateWithBase
<1>3. \A i \in Ids : /\ StoppedAll[i] = "unborn" => sessions[i] = "unborn"
                     /\ sessions[i] = "unborn" => StoppedAll[i] = "unborn"
                     /\ sessions[i] # "unborn" => StoppedAll[i] \in {"stopped", "evicted"}
  BY DEF SessionsTypeOK, StoppedAll, Live, State
<1>4. \A i \in gone : i \in Ids => StoppedAll[i] \in Ended
  BY <1>2 DEF Victims, Evictable
<1>5. \A i \in Ids \ {id} : /\ sessions[i] = "unborn" => sessions'[i] = "unborn"
                            /\ sessions[i] # "unborn" => sessions'[i] \in {"stopped", "evicted"}
  BY <1>2, <1>3, <1>4 DEF Ended
<1> QED  BY <1>1, <1>2, <1>5 DEF CreateWithBase

\* A session that was created stays so, and one that was started does.
LEMMA StartedStays ==
    ASSUME TypeOK, StartedOK, [Next]_vars, NEW id \in Ids
    PROVE  /\ sessions[id] # "unborn" => sessions'[id] # "unborn"
           /\ Started(id) => Started(id)'
<1>1. CASE \E s \in Slots : SetURICreate(s)
  BY <1>1, CreateChanges DEF TypeOK, Started
<1>2. CASE UNCHANGED sessionsVars
  BY <1>2 DEF sessionsVars, Started
<1>3. CASE \E i \in Ids, st \in State : Changes(i, st)
  BY <1>3 DEF TypeOK, SessionsTypeOK, Changes, SetState, Started, State
<1> QED  BY <1>1, <1>2, <1>3, StepChanges

-----------------------------------------------------------------------------
(* A process stays about its session until it is done with it. *)

SameSession(p) == pc'[p] \in Sessionless \/ loc'[p].sid = loc[p].sid

\* What the type invariant says of one process.
LEMMA ProcessTypes ==
    ASSUME TypeOK, NEW p \in Procs
    PROVE  /\ pc \in [Procs -> Labels] /\ loc \in [Procs -> Locals]
           /\ loc[p] \in Locals
           /\ pc[p] \notin Sessionless => sid(p) \in Ids
BY DEF TypeOK, ProcessesTypeOK

\* The ways a process moves on with its session
LEMMA GotoSame ==
    ASSUME TypeOK, NEW p \in Procs, NEW l, Goto(p, l)
    PROVE  SameSession(p) /\ pc'[p] = l /\ loc'[p] = loc[p]
BY ProcessTypes DEF Goto, SameSession

LEMMA GotoWithSame ==
    ASSUME TypeOK, NEW p \in Procs, NEW l, NEW v, v.sid = loc[p].sid, GotoWith(p, l, v)
    PROVE  SameSession(p) /\ pc'[p] = l /\ loc'[p] = v
BY ProcessTypes DEF GotoWith, SameSession

LEMMA DoneSame ==
    ASSUME TypeOK, NEW p \in Procs, Done(p)
    PROVE  SameSession(p) /\ pc'[p] \in Sessionless
BY ProcessTypes, RestType DEF Done, GotoWith, SameSession

LEMMA NotifySame ==
    ASSUME TypeOK, NEW p \in Procs, NEW ev, NEW then, Notify(p, sid(p), ev, then)
    PROVE  SameSession(p)
<1>1. Kept(p) \in Locals
  BY ProcessTypes, NoLocalsType DEF Kept
<1>2. PICK v : v = [Kept(p) EXCEPT !.sid = sid(p), !.ev = ev, !.then = then]
  OBVIOUS
<1>3. v.sid = loc[p].sid
  BY <1>1, <1>2 DEF Locals, sid
<1> QED  BY <1>2, <1>3, GotoWithSame DEF Notify

LEMMA FollowSame ==
    ASSUME TypeOK, NEW p \in Procs, Follow(p)
    PROVE  SameSession(p)
BY GotoSame, DoneSame DEF Follow

\* No step but SetURICreate gives a request another session.
LEMMA SharedKeeps ==
    ASSUME TypeOK, NEW p \in Procs, SharedStep(p)
    PROVE  SameSession(p)
BY GotoSame, DoneSame, NotifySame, FollowSame
   DEF SharedStep, CheckGuard, MarkPlaying, MarkPaused, MarkStopped, NotifyCheck, NotifySend

LEMMA PlayKeeps ==
    ASSUME TypeOK, NEW s \in Slots, PlayStep(s)
    PROVE  SameSession(s)
<1>s. s \in Procs
  BY DEF Procs
<1>t. loc[s] \in Locals
  BY <1>s, ProcessTypes
<1>1. CASE JoinRead(s)
  <2>1. [loc[s] EXCEPT !.role = "joiner", !.op = controlSeq].sid = loc[s].sid
    BY <1>t DEF Locals
  <2> QED  BY <1>1, <1>s, <2>1, GotoWithSame DEF JoinRead
<1>2. CASE PlayOp(s)
  <2>1. [loc[s] EXCEPT !.op = controlSeq + 1].sid = loc[s].sid
    BY <1>t DEF Locals
  <2> QED  BY <1>2, <1>s, <2>1, GotoWithSame DEF PlayOp
<1>3. CASE CurrentPositionOp(s)
  <2>1. [loc[s] EXCEPT !.posOp = positionSeq].sid = loc[s].sid
    BY <1>t DEF Locals
  <2> QED  BY <1>3, <1>s, <2>1, GotoWithSame DEF CurrentPositionOp
<1>4. CASE PlayGuard(s)
  <2>1. \A b \in BOOLEAN : [loc[s] EXCEPT !.seekBack = b].sid = loc[s].sid
    BY <1>t DEF Locals
  <2> QED  BY <1>4, <1>s, <2>1, GotoWithSame DEF PlayGuard
<1>5. CASE Interrupted(s) \/ ReconcileLatePlayCompletion(s)
  <2>1. Late(s).sid = loc[s].sid
    BY <1>t, NoLocalsType DEF Late, Locals, sid
  <2> QED  BY <1>5, <1>s, <2>1, GotoWithSame, DoneSame DEF Interrupted, ReconcileLatePlayCompletion
<1>6. CASE StartPlaybackMonitor(s)
  <2>1. pc'[s] \in Sessionless
    BY <1>6, <1>s, ProcessTypes, TransportAssumption DEF StartPlaybackMonitor, Sessionless
  <2> QED  BY <2>1 DEF SameSession
<1>7. CASE PlaySession(s) \/ PlayCall(s) \/ CheckOp(s) \/ CheckSession(s) \/ ErrActive(s)
           \/ ResumeSeek(s) \/ PauseBack(s) \/ Fail(s) \/ WaitPlaying(s) \/ PollPlaying(s)
           \/ GiveUpPlaying(s)
  BY <1>7, <1>s, GotoSame, DoneSame, NotifySame
     DEF PlaySession, PlayCall, CallThen, CheckOp, CheckSession, ErrActive, ResumeSeek, PauseBack,
         Fail, WaitPlaying, PollPlaying, GiveUpPlaying, Branch, BranchOrDone
<1>8. CASE Rebase(s) \/ RebaseLock(s) \/ RebaseCheck(s) \/ RebaseSeek(s) \/ Accept(s)
           \/ NotifyPlaying(s) \/ RepauseGuard(s) \/ RepauseCall(s) \/ ClearGuard(s) \/ Restop(s)
  BY <1>8, <1>s, GotoSame, DoneSame, NotifySame
     DEF Rebase, RebaseLock, RebaseCheck, RebaseSeek, Accept, NotifyPlaying, RepauseGuard,
         RepauseCall, ClearGuard, Restop, CallThen, Branch
<1> QED  BY <1>1, <1>2, <1>3, <1>4, <1>5, <1>6, <1>7, <1>8 DEF PlayStep

LEMMA RequestKeeps ==
    ASSUME TypeOK, NEW s \in Slots, RequestStep(s), ~SetURIStep(s)
    PROVE  SameSession(s)
<1>s. s \in Procs
  BY DEF Procs
<1>t. loc[s] \in Locals
  BY <1>s, ProcessTypes
<1>1. CASE PlayStep(s)
  BY <1>1, PlayKeeps
<1>2. CASE StopStep(s)
  BY <1>2, <1>s, GotoSame, DoneSame, NotifySame DEF StopStep, StopLock, StopSession, StopCall, SetError
<1>3. CASE PauseStep(s)
  <2>1. CASE PauseCall(s)
    <3>1. [loc[s] EXCEPT !.role = "pauser"].sid = loc[s].sid
      BY <1>t DEF Locals
    <3> QED  BY <2>1, <1>s, <3>1, GotoSame, GotoWithSame DEF PauseCall
  <2>2. CASE PollNotPlaying(s)
    <3>1. [loc[s] EXCEPT !.last = player.state].sid = loc[s].sid
      BY <1>t DEF Locals
    <3> QED  BY <2>2, <1>s, <3>1, GotoSame, GotoWithSame DEF PollNotPlaying, Branch
  <2>3. CASE PauseLock(s) \/ PauseRecheck(s) \/ PauseGuard(s) \/ PauseSession(s) \/ PauseErr(s)
             \/ PauseErrStop(s)
    BY <2>3, <1>s, GotoSame, DoneSame
       DEF PauseLock, PauseRecheck, PauseGuard, PauseSession, PauseErr, PauseErrStop
  <2>4. CASE WaitNotPlaying(s) \/ GiveUpNotPlaying(s) \/ PauseConfirmed(s) \/ PauseTimeout(s)
             \/ PauseNotify(s)
    BY <2>4, <1>s, GotoSame, DoneSame, NotifySame
       DEF WaitNotPlaying, GiveUpNotPlaying, PauseConfirmed, PauseTimeout, PauseNotify, Branch,
           BranchOrDone
  <2> QED  BY <1>3, <2>1, <2>2, <2>3, <2>4 DEF PauseStep
<1>4. CASE SeekStep(s)
  BY <1>4, <1>s, GotoSame, DoneSame DEF SeekStep, SeekLock, SeekRecheck, SeekCall
<1>5. CASE SyncPoll(s)
  <2>1. player.state \in {"playing", "paused", "idle", "unknown"}
    BY DEF TypeOK, PlayerTypeOK, PlayerState
  <2>2. (\E l \in Labels : Goto(s, l)) \/ Done(s)
    BY <1>5, <2>1 DEF SyncPoll, Branch, BranchOrDone, Labels
  <2> QED  BY <1>s, <2>2, GotoSame, DoneSame
<1>6. CASE SharedStep(s)
  BY <1>6, <1>s, SharedKeeps
<1> QED  BY <1>1, <1>2, <1>3, <1>4, <1>5, <1>6 DEF RequestStep

\* A monitor stays with its session.
LEMMA MonitorKeeps ==
    ASSUME TypeOK, NEW m \in Monitors, MonitorStep(m)
    PROVE  SameSession(m)
<1>s. m \in Procs
  BY DEF Procs
<1>t. loc[m] \in Locals
  BY <1>s, ProcessTypes
<1>1. CASE MonitorExit(m) \/ SharedStep(m)
  BY <1>1, <1>s, DoneSame, SharedKeeps DEF MonitorExit
<1>2. CASE MonitorTick(m)
  <2>1. \A snap : [loc[m] EXCEPT !.snap = snap].sid = loc[m].sid
    BY <1>t DEF Locals
  <2> QED  BY <1>2, <1>s, <2>1, GotoWithSame, DoneSame DEF MonitorTick
<1>3. CASE MonitorPoll(m)
  <2>1. /\ \A b \in BOOLEAN : [loc[m] EXCEPT !.idle = b].sid = loc[m].sid
        /\ [loc[m] EXCEPT !.idle = FALSE, !.emitted = TRUE].sid = loc[m].sid
    BY <1>t DEF Locals
  <2>2. player.state \in {"playing", "paused", "idle", "unknown"}
    BY DEF TypeOK, PlayerTypeOK, PlayerState
  <2>3. \E l \in Labels : Goto(m, l) \/ \E v : GotoWith(m, l, v) /\ v.sid = loc[m].sid
    BY <1>3, <2>1, <2>2 DEF MonitorPoll, Debounce, Branch, Labels
  <2> QED  BY <1>s, <2>3, GotoSame, GotoWithSame
<1> QED  BY <1>1, <1>2, <1>3 DEF MonitorStep

-----------------------------------------------------------------------------
(* StartedOK is inductive. *)

\* A request about the current session is early, or its session was started.
LEMMA BeginStarted ==
    ASSUME TypeOK, NEW s \in Slots, NEW kind, NEW states, NEW l,
           BeginOnCurrent(s, kind, states, l),
           "loaded" \notin states \/ l \in {"stopLock", "playOp"}
    PROVE  ProcessStarted(s)'
<1>s. s \in Procs
  BY DEF Procs
<1>1. CurrentSession \in Ids /\ sessions[CurrentSession] \in State
  BY DEF BeginOnCurrent, CurrentSession, Live
<1>2. PICK v : v = [NoLocals EXCEPT !.sid = CurrentSession, !.snap = sessions[CurrentSession]]
  OBVIOUS
<1>3. v.sid = CurrentSession /\ v.snap = sessions[CurrentSession]
  BY <1>2 DEF NoLocals
<1>4. pc'[s] = l /\ loc'[s] = v
  BY <1>s, <1>2, ProcessTypes DEF BeginOnCurrent, GotoWith
<1>5. UNCHANGED sessions /\ sessions[CurrentSession] \in states
  BY DEF BeginOnCurrent, Begin, sessionsVars
<1>6. sessions'[loc'[s].sid] = sessions[CurrentSession] /\ loc'[s].snap = sessions[CurrentSession]
  BY <1>3, <1>4, <1>5
<1> QED  BY <1>1, <1>4, <1>5, <1>6 DEF ProcessStarted, Started, Early, sid, State

\* A request that has just come is early, or its session was started.
LEMMA ArriveStarted ==
    ASSUME TypeOK, NEW s \in Slots, Arrive(s)
    PROVE  ProcessStarted(s)'
<1>1. CASE SetURIBegin(s)
  BY <1>1, GotoSame DEF SetURIBegin, ProcessStarted, Sessionless, Procs
<1>2. CASE PlayBegin(s)
  <2>1. CASE BeginOnCurrent(s, "Play", {"starting"}, "joinRead")
    BY <2>1, BeginStarted
  <2>2. CASE BeginOnCurrent(s, "Play", State \ Active, "playOp")
    BY <2>2, BeginStarted
  <2> QED  BY <1>2, <2>1, <2>2 DEF PlayBegin
<1>3. CASE StopBegin(s)
  BY <1>3, BeginStarted DEF StopBegin
<1>4. CASE PauseBegin(s) \/ SeekBegin(s) \/ SyncBegin(s)
  BY <1>4, BeginStarted DEF PauseBegin, SeekBegin, SyncBegin, Active
<1> QED  BY <1>1, <1>2, <1>3, <1>4 DEF Arrive

\* The steps of a process that is early, and where they take it.
LEMMA EarlyStep ==
    ASSUME TypeOK, NEW p \in Procs, Early(p), sid(p) \in Ids, sessions[sid(p)] = "loaded",
           \/ p \in Slots /\ RequestStep(p) /\ ~SetURIStep(p)
           \/ p \in Monitors /\ MonitorStep(p),
           sessions'[sid(p)] # "unborn", SameSession(p)
    PROVE  ProcessStarted(p)'
<1>t. loc[p] \in Locals
  BY ProcessTypes
<1>w. pc'[p] \in Sessionless \/ (loc'[p].sid = sid(p) /\ sessions' \in [Ids -> State \cup {"unborn", "evicted"}])
  <2>1. SessionsTypeOK'
    BY TypeStep DEF Next, TypeOK
  <2> QED  BY <2>1 DEF SameSession, sid, SessionsTypeOK
<1>1. CASE pc'[p] \in Sessionless
  BY <1>1 DEF ProcessStarted
<1>2. CASE pc'[p] \notin Sessionless /\ sessions'[sid(p)] # "loaded"
  BY <1>2, <1>w DEF ProcessStarted, Started, sid
<1>3. CASE pc'[p] \notin Sessionless /\ sessions'[sid(p)] = "loaded"
  <2>s. SessionsTypeOK
    BY DEF TypeOK
  <2>1. CASE PlayOp(p)
    <3>1. [loc[p] EXCEPT !.op = controlSeq + 1].snap = loc[p].snap
      BY <1>t DEF Locals
    <3>2. pc'[p] = "positionOp" /\ loc'[p].snap = loc[p].snap /\ pc[p] = "playOp"
      BY <2>1, <3>1, ProcessTypes DEF PlayOp, GotoWith, At
    <3> QED  BY <1>3, <1>w, <3>2 DEF Early, ProcessStarted, sid
  <2>2. CASE CurrentPositionOp(p)
    <3>1. [loc[p] EXCEPT !.posOp = positionSeq].snap = loc[p].snap
      BY <1>t DEF Locals
    <3>2. pc[p] = "positionOp" /\ loc[p].snap \notin {"starting", "paused"}
      BY <2>2 DEF CurrentPositionOp, At, Early
    <3>3. pc'[p] = "playSession" /\ loc'[p].snap = loc[p].snap
      BY <2>2, <3>1, <3>2, ProcessTypes DEF CurrentPositionOp, GotoWith
    <3> QED  BY <1>3, <1>w, <3>2, <3>3 DEF Early, ProcessStarted, sid
  <2>3. CASE PlaySession(p)
    BY <1>3, <2>s, <2>3 DEF PlaySession, CanPlay, Play, SetState, SessionsTypeOK
  <2>4. CASE StopLock(p)
    <3>1. pc'[p] = "stopSession"
      BY <2>4, GotoSame DEF StopLock
    <3> QED  BY <1>3, <1>w, <3>1 DEF Early, ProcessStarted, sid
  <2>5. CASE StopSession(p)
    BY <1>3, <2>s, <2>5 DEF StopSession, Exists, Stop, SetState, SessionsTypeOK, State
  <2>6. CASE NotifyCheck(p)
    <3>1. pc[p] = "notify" /\ loc[p].then \in {"idle", "off"}
      BY <2>6 DEF NotifyCheck, At, Early
    <3>2. pc'[p] = "send" /\ loc'[p] = loc[p]
      BY <1>3, <2>6, <3>1, GotoSame, DoneSame DEF NotifyCheck, Follow
    <3> QED  BY <1>3, <1>w, <3>1, <3>2 DEF Early, ProcessStarted, sid
  <2>7. CASE NotifySend(p)
    <3>1. pc[p] = "send" /\ loc[p].then \in {"idle", "off"}
      BY <2>7 DEF NotifySend, At, Early
    <3> QED  BY <1>3, <2>7, <3>1, DoneSame DEF NotifySend, Follow
  <2>8. \/ PlayOp(p) \/ CurrentPositionOp(p) \/ PlaySession(p) \/ StopLock(p) \/ StopSession(p)
        \/ NotifyCheck(p) \/ NotifySend(p)
    <3> USE DEF Early, At
    <3>1. ~PlayStep(p) \/ PlayOp(p) \/ CurrentPositionOp(p) \/ PlaySession(p)
      BY DEF PlayStep, JoinRead, PlayGuard, PlayCall, CheckOp, CheckSession, ErrActive, ResumeSeek,
             PauseBack, Fail, WaitPlaying, PollPlaying, GiveUpPlaying, Rebase, RebaseLock,
             RebaseCheck, RebaseSeek, Accept, NotifyPlaying, StartPlaybackMonitor, Interrupted,
             ReconcileLatePlayCompletion, RepauseGuard, RepauseCall, ClearGuard, Restop
    <3>2. ~StopStep(p) \/ StopLock(p) \/ StopSession(p)
      BY DEF StopStep, StopCall, SetError
    <3>3. ~PauseStep(p) /\ ~SeekStep(p) /\ ~SyncPoll(p)
      BY DEF PauseStep, PauseLock, PauseRecheck, PauseGuard, PauseSession, PauseCall, PauseErr,
             PauseErrStop, WaitNotPlaying, PollNotPlaying, GiveUpNotPlaying, PauseConfirmed,
             PauseTimeout, PauseNotify, SeekStep, SeekLock, SeekRecheck, SeekCall, SyncPoll
    <3>4. ~SharedStep(p) \/ NotifyCheck(p) \/ NotifySend(p)
      BY DEF SharedStep, CheckGuard, MarkPlaying, MarkPaused, MarkStopped
    <3>5. ~MonitorExit(p) /\ ~MonitorTick(p) /\ ~MonitorPoll(p)
      BY DEF MonitorExit, MonitorTick, MonitorPoll
    <3> QED  BY <3>1, <3>2, <3>3, <3>4, <3>5 DEF RequestStep, MonitorStep
  <2> QED  BY <2>1, <2>2, <2>3, <2>4, <2>5, <2>6, <2>7, <2>8
<1> QED  BY <1>1, <1>2, <1>3

\* The step of a process keeps what StartedOK says of it.
LEMMA OwnStep ==
    ASSUME TypeOK, StartedOK, [Next]_vars, NEW p \in Procs, SameSession(p),
           \/ p \in Slots /\ RequestStep(p) /\ ~SetURIStep(p)
           \/ p \in Monitors /\ MonitorStep(p)
    PROVE  ProcessStarted(p)'
<1>1. pc[p] \notin Sessionless
  <2> USE DEF Sessionless, At
  <2>1. ~SharedStep(p) \/ pc[p] \notin Sessionless
    BY DEF SharedStep, CheckGuard, MarkPlaying, MarkPaused, MarkStopped, NotifyCheck, NotifySend
  <2>2. ~MonitorStep(p) \/ pc[p] \notin Sessionless
    BY <2>1 DEF MonitorStep, MonitorExit, MonitorTick, MonitorPoll
  <2>3. ~PlayStep(p) \/ pc[p] \notin Sessionless
    BY DEF PlayStep, JoinRead, PlayOp, CurrentPositionOp, PlayGuard, PlaySession, PlayCall, CheckOp,
           CheckSession, ErrActive, ResumeSeek, PauseBack, Fail, WaitPlaying, PollPlaying,
           GiveUpPlaying, Rebase, RebaseLock, RebaseCheck, RebaseSeek, Accept, NotifyPlaying,
           StartPlaybackMonitor, Interrupted, ReconcileLatePlayCompletion, RepauseGuard,
           RepauseCall, ClearGuard, Restop
  <2>4. ~(StopStep(p) \/ PauseStep(p) \/ SeekStep(p) \/ SyncPoll(p)) \/ pc[p] \notin Sessionless
    BY DEF StopStep, StopLock, StopSession, StopCall, SetError, PauseStep, PauseLock, PauseRecheck,
           PauseGuard, PauseSession, PauseCall, PauseErr, PauseErrStop, WaitNotPlaying,
           PollNotPlaying, GiveUpNotPlaying, PauseConfirmed, PauseTimeout, PauseNotify, SeekStep,
           SeekLock, SeekRecheck, SeekCall, SyncPoll
  <2> QED  BY <2>1, <2>2, <2>3, <2>4 DEF RequestStep
<1>2. sid(p) \in Ids
  BY <1>1, ProcessTypes
<1>3. sessions[sid(p)] # "unborn" => sessions'[sid(p)] # "unborn"
  BY <1>2, StartedStays
<1>4. Started(sid(p)) => sessions'[sid(p)] \notin {"unborn", "loaded"}
  <2>1. ASSUME NEW id \in Ids, Started(id)
        PROVE  sessions'[id] \notin {"unborn", "loaded"}
    BY <2>1, StartedStays DEF Started
  <2> QED  BY <1>2, <2>1
<1>5. CASE Started(sid(p))
  BY <1>4, <1>5 DEF SameSession, ProcessStarted, Started, sid
<1>6. CASE Early(p) /\ sessions[sid(p)] = "loaded"
  BY <1>2, <1>3, <1>6, EarlyStep
<1> QED  BY <1>1, <1>5, <1>6 DEF StartedOK, ProcessStarted

\* A step that leaves a process alone does too.
LEMMA OthersStep ==
    ASSUME TypeOK, StartedOK, [Next]_vars, NEW p \in Procs, pc'[p] = pc[p], loc'[p] = loc[p]
    PROVE  ProcessStarted(p)'
<1>1. CASE pc[p] \in Sessionless
  BY <1>1 DEF ProcessStarted
<1>2. CASE pc[p] \notin Sessionless
  <2>1. sid(p) \in Ids /\ loc'[p].sid = sid(p)
    BY <1>2, ProcessTypes DEF sid
  <2>2. ASSUME NEW id \in Ids
        PROVE  /\ Started(id) => sessions'[id] \notin {"unborn", "loaded"}
               /\ sessions[id] # "unborn" => sessions'[id] # "unborn"
    BY StartedStays DEF Started
  <2>3. CASE Started(sid(p))
    BY <2>1, <2>2, <2>3 DEF ProcessStarted, Started, sid
  <2>4. CASE Early(p) /\ sessions[sid(p)] = "loaded"
    <3>1. sessions'[sid(p)] # "unborn"
      BY <2>1, <2>2, <2>4
    <3>2. Early(p)'
      BY <2>4 DEF Early
    <3> QED  BY <2>1, <3>1, <3>2 DEF ProcessStarted, Started, sid
  <2> QED  BY <1>2, <2>3, <2>4 DEF StartedOK, ProcessStarted
<1> QED  BY <1>1, <1>2

\* Every step keeps StartedOK.
LEMMA StartedStep ==
    ASSUME TypeOK, StartedOK, [Next]_vars
    PROVE  StartedOK'
<1>t. pc \in [Procs -> Labels] /\ loc \in [Procs -> Locals] /\ Slots \subseteq Procs /\ Monitors \subseteq Procs
  BY DEF TypeOK, ProcessesTypeOK, Procs
<1>1. CASE \E s \in Slots : (Arrive(s) \/ RequestStep(s)) /\ ~StartPlaybackMonitor(s)
  <2>1. PICK s \in Slots : (Arrive(s) \/ RequestStep(s)) /\ ~StartPlaybackMonitor(s)
    BY <1>1
  <2>2. \A p \in Procs \ {s} : pc'[p] = pc[p] /\ loc'[p] = loc[p]
    <3>1. Moved(s)
      BY <2>1, ArriveMoves, RequestMoves
    <3> QED  BY <1>t, <3>1 DEF Moved, GotoWith
  <2>3. ProcessStarted(s)'
    <3>1. CASE Arrive(s)
      BY <3>1, ArriveStarted
    <3>2. CASE SetURILock(s)
      BY <1>t, <3>2, GotoSame DEF SetURILock, ProcessStarted, Sessionless
    <3>3. CASE SetURICreate(s)
      <4>1. PICK id \in Ids : sessions'[id] = "loaded" /\ Notify(s, id, "STOPPED", "idle")
        BY <3>3, CreateChanges DEF TypeOK
      <4>2. PICK v : v = [Kept(s) EXCEPT !.sid = id, !.ev = "STOPPED", !.then = "idle"]
        OBVIOUS
      <4>3. v.sid = id /\ v.then = "idle"
        BY <4>2, NoLocalsType DEF Kept, Locals
      <4>4. pc'[s] = "notify" /\ loc'[s] = v
        BY <1>t, <4>1, <4>2 DEF Notify, GotoWith
      <4> QED  BY <4>1, <4>3, <4>4 DEF ProcessStarted, Early, sid
    <3>4. CASE RequestStep(s) /\ ~SetURIStep(s)
      BY <1>t, <3>4, RequestKeeps, OwnStep
    <3> QED  BY <2>1, <3>1, <3>2, <3>3, <3>4 DEF SetURIStep
  <2> QED  BY <2>2, <2>3, OthersStep DEF StartedOK
<1>2. CASE \E m \in Monitors : MonitorStep(m)
  <2>1. PICK m \in Monitors : MonitorStep(m)
    BY <1>2
  <2>2. \A p \in Procs \ {m} : pc'[p] = pc[p] /\ loc'[p] = loc[p]
    <3>1. Moved(m)
      BY <2>1, MonitorMoves
    <3> QED  BY <1>t, <3>1 DEF Moved, GotoWith
  <2>3. ProcessStarted(m)'
    BY <1>t, <2>1, MonitorKeeps, OwnStep
  <2> QED  BY <2>2, <2>3, OthersStep DEF StartedOK
<1>3. CASE \E s \in Slots : StartPlaybackMonitor(s)
  <2>1. PICK s \in Slots, m \in Monitors :
           /\ At(s, "startMonitor") /\ UNCHANGED sessions
           /\ pc' = [pc EXCEPT ![s] = "idle", ![m] = "watch"]
           /\ loc' = [loc EXCEPT ![s] = NoLocals,
                                 ![m] = [NoLocals EXCEPT !.sid = sid(s), !.then = "watch"]]
    BY <1>3 DEF StartPlaybackMonitor, sessionsVars
  <2>2. s # m
    BY TransportAssumption
  <2>3. Started(sid(s))
    BY <1>t, <2>1 DEF StartedOK, ProcessStarted, Early, Sessionless, At
  <2>4. ProcessStarted(s)'
    BY <1>t, <2>1, <2>2 DEF ProcessStarted, Sessionless
  <2>5. ProcessStarted(m)'
    <3>1. [NoLocals EXCEPT !.sid = sid(s), !.then = "watch"].sid = sid(s)
      BY DEF NoLocals
    <3>2. loc'[m].sid = sid(s)
      BY <1>t, <2>1, <2>2, <3>1
    <3> QED  BY <2>1, <2>3, <3>2 DEF ProcessStarted, Started, sid
  <2>6. \A p \in Procs \ {s, m} : pc'[p] = pc[p] /\ loc'[p] = loc[p]
    BY <1>t, <2>1
  <2> QED  BY <2>4, <2>5, <2>6, OthersStep DEF StartedOK
<1>4. CASE PlayerMoves \/ UNCHANGED vars
  <2>1. UNCHANGED <<pc, loc>>
    BY <1>4 DEF PlayerMoves, vars, processVars
  <2> QED  BY <2>1, OthersStep DEF StartedOK
<1> QED  BY <1>1, <1>2, <1>3, <1>4 DEF Next, Rested

\* Nobody marks a session playing, or watches it, that no Play has started.
LEMMA StartedInvariant == Spec => [](TypeOK /\ StartedOK)
<1>1. Init => StartedOK
  BY RestType DEF Init, StartedOK, ProcessStarted
<1> QED  BY <1>1, StartedStep, InitType, TypeStep, PTL DEF Spec

-----------------------------------------------------------------------------
(* The refinement *)

\* What a control point sees of a session in a state.
Shown(st) ==
    CASE st = "playing"  -> "PLAYING"
      [] st = "paused"   -> "PAUSED_PLAYBACK"
      [] st = "starting" -> "TRANSITIONING"
      [] OTHER           -> "STOPPED"
ShownStatus(st) == IF st = "error" THEN "ERROR_OCCURRED" ELSE "OK"

\* The media that was loaded.
Used == {i \in Ids : sessions[i] # "unborn"}

\* A new session is new media.
LEMMA CreateLoads ==
    ASSUME TypeOK, NEW s, SetURICreate(s)
    PROVE  AVT!Load
<1>1. PICK id \in Ids :
         /\ sessions[id] = "unborn" /\ sessions'[id] = "loaded" /\ currentSessionID' = id
         /\ \A i \in Ids \ {id} : /\ sessions[i] = "unborn" => sessions'[i] = "unborn"
                                  /\ sessions[i] # "unborn" => sessions'[i] \in {"stopped", "evicted"}
  BY CreateChanges DEF TypeOK
<1>2. CurrentSession' = id /\ id # NoSession
  BY <1>1, SessionsAssumption DEF CurrentSession, Live, State
<1>3. id \notin Used /\ Used' = Used \cup {id}
  BY <1>1 DEF Used
<1>4. CurrentTransportState' = "STOPPED" /\ CurrentTransportStatus' = "OK"
  BY <1>1, <1>2 DEF CurrentTransportState, CurrentTransportStatus, IsState
<1> QED  BY <1>1, <1>2, <1>3, <1>4 DEF AVT!Load, Used

\* A session's own step is one of AVTransport when the session is the current one.
LEMMA ChangesStep ==
    ASSUME TypeOK, NEW id \in Ids, NEW st \in State, Changes(id, st)
    PROVE  AVT!AVTNext \/ UNCHANGED AVT!avtVars
<1>1. sessions[id] \in State /\ sessions' = [sessions EXCEPT ![id] = st] /\ UNCHANGED currentSessionID
  BY DEF Changes, Exists, SetState
<1>2. sessions \in [Ids -> State \cup {"unborn", "evicted"}]
  BY DEF TypeOK, SessionsTypeOK
<1>3. Live' = Live /\ CurrentSession' = CurrentSession
  BY <1>1, <1>2 DEF Live, CurrentSession
<1>4. Used' = Used
  BY <1>1, <1>2 DEF Used, State
<1>5. CASE id # CurrentSession
  <2>1. CurrentSession # NoSession => sessions'[CurrentSession] = sessions[CurrentSession]
    BY <1>1, <1>2, <1>5 DEF CurrentSession, Live
  <2>2. UNCHANGED <<CurrentTransportState, CurrentTransportStatus>>
    BY <1>3, <2>1 DEF CurrentTransportState, CurrentTransportStatus, IsState
  <2> QED  BY <1>3, <1>4, <2>2 DEF AVT!avtVars, Used
<1>6. CASE id = CurrentSession
  <2>0. CurrentSession # NoSession /\ sessions'[id] = st
    BY <1>1, <1>2, <1>6, SessionsAssumption
  <2>1. /\ CurrentTransportState = Shown(sessions[id])
        /\ CurrentTransportState' = Shown(st) /\ CurrentTransportStatus' = ShownStatus(st)
        /\ CurrentTransportStatus = ShownStatus(sessions[id])
    BY <1>3, <1>6, <2>0 DEF CurrentTransportState, CurrentTransportStatus, IsState, Shown, ShownStatus
  <2>2. \A state, status : CurrentTransportState' = state /\ CurrentTransportStatus' = status
                             => AVT!Becomes(state, status)
    BY <1>3, <1>4 DEF AVT!Becomes, Used
  <2>3. CASE st = "starting"
    <3>1. CurrentTransportState \in {"STOPPED", "PAUSED_PLAYBACK"}
      BY <2>1, <2>3 DEF Changes, CanPlay, Shown
    <3>2. AVT!Becomes("TRANSITIONING", "OK")
      BY <2>1, <2>2, <2>3 DEF Shown, ShownStatus
    <3> QED  BY <2>0, <3>1, <3>2 DEF AVT!AVTNext, AVT!Start
  <2>4. CASE st = "playing"
    <3>1. CurrentTransportState \in {"TRANSITIONING", "PAUSED_PLAYBACK"}
      BY <2>1, <2>4 DEF Changes, Shown
    <3>2. AVT!Becomes("PLAYING", "OK")
      BY <2>1, <2>2, <2>4 DEF Shown, ShownStatus
    <3> QED  BY <3>1, <3>2 DEF AVT!AVTNext, AVT!Confirm
  <2>5. CASE st = "paused"
    <3>1. CASE sessions[id] = "paused"
      BY <1>3, <1>4, <2>1, <2>5, <3>1 DEF AVT!avtVars, Used
    <3>2. CASE sessions[id] # "paused"
      <4>1. CurrentTransportState # "PAUSED_PLAYBACK"
        BY <1>1, <2>1, <3>2 DEF Shown, State
      <4>2. AVT!Becomes("PAUSED_PLAYBACK", "OK")
        BY <2>1, <2>2, <2>5 DEF Shown, ShownStatus
      <4> QED  BY <2>0, <4>1, <4>2 DEF AVT!AVTNext, AVT!Hold
    <3> QED  BY <3>1, <3>2
  <2>6. CASE st \in {"stopped", "error"}
    <3>1. \E status \in {"OK", "ERROR_OCCURRED"} : AVT!Becomes("STOPPED", status)
      BY <2>1, <2>2, <2>6 DEF Shown, ShownStatus
    <3> QED  BY <2>0, <3>1 DEF AVT!AVTNext, AVT!End
  <2> QED  BY <2>3, <2>4, <2>5, <2>6 DEF Changes, State
<1> QED  BY <1>5, <1>6

\* Every step is one of AVTransport or changes nothing that it tells.
LEMMA AVTStep ==
    ASSUME TypeOK, StartedOK, [Next]_vars
    PROVE  [AVT!AVTNext]_AVT!avtVars
<1>1. CASE \E s \in Slots : SetURICreate(s)
  BY <1>1, CreateLoads DEF AVT!AVTNext
<1>2. CASE UNCHANGED sessionsVars
  BY <1>2 DEF sessionsVars, AVT!avtVars, CurrentTransportState, CurrentTransportStatus, CurrentSession,
              Live, IsState
<1>3. CASE \E id \in Ids, st \in State : Changes(id, st)
  BY <1>3, ChangesStep
<1> QED  BY <1>1, <1>2, <1>3, StepChanges

(* However many requests, monitors and the player interleave, a control     *)
(* point sees the transport state change only as AVTransport allows:        *)
(* PLAYING only after a Play or a pause, and never media once replaced.     *)
THEOREM TransportImplementsAVTransport == Spec => ImplementsAVTransport
<1>1. Init => AVT!AVTInit
  BY SessionsAssumption
     DEF Init, SessionsInit, AVT!AVTInit, CurrentSession, Live, CurrentTransportState,
         CurrentTransportStatus
<1> QED  BY <1>1, AVTStep, StartedInvariant, PTL DEF Spec, ImplementsAVTransport, AVT!AVTSpec

-----------------------------------------------------------------------------
(* One control point at a time.                                             *)
(*                                                                         *)
(* With a single slot the current session changes only when that slot is    *)
(* at SetURICreate, so everything else it does is about the current one.    *)

\* The labels of a Play between the start of its session and what becomes of it.
Starting == {"playCall", "okOp", "okSession", "errOp", "errActive", "resumeSeek", "seekOkOp",
             "seekOkSession", "seekErrOp", "seekErrSession", "pauseBack", "fail", "waitPlaying",
             "pollPlaying", "confirmOp", "timeoutOp", "rebase", "rebaseLock", "rebaseCheck",
             "rebaseSeek", "accept"}

\* The labels a Play goes through before that.
Asking == {"playOp", "positionOp", "playGuard", "playSession"}

\* What a slot is about is the current session.
SlotIsCurrent(s) == pc[s] \notin Sessionless => IsCurrent(sid(s))

\* The Play in progress is the latest control operation and waits for its own command.
PlayIsLatest(s) ==
    /\ pc[s] # "joinRead"
    /\ pc[s] \in Asking \cup Starting => loc[s].role = "owner" /\ loc[s].snap # "starting"
    /\ pc[s] \in (Asking \ {"playOp"}) \cup Starting => IsCurrentControlOp(s)

\* A session is starting only while its Play is under way.
StartIsPending(s) == \A i \in Ids : IsCurrentIn(i, {"starting"}) => pc[s] \in Starting

(* Until its source has been sent to the player, the current session is not *)
(* heard of: no monitor watches it, nobody waits for it or marks it.        *)
Unsent == Sessionless \cup {"playOp", "positionOp", "playSession", "playCall", "errOp", "errActive",
           "fail", "clearGuard", "stopLock", "stopSession", "stopCall", "setError", "notify", "send"}
Quiet == {"loaded", "starting", "stopped", "error"}
SlotUnsent(s, i) ==
    /\ sessions[i] \in Quiet
    /\ pc[s] \in Unsent
    /\ pc[s] \in {"playOp", "positionOp", "playSession", "playCall"} => loc[s].snap # "paused"
    /\ pc[s] \in {"notify", "send"} => loc[s].then \in {"idle", "off"}
Unwatched(i) == \A m \in Monitors : pc[m] \in Sessionless \/ sid(m) # i
NotSent(s, i) == SlotUnsent(s, i) /\ Unwatched(i)
SourceIsOwn(s) ==
    \A i \in Ids : external = MaxExternal /\ IsCurrent(i) => player.source = SourceOf[i] \/ NotSent(s, i)

Alone(s) == SlotIsCurrent(s) /\ OldSessionsEnded /\ PlayIsLatest(s) /\ StartIsPending(s) /\ SourceIsOwn(s)

\* Steps of the slot that leave a Play, or are none of a Play's own.
Elsewhere(s) == pc'[s] \notin {"joinRead"} \cup Asking \cup Starting

\* The ways a slot leaves a Play
LEMMA NotifyElsewhere ==
    ASSUME TypeOK, NEW s \in Procs, NEW id, NEW ev, NEW then, Notify(s, id, ev, then)
    PROVE  pc'[s] = "notify" /\ Elsewhere(s)
BY ProcessTypes DEF Notify, GotoWith, Elsewhere, Asking, Starting

LEMMA DoneElsewhere ==
    ASSUME TypeOK, NEW s \in Procs, Done(s)
    PROVE  pc'[s] = Rest(s) /\ Elsewhere(s)
BY ProcessTypes DEF Done, Rest, GotoWith, Elsewhere, Asking, Starting

LEMMA FollowElsewhere ==
    ASSUME TypeOK, NEW s \in Procs, Follow(s)
    PROVE  Elsewhere(s)
<1>1. loc[s].then \in {"idle", "off", "watch", "startMonitor"}
  BY ProcessTypes DEF Locals
<1> QED  BY <1>1, DoneElsewhere, GotoSame DEF Follow, Elsewhere, Asking, Starting

\* What is no step of a Play does not lead into one.
LEMMA OtherStepsElsewhere ==
    ASSUME TypeOK, NEW s \in Slots,
           \/ StopStep(s) \/ PauseStep(s) \/ SeekStep(s) \/ SyncPoll(s) \/ SharedStep(s)
           \/ NotifyPlaying(s) \/ StartPlaybackMonitor(s) \/ Interrupted(s)
           \/ ReconcileLatePlayCompletion(s) \/ RepauseGuard(s) \/ RepauseCall(s) \/ ClearGuard(s)
           \/ Restop(s)
    PROVE  Elsewhere(s)
<1>s. s \in Procs
  BY DEF Procs
<1>g. ASSUME NEW l, l \notin {"joinRead"} \cup Asking \cup Starting, NEW v, Goto(s, l) \/ GotoWith(s, l, v)
      PROVE  Elsewhere(s)
  BY <1>s, <1>g, ProcessTypes DEF Goto, GotoWith, Elsewhere
<1> USE DEF Asking, Starting
<1>1. CASE StopStep(s)
  BY <1>1, <1>s, <1>g, NotifyElsewhere, DoneElsewhere
     DEF StopStep, StopLock, StopSession, StopCall, SetError
<1>2. CASE PauseStep(s)
  <2>1. CASE PauseLock(s) \/ PauseRecheck(s) \/ PauseGuard(s) \/ PauseSession(s) \/ PauseCall(s)
             \/ PauseErr(s) \/ PauseErrStop(s)
    BY <2>1, <1>s, <1>g, DoneElsewhere
       DEF PauseLock, PauseRecheck, PauseGuard, PauseSession, PauseCall, PauseErr, PauseErrStop
  <2>2. CASE WaitNotPlaying(s) \/ PollNotPlaying(s) \/ GiveUpNotPlaying(s) \/ PauseConfirmed(s)
             \/ PauseTimeout(s) \/ PauseNotify(s)
    BY <2>2, <1>s, <1>g, DoneElsewhere, NotifyElsewhere
       DEF WaitNotPlaying, PollNotPlaying, GiveUpNotPlaying, PauseConfirmed, PauseTimeout, PauseNotify,
           Branch, BranchOrDone
  <2> QED  BY <1>2, <2>1, <2>2 DEF PauseStep
<1>3. CASE SeekStep(s)
  BY <1>3, <1>s, <1>g, DoneElsewhere DEF SeekStep, SeekLock, SeekRecheck, SeekCall
<1>4. CASE SyncPoll(s)
  <2>1. player.state \in {"playing", "paused", "idle", "unknown"}
    BY DEF TypeOK, PlayerTypeOK, PlayerState
  <2>2. (\E l \in {"checkGuard", "markPlaying", "markPaused", "markStopped"} : Goto(s, l)) \/ Done(s)
    BY <1>4, <2>1 DEF SyncPoll, Branch, BranchOrDone
  <2> QED  BY <1>s, <1>g, <2>2, DoneElsewhere
<1>5. CASE SharedStep(s)
  BY <1>5, <1>s, <1>g, DoneElsewhere, NotifyElsewhere, FollowElsewhere
     DEF SharedStep, CheckGuard, MarkPlaying, MarkPaused, MarkStopped, NotifyCheck, NotifySend
<1>6. CASE StartPlaybackMonitor(s)
  BY <1>6, <1>s, ProcessTypes, TransportAssumption DEF StartPlaybackMonitor, Elsewhere
<1>7. CASE NotifyPlaying(s) \/ Interrupted(s) \/ ReconcileLatePlayCompletion(s)
  BY <1>7, <1>s, <1>g, DoneElsewhere, NotifyElsewhere
     DEF NotifyPlaying, Interrupted, ReconcileLatePlayCompletion
<1>8. CASE RepauseGuard(s) \/ RepauseCall(s) \/ ClearGuard(s) \/ Restop(s)
  BY <1>8, <1>s, <1>g, DoneElsewhere
     DEF RepauseGuard, RepauseCall, ClearGuard, Restop, CallThen, Branch
<1> QED  BY <1>1, <1>2, <1>3, <1>4, <1>5, <1>6, <1>7, <1>8

\* The steps of a Play at and after its ticket.
AskingStep(s) == PlayOp(s) \/ CurrentPositionOp(s) \/ PlayGuard(s) \/ PlaySession(s)
StartingStep(s) ==
    \/ PlayCall(s) \/ CheckOp(s) \/ CheckSession(s) \/ ErrActive(s) \/ ResumeSeek(s) \/ PauseBack(s)
    \/ Fail(s) \/ WaitPlaying(s) \/ PollPlaying(s) \/ GiveUpPlaying(s)
    \/ Rebase(s) \/ RebaseLock(s) \/ RebaseCheck(s) \/ RebaseSeek(s) \/ Accept(s)

\* A step of a Play that has started its session goes on with it or leaves.
LEMMA StartingMoves ==
    ASSUME TypeOK, NEW s \in Slots, StartingStep(s)
    PROVE  /\ pc[s] \in Starting /\ UNCHANGED controlSeq
           /\ Elsewhere(s) \/ (pc'[s] \in Starting /\ loc'[s] = loc[s])
<1>s. s \in Procs
  BY DEF Procs
<1>g. ASSUME NEW l \in Starting \cup {"clearGuard", "reconcile", "interrupted", "notifyPlaying"}, Goto(s, l)
      PROVE  Elsewhere(s) \/ (pc'[s] \in Starting /\ loc'[s] = loc[s])
  BY <1>s, <1>g, GotoSame DEF Elsewhere, Asking, Starting
<1> USE DEF At, Starting
<1>1. CASE PlayCall(s) \/ ErrActive(s) \/ ResumeSeek(s) \/ PauseBack(s)
  BY <1>1, <1>g DEF PlayCall, ErrActive, ResumeSeek, PauseBack, CallThen, Branch, handlerVars
<1>2. CASE CheckOp(s)
  BY <1>2, <1>g DEF CheckOp, AfterOp, Branch, handlerVars
<1>3. CASE CheckSession(s)
  BY <1>3, <1>g DEF CheckSession, AfterSession, handlerVars
<1>4. CASE Fail(s) \/ WaitPlaying(s) \/ Accept(s)
  BY <1>4, <1>s, <1>g, DoneElsewhere, NotifyElsewhere
     DEF Fail, WaitPlaying, Accept, BranchOrDone, handlerVars
<1>5. CASE PollPlaying(s) \/ GiveUpPlaying(s)
  BY <1>5, <1>g DEF PollPlaying, GiveUpPlaying, Branch, handlerVars
<1>6. CASE Rebase(s) \/ RebaseLock(s) \/ RebaseCheck(s) \/ RebaseSeek(s)
  BY <1>6, <1>g DEF Rebase, RebaseLock, RebaseCheck, RebaseSeek, CallThen, Branch, handlerVars
<1> QED  BY <1>1, <1>2, <1>3, <1>4, <1>5, <1>6 DEF StartingStep

\* The latest control operation stays the latest: nobody else takes a ticket.
LEMMA LatestStep ==
    ASSUME TypeOK, NEW s \in Slots, PlayIsLatest(s), RequestStep(s), ~SetURIStep(s)
    PROVE  PlayIsLatest(s)'
<1>s. s \in Procs
  BY DEF Procs
<1>t. loc[s] \in Locals
  BY <1>s, ProcessTypes
<1>1. CASE Elsewhere(s)
  BY <1>1 DEF Elsewhere, PlayIsLatest
<1>2. CASE StartingStep(s)
  BY <1>1, <1>2, StartingMoves DEF PlayIsLatest, IsCurrentControlOp, Starting
<1>3. CASE PlayOp(s)
  <2>1. /\ [loc[s] EXCEPT !.op = controlSeq + 1].op = controlSeq + 1
        /\ [loc[s] EXCEPT !.op = controlSeq + 1].role = loc[s].role
        /\ [loc[s] EXCEPT !.op = controlSeq + 1].snap = loc[s].snap
    BY <1>t DEF Locals
  <2>2. PICK v : v = [loc[s] EXCEPT !.op = controlSeq + 1]
    OBVIOUS
  <2>3. pc[s] = "playOp" /\ pc'[s] = "positionOp" /\ loc'[s] = v /\ controlSeq' = controlSeq + 1
    BY <1>s, <1>3, <2>2, ProcessTypes DEF PlayOp, GotoWith, At, NextControlOp
  <2> QED  BY <2>1, <2>2, <2>3 DEF PlayIsLatest, IsCurrentControlOp, Asking
<1>4. CASE CurrentPositionOp(s)
  <2>1. PICK v : v = [loc[s] EXCEPT !.posOp = positionSeq]
    OBVIOUS
  <2>2. v.op = loc[s].op /\ v.role = loc[s].role /\ v.snap = loc[s].snap
    BY <1>t, <2>1 DEF Locals
  <2>3. pc[s] = "positionOp" /\ loc[s].snap # "starting"
    BY <1>4 DEF CurrentPositionOp, At, PlayIsLatest, Asking
  <2>4. pc'[s] \in {"playGuard", "playSession"} /\ loc'[s] = v /\ UNCHANGED controlSeq
    BY <1>s, <1>4, <2>1, <2>3, ProcessTypes DEF CurrentPositionOp, GotoWith, handlerVars
  <2> QED  BY <2>2, <2>3, <2>4 DEF PlayIsLatest, IsCurrentControlOp, Asking, Starting
<1>5. CASE PlayGuard(s)
  <2>1. PICK v : (\E b \in BOOLEAN : v = [loc[s] EXCEPT !.seekBack = b]) /\ GotoWith(s, "playSession", v)
    BY <1>5 DEF PlayGuard
  <2>2. v.op = loc[s].op /\ v.role = loc[s].role /\ v.snap = loc[s].snap
    BY <1>t, <2>1 DEF Locals
  <2>3. pc[s] = "playGuard" /\ pc'[s] = "playSession" /\ loc'[s] = v /\ UNCHANGED controlSeq
    BY <1>s, <1>5, <2>1, ProcessTypes DEF PlayGuard, GotoWith, At
  <2> QED  BY <2>2, <2>3 DEF PlayIsLatest, IsCurrentControlOp, Asking, Starting
<1>6. CASE PlaySession(s)
  <2>1. pc[s] = "playSession" /\ pc'[s] = "playCall" /\ loc'[s] = loc[s] /\ UNCHANGED controlSeq
    BY <1>s, <1>6, GotoSame DEF PlaySession, At, handlerVars
  <2> QED  BY <2>1 DEF PlayIsLatest, IsCurrentControlOp, Asking, Starting
<1>7. ~JoinRead(s)
  BY DEF PlayIsLatest, JoinRead, At
<1> QED  BY <1>1, <1>2, <1>3, <1>4, <1>5, <1>6, <1>7, OtherStepsElsewhere
            DEF RequestStep, PlayStep, StartingStep

\* Which steps there are at the labels of Starting
LEMMA AtStarting ==
    ASSUME NEW s \in Slots, RequestStep(s), pc[s] \in Starting \cup {"playSession"}
    PROVE  StartingStep(s) \/ PlaySession(s)
<1> USE DEF At, Starting
<1>1. ~SetURIStep(s) /\ ~StopStep(s)
  BY DEF SetURIStep, SetURILock, SetURICreate, StopStep, StopLock, StopSession, StopCall, SetError
<1>2. ~PauseStep(s) /\ ~SeekStep(s) /\ ~SyncPoll(s)
  BY DEF PauseStep, PauseLock, PauseRecheck, PauseGuard, PauseSession, PauseCall, PauseErr,
         PauseErrStop, WaitNotPlaying, PollNotPlaying, GiveUpNotPlaying, PauseConfirmed,
         PauseTimeout, PauseNotify, SeekStep, SeekLock, SeekRecheck, SeekCall, SyncPoll
<1>3. ~SharedStep(s)
  BY DEF SharedStep, CheckGuard, MarkPlaying, MarkPaused, MarkStopped, NotifyCheck, NotifySend
<1>4. ~PlayStep(s) \/ StartingStep(s) \/ PlaySession(s)
  BY DEF PlayStep, JoinRead, PlayOp, CurrentPositionOp, PlayGuard, NotifyPlaying,
         StartPlaybackMonitor, Interrupted, ReconcileLatePlayCompletion, RepauseGuard, RepauseCall,
         ClearGuard, Restop, StartingStep
<1> QED  BY <1>1, <1>2, <1>3, <1>4 DEF RequestStep

\* A Play does not leave its session starting.
LEMMA StartStep ==
    ASSUME TypeOK, NEW s \in Slots, PlayIsLatest(s), SlotIsCurrent(s), pc[s] \notin Sessionless,
           RequestStep(s), ~SetURIStep(s), sessions[sid(s)] = "starting" => pc[s] \in Starting,
           sessions'[sid(s)] = "starting"
    PROVE  pc'[s] \in Starting
<1>s. s \in Procs
  BY DEF Procs
<1>c. /\ sid(s) \in Ids /\ IsCurrent(sid(s)) /\ currentSessionID = sid(s)
      /\ sessions \in [Ids -> State \cup {"unborn", "evicted"}]
  <2>1. sid(s) \in Ids /\ IsCurrent(sid(s)) /\ sessions \in [Ids -> State \cup {"unborn", "evicted"}]
    BY <1>s, ProcessTypes DEF SlotIsCurrent, TypeOK, SessionsTypeOK
  <2> QED  BY <2>1, SessionsAssumption DEF IsCurrent, CurrentSession
<1>g. \A l : Goto(s, l) => pc'[s] = l
  BY <1>s, GotoSame
<1>1. CASE PlaySession(s)
  BY <1>1, <1>g DEF PlaySession, Starting
<1>2. CASE ~PlaySession(s) /\ pc[s] \notin Starting
  <2>1. pc[s] # "playSession"
    BY <1>2, AtStarting, StartingMoves
  <2>2. UsesManager(s) => FALSE
    BY <1>2, <2>1, <1>c
       DEF UsesManager, Stop, Pause, StopIfGeneration, SetPlayingAcceptedIfGeneration,
           MarkPausedIfGeneration, SetErrorIfGeneration, StopWithErrorIfGenerationActive,
           MarkPlayingIfGeneration, SetState
  <2>3. ~SetURICreate(s)
    BY DEF SetURIStep
  <2> QED  BY <1>s, <1>2, <2>2, <2>3, StepsUseManager DEF sessionsVars
<1>3. CASE StartingStep(s)
  <2>1. pc[s] \in Starting
    BY <1>3, StartingMoves
  <2>2. IsCurrentControlOp(s) /\ loc[s].role = "owner"
    BY <2>1 DEF PlayIsLatest
  <2> USE DEF At
  <2>3. CASE \/ PlayCall(s) \/ ResumeSeek(s) \/ PauseBack(s) \/ PollPlaying(s) \/ GiveUpPlaying(s)
             \/ Rebase(s) \/ RebaseLock(s) \/ RebaseCheck(s) \/ RebaseSeek(s)
    BY <1>g, <2>2, <2>3
       DEF PlayCall, ResumeSeek, PauseBack, PollPlaying, GiveUpPlaying, Rebase, RebaseLock,
           RebaseCheck, RebaseSeek, CallThen, Branch, Starting
  <2>4. CASE CheckOp(s)
    BY <1>g, <2>1, <2>2, <2>4 DEF CheckOp, AfterOp, Branch, Starting
  <2>5. CASE CheckSession(s)
    <3>1. sessions[sid(s)] = "starting"
      BY <2>5 DEF CheckSession, sessionsVars
    <3>2. IsCurrentIn(sid(s), {"starting"})
      BY <1>c, <3>1 DEF IsCurrentIn
    <3> QED  BY <1>g, <2>5, <3>2 DEF CheckSession, AfterSession, Starting
  <2>6. CASE ErrActive(s)
    <3>1. sessions[sid(s)] = "starting"
      BY <2>6 DEF ErrActive, sessionsVars
    <3>2. IsCurrentGenerationActive(sid(s), 0)
      BY <1>c, <3>1 DEF IsCurrentGenerationActive, Active, GenMatches
    <3> QED  BY <1>g, <2>6, <3>2 DEF ErrActive, Branch, Starting
  <2>7. CASE Fail(s)
    <3>1. CASE StopWithErrorIfGenerationActive(sid(s), 0)
      BY <1>c, <3>1 DEF StopWithErrorIfGenerationActive, SetState
    <3>2. CASE ~IsCurrentGenerationActive(sid(s), 0) /\ UNCHANGED sessionsVars
      BY <1>c, <3>2 DEF IsCurrentGenerationActive, Active, GenMatches, sessionsVars
    <3> QED  BY <2>7, <3>1, <3>2 DEF Fail
  <2>8. CASE WaitPlaying(s)
    <3>1. sessions[sid(s)] = "starting"
      BY <2>8 DEF WaitPlaying, sessionsVars
    <3>2. IsCurrentIn(sid(s), State \ {"paused", "stopped", "error"})
      BY <1>c, <3>1 DEF IsCurrentIn, State
    <3> QED  BY <1>g, <2>8, <3>2 DEF WaitPlaying, Starting
  <2>9. CASE Accept(s)
    <3>1. CASE SetPlayingAcceptedIfGeneration(sid(s), 0)
      BY <1>c, <3>1 DEF SetPlayingAcceptedIfGeneration, SetState
    <3>2. CASE ~CanSetPlayingAccepted(sid(s), 0) /\ UNCHANGED sessionsVars
      BY <1>c, <3>2 DEF CanSetPlayingAccepted, GenMatches, sessionsVars
    <3> QED  BY <2>9, <3>1, <3>2 DEF Accept
  <2> QED  BY <1>3, <2>3, <2>4, <2>5, <2>6, <2>7, <2>8, <2>9 DEF StartingStep
<1> QED  BY <1>1, <1>2, <1>3, AtStarting

-----------------------------------------------------------------------------
(* The source of the player *)

\* Which steps there are at the labels of Unsent
LEMMA AtUnsent ==
    ASSUME NEW s \in Slots, RequestStep(s), ~SetURIStep(s), pc[s] \in Unsent
    PROVE  \/ PlayOp(s) \/ CurrentPositionOp(s) \/ PlaySession(s) \/ PlayCall(s)
           \/ CheckOp(s) /\ pc[s] = "errOp"
           \/ ErrActive(s) \/ Fail(s) \/ ClearGuard(s)
           \/ StopStep(s) \/ NotifyCheck(s) \/ NotifySend(s)
<1> USE DEF At, Unsent, Sessionless
<1>1. \/ ~PlayStep(s)
      \/ PlayOp(s) \/ CurrentPositionOp(s) \/ PlaySession(s) \/ PlayCall(s)
      \/ CheckOp(s) /\ pc[s] = "errOp"
      \/ ErrActive(s) \/ Fail(s) \/ ClearGuard(s)
  BY DEF PlayStep, JoinRead, PlayGuard, CheckOp, CheckSession, ResumeSeek, PauseBack, WaitPlaying,
         PollPlaying, GiveUpPlaying, Rebase, RebaseLock, RebaseCheck, RebaseSeek, Accept,
         NotifyPlaying, StartPlaybackMonitor, Interrupted, ReconcileLatePlayCompletion,
         RepauseGuard, RepauseCall, Restop
<1>2. ~PauseStep(s) /\ ~SeekStep(s) /\ ~SyncPoll(s)
  BY DEF PauseStep, PauseLock, PauseRecheck, PauseGuard, PauseSession, PauseCall, PauseErr,
         PauseErrStop, WaitNotPlaying, PollNotPlaying, GiveUpNotPlaying, PauseConfirmed,
         PauseTimeout, PauseNotify, SeekStep, SeekLock, SeekRecheck, SeekCall, SyncPoll
<1>3. ~SharedStep(s) \/ NotifyCheck(s) \/ NotifySend(s)
  BY DEF SharedStep, CheckGuard, MarkPlaying, MarkPaused, MarkStopped
<1> QED  BY <1>1, <1>2, <1>3 DEF RequestStep

\* A command about a session does not take its source from the player, and play_media brings it.
LEMMA CallKeepsSource ==
    ASSUME PlayerTypeOK, NEW p, NEW cmd \in Commands, NEW ok \in BOOLEAN, Call(p, cmd, ok)
    PROVE  /\ UNCHANGED external
           /\ player'.source \in {player.source, SourceOf[sid(p)]}
           /\ cmd = "play_media" /\ ok => player'.source = SourceOf[sid(p)]
<1>1. \A q \in Effect(cmd, SourceOf[sid(p)]) : /\ q.source \in {player.source, SourceOf[sid(p)]}
                                               /\ cmd = "play_media" => q.source = SourceOf[sid(p)]
  BY DEF Effect, PlayerTypeOK, Commands
<1> QED  BY <1>1 DEF Call, CommandOK, CommandFails

\* Until the source is sent the slot stays where nobody hears of the session.
LEMMA UnsentStep ==
    ASSUME TypeOK, NEW s \in Slots, PlayIsLatest(s), pc[s] \notin Sessionless, SlotUnsent(s, sid(s)),
           RequestStep(s), ~SetURIStep(s)
    PROVE  /\ sessions'[sid(s)] \in Quiet
           /\ \/ player'.source = SourceOf[sid(s)]
              \/ /\ pc'[s] \in Unsent
                 /\ pc'[s] \in {"playOp", "positionOp", "playSession", "playCall"} => loc'[s].snap # "paused"
                 /\ pc'[s] \in {"notify", "send"} => loc'[s].then \in {"idle", "off"}
<1> DEFINE Held == /\ pc'[s] \in Unsent
                   /\ pc'[s] \in {"playOp", "positionOp", "playSession", "playCall"} => loc'[s].snap # "paused"
                   /\ pc'[s] \in {"notify", "send"} => loc'[s].then \in {"idle", "off"}
           Later == {"errOp", "errActive", "fail", "clearGuard", "stopSession", "stopCall", "setError"}
<1>s. s \in Procs /\ loc[s] \in Locals /\ sid(s) \in Ids
  BY ProcessTypes DEF Procs
<1>q. sessions[sid(s)] \in Quiet /\ sessions \in [Ids -> State \cup {"unborn", "evicted"}]
  BY DEF SlotUnsent, TypeOK, SessionsTypeOK
<1>k. UNCHANGED sessionsVars => sessions'[sid(s)] \in Quiet
  BY <1>q DEF sessionsVars
<1>g. ASSUME NEW l \in Later, Goto(s, l)
      PROVE  Held
  BY <1>s, <1>g, GotoSame DEF Unsent
<1>d. ASSUME Done(s)
      PROVE  Held
  <2>1. pc'[s] = "idle"
    BY <1>s, <1>d, DoneElsewhere DEF Rest
  <2> QED  BY <2>1 DEF Unsent, Sessionless
<1>n. ASSUME NEW id, NEW ev, Notify(s, id, ev, "idle")
      PROVE  Held
  <2>1. PICK v : v = [Kept(s) EXCEPT !.sid = id, !.ev = ev, !.then = "idle"]
    OBVIOUS
  <2>2. v.then = "idle"
    BY <2>1, NoLocalsType DEF Kept, Locals
  <2>3. pc'[s] = "notify" /\ loc'[s] = v
    BY <1>s, <1>n, <2>1, ProcessTypes DEF Notify, GotoWith
  <2> QED  BY <2>2, <2>3 DEF Unsent
<1>1. CASE PlayOp(s)
  <2>1. PICK v : v = [loc[s] EXCEPT !.op = controlSeq + 1]
    OBVIOUS
  <2>2. v.snap = loc[s].snap
    BY <1>s, <2>1 DEF Locals
  <2>3. pc[s] = "playOp" /\ pc'[s] = "positionOp" /\ loc'[s] = v /\ UNCHANGED sessionsVars
    BY <1>s, <1>1, <2>1, ProcessTypes DEF PlayOp, GotoWith, At
  <2> QED  BY <1>k, <2>2, <2>3 DEF SlotUnsent, Unsent
<1>2. CASE CurrentPositionOp(s)
  <2>1. PICK v : v = [loc[s] EXCEPT !.posOp = positionSeq]
    OBVIOUS
  <2>2. v.snap = loc[s].snap
    BY <1>s, <2>1 DEF Locals
  <2>3. pc[s] = "positionOp" /\ loc[s].snap \notin {"starting", "paused"}
    BY <1>2 DEF CurrentPositionOp, At, PlayIsLatest, Asking, SlotUnsent
  <2>4. pc'[s] = "playSession" /\ loc'[s] = v /\ UNCHANGED sessionsVars
    BY <1>s, <1>2, <2>1, <2>3, ProcessTypes DEF CurrentPositionOp, GotoWith
  <2> QED  BY <1>k, <2>2, <2>3, <2>4 DEF Unsent
<1>3. CASE PlaySession(s)
  <2>1. pc[s] = "playSession" /\ pc'[s] = "playCall" /\ loc'[s] = loc[s]
    BY <1>s, <1>3, GotoSame DEF PlaySession, At
  <2>2. sessions'[sid(s)] \in Quiet
    BY <1>s, <1>q, <1>k, <1>3 DEF PlaySession, Play, SetState, Quiet
  <2> QED  BY <2>1, <2>2 DEF SlotUnsent, Unsent
<1>4. CASE PlayCall(s)
  <2>1. loc[s].snap # "paused" /\ UNCHANGED sessionsVars
    BY <1>4 DEF PlayCall, At, SlotUnsent
  <2>2. PICK ok \in BOOLEAN : Call(s, "play_media", ok) /\ Branch(s, ok, "okOp", "errOp")
    BY <1>4, <2>1 DEF PlayCall, CallThen
  <2>3. CASE ok
    <3>1. player'.source = SourceOf[sid(s)]
      BY <2>2, <2>3, CallKeepsSource DEF Commands, TypeOK
    <3> QED  BY <1>k, <2>1, <3>1
  <2>4. CASE ~ok
    BY <1>k, <1>g, <2>1, <2>2, <2>4 DEF Branch
  <2> QED  BY <2>3, <2>4
<1>5. CASE CheckOp(s) /\ pc[s] = "errOp"
  <2>1. IsCurrentControlOp(s)
    BY <1>5 DEF PlayIsLatest, Starting
  <2> QED  BY <1>k, <1>g, <1>5, <2>1 DEF CheckOp, AfterOp, Branch
<1>6. CASE ErrActive(s) \/ ClearGuard(s)
  BY <1>k, <1>g, <1>d, <1>6 DEF ErrActive, ClearGuard, Branch
<1>7. CASE Fail(s)
  <2>1. sessions'[sid(s)] \in Quiet
    BY <1>s, <1>q, <1>k, <1>7 DEF Fail, StopWithErrorIfGenerationActive, SetState, Quiet
  <2>2. Held
    BY <1>d, <1>n, <1>7 DEF Fail
  <2> QED  BY <2>1, <2>2
<1>8. CASE StopStep(s)
  <2>1. sessions'[sid(s)] \in Quiet
    BY <1>s, <1>q, <1>k, <1>8
       DEF StopStep, StopLock, StopSession, StopCall, SetError, Stop, SetErrorIfGeneration, SetState, Quiet
  <2>2. Held
    BY <1>d, <1>n, <1>g, <1>8 DEF StopStep, StopLock, StopSession, StopCall, SetError
  <2> QED  BY <2>1, <2>2
<1>9. CASE NotifyCheck(s) \/ NotifySend(s)
  <2>1. pc[s] \in {"notify", "send"} /\ UNCHANGED sessionsVars
    BY <1>9 DEF NotifyCheck, NotifySend, At
  <2>2. loc[s].then \in {"idle", "off"}
    BY <2>1 DEF SlotUnsent
  <2>3. Done(s) \/ Goto(s, "send")
    BY <1>9, <2>2 DEF NotifyCheck, NotifySend, Follow
  <2>4. CASE Goto(s, "send")
    <3>1. pc'[s] = "send" /\ loc'[s] = loc[s]
      BY <1>s, <2>4, GotoSame
    <3> QED  BY <1>k, <2>1, <2>2, <3>1 DEF Unsent
  <2> QED  BY <1>k, <1>d, <2>1, <2>3, <2>4
<1> QED  BY <1>1, <1>2, <1>3, <1>4, <1>5, <1>6, <1>7, <1>8, <1>9, AtUnsent DEF SlotUnsent

-----------------------------------------------------------------------------
(* Alone is inductive. *)

\* Old sessions end when a new one is created, and stay so: only the slot could bring one
\* back, and it is about the current session.
LEMMA OthersEnded ==
    ASSUME TypeOK, OldSessionsEnded, NEW p \in Procs, UNCHANGED CurrentSession, sid(p) \in Ids,
           UsesManager(p),
           \/ IsCurrent(sid(p))
           \/ MarkPlayingIfGeneration(sid(p), 0) \/ MarkPausedIfGeneration(sid(p), 0)
           \/ StopIfGeneration(sid(p), 0)
    PROVE  OldSessionsEnded'
<1>1. /\ UNCHANGED currentSessionID
      /\ \A i \in Ids \ {sid(p)} : sessions'[i] = sessions[i]
      /\ sessions \in [Ids -> State \cup {"unborn", "evicted"}]
  BY DEF UsesManager, Play, Stop, Pause, StopIfGeneration, SetPlayingAcceptedIfGeneration,
         MarkPausedIfGeneration, SetErrorIfGeneration, StopWithErrorIfGenerationActive,
         MarkPlayingIfGeneration, SetState, TypeOK, SessionsTypeOK
<1>2. CASE IsCurrent(sid(p))
  <2>1. currentSessionID = sid(p)
    BY <1>2, SessionsAssumption DEF IsCurrent, CurrentSession
  <2> QED  BY <1>1, <2>1 DEF OldSessionsEnded, Live
<1>3. CASE MarkPlayingIfGeneration(sid(p), 0) \/ MarkPausedIfGeneration(sid(p), 0)
  <2>1. sid(p) \in Live /\ sessions[sid(p)] \notin Ended
    BY <1>3 DEF MarkPlayingIfGeneration, CanMarkPlaying, MarkPausedIfGeneration, CanMarkPaused,
                Exists, Live, State, Active, Ended
  <2> QED  BY <1>1, <2>1 DEF OldSessionsEnded, Live
<1>4. CASE StopIfGeneration(sid(p), 0)
  <2>1. sessions'[sid(p)] = "stopped"
    BY <1>1, <1>4 DEF StopIfGeneration, SetState
  <2> QED  BY <1>1, <2>1 DEF OldSessionsEnded, Live, Ended
<1> QED  BY <1>2, <1>3, <1>4

\* A monitor changes neither the slot nor the ticket, and revives nothing.
LEMMA MonitorAlone ==
    ASSUME TypeOK, NEW s \in Slots, Alone(s), NEW m \in Monitors, MonitorStep(m)
    PROVE  Alone(s)'
<1>t. /\ s \in Procs /\ m \in Procs /\ s # m
      /\ pc \in [Procs -> Labels] /\ loc \in [Procs -> Locals]
      /\ sessions \in [Ids -> State \cup {"unborn", "evicted"}]
  BY TransportAssumption DEF Procs, TypeOK, ProcessesTypeOK, SessionsTypeOK
<1>1. \A p \in Procs \ {m} : pc'[p] = pc[p] /\ loc'[p] = loc[p]
  BY <1>t, MonitorMoves DEF Moved, GotoWith
<1>2. UNCHANGED <<playerVars, controlSeq, CurrentSession>>
  <2>1. UNCHANGED <<playerVars, controlSeq>>
    BY DEF MonitorStep, MonitorExit, MonitorTick, MonitorPoll, SharedStep, CheckGuard, MarkPlaying,
           MarkPaused, MarkStopped, NotifyCheck, NotifySend, handlerVars
  <2>2. UNCHANGED CurrentSession
    BY <1>t, StepsManaged DEF Managed
  <2> QED  BY <2>1, <2>2
<1>3. pc[m] \notin Sessionless /\ sid(m) \in Ids
  <2>1. pc[m] \notin Sessionless
    BY DEF MonitorStep, MonitorExit, MonitorTick, MonitorPoll, SharedStep, CheckGuard, MarkPlaying,
           MarkPaused, MarkStopped, NotifyCheck, NotifySend, At, Sessionless
  <2> QED  BY <1>t, <2>1, ProcessTypes
<1>4. \/ UNCHANGED sessionsVars
      \/ /\ UsesManager(m)
         /\ \/ MarkPlayingIfGeneration(sid(m), 0) \/ MarkPausedIfGeneration(sid(m), 0)
            \/ StopIfGeneration(sid(m), 0)
  BY DEF MonitorStep, MonitorExit, MonitorTick, MonitorPoll, SharedStep, CheckGuard, MarkPlaying,
         MarkPaused, MarkStopped, NotifyCheck, NotifySend, UsesManager, At
<1>5. /\ \A i \in Ids \ {sid(m)} : sessions'[i] = sessions[i]
      /\ sessions'[sid(m)] # sessions[sid(m)] => sessions'[sid(m)] \in {"playing", "paused", "stopped"}
  BY <1>t, <1>3, <1>4 DEF MarkPlayingIfGeneration, MarkPausedIfGeneration, StopIfGeneration, SetState,
                          sessionsVars
<1>6. OldSessionsEnded'
  BY <1>t, <1>2, <1>3, <1>4, OthersEnded
     DEF Alone, OldSessionsEnded, sessionsVars, Live
<1>7. SlotIsCurrent(s)' /\ PlayIsLatest(s)'
  BY <1>t, <1>1, <1>2 DEF Alone, SlotIsCurrent, PlayIsLatest, IsCurrent, IsCurrentControlOp, sid
<1>8. StartIsPending(s)'
  BY <1>t, <1>1, <1>2, <1>3, <1>5 DEF Alone, StartIsPending, IsCurrentIn, IsCurrent
<1>9. SourceIsOwn(s)'
  <2>1. ASSUME NEW i \in Ids, NotSent(s, i)
        PROVE  NotSent(s, i)'
    <3>1. i # sid(m)
      BY <1>3, <2>1 DEF NotSent, Unwatched
    <3>2. Unwatched(i)'
      <4>1. SameSession(m)
        BY MonitorKeeps
      <4> QED  BY <1>t, <1>1, <1>3, <2>1, <3>1, <4>1 DEF NotSent, Unwatched, SameSession, sid, Procs
    <3>3. SlotUnsent(s, i)'
      BY <1>t, <1>1, <1>5, <2>1, <3>1 DEF NotSent, SlotUnsent
    <3> QED  BY <3>2, <3>3 DEF NotSent
  <2> QED  BY <1>2, <2>1 DEF Alone, SourceIsOwn, IsCurrent, playerVars
<1> QED  BY <1>6, <1>7, <1>8, <1>9 DEF Alone

\* The player and its other users change no session.
LEMMA PlayerAlone ==
    ASSUME TypeOK, NEW s \in Slots, Alone(s), PlayerMoves
    PROVE  Alone(s)'
<1>1. UNCHANGED <<pc, loc, controlSeq, sessions, currentSessionID>>
  BY DEF PlayerMoves, processVars, handlerVars, sessionsVars
<1>2. UNCHANGED CurrentSession
  BY <1>1 DEF CurrentSession, Live
<1>3. external' = MaxExternal => external = MaxExternal /\ player'.source = player.source
  <2>1. external \in Nat /\ external <= MaxExternal /\ MaxExternal \in Nat
    BY PlayerAssumption DEF TypeOK, PlayerTypeOK
  <2>2. CASE PlayerStarts \/ PlayerEnds
    BY <2>2 DEF PlayerStarts, PlayerEnds, TypeOK, PlayerTypeOK
  <2>3. CASE UserToggles \/ UserPlays
    BY <2>1, <2>3 DEF UserToggles, UserPlays
  <2> QED  BY <2>2, <2>3 DEF PlayerMoves, PlayerStep
<1>4. SlotIsCurrent(s)' /\ PlayIsLatest(s)' /\ StartIsPending(s)' /\ OldSessionsEnded'
  BY <1>1, <1>2 DEF Alone, SlotIsCurrent, PlayIsLatest, StartIsPending, OldSessionsEnded, IsCurrent,
                    IsCurrentIn, IsCurrentControlOp, Live, sid
<1>5. SourceIsOwn(s)'
  BY <1>1, <1>2, <1>3 DEF Alone, SourceIsOwn, IsCurrent, NotSent, SlotUnsent, Unwatched, sid
<1> QED  BY <1>4, <1>5 DEF Alone

\* A new request is about the current session, and no other is starting.
LEMMA ArriveAlone ==
    ASSUME TypeOK, NEW s \in Slots, Alone(s), Arrive(s)
    PROVE  Alone(s)'
<1>t. /\ s \in Procs /\ Monitors \subseteq Procs /\ s \notin Monitors
      /\ pc \in [Procs -> Labels] /\ loc \in [Procs -> Locals]
  BY TransportAssumption DEF Procs, TypeOK, ProcessesTypeOK
<1>1. /\ UNCHANGED <<sessions, currentSessionID, playerVars, controlSeq>>
      /\ pc[s] = "idle"
  BY DEF Arrive, SetURIBegin, PlayBegin, StopBegin, PauseBegin, SeekBegin, SyncBegin,
         BeginOnCurrent, Begin, At, handlerVars, sessionsVars
<1>2. UNCHANGED CurrentSession /\ OldSessionsEnded'
  BY <1>1 DEF CurrentSession, Live, Alone, OldSessionsEnded
<1>3. \A i \in Ids : ~IsCurrentIn(i, {"starting"})
  BY <1>1 DEF Alone, StartIsPending, Starting
<1>4. StartIsPending(s)'
  BY <1>1, <1>2, <1>3 DEF StartIsPending, IsCurrentIn, IsCurrent
<1>5. \A m \in Monitors : pc'[m] = pc[m] /\ loc'[m] = loc[m]
  <2>1. Moved(s)
    BY ArriveMoves
  <2> QED  BY <1>t, <2>1 DEF Moved, GotoWith
<1>6. CASE SetURIBegin(s)
  <2>1. pc'[s] = "uriLock"
    BY <1>t, <1>6, GotoSame DEF SetURIBegin
  <2>2. SlotIsCurrent(s)' /\ PlayIsLatest(s)'
    BY <2>1 DEF SlotIsCurrent, PlayIsLatest, Sessionless, Asking, Starting
  <2>3. SourceIsOwn(s)'
    BY <1>1, <1>2, <1>5, <2>1 DEF Alone, SourceIsOwn, IsCurrent, NotSent, SlotUnsent, Unwatched, sid,
                                  Unsent, Sessionless, playerVars
  <2> QED  BY <1>2, <1>4, <2>2, <2>3 DEF Alone
<1>7. ASSUME NEW kind, NEW states, NEW l, BeginOnCurrent(s, kind, states, l),
             \/ l = "playOp" /\ states = State \ Active
             \/ l = "stopLock"
             \/ l \in {"pauseLock", "seekLock"} /\ states \subseteq Active \cup {"paused"}
             \/ l = "syncPoll" /\ states = {"playing", "paused"}
      PROVE  Alone(s)'
  <2>1. /\ CurrentSession \in Ids /\ sessions[CurrentSession] \in states
        /\ sessions[CurrentSession] \in State /\ sessions[CurrentSession] # "starting"
    BY <1>3, <1>7 DEF BeginOnCurrent, CurrentSession, Live, IsCurrentIn, IsCurrent
  <2>2. PICK v : v = [NoLocals EXCEPT !.sid = CurrentSession, !.snap = sessions[CurrentSession]]
    OBVIOUS
  <2>3. v.sid = CurrentSession /\ v.snap = sessions[CurrentSession] /\ v.role = "owner"
    BY <2>2 DEF NoLocals
  <2>4. pc'[s] = l /\ loc'[s] = v
    BY <1>t, <1>7, <2>2 DEF BeginOnCurrent, GotoWith
  <2>5. SlotIsCurrent(s)'
    BY <1>2, <2>3, <2>4 DEF SlotIsCurrent, IsCurrent, sid
  <2>6. PlayIsLatest(s)'
    BY <1>7, <2>1, <2>3, <2>4 DEF PlayIsLatest, Asking, Starting, Active
  <2>7. ASSUME NEW i \in Ids, IsCurrent(i), NotSent(s, i)
        PROVE  NotSent(s, i)'
    <3>1. i = CurrentSession /\ sessions[i] \in {"loaded", "stopped", "error"}
      BY <2>1, <2>7 DEF IsCurrent, NotSent, SlotUnsent, Quiet
    <3>2. l \in {"playOp", "stopLock"}
      BY <1>7, <2>1, <3>1 DEF Active
    <3>3. SlotUnsent(s, i)'
      BY <1>1, <2>3, <2>4, <3>1, <3>2 DEF SlotUnsent, Unsent, Quiet
    <3>4. Unwatched(i)'
      BY <1>5, <2>7 DEF NotSent, Unwatched, sid
    <3> QED  BY <3>3, <3>4 DEF NotSent
  <2>8. SourceIsOwn(s)'
    BY <1>1, <1>2, <2>7 DEF Alone, SourceIsOwn, IsCurrent, playerVars
  <2> QED  BY <1>2, <1>4, <2>5, <2>6, <2>8 DEF Alone
<1>8. CASE PlayBegin(s)
  <2>1. ~BeginOnCurrent(s, "Play", {"starting"}, "joinRead")
    BY <1>3 DEF BeginOnCurrent, CurrentSession, Live, IsCurrentIn, IsCurrent
  <2> QED  BY <1>7, <1>8, <2>1 DEF PlayBegin
<1>9. CASE StopBegin(s) \/ PauseBegin(s) \/ SeekBegin(s) \/ SyncBegin(s)
  BY <1>7, <1>9 DEF StopBegin, PauseBegin, SeekBegin, SyncBegin
<1> QED  BY <1>6, <1>8, <1>9 DEF Arrive

\* After SetAVTransportURI nobody is about the new session yet.
LEMMA CreateAlone ==
    ASSUME TypeOK, StartedOK, NEW s \in Slots, Alone(s), SetURICreate(s)
    PROVE  Alone(s)'
<1>t. /\ s \in Procs /\ Monitors \subseteq Procs /\ s \notin Monitors
      /\ pc \in [Procs -> Labels] /\ loc \in [Procs -> Locals]
  BY TransportAssumption DEF Procs, TypeOK, ProcessesTypeOK
<1>1. PICK id \in Ids :
         /\ sessions[id] = "unborn" /\ sessions'[id] = "loaded" /\ currentSessionID' = id
         /\ Notify(s, id, "STOPPED", "idle")
         /\ \A i \in Ids \ {id} : /\ sessions[i] = "unborn" => sessions'[i] = "unborn"
                                  /\ sessions[i] # "unborn" => sessions'[i] \in {"stopped", "evicted"}
  BY CreateChanges DEF TypeOK
<1>2. CurrentSession' = id
  BY <1>1 DEF CurrentSession, Live, State
<1>3. PICK v : v = [Kept(s) EXCEPT !.sid = id, !.ev = "STOPPED", !.then = "idle"]
  OBVIOUS
<1>4. v.sid = id /\ v.then = "idle"
  BY <1>3, NoLocalsType DEF Kept, Locals
<1>5. /\ pc'[s] = "notify" /\ loc'[s] = v
      /\ \A m \in Monitors : pc'[m] = pc[m] /\ loc'[m] = loc[m]
  BY <1>t, <1>1, <1>3 DEF Notify, GotoWith
<1>6. SlotIsCurrent(s)' /\ PlayIsLatest(s)'
  BY <1>2, <1>4, <1>5 DEF SlotIsCurrent, PlayIsLatest, IsCurrent, sid, Asking, Starting
<1>7. OldSessionsEnded'
  BY <1>1 DEF OldSessionsEnded, Live, Ended, State
<1>8. StartIsPending(s)'
  BY <1>1, <1>2 DEF StartIsPending, IsCurrentIn, IsCurrent
\* No monitor can be about a session that was not created yet.
<1>9. \A m \in Monitors : pc[m] \in Sessionless \/ sid(m) # id
  BY <1>t, <1>1 DEF StartedOK, ProcessStarted, Started
<1>10. SourceIsOwn(s)'
  <2>1. Unwatched(id)'
    BY <1>5, <1>9 DEF Unwatched, sid
  <2>2. SlotUnsent(s, id)'
    BY <1>1, <1>4, <1>5 DEF SlotUnsent, Unsent, Quiet
  <2>3. \A i \in Ids : IsCurrent(i)' => i = id
    BY <1>2 DEF IsCurrent
  <2>4. NotSent(s, id)'
    BY <2>1, <2>2 DEF NotSent
  <2> QED  BY <2>3, <2>4 DEF SourceIsOwn
<1> QED  BY <1>6, <1>7, <1>8, <1>10 DEF Alone

\* Taking the mutex and a ticket gets in the way of no Play, for there is no other slot.
LEMMA LockAlone ==
    ASSUME TypeOK, NEW s \in Slots, Alone(s), SetURILock(s)
    PROVE  Alone(s)'
<1>t. /\ s \in Procs /\ Monitors \subseteq Procs /\ s \notin Monitors
      /\ pc \in [Procs -> Labels] /\ loc \in [Procs -> Locals]
  BY TransportAssumption DEF Procs, TypeOK, ProcessesTypeOK
<1>1. /\ UNCHANGED <<sessions, currentSessionID, playerVars>>
      /\ pc[s] = "uriLock" /\ pc'[s] = "uriCreate"
      /\ \A m \in Monitors : pc'[m] = pc[m] /\ loc'[m] = loc[m]
  BY <1>t DEF SetURILock, At, Goto, sessionsVars
<1>2. UNCHANGED CurrentSession /\ OldSessionsEnded'
  BY <1>1 DEF CurrentSession, Live, Alone, OldSessionsEnded
<1>3. SlotIsCurrent(s)' /\ PlayIsLatest(s)'
  BY <1>1 DEF SlotIsCurrent, PlayIsLatest, Sessionless, Asking, Starting
<1>4. StartIsPending(s)'
  BY <1>1, <1>2 DEF Alone, StartIsPending, IsCurrentIn, IsCurrent, Starting
<1>5. SourceIsOwn(s)'
  BY <1>1, <1>2 DEF Alone, SourceIsOwn, IsCurrent, NotSent, SlotUnsent, Unwatched, sid, Unsent,
                    Sessionless, playerVars
<1> QED  BY <1>2, <1>3, <1>4, <1>5 DEF Alone

\* The steps of the request in progress
LEMMA RequestAlone ==
    ASSUME TypeOK, NEW s \in Slots, Alone(s), RequestStep(s), ~SetURIStep(s)
    PROVE  Alone(s)'
<1>t. /\ s \in Procs /\ Monitors \subseteq Procs /\ s \notin Monitors
      /\ pc \in [Procs -> Labels] /\ loc \in [Procs -> Locals]
      /\ sessions \in [Ids -> State \cup {"unborn", "evicted"}]
  BY TransportAssumption DEF Procs, TypeOK, ProcessesTypeOK, SessionsTypeOK
<1>1. pc[s] \notin Sessionless
  <2> USE DEF Sessionless, At
  <2>1. ~SharedStep(s) \/ pc[s] \notin Sessionless
    BY DEF SharedStep, CheckGuard, MarkPlaying, MarkPaused, MarkStopped, NotifyCheck, NotifySend
  <2>2. ~PlayStep(s) \/ pc[s] \notin Sessionless
    BY DEF PlayStep, JoinRead, PlayOp, CurrentPositionOp, PlayGuard, PlaySession, PlayCall, CheckOp,
           CheckSession, ErrActive, ResumeSeek, PauseBack, Fail, WaitPlaying, PollPlaying,
           GiveUpPlaying, Rebase, RebaseLock, RebaseCheck, RebaseSeek, Accept, NotifyPlaying,
           StartPlaybackMonitor, Interrupted, ReconcileLatePlayCompletion, RepauseGuard,
           RepauseCall, ClearGuard, Restop
  <2>3. ~(StopStep(s) \/ PauseStep(s) \/ SeekStep(s) \/ SyncPoll(s)) \/ pc[s] \notin Sessionless
    BY DEF StopStep, StopLock, StopSession, StopCall, SetError, PauseStep, PauseLock, PauseRecheck,
           PauseGuard, PauseSession, PauseCall, PauseErr, PauseErrStop, WaitNotPlaying,
           PollNotPlaying, GiveUpNotPlaying, PauseConfirmed, PauseTimeout, PauseNotify, SeekStep,
           SeekLock, SeekRecheck, SeekCall, SyncPoll
  <2> QED  BY <2>1, <2>2, <2>3 DEF RequestStep
<1>2. sid(s) \in Ids /\ IsCurrent(sid(s)) /\ (\A i \in Ids : IsCurrent(i) => i = sid(s))
  BY <1>t, <1>1, ProcessTypes DEF Alone, SlotIsCurrent, IsCurrent
<1>3. ~SetURICreate(s)
  BY DEF SetURIStep
<1>4. UNCHANGED CurrentSession
  BY <1>t, <1>3, StepsManaged DEF Managed
<1>5. SlotIsCurrent(s)'
  BY <1>2, <1>4, RequestKeeps DEF SlotIsCurrent, SameSession, IsCurrent, sid
<1>6. OldSessionsEnded'
  <2>1. CASE UNCHANGED sessionsVars
    BY <2>1 DEF Alone, OldSessionsEnded, sessionsVars, Live
  <2>2. CASE UsesManager(s)
    BY <1>t, <1>2, <1>4, <2>2, OthersEnded DEF Alone
  <2> QED  BY <1>t, <1>3, <2>1, <2>2, StepsUseManager
<1>7. PlayIsLatest(s)'
  BY LatestStep DEF Alone
<1>8. StartIsPending(s)'
  <2>1. sessions[sid(s)] = "starting" => pc[s] \in Starting
    BY <1>2 DEF Alone, StartIsPending, IsCurrentIn
  <2>2. sessions'[sid(s)] = "starting" => pc'[s] \in Starting
    BY <1>1, <2>1, StartStep DEF Alone
  <2>3. \A i \in Ids : IsCurrent(i)' => i = sid(s)
    BY <1>2, <1>4 DEF IsCurrent
  <2>4. ASSUME NEW i \in Ids, IsCurrentIn(i, {"starting"})'
        PROVE  pc'[s] \in Starting
    <3>1. IsCurrent(i)' /\ sessions'[i] = "starting"
      BY <2>4 DEF IsCurrentIn
    <3> QED  BY <2>2, <2>3, <3>1
  <2> QED  BY <2>4 DEF StartIsPending
<1>9. CASE StartPlaybackMonitor(s)
  <2>1. pc[s] = "startMonitor" /\ UNCHANGED playerVars
    BY <1>9 DEF StartPlaybackMonitor, At
  <2>2. \A i \in Ids : external = MaxExternal /\ IsCurrent(i) => player.source = SourceOf[i]
    BY <2>1 DEF Alone, SourceIsOwn, NotSent, SlotUnsent, Unsent, Sessionless
  <2>3. SourceIsOwn(s)'
    BY <1>4, <2>1, <2>2 DEF SourceIsOwn, IsCurrent, playerVars
  <2> QED  BY <1>5, <1>6, <1>7, <1>8, <2>3 DEF Alone
<1>10. CASE ~StartPlaybackMonitor(s)
  <2>1. Moved(s) /\ HandlerStep(s)
    BY <1>t, <1>10, RequestMoves, HandlerSteps
  <2>2. \A m \in Monitors : pc'[m] = pc[m] /\ loc'[m] = loc[m]
    BY <1>t, <2>1 DEF Moved, GotoWith
  <2>3. UNCHANGED external /\ player'.source \in {player.source, SourceOf[sid(s)]}
    BY <2>1, CallKeepsSource DEF HandlerStep, playerVars, TypeOK
  <2>4. PICK c \in Ids : c = sid(s)
    BY <1>2
  <2>5. ASSUME external = MaxExternal, player'.source # SourceOf[c]
        PROVE  NotSent(s, c)'
    <3>1. NotSent(s, c)
      BY <1>2, <2>3, <2>4, <2>5 DEF Alone, SourceIsOwn
    <3>2. /\ sessions'[c] \in Quiet
          /\ pc'[s] \in Unsent
          /\ pc'[s] \in {"playOp", "positionOp", "playSession", "playCall"} => loc'[s].snap # "paused"
          /\ pc'[s] \in {"notify", "send"} => loc'[s].then \in {"idle", "off"}
      BY <1>1, <2>4, <2>5, <3>1, UnsentStep DEF Alone, NotSent
    <3>3. Unwatched(c)'
      BY <2>2, <3>1 DEF NotSent, Unwatched, sid
    <3> QED  BY <3>2, <3>3 DEF NotSent, SlotUnsent
  <2>6. \A i \in Ids : IsCurrent(i)' => i = c
    BY <1>2, <1>4, <2>4 DEF IsCurrent
  <2>7. SourceIsOwn(s)'
    BY <2>3, <2>5, <2>6 DEF SourceIsOwn
  <2> QED  BY <1>5, <1>6, <1>7, <1>8, <2>7 DEF Alone
<1> QED  BY <1>9, <1>10

\* Every step keeps Alone.
LEMMA AloneStep ==
    ASSUME TypeOK, StartedOK, NEW s, Slots = {s}, Alone(s), [Next]_vars
    PROVE  Alone(s)'
<1>s. s \in Slots
  OBVIOUS
<1>1. CASE Arrive(s)
  BY <1>s, <1>1, ArriveAlone
<1>2. CASE SetURIStep(s)
  BY <1>s, <1>2, LockAlone, CreateAlone DEF SetURIStep
<1>3. CASE RequestStep(s) /\ ~SetURIStep(s)
  BY <1>s, <1>3, RequestAlone
<1>4. CASE \E m \in Monitors : MonitorStep(m)
  BY <1>s, <1>4, MonitorAlone
<1>5. CASE PlayerMoves
  BY <1>s, <1>5, PlayerAlone
<1>6. CASE UNCHANGED vars
  <2>1. UNCHANGED <<pc, loc, controlSeq, sessions, currentSessionID, player, external>>
    BY <1>6 DEF vars, sessionsVars, playerVars, handlerVars, processVars
  <2> QED
    BY <2>1 DEF Alone, SlotIsCurrent, OldSessionsEnded, PlayIsLatest, StartIsPending, SourceIsOwn,
                IsCurrent, IsCurrentIn, IsCurrentControlOp, CurrentSession, Live, NotSent, SlotUnsent,
                Unwatched, sid
<1>7. \/ Arrive(s) \/ RequestStep(s) \/ (\E m \in Monitors : MonitorStep(m)) \/ PlayerMoves
      \/ UNCHANGED vars
  BY DEF Next, Rested
<1> QED  BY <1>1, <1>2, <1>3, <1>4, <1>5, <1>6, <1>7

\* With one slot Alone holds throughout.
LEMMA AloneInvariant ==
    ASSUME NEW s, Slots = {s}
    PROVE  Spec => []Alone(s)
<1>1. Init => Alone(s)
  <2>1. ASSUME Init
        PROVE  Alone(s)
    <3>1. CurrentSession = NoSession /\ Live = {} /\ pc[s] = "idle"
      BY <2>1, SessionsAssumption DEF Init, SessionsInit, CurrentSession, Live, State, Procs, Rest
    <3>2. SlotIsCurrent(s) /\ PlayIsLatest(s) /\ OldSessionsEnded
      BY <3>1 DEF SlotIsCurrent, PlayIsLatest, OldSessionsEnded, Sessionless, Asking, Starting
    <3>3. StartIsPending(s) /\ SourceIsOwn(s)
      BY <3>1, SessionsAssumption DEF StartIsPending, SourceIsOwn, IsCurrentIn, IsCurrent
    <3> QED  BY <3>2, <3>3 DEF Alone
  <2> QED  BY <2>1
<1>2. TypeOK /\ StartedOK /\ Alone(s) /\ [Next]_vars => Alone(s)'
  BY AloneStep
<1> QED  BY <1>1, <1>2, StartedInvariant, PTL DEF Spec

(* With one control point at a time a replaced session stays ended, however *)
(* late a monitor marks it.                                                  *)
THEOREM OldSessionsEndedTheorem ==
    ASSUME NEW s, Slots = {s}
    PROVE  Spec => []OldSessionsEnded
<1>1. Alone(s) => OldSessionsEnded
  BY DEF Alone
<1> QED  BY <1>1, AloneInvariant, PTL

(* And a Play that was answered, confirmed or not, has not left the          *)
(* transport TRANSITIONING.                                                  *)
THEOREM NotLeftTransitioningTheorem ==
    ASSUME NEW s, Slots = {s}
    PROVE  Spec => []NotLeftTransitioning
<1>1. Alone(s) => NotLeftTransitioning
  <2>1. ASSUME StartIsPending(s), CurrentTransportState = "TRANSITIONING"
        PROVE  pc[s] \in Starting
    <3>1. CurrentSession # NoSession /\ sessions[CurrentSession] = "starting"
      BY <2>1 DEF CurrentTransportState
    <3>2. CurrentSession \in Ids /\ IsCurrentIn(CurrentSession, {"starting"})
      BY <3>1 DEF CurrentSession, Live, IsCurrentIn, IsCurrent
    <3> QED  BY <2>1, <3>2 DEF StartIsPending
  <2> QED  BY <2>1 DEF Alone, NotLeftTransitioning, At, Starting
<1> QED  BY <1>1, AloneInvariant, PTL

(* And what is shown as PLAYING is the current session's own source, while   *)
(* nobody else uses the player.                                              *)
THEOREM PlayingOwnSourceTheorem ==
    ASSUME NEW s, Slots = {s}
    PROVE  Spec => []PlayingOwnSource
<1>1. Alone(s) => PlayingOwnSource
  BY DEF Alone, SourceIsOwn, NotSent, SlotUnsent, Quiet, PlayingOwnSource, IsCurrentIn
<1> QED  BY <1>1, AloneInvariant, PTL
===============================================================================
