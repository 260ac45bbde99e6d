---------------------------- MODULE Transport_proofs ----------------------------
(***************************************************************************)
(* Theorems about the AVTransport handlers, for every number of requests,  *)
(* monitors, sessions and sources.                                         *)
(*                                                                         *)
(* A step of the handler moves one process on from one label to the next;  *)
(* Moved says what such a move does to the locals and to maCommandMu.      *)
(* MovesOn shows it of every action, and the theorems argue from it.       *)
(***************************************************************************)
EXTENDS Transport, Sessions_proofs

\* The mutex stays as it is between labels on the same side of it, and is taken or released
\* by a move from one side to the other.
LockMove(p, l) ==
    \/ (pc[p] \in Locked <=> l \in Locked) /\ UNCHANGED maCommandMu
    \/ pc[p] \notin Locked /\ l \in Locked /\ TakeLock(p)
    \/ pc[p] \in Locked /\ l \notin Locked /\ Unlock(p)

Moved(p) ==
    \E l \in Labels, v \in Locals :
        /\ GotoWith(p, l, v)
        /\ LockMove(p, l)
        /\ l \in Sessionless \/ v.sid \in Ids

(* The forms in which the actions move a process on. *)

LEMMA GotoMoves ==
    ASSUME TypeOK, NEW p \in Procs, NEW l \in Labels, Goto(p, l), LockMove(p, l),
           l \in Sessionless \/ pc[p] \notin Sessionless
    PROVE  Moved(p)
<1>1. loc[p] \in Locals /\ (l \in Sessionless \/ loc[p].sid \in Ids)
  BY DEF TypeOK, ProcessesTypeOK, sid
<1>2. loc' = [loc EXCEPT ![p] = loc[p]]
  BY DEF TypeOK, ProcessesTypeOK, Goto
<1> QED  BY <1>1, <1>2 DEF Goto, GotoWith, Moved

LEMMA GotoWithMoves ==
    ASSUME NEW p \in Procs, NEW l \in Labels, NEW v \in Locals, GotoWith(p, l, v), LockMove(p, l),
           l \in Sessionless \/ v.sid \in Ids
    PROVE  Moved(p)
BY DEF Moved

LEMMA NoLocalsType == NoLocals \in Locals
BY DEF NoLocals, Locals, State, PlayerState, Events

LEMMA RestType ==
    ASSUME NEW p \in Procs
    PROVE  Rest(p) \in {"idle", "off"} /\ Rest(p) \in Labels /\ Rest(p) \notin Locked /\ Rest(p) \in Sessionless
BY DEF Rest, Labels, Locked, Sessionless

LEMMA DoneMoves ==
    ASSUME NEW p \in Procs, Done(p), LockMove(p, Rest(p))
    PROVE  Moved(p)
BY NoLocalsType, RestType, GotoWithMoves DEF Done

LEMMA NotifyMoves ==
    ASSUME TypeOK, NEW p \in Procs, NEW id \in Ids, NEW ev \in Events,
           NEW then \in {"idle", "off", "watch", "startMonitor"},
           Notify(p, id, ev, then), LockMove(p, "notify")
    PROVE  Moved(p)
<1>1. Kept(p) \in Locals
  BY NoLocalsType DEF TypeOK, ProcessesTypeOK, Kept
<1>2. /\ [Kept(p) EXCEPT !.sid = id, !.ev = ev, !.then = then] \in Locals
      /\ [Kept(p) EXCEPT !.sid = id, !.ev = ev, !.then = then].sid = id
  BY <1>1 DEF Locals
<1>3. "notify" \in Labels
  BY DEF Labels
<1> QED  BY <1>2, <1>3, GotoWithMoves DEF Notify

LEMMA FollowMoves ==
    ASSUME TypeOK, NEW p \in Procs, Follow(p), pc[p] \notin Locked \cup Sessionless, UNCHANGED maCommandMu
    PROVE  Moved(p)
<1>1. loc[p].then \in {"idle", "off", "watch", "startMonitor"}
  BY DEF TypeOK, ProcessesTypeOK, Locals
<1>2. CASE Done(p)
  BY <1>2, DoneMoves, RestType DEF LockMove
<1>3. CASE loc[p].then \notin {"idle", "off"} /\ Goto(p, loc[p].then)
  <2>1. loc[p].then \in Labels /\ loc[p].then \notin Locked
    BY <1>1, <1>3 DEF Labels, PlayLabels, Locked
  <2> QED  BY <1>3, <2>1, GotoMoves DEF LockMove
<1> QED  BY <1>2, <1>3 DEF Follow

LEMMA BeginMoves ==
    ASSUME TypeOK, NEW s \in Slots, NEW kind, NEW states \in SUBSET State,
           NEW l \in Labels, l \notin Locked, BeginOnCurrent(s, kind, states, l)
    PROVE  Moved(s)
<1>1. CurrentSession \in Ids /\ sessions[CurrentSession] \in State
  BY DEF BeginOnCurrent, CurrentSession, Live
<1>2. /\ [NoLocals EXCEPT !.sid = CurrentSession, !.snap = sessions[CurrentSession]] \in Locals
      /\ [NoLocals EXCEPT !.sid = CurrentSession, !.snap = sessions[CurrentSession]].sid \in Ids
  BY <1>1, NoLocalsType DEF Locals, NoLocals
<1>3. LockMove(s, l)
  BY DEF BeginOnCurrent, Begin, At, LockMove, Locked, handlerVars
<1> QED  BY <1>2, <1>3, GotoWithMoves DEF BeginOnCurrent, Procs

(* Every action of a request moves its slot on. *)

LEMMA ArriveMoves ==
    ASSUME TypeOK, NEW s \in Slots, Arrive(s)
    PROVE  Moved(s)
<1> USE DEF Labels, PlayLabels, Locked, Sessionless, State, Active
<1>1. CASE SetURIBegin(s)
  BY <1>1, GotoMoves DEF SetURIBegin, Begin, At, LockMove, handlerVars, Procs
<1>2. CASE PlayBegin(s)
  <2>1. CASE BeginOnCurrent(s, "Play", {"starting"}, "joinRead")
    BY <2>1, BeginMoves
  <2>2. CASE BeginOnCurrent(s, "Play", State \ Active, "playOp")
    BY <2>2, BeginMoves
  <2> QED  BY <1>2, <2>1, <2>2 DEF PlayBegin
<1>3. CASE StopBegin(s)
  BY <1>3, BeginMoves DEF StopBegin
<1>4. CASE PauseBegin(s)
  BY <1>4, BeginMoves DEF PauseBegin
<1>5. CASE SeekBegin(s)
  BY <1>5, BeginMoves DEF SeekBegin
<1>6. CASE SyncBegin(s)
  BY <1>6, BeginMoves DEF SyncBegin
<1> QED  BY <1>1, <1>2, <1>3, <1>4, <1>5, <1>6 DEF Arrive

LEMMA SetURIMoves ==
    ASSUME TypeOK, NEW s \in Slots, SetURIStep(s)
    PROVE  Moved(s)
<1>1. CASE SetURILock(s)
  BY <1>1, GotoMoves DEF SetURILock, At, LockMove, Locked, Sessionless, Labels, Procs
<1>2. CASE SetURICreate(s)
  <2>1. PICK id \in Ids : Notify(s, id, "STOPPED", "idle")
    BY <1>2 DEF SetURICreate
  <2>2. LockMove(s, "notify")
    BY <1>2 DEF SetURICreate, At, LockMove, Locked
  <2> QED  BY <2>1, <2>2, NotifyMoves DEF Events, Procs
<1> QED  BY <1>1, <1>2 DEF SetURIStep

LEMMA PlayMoves ==
    ASSUME TypeOK, NEW s \in Slots, PlayStep(s), ~StartPlaybackMonitor(s)
    PROVE  Moved(s)
<1>s. s \in Procs
  BY DEF Procs
<1>t. loc[s] \in Locals /\ (pc[s] \notin Sessionless => sid(s) \in Ids /\ loc[s].sid \in Ids)
  BY <1>s DEF TypeOK, ProcessesTypeOK, Locals, sid
<1> USE DEF At, Labels, PlayLabels, Locked, Sessionless
<1>1. CASE JoinRead(s)
  <2>1. /\ [loc[s] EXCEPT !.role = "joiner", !.op = controlSeq] \in Locals
        /\ [loc[s] EXCEPT !.role = "joiner", !.op = controlSeq].sid = loc[s].sid
    BY <1>t DEF TypeOK, HandlerTypeOK, Locals
  <2> QED  BY <1>1, <1>s, <1>t, <2>1, GotoWithMoves DEF JoinRead, LockMove, handlerVars
<1>2. CASE PlayOp(s)
  <2>s. controlSeq + 1 \in Nat
    BY DEF TypeOK, HandlerTypeOK
  <2>1. /\ [loc[s] EXCEPT !.op = controlSeq + 1] \in Locals
        /\ [loc[s] EXCEPT !.op = controlSeq + 1].sid = loc[s].sid
    BY <1>t, <2>s DEF Locals
  <2> QED  BY <1>2, <1>s, <1>t, <2>1, GotoWithMoves DEF PlayOp, LockMove
<1>27. CASE CurrentPositionOp(s)
  <2>1. /\ [loc[s] EXCEPT !.posOp = positionSeq] \in Locals
        /\ [loc[s] EXCEPT !.posOp = positionSeq].sid = loc[s].sid
    BY <1>t DEF TypeOK, HandlerTypeOK, Locals
  <2>2. \E l \in {"waitPlaying", "playGuard", "playSession"} :
           GotoWith(s, l, [loc[s] EXCEPT !.posOp = positionSeq])
    BY <1>27 DEF CurrentPositionOp
  <2>3. pc[s] = "positionOp" /\ UNCHANGED maCommandMu
    BY <1>27 DEF CurrentPositionOp, handlerVars
  <2> QED  BY <1>s, <1>t, <2>1, <2>2, <2>3, GotoWithMoves DEF LockMove
<1>3. CASE PlayGuard(s)
  <2>1. \A b \in BOOLEAN : /\ [loc[s] EXCEPT !.seekBack = b] \in Locals
                           /\ [loc[s] EXCEPT !.seekBack = b].sid = loc[s].sid
    BY <1>t DEF Locals
  <2> QED  BY <1>3, <1>s, <1>t, <2>1, GotoWithMoves DEF PlayGuard, LockMove
<1>4. CASE PlaySession(s)
  BY <1>4, <1>s, GotoMoves DEF PlaySession, LockMove, handlerVars
<1>5. CASE PlayCall(s)
  BY <1>5, <1>s, GotoMoves DEF PlayCall, CallThen, Branch, LockMove, handlerVars
<1>6. CASE CheckOp(s)
  BY <1>6, <1>s, GotoMoves DEF CheckOp, AfterOp, Branch, LockMove, handlerVars
<1>7. CASE CheckSession(s)
  BY <1>7, <1>s, GotoMoves DEF CheckSession, AfterSession, LockMove, handlerVars
<1>8. CASE ErrActive(s)
  BY <1>8, <1>s, GotoMoves DEF ErrActive, Branch, LockMove, handlerVars
<1>9. CASE ResumeSeek(s)
  BY <1>9, <1>s, GotoMoves DEF ResumeSeek, CallThen, Branch, LockMove, handlerVars
<1>10. CASE PauseBack(s)
  BY <1>10, <1>s, GotoMoves DEF PauseBack, CallThen, Branch, LockMove, handlerVars
<1>11. CASE Fail(s)
  BY <1>11, <1>s, <1>t, NotifyMoves, DoneMoves, RestType DEF Fail, LockMove, handlerVars, Events
<1>12. CASE WaitPlaying(s)
  BY <1>12, <1>s, GotoMoves, DoneMoves, RestType DEF WaitPlaying, BranchOrDone, LockMove, handlerVars
<1>13. CASE PollPlaying(s)
  BY <1>13, <1>s, GotoMoves DEF PollPlaying, Branch, LockMove, handlerVars
<1>14. CASE GiveUpPlaying(s)
  BY <1>14, <1>s, GotoMoves DEF GiveUpPlaying, Branch, LockMove, handlerVars
<1>15. CASE Rebase(s)
  BY <1>15, <1>s, GotoMoves DEF Rebase, LockMove, handlerVars
<1>16. CASE RebaseLock(s)
  BY <1>16, <1>s, GotoMoves DEF RebaseLock, LockMove
<1>17. CASE RebaseCheck(s)
  BY <1>17, <1>s, GotoMoves DEF RebaseCheck, LockMove
<1>18. CASE RebaseSeek(s)
  BY <1>18, <1>s, GotoMoves DEF RebaseSeek, CallThen, Branch, LockMove
<1>19. CASE Accept(s)
  BY <1>19, <1>s, GotoMoves, DoneMoves, RestType DEF Accept, LockMove, handlerVars
<1>20. CASE NotifyPlaying(s)
  BY <1>20, <1>s, <1>t, NotifyMoves, DoneMoves, RestType DEF NotifyPlaying, LockMove, handlerVars, Events
<1>21. CASE Interrupted(s)
  <2>1. Late(s) \in Locals /\ Late(s).sid \in Ids
    BY <1>21, <1>t, NoLocalsType DEF Interrupted, ReconcileLatePlayCompletion, Late, Locals
  <2> QED  BY <1>21, <1>s, <2>1, GotoWithMoves, DoneMoves, RestType DEF Interrupted, LockMove, handlerVars
<1>22. CASE ReconcileLatePlayCompletion(s)
  <2>1. Late(s) \in Locals /\ Late(s).sid \in Ids
    BY <1>22, <1>t, NoLocalsType DEF Interrupted, ReconcileLatePlayCompletion, Late, Locals
  <2> QED  BY <1>22, <1>s, <2>1, GotoWithMoves, DoneMoves, RestType
              DEF ReconcileLatePlayCompletion, LockMove, handlerVars
<1>23. CASE RepauseGuard(s)
  BY <1>23, <1>s, GotoMoves DEF RepauseGuard, LockMove
<1>24. CASE RepauseCall(s)
  BY <1>24, <1>s, GotoMoves DEF RepauseCall, CallThen, Branch, LockMove, handlerVars
<1>25. CASE ClearGuard(s)
  BY <1>25, <1>s, DoneMoves, RestType DEF ClearGuard, LockMove
<1>26. CASE Restop(s)
  BY <1>26, <1>s, DoneMoves, RestType DEF Restop, LockMove, handlerVars
<1> QED
  BY <1>1, <1>2, <1>3, <1>4, <1>5, <1>6, <1>7, <1>8, <1>9, <1>10, <1>11, <1>12, <1>13, <1>14,
     <1>15, <1>16, <1>17, <1>18, <1>19, <1>20, <1>21, <1>22, <1>23, <1>24, <1>25, <1>26, <1>27
     DEF PlayStep

LEMMA StopMoves ==
    ASSUME TypeOK, NEW s \in Slots, StopStep(s)
    PROVE  Moved(s)
<1>s. s \in Procs
  BY DEF Procs
<1>t. pc[s] \notin Sessionless => sid(s) \in Ids
  BY <1>s DEF TypeOK, ProcessesTypeOK, Locals, sid
<1> USE DEF At, Labels, Locked, Sessionless
<1>1. CASE StopLock(s)
  BY <1>1, <1>s, GotoMoves DEF StopLock, LockMove
<1>2. CASE StopSession(s)
  BY <1>2, <1>s, GotoMoves DEF StopSession, LockMove
<1>3. CASE StopCall(s)
  BY <1>3, <1>s, <1>t, GotoMoves, NotifyMoves DEF StopCall, LockMove, Events
<1>4. CASE SetError(s)
  BY <1>4, <1>s, <1>t, NotifyMoves, DoneMoves, RestType DEF SetError, LockMove, handlerVars, Events
<1> QED  BY <1>1, <1>2, <1>3, <1>4 DEF StopStep

LEMMA PauseMoves ==
    ASSUME TypeOK, NEW s \in Slots, PauseStep(s)
    PROVE  Moved(s)
<1>s. s \in Procs
  BY DEF Procs
<1>t. loc[s] \in Locals /\ (pc[s] \notin Sessionless => sid(s) \in Ids /\ loc[s].sid \in Ids)
  BY <1>s DEF TypeOK, ProcessesTypeOK, Locals, sid
<1> USE DEF At, Labels, PlayLabels, Locked, Sessionless
<1>1. CASE PauseLock(s)
  BY <1>1, <1>s, GotoMoves DEF PauseLock, LockMove
<1>2. CASE PauseRecheck(s)
  BY <1>2, <1>s, GotoMoves, DoneMoves, RestType DEF PauseRecheck, LockMove
<1>3. CASE PauseGuard(s)
  BY <1>3, <1>s, GotoMoves DEF PauseGuard, LockMove
<1>4. CASE PauseSession(s)
  BY <1>4, <1>s, GotoMoves DEF PauseSession, LockMove, handlerVars
<1>5. CASE PauseCall(s)
  <2>1. /\ [loc[s] EXCEPT !.role = "pauser"] \in Locals
        /\ [loc[s] EXCEPT !.role = "pauser"].sid = loc[s].sid
    BY <1>t DEF Locals
  <2>2. CASE GotoWith(s, "waitNotPlaying", [loc[s] EXCEPT !.role = "pauser"])
    BY <1>5, <1>s, <1>t, <2>1, <2>2, GotoWithMoves DEF PauseCall, LockMove
  <2>3. CASE Goto(s, "pauseErr")
    BY <1>5, <1>s, <2>3, GotoMoves DEF PauseCall, LockMove
  <2> QED  BY <1>5, <2>2, <2>3 DEF PauseCall
<1>6. CASE PauseErr(s)
  BY <1>6, <1>s, GotoMoves DEF PauseErr, LockMove
<1>13. CASE PauseErrStop(s)
  BY <1>13, <1>s, GotoMoves DEF PauseErrStop, LockMove, handlerVars
<1>7. CASE WaitNotPlaying(s)
  BY <1>7, <1>s, GotoMoves, DoneMoves, RestType DEF WaitNotPlaying, BranchOrDone, LockMove, handlerVars
<1>8. CASE PollNotPlaying(s)
  <2>1. /\ [loc[s] EXCEPT !.last = player.state] \in Locals
        /\ [loc[s] EXCEPT !.last = player.state].sid = loc[s].sid
    BY <1>t DEF TypeOK, PlayerTypeOK, Locals
  <2>2. CASE GotoWith(s, "waitNotPlaying", [loc[s] EXCEPT !.last = player.state])
    BY <1>8, <1>s, <1>t, <2>1, <2>2, GotoWithMoves DEF PollNotPlaying, LockMove, handlerVars
  <2>3. CASE Goto(s, IF loc[s].role = "pauser" THEN "pauseConfirmed" ELSE "clearGuard")
    BY <1>8, <1>s, <2>3, GotoMoves DEF PollNotPlaying, LockMove, handlerVars
  <2> QED  BY <1>8, <2>2, <2>3 DEF PollNotPlaying, Branch
<1>9. CASE GiveUpNotPlaying(s)
  BY <1>9, <1>s, GotoMoves DEF GiveUpNotPlaying, Branch, LockMove, handlerVars
<1>10. CASE PauseConfirmed(s)
  BY <1>10, <1>s, GotoMoves DEF PauseConfirmed, LockMove
<1>11. CASE PauseTimeout(s)
  BY <1>11, <1>s, GotoMoves, DoneMoves, RestType DEF PauseTimeout, BranchOrDone, LockMove
<1>12. CASE PauseNotify(s)
  BY <1>12, <1>s, <1>t, NotifyMoves, DoneMoves, RestType DEF PauseNotify, LockMove, handlerVars, Events
<1> QED
  BY <1>1, <1>2, <1>3, <1>4, <1>5, <1>6, <1>7, <1>8, <1>9, <1>10, <1>11, <1>12, <1>13
     DEF PauseStep

LEMMA SeekMoves ==
    ASSUME TypeOK, NEW s \in Slots, SeekStep(s)
    PROVE  Moved(s)
<1>s. s \in Procs
  BY DEF Procs
<1> USE DEF At, Labels, Locked, Sessionless
<1>1. CASE SeekLock(s)
  BY <1>1, <1>s, GotoMoves DEF SeekLock, LockMove
<1>2. CASE SeekRecheck(s)
  BY <1>2, <1>s, GotoMoves, DoneMoves, RestType DEF SeekRecheck, LockMove
<1>3. CASE SeekCall(s)
  BY <1>3, <1>s, GotoMoves, DoneMoves, RestType DEF SeekCall, LockMove
<1> QED  BY <1>1, <1>2, <1>3 DEF SeekStep

LEMMA SyncMoves ==
    ASSUME TypeOK, NEW s \in Slots, SyncPoll(s)
    PROVE  Moved(s)
<1>s. s \in Procs
  BY DEF Procs
<1>1. player.state \in {"playing", "paused", "idle", "unknown"}
  BY DEF TypeOK, PlayerTypeOK, PlayerState
<1>2. \/ \E l \in {"checkGuard", "markPlaying", "markPaused", "markStopped"} : Goto(s, l)
      \/ Done(s)
  BY <1>1 DEF SyncPoll, Branch, BranchOrDone
<1> QED
  BY <1>s, <1>2, GotoMoves, DoneMoves, RestType
     DEF SyncPoll, At, Labels, Locked, Sessionless, LockMove, handlerVars

(* The steps that requests and monitors share. *)
LEMMA SharedMoves ==
    ASSUME TypeOK, NEW p \in Procs, SharedStep(p)
    PROVE  Moved(p)
<1>t. /\ pc[p] \notin Sessionless => sid(p) \in Ids
      /\ loc[p].then \in {"idle", "off", "watch", "startMonitor"}
  BY DEF TypeOK, ProcessesTypeOK, Locals, sid
<1> USE DEF At, Labels, Locked, Sessionless
<1>1. CASE CheckGuard(p)
  BY <1>1, GotoMoves, FollowMoves DEF CheckGuard, LockMove, handlerVars
<1>2. CASE MarkPlaying(p)
  BY <1>2, <1>t, NotifyMoves, FollowMoves DEF MarkPlaying, LockMove, handlerVars, Events
<1>3. CASE MarkPaused(p)
  BY <1>3, <1>t, NotifyMoves, FollowMoves DEF MarkPaused, LockMove, handlerVars, Events
<1>4. CASE MarkStopped(p)
  BY <1>4, <1>t, NotifyMoves, DoneMoves, RestType DEF MarkStopped, LockMove, handlerVars, Events
<1>5. CASE NotifyCheck(p)
  BY <1>5, GotoMoves, FollowMoves DEF NotifyCheck, LockMove, handlerVars
<1>6. CASE NotifySend(p)
  BY <1>6, FollowMoves DEF NotifySend, handlerVars
<1> QED  BY <1>1, <1>2, <1>3, <1>4, <1>5, <1>6 DEF SharedStep

LEMMA RequestMoves ==
    ASSUME TypeOK, NEW s \in Slots, RequestStep(s), ~StartPlaybackMonitor(s)
    PROVE  Moved(s)
BY SetURIMoves, PlayMoves, StopMoves, PauseMoves, SeekMoves, SyncMoves, SharedMoves
   DEF RequestStep, Procs

LEMMA MonitorMoves ==
    ASSUME TypeOK, NEW m \in Monitors, MonitorStep(m)
    PROVE  Moved(m)
<1>s. m \in Procs
  BY DEF Procs
<1>t. loc[m] \in Locals /\ (pc[m] \notin Sessionless => loc[m].sid \in Ids)
  BY <1>s DEF TypeOK, ProcessesTypeOK, sid
<1> USE DEF At, Labels, Locked, Sessionless
<1>1. CASE MonitorExit(m)
  BY <1>1, <1>s, DoneMoves, RestType DEF MonitorExit, LockMove, handlerVars
<1>2. CASE MonitorTick(m)
  <2>1. CASE IsCurrentIn(sid(m), State \ Ended)
    <3>1. /\ [loc[m] EXCEPT !.snap = sessions[sid(m)]] \in Locals
          /\ [loc[m] EXCEPT !.snap = sessions[sid(m)]].sid = loc[m].sid
      BY <1>t, <2>1 DEF Locals, IsCurrentIn
    <3> QED  BY <1>2, <1>s, <1>t, <2>1, <3>1, GotoWithMoves DEF MonitorTick, LockMove, handlerVars
  <2>2. CASE ~IsCurrentIn(sid(m), State \ Ended)
    BY <1>2, <1>s, <2>2, DoneMoves, RestType DEF MonitorTick, LockMove, handlerVars
  <2> QED  BY <2>1, <2>2
<1>3. CASE MonitorPoll(m)
  <2>1. /\ [loc[m] EXCEPT !.idle = FALSE, !.emitted = TRUE] \in Locals
        /\ [loc[m] EXCEPT !.idle = FALSE, !.emitted = TRUE].sid \in Ids
        /\ \A b \in BOOLEAN : /\ [loc[m] EXCEPT !.idle = b] \in Locals
                              /\ [loc[m] EXCEPT !.idle = b].sid \in Ids
    BY <1>t, <1>3 DEF MonitorPoll, Locals
  <2>2. player.state \in {"playing", "paused", "idle", "unknown"}
    BY DEF TypeOK, PlayerTypeOK, PlayerState
  <2>3. \E l \in {"checkGuard", "watch", "markPaused", "markStopped"} :
           Goto(m, l) \/ \E v \in Locals : GotoWith(m, l, v) /\ v.sid \in Ids
    BY <1>3, <2>1, <2>2 DEF MonitorPoll, Branch, Debounce
  <2>4. pc[m] \notin Locked /\ pc[m] \notin Sessionless /\ UNCHANGED maCommandMu
    BY <1>3 DEF MonitorPoll, handlerVars
  <2> QED  BY <1>s, <2>3, <2>4, GotoMoves, GotoWithMoves DEF LockMove
<1>4. CASE SharedStep(m)
  BY <1>4, <1>s, SharedMoves
<1> QED  BY <1>1, <1>2, <1>3, <1>4 DEF MonitorStep

-----------------------------------------------------------------------------
(* What a step does to the session table.  Only SetURICreate replaces the   *)
(* current session; every other step is at most one method of the manager.  *)

Managed == [SessionsNext]_sessionsVars /\ UNCHANGED CurrentSession

LEMMA UnchangedManaged ==
    ASSUME UNCHANGED sessionsVars
    PROVE  Managed
BY DEF Managed, sessionsVars, CurrentSession, Live

LEMMA MethodManaged ==
    ASSUME SessionsTypeOK, NEW id \in Ids,
           Play(id) \/ Stop(id) \/ Pause(id) \/ Callback(id, 0)
    PROVE  Managed
<1>1. SessionsNext
  BY DEF SessionsNext, Command
<1>2. Exists(id) /\ \E st \in State : SetState(id, st)
  <2>1. CASE Play(id) \/ Stop(id) \/ Pause(id)
    BY <2>1 DEF Play, CanPlay, Stop, Pause, Exists, State
  <2>2. CASE Callback(id, 0)
    BY <2>2 DEF Callback, StopIfGeneration, CanStopIfGeneration, SetPlayingAcceptedIfGeneration,
                CanSetPlayingAccepted, MarkPlayingIfGeneration, CanMarkPlaying,
                MarkPausedIfGeneration, CanMarkPaused, SetErrorIfGeneration, CanSetError,
                AcceptPlaybackIfGeneration, StopWithErrorIfGenerationActive,
                IsCurrentGenerationActive, Exists, State, Active
  <2> QED  BY <2>1, <2>2
<1>3. Live' = Live /\ currentSessionID' = currentSessionID
  BY <1>2 DEF SessionsTypeOK, Exists, SetState, Live, State
<1> QED  BY <1>1, <1>3 DEF Managed, CurrentSession

\* The method of the manager that a step of a process calls for its session.
UsesManager(p) ==
    \/ pc[p] = "playSession" /\ Play(sid(p))
    \/ Stop(sid(p)) \/ Pause(sid(p))
    \/ StopIfGeneration(sid(p), 0) \/ SetPlayingAcceptedIfGeneration(sid(p), 0)
    \/ MarkPausedIfGeneration(sid(p), 0) \/ SetErrorIfGeneration(sid(p), 0)
    \/ StopWithErrorIfGenerationActive(sid(p), 0)
    \/ pc[p] = "markPlaying" /\ MarkPlayingIfGeneration(sid(p), 0)

LEMMA StepsUseManager ==
    ASSUME TypeOK, NEW p \in Procs,
           \/ p \in Slots /\ (Arrive(p) \/ RequestStep(p)) /\ ~SetURICreate(p)
           \/ p \in Monitors /\ MonitorStep(p)
    PROVE  UNCHANGED sessionsVars \/ (sid(p) \in Ids /\ UsesManager(p))
<1>t. pc[p] \notin Sessionless => sid(p) \in Ids
  BY DEF TypeOK, ProcessesTypeOK
<1> USE DEF At, Sessionless
<1>1. CASE Arrive(p)
  BY <1>1
     DEF Arrive, SetURIBegin, PlayBegin, StopBegin, PauseBegin, SeekBegin, SyncBegin,
         BeginOnCurrent, Begin
<1>2. CASE SetURILock(p)
  BY <1>2 DEF SetURILock
<1>3. CASE PlayStep(p)
  <2>1. CASE PlaySession(p)
    BY <1>t, <2>1 DEF UsesManager, PlaySession, Play
  <2>2. CASE Fail(p)
    BY <1>t, <2>2 DEF UsesManager, Fail
  <2>3. CASE Accept(p)
    BY <1>t, <2>3 DEF UsesManager, Accept
  <2>4. CASE ~(PlaySession(p) \/ Fail(p) \/ Accept(p))
    BY <1>3, <2>4
       DEF PlayStep, JoinRead, PlayOp, CurrentPositionOp, PlayGuard, PlayCall, CheckOp, CheckSession, ErrActive,
           ResumeSeek, PauseBack, WaitPlaying, PollPlaying, GiveUpPlaying, Rebase, RebaseLock,
           RebaseCheck, RebaseSeek, NotifyPlaying, StartPlaybackMonitor, Interrupted,
           ReconcileLatePlayCompletion, RepauseGuard, RepauseCall, ClearGuard, Restop
  <2> QED  BY <2>1, <2>2, <2>3, <2>4
<1>4. CASE StopStep(p)
  <2>1. CASE StopSession(p)
    BY <1>t, <2>1 DEF UsesManager, StopSession
  <2>2. CASE SetError(p)
    BY <1>t, <2>2 DEF UsesManager, SetError
  <2>3. CASE StopLock(p) \/ StopCall(p)
    BY <2>3 DEF StopLock, StopCall
  <2> QED  BY <1>4, <2>1, <2>2, <2>3 DEF StopStep
<1>5. CASE PauseStep(p)
  <2>1. CASE PauseSession(p)
    BY <1>t, <2>1 DEF UsesManager, PauseSession
  <2>2. CASE PauseErrStop(p)
    BY <1>t, <2>2 DEF UsesManager, PauseErrStop
  <2>3. CASE ~(PauseSession(p) \/ PauseErrStop(p))
    BY <1>5, <2>3
       DEF PauseStep, PauseLock, PauseRecheck, PauseGuard, PauseCall, PauseErr, WaitNotPlaying,
           PollNotPlaying, GiveUpNotPlaying, PauseConfirmed, PauseTimeout, PauseNotify
  <2> QED  BY <2>1, <2>2, <2>3
<1>6. CASE SeekStep(p) \/ SyncPoll(p)
  BY <1>6 DEF SeekStep, SeekLock, SeekRecheck, SeekCall, SyncPoll
<1>7. CASE SharedStep(p)
  <2>1. CASE MarkPlaying(p)
    BY <1>t, <2>1 DEF UsesManager, MarkPlaying
  <2>2. CASE MarkPaused(p)
    BY <1>t, <2>2 DEF UsesManager, MarkPaused
  <2>3. CASE MarkStopped(p)
    BY <1>t, <2>3 DEF UsesManager, MarkStopped
  <2>4. CASE CheckGuard(p) \/ NotifyCheck(p) \/ NotifySend(p)
    BY <2>4 DEF CheckGuard, NotifyCheck, NotifySend
  <2> QED  BY <1>7, <2>1, <2>2, <2>3, <2>4 DEF SharedStep
<1>8. CASE MonitorExit(p) \/ MonitorTick(p) \/ MonitorPoll(p)
  BY <1>8 DEF MonitorExit, MonitorTick, MonitorPoll
<1> QED
  BY <1>1, <1>2, <1>3, <1>4, <1>5, <1>6, <1>7, <1>8 DEF RequestStep, SetURIStep, MonitorStep

LEMMA StepsManaged ==
    ASSUME TypeOK, NEW p \in Procs,
           \/ p \in Slots /\ (Arrive(p) \/ RequestStep(p)) /\ ~SetURICreate(p)
           \/ p \in Monitors /\ MonitorStep(p)
    PROVE  Managed
<1>1. SessionsTypeOK
  BY DEF TypeOK
<1>2. CASE sid(p) \in Ids /\ UsesManager(p)
  BY <1>1, <1>2, MethodManaged DEF UsesManager, Callback
<1> QED  BY <1>2, StepsUseManager, UnchangedManaged

(* The handlers use the session manager only as its own specification        *)
(* allows: what is proved of every client of the manager holds in the        *)
(* running program.                                                          *)
LEMMA StepManaged ==
    ASSUME TypeOK, [Next]_vars
    PROVE  \/ \E s \in Slots : SetURICreate(s)
           \/ Managed
<1>1. CASE \E s \in Slots : Arrive(s) \/ RequestStep(s)
  BY <1>1, StepsManaged DEF Procs
<1>2. CASE \E m \in Monitors : MonitorStep(m)
  BY <1>2, StepsManaged DEF Procs
<1>3. CASE PlayerMoves \/ UNCHANGED vars
  BY <1>3, UnchangedManaged DEF PlayerMoves, vars
<1> QED  BY <1>1, <1>2, <1>3 DEF Next, Rested

LEMMA StepOfSessions ==
    ASSUME TypeOK, [Next]_vars
    PROVE  [SessionsNext]_sessionsVars
<1>1. ASSUME NEW s \in Slots, SetURICreate(s)
      PROVE  SessionsNext
  BY <1>1 DEF SetURICreate, SessionsNext, Command
<1> QED  BY <1>1, StepManaged DEF Managed

-----------------------------------------------------------------------------
(* What a step does to the handler's own state, to the player and to the    *)
(* monitors' contexts.                                                       *)

Commands == {"play_media", "resume", "pause", "stop", "seek"}

LEMMA CallType ==
    ASSUME PlayerTypeOK, NEW p, sid(p) \in Ids, NEW cmd \in Commands, NEW ok \in BOOLEAN,
           Call(p, cmd, ok)
    PROVE  PlayerTypeOK'
<1>1. SourceOf[sid(p)] \in Sources
  BY TransportAssumption
<1>2. Effect(cmd, SourceOf[sid(p)]) \subseteq [state : PlayerState, source : Sources \cup {NoSource}]
  BY <1>1 DEF Effect, PlayerTypeOK, PlayerState, Commands
<1>3. player' \in Effect(cmd, SourceOf[sid(p)]) \cup {player} /\ UNCHANGED external
  BY DEF Call, CommandOK, CommandFails
<1> QED  BY <1>2, <1>3 DEF PlayerTypeOK

LEMMA PlayerStepType ==
    ASSUME PlayerTypeOK, PlayerStep
    PROVE  PlayerTypeOK'
<1>1. CASE PlayerStarts \/ PlayerEnds
  BY <1>1 DEF PlayerStarts, PlayerEnds, PlayerTypeOK, PlayerState
<1>2. CASE UserToggles \/ UserPlays
  <2>1. external' \in 0..MaxExternal
    BY <1>2, PlayerAssumption DEF UserToggles, UserPlays, PlayerTypeOK
  <2>2. player' \in [state : PlayerState, source : Sources \cup {NoSource}]
    BY <1>2, PlayerAssumption DEF UserToggles, UserPlays, PlayerTypeOK, PlayerState
  <2> QED  BY <2>1, <2>2 DEF PlayerTypeOK
<1> QED  BY <1>1, <1>2 DEF PlayerStep

\* What the step of one process may do to each shared variable of the handler.
HandlerStep(p) ==
    /\ controlSeq' \in {controlSeq, controlSeq + 1}
    /\ \/ UNCHANGED positionSeq
       \/ pc[p] = "seekRecheck" /\ positionSeq' = positionSeq + 1
    /\ pauseSessionID' \in {pauseSessionID, NoSession, sid(p)}
    /\ lastChange' \in {lastChange, [sid |-> sid(p), ev |-> loc[p].ev]}
    /\ \/ UNCHANGED requests
       \/ requests > 0 /\ requests' = requests - 1
    /\ UNCHANGED monitorVars \/ StopPlaybackMonitor \/ MonitorExit(p)
    /\ \/ UNCHANGED playerVars
       \/ \E cmd \in Commands, ok \in BOOLEAN : pc[p] \notin Sessionless /\ Call(p, cmd, ok)

LEMMA HandlerSteps ==
    ASSUME TypeOK, NEW p \in Procs,
           \/ p \in Slots /\ (Arrive(p) \/ RequestStep(p)) /\ ~StartPlaybackMonitor(p)
           \/ p \in Monitors /\ MonitorStep(p)
    PROVE  HandlerStep(p)
<1> USE DEF At, Sessionless, Commands, handlerVars
<1>1. CASE Arrive(p)
  BY <1>1
     DEF Arrive, SetURIBegin, PlayBegin, StopBegin, PauseBegin, SeekBegin, SyncBegin,
         BeginOnCurrent, Begin, HandlerStep
<1>2. CASE SetURIStep(p)
  BY <1>2 DEF SetURIStep, SetURILock, SetURICreate, NextControlOp, ClearPause, HandlerStep
<1>3. CASE PlayStep(p) /\ ~StartPlaybackMonitor(p)
  <2>1. CASE PlayOp(p) \/ PlayGuard(p)
    BY <2>1 DEF PlayOp, PlayGuard, NextControlOp, ClearPause, HandlerStep
  <2>2. CASE PlayCall(p)
    BY <2>2 DEF PlayCall, CallThen, HandlerStep
  <2>3. CASE ResumeSeek(p) \/ PauseBack(p) \/ RebaseSeek(p)
    BY <2>3 DEF ResumeSeek, PauseBack, RebaseSeek, CallThen, HandlerStep
  <2>4. CASE RepauseGuard(p) \/ RepauseCall(p) \/ ClearGuard(p) \/ Restop(p)
    BY <2>4 DEF RepauseGuard, RepauseCall, ClearGuard, Restop, CallThen, IgnorePlaying,
                ClearPause, HandlerStep
  <2>5. CASE \/ JoinRead(p) \/ CurrentPositionOp(p) \/ PlaySession(p) \/ CheckOp(p)
             \/ CheckSession(p) \/ ErrActive(p) \/ Fail(p)
             \/ WaitPlaying(p) \/ PollPlaying(p) \/ GiveUpPlaying(p) \/ Rebase(p)
             \/ RebaseLock(p) \/ RebaseCheck(p) \/ Accept(p) \/ NotifyPlaying(p)
             \/ Interrupted(p) \/ ReconcileLatePlayCompletion(p)
    BY <2>5
       DEF JoinRead, CurrentPositionOp, PlaySession, CheckOp, CheckSession, ErrActive, Fail,
           WaitPlaying, PollPlaying,
           GiveUpPlaying, Rebase, RebaseLock, RebaseCheck, Accept, NotifyPlaying, Interrupted,
           ReconcileLatePlayCompletion, HandlerStep
  <2> QED
    BY <1>3, <2>1, <2>2, <2>3, <2>4, <2>5 DEF PlayStep
<1>4. CASE StopStep(p)
  BY <1>4 DEF StopStep, StopLock, StopSession, StopCall, SetError, NextControlOp, ClearPause,
              HandlerStep
<1>5. CASE PauseStep(p)
  <2>1. CASE PauseLock(p) \/ PauseRecheck(p) \/ PauseGuard(p) \/ PauseSession(p)
    BY <2>1 DEF PauseLock, PauseRecheck, PauseGuard, PauseSession, NextControlOp,
                IgnorePlaying, HandlerStep
  <2>2. CASE PauseCall(p)
    BY <2>2 DEF PauseCall, HandlerStep
  <2>3. CASE \/ PauseErr(p) \/ PauseErrStop(p) \/ WaitNotPlaying(p) \/ PollNotPlaying(p)
             \/ GiveUpNotPlaying(p)
    BY <2>3 DEF PauseErr, PauseErrStop, WaitNotPlaying, PollNotPlaying, GiveUpNotPlaying, ClearPause,
                HandlerStep
  <2>4. CASE PauseConfirmed(p) \/ PauseTimeout(p) \/ PauseNotify(p)
    BY <2>4 DEF PauseConfirmed, PauseTimeout, PauseNotify, ClearPause, HandlerStep
  <2> QED  BY <1>5, <2>1, <2>2, <2>3, <2>4 DEF PauseStep
<1>6. CASE SeekStep(p) \/ SyncPoll(p)
  BY <1>6 DEF SeekStep, SeekLock, SeekRecheck, SeekCall, SyncPoll, HandlerStep
<1>7. CASE SharedStep(p)
  BY <1>7 DEF SharedStep, CheckGuard, MarkPlaying, MarkPaused, MarkStopped, NotifyCheck,
              NotifySend, HandlerStep
<1>8. CASE MonitorExit(p) \/ MonitorTick(p) \/ MonitorPoll(p)
  BY <1>8 DEF MonitorExit, MonitorTick, MonitorPoll, HandlerStep
<1> QED
  BY <1>1, <1>2, <1>3, <1>4, <1>5, <1>6, <1>7, <1>8 DEF RequestStep, MonitorStep

(* Every step is one of these: a process moves on, a Play starts a monitor, *)
(* the player moves by itself, or nothing happens.                           *)
LEMMA StepCases ==
    ASSUME TypeOK, [Next]_vars
    PROVE  \/ \E s \in Slots : (Arrive(s) \/ RequestStep(s)) /\ Moved(s) /\ HandlerStep(s)
           \/ \E m \in Monitors : MonitorStep(m) /\ Moved(m) /\ HandlerStep(m) /\ UNCHANGED maCommandMu
           \/ \E s \in Slots : StartPlaybackMonitor(s)
           \/ PlayerMoves
           \/ UNCHANGED vars
<1>1. ASSUME NEW s \in Slots, Arrive(s) \/ RequestStep(s), ~StartPlaybackMonitor(s)
      PROVE  Moved(s) /\ HandlerStep(s)
  BY <1>1, ArriveMoves, RequestMoves, HandlerSteps DEF Procs
<1>2. ASSUME NEW m \in Monitors, MonitorStep(m)
      PROVE  Moved(m) /\ HandlerStep(m) /\ UNCHANGED maCommandMu
  <2>1. UNCHANGED maCommandMu
    BY <1>2 DEF MonitorStep, MonitorExit, MonitorTick, MonitorPoll, SharedStep, CheckGuard,
                MarkPlaying, MarkPaused, MarkStopped, NotifyCheck, NotifySend, handlerVars
  <2> QED  BY <1>2, <2>1, MonitorMoves, HandlerSteps DEF Procs
<1> QED  BY <1>1, <1>2 DEF Next, Rested

-----------------------------------------------------------------------------
(* Type correctness *)

LEMMA MovedType ==
    ASSUME ProcessesTypeOK, NEW p \in Procs, Moved(p)
    PROVE  ProcessesTypeOK'
BY DEF ProcessesTypeOK, Moved, GotoWith, sid

LEMMA HandlerStepType ==
    ASSUME TypeOK, NEW p \in Procs, HandlerStep(p), maCommandMu' \in Slots \cup {Nobody}
    PROVE  PlayerTypeOK' /\ HandlerTypeOK'
<1>1. /\ sid(p) \in Ids \cup {NoSession}
      /\ [sid |-> sid(p), ev |-> loc[p].ev] \in [sid : Ids \cup {NoSession}, ev : Events]
      /\ pc[p] \notin Sessionless => sid(p) \in Ids
  BY DEF TypeOK, ProcessesTypeOK, Locals, sid
<1>2. PlayerTypeOK'
  <2>1. CASE UNCHANGED playerVars
    BY <2>1 DEF TypeOK, PlayerTypeOK, playerVars
  <2>2. CASE \E cmd \in Commands, ok \in BOOLEAN : pc[p] \notin Sessionless /\ Call(p, cmd, ok)
    BY <1>1, <2>2, CallType DEF TypeOK
  <2> QED  BY <2>1, <2>2 DEF HandlerStep
<1>3. controlSeq' \in Nat /\ positionSeq' \in Nat /\ requests' \in 0..MaxRequests
  BY TransportAssumption DEF HandlerStep, TypeOK, HandlerTypeOK
<1>4. playbackMon' \in Monitors \cup {Nobody} /\ cancelled' \subseteq Monitors
  BY DEF HandlerStep, TypeOK, HandlerTypeOK, StopPlaybackMonitor, MonitorExit, monitorVars, Cancelled
<1>5. /\ pauseSessionID' \in Ids \cup {NoSession}
      /\ lastChange' \in [sid : Ids \cup {NoSession}, ev : Events]
  BY <1>1 DEF HandlerStep, TypeOK, HandlerTypeOK
<1> QED  BY <1>2, <1>3, <1>4, <1>5 DEF HandlerTypeOK

LEMMA StartMonitorType ==
    ASSUME TypeOK, NEW s \in Slots, StartPlaybackMonitor(s)
    PROVE  PlayerTypeOK' /\ ProcessesTypeOK' /\ HandlerTypeOK'
<1>1. PICK m \in Monitors :
         /\ playbackMon' = m
         /\ cancelled' = Cancelled(playbackMon) \ {m}
         /\ pc' = [pc EXCEPT ![s] = "idle", ![m] = "watch"]
         /\ loc' = [loc EXCEPT ![s] = NoLocals,
                               ![m] = [NoLocals EXCEPT !.sid = sid(s), !.then = "watch"]]
  BY DEF StartPlaybackMonitor
<1>2. sid(s) \in Ids
  BY DEF StartPlaybackMonitor, At, Sessionless, TypeOK, ProcessesTypeOK, Procs
<1>3. /\ [NoLocals EXCEPT !.sid = sid(s), !.then = "watch"] \in Locals
      /\ [NoLocals EXCEPT !.sid = sid(s), !.then = "watch"].sid \in Ids
  BY <1>2, NoLocalsType DEF Locals, NoLocals
<1>4. s \in Procs /\ m \in Procs /\ s # m
  BY TransportAssumption DEF Procs
<1>5. ProcessesTypeOK'
  BY <1>1, <1>3, <1>4, NoLocalsType DEF TypeOK, ProcessesTypeOK, Labels, Sessionless, sid
<1>6. PlayerTypeOK' /\ HandlerTypeOK'
  BY <1>1 DEF StartPlaybackMonitor, TypeOK, PlayerTypeOK, HandlerTypeOK, playerVars, handlerVars, Cancelled
<1> QED  BY <1>5, <1>6

LEMMA TypeStep ==
    ASSUME TypeOK, [Next]_vars
    PROVE  TypeOK'
<1>1. SessionsTypeOK'
  BY StepOfSessions, SessionsTypeStep DEF TypeOK
<1>2. PlayerTypeOK' /\ ProcessesTypeOK' /\ HandlerTypeOK'
  <2>1. CASE \E s \in Slots : Moved(s) /\ HandlerStep(s)
    <3>1. PICK s \in Slots : Moved(s) /\ HandlerStep(s)
      BY <2>1
    <3>2. maCommandMu' \in Slots \cup {Nobody}
      BY <3>1 DEF Moved, LockMove, TakeLock, Unlock, TypeOK, HandlerTypeOK
    <3> QED  BY <3>1, <3>2, MovedType, HandlerStepType DEF Procs, TypeOK
  <2>2. CASE \E m \in Monitors : Moved(m) /\ HandlerStep(m) /\ UNCHANGED maCommandMu
    <3>1. PICK m \in Monitors : Moved(m) /\ HandlerStep(m) /\ UNCHANGED maCommandMu
      BY <2>2
    <3>2. maCommandMu' \in Slots \cup {Nobody}
      BY <3>1 DEF TypeOK, HandlerTypeOK
    <3> QED  BY <3>1, <3>2, MovedType, HandlerStepType DEF Procs, TypeOK
  <2>3. CASE \E s \in Slots : StartPlaybackMonitor(s)
    BY <2>3, StartMonitorType
  <2>4. CASE PlayerMoves
    <3>1. PlayerTypeOK'
      BY <2>4, PlayerStepType DEF PlayerMoves, TypeOK
    <3>2. ProcessesTypeOK' /\ HandlerTypeOK'
      BY <2>4 DEF PlayerMoves, TypeOK, ProcessesTypeOK, HandlerTypeOK, handlerVars, monitorVars,
                  processVars, sid
    <3> QED  BY <3>1, <3>2
  <2>5. CASE UNCHANGED vars
    BY <2>5 DEF vars, TypeOK, PlayerTypeOK, ProcessesTypeOK, HandlerTypeOK, playerVars,
                handlerVars, monitorVars, processVars, sid
  <2> QED  BY <2>1, <2>2, <2>3, <2>4, <2>5, StepCases
<1> QED  BY <1>1, <1>2 DEF TypeOK

LEMMA InitType == Init => TypeOK
<1>1. SUFFICES ASSUME Init PROVE TypeOK
  OBVIOUS
<1>2. SessionsTypeOK
  BY <1>1 DEF Init, SessionsInit, SessionsTypeOK
<1>3. PlayerTypeOK
  BY <1>1, PlayerAssumption DEF Init, PlayerInit, PlayerTypeOK, PlayerState
<1>4. ProcessesTypeOK
  BY <1>1, NoLocalsType, RestType DEF Init, ProcessesTypeOK
<1>5. HandlerTypeOK
  BY <1>1, TransportAssumption DEF Init, HandlerTypeOK, Events
<1> QED  BY <1>2, <1>3, <1>4, <1>5 DEF TypeOK

(* Every variable keeps its type; in particular every process past its      *)
(* first read is about a session that was created, and only slots hold      *)
(* maCommandMu.                                                              *)
THEOREM TypeCorrect == Spec => []TypeOK
BY InitType, TypeStep, PTL DEF Spec

(* The handlers, the monitors and the callbacks together are a client of    *)
(* the session manager that uses it as SessionsSpec says: what holds for     *)
(* every client holds in the running program.                                *)
THEOREM TransportImplementsSessions == Spec => SessionsSpec
<1>1. Init => SessionsInit
  BY DEF Init
<1> QED  BY <1>1, StepOfSessions, TypeCorrect, PTL DEF Spec, SessionsSpec

(* So the table stays bounded, and no late mark of a monitor, a Pause or a   *)
(* GetTransportInfo revives a session that ended.                            *)
THEOREM SessionsSafeInTransport ==
    Spec => []SessionsBounded /\ CurrentSpared /\ NoSilentRevival
BY TransportImplementsSessions, SessionsBoundedTheorem, CurrentSparedTheorem,
   NoSilentRevivalTheorem, PTL

-----------------------------------------------------------------------------
(* Mutual exclusion *)

LEMMA LockStep ==
    ASSUME TypeOK, LockDiscipline, [Next]_vars
    PROVE  LockDiscipline'
<1>t. pc \in [Procs -> Labels] /\ Slots \subseteq Procs /\ Monitors \subseteq Procs
  BY DEF TypeOK, ProcessesTypeOK, Procs
<1>n. Nobody \notin Slots /\ Slots \cap Monitors = {}
  BY TransportAssumption
<1>1. CASE \E s \in Slots : Moved(s)
  <2>1. PICK s \in Slots : Moved(s)
    BY <1>1
  <2>2. PICK l \in Labels : pc' = [pc EXCEPT ![s] = l] /\ LockMove(s, l)
    BY <2>1 DEF Moved, GotoWith
  <2>3. \A t \in Slots \ {s} : pc'[t] = pc[t]
    BY <1>t, <2>2
  <2>4. pc'[s] = l
    BY <1>t, <2>2
  <2> QED  BY <1>n, <2>2, <2>3, <2>4 DEF LockDiscipline, LockMove, TakeLock, Unlock
<1>2. CASE \E m \in Monitors : Moved(m) /\ UNCHANGED maCommandMu
  BY <1>t, <1>n, <1>2 DEF Moved, GotoWith, LockDiscipline
<1>3. CASE \E s \in Slots : StartPlaybackMonitor(s)
  BY <1>t, <1>n, <1>3 DEF StartPlaybackMonitor, At, LockDiscipline, Locked, handlerVars
<1>4. CASE PlayerMoves \/ UNCHANGED vars
  BY <1>4 DEF PlayerMoves, vars, processVars, handlerVars, LockDiscipline
<1> QED  BY <1>1, <1>2, <1>3, <1>4, StepCases

(* maCommandMu is held exactly in the command sections: every early return   *)
(* and every error path gives it back, and no two requests command the       *)
(* player at a time.                                                          *)
THEOREM LockDisciplineTheorem == Spec => []LockDiscipline
<1>1. Init => LockDiscipline
  BY TransportAssumption, RestType DEF Init, LockDiscipline, Procs
<1> QED  BY <1>1, LockStep, TypeCorrect, PTL DEF Spec

-----------------------------------------------------------------------------
(* Monitors *)

LEMMA OneMonitorStep ==
    ASSUME TypeOK, OneMonitor, [Next]_vars
    PROVE  OneMonitor'
<1>t. /\ pc \in [Procs -> Labels] /\ Slots \subseteq Procs /\ Monitors \subseteq Procs
      /\ playbackMon \in Monitors \cup {Nobody}
  BY DEF TypeOK, ProcessesTypeOK, HandlerTypeOK, Procs
<1>n. Nobody \notin Slots \cup Monitors /\ Slots \cap Monitors = {}
  BY TransportAssumption
<1> USE DEF At
<1>a. ASSUME NEW p \in Procs, \A m \in Monitors : At(m, "off")' <=> At(m, "off"),
             UNCHANGED monitorVars \/ StopPlaybackMonitor
      PROVE  OneMonitor'
  <2>1. CASE UNCHANGED monitorVars
    BY <1>a, <2>1 DEF OneMonitor, monitorVars
  <2>2. CASE StopPlaybackMonitor
    BY <1>a, <1>t, <2>2 DEF OneMonitor, StopPlaybackMonitor, Cancelled
  <2> QED  BY <1>a, <2>1, <2>2
<1>1. CASE \E s \in Slots : (Arrive(s) \/ RequestStep(s)) /\ Moved(s) /\ HandlerStep(s)
  <2>1. PICK s \in Slots : Moved(s) /\ HandlerStep(s)
    BY <1>1
  <2>2. \A m \in Monitors : pc'[m] = pc[m]
    BY <1>t, <1>n, <2>1 DEF Moved, GotoWith
  <2>3. UNCHANGED monitorVars \/ StopPlaybackMonitor \/ MonitorExit(s)
    BY <2>1 DEF HandlerStep
  <2>4. CASE MonitorExit(s)
    BY <1>n, <2>4 DEF MonitorExit, TypeOK, HandlerTypeOK
  <2> QED  BY <1>a, <1>t, <2>1, <2>2, <2>3, <2>4
<1>2. CASE \E m \in Monitors : MonitorStep(m) /\ Moved(m)
  <2>1. PICK m \in Monitors : MonitorStep(m) /\ Moved(m)
    BY <1>2
  <2>2. ~At(m, "off") /\ \A n \in Monitors \ {m} : pc'[n] = pc[n]
    BY <1>t, <2>1 DEF Moved, GotoWith, MonitorStep, MonitorExit, MonitorTick, MonitorPoll,
                      SharedStep, CheckGuard, MarkPlaying, MarkPaused, MarkStopped, NotifyCheck,
                      NotifySend
  <2>3. CASE UNCHANGED monitorVars
    BY <2>2, <2>3 DEF OneMonitor, monitorVars
  <2>4. CASE MonitorExit(m)
    <3>1. pc'[m] = "off"
      BY <1>t, <1>n, <2>4 DEF MonitorExit, Done, GotoWith, Rest
    <3> QED  BY <2>2, <2>4, <3>1 DEF OneMonitor, MonitorExit
  <2> QED
    BY <2>1, <2>3, <2>4 DEF MonitorStep, MonitorTick, MonitorPoll, SharedStep, CheckGuard,
         MarkPlaying, MarkPaused, MarkStopped, NotifyCheck, NotifySend
<1>3. CASE \E s \in Slots : StartPlaybackMonitor(s)
  <2>1. PICK s \in Slots, m \in Monitors :
           /\ At(m, "off")
           /\ playbackMon' = m
           /\ cancelled' = Cancelled(playbackMon) \ {m}
           /\ pc' = [pc EXCEPT ![s] = "idle", ![m] = "watch"]
    BY <1>3 DEF StartPlaybackMonitor
  <2>2. \A n \in Monitors \ {m} : pc'[n] = pc[n]
    BY <1>t, <1>n, <2>1
  <2> QED  BY <2>1, <2>2 DEF OneMonitor, Cancelled
<1>4. CASE PlayerMoves \/ UNCHANGED vars
  BY <1>4 DEF PlayerMoves, vars, processVars, monitorVars, OneMonitor
<1> QED  BY <1>1, <1>2, <1>3, <1>4, StepCases

(* However many Plays are confirmed, all playback monitors but the last are  *)
(* cancelled or gone.                                                         *)
THEOREM OneMonitorTheorem == Spec => []OneMonitor
<1>1. Init => OneMonitor
  BY TransportAssumption DEF Init, OneMonitor, Procs, Rest, At
<1> QED  BY <1>1, OneMonitorStep, TypeCorrect, PTL DEF Spec

-----------------------------------------------------------------------------
(* Commands under maCommandMu *)

\* A request reaches the commanding labels only past a check of its session, and keeps the
\* session from there on; it reaches the rebase seek only with the latest position ticket.
EntersChecked(s) ==
    /\ pc'[s] \in Commanding => /\ loc'[s].sid = sid(s)
                                /\ pc[s] \in Commanding \/ IsCurrent(sid(s))
    /\ pc'[s] = "rebaseSeek" => positionSeq' = loc'[s].posOp

LEMMA RequestsEnterChecked ==
    ASSUME TypeOK, NEW s \in Slots, Arrive(s) \/ RequestStep(s), ~StartPlaybackMonitor(s)
    PROVE  EntersChecked(s)
<1>t. pc \in [Procs -> Labels] /\ s \in Procs
  BY DEF TypeOK, ProcessesTypeOK, Procs
<1>r. Rest(s) \in {"idle", "off"}
  BY <1>t, RestType
<1>f. loc[s].then \in {"idle", "off", "watch", "startMonitor"}
  BY <1>t DEF TypeOK, ProcessesTypeOK, Locals
<1> USE DEF At, Goto, GotoWith, Done, Branch, BranchOrDone, Notify, Follow, Commanding
<1>1. CASE Arrive(s)
  BY <1>t, <1>1
     DEF Arrive, SetURIBegin, PlayBegin, StopBegin, PauseBegin, SeekBegin, SyncBegin,
         BeginOnCurrent, EntersChecked
<1>2. CASE SetURIStep(s)
  BY <1>t, <1>2 DEF SetURIStep, SetURILock, SetURICreate, EntersChecked
<1>3. CASE PlayStep(s)
  <2>1. CASE RebaseCheck(s)
    BY <1>t, <2>1 DEF RebaseCheck, FreshPlayRebaseStillCurrent, IsCurrentIn, sid, EntersChecked
  <2>2. CASE CheckOp(s)
    BY <1>t, <2>2 DEF CheckOp, AfterOp, EntersChecked
  <2>3. CASE CheckSession(s)
    BY <1>t, <2>3 DEF CheckSession, AfterSession, EntersChecked
  <2>4. CASE JoinRead(s) \/ PlayGuard(s) \/ PlaySession(s) \/ PlayCall(s)
    <3>1. pc'[s] \in {"positionOp", "playSession", "playCall", "okOp", "errOp"}
      <4>1. CASE JoinRead(s)
        BY <1>t, <4>1 DEF JoinRead
      <4>2. CASE PlayGuard(s)
        BY <1>t, <4>2 DEF PlayGuard
      <4>3. CASE PlaySession(s) \/ PlayCall(s)
        BY <1>t, <4>3 DEF PlaySession, PlayCall, CallThen
      <4> QED  BY <2>4, <4>1, <4>2, <4>3
    <3> QED  BY <3>1 DEF EntersChecked
  <2>8. CASE PlayOp(s) \/ CurrentPositionOp(s)
    <3>1. pc'[s] \in {"positionOp", "waitPlaying", "playGuard", "playSession"}
      BY <1>t, <2>8 DEF PlayOp, CurrentPositionOp
    <3> QED  BY <3>1 DEF EntersChecked
  <2>5. CASE ErrActive(s) \/ ResumeSeek(s) \/ PauseBack(s) \/ Fail(s) \/ WaitPlaying(s)
    BY <1>t, <1>r, <2>5 DEF ErrActive, ResumeSeek, PauseBack, Fail, WaitPlaying, CallThen, EntersChecked
  <2>6. CASE \/ PollPlaying(s) \/ GiveUpPlaying(s) \/ Rebase(s) \/ RebaseLock(s) \/ RebaseSeek(s)
             \/ Accept(s) \/ NotifyPlaying(s)
    BY <1>t, <1>r, <2>6 DEF PollPlaying, GiveUpPlaying, Rebase, RebaseLock, RebaseSeek, Accept,
                            NotifyPlaying, CallThen, EntersChecked
  <2>7. CASE \/ Interrupted(s) \/ ReconcileLatePlayCompletion(s) \/ RepauseGuard(s)
             \/ RepauseCall(s) \/ ClearGuard(s) \/ Restop(s)
    BY <1>t, <1>r, <2>7 DEF Interrupted, ReconcileLatePlayCompletion, RepauseGuard, RepauseCall,
                            ClearGuard, Restop, CallThen, EntersChecked
  <2> QED  BY <1>3, <2>1, <2>2, <2>3, <2>4, <2>5, <2>6, <2>7, <2>8 DEF PlayStep
<1>4. CASE StopStep(s)
  BY <1>t, <1>r, <1>4 DEF StopStep, StopLock, StopSession, StopCall, SetError, EntersChecked
<1>5. CASE PauseStep(s)
  <2>1. CASE PauseRecheck(s)
    BY <1>t, <1>r, <2>1 DEF PauseRecheck, IsCurrentIn, sid, EntersChecked
  <2>2. CASE PauseLock(s) \/ PauseGuard(s) \/ PauseSession(s) \/ PauseCall(s)
    BY <1>t, <2>2 DEF PauseLock, PauseGuard, PauseSession, PauseCall, sid, EntersChecked
  <2>3. CASE \/ PauseErr(s) \/ PauseErrStop(s) \/ WaitNotPlaying(s) \/ PollNotPlaying(s) \/ GiveUpNotPlaying(s)
             \/ PauseConfirmed(s) \/ PauseTimeout(s) \/ PauseNotify(s)
    BY <1>t, <1>r, <2>3 DEF PauseErr, PauseErrStop, WaitNotPlaying, PollNotPlaying, GiveUpNotPlaying,
                            PauseConfirmed, PauseTimeout, PauseNotify, EntersChecked
  <2> QED  BY <1>5, <2>1, <2>2, <2>3 DEF PauseStep
<1>6. CASE SeekStep(s)
  BY <1>t, <1>r, <1>6 DEF SeekStep, SeekLock, SeekRecheck, SeekCall, IsCurrentIn, sid, EntersChecked
<1>7. CASE SyncPoll(s)
  <2>1. player.state \in {"playing", "paused", "idle", "unknown"}
    BY DEF TypeOK, PlayerTypeOK, PlayerState
  <2> QED  BY <1>t, <1>r, <1>7, <2>1 DEF SyncPoll, EntersChecked
<1>8. CASE SharedStep(s)
  BY <1>t, <1>r, <1>f, <1>8 DEF SharedStep, CheckGuard, MarkPlaying, MarkPaused, MarkStopped,
                                NotifyCheck, NotifySend, EntersChecked
<1> QED  BY <1>1, <1>2, <1>3, <1>4, <1>5, <1>6, <1>7, <1>8 DEF RequestStep

LEMMA CommandStep ==
    ASSUME TypeOK, LockDiscipline, CommandsOnCurrent, ExplicitSeekWins, [Next]_vars
    PROVE  CommandsOnCurrent' /\ ExplicitSeekWins'
<1>t. /\ pc \in [Procs -> Labels] /\ DOMAIN loc = Procs
      /\ Slots \subseteq Procs /\ Monitors \subseteq Procs
  BY DEF TypeOK, ProcessesTypeOK, Procs
<1>n. Nobody \notin Slots /\ Slots \cap Monitors = {}
  BY TransportAssumption
<1>c. Commanding \subseteq Locked /\ "rebaseSeek" \in Commanding
  BY DEF Commanding, Locked
\* Two slots are never past their checks together.
<1>x. \A s, t \in Slots : pc[s] \in Locked /\ pc[t] \in Locked => s = t
  BY <1>n DEF LockDiscipline
\* A slot that this step leaves alone stays about the current session.
<1>k. ASSUME NEW s \in Slots, pc'[s] = pc[s], loc'[s] = loc[s], pc[s] \in Commanding,
             UNCHANGED CurrentSession
      PROVE  (IsCurrent(sid(s)))'
  BY <1>k DEF CommandsOnCurrent, IsCurrent, sid
<1>1. CASE \E t \in Slots : (Arrive(t) \/ RequestStep(t)) /\ ~StartPlaybackMonitor(t)
  <2>1. PICK t \in Slots : (Arrive(t) \/ RequestStep(t)) /\ ~StartPlaybackMonitor(t)
    BY <1>1
  <2>2. Moved(t) /\ HandlerStep(t) /\ EntersChecked(t)
    BY <2>1, ArriveMoves, RequestMoves, HandlerSteps, RequestsEnterChecked DEF Procs
  <2>3. \A s \in Slots \ {t} : pc'[s] = pc[s] /\ loc'[s] = loc[s]
    BY <1>t, <2>2 DEF Moved, GotoWith
  <2>4. SetURICreate(t) \/ UNCHANGED CurrentSession
    BY <1>t, <2>1, StepsManaged DEF Managed
  <2>5. ASSUME NEW s \in Slots, pc'[s] \in Commanding
        PROVE  (IsCurrent(sid(s)))'
    <3>1. CASE s = t
      <4>1. loc'[s].sid = sid(s) /\ IsCurrent(sid(s))
        BY <2>2, <2>5, <3>1 DEF EntersChecked, CommandsOnCurrent
      <4>2. ~SetURICreate(t)
        <5>1. SetURICreate(t) => pc'[t] = "notify"
          BY <1>t DEF SetURICreate, Notify, GotoWith
        <5> QED  BY <2>5, <3>1, <5>1 DEF Commanding
      <4> QED  BY <2>4, <4>1, <4>2 DEF IsCurrent, sid
    <3>2. CASE s # t
      <4>1. pc'[s] = pc[s] /\ loc'[s] = loc[s] /\ pc[s] \in Commanding
        BY <2>3, <2>5, <3>2
      <4>2. ~SetURICreate(t)
        BY <1>c, <1>x, <3>2, <4>1 DEF SetURICreate, At, Locked
      <4> QED  BY <1>k, <2>4, <4>1, <4>2
    <3> QED  BY <3>1, <3>2
  <2>6. ASSUME NEW s \in Slots, pc'[s] = "rebaseSeek"
        PROVE  positionSeq' = loc'[s].posOp
    <3>1. CASE s = t
      BY <2>2, <2>6, <3>1 DEF EntersChecked
    <3>2. CASE s # t
      <4>1. pc[s] = "rebaseSeek" /\ loc'[s] = loc[s]
        BY <2>3, <2>6, <3>2
      <4>2. pc[t] # "seekRecheck"
        BY <1>c, <1>x, <3>2, <4>1 DEF Locked
      <4> QED  BY <2>2, <4>1, <4>2 DEF HandlerStep, ExplicitSeekWins, At
    <3> QED  BY <3>1, <3>2
  <2> QED  BY <2>5, <2>6 DEF CommandsOnCurrent, ExplicitSeekWins, At
<1>2. CASE \E m \in Monitors : MonitorStep(m)
  <2>1. PICK m \in Monitors : MonitorStep(m)
    BY <1>2
  <2>2. Moved(m) /\ UNCHANGED positionSeq
    BY <2>1, MonitorMoves
       DEF MonitorStep, MonitorExit, MonitorTick, MonitorPoll, SharedStep, CheckGuard,
           MarkPlaying, MarkPaused, MarkStopped, NotifyCheck, NotifySend, handlerVars
  <2>3. \A s \in Slots : pc'[s] = pc[s] /\ loc'[s] = loc[s]
    BY <1>t, <1>n, <2>2 DEF Moved, GotoWith
  <2>4. UNCHANGED CurrentSession
    BY <1>t, <2>1, StepsManaged, <1>n DEF Managed
  <2> QED  BY <1>k, <2>2, <2>3, <2>4 DEF CommandsOnCurrent, ExplicitSeekWins, At
<1>3. CASE \E t \in Slots : StartPlaybackMonitor(t)
  <2>1. PICK t \in Slots : StartPlaybackMonitor(t)
    BY <1>3
  <2>2. \A s \in Slots : pc'[s] = "idle" \/ (pc'[s] = pc[s] /\ loc'[s] = loc[s])
    BY <1>t, <1>n, <2>1 DEF StartPlaybackMonitor
  <2>3. UNCHANGED <<CurrentSession, positionSeq>>
    BY <2>1, UnchangedManaged DEF StartPlaybackMonitor, Managed, handlerVars
  <2> QED  BY <1>k, <2>2, <2>3 DEF CommandsOnCurrent, ExplicitSeekWins, At, Commanding
<1>4. CASE PlayerMoves \/ UNCHANGED vars
  <2>1. UNCHANGED <<pc, loc, positionSeq, CurrentSession>>
    BY <1>4, UnchangedManaged DEF PlayerMoves, vars, processVars, handlerVars, Managed
  <2> QED  BY <1>k, <2>1 DEF CommandsOnCurrent, ExplicitSeekWins, At
<1> QED  BY <1>1, <1>2, <1>3, <1>4 DEF Next, Rested

(* The command that Pause, Seek or the rebase of a fresh Play sends is about *)
(* the session that is current then: waiting for the mutex does not let a    *)
(* replaced session reach the player.                                         *)
THEOREM CommandsOnCurrentTheorem == Spec => []CommandsOnCurrent
<1>1. Init => CommandsOnCurrent /\ ExplicitSeekWins
  BY RestType DEF Init, CommandsOnCurrent, ExplicitSeekWins, Commanding, At, Procs
<1> QED  BY <1>1, CommandStep, TypeCorrect, LockDisciplineTheorem, PTL DEF Spec

(* And the rebase does not undo an explicit Seek that came in meanwhile.     *)
THEOREM ExplicitSeekWinsTheorem == Spec => []ExplicitSeekWins
<1>1. Init => CommandsOnCurrent /\ ExplicitSeekWins
  BY RestType DEF Init, CommandsOnCurrent, ExplicitSeekWins, Commanding, At, Procs
<1> QED  BY <1>1, CommandStep, TypeCorrect, LockDisciplineTheorem, PTL DEF Spec

================================================================================
