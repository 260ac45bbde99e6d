------------------------------- MODULE Transport -------------------------------
(***************************************************************************)
(* The AVTransport control service of upnp.Handler (serveAVTransport in    *)
(* internal/upnp/upnp.go): its request handlers, which net/http runs       *)
(* concurrently, and the playback monitors they start, over the session    *)
(* table (Sessions) and the Music Assistant player (Player).               *)
(*                                                                         *)
(* Each request occupies a slot, a monitor goroutine is a process too; pc  *)
(* says which step a process takes next and loc holds its local variables. *)
(* A step makes one access to shared state: a method of the session        *)
(* manager, one of the handler's atomics, guards and locks, or one call of *)
(* the player.  It makes several only where no other process can tell them *)
(* apart: taking or releasing the mutex with the access next to it, a      *)
(* check with the counter it lets advance, Stop's and SetAVTransportURI's  *)
(* bookkeeping of values that no one process reads both.  Between the      *)
(* answer of a call and the use of that answer every other process may     *)
(* run.  A request that is answered without changing anything (a fault     *)
(* 701, a Play while playing) is no step.                                  *)
(*                                                                         *)
(* No request of the running program starts a stream of its own, so every  *)
(* generation is 0 here and calls of the streamer have no effect.          *)
(***************************************************************************)
EXTENDS Sessions, Player

CONSTANTS
    Slots,        \* requests that can be in progress at a time
    Monitors,     \* monitor goroutines that can be alive at a time
    Nobody,       \* no process
    Kinds,        \* the AVTransport actions control points send
    MaxRequests,  \* bound: requests in all
    SourceOf      \* session id -> the CurrentURI it is created with

ASSUME TransportAssumption ==
    /\ Slots \cap Monitors = {}
    /\ Nobody \notin Slots \cup Monitors
    /\ Kinds \subseteq {"SetURI", "Play", "Stop", "Pause", "Seek", "GetInfo"}
    /\ MaxRequests \in Nat
    /\ SourceOf \in [Ids -> Sources]

VARIABLES
    pc,              \* process -> its next step
    loc,             \* process -> its local variables
    controlSeq,      \* Handler.controlSeq
    positionSeq,     \* Handler.positionSeq
    pauseSessionID,  \* stateGuard.pauseSessionID
    maCommandMu,     \* the slot that holds Handler.maCommandMu
    playbackMon,     \* the monitor that Handler.playbackMonCancel cancels
    cancelled,       \* monitors whose context is cancelled
    lastChange,      \* the last AVTransport event queued for the subscribers
    requests         \* requests still to come

handlerVars == <<controlSeq, positionSeq, pauseSessionID, maCommandMu>>
monitorVars == <<playbackMon, cancelled>>
processVars == <<pc, loc>>
vars == <<sessionsVars, playerVars, handlerVars, monitorVars, processVars,
          lastChange, requests>>

Procs == Slots \cup Monitors

\* The labels at which a slot holds maCommandMu.
Locked == {"uriCreate", "stopSession", "stopCall", "pauseRecheck", "pauseGuard",
           "pauseSession", "pauseCall", "seekRecheck", "seekCall",
           "rebaseCheck", "rebaseSeek"}

PlayLabels == {"joinRead", "playOp", "positionOp", "playGuard", "playSession", "playCall", "okOp",
               "okSession", "errOp", "errActive", "resumeSeek", "seekOkOp", "seekOkSession",
               "seekErrOp", "seekErrSession", "pauseBack", "fail", "waitPlaying",
               "pollPlaying", "confirmOp", "timeoutOp", "rebase", "rebaseLock",
               "rebaseCheck", "rebaseSeek", "accept", "notifyPlaying", "startMonitor",
               "interrupted", "reconcile", "repauseGuard", "repauseCall", "clearGuard", "restop"}

Labels == {"idle", "uriLock", "uriCreate", "stopLock", "stopSession", "stopCall", "setError",
           "pauseLock", "pauseRecheck", "pauseGuard", "pauseSession", "pauseCall", "pauseErr", "pauseErrStop",
           "waitNotPlaying", "pollNotPlaying", "pauseConfirmed", "pauseTimeout", "pauseNotify",
           "seekLock", "seekRecheck", "seekCall", "syncPoll", "checkGuard", "markPlaying",
           "markPaused", "markStopped", "notify", "send", "off", "watch", "getState"}
          \cup PlayLabels

Events == {"PLAYING", "PAUSED_PLAYBACK", "STOPPED", "ERROR_OCCURRED"}

(* Local variables: the session and the state of it that the request read   *)
(* at its start; whether Play waits for its own command or joins another's; *)
(* its control and position tickets; whether a resume seeks back; the last  *)
(* player state it read; the event to send and the label after that; and of *)
(* a monitor, what idleDebounce remembers.                                  *)
NoLocals ==
    [sid |-> NoSession, snap |-> "stopped", role |-> "owner", op |-> 0, posOp |-> 0,
     seekBack |-> FALSE, last |-> "unknown", ev |-> "STOPPED", then |-> "idle",
     idle |-> FALSE, emitted |-> FALSE]

sid(p) == loc[p].sid
IsCurrent(id) == CurrentSession = id
IsCurrentIn(id, states) == IsCurrent(id) /\ sessions[id] \in states
IsCurrentControlOp(p) == controlSeq = loc[p].op
FreshPlayRebaseStillCurrent(p) ==
    /\ IsCurrentControlOp(p)
    /\ positionSeq = loc[p].posOp
    /\ IsCurrentIn(sid(p), {"starting"})

-----------------------------------------------------------------------------
(* How a step moves its process on. *)

At(p, label) == pc[p] = label
Goto(p, label) == pc' = [pc EXCEPT ![p] = label] /\ UNCHANGED loc
GotoWith(p, label, locals) ==
    pc' = [pc EXCEPT ![p] = label] /\ loc' = [loc EXCEPT ![p] = locals]
\* Back to the pool of slots, or, for a monitor goroutine, its end.
Rest(p) == IF p \in Slots THEN "idle" ELSE "off"
Done(p) == GotoWith(p, Rest(p), NoLocals)
\* The handler's branch at a check it has just made.
Branch(p, cond, label, other) == Goto(p, IF cond THEN label ELSE other)
BranchOrDone(p, cond, label) == IF cond THEN Goto(p, label) ELSE Done(p)

\* What a process still needs of its locals once it only has to tell the subscribers.
Kept(p) == IF p \in Slots THEN NoLocals ELSE loc[p]
\* notifyCurrentSession starts: event ev about the process's session, then the label after.
Notify(p, id, ev, then) ==
    GotoWith(p, "notify", [Kept(p) EXCEPT !.sid = id, !.ev = ev, !.then = then])
\* On to the label that follows in the locals.
Follow(p) ==
    IF loc[p].then \in {"idle", "off"} THEN Done(p) ELSE Goto(p, loc[p].then)

Begin(s, kind) ==
    /\ At(s, "idle")
    /\ kind \in Kinds
    /\ requests > 0
    /\ requests' = requests - 1
    /\ UNCHANGED <<sessionsVars, playerVars, handlerVars, monitorVars, lastChange>>

\* A request about the current session, whose snapshot it takes.
BeginOnCurrent(s, kind, states, label) ==
    /\ CurrentSession # NoSession
    /\ sessions[CurrentSession] \in states
    /\ Begin(s, kind)
    /\ GotoWith(s, label, [NoLocals EXCEPT !.sid = CurrentSession,
                                           !.snap = sessions[CurrentSession]])

TakeLock(s) == maCommandMu = Nobody /\ maCommandMu' = s
Unlock(s) == maCommandMu' = IF maCommandMu = s THEN Nobody ELSE maCommandMu
NextControlOp == controlSeq' = controlSeq + 1
ClearPause(id) == pauseSessionID' = IF pauseSessionID = id THEN NoSession ELSE pauseSessionID
IgnorePlaying(id) == pauseSessionID' = id

CancelledUnchecked(m) == cancelled \cup {m}   \* mutant: no nil check
Cancelled(m) == IF m \in Monitors /\ pc[m] # "off" THEN cancelled \cup {m} ELSE cancelled
StopPlaybackMonitor ==
    /\ cancelled' = Cancelled(playbackMon)
    /\ playbackMon' = Nobody

\* A command to the player; ok says whether the call returned without an error.
Call(p, cmd, ok) ==
    IF ok THEN CommandOK(cmd, SourceOf[sid(p)]) ELSE CommandFails(cmd, SourceOf[sid(p)])
CallThen(p, cmd, label, other) ==
    \E ok \in BOOLEAN : Call(p, cmd, ok) /\ Branch(p, ok, label, other)

-----------------------------------------------------------------------------
(* SetAVTransportURI *)

\* Bound: as many sessions as there are identifiers left.
SetURIBegin(s) ==
    /\ Cardinality({i \in Ids : sessions[i] = "unborn"})
         > Cardinality({t \in Slots : pc[t] \in {"uriLock", "uriCreate"}})
    /\ Begin(s, "SetURI")
    /\ Goto(s, "uriLock")

SetURILock(s) ==
    /\ At(s, "uriLock") /\ TakeLock(s) /\ NextControlOp /\ StopPlaybackMonitor
    /\ ClearPause(CurrentSession)
    /\ Goto(s, "uriCreate")
    /\ UNCHANGED <<sessionsVars, playerVars, positionSeq, lastChange, requests>>

SetURICreate(s) ==
    /\ At(s, "uriCreate")
    /\ \E id \in Ids : CreateWithBase(id) /\ Notify(s, id, "STOPPED", "idle")
    /\ Unlock(s)
    /\ UNCHANGED <<playerVars, controlSeq, positionSeq, pauseSessionID, monitorVars,
                   lastChange, requests>>

-----------------------------------------------------------------------------
(* Play *)

\* Bound: a Play begins only while a monitor goroutine is left for it.
PlayBegin(s) ==
    /\ Cardinality({m \in Monitors : At(m, "off")})
         > Cardinality({t \in Slots : pc[t] \in PlayLabels \cup {"notify", "send"}})
    /\ \/ BeginOnCurrent(s, "Play", {"starting"}, "joinRead")
       \/ BeginOnCurrent(s, "Play", State \ Active, "playOp")

\* A Play during the start of the same session waits with the one that started it.
JoinRead(s) ==
    /\ At(s, "joinRead")
    /\ GotoWith(s, "positionOp", [loc[s] EXCEPT !.role = "joiner", !.op = controlSeq])
    /\ UNCHANGED <<sessionsVars, playerVars, handlerVars, monitorVars, lastChange, requests>>

PlayOp(s) ==
    /\ At(s, "playOp") /\ NextControlOp
    /\ GotoWith(s, "positionOp", [loc[s] EXCEPT !.op = controlSeq + 1])
    /\ UNCHANGED <<sessionsVars, playerVars, positionSeq, pauseSessionID, maCommandMu,
                   monitorVars, lastChange, requests>>

CurrentPositionOp(s) ==
    /\ At(s, "positionOp")
    /\ GotoWith(s, CASE loc[s].snap = "starting" -> "waitPlaying"
                     [] loc[s].snap = "paused"   -> "playGuard"
                     [] OTHER                    -> "playSession",
                [loc[s] EXCEPT !.posOp = positionSeq])
    /\ UNCHANGED <<sessionsVars, playerVars, handlerVars, monitorVars, lastChange, requests>>

\* Whether the cached position is worth seeking back to is data of the position cache.
PlayGuard(s) ==
    /\ At(s, "playGuard") /\ ClearPause(sid(s))
    /\ \E b \in BOOLEAN : GotoWith(s, "playSession", [loc[s] EXCEPT !.seekBack = b])
    /\ UNCHANGED <<sessionsVars, playerVars, controlSeq, positionSeq, maCommandMu,
                   monitorVars, lastChange, requests>>

PlaySession(s) ==
    /\ At(s, "playSession")
    /\ IF CanPlay(sid(s)) THEN Play(sid(s)) ELSE UNCHANGED sessionsVars
    /\ Goto(s, "playCall")
    /\ UNCHANGED <<playerVars, handlerVars, monitorVars, lastChange, requests>>

PlayCall(s) ==
    /\ At(s, "playCall")
    /\ CallThen(s, IF loc[s].snap = "paused" THEN "resume" ELSE "play_media", "okOp", "errOp")
    /\ UNCHANGED <<sessionsVars, handlerVars, monitorVars, lastChange, requests>>

\* After an answer of the player: is this still the latest control operation?
AfterOp(label) ==
    CASE label = "okOp"      -> "okSession"
      [] label = "errOp"     -> "errActive"
      [] label = "seekOkOp"  -> "seekOkSession"
      [] label = "seekErrOp" -> "seekErrSession"
      [] label = "confirmOp" -> "rebase"
      [] label = "timeoutOp" -> "fail"
CheckOp(s) ==
    /\ pc[s] \in {"okOp", "errOp", "seekOkOp", "seekErrOp", "confirmOp", "timeoutOp"}
    /\ Branch(s, IsCurrentControlOp(s), AfterOp(pc[s]), "reconcile")
    /\ UNCHANGED <<sessionsVars, playerVars, handlerVars, monitorVars, lastChange, requests>>

\* And is its session still current and starting?
AfterSession(s) ==
    CASE At(s, "okSession") -> IF /\ loc[s].snap = "paused"
                                  /\ loc[s].seekBack
                                  /\ positionSeq = loc[s].posOp
                               THEN "resumeSeek" ELSE "waitPlaying"
      [] At(s, "seekOkSession")  -> "waitPlaying"
      [] At(s, "seekErrSession") -> "pauseBack"
CheckSession(s) ==
    /\ pc[s] \in {"okSession", "seekOkSession", "seekErrSession"}
    /\ IF IsCurrentIn(sid(s), {"starting"}) THEN Goto(s, AfterSession(s))
                                            ELSE Goto(s, "reconcile")
    /\ UNCHANGED <<sessionsVars, playerVars, handlerVars, monitorVars, lastChange, requests>>

\* The error of a Play whose session has moved on is not reported.
ErrActive(s) ==
    /\ At(s, "errActive")
    /\ Branch(s, IsCurrentGenerationActive(sid(s), 0), "fail", "clearGuard")
    /\ UNCHANGED <<sessionsVars, playerVars, handlerVars, monitorVars, lastChange, requests>>

ResumeSeek(s) ==
    /\ At(s, "resumeSeek")
    /\ CallThen(s, "seek", "seekOkOp", "seekErrOp")
    /\ UNCHANGED <<sessionsVars, handlerVars, monitorVars, lastChange, requests>>

PauseBack(s) ==
    /\ At(s, "pauseBack")
    /\ CallThen(s, "pause", "fail", "fail")
    /\ UNCHANGED <<sessionsVars, handlerVars, monitorVars, lastChange, requests>>

\* mutant: the timeout is answered, but not recorded
FailForgets(s) ==
    /\ At(s, "fail") /\ Done(s)
    /\ UNCHANGED <<sessionsVars, playerVars, handlerVars, monitorVars, lastChange, requests>>

Fail(s) ==
    /\ At(s, "fail")
    /\ \/ StopWithErrorIfGenerationActive(sid(s), 0) /\ Notify(s, sid(s), "ERROR_OCCURRED", "idle")
       \/ ~IsCurrentGenerationActive(sid(s), 0) /\ UNCHANGED sessionsVars /\ Done(s)
    /\ UNCHANGED <<playerVars, handlerVars, monitorVars, lastChange, requests>>

\* The head of the loop of waitForBackendPlaying.
WaitPlaying(s) ==
    /\ At(s, "waitPlaying")
    /\ IF IsCurrentIn(sid(s), State \ {"paused", "stopped", "error"})
       THEN Goto(s, "pollPlaying")
       ELSE BranchOrDone(s, loc[s].role = "owner", "interrupted")
    /\ UNCHANGED <<sessionsVars, playerVars, handlerVars, monitorVars, lastChange, requests>>

\* A fresh Play accepts no report about another source; a resume accepts any.
HeardPlaying(s) ==
    /\ player.state = "playing"
    /\ loc[s].snap = "paused" \/ player.source = SourceOf[sid(s)]
PollPlaying(s) ==
    /\ At(s, "pollPlaying")
    /\ IF HeardPlaying(s)
       THEN Branch(s, loc[s].role = "owner", "confirmOp", "rebase")
       ELSE Goto(s, "waitPlaying")
    /\ UNCHANGED <<sessionsVars, playerVars, handlerVars, monitorVars, lastChange, requests>>

\* mutant: the wait has no deadline
NeverGiveUpPlaying(s) == FALSE /\ UNCHANGED vars

GiveUpPlaying(s) ==
    /\ At(s, "pollPlaying")
    /\ Branch(s, loc[s].role = "owner", "timeoutOp", "fail")
    /\ UNCHANGED <<sessionsVars, playerVars, handlerVars, monitorVars, lastChange, requests>>

\* A fresh start that is already some way into the track is sought back to its beginning;
\* whether it is, is data of the player's status.
Rebase(s) ==
    /\ At(s, "rebase")
    /\ \/ Goto(s, "accept")
       \/ loc[s].snap # "paused" /\ FreshPlayRebaseStillCurrent(s) /\ Goto(s, "rebaseLock")
    /\ UNCHANGED <<sessionsVars, playerVars, handlerVars, monitorVars, lastChange, requests>>

RebaseLock(s) ==
    /\ At(s, "rebaseLock") /\ TakeLock(s)
    /\ Goto(s, "rebaseCheck")
    /\ UNCHANGED <<sessionsVars, playerVars, controlSeq, positionSeq, pauseSessionID,
                   monitorVars, lastChange, requests>>

\* mutant: only the first check, before the lock
RebaseUnchecked(s) ==
    /\ At(s, "rebaseCheck") /\ Goto(s, "rebaseSeek")
    /\ UNCHANGED <<sessionsVars, playerVars, handlerVars, monitorVars, lastChange, requests>>

RebaseCheck(s) ==
    /\ At(s, "rebaseCheck")
    /\ \/ FreshPlayRebaseStillCurrent(s) /\ Goto(s, "rebaseSeek") /\ UNCHANGED maCommandMu
       \/ ~FreshPlayRebaseStillCurrent(s) /\ Goto(s, "accept") /\ Unlock(s)
    /\ UNCHANGED <<sessionsVars, playerVars, controlSeq, positionSeq, pauseSessionID,
                   monitorVars, lastChange, requests>>

RebaseSeek(s) ==
    /\ At(s, "rebaseSeek")
    /\ CallThen(s, "seek", "accept", "accept") /\ Unlock(s)
    /\ UNCHANGED <<sessionsVars, controlSeq, positionSeq, pauseSessionID, monitorVars,
                   lastChange, requests>>

\* mutant: sets the state without asking whether the session is still starting
AcceptAlways(s) ==
    /\ At(s, "accept") /\ Exists(sid(s))
    /\ SetState(sid(s), "playing") /\ Goto(s, "notifyPlaying")
    /\ UNCHANGED <<playerVars, handlerVars, monitorVars, lastChange, requests>>

Accept(s) ==
    /\ At(s, "accept")
    /\ \/ SetPlayingAcceptedIfGeneration(sid(s), 0) /\ Goto(s, "notifyPlaying")
       \/ ~CanSetPlayingAccepted(sid(s), 0) /\ UNCHANGED sessionsVars /\ Done(s)
    /\ UNCHANGED <<playerVars, handlerVars, monitorVars, lastChange, requests>>

NotifyPlaying(s) ==
    /\ At(s, "notifyPlaying")
    /\ IF IsCurrentGenerationState(sid(s), 0, "playing")
       THEN Notify(s, sid(s), "PLAYING", "startMonitor") ELSE Done(s)
    /\ UNCHANGED <<sessionsVars, playerVars, handlerVars, monitorVars, lastChange, requests>>

\* mutant: the monitor before is not cancelled
StartSecondMonitor(s) ==
    /\ At(s, "startMonitor")
    /\ \E m \in Monitors :
          /\ At(m, "off")
          /\ playbackMon' = m
          /\ pc' = [pc EXCEPT ![s] = "idle", ![m] = "watch"]
          /\ loc' = [loc EXCEPT ![s] = NoLocals,
                                ![m] = [NoLocals EXCEPT !.sid = sid(s), !.then = "watch"]]
    /\ UNCHANGED <<sessionsVars, playerVars, handlerVars, cancelled, lastChange, requests>>

StartPlaybackMonitor(s) ==
    /\ At(s, "startMonitor")
    /\ \E m \in Monitors :
          /\ At(m, "off")
          /\ playbackMon' = m
          /\ cancelled' = Cancelled(playbackMon) \ {m}
          /\ pc' = [pc EXCEPT ![s] = "idle", ![m] = "watch"]
          /\ loc' = [loc EXCEPT ![s] = NoLocals,
                                ![m] = [NoLocals EXCEPT !.sid = sid(s), !.then = "watch"]]
    /\ UNCHANGED <<sessionsVars, playerVars, handlerVars, lastChange, requests>>

\* An overtaken Play forgets all but its session.
Late(s) == [NoLocals EXCEPT !.sid = sid(s)]

\* A Play that was overtaken while it waited: a Pause must reach the player again.
Interrupted(s) ==
    /\ At(s, "interrupted")
    /\ IF IsCurrentIn(sid(s), {"paused"}) THEN GotoWith(s, "repauseGuard", Late(s)) ELSE Done(s)
    /\ UNCHANGED <<sessionsVars, playerVars, handlerVars, monitorVars, lastChange, requests>>

\* reconcileLatePlayCompletion: a Play that was overtaken before its answer came.
ReconcileLatePlayCompletion(s) ==
    /\ At(s, "reconcile")
    /\ CASE IsCurrentIn(sid(s), {"paused"}) -> GotoWith(s, "repauseGuard", Late(s))
         [] IsCurrentIn(sid(s), Ended)      -> GotoWith(s, "restop", Late(s))
         [] OTHER                           -> Done(s)
    /\ UNCHANGED <<sessionsVars, playerVars, handlerVars, monitorVars, lastChange, requests>>

RepauseGuard(s) ==
    /\ At(s, "repauseGuard") /\ IgnorePlaying(sid(s)) /\ Goto(s, "repauseCall")
    /\ UNCHANGED <<sessionsVars, playerVars, controlSeq, positionSeq, maCommandMu,
                   monitorVars, lastChange, requests>>

RepauseCall(s) ==
    /\ At(s, "repauseCall")
    /\ CallThen(s, "pause", "waitNotPlaying", "clearGuard")
    /\ UNCHANGED <<sessionsVars, handlerVars, monitorVars, lastChange, requests>>

ClearGuard(s) ==
    /\ At(s, "clearGuard") /\ ClearPause(sid(s)) /\ Done(s)
    /\ UNCHANGED <<sessionsVars, playerVars, controlSeq, positionSeq, maCommandMu,
                   monitorVars, lastChange, requests>>

Restop(s) ==
    /\ At(s, "restop")
    /\ \E ok \in BOOLEAN : Call(s, "stop", ok)
    /\ Done(s)
    /\ UNCHANGED <<sessionsVars, handlerVars, monitorVars, lastChange, requests>>

-----------------------------------------------------------------------------
(* Stop *)

StopBegin(s) == BeginOnCurrent(s, "Stop", State, "stopLock")

StopLock(s) ==
    /\ At(s, "stopLock") /\ TakeLock(s) /\ NextControlOp /\ StopPlaybackMonitor
    /\ Goto(s, "stopSession")
    /\ UNCHANGED <<sessionsVars, playerVars, positionSeq, pauseSessionID, lastChange, requests>>

StopSession(s) ==
    /\ At(s, "stopSession")
    /\ IF Exists(sid(s)) THEN Stop(sid(s)) ELSE UNCHANGED sessionsVars
    /\ ClearPause(sid(s))
    /\ Goto(s, "stopCall")
    /\ UNCHANGED <<playerVars, controlSeq, positionSeq, maCommandMu, monitorVars,
                   lastChange, requests>>

StopCall(s) ==
    /\ At(s, "stopCall")
    /\ \E ok \in BOOLEAN :
          /\ Call(s, "stop", ok)
          /\ IF ok THEN Notify(s, sid(s), "STOPPED", "idle") ELSE Goto(s, "setError")
    /\ Unlock(s)
    /\ UNCHANGED <<sessionsVars, controlSeq, positionSeq, pauseSessionID, monitorVars,
                   lastChange, requests>>

\* SetError of Stop, Pause and Seek, and the error notifier it calls.
SetError(s) ==
    /\ At(s, "setError")
    /\ \/ SetErrorIfGeneration(sid(s), 0) /\ Notify(s, sid(s), "ERROR_OCCURRED", "idle")
       \/ ~CanSetError(sid(s), 0) /\ UNCHANGED sessionsVars /\ Done(s)
    /\ UNCHANGED <<playerVars, handlerVars, monitorVars, lastChange, requests>>

-----------------------------------------------------------------------------
(* Pause *)

PauseBegin(s) == BeginOnCurrent(s, "Pause", Active, "pauseLock")

PauseLock(s) ==
    /\ At(s, "pauseLock") /\ TakeLock(s) /\ Goto(s, "pauseRecheck")
    /\ UNCHANGED <<sessionsVars, playerVars, controlSeq, positionSeq, pauseSessionID,
                   monitorVars, lastChange, requests>>

\* mutant: the early return leaves the mutex locked
PauseReturnsLocked(s) ==
    /\ At(s, "pauseRecheck")
    /\ \/ /\ IsCurrentIn(sid(s), Active)
          /\ NextControlOp /\ Goto(s, "pauseGuard")
       \/ /\ ~IsCurrentIn(sid(s), Active)
          /\ Done(s) /\ UNCHANGED controlSeq
    /\ UNCHANGED <<sessionsVars, playerVars, positionSeq, pauseSessionID, maCommandMu,
                   monitorVars, lastChange, requests>>

PauseRecheck(s) ==
    /\ At(s, "pauseRecheck")
    /\ \/ /\ IsCurrentIn(sid(s), Active)
          /\ NextControlOp /\ Goto(s, "pauseGuard") /\ UNCHANGED maCommandMu
       \/ /\ ~IsCurrentIn(sid(s), Active)
          /\ Unlock(s) /\ Done(s) /\ UNCHANGED controlSeq
    /\ UNCHANGED <<sessionsVars, playerVars, positionSeq, pauseSessionID, monitorVars,
                   lastChange, requests>>

PauseGuard(s) ==
    /\ At(s, "pauseGuard") /\ IgnorePlaying(sid(s)) /\ Goto(s, "pauseSession")
    /\ UNCHANGED <<sessionsVars, playerVars, controlSeq, positionSeq, maCommandMu,
                   monitorVars, lastChange, requests>>

PauseSession(s) ==
    /\ At(s, "pauseSession")
    /\ IF Exists(sid(s)) THEN Pause(sid(s)) ELSE UNCHANGED sessionsVars
    /\ Goto(s, "pauseCall")
    /\ UNCHANGED <<playerVars, handlerVars, monitorVars, lastChange, requests>>

PauseCall(s) ==
    /\ At(s, "pauseCall")
    /\ \E ok \in BOOLEAN :
          /\ Call(s, "pause", ok)
          /\ IF ok THEN GotoWith(s, "waitNotPlaying", [loc[s] EXCEPT !.role = "pauser"])
                   ELSE Goto(s, "pauseErr")
    /\ Unlock(s)
    /\ UNCHANGED <<sessionsVars, controlSeq, positionSeq, pauseSessionID, monitorVars,
                   lastChange, requests>>

PauseErr(s) ==
    /\ At(s, "pauseErr") /\ ClearPause(sid(s)) /\ Goto(s, "pauseErrStop")
    /\ UNCHANGED <<sessionsVars, playerVars, controlSeq, positionSeq, maCommandMu,
                   monitorVars, lastChange, requests>>

PauseErrStop(s) ==
    /\ At(s, "pauseErrStop")
    /\ IF Exists(sid(s)) THEN Stop(sid(s)) ELSE UNCHANGED sessionsVars
    /\ Goto(s, "setError")
    /\ UNCHANGED <<playerVars, handlerVars, monitorVars, lastChange, requests>>

\* The head of the loop of waitForBackendNotPlaying, which Pause and a re-sent pause share.
WaitNotPlaying(s) ==
    /\ At(s, "waitNotPlaying")
    /\ IF IsCurrentIn(sid(s), {"paused"})
       THEN Goto(s, "pollNotPlaying")
       ELSE BranchOrDone(s, loc[s].role = "pauser", "pauseNotify")
    /\ UNCHANGED <<sessionsVars, playerVars, handlerVars, monitorVars, lastChange, requests>>

PollNotPlaying(s) ==
    /\ At(s, "pollNotPlaying")
    /\ IF player.state \in {"paused", "idle"}
       THEN Branch(s, loc[s].role = "pauser", "pauseConfirmed", "clearGuard")
       ELSE GotoWith(s, "waitNotPlaying", [loc[s] EXCEPT !.last = player.state])
    /\ UNCHANGED <<sessionsVars, playerVars, handlerVars, monitorVars, lastChange, requests>>

GiveUpNotPlaying(s) ==
    /\ At(s, "pollNotPlaying")
    /\ Branch(s, loc[s].role = "pauser", "pauseTimeout", "clearGuard")
    /\ UNCHANGED <<sessionsVars, playerVars, handlerVars, monitorVars, lastChange, requests>>

\* A pause that caught the session starting keeps ignoring "playing": it may be the start.
PauseConfirmed(s) ==
    /\ At(s, "pauseConfirmed")
    /\ IF loc[s].snap = "starting" THEN UNCHANGED pauseSessionID ELSE ClearPause(sid(s))
    /\ Goto(s, "pauseNotify")
    /\ UNCHANGED <<sessionsVars, playerVars, controlSeq, positionSeq, maCommandMu,
                   monitorVars, lastChange, requests>>

PauseTimeout(s) ==
    /\ At(s, "pauseTimeout") /\ ClearPause(sid(s))
    /\ BranchOrDone(s, loc[s].last = "playing", "markPlaying")
    /\ UNCHANGED <<sessionsVars, playerVars, controlSeq, positionSeq, maCommandMu,
                   monitorVars, lastChange, requests>>

PauseNotify(s) ==
    /\ At(s, "pauseNotify")
    /\ IF IsCurrentIn(sid(s), {"paused"})
       THEN Notify(s, sid(s), "PAUSED_PLAYBACK", "idle") ELSE Done(s)
    /\ UNCHANGED <<sessionsVars, playerVars, handlerVars, monitorVars, lastChange, requests>>

-----------------------------------------------------------------------------
(* Seek: it moves the player, not the session. *)

SeekBegin(s) == BeginOnCurrent(s, "Seek", Active \cup {"paused"}, "seekLock")

SeekLock(s) ==
    /\ At(s, "seekLock") /\ TakeLock(s) /\ Goto(s, "seekRecheck")
    /\ UNCHANGED <<sessionsVars, playerVars, controlSeq, positionSeq, pauseSessionID,
                   monitorVars, lastChange, requests>>

\* mutant: trusts what it read before it waited for the mutex
SeekUnchecked(s) ==
    /\ At(s, "seekRecheck")
    /\ positionSeq' = positionSeq + 1
    /\ Goto(s, "seekCall")
    /\ UNCHANGED <<sessionsVars, playerVars, controlSeq, pauseSessionID, maCommandMu,
                   monitorVars, lastChange, requests>>

SeekRecheck(s) ==
    /\ At(s, "seekRecheck")
    /\ \/ /\ IsCurrentIn(sid(s), Active \cup {"paused"})
          /\ positionSeq' = positionSeq + 1
          /\ Goto(s, "seekCall") /\ UNCHANGED maCommandMu
       \/ /\ ~IsCurrentIn(sid(s), Active \cup {"paused"})
          /\ Unlock(s) /\ Done(s) /\ UNCHANGED positionSeq
    /\ UNCHANGED <<sessionsVars, playerVars, controlSeq, pauseSessionID, monitorVars,
                   lastChange, requests>>

SeekCall(s) ==
    /\ At(s, "seekCall")
    /\ \E ok \in BOOLEAN :
          Call(s, "seek", ok) /\ IF ok THEN Done(s) ELSE Goto(s, "setError")
    /\ Unlock(s)
    /\ UNCHANGED <<sessionsVars, controlSeq, positionSeq, pauseSessionID, monitorVars,
                   lastChange, requests>>

-----------------------------------------------------------------------------
(* GetTransportInfo: syncCurrentSessionFromBackend, and the marks that a    *)
(* playback monitor shares with it.                                         *)

\* mutant: whatever the state of the session
SyncBeginAlways(s) == BeginOnCurrent(s, "GetInfo", State, "syncPoll")
SyncBegin(s) == BeginOnCurrent(s, "GetInfo", {"playing", "paused"}, "syncPoll")

SyncPoll(s) ==
    /\ At(s, "syncPoll")
    /\ \/ CASE player.state = "playing" -> Branch(s, loc[s].snap = "paused", "checkGuard", "markPlaying")
            [] player.state = "paused"  -> Goto(s, "markPaused")
            [] player.state = "idle"    -> BranchOrDone(s, loc[s].snap = "playing", "markStopped")
            [] player.state = "unknown" -> Done(s)
       \/ "lost" \in Outcomes /\ Done(s)
    /\ UNCHANGED <<sessionsVars, playerVars, handlerVars, monitorVars, lastChange, requests>>

CheckGuard(p) ==
    /\ At(p, "checkGuard")
    /\ IF pauseSessionID = sid(p) THEN Follow(p) ELSE Goto(p, "markPlaying")
    /\ UNCHANGED <<sessionsVars, playerVars, handlerVars, monitorVars, lastChange, requests>>

MarkPlaying(p) ==
    /\ At(p, "markPlaying")
    /\ \/ MarkPlayingIfGeneration(sid(p), 0) /\ Notify(p, sid(p), "PLAYING", loc[p].then)
       \/ ~CanMarkPlaying(sid(p), 0) /\ UNCHANGED sessionsVars /\ Follow(p)
    /\ UNCHANGED <<playerVars, handlerVars, monitorVars, lastChange, requests>>

MarkPaused(p) ==
    /\ At(p, "markPaused")
    /\ \/ MarkPausedIfGeneration(sid(p), 0) /\ Notify(p, sid(p), "PAUSED_PLAYBACK", loc[p].then)
       \/ ~CanMarkPaused(sid(p), 0) /\ UNCHANGED sessionsVars /\ Follow(p)
    /\ UNCHANGED <<playerVars, handlerVars, monitorVars, lastChange, requests>>

\* A monitor ends here whether or not the session could be stopped.
MarkStopped(p) ==
    /\ At(p, "markStopped")
    /\ \/ StopIfGeneration(sid(p), 0) /\ Notify(p, sid(p), "STOPPED", Rest(p))
       \/ ~CanStopIfGeneration(sid(p), 0) /\ UNCHANGED sessionsVars /\ Done(p)
    /\ UNCHANGED <<playerVars, handlerVars, monitorVars, lastChange, requests>>

-----------------------------------------------------------------------------
(* notifyCurrentSession: the check, then the event. *)

NotifyCheck(p) ==
    /\ At(p, "notify")
    /\ IF IsCurrent(sid(p)) THEN Goto(p, "send") ELSE Follow(p)
    /\ UNCHANGED <<sessionsVars, playerVars, handlerVars, monitorVars, lastChange, requests>>

NotifySend(p) ==
    /\ At(p, "send")
    /\ lastChange' = [sid |-> sid(p), ev |-> loc[p].ev]
    /\ Follow(p)
    /\ UNCHANGED <<sessionsVars, playerVars, handlerVars, monitorVars, requests>>

-----------------------------------------------------------------------------
(* The playback monitor *)

\* select takes ctx.Done or a tick that is ready too, whichever it likes.
MonitorExit(m) ==
    /\ At(m, "watch") /\ m \in cancelled
    /\ Done(m) /\ cancelled' = cancelled \ {m}
    /\ UNCHANGED <<sessionsVars, playerVars, handlerVars, playbackMon, lastChange, requests>>

\* mutant: no self-clean
TickWithoutCheck(m) ==
    /\ At(m, "watch")
    /\ GotoWith(m, "getState", [loc[m] EXCEPT !.snap = IF Exists(sid(m)) THEN sessions[sid(m)] ELSE "stopped"])
    /\ UNCHANGED <<sessionsVars, playerVars, handlerVars, monitorVars, lastChange, requests>>

MonitorTick(m) ==
    /\ At(m, "watch")
    /\ IF IsCurrentIn(sid(m), State \ Ended)
       THEN GotoWith(m, "getState", [loc[m] EXCEPT !.snap = sessions[sid(m)]])
       ELSE Done(m)
    /\ UNCHANGED <<sessionsVars, playerVars, handlerVars, monitorVars, lastChange, requests>>

\* idleDebounce.update; how long the player has been idle is left open.
Debounce(m) ==
    CASE player.state = "paused" ->
           GotoWith(m, IF loc[m].emitted THEN "watch" ELSE "markPaused",
                    [loc[m] EXCEPT !.idle = FALSE, !.emitted = TRUE])
      [] player.state = "idle" ->
           \/ GotoWith(m, "watch", [loc[m] EXCEPT !.idle = TRUE])
           \/ loc[m].idle /\ Goto(m, "markStopped")
      [] OTHER -> GotoWith(m, "watch", [loc[m] EXCEPT !.idle = FALSE])

MonitorPoll(m) ==
    /\ At(m, "getState")
    /\ \/ IF loc[m].snap = "paused"
          THEN Branch(m, player.state = "playing", "checkGuard", "watch")
          ELSE Debounce(m)
       \/ "lost" \in Outcomes /\ Goto(m, "watch")
    /\ UNCHANGED <<sessionsVars, playerVars, handlerVars, monitorVars, lastChange, requests>>

-----------------------------------------------------------------------------
Init ==
    /\ SessionsInit
    /\ PlayerInit
    /\ pc = [p \in Procs |-> Rest(p)]
    /\ loc = [p \in Procs |-> NoLocals]
    /\ controlSeq = 0 /\ positionSeq = 0
    /\ pauseSessionID = NoSession
    /\ maCommandMu = Nobody
    /\ playbackMon = Nobody /\ cancelled = {}
    /\ lastChange = [sid |-> NoSession, ev |-> "STOPPED"]
    /\ requests = MaxRequests

Arrive(s) ==
    SetURIBegin(s) \/ PlayBegin(s) \/ StopBegin(s) \/ PauseBegin(s) \/ SeekBegin(s) \/ SyncBegin(s)

SetURIStep(s) == SetURILock(s) \/ SetURICreate(s)

PlayStep(s) ==
    \/ JoinRead(s) \/ PlayOp(s) \/ CurrentPositionOp(s) \/ PlayGuard(s)
    \/ PlaySession(s) \/ PlayCall(s)
    \/ CheckOp(s) \/ CheckSession(s) \/ ErrActive(s) \/ ResumeSeek(s) \/ PauseBack(s)
    \/ Fail(s) \/ WaitPlaying(s) \/ PollPlaying(s) \/ GiveUpPlaying(s)
    \/ Rebase(s) \/ RebaseLock(s) \/ RebaseCheck(s) \/ RebaseSeek(s)
    \/ Accept(s) \/ NotifyPlaying(s) \/ StartPlaybackMonitor(s)
    \/ Interrupted(s) \/ ReconcileLatePlayCompletion(s) \/ RepauseGuard(s)
    \/ RepauseCall(s) \/ ClearGuard(s) \/ Restop(s)

StopStep(s) == StopLock(s) \/ StopSession(s) \/ StopCall(s) \/ SetError(s)

PauseStep(s) ==
    \/ PauseLock(s) \/ PauseRecheck(s) \/ PauseGuard(s) \/ PauseSession(s) \/ PauseCall(s)
    \/ PauseErr(s) \/ PauseErrStop(s) \/ WaitNotPlaying(s) \/ PollNotPlaying(s) \/ GiveUpNotPlaying(s)
    \/ PauseConfirmed(s) \/ PauseTimeout(s) \/ PauseNotify(s)

SeekStep(s) == SeekLock(s) \/ SeekRecheck(s) \/ SeekCall(s)

\* Steps of a request and of a monitor alike.
SharedStep(p) ==
    CheckGuard(p) \/ MarkPlaying(p) \/ MarkPaused(p) \/ MarkStopped(p)
    \/ NotifyCheck(p) \/ NotifySend(p)

RequestStep(s) ==
    \/ SetURIStep(s) \/ PlayStep(s) \/ StopStep(s) \/ PauseStep(s) \/ SeekStep(s)
    \/ SyncPoll(s) \/ SharedStep(s)

MonitorStep(m) == MonitorExit(m) \/ MonitorTick(m) \/ MonitorPoll(m) \/ SharedStep(m)

PlayerMoves ==
    /\ PlayerStep
    /\ UNCHANGED <<sessionsVars, handlerVars, monitorVars, processVars, lastChange, requests>>

\* The requests the bound allows are all answered.
Rested ==
    /\ requests = 0 /\ \A s \in Slots : At(s, "idle")
    /\ UNCHANGED vars

Next ==
    \/ \E s \in Slots : Arrive(s) \/ RequestStep(s)
    \/ \E m \in Monitors : MonitorStep(m)
    \/ PlayerMoves
    \/ Rested

Spec == Init /\ [][Next]_vars

-----------------------------------------------------------------------------
Locals ==
    [sid : Ids \cup {NoSession}, snap : State, role : {"owner", "joiner", "pauser"},
     op : Nat, posOp : Nat, seekBack : BOOLEAN, last : PlayerState, ev : Events,
     then : {"idle", "off", "watch", "startMonitor"}, idle : BOOLEAN, emitted : BOOLEAN]

\* The labels at which a process is about no session yet.
Sessionless == {"idle", "off", "uriLock", "uriCreate"}

ProcessesTypeOK ==
    /\ pc \in [Procs -> Labels]
    /\ loc \in [Procs -> Locals]
    /\ \A p \in Procs : pc[p] \in Sessionless \/ sid(p) \in Ids

HandlerTypeOK ==
    /\ controlSeq \in Nat /\ positionSeq \in Nat
    /\ pauseSessionID \in Ids \cup {NoSession}
    /\ maCommandMu \in Slots \cup {Nobody}
    /\ playbackMon \in Monitors \cup {Nobody}
    /\ cancelled \subseteq Monitors
    /\ lastChange \in [sid : Ids \cup {NoSession}, ev : Events]
    /\ requests \in 0..MaxRequests

TypeOK == SessionsTypeOK /\ PlayerTypeOK /\ ProcessesTypeOK /\ HandlerTypeOK

(* maCommandMu is held exactly in the command sections of SetAVTransportURI, *)
(* Stop, Pause, Seek and the rebase of a fresh Play: no early return leaves  *)
(* it locked, and no command is sent to the player without it there.         *)
LockDiscipline ==
    \A s \in Slots : pc[s] \in Locked <=> maCommandMu = s

(* Starting a monitor cancels the one before: of the monitors alive, only    *)
(* the last one started can be uncancelled.                                   *)
OneMonitor ==
    \A m \in Monitors : ~At(m, "off") /\ m \notin cancelled => playbackMon = m

\* The labels between the check under maCommandMu and the command it is for.
Commanding == {"pauseGuard", "pauseSession", "pauseCall", "seekCall", "rebaseSeek"}

(* Pause, Seek and the rebase of a fresh Play read the session before they   *)
(* wait for maCommandMu and check it again under it, so the command they     *)
(* send to the player is never about a session that was replaced meanwhile.  *)
CommandsOnCurrent ==
    \A s \in Slots : pc[s] \in Commanding => IsCurrent(sid(s))

(* "Explicit seek should run after fresh rebase and win": the seek back to   *)
(* the beginning is not sent once an explicit Seek has been accepted since   *)
(* the Play that wants it.                                                   *)
ExplicitSeekWins ==
    \A s \in Slots : At(s, "rebaseSeek") => positionSeq = loc[s].posOp

(* A replaced session stays stopped: no late mark, callback or answer brings *)
(* an old session back beside the current one (one control point at a time). *)
OldSessionsEnded ==
    \A i \in Live : i # currentSessionID => sessions[i] \in Ended

(* Until somebody in the house uses the player directly, the bridge reports  *)
(* PLAYING only while the player has the current session's source, not what  *)
(* an earlier session or an overtaken Play left there.                       *)
PlayingOwnSource ==
    \A i \in Ids :
        external = MaxExternal /\ IsCurrentIn(i, {"playing"}) => player.source = SourceOf[i]

(* An event about a session is queued only while that session is current     *)
(* (the comment of notifyCurrentSession, upnp.go:363).                       *)
EventOnlyForCurrent ==
    [][lastChange' # lastChange => IsCurrent(lastChange'.sid)]_vars

-----------------------------------------------------------------------------
(* The transport state as GetTransportInfo reports it, and the promise about *)
(* it that the handlers, the monitors and the player together must keep.     *)

CurrentTransportState ==
    IF CurrentSession = NoSession THEN "STOPPED"
    ELSE CASE sessions[CurrentSession] = "playing"  -> "PLAYING"
           [] sessions[CurrentSession] = "paused"   -> "PAUSED_PLAYBACK"
           [] sessions[CurrentSession] = "starting" -> "TRANSITIONING"
           [] OTHER                                 -> "STOPPED"

CurrentTransportStatus ==
    IF CurrentSession # NoSession /\ IsState(CurrentSession, "error")
    THEN "ERROR_OCCURRED" ELSE "OK"

(* The transport does not remain TRANSITIONING: when every request has been  *)
(* answered, no control point is told to wait for a Play that nobody is      *)
(* carrying out any more (ma_integration_test.go:799).                        *)
NotLeftTransitioning ==
    (\A s \in Slots : At(s, "idle")) => CurrentTransportState # "TRANSITIONING"

AVT == INSTANCE AVTransport WITH
    Media <- Ids, NoMedia <- NoSession, media <- CurrentSession,
    used <- {i \in Ids : sessions[i] # "unborn"},
    transportState <- CurrentTransportState, transportStatus <- CurrentTransportStatus

(* However requests, monitors and the player interleave, a control point     *)
(* sees the transport state change only as AVTransport allows.               *)
ImplementsAVTransport == AVT!AVTSpec

-----------------------------------------------------------------------------
(* Liveness.  A goroutine that can run runs; the deadline of a confirmation  *)
(* wait passes; select does not prefer a tick to a cancelled context for      *)
(* ever.  The mutex needs no more: a request that waits for it competes with  *)
(* finitely many others.                                                      *)
GiveUp(s) == GiveUpPlaying(s) \/ GiveUpNotPlaying(s)

Fairness ==
    /\ \A s \in Slots : WF_vars(RequestStep(s)) /\ SF_vars(GiveUp(s))
    /\ \A m \in Monitors : WF_vars(MonitorStep(m)) /\ SF_vars(MonitorExit(m))

FairSpec == Spec /\ Fairness

(* Every request is answered, even by a player that never confirms.          *)
EveryRequestAnswered == \A s \in Slots : ~At(s, "idle") ~> At(s, "idle")

(* A monitor that was cancelled or whose session was replaced ends.          *)
MonitorsEnd ==
    \A m \in Monitors :
        ~At(m, "off") /\ (m \in cancelled \/ ~IsCurrent(sid(m))) ~> At(m, "off")

(* A pause made on the player itself reaches the session (docs/pre-PRD.md,   *)
(* section 7: paused is PAUSED_PLAYBACK).                                    *)
PauseReflected ==
    ~<>[](player.state = "paused" /\ CurrentTransportState = "PLAYING")
===============================================================================
