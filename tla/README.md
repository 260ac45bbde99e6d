# A formal model of the DLNA to Music Assistant bridge

`dlna-ma-bridge` is a UPnP/DLNA media renderer for one Music Assistant (MA)
player.  Control points on the network send it SOAP requests
(`SetAVTransportURI`, `Play`, `Pause`, ...); the bridge turns them into commands
on MA's WebSocket API, polls MA for the player's state, and tells its event
subscribers what changed.  The modules here model its core, the AVTransport
service over the session table and the player, and beside it the event
subscriptions, the RenderingControl service, the connection to MA, the position
cache and the streamer.  TLC checks them on small instances; TLAPS proves every
safety property and every refinement that TLC checks, for every instance.

Paths below are relative to the repository.  `upnp.go` is
`internal/upnp/upnp.go`, `session.go` is `internal/session/session.go` and
`stream.go` is `internal/stream/stream.go`.

## 1. The system

### Components, state and operations

| component | state | operations |
| --- | --- | --- |
| session table, `session.Manager` (session.go) | sessions by id with a state (loaded, starting, playing, paused, stopped, error), the current id, an expected stream generation per id; all under one mutex | create (stops all others, evicts at 64), play, stop, pause, seek; marks with a generation check: playing, accepted, paused, stopped, error |
| AVTransport service, `upnp.Handler.serveAVTransport` (upnp.go:1705) | `maCommandMu`, the tickets `controlSeq` and `positionSeq`, `stateGuard` (the session whose "playing" reports are ignored), the position cache | the SOAP actions; `net/http` runs every request on a goroutine of its own |
| playback monitor (upnp.go:391-552) | the cancel function of the last monitor, and per goroutine the debounce memory | started when a session is accepted as playing; every 3 s reads the player's state and marks the session |
| position cache, `posCache` (upnp.go:61-273) | session, position, time, whether it runs; until when a stale zero, or a stale position after a rebase, is not believed | reset, set, estimate, `guardZero`, `holdFreshZero`; every `GetPositionInfo`, `Play`, `Pause`, `Seek`, `Stop` and monitor poll goes through it |
| MA client, `maadapter.DirectAdapter` | one WebSocket under `wsMu`, the message counter | commands, volume, status; each one or two calls with a deadline; it connects and logs in when a call finds no connection |
| event subscriptions (upnp.go:1262-1661) | subscribers with a queue, a worker, an expiry timer | subscribe, renew, unsubscribe, expire, notify |
| RenderingControl (upnp.go:2290-2436) | volume, remembered volume, mute | set volume, set mute |
| streamer, `stream.Streamer` (stream.go) | a stream per session under `s.mu`; per stream its generation under `genMu`, `active`, `runsInFlight` and `lifeMu`; per generation an ffmpeg process, a context, its clients under `clientsMu` and a ring buffer | start; stop, also with a generation check; pause and seek (a new generation, not run), resume (one that is); serve a client, with a grace after the last one; startup timeout, end and error of ffmpeg, told to the session table.  No request of the running program starts a stream: `session.Manager.StartStream` has no caller |
| SSDP (upnp.go:942-1130) | duplicate table of M-SEARCH | announce, answer |
| policy and configuration (`internal/config`) | none after start | validate a URL, load |
| process (`cmd/dlna-ma-bridge/main.go`) | none | wiring, shutdown, status pages |

### Interaction

A request reads the current session, may wait for `maCommandMu`, changes the
session through the manager's methods, calls MA, and for `Play` and `Pause` then
polls MA until it confirms, the session is taken over by another request, or a
deadline passes (8 s and 2 s).  The monitor and `GetTransportInfo` poll MA too
and mark the session from what they read.  Every mark that changes something
calls `notifyCurrentSession`.  MA itself is used by other people and by itself
reaches the end of a track.  Nothing is persisted.

### What is hard

Between any two accesses to shared state every other request, the monitor and
the player may move.  `Play` does not hold `maCommandMu` around its call of MA;
instead it takes a ticket and, when the answer comes, gives way to whatever
request was accepted meanwhile (`reconcileLatePlayCompletion`).  The state a
request acts on was read before it waited; the answer of MA is old when it is
used; a command reported as failed may have been carried out.  `PROJECT.json`
lists these hazards at their lines, with the property that covers each.

### What makes each component correct

- *Session table*: it is bounded, never loses the session in use, and no late
  callback revives a session that ended.
- *AVTransport*: the mutex is always released; a command is about the current
  session; an explicit seek is not undone; every request is answered; what a
  control point sees is a legal history of transport states; no request leaves
  the transport in between; PLAYING means the player has our source.
- *Monitor*: one at a time, and it ends with its session.
- *Events*: only about the current session, each change reported.
- *Subscriptions*: SEQ order, the initial event first and not before the answer,
  a renewal beats the timer, what nobody renews ends and leaves nothing behind.
- *RenderingControl*: volume and mute agree with the player's volume after every
  answered request, and with the last event of every subscriber.
- *MA client*: a call takes its own answer and no other, no failure leaves a
  connection that misleads the next call, a command goes to a queue that was active
  meanwhile, and every call returns.
- *Position cache*: what a control point is told is where the player is, whatever
  the player says for a while after a command, and a resume goes on from there.
- *Streamer*: what an old generation does late is not taken for the present one's,
  the startup timeout cuts nobody off who has come, and no client stays attached to
  a generation that is over.

## 2. The modules

| module | what it is | proofs |
| --- | --- | --- |
| `Sessions` | the session table, with an arbitrary client (`SessionsSpec`), and its methods as operators | `Sessions_proofs` |
| `Player` | MA's player as the bridge sees it; external | |
| `Transport` | the AVTransport service and the monitors; EXTENDS both | `Transport_proofs`, `AVTransport_proofs` |
| `AVTransport` | abstract specification: the transport state of the media loaded last | `AVTransport_proofs` |
| `Eventing` | event subscriptions: map, queues, workers, timers | `Eventing_proofs` |
| `EventChannel` | abstract specification: what a subscription promises | `Eventing_proofs` |
| `RenderingControl` | volume and mute; EXTENDS `Eventing` | `RenderingControl_proofs` |
| `MAClient` | the WebSocket client of MA, its operations, server and network | `MAClient_proofs` |
| `MACalls` | abstract specification: what a call of MA promises | `MAClient_proofs` |
| `Streams` | the streamer of one session with the manager's methods that drive it; EXTENDS `Sessions` | `Streams_proofs` |
| `Position` | the position cache over discrete time, with requests, polls and a player | `Position_proofs` |
| `MCSessions`, `MCTransport`, `MCEventing`, `MCRenderingControl`, `MCMAClient`, `MCStreams` | constants for TLC, symmetry | |

### Sessions

`sessions` maps an id to its state; `unborn` and `evicted` stand for an id that
is not in the map yet or any more.  An operator has the name of the method it
models; `Can...` is the condition under which the method changes something.
`CreateWithBase` is one step with the stop of all others and `evictLocked`:
with every session just stopped, the loop of `evictLocked` deletes exactly one
session of a full table, or none when it finds no candidate.  Which candidate is
the oldest is time-stamp data, so any may go.  `sessionGenID` is modelled with
the streamer's announcements, including the 0 that skips the check.

### Player

A state (playing, paused, idle, and unknown for every string
`normalizeMAState` passes on without a case of its own) and a source.  A command
succeeds with its effect, fails without one (`lost`), or fails although it is
carried out (`late`: `callMAResultWithin` gave up, or the connection broke after
the request was written); the constant `Outcomes` selects which.  The player
starts, ends, and is used by others (`UserToggles`, `UserPlays`) at any time.

### Transport

A request occupies a slot of `Slots`, a monitor goroutine one of `Monitors`;
`pc` is the next step of a process and `loc` its local variables, with the names
they have in the code where there is one (`snap` is the state in the snapshot
`active`, `op` and `posOp` the two tickets, `ev` and `then` the event to send
and where to go on after it).  A step makes one access to shared state.  It makes
more than one only where no other process can tell: taking or releasing the
mutex together with the access next to it, a check with the counter it lets
advance, and bookkeeping of two values that no one process reads together.

| code | actions |
| --- | --- |
| `SetAVTransportURI` | `SetURIBegin`, `SetURILock`, `SetURICreate` |
| `Play`, not starting | `PlayBegin`, `PlayOp`, `CurrentPositionOp`, `PlayGuard`, `PlaySession`, `PlayCall`, then by the answer `CheckOp`, `CheckSession`, `ErrActive`, `ResumeSeek`, `PauseBack`, `Fail` |
| `Play`, starting already | `PlayBegin`, `JoinRead`, `CurrentPositionOp` |
| `waitForBackendPlaying` | `WaitPlaying`, `PollPlaying`, `GiveUpPlaying` |
| `tryRebaseFreshPlay` | `Rebase`, `RebaseLock`, `RebaseCheck`, `RebaseSeek` |
| acceptance, `NotifyPlaying`, `startPlaybackMonitor` | `Accept`, `NotifyPlaying`, `StartPlaybackMonitor` |
| `reconcileLatePlayCompletion`, interrupted waits | `ReconcileLatePlayCompletion`, `Interrupted`, `RepauseGuard`, `RepauseCall`, `ClearGuard`, `Restop` |
| `Stop` | `StopBegin`, `StopLock`, `StopSession`, `StopCall`, `SetError` |
| `Pause`, `waitForBackendNotPlaying` | `PauseBegin`, ..., `PauseCall`, `PauseErr`, `PauseErrStop`, `WaitNotPlaying`, `PollNotPlaying`, `GiveUpNotPlaying`, `PauseConfirmed`, `PauseTimeout`, `PauseNotify`, `SetError` |
| `Seek` | `SeekBegin`, `SeekLock`, `SeekRecheck`, `SeekCall`, `SetError` |
| `GetTransportInfo` | `SyncBegin`, `SyncPoll`, `CheckGuard`, `MarkPlaying`, `MarkPaused`, `MarkStopped` |
| monitor goroutine | `MonitorExit`, `MonitorTick`, `MonitorPoll` (with `Debounce`), and the marks |
| `notifyCurrentSession` | `NotifyCheck`, `NotifySend` |

Abstractions: durations (a deadline may pass at any poll, a debounce window at
any idle poll after the first); the position cache, the subject of `Position` (whether
a resume has a position to seek back to, and whether a fresh start is far enough
to be rebased, is a choice); a request answered with no change (faults 701, 710, 711,
714, a Play while playing, a seek to 0 within a second of the start) is no step.
`session.Manager.StartStream` has no caller, so no stream exists in the running
program: the handlers pass generation 0 and the calls of the streamer find
nothing to do.  `Streams` models the streamer as the manager would use it.

### AVTransport

`Load`, `Start`, `Confirm`, `Hold`, `End` over (media, transport state, status):
in particular PLAYING is reached only from TRANSITIONING or PAUSED_PLAYBACK,
never from STOPPED, and TRANSITIONING only from STOPPED or PAUSED_PLAYBACK.
`Transport` implements it under the mapping of `GetTransportInfo`'s switch
(upnp.go:2058-2077).  `Hold` is wider than one would like: a Pause whose session
ends between its check and `Manager.Pause`, which checks nothing, still makes it
paused.

### Eventing

One record of the source, `eventSubscriber`, is spread over functions of its
identifier.  A section under `h.mu` is one step, for no one else reads the map,
`seq` or a timer; `queueMu` is taken inside it for the queue and `closed`, which the
worker reads in steps of its own.

| code | actions |
| --- | --- |
| `serveEvent` | `Subscribe`, `Answer`, `Release`; `Renew`; `Unsubscribe` |
| `expiryTimer`, `expireSubscriber` | `TimerFires`, `ExpireSubscriber` |
| `notifySubscribers` | `NotifySubscribers` (with the closing of those past their time) |
| `closeAllSubscribers` | `CloseAllSubscribers` |
| `runSubscriberWorker` | `WorkerTakes`, `WorkerReleased`, `WorkerLooks`, `SendEventDelivery`, `WorkerEnds` |

`left` is what is left of the 1800 s, counted down by `Tick`; a timer is always set
for the rest of its subscription, so `timer` only says whether it is set.  A timer
that has fired leaves a callback waiting for `h.mu` (`late` counts them), which
`Stop` does not recall: this is the race with a renewal.  At the very instant of
expiry `notifySubscribers` may or may not find a subscription past its time, and
the callback does.  An identifier is a fresh UUID and is used once, so a renewal
or cancellation of an unknown one is no step.

`EventChannel` says the same of (open, told, over, due, sent) without queue, worker
or timer.  Under the mapping an event that is in hand when its subscription is
closed is no longer due, unless the worker has looked at `closed` already; that is
the one event that may still follow an UNSUBSCRIBE.

### RenderingControl

`SetVolume` and `SetMute` are `Begin` (rcMu and the reads), `PlayerAnswers`,
`UpdateRecord` and `NotifyVolume`, in between which subscribers come and go.
`TurnVolume` is anybody else at the player.  `agreed` is not in the code: it says
that nothing but an answered request has set the player's volume since, the
condition under which `VolumeAgrees` can hold at all.  The 501 answers and
parsing are left out; a DesiredVolume that is no number counts as 50.

### MAClient

A caller is a goroutine of the bridge (a request, the monitor).  `call[c]` is the
call it has under way: `pc` the place in `callMAResultWithin`, `ask` what it asks,
`rest` that the operation can do without the answer (the second call of a status
whose first one told the state), `late` that its deadline has passed.  The
connection is the record `wsConn`: requests on their way up, messages on their way
down, and whether it still works (`alive`, which the adapter cannot see).

| code | actions |
| --- | --- |
| `PlayMedia`, `Resume`, `Stop`, `Pause`, `Seek`, `SetVolume`, `GetStatus`, `GetStatusWithin`, `GetState`, `PlaybackPosition` | `Begin`, `SecondCall`, and what `Continues` says of an answer |
| `lockWSWithin` | `Lock`, `LockTimesOut` |
| `connectWSLocked` | `Connected`, `Connect`, `ConnectFails`, `LoggedIn` |
| `sendWSCommandLocked` | `SendRequest`, `SendTimesOut`, `WriteFails`, `PassOver`, `TakeAnswer`, `Refused`, `ReadFails` |
| `closeWSLocked` | `CloseWS`, part of `Fail` |

The server (`Serve`, `SendChatter`, `SwitchQueue`) and the network (`Break`,
`SettleStray`) are external.  On an open connection at most one request is under way;
one that is given up becomes a stray when the connection is closed, and the server
may carry it out at any time afterwards, even after later calls.  `Transport` does
not go as far: its player carries out a failed command before the call returns.  An
answer that is not JSON, or not of the expected form, is left out (MA sends none); it
would end the call as `Refused` does.

`MACalls` says of a call: asked, carried out at most once, then `ok`; or `timeout`,
and it was never asked; or `error`, and it may still be carried out.

### Streams

One session; others share with it only `s.mu` and the counter of generations.
`struct` is a stream struct, `gens` a generation with its two goroutines: `run` is the
place in `run(gen)`, `watch` in the goroutine of the startup timeout.  A process of
`procs` is a goroutine in a method of the manager, or in `ServeHTTP`; the last
listener to leave goes on as the goroutine of the grace.  `gen` and `currentGenID` of
the code are one field: both change under `lifeMu`, under which alone the methods
modelled here read `currentGenID`.

| code | actions |
| --- | --- |
| `session.Manager`'s methods up to their call of the streamer | `CreateSession`, `PlaySession`, `ManagerResumes`, `ManagerStops`, `ManagerPauses`, `ManagerSeeks`, `ManagerStopsIf` |
| `StopIfGeneration`, `StopWithErrorIfGenerationActive`, second section | `Mark` |
| `Start` | `StartStream` |
| `Stop`, `StopIfGeneration`, `Pause`, `Seek`, `Resume`: look up, wait for `lifeMu`, look again | `LookUp`, `LockLife`, `TooLate` (with `StillCurrent`) |
| `stopLocked`, `closeClients` | `Swap`, `Kill`, `CloseClients`, `Waited` |
| `restartWithOffset`, the rest of `Resume` | the same, then `Install` |
| `run` | `Boot`, `Launched`, `Exits`, `RunReports`, `RunCallback`, `RunExits`, `RunDone` |
| the goroutine at stream.go:850 | `WatchEnds`, `TimerFires`, `WatchReports`, `WatchCallback`, `WatchClears`, `WatchKills` |
| `ServeHTTP`, `broadcast`'s drop | `Request`, `RequestFails`, `Attach`, `FirstClient`, `Drop`, `Leave`, `Grace` |

The wait for the end of a generation gives up after 2 s, so it may end at any time;
so may the startup timeouts, the grace, ffmpeg and a client.  Left out: the audio (the
ring buffer, the first segment, what a late client is sent, the writer goroutines),
presented positions, `TotalClients`, and `endCB`, which the program answers with a
method that does nothing.

### Position

A tick of the clock moves the cached position if it runs and the player if it plays,
and takes one from every guard; `Off` is a guard that is not set.  The methods of
`posCache` are operators from cache to cache.  `right` and `sure` are not in the code:
whether a report is the player's position, and whether nothing has moved the player
that the cache cannot know of.

| code | actions |
| --- | --- |
| `GetPositionInfo` (`playbackPositionForSession`) | `PollBegin`, `PollEnd` |
| the monitor and `GetTransportInfo` (`syncCurrentSessionFromBackend`) | `FindsPaused`, `FindsPlaying`, `FindsIdle` |
| `SetAVTransportURI`, `Stop` | `SetURI`, `Stop` |
| `Play` from the start, `tryRebaseFreshPlay` | `PlayFresh`, `ConfirmFresh`, `Rebased` |
| `Play` of a paused session | `PlayPaused`, `Resume`, `SeekBack`, `Confirm` |
| `Play` that is not confirmed | `PlayTimesOut` |
| `Pause` | `Pause`, `PauseCall`, `PauseConfirmed`, `PauseTimesOut` |
| `Seek` | `SeekBegin`, `SeekCall` |

The player (external) may say 0 for `ZeroFor` ticks after a pause, a resume or a seek
back, may resume from the start, counts on for a while after the seek to 0 of a rebase,
says 0 when idle, goes idle while paused, and may not answer at all.  Requests come
one at a time, since their races are the subject of `Transport`, and none meets a
session that is still starting; polls run beside them.

`sure` names what the cache is not asked to withstand.  It is lost when somebody uses
the player itself or the track ends; when a fresh `Play` begins, until its first good
report; when a paused player goes idle while `Pause` waits for it; when a `Pause` times
out; and for a resume from 2 s or less, which is not sought back.  It is lost too by a
poll that was overtaken by a request, and by a wrong report taken while the cached
position is at or below 2 s, which the guards do not protect.  It comes back with the
next report that is right, and with a position the bridge itself sets.

## 3. The runs

| run | instance | shows |
| --- | --- | --- |
| `sessions` | 5 ids, table of 3, generations 0 to 2 | `SessionsTypeOK`, `SessionsBounded`, `CurrentSpared`, `NoSilentRevival` under any client |
| `transport_concurrent` | 2 requests at a time, 4 in all, 2 sessions, 2 monitors, commands may be lost | `TypeOK`, `LockDiscipline`, `OneMonitor`, `CommandsOnCurrent`, `ExplicitSeekWins`, `ImplementsAVTransport` |
| `transport_sequential` | 1 request at a time, 4 in all, 2 sessions, 2 monitors, failed commands may be carried out, one use of MA's own interface | `OldSessionsEnded`, `NotLeftTransitioning`, `PlayingOwnSource` |
| `transport_live` | 2 requests at a time, 3 in all, of any kind, 2 monitors | `EveryRequestAnswered`, `MonitorsEnd` under `FairSpec` |
| `eventing` | 2 subscriptions of 2 services, 1 event each after the initial one, period 2 | `EventingTypeOK`, `SeqInOrder`, `NothingBeforeAnswer`, `ExpiryWatched`, `RenewalWins`, `ImplementsEventChannel`; `AbandonedExpire`, `WorkersEnd` under `EventingFairSpec` |
| `rendering` | 2 requests at a time, 4 in all, 1 subscriber, volumes below, at and above the range | `RCTypeOK`, `VolumeAgrees`, `EventsConverge` |
| `ma_client` | 2 callers, 2 operations of one or two calls each, 2 queues, one change of the active one | `ClientTypeOK`, `KeptConnectionIsClean`, `LoginComesFirst`, `QueueWasActive`, `NilMeansDone`, `ImplementsMACalls`; `OperationsReturn` |
| `streams` | 1 session, 2 callers, 1 listener, 2 structs, 3 operations, 1 client at most | `StreamsTypeOK`, `RunTracking`, `TimeoutSparesListeners`, `NoStrandedClients` |
| `position` | positions to 7, guards and holds of 5, stale zeros of 3 ticks, 1 tick of slack | `PositionTypeOK`, `AnswersNearPlayer`, `ResumesInPlace` |
| `transport_stuck` | 2 requests at a time, 3 in all | violation of `NotLeftTransitioning` |
| `transport_event` | 1 request at a time, 2 monitors | violation of `EventOnlyForCurrent` |
| `transport_pause` | 1 request at a time, 3 uses of MA's own interface | violation of `PauseReflected` under `FairSpec` |

*Bounds.*  `Ids` bounds the sessions, `MaxRequests` the requests, `Slots` how many
are in progress, `Monitors` the goroutines alive, `MaxExternal` the uses of MA's
interface.  Five ids and a table of three fill the table and evict twice, the
second time with an evicted id behind.  Two sessions are one replaced and one
current.  Two concurrent requests give every race of a pair; four in all let
such a race begin from any state that two requests lead to (loaded, starting,
playing, paused, stopped, error).  Two monitors are the cancelled one and its
successor.  The properties of the concurrent run are also proved without any of
these bounds, those of the sequential run without any but the one on `Slots`.  When all requests are used and answered
the model may rest (`Rested`), so deadlock is checked in every run.

In `eventing`, `MaxSeq` bounds the events of a subscription and `MaxLate` the
callbacks of its timer that wait for the mutex: with the initial event a queue
holds two, enough to be out of order, and two callbacks are one from before and
one from after a renewal.  A `Period` of 2 lets a subscription be renewed before
and after time has passed.  In `rendering`, `MaxCommands` counts the requests and
the turns of the player's volume; four of them mute, set a volume meanwhile,
unmute and mute again, each of which may fail; there a subscription lasts one
tick, since expiry is the subject of the other run.

In `ma_client` two operations make up to four calls and two logins, on a connection
that is new, kept, or broken meanwhile; `MaxChatter` is how many messages may wait
when the server sends one unasked.  Nothing is asked of the server there: a silent
one, and one that sends events without end, are among the behaviours.  The safety
properties are proved without these bounds.

In `streams` every operation begun is counted, a client's request too, and each
generation takes a number, so there are at most three of each.  A start, a restart and a
resume are three generations of one struct; a start, a stop and a start are two
structs; and each race of two methods, of a method with a client, or of either with the
goroutines of a generation that is over needs no more than a start and two operations.
The theorems hold without these bounds.

In `position` a tick stands for half a second of the fresh start (`FreshMin` is 0.5 s in
the code, `FreshMax` and `FreshHold` are 3 s, one tick more); `ZeroLimit` (2 s) and
`Guard` (10 s) are shortened, and their order to the others is kept by `PositionAssumption`.
`Slack` is how long a request or poll may be under way.  The assumption
`ZeroFor + 2 * Slack <= Guard` is about the player: a stale zero that outlives the
guard is believed, and nothing in the code could tell.  `Tolerance` is what an
answer may be off, `ZeroLimit + 2 * Slack`; with one less `AnswersNearPlayer` is
false, because a position at or below `ZeroLimit` is not guarded.  The theorems hold
for every value of these that satisfies `PositionAssumption`, the ones of the code
among them, and every `Tolerance` from there on.

*Symmetry* is over ids, over slots and over monitors, over requests, or over structs
and callers; never with liveness.

*Fairness.*  `FairSpec` assumes weak fairness of each process (the Go scheduler
runs every goroutine that can run), strong fairness of giving up (the deadline
of a confirmation wait passes, however often the loop goes round before), and
strong fairness of a monitor's exit (`select` chooses at random between a
cancelled context and a tick).  Nothing is assumed of the player.  The mutex
needs no strong fairness here because the requests that compete for it are
finitely many.  `EventingFairSpec` assumes that time passes while a subscription
is open, that a timer that is due fires and its callback gets the mutex, that an
answer to SUBSCRIBE is written and its handler goes on, and that a worker that
can run does; a control point need never renew or cancel, and events need
never happen.  `MAClient`'s `Spec` assumes that goroutines run and that deadlines
pass.

### Findings

- **`transport_stuck`** (upnp.go:1806).  `Play` takes its ticket and later sets the
  session starting, neither under `maCommandMu`.  A `Stop` in between is
  overwritten; the Play's ticket is then not the latest, so it hands over to
  `reconcileLatePlayCompletion`, which does nothing for a session that is
  starting.  The transport stays TRANSITIONING until another request.
- **`transport_event`** (upnp.go:371).  The check of `notifyCurrentSession` and the
  event are two critical sections; an event of a replaced session can follow
  the new session's STOPPED.
- **`transport_pause`** (upnp.go:430).  The debounce reports the first pause made on
  the player and no later one, because nothing resets `lastEmitted`.

With two requests at a time `OldSessionsEnded` and `NotLeftTransitioning` do not
hold (the races of the first finding and of upnp.go:1752), which is why they are
stated for one request at a time.  Four more candidates were tried and are false
in the code even for one request at a time, by races of a stale monitor or of
Pause's time limit: that a pause guard is released when no request is in
progress, that PLAYING implies a live monitor, that a session never goes from
an ended state to paused, and that the last event equals the transport state.
No document promises them; they are kept as hazards with a note.

The same holds of what was met in the last two models.  In stream.go the startup
timeout clears `active` outside `genMu` (864), and `Resume` reads it before it waits for
`lifeMu` (468): after either, a generation can run that no later `Stop` kills.  `Start`
does not take `lifeMu`, although the comment at 49 says the lifecycle methods are
serialized by it; nothing was found to go wrong by that alone, since the struct it makes
is new.  The grace checks that nobody listens and stops the stream in two steps (770), so a
client that comes in between is cut off.  In upnp.go a position may be off after a poll
whose status was read before a `Seek` or `Pause` (703); after a good report that lifts
the guard between its setting (2019) and the player's pause, for the zero of an idle
player is refused at 695 but not at 2034; after a failed request, whose position and
guard stay for the next `Play` (1861, 2023); and while a player that somebody resumed
is found playing, since the frozen estimate is not set going (657).  `sure` exempts
these cases, so `AnswersNearPlayer` and `ResumesInPlace` hold outside of them.

### What the properties leave open

Some hazards are what the code does, so no property excludes them, and some properties
are narrower than their names:

- A `Pause` whose session ends between its check and `Manager.Pause` takes it from stopped
  to paused (upnp.go:2017).  `Hold` of `AVTransport` allows it.
- A `Stop` that waited behind a `SetAVTransportURI` stops the player under the new session
  (upnp.go:1966).  The properties of the table do not see it, for the old record is
  stopped already, and `PlayingOwnSource` is about the source, not about whether it plays.
- `VolumeAgrees` says that record and player have the same volume, not which one an unmute
  goes back to.
- `ExplicitSeekWins` is about the seek of `tryRebaseFreshPlay`, not about the seek back of a
  resume (upnp.go:1865): the code looks for a newer `Seek` before that one too, but not
  under `maCommandMu`, so a `Seek` accepted in between may be undone.
- `QueueWasActive` says that the queue of a command was active at some time during its
  operation, which is as much as the code can know.
- `transport_live` has three requests and two monitors, so at most two requests meet, with
  at most two monitors alive at a time; the liveness properties are not proved.

## 4. The proofs

Everything below holds for every value of the constants that satisfies
`SessionsAssumption`, `PlayerAssumption` and `TransportAssumption`, for the event
modules `EventingAssumption` and `RenderingAssumption`, for the streamer
`SessionsAssumption` and `StreamsAssumption`, for the client `ClientAssumption`, and for
the cache `PositionAssumption`; so for any number of sessions, requests, monitors,
sources, subscriptions, callers, queues, listeners and generations, and any durations.
Two groups of theorems have a hypothesis of their own, named where they are described:
one slot, and the tolerance of a position.

`Sessions_proofs`

- `SessionsTypeCorrect`: the type invariant is inductive.
- `SessionsBoundedTheorem`: `SessionsBounded` is inductive with the type
  invariant.  The interesting step is `CreateWithBase`: a table at its bound of
  at least 2 has a session that is not current and has just been stopped, so
  `Victims` is not empty and the new session takes the place of one that goes.
- `CurrentSparedTheorem`, `NoSilentRevivalTheorem`: action properties, from the
  type invariant, by the methods.

`Transport_proofs`

- `TypeCorrect`.  The strengthening over plain types is that every process past
  its first steps has a session (`ProcessesTypeOK`'s last conjunct), without which
  a call of a method would not be typed.  The proof goes by handler, with
  lemmas for the ways a process moves (`GotoMoves` and its like).
- `TransportImplementsSessions`: `Spec => SessionsSpec`.  Each step is a method of
  the table or leaves it alone (`StepManaged`).  With it, `SessionsSafeInTransport`
  carries the three safety properties of the table over to the handlers.  `UsesManager`
  says which method a step uses and from which label, for the proofs below to build on.
- `LockDisciplineTheorem`: inductive by itself: each step that enters or leaves the
  labels of `Locked` takes or releases the mutex (`LockStep`).
- `OneMonitorTheorem`: inductive with the types.
- `CommandsOnCurrentTheorem`: the session of a process in `Commanding` was current
  when it was checked, and only `CreateWithBase` changes the current one; that
  needs the mutex, which the process in `Commanding` holds (`LockDiscipline`).
- `ExplicitSeekWinsTheorem`: likewise, with `positionSeq`, which only `SeekRecheck`
  advances and only under the mutex.

`Eventing_proofs`

- The inductive invariant is `EventingInv`: the types and, for each subscription,
  `Life` (unused, open or closed; the worker is born with it; nothing is queued
  once it is closed), `InOrder`, `Answered` and `Watched`.  The last three are the
  properties themselves, but none is inductive alone: a worker that takes a
  delivery must find the number it expects, so `InOrder` needs that nothing is
  queued for an unused or closed subscription, and `Answered` needs that only the
  delivery with number 0 waits at the gate, which `InOrder` tells.
- A step of one subscription does not touch the others (`OthersSame`, `SameGood`), so
  each step is proved for its own subscription only; closing and events, which
  touch many at once, have lemmas of their own (`ClosedGood`, `NotifyGood`).
- `SeqInOrderTheorem`, `NothingBeforeAnswerTheorem`, `ExpiryWatchedTheorem` follow;
  `RenewalWinsTheorem` needs the types only.
- `ImplementsEventChannelTheorem`: `ChannelStep` maps each step.  Closing maps to
  `Happen` because what is due afterwards, the delivery being sent at most, is not
  more than was due before (`InOrder`); sending maps to `Send` because what is in
  hand was due (`InOrder`) and the control point was told (`Answered`).

`RenderingControl_proofs`

- `RCImplementsEventing`: the service uses the subscriptions only through their
  operations, so the theorems above hold in it.
- `VolumeAgreesTheorem`: the strengthening `CallOK` says that a request that is not
  idle holds `rcMu`, that what it read is still the record, that the level it sends
  fits what it will record, and that what it tells is the record.
- `EventsConvergeTheorem`: inductive in the form "a request has an event to send, or
  the last event of every subscriber is the record", with `CallOK`.

`Streams_proofs`

- `StreamsTypeCorrect`, and `StreamsImplementSessions`: `StreamsSpec => SessionsSpec`.
  Each step of the streamer, its goroutines and listeners is a method of the manager
  or leaves the table alone (`StepOfManager`), so the theorems of `Sessions_proofs` hold
  with a streamer beside the table.
- The three properties follow from `StreamsInv`: the types and five parts, each with a
  lemma that every step preserves it.  `Numbered`: a generation that is about to be
  installed has a number no other has.  `Known`: who waits for `lifeMu` or holds it works
  on a struct that was started, the holder is the one the mutex names, and the
  generation of a struct is its own.  Both are what the rest needs to tell one
  generation and one holder from another.
- `RunTrackingTheorem` is `Tracked` where `lifeMu` is free.  While it is held the
  property is false (`Resume` counts its run before it installs it), so `Tracked` says
  what `runsInFlight` is for a holder about to install; the clean-up of a generation that
  is not current must leave it alone, which is the check the code makes under `genMu`.
- `TimeoutSparesListenersTheorem` is a part of `OutOfService`: a generation that the
  timeout has chosen, or whose run has ended, is not active, and `Attach` looks at that in
  the same section of `clientsMu` in which `TimerFires` decides.
- `NoStrandedClientsTheorem` needs `Closing`, which says of a cancelled generation too
  that its clients have somebody at `CloseClients`; that somebody holds `lifeMu`
  (`Known`), so the generation of the struct is still the one it is closing.  `OutOfService`
  keeps others from attaching afterwards.

`MAClient_proofs`

- The inductive invariant is `ClientInv`: the types and four parts.  `MutexOK`: whoever is
  between `lockWSWithin` and its release holds the mutex.  `ConnOK`: what is on the
  connection is what its holder has reason to expect (`HolderOK`): nothing but chatter
  before it writes, and afterwards either its request on the way up, or one answer to
  it on the way down, or neither.  Only with "not both, and not yet carried out"
  (`Asks`) is a request carried out at most once.  `CallsOK`: the target of a command was
  active since the operation began.  `StraysOK`: what is given up has an old number, so
  no answer to it can be taken for one to a later call, and no later call has its number.
- `ConnectionIsClean`, `NothingBeforeLogin` and `CommandsGoWhereAsked` follow.  The first
  is `ConnOK` where the mutex is free: it is not inductive alone, since a call leaves a
  clean connection only if it has read all it asked for, and closes it otherwise.
- `NilIsDone`: a call that returns no error has taken a result, and a result on its way
  down means that the request was carried out (`HolderOK` at `read`).
- `CallsAreKept`: each step maps to one of `MACalls` or to a stutter.  `Fail` maps to a call
  that ends in an error while its request may still be carried out, because it becomes
  a stray; `SettleStray` carries out one of those that nobody claims any more, or drops it.

`Position_proofs`

- The inductive invariant is `PositionInv`: types, `WorldOK` (what the player may say that
  is wrong, and for how long), `CacheOK` (how far cache and player are apart), `PhaseOK` and
  `SureOK` (what each step of a request finds), `WantOK` (where a resume is bound to end)
  and `PollOK` (what a poll carries while it is under way).
- The distances are not one number.  With no request under way the cache is ahead by at
  most a seek's delay and behind by at most a poll's and a pause's.  During `seekBack` and
  `confirm` it depends on how long the call has been under way (`waited`).
- The guards are the reason that any of it is inductive: as long as the player may say a
  stale zero for `left` more ticks, `guardZero` lasts `Slack` longer (`ZeroGuarded`), so a
  poll that has read the zero already is still met by the guard when it comes in.  `Held`
  says the same of the old position after a rebase.
- A report from the start ends the hold even when the zero guard then refuses it
  (`Unheld`, upnp.go:191-194).  That does no harm: while the hold is needed the cache is not
  ahead of the player, so a report that near the start would not have been refused
  (`Estimated` says what is left of the cache, `PollWrong` that a poll with an old zero
  does not meet the player counting on).
- `AnswersAreNear` and `ResumesAreInPlace` assume `ZeroLimit + 2 * Slack <= Tolerance`: TLC
  has a counterexample for a smaller tolerance.

`AVTransport_proofs`

- `TransportImplementsAVTransport`.  A step changes at most one session by one method of
  the manager (`UseChanges`) or creates one (`CreateLoads`), and each of these is a legal
  move as it stands but one: a mark that makes a session playing which was loaded and
  never started.  `StartedOK` excludes it: whoever is about a session still loaded is a
  `Play` or a `Stop` that has just begun, or sends an event that nothing follows.  It
  needs the labels and `snap`, since a request acts on what it read before it waited.
- `OldSessionsEndedTheorem`, `NotLeftTransitioningTheorem`, `PlayingOwnSourceTheorem` have
  the hypothesis `Slots = {s}`: one request at a time, by any number of control points,
  beside any number of monitors and any use of the player.  With two requests the first
  two are false (see the findings), and the third has only been checked for one.
- None of the three is inductive alone; `Alone` is their conjunction with what they
  need.  `SlotIsCurrent`: a request is about the current session.  `PlayIsLatest`: the
  ticket of a `Play` under way is the latest, so it never hands over and its session does
  not stay starting.  `StartIsPending`: a session is starting only while its `Play` is
  between the start and its end.  `SourceIsOwn`: the player has the source of the current
  session, or that session is one no monitor watches, no request marks, and no
  `Play` has sent (`NotSent`); the monitor of a replaced session, which may live on, is
  about another session, and so cannot mark this one as playing.

Left to TLC: the liveness properties `EveryRequestAnswered`, `MonitorsEnd`, `WorkersEnd`,
`AbandonedExpire` and `OperationsReturn`.  They rest on fairness and on which actions are
enabled, and TLAPS reasons about neither here.

## 5. Not modelled, and the plan

In order:

1. `IdleDebounce` over discrete time: the 10 s window, and the idle time carried over a
   pause (upnp.go:489).
2. `RingBuffer` with the replay of a late client (`attachClient`, `broadcast`, the first
   segment, the writer goroutines).
3. Pure parts: the URL policy, duplicate suppression of M-SEARCH.

Left out for good: XML of device and service descriptions, SOAP and DIDL
parsing, configuration files, status pages, logging, build files: constant data,
text conversion or I/O without state of the program's own.
