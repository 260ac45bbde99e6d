------------------------------- MODULE Streams -------------------------------
(***************************************************************************)
(* stream.Streamer (internal/stream/stream.go) for one session, driven by  *)
(* session.Manager (module Sessions) and by the HTTP clients of /live.     *)
(*                                                                         *)
(* A stream struct has one generation at a time; each generation that is   *)
(* run has a goroutine with an ffmpeg process and a goroutine that watches *)
(* for the startup timeout.  Stop, Pause and Seek end a generation, Pause  *)
(* and Seek install one that is not run yet, Resume one that is.  Start    *)
(* makes a new struct; what still works on the old one goes on with it.    *)
(*                                                                         *)
(* A process is a goroutine in a method of the manager (Callers) or in     *)
(* ServeHTTP (Listeners); the last listener to leave goes on as the        *)
(* goroutine of the no-client grace.  A step makes one access to shared    *)
(* state, or several of which no other process can see the middle.         *)
(*                                                                         *)
(* Left out: the audio, positions, other sessions (they share s.mu and the *)
(* counter only), and endCB, which the running program answers with a      *)
(* method that does nothing.                                               *)
(***************************************************************************)
EXTENDS Sessions

CONSTANTS
    Sid,          \* the session
    Objs,         \* the stream structs Start may allocate
    NoStream,
    Callers, Listeners,
    Nobody,       \* the holder of a mutex that is free
    MaxClients,   \* MaxClientsPerSession
    MaxOps        \* bound on the operations begun

ASSUME StreamsAssumption ==
    /\ Sid \in Ids
    /\ NoStream \notin Objs
    /\ Callers \cap Listeners = {}
    /\ Nobody \notin Callers \cup Listeners
    /\ MaxOps \in Nat /\ MaxClients \in Nat
    /\ Gens = 1 .. MaxOps

Procs == Callers \cup Listeners

VARIABLES
    streams,     \* s.streams[Sid], NoStream when absent
    nextGenID,   \* bounded by Gens, of which there are as many as operations
    struct,      \* stream: gen (also currentGenID; 0 before Start), active, runs (runsInFlight), lifeMu
    gens,        \* streamGeneration: owner, run and watch (where its goroutines are), active,
                 \* cancelled (its ctx), failed (its err), heard (its firstClient), clients
    procs,       \* pc, st, gn (gen, genID or newGen), call (the method of the streamer it is in)
    ops          \* operations begun

streamVars == <<streams, nextGenID, struct>>
vars == <<sessionsVars, streamVars, gens, procs, ops>>

NewGen == [owner |-> NoStream, run |-> "none", watch |-> "none", active |-> FALSE,
           cancelled |-> FALSE, failed |-> FALSE, heard |-> FALSE, clients |-> {}]

IsActive(o) == o # NoStream /\ struct[o].active
IsCurrent(g) == struct[gens[g].owner].gen = g
Started(g) == gens[g].run \notin {"none", "boot"}
\* between its launch and the section in which run gives up runsInFlight
Running(g) == gens[g].run \in {"boot", "launched", "reading", "failing", "callback", "exit"}

At(p, label) == procs[p].pc = label
Go(p, label) == procs' = [procs EXCEPT ![p].pc = label]

-----------------------------------------------------------------------------
(* The manager's methods, up to their call of the streamer *)

Begin(p, call, g) ==
    /\ At(p, "idle") /\ ops < MaxOps
    /\ ops' = ops + 1
    /\ procs' = [procs EXCEPT ![p].pc = "look", ![p].call = call, ![p].gn = g]
    /\ UNCHANGED <<streamVars, gens>>

CreateSession == CreateWithBase(Sid) /\ UNCHANGED <<streamVars, gens, procs, ops>>

\* Play of a session that is not paused leaves the streamer alone.
PlaySession ==
    /\ sessions[Sid] # "paused"
    /\ Play(Sid)
    /\ UNCHANGED <<streamVars, gens, procs, ops>>

\* Play of a paused session, and the manager's Resume
ManagerResumes(p) ==
    /\ \/ sessions[Sid] = "paused" /\ Play(Sid)
       \/ Exists(Sid) /\ UNCHANGED sessionsVars
    /\ Begin(p, "resume", 0)

ManagerStops(p) == Stop(Sid) /\ Begin(p, "stop", 0)

ManagerPauses(p) == Pause(Sid) /\ Begin(p, "restart", 0)

ManagerSeeks(p) ==
    /\ \/ Seek(Sid)
       \/ sessions[Sid] \notin Active /\ UNCHANGED sessionsVars
    /\ Begin(p, "restart", 0)

\* StopIfGeneration and StopWithErrorIfGenerationActive
ManagerStopsIf(p, g) ==
    /\ \/ CanStopIfGeneration(Sid, g) /\ Begin(p, "stopIf", g)
       \/ IsCurrentGenerationActive(Sid, g) /\ Begin(p, "stopError", g)
    /\ UNCHANGED sessionsVars

\* Start does all under s.mu and takes no lifeMu: the struct it makes is not known to anyone.
StartStream(p) ==
    /\ At(p, "idle") /\ ops < MaxOps
    /\ ops' = ops + 1
    /\ Exists(Sid) /\ ~IsActive(streams)
    /\ nextGenID \in Gens
    /\ \E o \in Objs :
          /\ struct[o].gen = 0
          /\ streams' = o
          /\ struct' = [struct EXCEPT ![o] = [gen |-> nextGenID, active |-> TRUE, runs |-> 1,
                                              lifeMu |-> Nobody]]
          /\ gens' = [gens EXCEPT ![nextGenID].owner = o, ![nextGenID].run = "boot"]
    /\ nextGenID' = nextGenID + 1
    /\ SetSessionGenID(Sid, nextGenID)
    /\ UNCHANGED procs

-----------------------------------------------------------------------------
(* Stop, StopIfGeneration, Pause, Seek, Resume: each looks the struct up    *)
(* under s.mu and then waits for its lifeMu.                                *)

Call(p) == procs[p].call
StopsIf(p) == Call(p) \in {"stopIf", "stopError"}

\* Without a stream there is nothing to do; StopIfGeneration then reports success.
LookUp(p) ==
    LET here == streams # NoStream /\ (Call(p) = "resume" => IsActive(streams)) IN
    /\ At(p, "look")
    /\ \/ ~here /\ Go(p, IF StopsIf(p) THEN "mark" ELSE "idle")
       \/ here /\ procs' = [procs EXCEPT ![p].pc = "lock", ![p].st = streams]
    /\ streams' = IF Call(p) = "stop" THEN NoStream ELSE streams
    /\ UNCHANGED <<sessionsVars, nextGenID, struct, gens, ops>>

\* stillCurrent and its like: what a method looks at again when it has lifeMu
StillCurrent(p) ==
    LET o == procs[p].st IN
    \/ Call(p) = "stop"
    \/ Call(p) = "restart" /\ streams = o
    \/ Call(p) = "resume" /\ streams = o /\ struct[o].runs = 0
    \/ StopsIf(p) /\ streams = o /\ procs[p].gn \in {0, struct[o].gen}

\* Resume takes the number of its generation here; others know it when it is installed.
LockLife(p) ==
    LET o == procs[p].st  resume == Call(p) = "resume" IN
    /\ At(p, "lock") /\ struct[o].lifeMu = Nobody
    /\ StillCurrent(p)
    /\ resume => nextGenID \in Gens
    /\ struct' = [struct EXCEPT ![o].lifeMu = p, ![o].runs = IF resume THEN 1 ELSE @]
    /\ streams' = IF StopsIf(p) THEN NoStream ELSE streams
    /\ procs' = [procs EXCEPT ![p].pc = IF resume THEN "install" ELSE "swap",
                              ![p].gn = IF resume THEN nextGenID ELSE @]
    /\ nextGenID' = IF resume THEN nextGenID + 1 ELSE nextGenID
    /\ UNCHANGED <<sessionsVars, gens, ops>>

TooLate(p) ==
    /\ At(p, "lock") /\ struct[procs[p].st].lifeMu = Nobody
    /\ ~StillCurrent(p)
    /\ Go(p, IF StopsIf(p) /\ streams = NoStream THEN "mark" ELSE "idle")
    /\ UNCHANGED <<sessionsVars, streamVars, gens, ops>>

\* A stop releases lifeMu; a generation-checked one goes back to the table.
Stopped(p) ==
    /\ struct' = [struct EXCEPT ![procs[p].st].lifeMu = Nobody]
    /\ Go(p, IF StopsIf(p) THEN "mark" ELSE "idle")

\* stopLocked and restartWithOffset: only who finds active set ends the generation.
Swap(p) ==
    LET o == procs[p].st IN
    /\ At(p, "swap")
    /\ \/ struct[o].active /\ struct' = [struct EXCEPT ![o].active = FALSE] /\ Go(p, "kill")
       \/ ~struct[o].active /\ Call(p) = "restart" /\ Go(p, "wait") /\ UNCHANGED struct
       \/ ~struct[o].active /\ Call(p) # "restart" /\ Stopped(p)
    /\ UNCHANGED <<sessionsVars, streams, nextGenID, gens, ops>>

\* As long as lifeMu is held the generation of the struct is the one that was read.
Kill(p) ==
    LET g == struct[procs[p].st].gen IN
    /\ At(p, "kill")
    /\ gens' = [gens EXCEPT ![g].active = FALSE, ![g].cancelled = TRUE]
    /\ Go(p, "close")
    /\ UNCHANGED <<sessionsVars, streamVars, ops>>

CloseClients(p) ==
    /\ At(p, "close")
    /\ gens' = [gens EXCEPT ![struct[procs[p].st].gen].clients = {}]
    /\ Go(p, "wait")
    /\ UNCHANGED <<sessionsVars, streamVars, ops>>

\* The wait for gen.done ends after 2 s at the latest, so it may end at any time.
Waited(p) ==
    /\ At(p, "wait")
    /\ \/ /\ Call(p) = "restart" /\ nextGenID \in Gens
          /\ struct' = [struct EXCEPT ![procs[p].st].runs = 0]
          /\ procs' = [procs EXCEPT ![p].pc = "install", ![p].gn = nextGenID]
          /\ nextGenID' = nextGenID + 1
       \/ Call(p) # "restart" /\ Stopped(p) /\ UNCHANGED nextGenID
    /\ UNCHANGED <<sessionsVars, streams, gens, ops>>

\* One section of genMu; the generation of a restart is not run, and makes the stream active.
Install(p) ==
    LET o == procs[p].st  g == procs[p].gn  restart == Call(p) = "restart" IN
    /\ At(p, "install")
    /\ struct' = [struct EXCEPT ![o].gen = g, ![o].lifeMu = Nobody, ![o].active = @ \/ restart]
    /\ gens' = [gens EXCEPT ![g].owner = o, ![g].run = IF restart THEN "none" ELSE "boot"]
    /\ SetSessionGenID(Sid, g)
    /\ Go(p, "idle")
    /\ UNCHANGED <<streams, nextGenID, ops>>

\* The second section of the manager's two methods
Mark(p) ==
    LET g == procs[p].gn IN
    /\ At(p, "mark")
    /\ IF Call(p) = "stopIf"
       THEN \/ StopIfGeneration(Sid, g)
            \/ ~CanStopIfGeneration(Sid, g) /\ UNCHANGED sessionsVars
       ELSE \/ StopWithErrorIfGenerationActive(Sid, g)
            \/ ~IsCurrentGenerationActive(Sid, g) /\ UNCHANGED sessionsVars
    /\ Go(p, "idle")
    /\ UNCHANGED <<streamVars, gens, ops>>

-----------------------------------------------------------------------------
(* run(gen) *)

RunAt(g, label) == gens[g].run = label
RunGo(g, label) == gens' = [gens EXCEPT ![g].run = label]

\* exec refuses to start a process for a context that is done.
Boot(g) ==
    /\ RunAt(g, "boot")
    /\ \/ ~gens[g].cancelled /\ RunGo(g, "launched")
       \/ RunGo(g, "failing")
    /\ UNCHANGED <<sessionsVars, streamVars, procs, ops>>

\* gen.active is set, started closed, and the watch begins.
Launched(g) ==
    /\ RunAt(g, "launched")
    /\ gens' = [gens EXCEPT ![g].run = "reading", ![g].active = TRUE, ![g].watch = "waiting"]
    /\ UNCHANGED <<sessionsVars, streamVars, procs, ops>>

\* ffmpeg ends, or is killed; its error is one only while the context is not done.
Exits(g) ==
    /\ RunAt(g, "reading")
    /\ \/ RunGo(g, "exit")
       \/ /\ ~gens[g].cancelled
          /\ gens' = [gens EXCEPT ![g].run = "failing", ![g].failed = TRUE]
    /\ UNCHANGED <<sessionsVars, streamVars, procs, ops>>

\* reportError has two steps, its check and its callback, in run as in the watch.
MayReport(g) == ~gens[g].cancelled /\ IsCurrent(g)

\* What main has the error callback do
ErrorCallback(g) ==
    \/ SetErrorIfGeneration(Sid, g)
    \/ ~CanSetError(Sid, g) /\ UNCHANGED sessionsVars

RunReports(g) ==
    /\ RunAt(g, "failing")
    /\ \/ /\ MayReport(g)
          /\ gens' = [gens EXCEPT ![g].run = "callback", ![g].failed = TRUE]
       \/ ~MayReport(g) /\ RunGo(g, "exit")
    /\ UNCHANGED <<sessionsVars, streamVars, procs, ops>>

RunCallback(g) ==
    /\ RunAt(g, "callback")
    /\ ErrorCallback(g)
    /\ RunGo(g, "exit")
    /\ UNCHANGED <<streamVars, procs, ops>>

\* mutant: an old generation gives up the run of a newer one
RunExitsUnchecked(g) ==
    LET o == gens[g].owner IN
    /\ RunAt(g, "exit")
    /\ gens' = [gens EXCEPT ![g].run = "closing", ![g].active = FALSE]
    /\ struct' = [struct EXCEPT ![o].runs = 0, ![o].active = @ /\ gens[g].cancelled]
    /\ UNCHANGED <<sessionsVars, streams, nextGenID, procs, ops>>

\* mutant: likewise, and by counting down
RunExitsCountsDown(g) ==
    LET o == gens[g].owner IN
    /\ RunAt(g, "exit")
    /\ gens' = [gens EXCEPT ![g].run = "closing", ![g].active = FALSE]
    /\ struct' = [struct EXCEPT ![o].runs = @ - 1, ![o].active = @ /\ gens[g].cancelled]
    /\ UNCHANGED <<sessionsVars, streams, nextGenID, procs, ops>>

\* The deferred section: under genMu, only the current generation touches the struct.
RunExits(g) ==
    LET o == gens[g].owner IN
    /\ RunAt(g, "exit")
    /\ gens' = [gens EXCEPT ![g].run = "closing", ![g].active = FALSE]
    /\ IF IsCurrent(g)
       THEN struct' = [struct EXCEPT ![o].runs = 0, ![o].active = @ /\ gens[g].cancelled]
       ELSE UNCHANGED struct
    /\ UNCHANGED <<sessionsVars, streams, nextGenID, procs, ops>>

\* mutant: who is still attached when ffmpeg ends is forgotten
RunDoneOpen(g) ==
    /\ RunAt(g, "closing")
    /\ RunGo(g, "done")
    /\ UNCHANGED <<sessionsVars, streamVars, procs, ops>>

RunDone(g) ==
    /\ RunAt(g, "closing")
    /\ gens' = [gens EXCEPT ![g].run = "done", ![g].clients = IF gens[g].cancelled THEN @ ELSE {}]
    /\ UNCHANGED <<sessionsVars, streamVars, procs, ops>>

-----------------------------------------------------------------------------
(* The startup timeout *)

WatchAt(g, label) == gens[g].watch = label
WatchGo(g, label) == gens' = [gens EXCEPT ![g].watch = label]

WatchEnds(g) ==
    /\ WatchAt(g, "waiting")
    /\ gens[g].heard \/ RunAt(g, "done")
    /\ WatchGo(g, "done")
    /\ UNCHANGED <<sessionsVars, streamVars, procs, ops>>

\* mutant: the timeout decides without taking the generation out of service
TimerLeavesActive(g) ==
    LET unheard == IsCurrent(g) /\ gens[g].clients = {} /\ gens[g].active IN
    /\ WatchAt(g, "waiting")
    /\ \/ unheard /\ WatchGo(g, "report")
       \/ ~unheard /\ WatchGo(g, "done")
    /\ UNCHANGED <<sessionsVars, streamVars, procs, ops>>

\* The section of clientsMu.  With several channels ready, select takes any.
TimerFires(g) ==
    LET unheard == IsCurrent(g) /\ gens[g].clients = {} /\ gens[g].active IN
    /\ WatchAt(g, "waiting")
    /\ \/ unheard /\ gens' = [gens EXCEPT ![g].watch = "report", ![g].active = FALSE]
       \/ ~unheard /\ WatchGo(g, "done")
    /\ UNCHANGED <<sessionsVars, streamVars, procs, ops>>

WatchReports(g) ==
    /\ WatchAt(g, "report")
    /\ \/ /\ MayReport(g)
          /\ gens' = [gens EXCEPT ![g].watch = "callback", ![g].failed = TRUE]
       \/ ~MayReport(g) /\ WatchGo(g, "clear")
    /\ UNCHANGED <<sessionsVars, streamVars, procs, ops>>

WatchCallback(g) ==
    /\ WatchAt(g, "callback")
    /\ ErrorCallback(g)
    /\ WatchGo(g, "clear")
    /\ UNCHANGED <<streamVars, procs, ops>>

\* Not under genMu, and whatever the generation of the struct is by now
WatchClears(g) ==
    /\ WatchAt(g, "clear")
    /\ struct' = [struct EXCEPT ![gens[g].owner].active = FALSE]
    /\ WatchGo(g, "kill")
    /\ UNCHANGED <<sessionsVars, streams, nextGenID, procs, ops>>

WatchKills(g) ==
    /\ WatchAt(g, "kill")
    /\ gens' = [gens EXCEPT ![g].watch = "done", ![g].cancelled = TRUE]
    /\ UNCHANGED <<sessionsVars, streamVars, procs, ops>>

-----------------------------------------------------------------------------
(* ServeHTTP *)

Request(p) ==
    /\ At(p, "idle") /\ ops < MaxOps
    /\ ops' = ops + 1
    /\ IsActive(streams)
    /\ procs' = [procs EXCEPT ![p].pc = "waiting", ![p].st = streams, ![p].gn = struct[streams].gen]
    /\ UNCHANGED <<sessionsVars, streamVars, gens>>

\* 503 at the startup timeout of the request, 500 after an error of the generation
RequestFails(p) ==
    /\ At(p, "waiting")
    /\ ~Started(procs[p].gn) \/ gens[procs[p].gn].failed
    /\ Go(p, "idle")
    /\ UNCHANGED <<sessionsVars, streamVars, gens, ops>>

CanAttach(p) ==
    LET o == procs[p].st  g == procs[p].gn IN
    /\ struct[o].gen = g /\ struct[o].active
    /\ gens[g].active /\ ~gens[g].cancelled /\ ~gens[g].failed
    /\ Cardinality(gens[g].clients) < MaxClients

\* The section of clientsMu, after the wait for started
Attach(p) ==
    LET g == procs[p].gn IN
    /\ At(p, "waiting") /\ Started(g)
    /\ \/ /\ CanAttach(p)
          /\ gens' = [gens EXCEPT ![g].clients = @ \cup {p}]
          /\ Go(p, "attached")
       \/ ~CanAttach(p) /\ Go(p, "idle") /\ UNCHANGED gens
    /\ UNCHANGED <<sessionsVars, streamVars, ops>>

FirstClient(p) ==
    /\ At(p, "attached")
    /\ gens' = [gens EXCEPT ![procs[p].gn].heard = TRUE]
    /\ Go(p, "listening")
    /\ UNCHANGED <<sessionsVars, streamVars, ops>>

\* broadcast drops a client that is too slow.
Drop(p) ==
    LET g == procs[p].gn IN
    /\ procs[p].pc \in {"attached", "listening"} /\ p \in gens[g].clients
    /\ RunAt(g, "reading") /\ struct[procs[p].st].active
    /\ gens' = [gens EXCEPT ![g].clients = @ \ {p}]
    /\ UNCHANGED <<sessionsVars, streamVars, procs, ops>>

\* The client hangs up, or was dropped or closed.
Leave(p) ==
    LET g == procs[p].gn IN
    /\ At(p, "listening")
    /\ gens' = [gens EXCEPT ![g].clients = @ \ {p}]
    /\ Go(p, IF gens[g].clients \subseteq {p} THEN "grace" ELSE "idle")
    /\ UNCHANGED <<sessionsVars, streamVars, ops>>

\* When the grace has passed the map is read, then the clients; Stop comes after both.
Grace(p) ==
    LET o == procs[p].st  g == procs[p].gn IN
    /\ \/ At(p, "grace") /\ Go(p, IF streams = o THEN "graceLook" ELSE "idle")
       \/ /\ At(p, "graceLook") /\ struct[o].gen = g /\ gens[g].clients = {}
          /\ procs' = [procs EXCEPT ![p].pc = "look", ![p].call = "stop"]
       \/ /\ At(p, "graceLook") /\ ~(struct[o].gen = g /\ gens[g].clients = {})
          /\ Go(p, "idle")
    /\ UNCHANGED <<sessionsVars, streamVars, gens, ops>>

-----------------------------------------------------------------------------
StreamsInit ==
    /\ SessionsInit
    /\ streams = NoStream
    /\ nextGenID = 1
    /\ struct = [o \in Objs |-> [gen |-> 0, active |-> FALSE, runs |-> 0, lifeMu |-> Nobody]]
    /\ gens = [g \in Gens |-> NewGen]
    /\ procs = [p \in Procs |-> [pc |-> "idle", st |-> NoStream, gn |-> 0, call |-> "stop"]]
    /\ ops = 0

\* What somebody asks for
Ask(p) ==
    \/ p \in Listeners /\ Request(p)
    \/ /\ p \in Callers
       /\ \/ StartStream(p)
          \/ ManagerResumes(p)
          \/ ManagerStops(p)
          \/ ManagerPauses(p)
          \/ ManagerSeeks(p)
          \/ \E g \in Gens \cup {0} : ManagerStopsIf(p, g)

\* What a process does then
Operation(p) ==
    \/ LookUp(p)
    \/ LockLife(p)
    \/ TooLate(p)
    \/ Swap(p)
    \/ Kill(p)
    \/ CloseClients(p)
    \/ Waited(p)
    \/ Install(p)
    \/ Mark(p)

Serve(p) ==
    \/ RequestFails(p)
    \/ Attach(p)
    \/ FirstClient(p)
    \/ Drop(p)
    \/ Leave(p)
    \/ Grace(p)

Run(g) ==
    \/ Boot(g)
    \/ Launched(g)
    \/ Exits(g)
    \/ RunReports(g)
    \/ RunCallback(g)
    \/ RunExits(g)
    \/ RunDone(g)

Watch(g) ==
    \/ WatchEnds(g)
    \/ TimerFires(g)
    \/ WatchReports(g)
    \/ WatchCallback(g)
    \/ WatchClears(g)
    \/ WatchKills(g)

\* All operations have been used and nothing is under way; the model may rest there.
Rested ==
    /\ ops = MaxOps
    /\ \A p \in Procs : At(p, "idle")
    /\ \A g \in Gens : gens[g].run \in {"none", "done"}
    /\ UNCHANGED vars

StreamsNext ==
    \/ CreateSession
    \/ PlaySession
    \/ \E p \in Procs : Ask(p) \/ Operation(p)
    \/ \E p \in Listeners : Serve(p)
    \/ \E g \in Gens : Run(g) \/ Watch(g)
    \/ Rested

StreamsSpec == StreamsInit /\ [][StreamsNext]_vars

-----------------------------------------------------------------------------
RunLabels ==
    {"none", "boot", "launched", "reading", "failing", "callback", "exit", "closing", "done"}
WatchLabels == {"none", "waiting", "report", "callback", "clear", "kill", "done"}
ProcLabels ==
    {"idle", "look", "lock", "swap", "kill", "close", "wait", "install", "mark",
     "waiting", "attached", "listening", "grace", "graceLook"}
Calls == {"stop", "stopIf", "stopError", "restart", "resume"}

StructType == [gen : Gens \cup {0}, active : BOOLEAN, runs : {0, 1}, lifeMu : Procs \cup {Nobody}]

GenType ==
    [owner : Objs \cup {NoStream}, run : RunLabels, watch : WatchLabels,
     active : BOOLEAN, cancelled : BOOLEAN, failed : BOOLEAN, heard : BOOLEAN,
     clients : SUBSET Listeners]

ProcType ==
    [pc : ProcLabels, st : Objs \cup {NoStream}, gn : Gens \cup {0}, call : Calls]

StreamsTypeOK ==
    /\ SessionsTypeOK
    /\ streams \in Objs \cup {NoStream}
    /\ nextGenID \in 1 .. MaxOps + 1
    /\ struct \in [Objs -> StructType]
    /\ gens \in [Gens -> GenType]
    /\ procs \in [Procs -> ProcType]
    /\ ops \in 0 .. MaxOps

(* runsInFlight tells of a struct that nobody is changing whether its       *)
(* generation is being run: a goroutine of an older generation that ends    *)
(* late does not take the run of the present one for over, so Resume never  *)
(* starts a second ffmpeg beside it.                                        *)
RunTracking ==
    \A o \in Objs :
        struct[o].gen # 0 /\ struct[o].lifeMu = Nobody
            => (struct[o].runs = 1 <=> Running(struct[o].gen))

(* The startup timeout cuts nobody off: once it has decided, no client can  *)
(* attach, though the stream is still mapped and active, its process alive   *)
(* and its context not cancelled.                                           *)
TimeoutSparesListeners ==
    \A g \in Gens : gens[g].watch \in {"report", "callback", "clear", "kill"}
                        => gens[g].clients = {}

(* A generation that is over leaves no client behind that nobody is going   *)
(* to close: one that attaches while the stream is stopped, restarted,       *)
(* timed out or at its end is refused or closed.                            *)
NoStrandedClients ==
    \A g \in Gens :
        RunAt(g, "done") /\ gens[g].clients # {}
            => \E p \in Procs : /\ procs[p].pc \in {"kill", "close"}
                                /\ struct[procs[p].st].gen = g
=============================================================================
