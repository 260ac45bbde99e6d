----------------------------- MODULE Streams_proofs -----------------------------
(***************************************************************************)
(* Theorems about the streamer of a session, for any number of callers,    *)
(* listeners, stream structs and operations.                               *)
(***************************************************************************)
EXTENDS Streams, Sessions_proofs

Born(g) == gens[g].owner \in Objs
Holds(p) == procs[p].pc \in {"swap", "kill", "close", "wait", "install"}
Serving(p) == procs[p].pc \in {"waiting", "attached", "listening", "grace", "graceLook"}

\* The generation that is going to be installed has a number of its own.
Numbered ==
    /\ \A g \in Gens : Born(g) => g < nextGenID
    /\ \A p \in Procs : At(p, "install") =>
          /\ procs[p].gn \in Gens /\ ~Born(procs[p].gn) /\ procs[p].gn < nextGenID
          /\ \A q \in Procs : At(q, "install") /\ procs[q].gn = procs[p].gn => q = p

\* Who waits for lifeMu or has it works on a struct that was started, a listener on a generation
\* that was.
KnownTo(p) ==
    /\ Holds(p) \/ At(p, "lock") => procs[p].st \in Objs /\ struct[procs[p].st].gen # 0
    /\ Holds(p) => struct[procs[p].st].lifeMu = p
    /\ Serving(p) => procs[p].st \in Objs /\ procs[p].gn \in Gens /\ Born(procs[p].gn)

\* Only what was started is known to anyone.
Known ==
    /\ streams \in Objs => struct[streams].gen # 0
    /\ \A o \in Objs : struct[o].gen # 0 => gens[struct[o].gen].owner = o
    /\ \A g \in Gens : ~Born(g) => gens[g] = NewGen
    /\ \A p \in Procs : KnownTo(p)

\* RunTracking, of a struct that somebody is changing too
Settled(o) == struct[o].runs = 1 <=> Running(struct[o].gen)
Installs(p, o) == At(p, "install") /\ procs[p].st = o
InstallOK(p) ==
    At(p, "install") =>
        IF Call(p) = "restart"
        THEN struct[procs[p].st].runs = 0
        ELSE struct[procs[p].st].runs = 1 /\ ~Running(struct[procs[p].st].gen)

Tracked ==
    /\ \A o \in Objs : struct[o].gen # 0 => (\E p \in Procs : Installs(p, o)) \/ Settled(o)
    /\ \A p \in Procs : InstallOK(p)

\* A generation that has ended, or that the timeout has chosen, is out of service.
Out(g) ==
    /\ gens[g].run \in {"none", "boot", "launched"} => gens[g].watch = "none"
    /\ gens[g].run \in {"closing", "done"} => ~gens[g].active
    /\ gens[g].watch \in {"report", "callback", "clear", "kill"}
         => ~gens[g].active /\ gens[g].clients = {}

OutOfService == \A g \in Gens : Out(g)

\* A generation that is cancelled or over has clients only until they are closed.
Over(g) == gens[g].cancelled \/ RunAt(g, "done")
Closes(p, g) == At(p, "close") /\ struct[procs[p].st].gen = g

Closing ==
    \A g \in Gens : Over(g) /\ gens[g].clients # {} => \E p \in Procs : Closes(p, g)

StreamsInv == StreamsTypeOK /\ Numbered /\ Known /\ Tracked /\ OutOfService /\ Closing

-----------------------------------------------------------------------------
(* The session table *)

(* Every step of the streamer, of its goroutines and of the listeners is a  *)
(* call of the manager, or leaves the table alone.                          *)
LEMMA StepOfManager ==
    ASSUME StreamsTypeOK, Numbered, [StreamsNext]_vars
    PROVE  [SessionsNext]_sessionsVars
<1> USE StreamsAssumption, SessionsAssumption
<1>a. Sid \in Ids
  OBVIOUS
<1>1. CASE UNCHANGED vars
  BY <1>1 DEF vars
<1>2. CASE CreateSession \/ PlaySession
  BY <1>2, <1>a DEF CreateSession, PlaySession, SessionsNext, Command
<1>3. ASSUME NEW p \in Procs, Ask(p)
      PROVE  [SessionsNext]_sessionsVars
  <2>1. CASE Request(p)
    BY <2>1 DEF Request
  <2>2. CASE StartStream(p)
    <3>1. nextGenID \in Gens /\ SetSessionGenID(Sid, nextGenID)
      BY <2>2 DEF StartStream
    <3> QED  BY <3>1, <1>a DEF SessionsNext
  <2>3. CASE ManagerResumes(p) \/ ManagerStops(p) \/ ManagerPauses(p) \/ ManagerSeeks(p)
    BY <2>3, <1>a DEF ManagerResumes, ManagerStops, ManagerPauses, ManagerSeeks, SessionsNext,
                      Command
  <2>4. CASE \E g \in Gens \cup {0} : ManagerStopsIf(p, g)
    BY <2>4 DEF ManagerStopsIf
  <2> QED  BY <1>3, <2>1, <2>2, <2>3, <2>4 DEF Ask
<1>4. ASSUME NEW p \in Procs, Operation(p)
      PROVE  [SessionsNext]_sessionsVars
  <2>1. CASE Install(p)
    <3>1. procs[p].gn \in Gens /\ SetSessionGenID(Sid, procs[p].gn)
      BY <2>1 DEF Install, Numbered
    <3> QED  BY <3>1, <1>a DEF SessionsNext
  <2>2. CASE Mark(p)
    <3>1. procs[p].gn \in Gens \cup {0}
      BY DEF StreamsTypeOK, ProcType
    <3> QED  BY <2>2, <3>1, <1>a DEF Mark, SessionsNext, Callback
  <2>3. CASE \/ LookUp(p) \/ LockLife(p) \/ TooLate(p) \/ Swap(p) \/ Kill(p)
             \/ CloseClients(p) \/ Waited(p)
    BY <2>3 DEF LookUp, LockLife, TooLate, Swap, Kill, CloseClients, Waited
  <2> QED  BY <1>4, <2>1, <2>2, <2>3 DEF Operation
<1>5. ASSUME NEW p \in Listeners, Serve(p)
      PROVE  [SessionsNext]_sessionsVars
  BY <1>5 DEF Serve, RequestFails, Attach, FirstClient, Drop, Leave, Grace
<1>6. ASSUME NEW g \in Gens, Run(g)
      PROVE  [SessionsNext]_sessionsVars
  <2>1. CASE RunCallback(g)
    BY <2>1, <1>a DEF RunCallback, ErrorCallback, SessionsNext, Callback
  <2>2. CASE ~RunCallback(g)
    BY <1>6, <2>2 DEF Run, Boot, Launched, Exits, RunReports, RunExits, RunDone
  <2> QED  BY <2>1, <2>2
<1>7. ASSUME NEW g \in Gens, Watch(g)
      PROVE  [SessionsNext]_sessionsVars
  <2>1. CASE WatchCallback(g)
    BY <2>1, <1>a DEF WatchCallback, ErrorCallback, SessionsNext, Callback
  <2>2. CASE ~WatchCallback(g)
    BY <1>7, <2>2 DEF Watch, WatchEnds, TimerFires, WatchReports, WatchClears, WatchKills
  <2> QED  BY <2>1, <2>2
<1>8. CASE Rested
  BY <1>8 DEF Rested, vars
<1> QED
  BY <1>1, <1>2, <1>3, <1>4, <1>5, <1>6, <1>7, <1>8 DEF StreamsNext

-----------------------------------------------------------------------------
(* Types *)

\* The types of what is the streamer's own
LocalTypes ==
    /\ streams \in Objs \cup {NoStream}
    /\ nextGenID \in 1 .. MaxOps + 1
    /\ struct \in [Objs -> StructType]
    /\ gens \in [Gens -> GenType]
    /\ procs \in [Procs -> ProcType]
    /\ ops \in 0 .. MaxOps

\* BOOLEAN under a name, for the provers to leave alone
Flag == BOOLEAN

FlagStruct ==
    [gen : Gens \cup {0}, active : Flag, runs : {0, 1}, lifeMu : Procs \cup {Nobody}]

FlagGen ==
    [owner : Objs \cup {NoStream}, run : RunLabels, watch : WatchLabels,
     active : Flag, cancelled : Flag, failed : Flag, heard : Flag,
     clients : SUBSET Listeners]

\* The same types, with BOOLEAN under its name
LEMMA Flags ==
    /\ TRUE \in Flag /\ FALSE \in Flag
    /\ StructType = FlagStruct /\ GenType = FlagGen
BY DEF Flag, FlagStruct, FlagGen, StructType, GenType

\* The labels the steps use
LEMMA Labels ==
    /\ \A l \in {"boot", "launched", "reading", "failing", "callback", "exit", "closing", "done"} :
          l \in RunLabels
    /\ "none" \in RunLabels /\ "none" \in WatchLabels
    /\ \A l \in {"waiting", "report", "callback", "clear", "kill", "done"} : l \in WatchLabels
    /\ \A l \in {"idle", "look", "lock", "swap", "kill", "close", "wait", "install", "mark",
                 "waiting", "attached", "listening", "grace", "graceLook"} : l \in ProcLabels
    /\ \A c \in {"stop", "stopIf", "stopError", "restart", "resume"} : c \in Calls
BY DEF RunLabels, WatchLabels, ProcLabels, Calls

(* The goroutine of a generation keeps the types.                           *)
LEMMA RunTypes ==
    ASSUME LocalTypes, NEW g \in Gens, Run(g)
    PROVE  LocalTypes'
<1> DEFINE o == gens[g].owner
<1>g. gens \in [Gens -> FlagGen] /\ struct \in [Objs -> FlagStruct]
  BY Flags DEF LocalTypes
<1>s. ASSUME gens' \in [Gens -> FlagGen], struct' \in [Objs -> FlagStruct],
             UNCHANGED <<streams, nextGenID, procs, ops>>
      PROVE  LocalTypes'
  BY <1>s, Flags DEF LocalTypes
<1>1. CASE Boot(g)
  BY <1>1, <1>g, <1>s, Labels DEF Boot, RunGo, streamVars, FlagGen
<1>2. CASE Launched(g)
  <2>1. /\ gens' = [gens EXCEPT ![g].run = "reading", ![g].active = TRUE, ![g].watch = "waiting"]
        /\ UNCHANGED <<streamVars, procs, ops>>
    BY <1>2 DEF Launched
  <2>2. gens' \in [Gens -> FlagGen]
    BY <1>g, <2>1, Flags, Labels DEF FlagGen
  <2> QED  BY <1>g, <1>s, <2>1, <2>2 DEF streamVars
<1>3. CASE Exits(g)
  <2>1. UNCHANGED <<streamVars, procs, ops>>
    BY <1>3 DEF Exits
  <2>2. CASE RunGo(g, "exit")
    BY <1>g, <1>s, <2>1, <2>2, Labels DEF RunGo, streamVars, FlagGen
  <2>3. CASE gens' = [gens EXCEPT ![g].run = "failing", ![g].failed = TRUE]
    <3>1. gens' \in [Gens -> FlagGen]
      BY <1>g, <2>3, Flags, Labels DEF FlagGen
    <3> QED  BY <1>g, <1>s, <2>1, <3>1 DEF streamVars
  <2> QED  BY <1>3, <2>2, <2>3 DEF Exits
<1>4. CASE RunReports(g)
  <2>1. UNCHANGED <<streamVars, procs, ops>>
    BY <1>4 DEF RunReports
  <2>2. CASE RunGo(g, "exit")
    BY <1>g, <1>s, <2>1, <2>2, Labels DEF RunGo, streamVars, FlagGen
  <2>3. CASE gens' = [gens EXCEPT ![g].run = "callback", ![g].failed = TRUE]
    <3>1. gens' \in [Gens -> FlagGen]
      BY <1>g, <2>3, Flags, Labels DEF FlagGen
    <3> QED  BY <1>g, <1>s, <2>1, <3>1 DEF streamVars
  <2> QED  BY <1>4, <2>2, <2>3 DEF RunReports
<1>5. CASE RunCallback(g)
  BY <1>5, <1>g, <1>s, Labels DEF RunCallback, RunGo, streamVars, FlagGen
<1>6. CASE RunExits(g)
  <2>1. /\ gens' = [gens EXCEPT ![g].run = "closing", ![g].active = FALSE]
        /\ UNCHANGED <<streams, nextGenID, procs, ops>>
    BY <1>6 DEF RunExits
  <2>2. gens' \in [Gens -> FlagGen]
    BY <1>g, <2>1, Flags, Labels DEF FlagGen
  <2>3. (struct[o].active /\ gens[g].cancelled) \in Flag
    BY Zenon DEF Flag
  <2>4. struct' = [struct EXCEPT ![o].runs = 0, ![o].active = @ /\ gens[g].cancelled] \/ UNCHANGED struct
    BY <1>6 DEF RunExits
  <2>5. struct' \in [Objs -> FlagStruct]
    BY <1>g, <2>3, <2>4 DEF FlagStruct
  <2> QED  BY <1>s, <2>1, <2>2, <2>5
<1>7. CASE RunDone(g)
  <2>1. /\ gens' = [gens EXCEPT ![g].run = "done", ![g].clients = IF gens[g].cancelled THEN @ ELSE {}]
        /\ UNCHANGED <<streamVars, procs, ops>>
    BY <1>7 DEF RunDone
  <2>2. gens' \in [Gens -> FlagGen]
    BY <1>g, <2>1, Labels DEF FlagGen
  <2> QED  BY <1>g, <1>s, <2>1, <2>2 DEF streamVars
<1> QED  BY <1>1, <1>2, <1>3, <1>4, <1>5, <1>6, <1>7 DEF Run

(* So does the watch of a generation.                                       *)
LEMMA WatchTypes ==
    ASSUME LocalTypes, NEW g \in Gens, Watch(g)
    PROVE  LocalTypes'
<1>g. gens \in [Gens -> FlagGen] /\ struct \in [Objs -> FlagStruct]
  BY Flags DEF LocalTypes
<1>u. UNCHANGED <<streams, nextGenID, procs, ops>>
  BY DEF Watch, WatchEnds, TimerFires, WatchReports, WatchCallback, WatchClears, WatchKills,
         streamVars
<1>s. ASSUME gens' \in [Gens -> FlagGen], struct' \in [Objs -> FlagStruct]
      PROVE  LocalTypes'
  BY <1>s, <1>u, Flags DEF LocalTypes
<1>l. ASSUME NEW l \in {"clear", "kill", "done"}, WatchGo(g, l)
      PROVE  gens' \in [Gens -> FlagGen]
  BY <1>l, <1>g, Labels DEF WatchGo, FlagGen
<1>1. CASE WatchEnds(g)
  BY <1>1, <1>g, <1>l, <1>s DEF WatchEnds, streamVars
<1>2. CASE TimerFires(g)
  <2>1. UNCHANGED struct
    BY <1>2 DEF TimerFires, streamVars
  <2>2. CASE gens' = [gens EXCEPT ![g].watch = "report", ![g].active = FALSE]
    <3>1. gens' \in [Gens -> FlagGen]
      BY <1>g, <2>2, Flags, Labels DEF FlagGen
    <3> QED  BY <1>g, <1>s, <2>1, <3>1
  <2> QED  BY <1>2, <1>g, <1>l, <1>s, <2>1, <2>2 DEF TimerFires
<1>3. CASE WatchReports(g)
  <2>1. UNCHANGED struct
    BY <1>3 DEF WatchReports, streamVars
  <2>2. CASE gens' = [gens EXCEPT ![g].watch = "callback", ![g].failed = TRUE]
    <3>1. gens' \in [Gens -> FlagGen]
      BY <1>g, <2>2, Flags, Labels DEF FlagGen
    <3> QED  BY <1>g, <1>s, <2>1, <3>1
  <2> QED  BY <1>3, <1>g, <1>l, <1>s, <2>1, <2>2 DEF WatchReports
<1>4. CASE WatchCallback(g)
  BY <1>4, <1>g, <1>l, <1>s DEF WatchCallback, streamVars
<1>5. CASE WatchClears(g)
  <2>1. struct' = [struct EXCEPT ![gens[g].owner].active = FALSE] /\ WatchGo(g, "kill")
    BY <1>5 DEF WatchClears
  <2>2. struct' \in [Objs -> FlagStruct]
    BY <1>g, <2>1, Flags DEF FlagStruct
  <2> QED  BY <1>l, <1>s, <2>1, <2>2
<1>6. CASE WatchKills(g)
  <2>1. gens' = [gens EXCEPT ![g].watch = "done", ![g].cancelled = TRUE] /\ UNCHANGED struct
    BY <1>6 DEF WatchKills, streamVars
  <2>2. gens' \in [Gens -> FlagGen]
    BY <1>g, <2>1, Flags, Labels DEF FlagGen
  <2> QED  BY <1>g, <1>s, <2>1, <2>2
<1> QED  BY <1>1, <1>2, <1>3, <1>4, <1>5, <1>6 DEF Watch

(* A listener does.                                                         *)
LEMMA ServeTypes ==
    ASSUME LocalTypes, NEW p \in Listeners, Serve(p)
    PROVE  LocalTypes'
<1> DEFINE g == procs[p].gn
<1>g. gens \in [Gens -> FlagGen] /\ procs \in [Procs -> ProcType] /\ p \in Procs
  BY Flags DEF LocalTypes, Procs
<1>u. UNCHANGED <<streams, nextGenID, struct, ops>>
  BY DEF Serve, RequestFails, Attach, FirstClient, Drop, Leave, Grace, streamVars
<1>s. ASSUME gens' \in [Gens -> FlagGen], procs' \in [Procs -> ProcType]
      PROVE  LocalTypes'
  BY <1>s, <1>u, Flags DEF LocalTypes
<1>l. ASSUME NEW l \in ProcLabels, Go(p, l)
      PROVE  procs' \in [Procs -> ProcType]
  BY <1>l, <1>g DEF Go, ProcType
<1>1. CASE RequestFails(p)
  BY <1>1, <1>g, <1>l, <1>s, Labels DEF RequestFails
<1>2. CASE Attach(p)
  <2>1. procs' \in [Procs -> ProcType]
    BY <1>2, <1>l, Labels DEF Attach
  <2>2. UNCHANGED gens \/ gens' = [gens EXCEPT ![g].clients = @ \cup {p}]
    BY <1>2 DEF Attach
  <2>3. gens' \in [Gens -> FlagGen]
    BY <1>g, <2>2 DEF FlagGen
  <2> QED  BY <1>s, <2>1, <2>3
<1>3. CASE FirstClient(p)
  <2>1. gens' = [gens EXCEPT ![g].heard = TRUE] /\ procs' \in [Procs -> ProcType]
    BY <1>3, <1>l, Labels DEF FirstClient
  <2>2. gens' \in [Gens -> FlagGen]
    BY <1>g, <2>1, Flags DEF FlagGen
  <2> QED  BY <1>s, <2>1, <2>2
<1>4. CASE Drop(p) \/ Leave(p)
  <2>1. gens' = [gens EXCEPT ![g].clients = @ \ {p}]
    BY <1>4 DEF Drop, Leave
  <2>2. gens' \in [Gens -> FlagGen]
    BY <1>g, <2>1 DEF FlagGen
  <2>3. procs' \in [Procs -> ProcType]
    BY <1>4, <1>g, <1>l, Labels DEF Drop, Leave
  <2> QED  BY <1>s, <2>2, <2>3
<1>5. CASE Grace(p)
  <2>1. UNCHANGED gens
    BY <1>5 DEF Grace
  <2>2. CASE procs' = [procs EXCEPT ![p].pc = "look", ![p].call = "stop"]
    <3>1. procs' \in [Procs -> ProcType]
      BY <1>g, <2>2, Labels DEF ProcType
    <3> QED  BY <1>g, <1>s, <2>1, <3>1
  <2>3. CASE ~(procs' = [procs EXCEPT ![p].pc = "look", ![p].call = "stop"])
    BY <1>5, <1>g, <1>l, <1>s, <2>1, <2>3, Labels DEF Grace
  <2> QED  BY <2>2, <2>3
<1> QED  BY <1>1, <1>2, <1>3, <1>4, <1>5 DEF Serve

(* An operation under way does.                                             *)
LEMMA OperationTypes ==
    ASSUME LocalTypes, NEW p \in Procs, Operation(p)
    PROVE  LocalTypes'
<1> DEFINE o == procs[p].st
<1>g. /\ gens \in [Gens -> FlagGen] /\ struct \in [Objs -> FlagStruct]
      /\ procs \in [Procs -> ProcType]
  BY Flags DEF LocalTypes
<1>u. streams' \in Objs \cup {NoStream} /\ nextGenID' \in 1 .. MaxOps + 1 /\ UNCHANGED ops
  <2>1. UNCHANGED ops
    BY DEF Operation, LookUp, LockLife, TooLate, Swap, Kill, CloseClients, Waited, Install, Mark
  <2>2. streams' = streams \/ streams' = NoStream
    BY DEF Operation, LookUp, LockLife, TooLate, Swap, Kill, CloseClients, Waited, Install, Mark,
           streamVars
  <2>3. CASE LockLife(p) \/ Waited(p)
    <3>1. \/ UNCHANGED nextGenID
          \/ nextGenID \in Gens /\ nextGenID' = nextGenID + 1
      BY <2>3, Zenon DEF LockLife, Waited
    <3> QED  BY <2>1, <2>2, <3>1, StreamsAssumption DEF LocalTypes
  <2>4. CASE ~(LockLife(p) \/ Waited(p))
    <3>1. UNCHANGED nextGenID
      BY <2>4 DEF Operation, LookUp, TooLate, Swap, Kill, CloseClients, Install, Mark, streamVars
    <3> QED  BY <2>1, <2>2, <3>1 DEF LocalTypes
  <2> QED  BY <2>3, <2>4
<1>s. ASSUME gens' \in [Gens -> FlagGen], struct' \in [Objs -> FlagStruct],
             procs' \in [Procs -> ProcType]
      PROVE  LocalTypes'
  BY <1>s, <1>u, Flags DEF LocalTypes
<1>l. ASSUME NEW l \in ProcLabels, Go(p, l)
      PROVE  procs' \in [Procs -> ProcType]
  BY <1>l, <1>g DEF Go, ProcType
<1>n. nextGenID \in Gens => nextGenID \in Gens \cup {0}
  OBVIOUS
<1>t. ASSUME Stopped(p)
      PROVE  struct' \in [Objs -> FlagStruct] /\ procs' \in [Procs -> ProcType]
  <2>1. struct' \in [Objs -> FlagStruct]
    BY <1>t, <1>g DEF Stopped, FlagStruct
  <2> QED  BY <1>t, <1>l, <2>1, Labels DEF Stopped
<1>1. CASE LookUp(p)
  <2>1. streams' \in {streams, NoStream} /\ UNCHANGED <<nextGenID, struct, gens>>
    BY <1>1 DEF LookUp
  <2>2. CASE procs' = [procs EXCEPT ![p].pc = "lock", ![p].st = streams]
    <3>1. procs' \in [Procs -> ProcType]
      BY <1>g, <2>2, Labels DEF ProcType, LocalTypes
    <3> QED  BY <1>g, <1>s, <2>1, <3>1
  <2>3. CASE ~(procs' = [procs EXCEPT ![p].pc = "lock", ![p].st = streams])
    BY <1>1, <1>g, <1>l, <1>s, <2>1, <2>3, Labels DEF LookUp
  <2> QED  BY <2>2, <2>3
<1>2. CASE LockLife(p)
  <2>1. UNCHANGED gens
    BY <1>2 DEF LockLife
  <2>2. CASE Call(p) = "resume"
    <3>1. /\ struct' = [struct EXCEPT ![o].lifeMu = p, ![o].runs = 1]
          /\ procs' = [procs EXCEPT ![p].pc = "install", ![p].gn = nextGenID]
          /\ nextGenID \in Gens \cup {0}
      BY <1>2, <2>2 DEF LockLife
    <3>2. struct' \in [Objs -> FlagStruct]
      BY <1>g, <3>1 DEF FlagStruct
    <3>3. procs' \in [Procs -> ProcType]
      BY <1>g, <3>1, Labels DEF ProcType
    <3> QED  BY <1>g, <1>s, <2>1, <3>2, <3>3
  <2>3. CASE Call(p) # "resume"
    <3>1. /\ struct' = [struct EXCEPT ![o].lifeMu = p, ![o].runs = @]
          /\ procs' = [procs EXCEPT ![p].pc = "swap", ![p].gn = @]
      BY <1>2, <2>3 DEF LockLife
    <3>2. struct' \in [Objs -> FlagStruct]
      BY <1>g, <3>1 DEF FlagStruct
    <3>3. procs' \in [Procs -> ProcType]
      BY <1>g, <3>1, Labels DEF ProcType
    <3> QED  BY <1>g, <1>s, <2>1, <3>2, <3>3
  <2> QED  BY <2>2, <2>3
<1>3. CASE TooLate(p)
  BY <1>3, <1>g, <1>l, <1>s, Labels DEF TooLate, streamVars
<1>4. CASE Swap(p)
  <2>1. UNCHANGED <<streams, nextGenID, gens>>
    BY <1>4 DEF Swap
  <2>2. CASE struct' = [struct EXCEPT ![o].active = FALSE] /\ Go(p, "kill")
    <3>1. struct' \in [Objs -> FlagStruct]
      BY <1>g, <2>2, Flags DEF FlagStruct
    <3> QED  BY <1>g, <1>l, <1>s, <2>1, <2>2, <3>1, Labels
  <2>3. CASE Go(p, "wait") /\ UNCHANGED struct
    BY <1>g, <1>l, <1>s, <2>1, <2>3, Labels
  <2>4. CASE Stopped(p)
    BY <1>g, <1>s, <1>t, <2>1, <2>4
  <2> QED  BY <1>4, <2>2, <2>3, <2>4 DEF Swap
<1>5. CASE Kill(p)
  <2>1. /\ gens' = [gens EXCEPT ![struct[o].gen].active = FALSE, ![struct[o].gen].cancelled = TRUE]
        /\ Go(p, "close") /\ UNCHANGED streamVars
    BY <1>5 DEF Kill
  <2>2. gens' \in [Gens -> FlagGen]
    BY <1>g, <2>1, Flags DEF FlagGen
  <2> QED  BY <1>g, <1>l, <1>s, <2>1, <2>2, Labels DEF streamVars
<1>6. CASE CloseClients(p)
  <2>1. /\ gens' = [gens EXCEPT ![struct[o].gen].clients = {}]
        /\ Go(p, "wait") /\ UNCHANGED streamVars
    BY <1>6 DEF CloseClients
  <2>2. gens' \in [Gens -> FlagGen]
    BY <1>g, <2>1 DEF FlagGen
  <2> QED  BY <1>g, <1>l, <1>s, <2>1, <2>2, Labels DEF streamVars
<1>7. CASE Waited(p)
  <2>1. UNCHANGED <<streams, gens>>
    BY <1>7 DEF Waited
  <2>2. CASE Call(p) = "restart"
    <3>1. /\ struct' = [struct EXCEPT ![o].runs = 0]
          /\ procs' = [procs EXCEPT ![p].pc = "install", ![p].gn = nextGenID]
          /\ nextGenID \in Gens /\ nextGenID' = nextGenID + 1
      BY <1>7, <2>2 DEF Waited
    <3>2. struct' \in [Objs -> FlagStruct]
      BY <1>g, <3>1 DEF FlagStruct
    <3>3. procs' \in [Procs -> ProcType]
      BY <1>g, <1>n, <3>1, Labels DEF ProcType
    <3> QED  BY <1>g, <1>s, <2>1, <3>1, <3>2, <3>3
  <2>3. CASE Call(p) # "restart"
    BY <1>7, <1>g, <1>s, <1>t, <2>1, <2>3 DEF Waited
  <2> QED  BY <2>2, <2>3
<1>8. CASE Install(p)
  <2> DEFINE g == procs[p].gn
  <2>1. PICK a \in Flag : struct' = [struct EXCEPT ![o].gen = g, ![o].lifeMu = Nobody, ![o].active = a]
    <3>1. (struct[o].active \/ Call(p) = "restart") \in Flag
      BY Zenon DEF Flag
    <3> QED  BY <1>8, <3>1 DEF Install
  <2>2. PICK l \in RunLabels : gens' = [gens EXCEPT ![g].owner = o, ![g].run = l]
    BY <1>8, Labels DEF Install
  <2>3. g \in Gens \cup {0} /\ o \in Objs \cup {NoStream}
    BY <1>g DEF ProcType
  <2>4. struct' \in [Objs -> FlagStruct]
    <3>1. o \in Objs => [struct[o] EXCEPT !.gen = g, !.lifeMu = Nobody, !.active = a] \in FlagStruct
      BY <1>g, <2>3 DEF FlagStruct
    <3> QED  BY <1>g, <2>1, <3>1
  <2>5. gens' \in [Gens -> FlagGen]
    BY <1>g, <2>2, <2>3 DEF FlagGen
  <2>6. Go(p, "idle")
    BY <1>8 DEF Install
  <2> QED  BY <1>l, <1>s, <2>4, <2>5, <2>6, Labels
<1>9. CASE Mark(p)
  BY <1>9, <1>g, <1>l, <1>s, Labels DEF Mark, streamVars
<1> QED  BY <1>1, <1>2, <1>3, <1>4, <1>5, <1>6, <1>7, <1>8, <1>9 DEF Operation

(* What somebody asks for does.                                             *)
LEMMA AskTypes ==
    ASSUME LocalTypes, NEW p \in Procs, Ask(p)
    PROVE  LocalTypes'
<1>g. /\ gens \in [Gens -> FlagGen] /\ struct \in [Objs -> FlagStruct]
      /\ procs \in [Procs -> ProcType] /\ ops \in 0 .. MaxOps
  BY Flags DEF LocalTypes
<1>s. ASSUME gens' \in [Gens -> FlagGen], struct' \in [Objs -> FlagStruct],
             procs' \in [Procs -> ProcType], streams' \in Objs \cup {NoStream},
             nextGenID' \in 1 .. MaxOps + 1, ops < MaxOps, ops' = ops + 1
      PROVE  LocalTypes'
  BY <1>g, <1>s, Flags, StreamsAssumption DEF LocalTypes
<1>b. ASSUME NEW c \in Calls, NEW g \in Gens \cup {0}, Begin(p, c, g)
      PROVE  LocalTypes'
  <2>1. procs' = [procs EXCEPT ![p].pc = "look", ![p].call = c, ![p].gn = g]
    BY <1>b DEF Begin
  <2>2. procs' \in [Procs -> ProcType]
    BY <1>g, <2>1, Labels DEF ProcType
  <2> QED  BY <1>b, <1>g, <1>s, <2>2 DEF Begin, streamVars, LocalTypes
<1>1. CASE Request(p)
  <2>1. procs' = [procs EXCEPT ![p].pc = "waiting", ![p].st = streams, ![p].gn = struct[streams].gen]
    BY <1>1 DEF Request
  <2>2. streams \in Objs /\ struct[streams].gen \in Gens \cup {0}
    BY <1>1, <1>g DEF Request, IsActive, LocalTypes, FlagStruct
  <2>3. procs' \in [Procs -> ProcType]
    BY <1>g, <2>1, <2>2, Labels DEF ProcType
  <2> QED  BY <1>1, <1>g, <1>s, <2>3 DEF Request, streamVars, LocalTypes
<1>2. CASE StartStream(p)
  <2>1. nextGenID \in Gens /\ nextGenID' = nextGenID + 1 /\ ops < MaxOps /\ ops' = ops + 1
    BY <1>2 DEF StartStream
  <2>2. PICK o \in Objs :
          /\ streams' = o
          /\ struct' = [struct EXCEPT ![o] = [gen |-> nextGenID, active |-> TRUE, runs |-> 1,
                                              lifeMu |-> Nobody]]
          /\ gens' = [gens EXCEPT ![nextGenID].owner = o, ![nextGenID].run = "boot"]
    BY <1>2 DEF StartStream
  <2>3. [gen |-> nextGenID, active |-> TRUE, runs |-> 1, lifeMu |-> Nobody] \in FlagStruct
    BY <2>1, Flags DEF FlagStruct
  <2>4. struct' \in [Objs -> FlagStruct]
    BY <1>g, <2>2, <2>3
  <2>5. gens' \in [Gens -> FlagGen]
    BY <1>g, <2>1, <2>2, Labels DEF FlagGen
  <2>6. nextGenID' \in 1 .. MaxOps + 1
    BY <2>1, StreamsAssumption
  <2>7. UNCHANGED procs
    BY <1>2 DEF StartStream
  <2> QED  BY <1>g, <1>s, <2>1, <2>2, <2>4, <2>5, <2>6, <2>7
<1>3. CASE ManagerResumes(p)
  BY <1>3, <1>b, Labels DEF ManagerResumes
<1>4. CASE ManagerStops(p)
  BY <1>4, <1>b, Labels DEF ManagerStops
<1>5. CASE ManagerPauses(p)
  BY <1>5, <1>b, Labels DEF ManagerPauses
<1>6. CASE ManagerSeeks(p)
  BY <1>6, <1>b, Labels DEF ManagerSeeks
<1>7. CASE \E g \in Gens \cup {0} : ManagerStopsIf(p, g)
  BY <1>7, <1>b, Labels DEF ManagerStopsIf
<1> QED  BY <1>1, <1>2, <1>3, <1>4, <1>5, <1>6, <1>7 DEF Ask

(* The streamer and the table keep their types in every step.               *)
LEMMA StreamsTypeStep ==
    ASSUME StreamsTypeOK, Numbered, [StreamsNext]_vars
    PROVE  StreamsTypeOK'
<1>1. SessionsTypeOK'
  BY StepOfManager, SessionsTypeStep DEF StreamsTypeOK
<1>2. LocalTypes
  BY DEF StreamsTypeOK, LocalTypes
<1>3. LocalTypes'
  <2>1. CASE UNCHANGED vars \/ CreateSession \/ PlaySession \/ Rested
    BY <1>2, <2>1 DEF vars, streamVars, CreateSession, PlaySession, Rested, LocalTypes
  <2>2. CASE \E p \in Procs : Ask(p) \/ Operation(p)
    BY <1>2, <2>2, AskTypes, OperationTypes
  <2>3. CASE \E p \in Listeners : Serve(p)
    BY <1>2, <2>3, ServeTypes
  <2>4. CASE \E g \in Gens : Run(g) \/ Watch(g)
    BY <1>2, <2>4, RunTypes, WatchTypes
  <2> QED  BY <2>1, <2>2, <2>3, <2>4 DEF StreamsNext
<1> QED  BY <1>1, <1>3 DEF StreamsTypeOK, LocalTypes

-----------------------------------------------------------------------------
(* What the steps leave alone *)

\* What a step of the streamer may be, apart from calls of the manager alone
Acts(p) == Ask(p) \/ Operation(p) \/ (p \in Listeners /\ Serve(p))
Works(g) == Run(g) \/ Watch(g)

\* A step is one of a process, one of a generation, or leaves the streamer alone.
LEMMA Steps ==
    ASSUME [StreamsNext]_vars
    PROVE  \/ UNCHANGED <<streamVars, gens, procs>>
           \/ \E p \in Procs : Acts(p)
           \/ \E g \in Gens : Works(g)
BY DEF StreamsNext, vars, CreateSession, PlaySession, Rested, Acts, Works, Procs

\* Go changes the label of its process and nothing else.
LEMMA Goes ==
    ASSUME procs \in [Procs -> ProcType], NEW p \in Procs, NEW l, Go(p, l)
    PROVE  /\ procs'[p].pc = l /\ procs'[p].st = procs[p].st
           /\ procs'[p].gn = procs[p].gn /\ procs'[p].call = procs[p].call
           /\ \A q \in Procs : q # p => procs'[q] = procs[q]
BY DEF Go, ProcType

\* A process changes nothing of another one.
LEMMA OthersRest ==
    ASSUME LocalTypes, NEW p \in Procs, Acts(p)
    PROVE  \A q \in Procs : q # p => procs'[q] = procs[q]
<1>g. procs \in [Procs -> ProcType]
  BY DEF LocalTypes
<1>1. ASSUME NEW l, Go(p, l)
      PROVE  \A q \in Procs : q # p => procs'[q] = procs[q]
  BY <1>1, <1>g DEF Go
<1>2. CASE Ask(p)
  BY <1>2, <1>g DEF Ask, Request, StartStream, ManagerResumes, ManagerStops, ManagerPauses,
                    ManagerSeeks, ManagerStopsIf, Begin
<1>3. CASE LookUp(p) \/ LockLife(p) \/ Waited(p)
  BY <1>1, <1>3, <1>g DEF LookUp, LockLife, Waited, Stopped
<1>4. CASE TooLate(p) \/ Swap(p) \/ Kill(p) \/ CloseClients(p) \/ Install(p) \/ Mark(p)
  BY <1>1, <1>4, <1>g DEF TooLate, Swap, Stopped, Kill, CloseClients, Install, Mark
<1>5. CASE Serve(p)
  BY <1>1, <1>5, <1>g DEF Serve, RequestFails, Attach, FirstClient, Drop, Leave, Grace
<1> QED  BY <1>2, <1>3, <1>4, <1>5 DEF Acts, Operation

(* A generation is born in Start or when it is installed, and only then.    *)
LEMMA Owners ==
    ASSUME LocalTypes, [StreamsNext]_vars,
           \A p \in Procs : ~StartStream(p) /\ ~Install(p)
    PROVE  \A g \in Gens : gens'[g].owner = gens[g].owner
<1>g. gens \in [Gens -> FlagGen]
  BY Flags DEF LocalTypes
<1>1. CASE UNCHANGED gens
  BY <1>1
<1>2. ASSUME NEW p \in Procs, Acts(p), ~UNCHANGED gens
      PROVE  \A g \in Gens : gens'[g].owner = gens[g].owner
  <2>1. CASE Kill(p)
    BY <2>1, <1>g DEF Kill, FlagGen
  <2>2. CASE CloseClients(p)
    BY <2>2, <1>g DEF CloseClients, FlagGen
  <2>3. CASE Attach(p)
    BY <2>3, <1>g, <1>2 DEF Attach, FlagGen
  <2>4. CASE FirstClient(p)
    BY <2>4, <1>g DEF FirstClient, FlagGen
  <2>5. CASE Drop(p) \/ Leave(p)
    BY <2>5, <1>g DEF Drop, Leave, FlagGen
  <2>6. CASE Ask(p)
    BY <1>2, <2>6 DEF Ask, Request, ManagerResumes, ManagerStops, ManagerPauses, ManagerSeeks,
                      ManagerStopsIf, Begin
  <2> QED
    BY <1>2, <2>1, <2>2, <2>3, <2>4, <2>5, <2>6
       DEF Acts, Operation, Serve, LookUp, LockLife, TooLate, Swap, Waited, Mark, RequestFails,
           Grace
<1>3. ASSUME NEW h \in Gens, Works(h)
      PROVE  \A g \in Gens : gens'[g].owner = gens[g].owner
  <2>1. CASE Run(h)
    <3>1. ASSUME NEW l, RunGo(h, l)
          PROVE  \A g \in Gens : gens'[g].owner = gens[g].owner
      BY <3>1, <1>g DEF RunGo, FlagGen
    <3>2. CASE Boot(h) \/ RunCallback(h)
      BY <3>1, <3>2 DEF Boot, RunCallback
    <3>3. CASE Launched(h)
      BY <3>3, <1>g DEF Launched, FlagGen
    <3>4. CASE Exits(h)
      BY <3>1, <3>4, <1>g DEF Exits, FlagGen
    <3>5. CASE RunReports(h)
      BY <3>1, <3>5, <1>g DEF RunReports, FlagGen
    <3>6. CASE RunExits(h)
      BY <3>6, <1>g DEF RunExits, FlagGen
    <3>7. CASE RunDone(h)
      BY <3>7, <1>g DEF RunDone, FlagGen
    <3> QED  BY <2>1, <3>2, <3>3, <3>4, <3>5, <3>6, <3>7 DEF Run
  <2>2. CASE Watch(h)
    <3>1. ASSUME NEW l, WatchGo(h, l)
          PROVE  \A g \in Gens : gens'[g].owner = gens[g].owner
      BY <3>1, <1>g DEF WatchGo, FlagGen
    <3>2. CASE WatchEnds(h) \/ WatchCallback(h) \/ WatchClears(h)
      BY <3>1, <3>2 DEF WatchEnds, WatchCallback, WatchClears
    <3>3. CASE TimerFires(h)
      BY <3>1, <3>3, <1>g DEF TimerFires, FlagGen
    <3>4. CASE WatchReports(h)
      BY <3>1, <3>4, <1>g DEF WatchReports, FlagGen
    <3>5. CASE WatchKills(h)
      BY <3>5, <1>g DEF WatchKills, FlagGen
    <3> QED  BY <2>2, <3>2, <3>3, <3>4, <3>5 DEF Watch
  <2> QED  BY <1>3, <2>1, <2>2 DEF Works
<1> QED  BY <1>1, <1>2, <1>3, Steps

\* The steps that take the number of the generation a process is going to install
Takes(p) ==
    \/ LockLife(p) /\ Call(p) = "resume"
    \/ Waited(p) /\ Call(p) = "restart"

\* Who takes a number is at the installation with it.
LEMMA TakesNumber ==
    ASSUME LocalTypes, NEW p \in Procs, Takes(p)
    PROVE  /\ nextGenID \in Gens /\ nextGenID' = nextGenID + 1 /\ UNCHANGED gens
           /\ procs'[p] = [procs[p] EXCEPT !.pc = "install", !.gn = nextGenID]
           /\ procs'[p].pc = "install" /\ procs'[p].gn = nextGenID
           /\ procs'[p].st = procs[p].st /\ procs'[p].call = procs[p].call
<1>g. procs \in [Procs -> ProcType]
  BY DEF LocalTypes
<1>1. /\ nextGenID \in Gens /\ nextGenID' = nextGenID + 1 /\ UNCHANGED gens
      /\ procs' = [procs EXCEPT ![p].pc = "install", ![p].gn = nextGenID]
  <2>1. CASE LockLife(p) /\ Call(p) = "resume"
    BY <2>1 DEF LockLife
  <2>2. CASE Waited(p) /\ Call(p) = "restart"
    BY <2>2 DEF Waited
  <2> QED  BY <2>1, <2>2 DEF Takes
<1> QED  BY <1>g, <1>1 DEF ProcType

\* Nobody comes to an installation in another way.
LEMMA OnlyTakesEnter ==
    ASSUME LocalTypes, NEW p \in Procs, Acts(p), ~Takes(p), procs'[p].pc = "install"
    PROVE  At(p, "install") /\ ~Install(p) /\ UNCHANGED procs
<1>g. procs \in [Procs -> ProcType]
  BY DEF LocalTypes
<1>1. ASSUME NEW l, l # "install"
      PROVE  ~Go(p, l)
  BY <1>1, <1>g, Goes
<1>2. UNCHANGED procs
  <2>1. CASE Ask(p)
    <3>1. ASSUME NEW c, NEW g, Begin(p, c, g)
          PROVE  FALSE
      BY <3>1, <1>g DEF Begin, ProcType
    <3>2. CASE Request(p)
      BY <3>2, <1>g DEF Request, ProcType
    <3> QED
      BY <2>1, <3>1, <3>2 DEF Ask, StartStream, ManagerResumes, ManagerStops, ManagerPauses,
                              ManagerSeeks, ManagerStopsIf
  <2>2. CASE Operation(p)
    <3>1. CASE LookUp(p)
      <4>1. procs' = [procs EXCEPT ![p].pc = "lock", ![p].st = streams]
        BY <3>1, <1>1 DEF LookUp
      <4> QED  BY <4>1, <1>g DEF ProcType
    <3>2. CASE LockLife(p)
      <4>1. procs' = [procs EXCEPT ![p].pc = "swap", ![p].gn = @]
        BY <3>2 DEF LockLife, Takes
      <4> QED  BY <4>1, <1>g DEF ProcType
    <3>3. CASE Waited(p)
      BY <3>3, <1>1 DEF Waited, Stopped, Takes
    <3>4. CASE TooLate(p) \/ Swap(p) \/ Kill(p) \/ CloseClients(p) \/ Install(p) \/ Mark(p)
      BY <3>4, <1>1 DEF TooLate, Swap, Stopped, Kill, CloseClients, Install, Mark
    <3> QED  BY <2>2, <3>1, <3>2, <3>3, <3>4 DEF Operation
  <2>3. CASE Serve(p)
    <3>1. CASE Grace(p)
      <4>1. procs' = [procs EXCEPT ![p].pc = "look", ![p].call = "stop"]
        BY <3>1, <1>1 DEF Grace
      <4> QED  BY <4>1, <1>g DEF ProcType
    <3> QED  BY <2>3, <1>1, <3>1 DEF Serve, RequestFails, Attach, FirstClient, Drop, Leave
  <2> QED  BY <2>1, <2>2, <2>3 DEF Acts
<1>3. ~Install(p)
  BY <1>1 DEF Install
<1> QED  BY <1>2, <1>3 DEF At

-----------------------------------------------------------------------------
(* Every generation that is installed has a number of its own: who takes     *)
(* one takes the next, and a generation is born in a step that takes the next *)
(* one itself or ends the installation.                                       *)
LEMMA Renumbered ==
    ASSUME Numbered, nextGenID \in Nat, Gens \subseteq Nat,
           nextGenID' = nextGenID \/ nextGenID' = nextGenID + 1,
           \A g \in Gens : gens'[g].owner \in Objs =>
              /\ Born(g) \/ g < nextGenID'
              /\ Born(g) \/ \A q \in Procs : procs'[q].pc = "install" => procs'[q].gn # g,
           \A q \in Procs : procs'[q].pc = "install" =>
              \/ procs'[q] = procs[q]
              \/ /\ nextGenID \in Gens /\ nextGenID' = nextGenID + 1 /\ procs'[q].gn = nextGenID
                 /\ \A r \in Procs : r # q => procs'[r] = procs[r]
    PROVE  Numbered'
<1>1. ASSUME NEW g \in Gens, gens'[g].owner \in Objs
      PROVE  g < nextGenID'
  <2>1. g \in Nat /\ nextGenID' \in Nat /\ nextGenID <= nextGenID'
    OBVIOUS
  <2>2. CASE Born(g)
    <3>1. g < nextGenID
      BY <2>2 DEF Numbered
    <3> QED  BY <2>1, <3>1
  <2>3. CASE ~Born(g)
    BY <1>1, <2>3
  <2> QED  BY <2>2, <2>3
<1>2. ASSUME NEW p \in Procs, procs'[p].pc = "install"
      PROVE  /\ procs'[p].gn \in Gens /\ ~(gens'[procs'[p].gn].owner \in Objs)
             /\ procs'[p].gn < nextGenID'
             /\ \A q \in Procs : procs'[q].pc = "install" /\ procs'[q].gn = procs'[p].gn => q = p
  <2>n. ASSUME NEW q \in Procs, procs[q].pc = "install"
        PROVE  /\ procs[q].gn \in Gens /\ procs[q].gn \in Nat /\ procs[q].gn < nextGenID
               /\ procs[q].gn # nextGenID /\ ~Born(procs[q].gn)
    <3>1. procs[q].gn \in Gens /\ procs[q].gn < nextGenID /\ ~Born(procs[q].gn)
      BY <2>n DEF Numbered, At
    <3>2. procs[q].gn \in Nat
      BY <3>1
    <3> QED  BY <3>1, <3>2
  <2>1. CASE procs'[p] = procs[p]
    <3>1. procs[p].pc = "install" /\ procs'[p].gn = procs[p].gn
      BY <1>2, <2>1
    <3>2. /\ procs[p].gn \in Gens /\ procs[p].gn \in Nat /\ procs[p].gn < nextGenID
          /\ procs[p].gn # nextGenID /\ ~Born(procs[p].gn)
      BY <2>n, <3>1
    <3>3. procs[p].gn < nextGenID'
      BY <3>2
    <3>4. ~(gens'[procs[p].gn].owner \in Objs)
      BY <1>2, <3>1, <3>2
    <3>5. ASSUME NEW q \in Procs, procs'[q].pc = "install", procs'[q].gn = procs[p].gn
          PROVE  q = p
      <4>1. procs'[q] = procs[q]
        BY <3>2, <3>5
      <4> QED  BY <3>1, <3>5, <4>1 DEF Numbered, At
    <3> QED  BY <3>1, <3>2, <3>3, <3>4, <3>5
  <2>2. CASE procs'[p] # procs[p]
    <3>1. /\ nextGenID \in Gens /\ nextGenID' = nextGenID + 1 /\ procs'[p].gn = nextGenID
          /\ \A r \in Procs : r # p => procs'[r] = procs[r]
      BY <1>2, <2>2
    <3>2. nextGenID < nextGenID'
      BY <3>1
    <3>3. ~Born(nextGenID)
      <4>1. ~(nextGenID < nextGenID)
        OBVIOUS
      <4> QED  BY <3>1, <4>1 DEF Numbered
    <3>4. ~(gens'[nextGenID].owner \in Objs)
      BY <1>2, <3>1, <3>3
    <3>5. ASSUME NEW q \in Procs, procs'[q].pc = "install", procs'[q].gn = nextGenID
          PROVE  q = p
      BY <2>n, <3>1, <3>5
    <3> QED  BY <3>1, <3>2, <3>4, <3>5
  <2> QED  BY <2>1, <2>2
<1> QED  BY <1>1, <1>2 DEF Numbered, Born, At

\* Numbered is kept by every step.
LEMMA NumberedStep ==
    ASSUME StreamsTypeOK, Numbered, [StreamsNext]_vars
    PROVE  Numbered'
<1>t. LocalTypes /\ nextGenID \in Nat /\ Gens \subseteq Nat
  BY StreamsAssumption DEF StreamsTypeOK, LocalTypes
<1>1. ASSUME NEW p \in Procs, StartStream(p)
      PROVE  Numbered'
  <2>1. nextGenID \in Gens /\ nextGenID' = nextGenID + 1 /\ UNCHANGED procs
    BY <1>1 DEF StartStream
  <2>2. \A g \in Gens : g # nextGenID => gens'[g] = gens[g]
    BY <1>1, <1>t DEF StartStream, LocalTypes
  <2>3. \A q \in Procs : At(q, "install") => procs[q].gn # nextGenID
    <3>1. ~(nextGenID < nextGenID)
      BY <1>t
    <3> QED  BY <3>1 DEF Numbered
  <2>4. nextGenID < nextGenID'
    BY <1>t, <2>1
  <2> QED  BY <1>t, <2>1, <2>2, <2>3, <2>4, Renumbered DEF Born, At
<1>2. ASSUME NEW p \in Procs, Install(p)
      PROVE  Numbered'
  <2>1. UNCHANGED nextGenID /\ \A q \in Procs : q # p => procs'[q] = procs[q]
    BY <1>2, <1>t, OthersRest DEF Install, Acts, Operation
  <2>2. At(p, "install") /\ procs'[p].pc # "install"
    BY <1>2, <1>t, Goes DEF Install, LocalTypes
  <2>3. \A g \in Gens : g # procs[p].gn => gens'[g] = gens[g]
    BY <1>2, <1>t DEF Install, LocalTypes
  <2>4. procs[p].gn < nextGenID
    BY <2>2 DEF Numbered
  <2>5. \A q \in Procs : procs'[q].pc = "install" => procs'[q] = procs[q] /\ procs[q].gn # procs[p].gn
    BY <2>1, <2>2 DEF Numbered, At
  <2> QED  BY <1>t, <2>1, <2>3, <2>4, <2>5, Renumbered DEF Born
<1>3. ASSUME NEW p \in Procs, Takes(p)
      PROVE  Numbered'
  <2>1. \A q \in Procs : q # p => procs'[q] = procs[q]
    BY <1>3, <1>t, OthersRest DEF Takes, Acts, Operation
  <2>2. /\ nextGenID \in Gens /\ nextGenID' = nextGenID + 1 /\ UNCHANGED gens
        /\ procs'[p].gn = nextGenID
    BY <1>3, <1>t, TakesNumber
  <2> QED  BY <1>t, <2>1, <2>2, Renumbered DEF Born
<1>4. ASSUME \A p \in Procs : ~StartStream(p) /\ ~Install(p) /\ ~Takes(p)
      PROVE  Numbered'
  <2>1. \A g \in Gens : gens'[g].owner = gens[g].owner
    BY <1>t, <1>4, Owners
  <2>2. UNCHANGED nextGenID
    <3>1. ASSUME NEW p \in Procs, Ask(p)
          PROVE  UNCHANGED nextGenID
      BY <1>4, <3>1 DEF Ask, Request, ManagerResumes, ManagerStops, ManagerPauses, ManagerSeeks,
                        ManagerStopsIf, Begin, streamVars
    <3>2. ASSUME NEW p \in Procs, Operation(p)
          PROVE  UNCHANGED nextGenID
      <4>1. CASE LockLife(p)
        BY <1>4, <4>1 DEF LockLife, Takes
      <4>2. CASE Waited(p)
        BY <1>4, <4>2 DEF Waited, Takes
      <4> QED
        BY <3>2, <4>1, <4>2 DEF Operation, LookUp, TooLate, Swap, Kill, CloseClients, Install, Mark,
                                streamVars
    <3>3. ASSUME NEW p \in Listeners, Serve(p)
          PROVE  UNCHANGED nextGenID
      BY <3>3 DEF Serve, RequestFails, Attach, FirstClient, Drop, Leave, Grace, streamVars
    <3>4. ASSUME NEW g \in Gens, Works(g)
          PROVE  UNCHANGED nextGenID
      BY <3>4 DEF Works, Run, Watch, Boot, Launched, Exits, RunReports, RunCallback, RunExits,
                  RunDone,
                  WatchEnds, TimerFires, WatchReports, WatchCallback, WatchClears, WatchKills,
                  streamVars
    <3> QED  BY <3>1, <3>2, <3>3, <3>4, Steps DEF streamVars, Acts
  <2>3. \A q \in Procs : procs'[q].pc = "install" => procs'[q] = procs[q]
    <3>1. ASSUME NEW p \in Procs, Acts(p), NEW q \in Procs, procs'[q].pc = "install"
          PROVE  procs'[q] = procs[q]
      BY <1>t, <1>4, <3>1, OthersRest, OnlyTakesEnter
    <3>2. CASE \E g \in Gens : Works(g)
      BY <3>2 DEF Works, Run, Watch, Boot, Launched, Exits, RunReports, RunCallback, RunExits,
                  RunDone,
                  WatchEnds, TimerFires, WatchReports, WatchCallback, WatchClears, WatchKills
    <3> QED  BY <3>1, <3>2, Steps
  <2> QED  BY <1>t, <2>1, <2>2, <2>3, Renumbered DEF Born
<1> QED  BY <1>1, <1>2, <1>3, <1>4

\* It holds to begin with, and so do the types.
LEMMA NumberedInit ==
    ASSUME StreamsInit
    PROVE  StreamsTypeOK /\ Numbered
<1>1. SessionsTypeOK
  BY DEF StreamsInit, SessionsInit, SessionsTypeOK
<1>2. struct \in [Objs -> FlagStruct]
  BY Flags DEF StreamsInit, FlagStruct
<1>3. gens \in [Gens -> FlagGen] /\ \A g \in Gens : gens[g].owner = NoStream
  BY Flags, Labels DEF StreamsInit, FlagGen, NewGen
<1>4. procs \in [Procs -> ProcType] /\ \A p \in Procs : procs[p].pc = "idle"
  BY Labels DEF StreamsInit, ProcType
<1>5. streams = NoStream /\ nextGenID \in 1 .. MaxOps + 1 /\ ops \in 0 .. MaxOps
  BY StreamsAssumption DEF StreamsInit
<1> QED
  BY <1>1, <1>2, <1>3, <1>4, <1>5, Flags, StreamsAssumption DEF StreamsTypeOK, Numbered, Born, At

(* The table, the streamer, its generations and its processes keep their    *)
(* types.                                                                   *)
THEOREM StreamsTypeCorrect == StreamsSpec => []StreamsTypeOK
<1>1. StreamsTypeOK /\ Numbered /\ [StreamsNext]_vars => StreamsTypeOK' /\ Numbered'
  BY StreamsTypeStep, NumberedStep
<1> QED  BY <1>1, NumberedInit, PTL DEF StreamsSpec

(* The streamer, the listeners and the methods of the manager that span     *)
(* several sections use the session table as its own specification allows,  *)
(* so that what is proved of Sessions holds with a streamer under it.       *)
THEOREM StreamsImplementSessions == StreamsSpec => SessionsSpec
<1>1. StreamsInit => SessionsInit
  BY DEF StreamsInit
<1>2. StreamsTypeOK /\ Numbered /\ [StreamsNext]_vars => StreamsTypeOK' /\ Numbered'
  BY StreamsTypeStep, NumberedStep
<1>3. StreamsTypeOK /\ Numbered /\ [StreamsNext]_vars => [SessionsNext]_sessionsVars
  BY StepOfManager
<1> QED  BY <1>1, <1>2, <1>3, NumberedInit, PTL DEF StreamsSpec, SessionsSpec

-----------------------------------------------------------------------------
(* What a step does to the structs and to its own process *)

\* A generation never changes the generation of a struct, or its lifeMu.
LEMMA StructOfWorks ==
    ASSUME LocalTypes, NEW g \in Gens, Works(g)
    PROVE  \A o \in Objs : struct'[o].gen = struct[o].gen /\ struct'[o].lifeMu = struct[o].lifeMu
<1>g. struct \in [Objs -> FlagStruct]
  BY Flags DEF LocalTypes
<1>1. CASE RunExits(g)
  BY <1>1, <1>g DEF RunExits, FlagStruct
<1>2. CASE WatchClears(g)
  BY <1>2, <1>g DEF WatchClears, FlagStruct
<1>3. CASE ~RunExits(g) /\ ~WatchClears(g)
  <2>1. UNCHANGED struct
    BY <1>3 DEF Works, Run, Watch, Boot, Launched, Exits, RunReports, RunCallback, RunDone,
                WatchEnds,
                TimerFires, WatchReports, WatchCallback, WatchKills, streamVars
  <2> QED  BY <2>1
<1> QED  BY <1>1, <1>2, <1>3

\* The steps of a process that change a struct are those of an operation that waits for lifeMu
\* or has it.
LEMMA StructOfActs ==
    ASSUME LocalTypes, NEW p \in Procs, Acts(p), ~StartStream(p), NEW o \in Objs
    PROVE  /\ o # procs[p].st => struct'[o] = struct[o]
           /\ ~Install(p) => struct'[o].gen = struct[o].gen
           /\ ~LockLife(p) /\ ~Holds(p) => struct'[o] = struct[o]
<1>g. struct \in [Objs -> FlagStruct]
  BY Flags DEF LocalTypes
<1>1. CASE LockLife(p)
  BY <1>1, <1>g DEF LockLife, FlagStruct
<1>2. CASE Swap(p)
  BY <1>2, <1>g DEF Swap, Stopped, FlagStruct, Holds, At
<1>3. CASE Waited(p)
  BY <1>3, <1>g DEF Waited, Stopped, FlagStruct, Holds, At
<1>4. CASE Install(p)
  BY <1>4, <1>g DEF Install, FlagStruct, Holds, At
<1>5. CASE ~(LockLife(p) \/ Swap(p) \/ Waited(p) \/ Install(p))
  <2>1. UNCHANGED struct
    BY <1>5 DEF Acts, Ask, Operation, Serve, Request, ManagerResumes, ManagerStops, ManagerPauses,
                ManagerSeeks, ManagerStopsIf, Begin, LookUp, TooLate, Kill, CloseClients, Mark,
                RequestFails, Attach, FirstClient, Drop, Leave, Grace, streamVars
  <2> QED  BY <2>1
<1> QED  BY <1>1, <1>2, <1>3, <1>4, <1>5

\* A step of a process leaves it where it is, or takes it to another label.
LEMMA Stays ==
    ASSUME NEW p \in Procs, StartStream(p) \/ Drop(p)
    PROVE  UNCHANGED procs /\ ~Holds(p) /\ ~At(p, "lock")
BY DEF StartStream, Drop, Holds, At

\* The methods of the manager begin by looking the struct up.
LEMMA ToLook ==
    ASSUME LocalTypes, NEW p \in Procs,
           \/ ManagerResumes(p) \/ ManagerStops(p) \/ ManagerPauses(p) \/ ManagerSeeks(p)
           \/ \E g \in Gens \cup {0} : ManagerStopsIf(p, g)
    PROVE  procs'[p].pc = "look"
<1>g. procs \in [Procs -> ProcType]
  BY DEF LocalTypes
<1>1. ASSUME NEW c, NEW g, Begin(p, c, g)
      PROVE  procs'[p].pc = "look"
  BY <1>1, <1>g DEF Begin, ProcType
<1> QED
  BY <1>1 DEF ManagerResumes, ManagerStops, ManagerPauses, ManagerSeeks, ManagerStopsIf

\* How a process gets the lifeMu of a struct, and that it keeps it until its operation is over
LEMMA HoldsNext ==
    ASSUME LocalTypes, NEW p \in Procs, Acts(p), Holds(p)'
    PROVE  /\ procs'[p].st = procs[p].st
           /\ \/ LockLife(p) /\ (procs[p].st \in Objs => struct'[procs[p].st].lifeMu = p)
              \/ /\ Holds(p)
                 /\ procs[p].st \in Objs
                      => struct'[procs[p].st].lifeMu = struct[procs[p].st].lifeMu
<1> DEFINE o == procs[p].st
<1>g. procs \in [Procs -> ProcType] /\ struct \in [Objs -> FlagStruct]
  BY Flags DEF LocalTypes
<1>l. ASSUME NEW l, Go(p, l)
      PROVE  procs'[p].pc = l /\ procs'[p].st = procs[p].st
  BY <1>l, <1>g, Goes
<1>h. procs'[p].pc \in {"swap", "kill", "close", "wait", "install"}
  BY DEF Holds
<1>1. CASE LockLife(p)
  <2>1. o \in Objs => struct'[o].lifeMu = p
    BY <1>1, <1>g DEF LockLife, FlagStruct
  <2>2. procs'[p].st = procs[p].st
    BY <1>1, <1>g DEF LockLife, ProcType
  <2> QED  BY <1>1, <2>1, <2>2
<1>2. CASE Swap(p)
  <2>1. ~Stopped(p)
    BY <1>h, <1>l DEF Stopped
  <2>2. o \in Objs => struct'[o].lifeMu = struct[o].lifeMu
    BY <1>2, <1>g, <2>1 DEF Swap, FlagStruct
  <2>3. procs'[p].st = procs[p].st /\ Holds(p)
    BY <1>2, <1>l, <2>1 DEF Swap, Holds, At
  <2> QED  BY <2>2, <2>3
<1>3. CASE Kill(p) \/ CloseClients(p)
  BY <1>3, <1>l DEF Kill, CloseClients, Holds, At, streamVars
<1>4. CASE Waited(p)
  <2>1. ~Stopped(p)
    BY <1>h, <1>l DEF Stopped
  <2>2. /\ struct' = [struct EXCEPT ![o].runs = 0] /\ At(p, "wait")
        /\ procs' = [procs EXCEPT ![p].pc = "install", ![p].gn = nextGenID]
    BY <1>4, <2>1 DEF Waited
  <2>3. o \in Objs => struct'[o].lifeMu = struct[o].lifeMu
    BY <1>g, <2>2 DEF FlagStruct
  <2>4. procs'[p].st = procs[p].st
    BY <1>g, <2>2 DEF ProcType
  <2> QED  BY <2>2, <2>3, <2>4 DEF Holds, At
<1>5. CASE StartStream(p) \/ Drop(p)
  BY <1>5, Stays DEF Holds
<1>6. CASE \/ LookUp(p) \/ TooLate(p) \/ Install(p) \/ Mark(p) \/ RequestFails(p)
           \/ Attach(p) \/ FirstClient(p) \/ Leave(p) \/ Grace(p) \/ Request(p)
  <2>1. ASSUME procs' = [procs EXCEPT ![p].pc = "lock", ![p].st = streams]
        PROVE  FALSE
    BY <2>1, <1>g, <1>h DEF ProcType
  <2>2. ASSUME procs' = [procs EXCEPT ![p].pc = "look", ![p].call = "stop"]
        PROVE  FALSE
    BY <2>2, <1>g, <1>h DEF ProcType
  <2>3. ASSUME NEW g, procs' = [procs EXCEPT ![p].pc = "waiting", ![p].st = streams, ![p].gn = g]
        PROVE  FALSE
    BY <2>3, <1>g, <1>h DEF ProcType
  <2>4. CASE LookUp(p) \/ Install(p) \/ Mark(p)
    BY <1>h, <1>l, <2>1, <2>4 DEF LookUp, Install, Mark
  <2>5. CASE TooLate(p) \/ RequestFails(p) \/ Attach(p) \/ FirstClient(p)
    BY <1>h, <1>l, <2>5 DEF TooLate, RequestFails, Attach, FirstClient
  <2>6. CASE Leave(p) \/ Grace(p) \/ Request(p)
    BY <1>h, <1>l, <2>2, <2>3, <2>6 DEF Leave, Grace, Request
  <2> QED  BY <1>6, <2>4, <2>5, <2>6
<1>7. CASE \/ ManagerResumes(p) \/ ManagerStops(p) \/ ManagerPauses(p) \/ ManagerSeeks(p)
           \/ \E g \in Gens \cup {0} : ManagerStopsIf(p, g)
  BY <1>7, <1>h, ToLook
<1> QED
  BY <1>1, <1>2, <1>3, <1>4, <1>5, <1>6, <1>7 DEF Acts, Ask, Operation, Serve

\* Who waits for the lifeMu of a struct found it in the map.
LEMMA LockNext ==
    ASSUME LocalTypes, NEW p \in Procs, Acts(p), At(p, "lock")'
    PROVE  LookUp(p) /\ streams \in Objs /\ procs'[p].st = streams
<1>g. procs \in [Procs -> ProcType] /\ streams \in Objs \cup {NoStream}
  BY DEF LocalTypes
<1>l. ASSUME NEW l, Go(p, l)
      PROVE  procs'[p].pc = l
  BY <1>l, <1>g, Goes
<1>h. procs'[p].pc = "lock"
  BY DEF At
<1>1. CASE LookUp(p)
  <2>1. procs' = [procs EXCEPT ![p].pc = "lock", ![p].st = streams] /\ streams # NoStream
    BY <1>1, <1>h, <1>l DEF LookUp
  <2> QED  BY <1>1, <1>g, <2>1 DEF ProcType
<1>2. CASE LockLife(p) \/ Waited(p)
  <2>1. procs'[p].pc \in {"install", "swap", "mark", "idle"}
    BY <1>2, <1>g, <1>l DEF LockLife, Waited, Stopped, ProcType
  <2> QED  BY <1>h, <2>1
<1>3. CASE StartStream(p) \/ Drop(p)
  BY <1>3, Stays DEF At
<1>4. CASE \/ TooLate(p) \/ Swap(p) \/ Kill(p) \/ CloseClients(p) \/ Install(p) \/ Mark(p)
           \/ RequestFails(p) \/ Attach(p) \/ FirstClient(p) \/ Leave(p) \/ Grace(p) \/ Request(p)
  <2>1. ASSUME procs' = [procs EXCEPT ![p].pc = "look", ![p].call = "stop"]
        PROVE  FALSE
    BY <2>1, <1>g, <1>h DEF ProcType
  <2>2. ASSUME NEW g, procs' = [procs EXCEPT ![p].pc = "waiting", ![p].st = streams, ![p].gn = g]
        PROVE  FALSE
    BY <2>2, <1>g, <1>h DEF ProcType
  <2> QED
    BY <1>4, <1>h, <1>l, <2>1, <2>2
       DEF TooLate, Swap, Stopped, Kill, CloseClients, Install, Mark, RequestFails, Attach,
           FirstClient,
           Leave, Grace, Request
<1>5. CASE \/ ManagerResumes(p) \/ ManagerStops(p) \/ ManagerPauses(p) \/ ManagerSeeks(p)
           \/ \E g \in Gens \cup {0} : ManagerStopsIf(p, g)
  BY <1>5, <1>h, ToLook
<1> QED
  BY <1>1, <1>2, <1>3, <1>4, <1>5 DEF Acts, Ask, Operation, Serve

\* A listener has the struct and the generation it found when its request began.
LEMMA ServingNext ==
    ASSUME LocalTypes, NEW p \in Procs, Acts(p), Serving(p)'
    PROVE  \/ /\ p \in Listeners /\ Serve(p) /\ Serving(p)
              /\ procs'[p].st = procs[p].st /\ procs'[p].gn = procs[p].gn
           \/ Request(p) /\ procs'[p].st = streams /\ procs'[p].gn = struct[streams].gen
<1>g. procs \in [Procs -> ProcType]
  BY DEF LocalTypes
<1>l. ASSUME NEW l, Go(p, l)
      PROVE  procs'[p].pc = l /\ procs'[p].st = procs[p].st /\ procs'[p].gn = procs[p].gn
  BY <1>l, <1>g, Goes
<1>h. procs'[p].pc \in {"waiting", "attached", "listening", "grace", "graceLook"}
  BY DEF Serving
<1>1. CASE Request(p)
  <2>1. procs' = [procs EXCEPT ![p].pc = "waiting", ![p].st = streams, ![p].gn = struct[streams].gen]
    BY <1>1 DEF Request
  <2> QED  BY <1>1, <1>g, <2>1 DEF ProcType
<1>2. CASE p \in Listeners /\ Serve(p)
  <2>1. ASSUME procs' = [procs EXCEPT ![p].pc = "look", ![p].call = "stop"]
        PROVE  FALSE
    BY <2>1, <1>g, <1>h DEF ProcType
  <2>2. Serving(p)
    BY <1>2 DEF Serve, RequestFails, Attach, FirstClient, Drop, Leave, Grace, Serving, At
  <2> QED
    BY <1>2, <1>l, <2>1, <2>2 DEF Serve, RequestFails, Attach, FirstClient, Drop, Leave, Grace
<1>3. CASE Operation(p)
  <2>1. CASE LookUp(p) \/ LockLife(p) \/ Waited(p)
    <3>1. procs'[p].pc \in {"install", "swap", "mark", "idle", "lock"}
      BY <2>1, <1>g, <1>l DEF LookUp, LockLife, Waited, Stopped, ProcType
    <3> QED  BY <1>h, <3>1
  <2>2. CASE TooLate(p) \/ Swap(p) \/ Kill(p) \/ CloseClients(p) \/ Install(p) \/ Mark(p)
    BY <1>h, <1>l, <2>2 DEF TooLate, Swap, Stopped, Kill, CloseClients, Install, Mark
  <2> QED  BY <1>3, <2>1, <2>2 DEF Operation
<1>4. CASE StartStream(p)
  BY <1>4, <1>h DEF StartStream, At
<1>5. CASE \/ ManagerResumes(p) \/ ManagerStops(p) \/ ManagerPauses(p) \/ ManagerSeeks(p)
           \/ \E g \in Gens \cup {0} : ManagerStopsIf(p, g)
  BY <1>5, <1>h, ToLook
<1> QED
  BY <1>1, <1>2, <1>3, <1>4, <1>5 DEF Acts, Ask

-----------------------------------------------------------------------------
(* Only what was started is known to anyone.                                *)
LEMMA UnbornRest ==
    ASSUME LocalTypes, Known, [StreamsNext]_vars, NEW g \in Gens, ~Born(g),
           \A p \in Procs : ~StartStream(p) /\ ~Install(p)
    PROVE  gens'[g] = gens[g]
<1>g. gens \in [Gens -> FlagGen] /\ struct \in [Objs -> FlagStruct]
  BY Flags DEF LocalTypes
<1>n. gens[g].run = "none" /\ gens[g].watch = "none"
  BY DEF Known, KnownTo, NewGen
<1>1. CASE UNCHANGED gens
  BY <1>1
<1>2. ASSUME NEW p \in Procs, Acts(p), ~UNCHANGED gens
      PROVE  gens'[g] = gens[g]
  <2>1. CASE Kill(p) \/ CloseClients(p)
    <3>1. procs[p].st \in Objs /\ struct[procs[p].st].gen # 0
      BY <2>1 DEF Kill, CloseClients, Known, KnownTo, Holds, At
    <3>2. struct[procs[p].st].gen # g
      BY <3>1 DEF Known, KnownTo, Born
    <3> QED  BY <2>1, <1>g, <3>2 DEF Kill, CloseClients
  <2>2. CASE Serve(p)
    <3>1. Serving(p)
      BY <2>2 DEF Serve, RequestFails, Attach, FirstClient, Drop, Leave, Grace, Serving, At
    <3>2. procs[p].gn # g
      BY <3>1 DEF Known, KnownTo
    <3> QED
      BY <1>2, <2>2, <1>g, <3>2 DEF Serve, RequestFails, Attach, FirstClient, Drop, Leave, Grace
  <2> QED
    BY <1>2, <2>1, <2>2 DEF Acts, Ask, Operation, Request, ManagerResumes, ManagerStops,
                            ManagerPauses,
          ManagerSeeks, ManagerStopsIf, Begin, LookUp, LockLife, TooLate, Swap, Waited, Mark
<1>3. ASSUME NEW h \in Gens, Works(h)
      PROVE  gens'[g] = gens[g]
  <2>1. h # g
    BY <1>3, <1>n DEF Works, Run, Watch, Boot, Launched, Exits, RunReports, RunCallback, RunExits,
                      RunDone,
          WatchEnds, TimerFires, WatchReports, WatchCallback, WatchClears, WatchKills, RunAt,
          WatchAt
  <2>2. CASE Run(h)
    BY <1>g, <2>1, <2>2 DEF Run, Boot, Launched, Exits, RunReports, RunCallback, RunExits,
                            RunDone, RunGo
  <2>3. CASE Watch(h)
    BY <1>g, <2>1, <2>3 DEF Watch, WatchEnds, TimerFires, WatchReports, WatchCallback, WatchClears,
          WatchKills, WatchGo
  <2> QED  BY <1>3, <2>2, <2>3 DEF Works
<1> QED  BY <1>1, <1>2, <1>3, Steps

\* Start keeps it,
LEMMA KnownStart ==
    ASSUME LocalTypes, Numbered, Known, NEW p \in Procs, StartStream(p)
    PROVE  Known'
<1>g. /\ gens \in [Gens -> FlagGen] /\ struct \in [Objs -> FlagStruct]
      /\ Gens \subseteq Nat /\ 0 \notin Gens
  BY Flags, StreamsAssumption, SessionsAssumption DEF LocalTypes
<1>1. PICK o \in Objs :
        /\ struct[o].gen = 0 /\ streams' = o
        /\ struct' = [struct EXCEPT ![o] = [gen |-> nextGenID, active |-> TRUE, runs |-> 1,
                                            lifeMu |-> Nobody]]
        /\ gens' = [gens EXCEPT ![nextGenID].owner = o, ![nextGenID].run = "boot"]
  BY DEF StartStream
<1>2. nextGenID \in Gens /\ nextGenID \in Nat /\ nextGenID # 0 /\ UNCHANGED procs
  BY <1>g DEF StartStream
<1>3. struct'[o].gen = nextGenID /\ \A x \in Objs : x # o => struct'[x] = struct[x]
  BY <1>1, <1>g
<1>4. gens'[nextGenID].owner = o /\ \A g \in Gens : g # nextGenID => gens'[g] = gens[g]
  BY <1>1, <1>2, <1>g DEF FlagGen
<1>5. ~Born(nextGenID)
  <2>1. ~(nextGenID < nextGenID)
    BY <1>2
  <2> QED  BY <1>2, <2>1 DEF Numbered
<1>6. \A g \in Gens : Born(g) => Born(g)'
  BY <1>4, <1>5 DEF Born
<1>7. ASSUME NEW x \in Objs, struct'[x].gen # 0
      PROVE  gens'[struct'[x].gen].owner = x
  <2>1. CASE x = o
    BY <1>3, <1>4, <2>1
  <2>2. CASE x # o
    <3>1. struct[x].gen \in Gens /\ gens[struct[x].gen].owner = x
      BY <1>3, <1>7, <1>g, <2>2 DEF Known, KnownTo, FlagStruct
    <3>2. struct[x].gen # nextGenID
      BY <1>5, <3>1 DEF Born
    <3> QED  BY <1>3, <1>4, <2>2, <3>1, <3>2
  <2> QED  BY <2>1, <2>2
<1>8. ASSUME NEW g \in Gens, ~Born(g)'
      PROVE  gens'[g] = NewGen
  <2>1. g # nextGenID
    BY <1>4, <1>8 DEF Born
  <2> QED  BY <1>4, <1>8, <2>1 DEF Known, KnownTo, Born
<1>9. ASSUME NEW q \in Procs
      PROVE  KnownTo(q)'
  <2>1. Holds(q) \/ At(q, "lock") => procs[q].st \in Objs /\ procs[q].st # o
    BY <1>1 DEF Known, KnownTo
  <2> QED  BY <1>2, <1>3, <1>6, <2>1 DEF KnownTo, Known, Holds, Serving, At
<1> QED  BY <1>1, <1>2, <1>3, <1>7, <1>8, <1>9 DEF Known, KnownTo

\* and so does the installation of a generation,
LEMMA KnownInstall ==
    ASSUME LocalTypes, Numbered, Known, NEW p \in Procs, Install(p)
    PROVE  Known'
<1> DEFINE o == procs[p].st
           h == procs[p].gn
<1>g. /\ gens \in [Gens -> FlagGen] /\ struct \in [Objs -> FlagStruct]
      /\ procs \in [Procs -> ProcType] /\ 0 \notin Gens
  BY Flags, SessionsAssumption DEF LocalTypes
<1>1. /\ o \in Objs /\ struct[o].gen # 0 /\ struct[o].lifeMu = p
      /\ h \in Gens /\ ~Born(h) /\ h # 0
  BY <1>g DEF Install, Known, KnownTo, Numbered, Holds, At
<1>2. UNCHANGED streams /\ procs'[p].pc = "idle" /\ \A q \in Procs : q # p => procs'[q] = procs[q]
  BY <1>g, Goes DEF Install
<1>3. struct'[o].gen = h /\ \A x \in Objs : x # o => struct'[x] = struct[x]
  BY <1>1, <1>g DEF Install, FlagStruct
<1>4. gens'[h].owner = o /\ \A g \in Gens : g # h => gens'[g] = gens[g]
  BY <1>1, <1>g DEF Install, FlagGen
<1>6. \A g \in Gens : Born(g) => Born(g)'
  BY <1>1, <1>4 DEF Born
<1>7. ASSUME NEW x \in Objs, struct'[x].gen # 0
      PROVE  gens'[struct'[x].gen].owner = x
  <2>1. CASE x = o
    BY <1>3, <1>4, <2>1
  <2>2. CASE x # o
    <3>1. struct[x].gen \in Gens /\ gens[struct[x].gen].owner = x
      BY <1>3, <1>7, <1>g, <2>2 DEF Known, KnownTo, FlagStruct
    <3>2. struct[x].gen # h
      BY <1>1, <3>1 DEF Born
    <3> QED  BY <1>3, <1>4, <2>2, <3>1, <3>2
  <2> QED  BY <2>1, <2>2
<1>8. ASSUME NEW g \in Gens, ~Born(g)'
      PROVE  gens'[g] = NewGen
  <2>1. g # h
    BY <1>1, <1>4, <1>8 DEF Born
  <2> QED  BY <1>4, <1>8, <2>1 DEF Known, KnownTo, Born
<1>9. ASSUME NEW q \in Procs
      PROVE  KnownTo(q)'
  <2>1. CASE q = p
    BY <1>2, <2>1 DEF KnownTo, Holds, Serving, At
  <2>2. CASE q # p
    <3>1. Holds(q) => procs[q].st # o
      BY <1>1, <2>2 DEF Known, KnownTo
    <3>2. \A x \in Objs : struct[x].gen # 0 => struct'[x].gen # 0
      BY <1>1, <1>3
    <3> QED  BY <1>2, <1>3, <1>6, <2>2, <3>1, <3>2 DEF KnownTo, Known, Holds, Serving, At
  <2> QED  BY <2>1, <2>2
<1>10. streams' \in Objs => struct'[streams'].gen # 0
  BY <1>1, <1>2, <1>3 DEF Known, KnownTo
<1> QED  BY <1>7, <1>8, <1>9, <1>10 DEF Known, KnownTo

\* and every other step.
LEMMA KnownStep ==
    ASSUME StreamsTypeOK, Numbered, Known, [StreamsNext]_vars
    PROVE  Known'
<1>t. LocalTypes
  BY DEF StreamsTypeOK, LocalTypes
<1>1. CASE \E p \in Procs : StartStream(p) \/ Install(p)
  BY <1>1, <1>t, KnownStart, KnownInstall
<1>2. CASE \A p \in Procs : ~StartStream(p) /\ ~Install(p)
  <2>1. \A g \in Gens : gens'[g].owner = gens[g].owner
    BY <1>t, <1>2, Owners
  <2>2. \A g \in Gens : ~Born(g) => gens'[g] = NewGen
    BY <1>t, <1>2, UnbornRest DEF Known, KnownTo
  <2>3. \A o \in Objs : struct'[o].gen = struct[o].gen
    BY <1>t, <1>2, Steps, StructOfActs, StructOfWorks DEF streamVars
  <2>4. streams' \in Objs => streams' = streams
    <3>1. ASSUME NEW p \in Procs, Acts(p)
          PROVE  streams' \in Objs => streams' = streams
      BY <3>1, <1>2, StreamsAssumption
         DEF Acts, Ask, Operation, Serve, Request, ManagerResumes, ManagerStops, ManagerPauses,
             ManagerSeeks, ManagerStopsIf, Begin, LookUp, LockLife, TooLate, Swap, Kill,
             CloseClients,
             Waited, Mark, RequestFails, Attach, FirstClient, Drop, Leave, Grace, streamVars
    <3>2. ASSUME NEW g \in Gens, Works(g)
          PROVE  UNCHANGED streams
      BY <3>2 DEF Works, Run, Watch, Boot, Launched, Exits, RunReports, RunCallback, RunExits,
                  RunDone,
             WatchEnds, TimerFires, WatchReports, WatchCallback, WatchClears, WatchKills, streamVars
    <3> QED  BY <3>1, <3>2, Steps DEF streamVars
  <2>5. ASSUME NEW q \in Procs
        PROVE  KnownTo(q)'
    <3>k. KnownTo(q)
      BY DEF Known, KnownTo
    <3>1. CASE UNCHANGED <<procs, streamVars, gens>>
      BY <3>1, <3>k DEF KnownTo, Holds, Serving, At, Born, streamVars
    <3>2. ASSUME NEW g \in Gens, Works(g)
          PROVE  KnownTo(q)'
      <4>1. UNCHANGED procs
        BY <3>2 DEF Works, Run, Watch, Boot, Launched, Exits, RunReports, RunCallback, RunExits,
                    RunDone,
              WatchEnds, TimerFires, WatchReports, WatchCallback, WatchClears, WatchKills
      <4>2. \A o \in Objs : struct'[o].lifeMu = struct[o].lifeMu
        BY <1>t, <3>2, StructOfWorks
      <4> QED  BY <2>1, <2>3, <3>k, <4>1, <4>2 DEF KnownTo, Holds, Serving, At, Born
    <3>3. ASSUME NEW p \in Procs, Acts(p), p # q
          PROVE  KnownTo(q)'
      <4>1. procs'[q] = procs[q]
        BY <1>t, <3>3, OthersRest
      <4>2. ASSUME Holds(q)
            PROVE  struct'[procs[q].st].lifeMu = q
        <5>1. procs[q].st \in Objs /\ struct[procs[q].st].lifeMu = q
          BY <3>k, <4>2 DEF KnownTo
        <5>2. CASE procs[q].st # procs[p].st \/ (~LockLife(p) /\ ~Holds(p))
          BY <1>2, <1>t, <3>3, <5>1, <5>2, StructOfActs
        <5>3. CASE procs[q].st = procs[p].st /\ LockLife(p)
          BY <5>1, <5>3, StreamsAssumption DEF LockLife, Procs
        <5>4. CASE procs[q].st = procs[p].st /\ Holds(p)
          BY <3>3, <5>1, <5>4 DEF Known, KnownTo
        <5> QED  BY <5>2, <5>3, <5>4
      <4> QED  BY <2>1, <2>3, <3>k, <4>1, <4>2 DEF KnownTo, Holds, Serving, At, Born
    <3>4. CASE Acts(q)
      <4>1. Holds(q)' => /\ procs'[q].st \in Objs /\ struct'[procs'[q].st].gen # 0
                         /\ struct'[procs'[q].st].lifeMu = q
        BY <1>t, <2>3, <3>k, <3>4, HoldsNext DEF KnownTo, LockLife, At
      <4>2. At(q, "lock")' => procs'[q].st \in Objs /\ struct'[procs'[q].st].gen # 0
        BY <1>t, <2>3, <3>4, LockNext DEF Known, KnownTo
      <4>3. Serving(q)' => procs'[q].st \in Objs /\ procs'[q].gn \in Gens /\ Born(procs[q].gn)'
        <5>1. CASE Serving(q) /\ procs'[q].st = procs[q].st /\ procs'[q].gn = procs[q].gn
          BY <2>1, <3>k, <5>1 DEF KnownTo, Born
        <5>2. CASE Request(q) /\ procs'[q].st = streams /\ procs'[q].gn = struct[streams].gen
          <6>1. streams \in Objs
            BY <5>2, <1>t DEF Request, IsActive, LocalTypes
          <6>2. struct[streams].gen \in Gens /\ gens[struct[streams].gen].owner = streams
            BY <6>1, <1>t DEF Known, KnownTo, LocalTypes, StructType
          <6> QED  BY <2>1, <5>2, <6>1, <6>2 DEF Born
        <5> QED  BY <1>t, <3>4, <5>1, <5>2, ServingNext
      <4> QED  BY <4>1, <4>2, <4>3 DEF KnownTo
    <3> QED  BY <3>1, <3>2, <3>3, <3>4, Steps
  <2>6. streams' \in Objs => struct'[streams'].gen # 0
    BY <2>3, <2>4 DEF Known, KnownTo
  <2>7. \A o \in Objs : struct'[o].gen # 0 => gens'[struct'[o].gen].owner = o
    BY <1>t, <2>1, <2>3 DEF Known, KnownTo, LocalTypes, StructType
  <2>8. \A g \in Gens : ~Born(g)' => gens'[g] = NewGen
    BY <2>1, <2>2 DEF Born
  <2> QED  BY <2>5, <2>6, <2>7, <2>8 DEF Known, KnownTo
<1> QED  BY <1>1, <1>2

-----------------------------------------------------------------------------
(* What a step does to a generation *)

\* A process takes a generation out of service, closes clients, or adds one that may attach.
LEMMA GenOfActs ==
    ASSUME LocalTypes, NEW p \in Procs, Acts(p), ~StartStream(p), ~Install(p), NEW g \in Gens
    PROVE  /\ gens'[g].run = gens[g].run /\ gens'[g].watch = gens[g].watch
           /\ gens'[g].active = gens[g].active \/ gens'[g].active = FALSE
           /\ \/ gens'[g].clients \subseteq gens[g].clients
              \/ Attach(p) /\ CanAttach(p) /\ g = procs[p].gn
           /\ \/ gens'[g].cancelled = gens[g].cancelled
              \/ Kill(p) /\ g = struct[procs[p].st].gen
<1>g. gens \in [Gens -> FlagGen]
  BY Flags DEF LocalTypes
<1>1. CASE UNCHANGED gens
  BY <1>1
<1>2. CASE Kill(p)
  BY <1>2, <1>g DEF Kill, FlagGen
<1>3. CASE CloseClients(p)
  BY <1>3, <1>g DEF CloseClients, FlagGen
<1>4. CASE Attach(p) /\ ~UNCHANGED gens
  <2>1. CanAttach(p) /\ gens' = [gens EXCEPT ![procs[p].gn].clients = @ \cup {p}]
    BY <1>4 DEF Attach
  <2> QED  BY <1>4, <1>g, <2>1 DEF FlagGen
<1>5. CASE FirstClient(p)
  BY <1>5, <1>g DEF FirstClient, FlagGen
<1>6. CASE Drop(p) \/ Leave(p)
  BY <1>6, <1>g DEF Drop, Leave, FlagGen
<1>7. CASE Ask(p)
  BY <1>1, <1>7 DEF Ask, Request, ManagerResumes, ManagerStops, ManagerPauses, ManagerSeeks,
                    ManagerStopsIf, Begin
<1> QED
  BY <1>1, <1>2, <1>3, <1>4, <1>5, <1>6, <1>7
     DEF Acts, Operation, Serve, LookUp, LockLife, TooLate, Swap, Waited, Mark, RequestFails, Grace

\* What the goroutine of a generation does to it, label by label
LEMMA GenOfRun ==
    ASSUME LocalTypes, NEW g \in Gens, Run(g)
    PROVE  /\ \A h \in Gens : h # g => gens'[h] = gens[h]
           /\ gens'[g].cancelled = gens[g].cancelled
           /\ \/ /\ gens[g].run = "boot" /\ gens'[g].run \in {"launched", "failing"}
                 /\ gens'[g].watch = gens[g].watch /\ gens'[g].active = gens[g].active
                 /\ gens'[g].clients = gens[g].clients
              \/ /\ gens[g].run = "launched" /\ gens'[g].run = "reading"
                 /\ gens'[g].watch = "waiting" /\ gens'[g].clients = gens[g].clients
              \/ /\ gens[g].run \in {"reading", "failing", "callback"}
                 /\ gens'[g].run \in {"failing", "callback", "exit"}
                 /\ gens'[g].watch = gens[g].watch /\ gens'[g].active = gens[g].active
                 /\ gens'[g].clients = gens[g].clients
              \/ /\ RunExits(g) /\ gens'[g].run = "closing"
                 /\ gens'[g].watch = gens[g].watch /\ gens'[g].active = FALSE
                 /\ gens'[g].clients = gens[g].clients
              \/ /\ gens[g].run = "closing" /\ gens'[g].run = "done"
                 /\ gens'[g].watch = gens[g].watch /\ gens'[g].active = gens[g].active
                 /\ gens'[g].clients = IF gens[g].cancelled THEN gens[g].clients ELSE {}
<1>g. gens \in [Gens -> FlagGen]
  BY Flags DEF LocalTypes
<1>l. ASSUME NEW l, RunGo(g, l)
      PROVE  /\ \A h \in Gens : h # g => gens'[h] = gens[h]
             /\ gens'[g].run = l /\ gens'[g].watch = gens[g].watch
             /\ gens'[g].active = gens[g].active /\ gens'[g].clients = gens[g].clients
             /\ gens'[g].cancelled = gens[g].cancelled
  BY <1>l, <1>g DEF RunGo, FlagGen
<1>f. ASSUME NEW l, gens' = [gens EXCEPT ![g].run = l, ![g].failed = TRUE]
      PROVE  /\ \A h \in Gens : h # g => gens'[h] = gens[h]
             /\ gens'[g].run = l /\ gens'[g].watch = gens[g].watch
             /\ gens'[g].active = gens[g].active /\ gens'[g].clients = gens[g].clients
             /\ gens'[g].cancelled = gens[g].cancelled
  BY <1>f, <1>g DEF FlagGen
<1>1. CASE Boot(g)
  BY <1>1, <1>l DEF Boot, RunAt
<1>2. CASE Launched(g)
  <2>1. gens' = [gens EXCEPT ![g].run = "reading", ![g].active = TRUE, ![g].watch = "waiting"]
    BY <1>2 DEF Launched
  <2>2. /\ \A h \in Gens : h # g => gens'[h] = gens[h]
        /\ gens'[g].run = "reading" /\ gens'[g].watch = "waiting"
        /\ gens'[g].clients = gens[g].clients /\ gens'[g].cancelled = gens[g].cancelled
    BY <2>1, <1>g DEF FlagGen
  <2> QED  BY <1>2, <2>2 DEF Launched, RunAt
<1>3. CASE Exits(g)
  BY <1>3, <1>l, <1>f DEF Exits, RunAt
<1>4. CASE RunReports(g)
  BY <1>4, <1>l, <1>f DEF RunReports, RunAt
<1>5. CASE RunCallback(g)
  BY <1>5, <1>l DEF RunCallback, RunAt
<1>6. CASE RunExits(g)
  <2>1. gens' = [gens EXCEPT ![g].run = "closing", ![g].active = FALSE]
    BY <1>6 DEF RunExits
  <2> QED  BY <1>6, <1>g, <2>1 DEF FlagGen
<1>7. CASE RunDone(g)
  <2>1. gens' = [gens EXCEPT ![g].run = "done", ![g].clients = IF gens[g].cancelled THEN @ ELSE {}]
    BY <1>7 DEF RunDone
  <2>2. /\ \A h \in Gens : h # g => gens'[h] = gens[h]
        /\ gens'[g].run = "done" /\ gens'[g].watch = gens[g].watch
        /\ gens'[g].active = gens[g].active /\ gens'[g].cancelled = gens[g].cancelled
        /\ gens'[g].clients = IF gens[g].cancelled THEN gens[g].clients ELSE {}
    BY <2>1, <1>g DEF FlagGen
  <2> QED  BY <1>7, <2>2 DEF RunDone, RunAt
<1> QED  BY <1>1, <1>2, <1>3, <1>4, <1>5, <1>6, <1>7 DEF Run

\* What the watch of a generation does to it
LEMMA GenOfWatch ==
    ASSUME LocalTypes, NEW g \in Gens, Watch(g)
    PROVE  /\ \A h \in Gens : h # g => gens'[h] = gens[h]
           /\ gens'[g].run = gens[g].run /\ gens'[g].clients = gens[g].clients
           /\ gens[g].watch # "none"
           /\ \/ /\ gens'[g].watch = "done"
                 /\ \/ gens'[g].cancelled = gens[g].cancelled
                    \/ gens[g].watch = "kill"
                 /\ gens'[g].active = gens[g].active
              \/ /\ gens[g].clients = {} /\ gens'[g].active = FALSE
                 /\ gens'[g].watch = "report" /\ gens'[g].cancelled = gens[g].cancelled
              \/ /\ gens[g].watch \in {"report", "callback", "clear"}
                 /\ gens'[g].watch \in {"callback", "clear", "kill"}
                 /\ gens'[g].active = gens[g].active /\ gens'[g].cancelled = gens[g].cancelled
<1>g. gens \in [Gens -> FlagGen]
  BY Flags DEF LocalTypes
<1>l. ASSUME NEW l, WatchGo(g, l)
      PROVE  /\ \A h \in Gens : h # g => gens'[h] = gens[h]
             /\ gens'[g].watch = l /\ gens'[g].run = gens[g].run
             /\ gens'[g].active = gens[g].active /\ gens'[g].clients = gens[g].clients
             /\ gens'[g].cancelled = gens[g].cancelled
  BY <1>l, <1>g DEF WatchGo, FlagGen
<1>1. CASE WatchEnds(g)
  BY <1>1, <1>l DEF WatchEnds, WatchAt
<1>2. CASE TimerFires(g)
  <2>1. ASSUME gens[g].clients = {},
               gens' = [gens EXCEPT ![g].watch = "report", ![g].active = FALSE]
        PROVE  /\ \A h \in Gens : h # g => gens'[h] = gens[h]
               /\ gens'[g].watch = "report" /\ gens'[g].run = gens[g].run
               /\ gens'[g].active = FALSE /\ gens'[g].clients = gens[g].clients
               /\ gens'[g].cancelled = gens[g].cancelled
    BY <2>1, <1>g DEF FlagGen
  <2> QED  BY <1>2, <1>l, <2>1 DEF TimerFires, WatchAt
<1>3. CASE WatchReports(g)
  <2>1. ASSUME gens' = [gens EXCEPT ![g].watch = "callback", ![g].failed = TRUE]
        PROVE  /\ \A h \in Gens : h # g => gens'[h] = gens[h]
               /\ gens'[g].watch = "callback" /\ gens'[g].run = gens[g].run
               /\ gens'[g].active = gens[g].active /\ gens'[g].clients = gens[g].clients
               /\ gens'[g].cancelled = gens[g].cancelled
    BY <2>1, <1>g DEF FlagGen
  <2> QED  BY <1>3, <1>l, <2>1 DEF WatchReports, WatchAt
<1>4. CASE WatchCallback(g) \/ WatchClears(g)
  BY <1>4, <1>l DEF WatchCallback, WatchClears, WatchAt
<1>5. CASE WatchKills(g)
  <2>1. gens' = [gens EXCEPT ![g].watch = "done", ![g].cancelled = TRUE]
    BY <1>5 DEF WatchKills
  <2>2. /\ \A h \in Gens : h # g => gens'[h] = gens[h]
        /\ gens'[g].watch = "done" /\ gens'[g].run = gens[g].run
        /\ gens'[g].active = gens[g].active /\ gens'[g].clients = gens[g].clients
    BY <2>1, <1>g DEF FlagGen
  <2> QED  BY <1>5, <2>2 DEF WatchKills, WatchAt
<1> QED  BY <1>1, <1>2, <1>3, <1>4, <1>5 DEF Watch

\* A generation that is born is new otherwise.
LEMMA GenAtBirth ==
    ASSUME LocalTypes, Numbered, Known, NEW b \in Gens, ~Born(b), NEW o, NEW l \in {"none", "boot"},
           gens' = [gens EXCEPT ![b].owner = o, ![b].run = l]
    PROVE  /\ \A g \in Gens : g # b => gens'[g] = gens[g]
           /\ gens'[b].run = l /\ gens'[b].watch = "none"
           /\ gens'[b].active = FALSE /\ gens'[b].clients = {} /\ gens'[b].cancelled = FALSE
<1>1. gens[b] = NewGen
  BY DEF Known, KnownTo
<1>2. /\ \A g \in Gens : g # b => gens'[g] = gens[g]
      /\ gens'[b].run = l /\ gens'[b].watch = gens[b].watch /\ gens'[b].active = gens[b].active
      /\ gens'[b].clients = gens[b].clients /\ gens'[b].cancelled = gens[b].cancelled
  BY Flags DEF LocalTypes, FlagGen
<1>3. /\ gens[b].watch = "none" /\ gens[b].active = FALSE /\ gens[b].clients = {}
      /\ gens[b].cancelled = FALSE
  BY <1>1 DEF NewGen
<1> QED  BY <1>2, <1>3

\* What is born in Start and when a generation is installed
LEMMA Births ==
    ASSUME LocalTypes, Numbered, Known, NEW p \in Procs, StartStream(p) \/ Install(p)
    PROVE  \E b \in Gens :
             /\ \A g \in Gens : g # b => gens'[g] = gens[g]
             /\ gens'[b].run \in {"none", "boot"} /\ gens'[b].watch = "none"
             /\ gens'[b].active = FALSE /\ gens'[b].clients = {} /\ gens'[b].cancelled = FALSE
<1>1. CASE StartStream(p)
  <2>1. nextGenID \in Gens /\ nextGenID \in Nat
    BY <1>1, StreamsAssumption DEF StartStream
  <2>2. ~(nextGenID < nextGenID)
    BY <2>1
  <2>3. ~Born(nextGenID)
    BY <2>1, <2>2 DEF Numbered
  <2>4. PICK o : gens' = [gens EXCEPT ![nextGenID].owner = o, ![nextGenID].run = "boot"]
    BY <1>1 DEF StartStream
  <2> QED  BY <2>1, <2>3, <2>4, GenAtBirth
<1>2. CASE Install(p)
  <2>1. procs[p].gn \in Gens /\ ~Born(procs[p].gn)
    BY <1>2 DEF Install, Numbered
  <2>2. PICK l \in {"none", "boot"} :
           gens' = [gens EXCEPT ![procs[p].gn].owner = procs[p].st, ![procs[p].gn].run = l]
    BY <1>2 DEF Install
  <2> QED  BY <2>1, <2>2, GenAtBirth
<1> QED  BY <1>1, <1>2

-----------------------------------------------------------------------------
(* A generation that the timeout has chosen stays out of service.           *)
LEMMA OutOfServiceStep ==
    ASSUME LocalTypes, Numbered, Known, OutOfService, [StreamsNext]_vars
    PROVE  OutOfService'
<1>1. SUFFICES ASSUME NEW g \in Gens
               PROVE  Out(g)'
  BY DEF OutOfService, Out
<1>g. Out(g)
  BY DEF OutOfService, Out
<1>s. gens'[g] = gens[g] => Out(g)'
  BY <1>g DEF Out
<1>2. CASE \E p \in Procs : StartStream(p) \/ Install(p)
  <2>1. PICK b \in Gens :
             /\ \A h \in Gens : h # b => gens'[h] = gens[h]
             /\ gens'[b].run \in {"none", "boot"} /\ gens'[b].watch = "none"
    BY <1>2, Births
  <2> QED  BY <1>s, <2>1 DEF Out
<1>3. ASSUME NEW p \in Procs, Acts(p), ~StartStream(p), ~Install(p)
      PROVE  Out(g)'
  <2>1. /\ gens'[g].run = gens[g].run /\ gens'[g].watch = gens[g].watch
        /\ gens'[g].active = gens[g].active \/ gens'[g].active = FALSE
    BY <1>3, GenOfActs
  <2>2. CASE gens'[g].clients \subseteq gens[g].clients
    BY <1>g, <2>1, <2>2 DEF Out
  <2>3. CASE CanAttach(p) /\ g = procs[p].gn
    <3>1. gens[g].active
      BY <2>3 DEF CanAttach
    <3> QED  BY <1>g, <2>1, <3>1 DEF Out
  <2> QED  BY <1>3, <2>2, <2>3, GenOfActs
<1>4. ASSUME NEW h \in Gens, Run(h)
      PROVE  Out(g)'
  <2>1. CASE g # h
    BY <1>4, <1>s, <2>1, GenOfRun
  <2>2. CASE g = h
    BY <1>4, <1>g, <2>2, GenOfRun DEF Out, RunExits, RunAt
  <2> QED  BY <2>1, <2>2
<1>5. ASSUME NEW h \in Gens, Watch(h)
      PROVE  Out(g)'
  <2>1. CASE g # h
    BY <1>5, <1>s, <2>1, GenOfWatch
  <2>2. CASE g = h
    BY <1>5, <1>g, <2>2, GenOfWatch DEF Out
  <2> QED  BY <2>1, <2>2
<1> QED  BY <1>2, <1>3, <1>4, <1>5, <1>s, Steps DEF Works

-----------------------------------------------------------------------------
(* Clients of a generation that is over are going to be closed: who is about *)
(* to close them does so before anything else.                               *)
LEMMA ClosesNext ==
    ASSUME LocalTypes, Known, [StreamsNext]_vars, NEW p \in Procs, NEW g \in Gens, Closes(p, g),
           ~CloseClients(p)
    PROVE  Closes(p, g)'
<1>k. procs[p].st \in Objs /\ struct[procs[p].st].gen # 0 /\ struct[procs[p].st].lifeMu = p
  BY DEF Closes, Known, KnownTo, Holds, At
<1>1. CASE UNCHANGED <<streamVars, gens, procs>>
  BY <1>1 DEF Closes, At, streamVars
<1>2. ASSUME NEW h \in Gens, Works(h)
      PROVE  Closes(p, g)'
  <2>1. UNCHANGED procs
    BY <1>2 DEF Works, Run, Watch, Boot, Launched, Exits, RunReports, RunCallback, RunExits,
                RunDone,
          WatchEnds, TimerFires, WatchReports, WatchCallback, WatchClears, WatchKills
  <2> QED  BY <1>2, <1>k, <2>1, StructOfWorks DEF Closes, At
<1>3. ASSUME NEW q \in Procs, Acts(q), q # p
      PROVE  Closes(p, g)'
  <2>1. procs'[p] = procs[p]
    BY <1>3, OthersRest
  <2>2. struct'[procs[p].st].gen = struct[procs[p].st].gen
    <3>1. CASE StartStream(q)
      <4>1. PICK o \in Objs : struct[o].gen = 0 /\ \A x \in Objs : x # o => struct'[x] = struct[x]
        BY <3>1 DEF StartStream, LocalTypes
      <4> QED  BY <1>k, <4>1
    <3>2. CASE Install(q)
      <4>1. Holds(q) /\ ~StartStream(q)
        BY <3>2 DEF Install, StartStream, Holds, At
      <4>2. procs[q].st # procs[p].st
        BY <1>3, <1>k, <4>1 DEF Known, KnownTo
      <4> QED  BY <1>3, <1>k, <4>1, <4>2, StructOfActs
    <3> QED  BY <1>3, <1>k, <3>1, <3>2, StructOfActs
  <2> QED  BY <2>1, <2>2 DEF Closes, At
<1>4. CASE Acts(p)
  BY <1>4 DEF Closes, Acts, Ask, Operation, Serve, At, StartStream, Request, ManagerResumes,
              ManagerStops,
        ManagerPauses, ManagerSeeks, ManagerStopsIf, Begin, LookUp, LockLife, TooLate, Swap, Kill,
        Waited,
        Install, Mark, RequestFails, Attach, FirstClient, Drop, Leave, Grace
<1> QED  BY <1>1, <1>2, <1>3, <1>4, Steps

\* So a client of a generation that is over always has somebody to close it.
LEMMA ClosingStep ==
    ASSUME LocalTypes, Numbered, Known, OutOfService, Closing, [StreamsNext]_vars
    PROVE  Closing'
<1>1. SUFFICES ASSUME NEW g \in Gens, Over(g)', gens'[g].clients # {}
               PROVE  \E q \in Procs : Closes(q, g)'
  BY DEF Closing, Over, Closes
<1>2. ASSUME Over(g), gens[g].clients # {}, \A p \in Procs : Closes(p, g) => ~CloseClients(p)
      PROVE  \E q \in Procs : Closes(q, g)'
  BY <1>2, ClosesNext DEF Closing, Over, Closes
<1>3. ASSUME NEW p \in Procs, CloseClients(p), Closes(p, g)
      PROVE  FALSE
  BY <1>1, <1>3 DEF CloseClients, Closes, LocalTypes, GenType
<1>4. CASE \E p \in Procs : StartStream(p) \/ Install(p)
  <2>1. PICK b \in Gens :
             /\ \A h \in Gens : h # b => gens'[h] = gens[h]
             /\ gens'[b].clients = {}
    BY <1>4, Births
  <2> QED  BY <1>1, <1>2, <1>3, <2>1 DEF Over, RunAt
<1>5. ASSUME NEW p \in Procs, Acts(p), ~StartStream(p), ~Install(p)
      PROVE  \E q \in Procs : Closes(q, g)'
  <2>1. /\ gens'[g].run = gens[g].run
        /\ \/ gens'[g].clients \subseteq gens[g].clients
           \/ Attach(p) /\ CanAttach(p) /\ g = procs[p].gn
        /\ \/ gens'[g].cancelled = gens[g].cancelled
           \/ Kill(p) /\ g = struct[procs[p].st].gen
    BY <1>5, GenOfActs
  <2>2. CASE Kill(p) /\ g = struct[procs[p].st].gen
    <3>1. procs'[p].pc = "close" /\ procs'[p].st = procs[p].st /\ UNCHANGED struct
      BY <2>2, Goes DEF Kill, LocalTypes, streamVars
    <3> QED  BY <2>2, <3>1 DEF Closes, At
  <2>3. CASE Attach(p) /\ CanAttach(p) /\ g = procs[p].gn
    <3>1. ~gens[g].cancelled /\ gens[g].active /\ gens'[g].cancelled = gens[g].cancelled
      BY <2>1, <2>3 DEF CanAttach, Attach, Kill, At
    <3>2. gens[g].run # "done"
      BY <3>1 DEF OutOfService, Out
    <3> QED  BY <1>1, <2>1, <3>1, <3>2 DEF Over, RunAt
  <2>4. CASE gens'[g].clients \subseteq gens[g].clients /\ gens'[g].cancelled = gens[g].cancelled
    BY <1>1, <1>2, <1>3, <2>1, <2>4 DEF Over, RunAt
  <2> QED  BY <2>1, <2>2, <2>3, <2>4
<1>6. ASSUME NEW h \in Gens, Run(h)
      PROVE  \E q \in Procs : Closes(q, g)'
  <2>1. CASE g # h
    <3>1. gens'[g] = gens[g]
      BY <1>6, <2>1, GenOfRun
    <3> QED  BY <1>1, <1>2, <1>3, <3>1 DEF Over, RunAt
  <2>2. CASE g = h
    <3>1. /\ gens'[g].cancelled = gens[g].cancelled /\ gens'[g].clients \subseteq gens[g].clients
          /\ gens'[g].run = "done" => gens'[g].clients = IF gens[g].cancelled THEN gens[g].clients ELSE {}
      BY <1>6, <2>2, GenOfRun
    <3> QED  BY <1>1, <1>2, <1>3, <3>1 DEF Over, RunAt
  <2> QED  BY <2>1, <2>2
<1>7. ASSUME NEW h \in Gens, Watch(h)
      PROVE  \E q \in Procs : Closes(q, g)'
  <2>1. CASE g # h
    <3>1. gens'[g] = gens[g]
      BY <1>7, <2>1, GenOfWatch
    <3> QED  BY <1>1, <1>2, <1>3, <3>1 DEF Over, RunAt
  <2>2. CASE g = h
    <3>1. /\ gens'[g].run = gens[g].run /\ gens'[g].clients = gens[g].clients
          /\ gens'[g].cancelled = gens[g].cancelled \/ gens[g].clients = {}
      BY <1>7, <2>2, GenOfWatch DEF OutOfService, Out
    <3> QED  BY <1>1, <1>2, <1>3, <3>1 DEF Over, RunAt
  <2> QED  BY <2>1, <2>2
<1>8. CASE UNCHANGED gens
  <2>1. Over(g) /\ gens[g].clients # {}
    BY <1>1, <1>8 DEF Over, RunAt
  <2> QED  BY <1>2, <1>3, <2>1
<1> QED  BY <1>4, <1>5, <1>6, <1>7, <1>8, Steps DEF Works

-----------------------------------------------------------------------------
(* runsInFlight says whether the generation of a struct is being run.       *)

\* A process never changes whether a generation that was born is run.
LEMMA RunOfActs ==
    ASSUME LocalTypes, Numbered, Known, NEW p \in Procs, Acts(p), NEW g \in Gens, Born(g)
    PROVE  Running(g)' = Running(g)
<1>1. CASE StartStream(p)
  <2>1. nextGenID \in Nat /\ ~(nextGenID < nextGenID)
    BY <1>1, StreamsAssumption DEF StartStream
  <2>2. g # nextGenID
    BY <2>1 DEF Numbered
  <2> QED  BY <1>1, <2>2 DEF StartStream, LocalTypes, Running
<1>2. CASE Install(p)
  <2>1. g # procs[p].gn
    BY <1>2 DEF Install, Numbered
  <2> QED  BY <1>2, <2>1 DEF Install, LocalTypes, Running
<1>3. CASE ~StartStream(p) /\ ~Install(p)
  BY <1>3, GenOfActs DEF Running
<1> QED  BY <1>1, <1>2, <1>3

\* Nor does runsInFlight change but in the steps that take a number, in Start and at the end of run.
LEMMA RunsOfActs ==
    ASSUME LocalTypes, NEW p \in Procs, Acts(p), ~StartStream(p), ~Takes(p), NEW o \in Objs
    PROVE  struct'[o].runs = struct[o].runs
<1>g. struct \in [Objs -> FlagStruct]
  BY Flags DEF LocalTypes
<1>t. ASSUME Stopped(p)
      PROVE  struct'[o].runs = struct[o].runs
  BY <1>t, <1>g DEF Stopped, FlagStruct
<1>1. CASE LockLife(p)
  <2>1. struct' = [struct EXCEPT ![procs[p].st].lifeMu = p, ![procs[p].st].runs = @]
    BY <1>1 DEF LockLife, Takes
  <2> QED  BY <1>g, <2>1 DEF FlagStruct
<1>2. CASE Swap(p)
  <2>1. CASE struct' = [struct EXCEPT ![procs[p].st].active = FALSE]
    BY <1>g, <2>1 DEF FlagStruct
  <2> QED  BY <1>2, <1>t, <2>1 DEF Swap
<1>3. CASE Waited(p)
  BY <1>3, <1>t DEF Waited, Takes
<1>4. CASE Install(p)
  BY <1>4, <1>g DEF Install, FlagStruct
<1>5. CASE ~(LockLife(p) \/ Swap(p) \/ Waited(p) \/ Install(p))
  <2>1. UNCHANGED struct
    BY <1>5 DEF Acts, Ask, Operation, Serve, Request, ManagerResumes, ManagerStops, ManagerPauses,
                ManagerSeeks, ManagerStopsIf, Begin, LookUp, TooLate, Kill, CloseClients, Mark,
                RequestFails, Attach, FirstClient, Drop, Leave, Grace, streamVars
  <2> QED  BY <2>1
<1> QED  BY <1>1, <1>2, <1>3, <1>4, <1>5

\* Only the end of run changes runsInFlight, and only that of its own struct.
LEMMA RunsOfWorks ==
    ASSUME LocalTypes, NEW g \in Gens, Works(g), NEW o \in Objs
    PROVE  /\ ~RunExits(g) \/ struct[o].gen # g => struct'[o].runs = struct[o].runs
           /\ RunExits(g) /\ struct[o].gen = g /\ gens[g].owner = o => struct'[o].runs = 0
<1>g. struct \in [Objs -> FlagStruct]
  BY Flags DEF LocalTypes
<1>1. CASE RunExits(g) /\ struct[gens[g].owner].gen = g
  <2>1. struct' = [struct EXCEPT ![gens[g].owner].runs = 0,
                                 ![gens[g].owner].active = @ /\ gens[g].cancelled]
    BY <1>1 DEF RunExits, IsCurrent
  <2> QED  BY <1>1, <1>g, <2>1 DEF FlagStruct
<1>2. CASE WatchClears(g)
  <2>1. ~RunExits(g)
    BY <1>2 DEF WatchClears, RunExits, WatchGo, RunAt, LocalTypes, GenType
  <2> QED  BY <1>2, <1>g, <2>1 DEF WatchClears, FlagStruct
<1>3. CASE ~WatchClears(g) /\ ~(RunExits(g) /\ struct[gens[g].owner].gen = g)
  <2>1. UNCHANGED struct
    BY <1>3 DEF Works, Run, Watch, Boot, Launched, Exits, RunReports, RunCallback, RunDone,
                RunExits,
           WatchEnds, TimerFires, WatchReports, WatchCallback, WatchKills, IsCurrent, streamVars
  <2> QED  BY <1>3, <2>1
<1> QED  BY <1>1, <1>2, <1>3

\* The same generation in a struct, the same answer whether it is run, and the same number
LEMMA TrackedAlike ==
    ASSUME LocalTypes, Known, Tracked,
           \A q \in Procs : /\ At(q, "install") => procs'[q] = procs[q]
                            /\ procs'[q].pc = "install" => procs'[q] = procs[q],
           \A o \in Objs : struct'[o].gen = struct[o].gen /\ struct'[o].runs = struct[o].runs,
           \A g \in Gens : Born(g) => Running(g)' = Running(g)
    PROVE  Tracked'
<1>1. \A o \in Objs : struct[o].gen # 0 => struct[o].gen \in Gens /\ Born(struct[o].gen)
  BY DEF LocalTypes, StructType, Known, KnownTo, Born
<1>2. ASSUME NEW o \in Objs, struct'[o].gen # 0
      PROVE  \/ \E p \in Procs : Installs(p, o)'
             \/ Settled(o)'
  <2>1. CASE \E p \in Procs : Installs(p, o)
    BY <2>1 DEF Installs, At
  <2>2. CASE Settled(o)
    BY <1>1, <1>2, <2>2 DEF Settled, Running
  <2> QED  BY <1>2, <2>1, <2>2 DEF Tracked, InstallOK, Installs, Settled
<1>3. ASSUME NEW p \in Procs
      PROVE  InstallOK(p)'
  <2>1. CASE procs'[p].pc = "install"
    <3>1. procs'[p] = procs[p] /\ At(p, "install")
      BY <2>1 DEF At
    <3>2. procs[p].st \in Objs /\ struct[procs[p].st].gen # 0
      BY <3>1 DEF Known, KnownTo, Holds, At
    <3>3. Running(struct[procs[p].st].gen)' = Running(struct[procs[p].st].gen)
      BY <1>1, <3>1, <3>2 DEF Running
    <3>4. InstallOK(p)
      BY DEF Tracked, Installs, Settled, InstallOK
    <3> QED  BY <3>1, <3>2, <3>3, <3>4 DEF InstallOK, Call
  <2>2. CASE procs'[p].pc # "install"
    BY <2>2 DEF InstallOK, At
  <2> QED  BY <2>1, <2>2
<1> QED  BY <1>2, <1>3 DEF Tracked, Installs, Settled, InstallOK

\* The end of run: its generation is the one of its struct, which takes note, or an old one.
LEMMA TrackedExit ==
    ASSUME LocalTypes, Known, Tracked, NEW g \in Gens, RunExits(g)
    PROVE  Tracked'
<1>1. UNCHANGED procs /\ \A o \in Objs : struct'[o].gen = struct[o].gen
  BY StructOfWorks DEF Works, Run, RunExits
<1>2. Running(g) /\ ~Running(g)' /\ \A h \in Gens : h # g => gens'[h] = gens[h]
  BY GenOfRun DEF Run, RunExits, RunAt, Running, LocalTypes, GenType
<1>3. ASSUME NEW o \in Objs, struct[o].gen # 0
      PROVE  /\ struct[o].gen = g => struct'[o].runs = 0
             /\ struct[o].gen # g => /\ struct'[o].runs = struct[o].runs
                                    /\ gens'[struct[o].gen] = gens[struct[o].gen]
  <2>1. struct[o].gen \in Gens /\ gens[struct[o].gen].owner = o
    BY <1>3 DEF LocalTypes, StructType, Known, KnownTo
  <2> QED  BY <1>2, <2>1, RunsOfWorks DEF Works, Run
<1>4. ASSUME NEW o \in Objs, struct'[o].gen # 0
      PROVE  \/ \E p \in Procs : Installs(p, o)'
             \/ Settled(o)'
  <2>1. CASE \E p \in Procs : Installs(p, o)
    BY <1>1, <2>1 DEF Installs, At
  <2>2. CASE struct[o].gen = g
    BY <1>1, <1>2, <1>3, <1>4, <2>2 DEF Settled, Running
  <2>3. CASE Settled(o) /\ struct[o].gen # g
    BY <1>1, <1>3, <1>4, <2>3 DEF Settled, Running
  <2> QED  BY <1>1, <1>4, <2>1, <2>2, <2>3 DEF Tracked, InstallOK, Installs, Settled
<1>5. ASSUME NEW p \in Procs
      PROVE  InstallOK(p)'
  <2>1. CASE At(p, "install")
    <3>1. procs[p].st \in Objs /\ struct[procs[p].st].gen # 0 /\ InstallOK(p)
      BY <2>1 DEF Known, KnownTo, Holds, At, Tracked, Installs, Settled, InstallOK
    <3>2. CASE struct[procs[p].st].gen = g
      BY <1>1, <1>2, <1>3, <2>1, <3>1, <3>2 DEF InstallOK, Call, At
    <3>3. CASE struct[procs[p].st].gen # g
      BY <1>1, <1>3, <2>1, <3>1, <3>3 DEF InstallOK, Call, At, Running
    <3> QED  BY <3>2, <3>3
  <2>2. CASE ~At(p, "install")
    BY <1>1, <2>2 DEF InstallOK, At
  <2> QED  BY <2>1, <2>2
<1> QED  BY <1>4, <1>5 DEF Tracked, Installs, Settled, InstallOK

\* A new struct is run from the start.
LEMMA TrackedStart ==
    ASSUME LocalTypes, Numbered, Known, Tracked, NEW p \in Procs, Acts(p), StartStream(p)
    PROVE  Tracked'
<1>1. PICK o \in Objs :
        /\ struct[o].gen = 0
        /\ struct' = [struct EXCEPT ![o] = [gen |-> nextGenID, active |-> TRUE, runs |-> 1,
                                            lifeMu |-> Nobody]]
        /\ gens' = [gens EXCEPT ![nextGenID].owner = o, ![nextGenID].run = "boot"]
  BY DEF StartStream
<1>2. UNCHANGED procs /\ nextGenID \in Gens
  BY DEF StartStream
<1>3. /\ struct'[o].gen = nextGenID /\ struct'[o].runs = 1
      /\ \A x \in Objs : x # o => struct'[x] = struct[x]
  BY <1>1 DEF LocalTypes
<1>4. gens'[nextGenID].run = "boot"
  BY <1>1, <1>2, Flags DEF LocalTypes, FlagGen
<1>5. ASSUME NEW x \in Objs, struct[x].gen # 0
      PROVE  x # o /\ Running(struct[x].gen)' = Running(struct[x].gen)
  <2>1. x # o /\ struct[x].gen \in Gens /\ Born(struct[x].gen)
    BY <1>1, <1>5 DEF LocalTypes, StructType, Known, KnownTo, Born
  <2>2. struct'[x] = struct[x]
    BY <1>3, <2>1
  <2>3. \A g \in Gens : Born(g) => Running(g)' = Running(g)
    BY RunOfActs DEF Running
  <2> QED  BY <2>1, <2>2, <2>3 DEF Running
<1>6. ASSUME NEW x \in Objs, struct'[x].gen # 0
      PROVE  \/ \E q \in Procs : Installs(q, x)'
             \/ Settled(x)'
  <2>1. CASE x = o
    BY <1>3, <1>4, <2>1 DEF Settled, Running
  <2>2. CASE x # o /\ \E q \in Procs : Installs(q, x)
    BY <1>2, <2>2 DEF Installs, At
  <2>3. CASE x # o /\ Settled(x)
    BY <1>3, <1>5, <1>6, <2>3 DEF Settled
  <2> QED  BY <1>3, <1>6, <2>1, <2>2, <2>3 DEF Tracked, InstallOK, Installs, Settled
<1>7. ASSUME NEW q \in Procs
      PROVE  InstallOK(q)'
  <2>1. CASE At(q, "install")
    <3>1. procs[q].st \in Objs /\ struct[procs[q].st].gen # 0 /\ InstallOK(q)
      BY <2>1 DEF Known, KnownTo, Holds, At, Tracked, Installs, Settled, InstallOK
    <3> QED  BY <1>2, <1>3, <1>5, <2>1, <3>1 DEF InstallOK, Call, At
  <2>2. CASE ~At(q, "install")
    BY <1>2, <2>2 DEF InstallOK, At
  <2> QED  BY <2>1, <2>2
<1> QED  BY <1>6, <1>7 DEF Tracked, Installs, Settled, InstallOK

\* What holds of every struct but the one a process works on, and of every other process
LEMMA TrackedElsewhere ==
    ASSUME LocalTypes, Numbered, Known, Tracked, NEW p \in Procs, Acts(p), ~StartStream(p),
           struct[procs[p].st].lifeMu \in {p, Nobody}, procs[p].st \in Objs
    PROVE  /\ \A x \in Objs : x # procs[p].st /\ struct'[x].gen # 0 =>
                \/ \E q \in Procs : Installs(q, x)'
                \/ Settled(x)'
           /\ \A q \in Procs : q # p => InstallOK(q)'
<1> DEFINE o == procs[p].st
<1>1. \A q \in Procs : q # p => procs'[q] = procs[q]
  BY OthersRest
<1>2. \A x \in Objs : x # o => struct'[x] = struct[x]
  BY StructOfActs
<1>3. ASSUME NEW x \in Objs, struct[x].gen # 0, x # o
      PROVE  Running(struct[x].gen)' = Running(struct[x].gen)
  <2>1. struct[x].gen \in Gens /\ Born(struct[x].gen)
    BY <1>3 DEF LocalTypes, StructType, Known, KnownTo, Born
  <2> QED  BY <1>2, <1>3, <2>1, RunOfActs DEF Running
<1>4. ASSUME NEW x \in Objs, x # o, struct'[x].gen # 0
      PROVE  \/ \E q \in Procs : Installs(q, x)'
             \/ Settled(x)'
  <2>1. CASE \E q \in Procs : Installs(q, x)
    <3>1. PICK q \in Procs : Installs(q, x)
      BY <2>1
    <3>2. q # p
      BY <1>4, <3>1 DEF Installs
    <3> QED  BY <1>1, <3>1, <3>2 DEF Installs, At
  <2>2. CASE Settled(x)
    BY <1>2, <1>3, <1>4, <2>2 DEF Settled
  <2> QED  BY <1>2, <1>4, <2>1, <2>2 DEF Tracked, InstallOK, Installs, Settled
<1>5. ASSUME NEW q \in Procs, q # p
      PROVE  InstallOK(q)'
  <2>1. CASE At(q, "install")
    <3>1. /\ procs[q].st \in Objs /\ struct[procs[q].st].gen # 0 /\ InstallOK(q)
          /\ struct[procs[q].st].lifeMu = q
      BY <2>1 DEF Known, KnownTo, Holds, At, Tracked, Installs, Settled, InstallOK
    <3>2. procs[q].st # o
      BY <1>5, <3>1, StreamsAssumption DEF Procs
    <3> QED  BY <1>1, <1>2, <1>3, <1>5, <2>1, <3>1, <3>2 DEF InstallOK, Call, At
  <2>2. CASE ~At(q, "install")
    BY <1>1, <1>5, <2>2 DEF InstallOK, At
  <2> QED  BY <2>1, <2>2
<1> QED  BY <1>4, <1>5

\* An installation leaves runsInFlight as its generation has it.
LEMMA TrackedInstall ==
    ASSUME LocalTypes, Numbered, Known, Tracked, NEW p \in Procs, Install(p)
    PROVE  Tracked'
<1> DEFINE o == procs[p].st
           h == procs[p].gn
<1>1. /\ o \in Objs /\ struct[o].gen # 0 /\ struct[o].lifeMu = p /\ h \in Gens
      /\ ~StartStream(p) /\ InstallOK(p) /\ At(p, "install") /\ Acts(p)
  BY DEF Install, Known, KnownTo, Numbered, Holds, At, StartStream, Tracked, Installs, Settled,
         InstallOK, Acts, Operation
<1>2. struct'[o].gen = h /\ struct'[o].runs = struct[o].runs
  BY <1>1, Flags DEF Install, LocalTypes, FlagStruct
<1>3. gens'[h].run = IF Call(p) = "restart" THEN "none" ELSE "boot"
  BY <1>1, Flags DEF Install, LocalTypes, FlagGen
<1>4. Settled(o)'
  <2>1. procs'[p].st = o /\ procs'[p].pc = "idle"
    BY Goes DEF Install, LocalTypes
  <2>2. struct'[o].runs = 1 <=> gens'[struct'[o].gen].run \in
              {"boot", "launched", "reading", "failing", "callback", "exit"}
    BY <1>1, <1>2, <1>3 DEF InstallOK
  <2> QED  BY <2>1, <2>2 DEF Settled, Running
<1>5. InstallOK(p)'
  BY Goes DEF Install, LocalTypes, InstallOK, At
<1>6. procs'[p].st = o
  BY Goes DEF Install, LocalTypes
<1>7. /\ \A x \in Objs : x # o /\ struct'[x].gen # 0 =>
           \/ \E q \in Procs : Installs(q, x)'
           \/ Settled(x)'
      /\ \A q \in Procs : q # p => InstallOK(q)'
  BY <1>1, TrackedElsewhere
<1>8. \A q \in Procs : InstallOK(q)'
  BY <1>5, <1>7
<1>9. ASSUME NEW x \in Objs, struct'[x].gen # 0
      PROVE  \/ \E q \in Procs : Installs(q, x)'
             \/ Settled(x)'
  <2>1. CASE x = o
    BY <1>4, <1>6, <2>1 DEF Settled
  <2> QED  BY <1>7, <1>9, <2>1
<1> QED  BY <1>8, <1>9 DEF Tracked, Installs, Settled, InstallOK

\* Whoever takes a number is going to install it, and finds the struct as it should be.
LEMMA TrackedTakes ==
    ASSUME LocalTypes, Numbered, Known, Tracked, NEW p \in Procs, Takes(p)
    PROVE  Tracked'
<1> DEFINE o == procs[p].st
<1>1. /\ o \in Objs /\ struct[o].gen # 0 /\ struct[o].lifeMu \in {p, Nobody}
      /\ ~StartStream(p) /\ ~Install(p) /\ Acts(p)
  BY DEF Takes, LockLife, Waited, Known, KnownTo, Holds, At, StartStream, Install, Acts, Operation
<1>2. /\ procs'[p].pc = "install" /\ procs'[p].st = o /\ procs'[p].call = procs[p].call
      /\ UNCHANGED gens
  BY TakesNumber
<1>3. struct'[o].gen = struct[o].gen
  BY <1>1, StructOfActs
<1>e. ASSUME InstallOK(p)'
      PROVE  Tracked'
  <2>1. /\ \A x \in Objs : x # o /\ struct'[x].gen # 0 =>
             \/ \E q \in Procs : Installs(q, x)'
             \/ Settled(x)'
        /\ \A q \in Procs : q # p => InstallOK(q)'
    BY <1>1, TrackedElsewhere
  <2>2. \A q \in Procs : InstallOK(q)'
    BY <1>e, <2>1
  <2>3. ASSUME NEW x \in Objs, struct'[x].gen # 0
        PROVE  \/ \E q \in Procs : Installs(q, x)'
               \/ Settled(x)'
    <3>1. x = o => Installs(p, x)'
      BY <1>2 DEF Installs, At
    <3> QED  BY <2>1, <2>3, <3>1
  <2> QED  BY <2>2, <2>3 DEF Tracked, Installs, Settled, InstallOK
<1>4. CASE LockLife(p) /\ Call(p) = "resume"
  <2>1. struct[o].lifeMu = Nobody /\ struct[o].runs = 0
    BY <1>4 DEF LockLife, StillCurrent, StopsIf
  <2>2. \A q \in Procs : ~Installs(q, o)
    BY <2>1, StreamsAssumption DEF Installs, Known, KnownTo, Holds, At, Procs
  <2>3. ~Running(struct[o].gen)
    BY <1>1, <2>1, <2>2 DEF Tracked, Settled, InstallOK, Installs
  <2>4. struct'[o].runs = 1
    BY <1>1, <1>4, Flags DEF LockLife, LocalTypes, FlagStruct
  <2>5. InstallOK(p)'
    BY <1>2, <1>3, <1>4, <2>3, <2>4 DEF InstallOK, Call, Running
  <2> QED  BY <1>e, <2>5
<1>5. CASE Waited(p) /\ Call(p) = "restart"
  <2>1. struct'[o].runs = 0
    BY <1>1, <1>5, Flags DEF Waited, LocalTypes, FlagStruct
  <2>2. InstallOK(p)'
    BY <1>2, <1>5, <2>1 DEF InstallOK, Call
  <2> QED  BY <1>e, <2>2
<1> QED  BY <1>4, <1>5 DEF Takes

\* Tracked is kept by every step.
LEMMA TrackedStep ==
    ASSUME LocalTypes, Numbered, Known, Tracked, [StreamsNext]_vars
    PROVE  Tracked'
<1>1. CASE UNCHANGED <<streamVars, gens, procs>>
  BY <1>1 DEF Tracked, Installs, Settled, InstallOK, At, Call, Running, streamVars
<1>2. ASSUME NEW g \in Gens, Works(g)
      PROVE  Tracked'
  <2>1. CASE RunExits(g)
    BY <2>1, TrackedExit
  <2>2. CASE ~RunExits(g)
    <3>1. UNCHANGED procs
      BY <1>2 DEF Works, Run, Watch, Boot, Launched, Exits, RunReports, RunCallback, RunExits,
                  RunDone,
            WatchEnds, TimerFires, WatchReports, WatchCallback, WatchClears, WatchKills
    <3>2. \A o \in Objs : struct'[o].gen = struct[o].gen /\ struct'[o].runs = struct[o].runs
      BY <1>2, <2>2, StructOfWorks, RunsOfWorks
    <3>3. \A h \in Gens : Running(h)' = Running(h)
      <4>1. CASE Run(g)
        <5>1. \A h \in Gens : h # g => gens'[h] = gens[h]
          BY <4>1, GenOfRun
        <5>2. Running(g)' = Running(g)
          <6>1. \/ gens[g].run \in {"boot", "launched", "reading", "failing", "callback"}
                   /\ gens'[g].run \in {"launched", "reading", "failing", "callback", "exit"}
                \/ gens[g].run = "closing" /\ gens'[g].run = "done"
            BY <2>2, <4>1, GenOfRun
          <6> QED  BY <6>1 DEF Running
        <5> QED  BY <5>1, <5>2 DEF Running
      <4>2. CASE Watch(g)
        BY <4>2, GenOfWatch DEF Running
      <4> QED  BY <1>2, <4>1, <4>2 DEF Works
    <3> QED  BY <3>1, <3>2, <3>3, TrackedAlike
  <2> QED  BY <2>1, <2>2
<1>3. ASSUME NEW p \in Procs, Acts(p)
      PROVE  Tracked'
  <2>1. CASE StartStream(p) \/ Install(p) \/ Takes(p)
    BY <1>3, <2>1, TrackedStart, TrackedInstall, TrackedTakes
  <2>2. CASE ~(StartStream(p) \/ Install(p) \/ Takes(p))
    <3>1. \A o \in Objs : struct'[o].gen = struct[o].gen /\ struct'[o].runs = struct[o].runs
      BY <1>3, <2>2, StructOfActs, RunsOfActs
    <3>2. \A g \in Gens : Born(g) => Running(g)' = Running(g)
      BY <1>3, RunOfActs
    <3>3. \A q \in Procs : procs'[q].pc = "install" => procs'[q] = procs[q]
      BY <1>3, <2>2, OthersRest, OnlyTakesEnter
    <3>4. \A q \in Procs : At(q, "install") => procs'[q] = procs[q]
      <4>1. ~At(p, "install")
        BY <1>3, <2>2 DEF Acts, Ask, Operation, Serve, At, StartStream, Request, ManagerResumes,
              ManagerStops, ManagerPauses, ManagerSeeks, ManagerStopsIf, Begin, LookUp, LockLife,
              TooLate, Swap, Kill, CloseClients, Waited, Mark, RequestFails, Attach, FirstClient,
              Drop,
              Leave, Grace
      <4> QED  BY <1>3, <4>1, OthersRest
    <3> QED  BY <3>1, <3>2, <3>3, <3>4, TrackedAlike
  <2> QED  BY <2>1, <2>2
<1> QED  BY <1>1, <1>2, <1>3, Steps

-----------------------------------------------------------------------------
(* The invariant and what follows from it *)

\* The parts of the invariant together
LEMMA StreamsInvInit ==
    ASSUME StreamsInit
    PROVE  StreamsInv
<1>1. StreamsTypeOK /\ Numbered
  BY NumberedInit
<1>2. /\ streams = NoStream /\ \A o \in Objs : struct[o].gen = 0
      /\ \A g \in Gens : gens[g] = NewGen
      /\ \A p \in Procs : procs[p].pc = "idle"
  BY DEF StreamsInit
<1>3. Known /\ Tracked
  BY <1>2, StreamsAssumption DEF Known, KnownTo, Tracked, Installs, Settled, InstallOK, Holds,
                                 Serving, At
<1>4. OutOfService /\ Closing
  BY <1>2 DEF OutOfService, Out, Closing, Over, Closes, RunAt, NewGen
<1> QED  BY <1>1, <1>3, <1>4 DEF StreamsInv

\* Each part needs only those before it.
LEMMA StreamsInvStep ==
    ASSUME StreamsInv, [StreamsNext]_vars
    PROVE  StreamsInv'
<1>1. LocalTypes
  BY DEF StreamsInv, StreamsTypeOK, LocalTypes
<1> QED
  BY <1>1, StreamsTypeStep, NumberedStep, KnownStep, TrackedStep, OutOfServiceStep, ClosingStep
     DEF StreamsInv

\* The invariant of the streamer
LEMMA StreamsInvariant == StreamsSpec => []StreamsInv
BY StreamsInvInit, StreamsInvStep, PTL DEF StreamsSpec

(* runsInFlight of a struct that nobody is changing is set exactly while    *)
(* the goroutine of its present generation runs: whoever changes the        *)
(* generation holds lifeMu, and an old goroutine knows that it is old.      *)
THEOREM RunTrackingTheorem == StreamsSpec => []RunTracking
<1>1. StreamsInv => RunTracking
  BY StreamsAssumption DEF StreamsInv, RunTracking, Tracked, Installs, Settled, InstallOK, Known,
                           KnownTo, Holds, At, Procs
<1> QED  BY <1>1, StreamsInvariant, PTL

(* Once the startup timeout has decided to end a generation no client can   *)
(* attach to it: it was taken out of service in the same section.           *)
THEOREM TimeoutSparesListenersTheorem == StreamsSpec => []TimeoutSparesListeners
<1>1. StreamsInv => TimeoutSparesListeners
  BY DEF StreamsInv, TimeoutSparesListeners, OutOfService, Out
<1> QED  BY <1>1, StreamsInvariant, PTL

(* A client that is still attached to a generation whose goroutine has      *)
(* ended is about to be closed by the operation that ended it.              *)
THEOREM NoStrandedClientsTheorem == StreamsSpec => []NoStrandedClients
<1>1. StreamsInv => NoStrandedClients
  BY DEF StreamsInv, NoStrandedClients, Closing, Over, Closes, At
<1> QED  BY <1>1, StreamsInvariant, PTL
=============================================================================
