------------------------------- MODULE MAClient -------------------------------
(***************************************************************************)
(* maadapter.DirectAdapter: the operations of the bridge on Music          *)
(* Assistant, each one or two calls, over one WebSocket that the callers   *)
(* share under wsMu.  A call waits for the mutex, connects and logs in if  *)
(* there is no connection, writes its request and reads until the message  *)
(* with its id comes; whatever fails closes the connection.  Every call    *)
(* has a deadline, here the flag "late", which is raised when it passes.   *)
(*                                                                         *)
(* An operation on the queue (PlayMedia, Resume, Stop, Pause, Seek) asks   *)
(* for the player's active queue first, in a call of its own; GetStatus    *)
(* may need a second call, under the deadline of the first.                *)
(*                                                                         *)
(* The server and the network are external: the server answers in order,   *)
(* sends messages nobody asked for, and the connection may break any time. *)
(***************************************************************************)
EXTENDS Naturals, Sequences, FiniteSets, SequencesExt

CONSTANTS
    Callers,       \* goroutines of the bridge that use the adapter
    Nobody,        \* the mutex is free
    Queues,        \* queue ids of Music Assistant
    NoQueue,       \* no queue: what the server says when none is active
    Target,        \* music_assistant.target_player_id, itself a queue id
    Token,         \* music_assistant.token is set
    MaxOps,        \* bound: operations of the bridge
    MaxSwitches,   \* bound: changes of the active queue
    MaxChatter     \* bound: messages waiting to be read when one more is sent unasked

ASSUME ClientAssumption ==
    /\ Nobody \notin Callers
    /\ NoQueue \notin Queues
    /\ Target \in Queues
    /\ Token \in BOOLEAN
    /\ {MaxOps, MaxSwitches, MaxChatter} \subseteq Nat

VARIABLES
    wsMu,          \* who holds the mutex
    wsConn,        \* the connection and what is under way on it
    msgID,         \* the last message id given
    call,          \* per caller, the call under way
    verdict,       \* per caller, what its last call returned
    outcome,       \* per caller, what its last operation returned
    seen,          \* per caller, the queues active since its operation began
    activeQueue,   \* the server's active queue of the player
    carried,       \* ids of the requests the server has carried out
    strays,        \* requests written to connections the adapter has closed since
    ops, switches  \* what is left of the bounds

vars == <<wsMu, wsConn, msgID, call, verdict, outcome, seen, activeQueue, carried,
          strays, ops, switches>>

-----------------------------------------------------------------------------
(* Types *)

Operation == {"command", "volume", "status"}
Question  == {"active", "queue", "command", "volume"}   \* what one call asks
Request   == [id : Nat \ {0}, ask : Question \cup {"auth"}, queue : Queues \cup {NoQueue}]
Message   == [id : Nat, kind : {"chatter", "result", "error"}, queue : Queues \cup {NoQueue}]

\* Server info, events, pings: what readers pass over.  They have no message id.
Chatter == [id |-> 0, kind |-> "chatter", queue |-> NoQueue]

\* wsConn is nil.
NoConn == [open |-> FALSE, alive |-> FALSE, authed |-> FALSE, up |-> <<>>, down |-> <<>>]

NoCall == [pc |-> "idle", op |-> "status", ask |-> "active", queue |-> NoQueue, id |-> 0,
           rest |-> FALSE, late |-> FALSE]

ClientTypeOK ==
    /\ wsMu \in Callers \cup {Nobody}
    /\ wsConn \in [open : BOOLEAN, alive : BOOLEAN, authed : BOOLEAN,
                   up : Seq(Request), down : Seq(Message)]
    /\ msgID \in Nat
    /\ call \in [Callers -> [pc : {"idle", "lock", "connect", "auth", "login", "send", "read",
                                   "next"},
                             op : Operation, ask : Question, queue : Queues \cup {NoQueue},
                             id : Nat, rest : BOOLEAN, late : BOOLEAN]]
    /\ verdict \in [Callers -> {"none", "ok", "error", "timeout"}]
    /\ outcome \in [Callers -> {"none", "ok", "error", "timeout"}]
    /\ seen \in [Callers -> SUBSET Queues]
    /\ activeQueue \in Queues \cup {NoQueue}
    /\ carried \subseteq 1..msgID
    /\ strays \subseteq Request
    /\ ops \in 0..MaxOps
    /\ switches \in 0..MaxSwitches

\* The queue commands go to: the active one, or else the player's own.
OrTarget(q) == IF q = NoQueue THEN Target ELSE q

Pending(c) == call[c].pc # "idle"

\* Between lockWSWithin and Unlock.
Locked == {"connect", "auth", "login", "send", "read"}

ClientInit ==
    /\ wsMu = Nobody
    /\ wsConn = NoConn
    /\ msgID = 0
    /\ call = [c \in Callers |-> NoCall]
    /\ verdict = [c \in Callers |-> "none"]
    /\ outcome = [c \in Callers |-> "none"]
    /\ seen = [c \in Callers |-> {}]
    /\ activeQueue = NoQueue
    /\ carried = {}
    /\ strays = {}
    /\ ops = MaxOps
    /\ switches = MaxSwitches

-----------------------------------------------------------------------------
(* One call.  Return(c, v) is the end of callMAResultWithin and of the      *)
(* operation; an operation goes on after an answer only (Answered).         *)

At(c, pc) == call' = [call EXCEPT ![c].pc = pc]

EndsWith(c, v) ==
    /\ call' = [call EXCEPT ![c] = NoCall]
    /\ outcome' = [outcome EXCEPT ![c] = v]
    /\ seen' = [seen EXCEPT ![c] = {}]

\* GetStatus does without the second answer if the first one told the state.
Return(c, v) ==
    /\ verdict' = [verdict EXCEPT ![c] = v]
    /\ EndsWith(c, IF call[c].rest THEN "ok" ELSE v)

\* mutant: the connection is kept after a failure
KeepsWS == UNCHANGED <<wsConn, strays>>

\* closeWSLocked.  What was written and not read by the server may reach it all the same.
CloseWS ==
    /\ wsConn' = NoConn
    /\ strays' = strays \cup {r \in ToSet(wsConn.up) : r.ask # "auth"}

Fail(c, v) ==
    /\ CloseWS
    /\ wsMu' = Nobody
    /\ Return(c, v)
    /\ UNCHANGED <<activeQueue, carried, ops, switches>>

\* TryLock, at once and then every 10 ms until the deadline.
Lock(c) ==
    /\ call[c].pc = "lock"
    /\ wsMu = Nobody
    /\ wsMu' = c
    /\ At(c, "connect")
    /\ UNCHANGED <<wsConn, msgID, verdict, outcome, seen, activeQueue, carried, strays, ops, switches>>

LockTimesOut(c) ==
    /\ call[c].pc = "lock"
    /\ call[c].late
    /\ Return(c, "timeout")
    /\ UNCHANGED <<wsMu, wsConn, msgID, activeQueue, carried, strays, ops, switches>>

Connected(c) ==
    /\ call[c].pc = "connect"
    /\ wsConn.open
    /\ At(c, "send")
    /\ UNCHANGED <<wsMu, wsConn, msgID, verdict, outcome, seen, activeQueue, carried, strays, ops, switches>>

\* Dial and handshake.  The server's first message tells its version.
Connect(c) ==
    /\ call[c].pc = "connect"
    /\ ~wsConn.open
    /\ ~call[c].late
    /\ wsConn' = [NoConn EXCEPT !.open = TRUE, !.alive = TRUE, !.down = <<Chatter>>]
    /\ At(c, IF Token THEN "auth" ELSE "send")
    /\ UNCHANGED <<wsMu, msgID, verdict, outcome, seen, activeQueue, carried, strays, ops, switches>>

\* Refused, or out of time before or after the dialling began.
ConnectFails(c) ==
    /\ call[c].pc = "connect"
    /\ ~wsConn.open
    /\ \E v \in IF call[c].late THEN {"error", "timeout"} ELSE {"error"} : Return(c, v)
    /\ wsMu' = Nobody
    /\ UNCHANGED <<wsConn, msgID, activeQueue, carried, strays, ops, switches>>

\* mutant: the counter as it was before
LastID == msgID

NewID == msgID + 1

\* Writing succeeds on a connection that has broken unnoticed.
SendRequest(c) ==
    /\ call[c].pc \in {"auth", "send"}
    /\ ~call[c].late
    /\ msgID' = msgID + 1
    /\ LET login == call[c].pc = "auth"
           request == [id |-> NewID, ask |-> IF login THEN "auth" ELSE call[c].ask,
                       queue |-> call[c].queue]
       IN  /\ call' = [call EXCEPT ![c].pc = IF login THEN "login" ELSE "read", ![c].id = NewID]
           /\ wsConn' = IF wsConn.alive THEN [wsConn EXCEPT !.up = Append(@, request)] ELSE wsConn
    /\ UNCHANGED <<wsMu, verdict, outcome, seen, activeQueue, carried, strays, ops, switches>>

\* No time is left for the request: it is not written, but the connection is closed.
SendTimesOut(c) ==
    /\ call[c].pc \in {"auth", "send"}
    /\ call[c].late
    /\ Fail(c, "timeout")
    /\ UNCHANGED msgID

WriteFails(c) ==
    /\ call[c].pc \in {"auth", "send"}
    /\ call[c].late \/ ~wsConn.alive
    /\ msgID' = msgID + 1
    /\ Fail(c, "error")

\* mutant: the next message, whatever it is
AnyMessage(c, message) == TRUE

\* The message at hand answers the request of the caller.
IsMine(c, message) == message.id = call[c].id

Reading(c) == call[c].pc \in {"login", "read"} /\ wsConn.down # <<>>

PassOver(c) ==
    /\ Reading(c)
    /\ ~IsMine(c, Head(wsConn.down))
    /\ wsConn' = [wsConn EXCEPT !.down = Tail(@)]
    /\ UNCHANGED <<wsMu, msgID, call, verdict, outcome, seen, activeQueue, carried, strays, ops, switches>>

\* mutant: a queue command ends when its queue is known
EndsEarly(c, queue) == EndsWith(c, "ok")

\* The rest of the operation after an answer: a queue command is sent to the queue found,
\* and a status without a state, or playing without a URI, is asked of the queue itself.
Continues(c, queue) ==
    LET more(rest, ask) ==
            /\ call' = [call EXCEPT ![c] = [@ EXCEPT !.pc = "next", !.ask = ask, !.id = 0,
                                            !.queue = OrTarget(queue), !.rest = rest]]
            /\ UNCHANGED <<outcome, seen>>
    IN  \/ call[c].ask # "active" /\ EndsWith(c, "ok")
        \/ /\ call[c].ask = "active" /\ call[c].op = "command"
           /\ more(FALSE, "command")
        \/ /\ call[c].ask = "active" /\ call[c].op # "command"
           /\ EndsWith(c, "ok") \/ more(TRUE, "queue") \/ more(FALSE, "queue")

TakeAnswer(c) ==
    /\ Reading(c)
    /\ call[c].pc = "read"
    /\ LET answer == Head(wsConn.down)
       IN  /\ IsMine(c, answer)
           /\ answer.kind # "error"
           /\ wsConn' = [wsConn EXCEPT !.down = Tail(@)]
           /\ wsMu' = Nobody
           /\ verdict' = [verdict EXCEPT ![c] = "ok"]
           /\ Continues(c, answer.queue)
    /\ UNCHANGED <<msgID, activeQueue, carried, strays, ops, switches>>

\* "authenticated" is true in the answer.
LoggedIn(c) ==
    /\ Reading(c)
    /\ call[c].pc = "login"
    /\ IsMine(c, Head(wsConn.down))
    /\ Head(wsConn.down).kind # "error"
    /\ wsConn' = [wsConn EXCEPT !.down = Tail(@)]
    /\ At(c, "send")
    /\ UNCHANGED <<wsMu, msgID, verdict, outcome, seen, activeQueue, carried, strays, ops, switches>>

\* The answer is an error, or refuses the token.
Refused(c) ==
    /\ Reading(c)
    /\ IsMine(c, Head(wsConn.down))
    /\ Head(wsConn.down).kind = "error"
    /\ Fail(c, "error")
    /\ UNCHANGED msgID

\* mutant: no deadline on the connection
ReadsForEver(c) ==
    /\ call[c].pc \in {"login", "read"}
    /\ ~wsConn.alive
    /\ Fail(c, "error")
    /\ UNCHANGED msgID

\* mutant: a deadline that passes in a read is told like one that passes before
TellsTimeout(c) ==
    /\ call[c].pc \in {"login", "read"}
    /\ call[c].late \/ ~wsConn.alive
    /\ Fail(c, IF call[c].late THEN "timeout" ELSE "error")
    /\ UNCHANGED msgID

\* The deadline of the connection passes in a read, or the connection ends.
ReadFails(c) ==
    /\ call[c].pc \in {"login", "read"}
    /\ call[c].late \/ ~wsConn.alive
    /\ Fail(c, "error")
    /\ UNCHANGED msgID

-----------------------------------------------------------------------------
(* Operations *)

\* The queue commands and SetVolume, with 15 s for each call; GetStatus and
\* GetStatusWithin, with 15 s or the caller's time for both.
Begin(c) ==
    /\ ~Pending(c)
    /\ ops > 0
    /\ ops' = ops - 1
    /\ \E op \in Operation :
          /\ call' = [call EXCEPT ![c] = [NoCall EXCEPT !.pc = "lock", !.op = op,
                                          !.ask = IF op = "volume" THEN op ELSE "active"]]
          /\ seen' = IF op = "command" THEN [seen EXCEPT ![c] = {OrTarget(activeQueue)}] ELSE seen
    /\ verdict' = [verdict EXCEPT ![c] = "none"]
    /\ outcome' = [outcome EXCEPT ![c] = "none"]
    /\ UNCHANGED <<wsMu, wsConn, msgID, activeQueue, carried, strays, switches>>

\* A command has time of its own, the second call of a status has not.
SecondCall(c) ==
    /\ call[c].pc = "next"
    /\ IF call[c].op = "status" /\ call[c].late
       THEN /\ EndsWith(c, IF call[c].rest THEN "ok" ELSE "timeout")
            /\ UNCHANGED verdict
       ELSE /\ call' = [call EXCEPT ![c].pc = "lock", ![c].late = FALSE]
            /\ verdict' = [verdict EXCEPT ![c] = "none"]
            /\ UNCHANGED <<outcome, seen>>
    /\ UNCHANGED <<wsMu, wsConn, msgID, activeQueue, carried, strays, ops, switches>>

\* The deadline of the caller passes.
DeadlinePasses(c) ==
    /\ Pending(c)
    /\ ~call[c].late
    /\ call' = [call EXCEPT ![c].late = TRUE]
    /\ UNCHANGED <<wsMu, wsConn, msgID, verdict, outcome, seen, activeQueue, carried, strays, ops, switches>>

Step(c) ==
    \/ Lock(c) \/ LockTimesOut(c) \/ Connected(c) \/ Connect(c) \/ ConnectFails(c)
    \/ SendRequest(c) \/ SendTimesOut(c) \/ WriteFails(c)
    \/ PassOver(c) \/ TakeAnswer(c) \/ LoggedIn(c) \/ Refused(c) \/ ReadFails(c)
    \/ SecondCall(c)

-----------------------------------------------------------------------------
(* The server and the network *)

clientVars == <<wsMu, msgID, call, verdict, outcome>>

\* A request is carried out, or (as every one before the login) refused; what is answered
\* on a connection that has broken is lost.
Serve ==
    /\ wsConn.up # <<>>
    /\ LET request == Head(wsConn.up)
           answer(kind) == [id |-> request.id, kind |-> kind,
                            queue |-> IF request.ask = "active" THEN activeQueue ELSE NoQueue]
       IN  \E served \in IF request.ask = "auth" \/ wsConn.authed \/ ~Token THEN BOOLEAN ELSE {FALSE} :
              /\ wsConn' = [wsConn EXCEPT
                    !.up = Tail(@),
                    !.authed = @ \/ (served /\ request.ask = "auth"),
                    !.down = IF wsConn.alive
                             THEN Append(@, answer(IF served THEN "result" ELSE "error")) ELSE @]
              /\ carried' = IF served THEN carried \cup {request.id} ELSE carried
    /\ UNCHANGED <<clientVars, seen, activeQueue, strays, ops, switches>>

\* An event or a ping.  What comes after the deadline of the reader is not read any more:
\* only the buffer is.
SendChatter ==
    /\ wsConn.alive
    /\ \A c \in Callers : call[c].pc \in {"login", "read"} => ~call[c].late
    /\ Len(wsConn.down) < MaxChatter
    /\ wsConn' = [wsConn EXCEPT !.down = Append(@, Chatter)]
    /\ UNCHANGED <<clientVars, seen, activeQueue, carried, strays, ops, switches>>

\* The server restarts, an idle connection is dropped, the network fails.
Break ==
    /\ wsConn.alive
    /\ wsConn' = [wsConn EXCEPT !.alive = FALSE]
    /\ UNCHANGED <<clientVars, seen, activeQueue, carried, strays, ops, switches>>

\* A request left on a closed connection is carried out after all, or lost.
SettleStray ==
    /\ \E r \in strays :
          /\ strays' = strays \ {r}
          /\ carried' \in {carried, carried \cup {r.id}}
    /\ UNCHANGED <<clientVars, wsConn, seen, activeQueue, ops, switches>>

\* Players are grouped, or another queue is played, by others.
SwitchQueue ==
    /\ switches > 0
    /\ switches' = switches - 1
    /\ activeQueue' \in (Queues \cup {NoQueue}) \ {activeQueue}
    /\ seen' = [c \in Callers |-> IF seen[c] = {} THEN {} ELSE seen[c] \cup {OrTarget(activeQueue')}]
    /\ UNCHANGED <<clientVars, wsConn, carried, strays, ops>>

Server == Serve \/ SendChatter \/ Break \/ SettleStray \/ SwitchQueue

\* All operations are done.
Finished ==
    /\ ops = 0
    /\ \A c \in Callers : ~Pending(c)
    /\ UNCHANGED vars

Next == (\E c \in Callers : Step(c) \/ Begin(c) \/ DeadlinePasses(c)) \/ Server \/ Finished

\* Goroutines run and time passes.  Nothing is asked of the server or the network.
Spec ==
    /\ ClientInit
    /\ [][Next]_vars
    /\ \A c \in Callers : WF_vars(Step(c)) /\ WF_vars(DeadlinePasses(c))

-----------------------------------------------------------------------------
(* Properties *)

\* The connection that is kept between two calls carries no request and no answer, and is
\* logged in: the next call finds it as a new one would be.  An answer that was given up
\* on, a frame read in part or a login refused would be left there if any failure of
\* callMAResultWithin did not close the connection.
KeptConnectionIsClean ==
    wsMu = Nobody /\ wsConn.open =>
        /\ wsConn.up = <<>>
        /\ \A i \in DOMAIN wsConn.down : wsConn.down[i] = Chatter
        /\ Token => wsConn.authed

\* The server gets nothing but the login before it has accepted the login (connectWSLocked).
LoginComesFirst ==
    Token /\ ~wsConn.authed => \A i \in DOMAIN wsConn.up : wsConn.up[i].ask = "auth"

\* A queue command goes to a queue that was the player's active one at some moment since
\* the operation began (or to the player's own while none was), although other callers use
\* the connection between the two calls and the queue may change (resolveQueueID).
QueueWasActive ==
    \A i \in DOMAIN wsConn.up :
        wsConn.up[i].ask = "command" =>
            \E c \in Callers : call[c].id = wsConn.up[i].id /\ wsConn.up[i].queue \in seen[c]

\* An operation that returns without an error was carried out in its last call, or is a
\* status that has the answer to its first call and could not complete it (getStatusWithin).
NilMeansDone ==
    [][\A c \in Callers :
         Pending(c) /\ ~Pending(c)' /\ outcome'[c] = "ok" =>
            \/ call[c].id \in carried /\ (call[c].op = "command" => call[c].ask = "command")
            \/ call[c].rest]_vars

\* Whatever the server does, every operation returns: time passes in each place a caller
\* may wait, for the mutex, the connection or the answer.
OperationsReturn == \A c \in Callers : Pending(c) ~> ~Pending(c)

\* A call in MACalls.  Requests that no call waits for are the stray ones.
ProgressOf(c) ==
    CASE call[c].pc \in {"idle", "next"}                       -> "none"
      [] call[c].pc = "read" /\ call[c].id \in carried         -> "carried"
      [] OTHER                                                 -> "asked"

Unclaimed ==
    strays \cup {r \in ToSet(wsConn.up) :
                    r.ask # "auth" /\ \A c \in Callers : call[c].pc = "read" => call[c].id # r.id}

Calls == INSTANCE MACalls WITH
    progress <- [c \in Callers |-> ProgressOf(c)],
    stray <- Cardinality(Unclaimed)

\* The calls keep what MACalls promises: carried out at most once, an answer is the answer
\* to this call, and errMACommandTimeout is never said of a call that was asked.
ImplementsMACalls == Calls!Spec
===============================================================================
