---------------------------- MODULE MAClient_proofs ----------------------------
(***************************************************************************)
(* Theorems about the connection to Music Assistant, for any number of     *)
(* callers and queues and any bound on operations and messages.            *)
(***************************************************************************)
EXTENDS MAClient, SequenceTheorems, FiniteSetTheorems, TLAPS

-----------------------------------------------------------------------------
(* The inductive invariant                                                  *)

\* The mutex is held by whoever is between lockWSWithin and Unlock.
MutexOK == \A c \in Callers : call[c].pc \in Locked <=> wsMu = c

Silent == \A i \in DOMAIN wsConn.down : wsConn.down[i] = Chatter

\* Nothing is under way.
Quiet == wsConn.up = <<>> /\ Silent

\* A connection that can be used for a request
Ready == Quiet /\ (Token => wsConn.authed)

\* One request is on its way up, or one answer on its way down, or what there was is lost.
Asks(c, ask) ==
    /\ call[c].id = msgID /\ msgID > 0
    /\ Len(wsConn.up) <= 1
    /\ wsConn.up # <<>> =>
          /\ wsConn.up[1] = [id |-> msgID, ask |-> ask, queue |-> call[c].queue]
          /\ msgID \notin carried
          /\ Silent
    /\ \A i \in DOMAIN wsConn.down : wsConn.down[i] # Chatter =>
          /\ wsConn.down[i].id = msgID /\ wsConn.down[i].kind \in {"result", "error"}
          /\ \A j \in DOMAIN wsConn.down : wsConn.down[j] # Chatter => j = i

Answered(c) == {i \in DOMAIN wsConn.down : wsConn.down[i] # Chatter}

HolderOK(c) ==
    /\ call[c].pc \in {"auth", "login", "send", "read"} => wsConn.open
    /\ call[c].pc \in {"auth", "login"} => Token
    /\ call[c].pc = "connect" /\ wsConn.open => Ready
    /\ call[c].pc = "auth" => Quiet
    /\ call[c].pc = "login" =>
          /\ Asks(c, "auth")
          /\ \A i \in Answered(c) : wsConn.down[i].kind = "result" => wsConn.authed
    /\ call[c].pc = "send" => Ready
    /\ call[c].pc = "read" =>
          /\ Token => wsConn.authed
          /\ Asks(c, call[c].ask)
          /\ \A i \in Answered(c) :
                /\ wsConn.down[i].kind = "result" => msgID \in carried
                /\ call[c].op = "command" /\ call[c].ask = "active"
                      => OrTarget(wsConn.down[i].queue) \in seen[c]

ConnOK ==
    /\ ~wsConn.open => wsConn = NoConn
    /\ wsMu = Nobody /\ wsConn.open => Ready
    /\ \A c \in Callers : HolderOK(c)

\* What an operation asks, and where a queue command may go
CallOK(c) ==
    /\ call[c].pc = "idle" => call[c] = NoCall
    /\ call[c].op = "command" => call[c].ask \in {"active", "command"}
    /\ call[c].op = "command" => OrTarget(activeQueue) \in seen[c]
    /\ call[c].ask = "command" => call[c].queue \in seen[c]

CallsOK == \A c \in Callers : CallOK(c)

\* Requests given up have old ids.
StraysOK ==
    /\ IsFiniteSet(strays)
    /\ \A r \in strays : r.id <= msgID
    /\ \A c \in Callers : call[c].pc \in {"login", "read"} => \A r \in strays : r.id # msgID

ClientInv == ClientTypeOK /\ MutexOK /\ ConnOK /\ CallsOK /\ StraysOK
-----------------------------------------------------------------------------
(* Sequences                                                                *)

(* What is read off the front of a sequence leaves the rest in its order.   *)
LEMMA HeadAndTail ==
    ASSUME NEW S, NEW s \in Seq(S), s # <<>>
    PROVE  /\ 1 \in DOMAIN s /\ Head(s) = s[1] /\ Head(s) \in S
           /\ Tail(s) \in Seq(S)
           /\ \A i \in DOMAIN Tail(s) : i + 1 \in DOMAIN s /\ Tail(s)[i] = s[i + 1] /\ i + 1 # 1
<1>1. Len(s) \in Nat /\ Len(s) # 0 /\ DOMAIN s = 1..Len(s)
  BY EmptySeq, LenProperties
<1>2. Head(s) = s[1] /\ Head(s) \in S /\ Tail(s) \in Seq(S)
  BY HeadTailProperties, <1>1, ElementOfSeq
<1>3. Len(Tail(s)) = Len(s) - 1 /\ \A i \in 1..Len(Tail(s)) : Tail(s)[i] = s[i + 1]
  BY HeadTailProperties, <1>1
<1>4. DOMAIN Tail(s) = 1..(Len(s) - 1)
  BY <1>2, <1>3, LenProperties
<1> QED  BY <1>1, <1>2, <1>3, <1>4

(* What is written comes last.                                              *)
LEMMA AppendedLast ==
    ASSUME NEW S, NEW s \in Seq(S), NEW e \in S
    PROVE  /\ Append(s, e) \in Seq(S)
           /\ \A i \in DOMAIN Append(s, e) :
                 \/ i \in DOMAIN s /\ Append(s, e)[i] = s[i]
                 \/ i = Len(s) + 1 /\ Append(s, e)[i] = e
           /\ s = <<>> => Len(Append(s, e)) = 1 /\ Append(s, e)[1] = e
<1>1. Len(s) \in Nat /\ DOMAIN s = 1..Len(s)
  BY LenProperties
<1>2. /\ Append(s, e) \in Seq(S) /\ Len(Append(s, e)) = Len(s) + 1
      /\ \A i \in 1..Len(s) : Append(s, e)[i] = s[i]
      /\ Append(s, e)[Len(s) + 1] = e
  BY AppendProperties
<1>3. DOMAIN Append(s, e) = 1..(Len(s) + 1)
  BY <1>2, LenProperties
<1>4. s = <<>> => Len(s) = 0
  BY EmptySeq
<1> QED  BY <1>1, <1>2, <1>3, <1>4

(* All that is left of a sequence of one after its head is read is nothing. *)
LEMMA OnlyOne ==
    ASSUME NEW S, NEW s \in Seq(S), s # <<>>, Len(s) <= 1
    PROVE  Len(s) = 1 /\ DOMAIN s = {1} /\ Tail(s) = <<>>
<1>1. Len(s) \in Nat /\ Len(s) # 0 /\ DOMAIN s = 1..Len(s)
  BY EmptySeq, LenProperties
<1>2. Len(s) = 1
  BY <1>1
<1>3. Tail(s) \in Seq(S) /\ Len(Tail(s)) = 0
  BY <1>2, HeadTailProperties
<1>4. Tail(s) = <<>>
  BY <1>3, EmptySeq
<1> QED  BY <1>1, <1>2, <1>4

(* What nobody asked for is a message like others.                          *)
LEMMA ChatterIsMessage == Chatter \in Message
  BY DEF Chatter, Message

-----------------------------------------------------------------------------
(* Types *)

ConnType == [open : BOOLEAN, alive : BOOLEAN, authed : BOOLEAN,
             up : Seq(Request), down : Seq(Message)]

\* A closed connection carries nothing.
LEMMA NoConnType == NoConn \in ConnType
<1>1. <<>> \in Seq(Request) /\ <<>> \in Seq(Message)
  BY EmptySeq
<1> QED  BY <1>1 DEF NoConn, ConnType

PCs == {"idle", "lock", "connect", "auth", "login", "send", "read", "next"}

CallType == [pc : PCs, op : Operation, ask : Question, queue : Queues \cup {NoQueue},
             id : Nat, rest : BOOLEAN, late : BOOLEAN]

Verdicts == {"none", "ok", "error", "timeout"}

\* ClientTypeOK, with names for the large types
Types ==
    /\ wsMu \in Callers \cup {Nobody}
    /\ wsConn \in ConnType
    /\ msgID \in Nat
    /\ call \in [Callers -> CallType]
    /\ verdict \in [Callers -> Verdicts]
    /\ outcome \in [Callers -> Verdicts]
    /\ seen \in [Callers -> SUBSET Queues]
    /\ activeQueue \in Queues \cup {NoQueue}
    /\ carried \subseteq 1..msgID
    /\ strays \subseteq Request
    /\ ops \in 0..MaxOps
    /\ switches \in 0..MaxSwitches

\* The types as records and functions, which the provers find easier to use
LEMMA Typed ==
    /\ ClientTypeOK <=> Types
    /\ ClientTypeOK' <=> Types'
  BY DEF ClientTypeOK, Types, ConnType, CallType, PCs, Verdicts

(* A call that returns leaves well-typed results.                           *)
LEMMA ReturnType ==
    ASSUME Types, NEW c \in Callers, NEW v \in {"ok", "error", "timeout"}, EndsWith(c, v)
    PROVE  /\ call' \in [Callers -> CallType]
           /\ outcome' \in [Callers -> Verdicts]
           /\ seen' \in [Callers -> SUBSET Queues]
<1>1. NoCall \in CallType
  BY DEF NoCall, CallType, PCs, Operation, Question
<1> QED  BY <1>1 DEF Types, EndsWith, Verdicts

(* What is left of a closed connection are requests.                        *)
LEMMA CloseType ==
    ASSUME Types, CloseWS
    PROVE  wsConn' \in ConnType /\ strays' \subseteq Request
<1>1. \A r \in ToSet(wsConn.up) : r \in Request
  <2>1. wsConn.up \in Seq(Request)
    BY DEF Types, ConnType
  <2>2. \A i \in DOMAIN wsConn.up : wsConn.up[i] \in Request
    BY <2>1, ElementOfSeq, LenProperties
  <2> QED  BY <2>2 DEF ToSet
<1>2. strays \subseteq Request
  BY DEF Types
<1> QED  BY <1>1, <1>2, NoConnType DEF CloseWS

\* A call that fails leaves the variables well typed.
LEMMA FailType ==
    ASSUME Types, NEW c \in Callers, NEW v \in {"error", "timeout"}, Fail(c, v),
           msgID' \in Nat, msgID <= msgID'
    PROVE  Types'
<1>1. EndsWith(c, IF call[c].rest THEN "ok" ELSE v)
      /\ verdict' \in [Callers -> Verdicts]
  BY DEF Types, Verdicts, Fail, Return
<1>2. /\ call' \in [Callers -> CallType]
      /\ outcome' \in [Callers -> Verdicts]
      /\ seen' \in [Callers -> SUBSET Queues]
  BY <1>1, ReturnType
<1>3. carried' \subseteq 1..msgID'
  BY DEF Types, Fail
<1>4. wsConn' \in ConnType /\ strays' \subseteq Request
  BY CloseType DEF Fail
<1> QED  BY <1>1, <1>2, <1>3, <1>4 DEF Types, Fail

(* One step of a call keeps the types.                                      *)
LEMMA StepTypes ==
    ASSUME Types, NEW c \in Callers, Step(c)
    PROVE  Types'
<1> USE ClientAssumption
<1>0. /\ wsConn.up \in Seq(Request) /\ wsConn.down \in Seq(Message)
      /\ call[c] \in CallType
  BY DEF Types, ConnType
<1>1. ASSUME NEW pc \in PCs, At(c, pc)
      PROVE  call' \in [Callers -> CallType]
  BY <1>1 DEF Types, At, CallType
<1>2. CASE Lock(c) \/ Connected(c)
  <2>1. call' \in [Callers -> CallType]
    BY <1>1, <1>2 DEF Lock, Connected, PCs
  <2> QED  BY <1>2, <2>1 DEF Types, Lock, Connected
<1>3. CASE LockTimesOut(c)
  <2>1. EndsWith(c, IF call[c].rest THEN "ok" ELSE "timeout")
        /\ verdict' \in [Callers -> Verdicts]
    BY <1>3 DEF Types, Verdicts, LockTimesOut, Return
  <2> QED  BY <1>3, <2>1, ReturnType DEF Types, LockTimesOut
<1>4. CASE Connect(c)
  <2>1. call' \in [Callers -> CallType]
    BY <1>1, <1>4 DEF Connect, PCs
  <2>2. <<Chatter>> \in Seq(Message)
    BY ChatterIsMessage
  <2>3. wsConn' \in ConnType
    BY <1>4, <2>2, NoConnType DEF Connect, ConnType, NoConn
  <2> QED  BY <1>4, <2>1, <2>3 DEF Types, Connect
<1>5. CASE ConnectFails(c)
  <2>1. PICK v \in {"error", "timeout"} : Return(c, v)
    BY <1>5 DEF ConnectFails
  <2>2. EndsWith(c, IF call[c].rest THEN "ok" ELSE v) /\ verdict' \in [Callers -> Verdicts]
    BY <2>1 DEF Types, Verdicts, Return
  <2> QED  BY <1>5, <2>2, ReturnType DEF Types, ConnectFails
<1>6. CASE SendRequest(c)
  <2> DEFINE login == call[c].pc = "auth"
             request == [id |-> NewID, ask |-> IF login THEN "auth" ELSE call[c].ask,
                         queue |-> call[c].queue]
  <2>1. NewID \in Nat /\ NewID > 0 /\ msgID' = NewID
    BY <1>6 DEF Types, SendRequest, NewID
  <2>2. request \in Request
    BY <1>0, <2>1 DEF Request, CallType
  <2>3. call' \in [Callers -> CallType]
    <3>1. [call[c] EXCEPT !.pc = IF login THEN "login" ELSE "read", !.id = NewID] \in CallType
      BY <1>0, <2>1 DEF CallType, PCs
    <3>2. call' = [call EXCEPT ![c] =
                     [call[c] EXCEPT !.pc = IF login THEN "login" ELSE "read", !.id = NewID]]
      BY <1>6 DEF Types, SendRequest
    <3> QED  BY <3>1, <3>2 DEF Types
  <2>4. Append(wsConn.up, request) \in Seq(Request)
    BY <1>0, <2>2, AppendProperties
  <2>5. wsConn' \in ConnType
    BY <1>6, <2>4 DEF Types, SendRequest, ConnType
  <2>6. carried' \subseteq 1..msgID'
    BY <1>6, <2>1 DEF Types, SendRequest, NewID
  <2> QED  BY <1>6, <2>1, <2>3, <2>5, <2>6 DEF Types, SendRequest
<1>7. CASE SendTimesOut(c) \/ Refused(c) \/ ReadFails(c)
  <2>1. \E v \in {"error", "timeout"} : Fail(c, v)
    BY <1>7 DEF SendTimesOut, Refused, ReadFails
  <2>2. msgID' = msgID /\ msgID \in Nat
    BY <1>7 DEF Types, SendTimesOut, Refused, ReadFails
  <2> QED  BY <2>1, <2>2, FailType
<1>8. CASE WriteFails(c)
  <2>1. Fail(c, "error") /\ msgID' \in Nat /\ msgID <= msgID'
    BY <1>8 DEF Types, WriteFails
  <2> QED  BY <2>1, FailType
<1>9. ASSUME Reading(c), wsConn' = [wsConn EXCEPT !.down = Tail(@)]
      PROVE  wsConn' \in ConnType
  <2>1. Tail(wsConn.down) \in Seq(Message)
    BY <1>0, <1>9, HeadAndTail DEF Reading
  <2> QED  BY <1>9, <2>1 DEF Types, ConnType
<1>10. CASE PassOver(c)
  BY <1>9, <1>10 DEF Types, PassOver
<1>11. CASE TakeAnswer(c)
  <2>1. wsConn' \in ConnType /\ verdict' \in [Callers -> Verdicts]
    BY <1>9, <1>11 DEF Types, Verdicts, TakeAnswer
  <2>2. Head(wsConn.down).queue \in Queues \cup {NoQueue}
    <3>1. wsConn.down # <<>>
      BY <1>11 DEF TakeAnswer, Reading
    <3>2. Head(wsConn.down) \in Message
      BY <1>0, <3>1, HeadAndTail
    <3> QED  BY <3>2 DEF Message
  <2>3. Continues(c, Head(wsConn.down).queue)
    BY <1>11 DEF TakeAnswer
  <2>4. OrTarget(Head(wsConn.down).queue) \in Queues
    BY <2>2 DEF OrTarget
  <2>5. /\ call' \in [Callers -> CallType]
        /\ outcome' \in [Callers -> Verdicts]
        /\ seen' \in [Callers -> SUBSET Queues]
    <3>1. CASE EndsWith(c, "ok")
      BY <3>1, ReturnType
    <3>2. ASSUME NEW rest \in BOOLEAN, NEW ask \in Question,
                 call' = [call EXCEPT ![c] = [@ EXCEPT !.pc = "next", !.ask = ask, !.id = 0,
                              !.queue = OrTarget(Head(wsConn.down).queue), !.rest = rest]],
                 UNCHANGED <<outcome, seen>>
          PROVE  <2>5
      BY <2>4, <3>2 DEF Types, CallType, PCs
    <3> QED  BY <2>3, <3>1, <3>2 DEF Continues, Question
  <2> QED  BY <1>11, <2>1, <2>5 DEF Types, TakeAnswer
<1>12. CASE LoggedIn(c)
  <2>1. call' \in [Callers -> CallType]
    BY <1>1, <1>12 DEF LoggedIn, PCs
  <2>2. wsConn' \in ConnType
    BY <1>9, <1>12 DEF LoggedIn
  <2> QED  BY <1>12, <2>1, <2>2 DEF Types, LoggedIn
<1>13. CASE SecondCall(c)
  <2>1. CASE EndsWith(c, IF call[c].rest THEN "ok" ELSE "timeout") /\ UNCHANGED verdict
    BY <1>13, <2>1, ReturnType DEF Types, SecondCall
  <2>2. CASE /\ call' = [call EXCEPT ![c].pc = "lock", ![c].late = FALSE]
             /\ verdict' = [verdict EXCEPT ![c] = "none"]
             /\ UNCHANGED <<outcome, seen>>
    <3>1. call' \in [Callers -> CallType]
      <4>1. [call[c] EXCEPT !.pc = "lock", !.late = FALSE] \in CallType
        BY <1>0 DEF CallType, PCs
      <4>2. call' = [call EXCEPT ![c] = [call[c] EXCEPT !.pc = "lock", !.late = FALSE]]
        BY <2>2 DEF Types
      <4> QED  BY <4>1, <4>2 DEF Types
    <3> QED  BY <1>13, <2>2, <3>1 DEF Types, Verdicts, SecondCall
  <2> QED  BY <1>13, <2>1, <2>2 DEF SecondCall
<1> QED
  BY <1>2, <1>3, <1>4, <1>5, <1>6, <1>7, <1>8, <1>10, <1>11, <1>12, <1>13 DEF Step

(* What the server and the network do keeps the types, if what they carry   *)
(* out was asked.                                                           *)
LEMMA ServerTypes ==
    ASSUME Types, Server, carried' \subseteq 1..msgID
    PROVE  Types'
<1> USE ClientAssumption
<1>0. wsConn.up \in Seq(Request) /\ wsConn.down \in Seq(Message)
  BY DEF Types, ConnType
<1>1. CASE Serve
  <2> DEFINE request == Head(wsConn.up)
             answer(kind) == [id |-> request.id, kind |-> kind,
                              queue |-> IF request.ask = "active" THEN activeQueue ELSE NoQueue]
             served(b) == IF b THEN "result" ELSE "error"
  <2>1. wsConn.up # <<>>
    BY <1>1 DEF Serve
  <2>2. request \in Request /\ Tail(wsConn.up) \in Seq(Request)
    BY <1>0, <2>1, HeadAndTail
  <2>3. \A b \in BOOLEAN : answer(served(b)) \in Message
    BY <2>2 DEF Types, Request, Message
  <2>4. \A b \in BOOLEAN : Append(wsConn.down, answer(served(b))) \in Seq(Message)
    BY <1>0, <2>3, AppendProperties
  <2>5. PICK b \in BOOLEAN :
          /\ wsConn' = [wsConn EXCEPT
                !.up = Tail(@),
                !.authed = @ \/ (b /\ request.ask = "auth"),
                !.down = IF wsConn.alive THEN Append(@, answer(served(b))) ELSE @]
          /\ carried' = IF b THEN carried \cup {request.id} ELSE carried
    BY <1>1 DEF Serve
  <2>6. wsConn' \in ConnType
    BY <2>2, <2>4, <2>5 DEF Types, ConnType
  <2> QED  BY <1>1, <2>5, <2>6 DEF Types, Serve, clientVars
<1>2. CASE SendChatter
  <2>1. Append(wsConn.down, Chatter) \in Seq(Message)
    BY <1>0, ChatterIsMessage, AppendProperties
  <2> QED  BY <1>2, <2>1 DEF Types, ConnType, SendChatter, clientVars
<1>3. CASE Break
  BY <1>3 DEF Types, ConnType, Break, clientVars
<1>4. CASE SettleStray
  BY <1>4 DEF Types, SettleStray, clientVars
<1>5. CASE SwitchQueue
  <2>1. activeQueue' \in Queues \cup {NoQueue}
    BY <1>5 DEF SwitchQueue
  <2>2. OrTarget(activeQueue') \in Queues
    BY <2>1 DEF OrTarget
  <2>3. seen' \in [Callers -> SUBSET Queues]
    BY <1>5, <2>2 DEF Types, SwitchQueue
  <2> QED  BY <1>5, <2>1, <2>3 DEF Types, SwitchQueue, clientVars
<1> QED  BY <1>1, <1>2, <1>3, <1>4, <1>5 DEF Server

(* Operations begin, and time passes, with the types kept.                  *)
LEMMA BeginTypes ==
    ASSUME Types, NEW c \in Callers, Begin(c) \/ DeadlinePasses(c)
    PROVE  Types'
<1> USE ClientAssumption
<1>1. CASE Begin(c)
  <2>1. PICK op \in Operation :
          /\ call' = [call EXCEPT ![c] = [NoCall EXCEPT !.pc = "lock", !.op = op,
                                         !.ask = IF op = "volume" THEN op ELSE "active"]]
          /\ seen' = IF op = "command" THEN [seen EXCEPT ![c] = {OrTarget(activeQueue)}] ELSE seen
    BY <1>1 DEF Begin
  <2>2. call' \in [Callers -> CallType]
    <3>1. [NoCall EXCEPT !.pc = "lock", !.op = op, !.ask = IF op = "volume" THEN op ELSE "active"]
             \in CallType
      BY DEF NoCall, CallType, PCs, Operation, Question
    <3> QED  BY <2>1, <3>1 DEF Types
  <2>3. OrTarget(activeQueue) \in Queues
    BY DEF Types, OrTarget
  <2>4. seen' \in [Callers -> SUBSET Queues]
    BY <2>1, <2>3 DEF Types
  <2>5. ops' \in 0..MaxOps
    <3>1. ops > 0 /\ ops' = ops - 1 /\ ops \in 0..MaxOps /\ MaxOps \in Nat
      BY <1>1 DEF Types, Begin
    <3> QED  BY <3>1
  <2>6. verdict' \in [Callers -> Verdicts] /\ outcome' \in [Callers -> Verdicts]
    BY <1>1 DEF Types, Verdicts, Begin
  <2>7. UNCHANGED <<wsMu, wsConn, msgID, activeQueue, carried, strays, switches>>
    BY <1>1 DEF Begin
  <2> QED  BY <2>2, <2>4, <2>5, <2>6, <2>7 DEF Types
<1>2. CASE DeadlinePasses(c)
  <2>1. call' \in [Callers -> CallType]
    BY <1>2 DEF Types, DeadlinePasses, CallType
  <2> QED  BY <1>2, <2>1 DEF Types, DeadlinePasses
<1> QED  BY <1>1, <1>2

-----------------------------------------------------------------------------
(* The mutex *)

(* While a caller has the mutex no other is between lockWSWithin and Unlock. *)
LEMMA Alone ==
    ASSUME MutexOK, NEW c \in Callers, call[c].pc \in Locked
    PROVE  wsMu = c /\ \A d \in Callers : d # c => call[d].pc \notin Locked
  BY DEF MutexOK

\* wsMu has at most one holder, which is past taking it and short of its release.
LEMMA MutexStep ==
    ASSUME Types, MutexOK, [Next]_vars
    PROVE  MutexOK'
<1> USE ClientAssumption DEF Types, MutexOK, Locked
<1>1. CASE UNCHANGED vars
  BY <1>1 DEF vars
<1>2. ASSUME NEW c \in Callers, Step(c)
      PROVE  MutexOK'
  <2>1. CASE Lock(c)
    BY <2>1 DEF Lock, At
  <2>2. CASE LockTimesOut(c)
    BY <2>2 DEF LockTimesOut, Return, EndsWith, NoCall
  <2>3. CASE Connected(c)
    BY <2>3 DEF Connected, At
  <2>11. CASE LoggedIn(c)
    BY <2>11 DEF LoggedIn, At
  <2>4. CASE Connect(c)
    BY <2>4 DEF Connect, At
  <2>5. CASE ConnectFails(c)
    BY <2>5 DEF ConnectFails, Return, EndsWith, NoCall
  <2>6. CASE SendRequest(c)
    BY <2>6 DEF SendRequest
  <2>7. CASE SendTimesOut(c) \/ WriteFails(c) \/ Refused(c) \/ ReadFails(c)
    BY <2>7 DEF SendTimesOut, WriteFails, Refused, ReadFails, Reading, Fail, Return, EndsWith, NoCall
  <2>8. CASE PassOver(c)
    BY <2>8 DEF PassOver
  <2>9. CASE TakeAnswer(c)
    <3>1. wsMu' = Nobody /\ wsMu = c /\ Continues(c, Head(wsConn.down).queue)
      BY <2>9 DEF TakeAnswer
    <3>2. CASE EndsWith(c, "ok")
      BY <3>1, <3>2 DEF EndsWith, NoCall
    <3>3. ASSUME NEW rest, NEW ask,
                 call' = [call EXCEPT ![c] = [@ EXCEPT !.pc = "next", !.ask = ask, !.id = 0,
                              !.queue = OrTarget(Head(wsConn.down).queue), !.rest = rest]]
          PROVE  MutexOK'
      BY <3>1, <3>3 DEF CallType
    <3> QED  BY <3>1, <3>2, <3>3 DEF Continues
  <2>10. CASE SecondCall(c)
    <3>1. call[c].pc = "next" /\ wsMu' = wsMu
      BY <2>10 DEF SecondCall
    <3>2. call'[c].pc \in {"idle", "lock"} /\ \A d \in Callers : d # c => call'[d] = call[d]
      BY <2>10 DEF SecondCall, EndsWith, NoCall, CallType
    <3> QED  BY <3>1, <3>2
  <2> QED
    BY <1>2, <2>1, <2>2, <2>3, <2>4, <2>5, <2>6, <2>7, <2>8, <2>9, <2>10, <2>11 DEF Step
<1>3. ASSUME NEW c \in Callers, Begin(c)
      PROVE  MutexOK'
  BY <1>3 DEF Begin, Pending, NoCall
<1>4. ASSUME NEW c \in Callers, DeadlinePasses(c)
      PROVE  MutexOK'
  BY <1>4 DEF DeadlinePasses
<1>5. CASE Server
  BY <1>5 DEF Server, Serve, SendChatter, Break, SettleStray, SwitchQueue, clientVars
<1>6. CASE Finished
  BY <1>6 DEF Finished, vars
<1> QED  BY <1>1, <1>2, <1>3, <1>4, <1>5, <1>6 DEF Next

-----------------------------------------------------------------------------
(* The calls *)

(* A call that goes on with what it asks stays sound.                       *)
LEMMA CallKept ==
    ASSUME CallsOK, NEW c \in Callers, UNCHANGED <<seen, activeQueue>>,
           \A d \in Callers : d # c => call'[d] = call[d],
           call'[c].pc # "idle", call'[c].op = call[c].op, call'[c].ask = call[c].ask,
           call'[c].queue = call[c].queue
    PROVE  CallsOK'
  BY DEF CallsOK, CallOK

(* So does the table of calls when one ends.                                *)
LEMMA CallEnds ==
    ASSUME Types, CallsOK, NEW c \in Callers, NEW v, EndsWith(c, v), UNCHANGED activeQueue
    PROVE  CallsOK'
<1>1. call'[c] = NoCall /\ \A d \in Callers : d # c => call'[d] = call[d] /\ seen'[d] = seen[d]
  BY DEF Types, EndsWith
<1>2. CallOK(c)'
  BY <1>1 DEF CallOK, NoCall
<1>3. \A d \in Callers : d # c => CallOK(d)'
  BY <1>1 DEF CallsOK, CallOK
<1> QED  BY <1>2, <1>3 DEF CallsOK

(* The message at hand, if it is the caller's, is the one answer there is.  *)
LEMMA MineIsAnswer ==
    ASSUME Types, NEW c \in Callers, HolderOK(c), Reading(c)
    PROVE  /\ wsConn.down \in Seq(Message) /\ wsConn.down # <<>>
           /\ 1 \in DOMAIN wsConn.down /\ Head(wsConn.down) = wsConn.down[1]
           /\ IsMine(c, Head(wsConn.down)) <=> 1 \in Answered(c)
<1>1. wsConn.down \in Seq(Message) /\ wsConn.down # <<>>
  BY DEF Types, ConnType, Reading
<1>2. 1 \in DOMAIN wsConn.down /\ Head(wsConn.down) = wsConn.down[1]
  BY <1>1, HeadAndTail
<1>3. \E ask \in Question \cup {"auth"} : Asks(c, ask)
  BY DEF HolderOK, Reading, Types, CallType
<1>4. call[c].id = msgID /\ msgID \in Nat /\ msgID > 0
      /\ (wsConn.down[1] # Chatter => wsConn.down[1].id = msgID)
  BY <1>2, <1>3 DEF Types, Asks
<1>5. Chatter.id = 0
  BY DEF Chatter
<1> QED  BY <1>1, <1>2, <1>4, <1>5 DEF IsMine, Answered

(* After an answer an operation ends, or its second call is made out.       *)
LEMMA Continued ==
    ASSUME Types, NEW c \in Callers, NEW q, Continues(c, q)
    PROVE  \/ /\ EndsWith(c, "ok")
              /\ call[c].op = "command" => call[c].ask # "active"
           \/ /\ call[c].ask = "active" /\ UNCHANGED <<outcome, seen>>
              /\ \A d \in Callers : d # c => call'[d] = call[d]
              /\ call'[c].pc = "next" /\ call'[c].op = call[c].op /\ call'[c].queue = OrTarget(q)
              /\ call'[c].ask = IF call[c].op = "command" THEN "command" ELSE "queue"
<1>1. CASE call[c].ask # "active" \/ (call[c].op # "command" /\ EndsWith(c, "ok"))
  BY <1>1 DEF Continues
<1>2. CASE call[c].ask = "active" /\ call[c].op = "command"
  <2>1. /\ call' = [call EXCEPT ![c] = [call[c] EXCEPT !.pc = "next", !.ask = "command", !.id = 0,
                                      !.queue = OrTarget(q), !.rest = FALSE]]
        /\ UNCHANGED <<outcome, seen>>
    BY <1>2 DEF Continues, Types
  <2> QED  BY <1>2, <2>1 DEF Types, CallType
<1>3. CASE call[c].ask = "active" /\ call[c].op # "command" /\ ~EndsWith(c, "ok")
  <2>1. PICK b \in BOOLEAN :
        /\ call' = [call EXCEPT ![c] = [call[c] EXCEPT !.pc = "next", !.ask = "queue", !.id = 0,
                                      !.queue = OrTarget(q), !.rest = b]]
        /\ UNCHANGED <<outcome, seen>>
    BY <1>3 DEF Continues, Types
  <2> QED  BY <1>3, <2>1 DEF Types, CallType
<1> QED  BY <1>1, <1>2, <1>3

(* What an operation asks, and of which queue, stays sound.                 *)
LEMMA CallsStep ==
    ASSUME Types, ConnOK, CallsOK, [Next]_vars
    PROVE  CallsOK'
<1> USE ClientAssumption
<1>1. CASE UNCHANGED vars
  BY <1>1 DEF vars, CallsOK, CallOK
<1>2. ASSUME NEW c \in Callers, Step(c)
      PROVE  CallsOK'
  <2>0. call[c] \in CallType
    BY DEF Types
  <2>a. ASSUME NEW pc \in PCs, pc # "idle", At(c, pc), UNCHANGED <<seen, activeQueue>>
        PROVE  CallsOK'
    <3>1. /\ \A d \in Callers : d # c => call'[d] = call[d]
          /\ call'[c].pc = pc /\ call'[c].op = call[c].op /\ call'[c].ask = call[c].ask
          /\ call'[c].queue = call[c].queue
      BY <2>0, <2>a DEF Types, At, CallType
    <3> QED  BY <2>a, <3>1, CallKept
  <2>1. CASE Lock(c)
    BY <2>1, <2>a DEF Lock, PCs
  <2>2. CASE LockTimesOut(c)
    BY <2>2, CallEnds DEF LockTimesOut, Return
  <2>3. CASE Connected(c)
    BY <2>3, <2>a DEF Connected, PCs
  <2>4. CASE Connect(c)
    BY <2>4, <2>a DEF Connect, PCs
  <2>5. CASE ConnectFails(c)
    BY <2>5, CallEnds DEF ConnectFails, Return
  <2>6. CASE SendRequest(c)
    <3>1. /\ \A d \in Callers : d # c => call'[d] = call[d]
          /\ call'[c].pc # "idle" /\ call'[c].op = call[c].op /\ call'[c].ask = call[c].ask
          /\ call'[c].queue = call[c].queue
      BY <2>0, <2>6 DEF Types, SendRequest, CallType
    <3> QED  BY <2>6, <3>1, CallKept DEF SendRequest
  <2>7. CASE SendTimesOut(c) \/ WriteFails(c) \/ Refused(c) \/ ReadFails(c)
    <3>1. \E v : Fail(c, v)
      BY <2>7 DEF SendTimesOut, WriteFails, Refused, ReadFails
    <3> QED  BY <3>1, CallEnds DEF Fail, Return
  <2>8. CASE PassOver(c)
    BY <2>8 DEF PassOver, CallsOK, CallOK
  <2>9. CASE LoggedIn(c)
    BY <2>9, <2>a DEF LoggedIn, PCs
  <2>10. CASE TakeAnswer(c)
    <3> DEFINE q == Head(wsConn.down).queue
    <3>1. Continues(c, q) /\ activeQueue' = activeQueue /\ call[c].pc = "read" /\ Reading(c)
          /\ IsMine(c, Head(wsConn.down))
      BY <2>10 DEF TakeAnswer
    <3>2. CASE EndsWith(c, "ok")
      BY <3>1, <3>2, CallEnds
    <3>3. ASSUME call[c].ask = "active", UNCHANGED seen,
                 \A d \in Callers : d # c => call'[d] = call[d],
                 call'[c].pc = "next", call'[c].op = call[c].op, call'[c].queue = OrTarget(q),
                 call'[c].ask = IF call[c].op = "command" THEN "command" ELSE "queue"
          PROVE  CallsOK'
      <4>1. call[c].op = "command" => OrTarget(q) \in seen[c]
        <5>1. HolderOK(c)
          BY DEF ConnOK
        <5>2. 1 \in Answered(c) /\ Head(wsConn.down) = wsConn.down[1]
          BY <3>1, <5>1, MineIsAnswer
        <5> QED  BY <3>1, <3>3, <5>1, <5>2 DEF HolderOK
      <4> QED  BY <3>1, <3>3, <4>1 DEF CallsOK, CallOK
    <3> QED  BY <3>1, <3>2, <3>3, Continued
  <2>11. CASE SecondCall(c)
    <3>1. CASE call[c].op = "status" /\ call[c].late
      BY <2>11, <3>1, CallEnds DEF SecondCall
    <3>2. CASE ~(call[c].op = "status" /\ call[c].late)
      <4>1. call' = [call EXCEPT ![c] = [call[c] EXCEPT !.pc = "lock", !.late = FALSE]]
        BY <2>11, <3>2 DEF SecondCall, Types
      <4>2. /\ \A d \in Callers : d # c => call'[d] = call[d]
            /\ call'[c].pc = "lock" /\ call'[c].op = call[c].op /\ call'[c].ask = call[c].ask
            /\ call'[c].queue = call[c].queue
        BY <2>0, <4>1 DEF Types, CallType
      <4>3. UNCHANGED <<seen, activeQueue>>
        BY <2>11, <3>2 DEF SecondCall
      <4> QED  BY <4>2, <4>3, CallKept
    <3> QED  BY <3>1, <3>2
  <2> QED
    BY <1>2, <2>1, <2>2, <2>3, <2>4, <2>5, <2>6, <2>7, <2>8, <2>9, <2>10, <2>11 DEF Step
<1>3. ASSUME NEW c \in Callers, Begin(c)
      PROVE  CallsOK'
  <2>1. PICK op \in Operation :
          /\ call' = [call EXCEPT ![c] = [NoCall EXCEPT !.pc = "lock", !.op = op,
                                         !.ask = IF op = "volume" THEN op ELSE "active"]]
          /\ seen' = IF op = "command" THEN [seen EXCEPT ![c] = {OrTarget(activeQueue)}] ELSE seen
    BY <1>3 DEF Begin
  <2>2. activeQueue' = activeQueue
    BY <1>3 DEF Begin
  <2>3. CallOK(c)'
    BY <2>1, <2>2 DEF Types, CallOK, NoCall, Operation
  <2>4. \A d \in Callers : d # c => call'[d] = call[d] /\ seen'[d] = seen[d]
    BY <2>1 DEF Types
  <2>5. \A d \in Callers : d # c => CallOK(d)'
    BY <2>2, <2>4 DEF CallsOK, CallOK
  <2> QED  BY <2>3, <2>5 DEF CallsOK
<1>4. ASSUME NEW c \in Callers, DeadlinePasses(c)
      PROVE  CallsOK'
  <2>1. /\ \A d \in Callers : d # c => call'[d] = call[d]
        /\ call'[c].pc = call[c].pc /\ call'[c].op = call[c].op /\ call'[c].ask = call[c].ask
        /\ call'[c].queue = call[c].queue
    BY <1>4 DEF DeadlinePasses, Types, CallType
  <2> QED  BY <1>4, <2>1, CallKept DEF DeadlinePasses, Pending
<1>5. CASE SwitchQueue
  <2>1. \A c \in Callers : seen[c] \subseteq seen'[c] /\ (seen[c] # {} => OrTarget(activeQueue') \in seen'[c])
    BY <1>5 DEF SwitchQueue
  <2> QED  BY <1>5, <2>1 DEF SwitchQueue, clientVars, CallsOK, CallOK
<1>6. CASE Serve \/ SendChatter \/ Break \/ SettleStray \/ Finished
  BY <1>6 DEF Serve, SendChatter, Break, SettleStray, Finished, vars, clientVars, CallsOK, CallOK
<1> QED  BY <1>1, <1>2, <1>3, <1>4, <1>5, <1>6 DEF Next, Server

-----------------------------------------------------------------------------
(* The connection *)

(* A caller that has or gets the mutex only has to show what it leaves.     *)
LEMMA HolderStep ==
    ASSUME MutexOK, NEW c \in Callers, call[c].pc \in Locked \/ wsMu = Nobody,
           \A d \in Callers : d # c => call'[d] = call[d],
           HolderOK(c)', ~wsConn'.open => wsConn' = NoConn,
           wsMu' = Nobody /\ wsConn'.open => Ready'
    PROVE  ConnOK'
<1>1. \A d \in Callers : d # c => call'[d].pc \notin Locked
  BY ClientAssumption DEF MutexOK
<1>2. \A d \in Callers : d # c => HolderOK(d)'
  BY <1>1 DEF HolderOK, Locked
<1> QED  BY <1>2 DEF ConnOK

(* One that does not hold it changes nothing of the connection.             *)
LEMMA ConnKept ==
    ASSUME ConnOK, UNCHANGED <<wsMu, wsConn, msgID, carried>>,
           \A d \in Callers :
              \/ call'[d].pc \notin Locked
              \/ /\ call'[d].pc = call[d].pc /\ call'[d].id = call[d].id
                 /\ call'[d].ask = call[d].ask /\ call'[d].op = call[d].op
                 /\ call'[d].queue = call[d].queue /\ seen[d] \subseteq seen'[d]
    PROVE  ConnOK'
<1>1. ASSUME NEW d \in Callers
      PROVE  HolderOK(d)'
  <2>1. CASE call'[d].pc \notin Locked
    BY <2>1 DEF HolderOK, Locked
  <2>2. CASE call'[d].pc \in Locked
    <3>1. /\ call'[d].pc = call[d].pc /\ call'[d].id = call[d].id
          /\ call'[d].ask = call[d].ask /\ call'[d].op = call[d].op
          /\ call'[d].queue = call[d].queue /\ seen[d] \subseteq seen'[d]
      BY <2>2
    <3>2. HolderOK(d) /\ UNCHANGED <<wsConn, msgID, carried>>
      BY DEF ConnOK
    <3> QED  BY <3>1, <3>2 DEF HolderOK, Asks, Ready, Quiet, Silent, Answered
  <2> QED  BY <2>1, <2>2
<1> QED  BY <1>1 DEF ConnOK, Ready, Quiet, Silent

(* After a failure there is no connection.                                  *)
LEMMA FailConn ==
    ASSUME Types, MutexOK, NEW c \in Callers, call[c].pc \in Locked, NEW v, Fail(c, v)
    PROVE  ConnOK'
<1>1. /\ wsConn' = NoConn /\ call'[c] = NoCall
      /\ \A d \in Callers : d # c => call'[d] = call[d]
  BY DEF Types, Fail, CloseWS, Return, EndsWith
<1>2. HolderOK(c)'
  BY <1>1 DEF HolderOK, NoCall
<1> QED  BY <1>1, <1>2, HolderStep DEF NoConn

(* Reading a message off the front leaves the rest.                         *)
LEMMA ReadOff ==
    ASSUME Types, wsConn.down # <<>>, wsConn' = [wsConn EXCEPT !.down = Tail(@)]
    PROVE  /\ wsConn'.open = wsConn.open /\ wsConn'.authed = wsConn.authed
           /\ wsConn'.up = wsConn.up /\ wsConn'.down = Tail(wsConn.down)
           /\ \A i \in DOMAIN wsConn'.down :
                 /\ i + 1 \in DOMAIN wsConn.down /\ wsConn'.down[i] = wsConn.down[i + 1]
                 /\ i + 1 # 1
<1>1. wsConn.down \in Seq(Message)
  BY DEF Types, ConnType
<1>2. /\ wsConn'.open = wsConn.open /\ wsConn'.authed = wsConn.authed
      /\ wsConn'.up = wsConn.up /\ wsConn'.down = Tail(wsConn.down)
  BY DEF Types, ConnType
<1> QED  BY <1>1, <1>2, HeadAndTail

(* When the answer has been read, nothing is under way.                     *)
LEMMA AnswerTaken ==
    ASSUME Types, NEW c \in Callers, HolderOK(c), Reading(c), IsMine(c, Head(wsConn.down)),
           wsConn' = [wsConn EXCEPT !.down = Tail(@)]
    PROVE  Quiet'
<1>1. 1 \in Answered(c) /\ 1 \in DOMAIN wsConn.down /\ wsConn.down # <<>>
  BY MineIsAnswer
<1>2. \E ask \in Question \cup {"auth"} : Asks(c, ask)
  BY DEF HolderOK, Reading, Types, CallType
<1>3. wsConn.up = <<>> /\ \A j \in DOMAIN wsConn.down : wsConn.down[j] # Chatter => j = 1
  BY <1>1, <1>2 DEF Asks, Answered, Silent
<1>4. /\ wsConn'.up = <<>>
      /\ \A i \in DOMAIN wsConn'.down :
            i + 1 \in DOMAIN wsConn.down /\ wsConn'.down[i] = wsConn.down[i + 1] /\ i + 1 # 1
  BY <1>1, <1>3, ReadOff
<1> QED  BY <1>3, <1>4 DEF Quiet, Silent

(* What is written arrives at the end.                                      *)
LEMMA WrittenDown ==
    ASSUME Types, NEW m \in Message, wsConn'.down = Append(wsConn.down, m)
    PROVE  \A i \in DOMAIN wsConn'.down :
              \/ i \in DOMAIN wsConn.down /\ wsConn'.down[i] = wsConn.down[i]
              \/ i = Len(wsConn.down) + 1 /\ wsConn'.down[i] = m
<1>1. wsConn.down \in Seq(Message)
  BY DEF Types, ConnType
<1> QED  BY <1>1, AppendedLast

(* A step of the caller that has the mutex, or gets it, leaves the          *)
(* connection as the next one needs it.                                     *)
LEMMA ConnStepOf ==
    ASSUME Types, MutexOK, ConnOK, NEW c \in Callers, Step(c)
    PROVE  ConnOK'
<1> USE ClientAssumption
<1>0. call[c] \in CallType /\ HolderOK(c) /\ wsConn \in ConnType /\ msgID \in Nat
  BY DEF Types, ConnOK
<1>a. ASSUME NEW pc \in PCs, At(c, pc)
      PROVE  /\ \A d \in Callers : d # c => call'[d] = call[d]
             /\ call'[c] = [call[c] EXCEPT !.pc = pc]
             /\ call'[c].pc = pc /\ call'[c].id = call[c].id /\ call'[c].ask = call[c].ask
             /\ call'[c].queue = call[c].queue /\ call'[c].op = call[c].op
  BY <1>0, <1>a DEF Types, At, CallType
<1>1. CASE Lock(c)
  <2>1. HolderOK(c)'
    BY <1>1, <1>a DEF Lock, PCs, HolderOK, ConnOK, Ready, Quiet, Silent
  <2> QED  BY <1>1, <1>a, <2>1, HolderStep DEF Lock, PCs, ConnOK
<1>2. CASE LockTimesOut(c) \/ SecondCall(c)
  <2>1. UNCHANGED <<wsMu, wsConn, msgID, carried>>
    BY <1>2 DEF LockTimesOut, SecondCall
  <2>2. call'[c].pc \in {"idle", "lock"} /\ \A d \in Callers : d # c =>
            call'[d] = call[d] /\ seen'[d] = seen[d]
    <3>1. CASE LockTimesOut(c)
      BY <3>1 DEF Types, LockTimesOut, Return, EndsWith, NoCall
    <3>2. CASE SecondCall(c)
      BY <3>2 DEF Types, CallType, SecondCall, EndsWith, NoCall
    <3> QED  BY <1>2, <3>1, <3>2
  <2> QED  BY <2>1, <2>2, ConnKept DEF Locked
<1>3. CASE Connected(c)
  <2>1. HolderOK(c)'
    BY <1>0, <1>3, <1>a DEF Connected, PCs, HolderOK, Ready, Quiet, Silent
  <2>2. wsMu' # Nobody
    BY <1>3, Alone DEF Connected, Locked
  <2> QED  BY <1>3, <1>a, <2>1, <2>2, HolderStep DEF Connected, PCs, ConnOK, Locked
<1>4. CASE Connect(c)
  <2>1. wsConn' = [NoConn EXCEPT !.open = TRUE, !.alive = TRUE, !.down = <<Chatter>>]
    BY <1>4 DEF Connect
  <2>2. /\ wsConn'.open /\ wsConn'.up = <<>> /\ wsConn'.down = <<Chatter>>
    BY <2>1 DEF NoConn
  <2>3. Quiet'
    BY <2>2 DEF Quiet, Silent
  <2>4. HolderOK(c)'
    BY <1>0, <1>4, <1>a, <2>2, <2>3 DEF Connect, PCs, HolderOK, Ready
  <2>5. wsMu' # Nobody
    BY <1>4, Alone DEF Connect, Locked
  <2> QED  BY <1>4, <1>a, <2>2, <2>4, <2>5, HolderStep DEF Connect, PCs, Locked
<1>5. CASE ConnectFails(c)
  <2>1. /\ call'[c] = NoCall /\ UNCHANGED wsConn /\ ~wsConn.open
        /\ \A d \in Callers : d # c => call'[d] = call[d]
    BY <1>5 DEF Types, ConnectFails, Return, EndsWith
  <2>2. HolderOK(c)'
    BY <2>1 DEF HolderOK, NoCall
  <2> QED  BY <1>5, <2>1, <2>2, HolderStep DEF ConnectFails, ConnOK, Locked
<1>6. CASE SendRequest(c)
  <2> DEFINE login == call[c].pc = "auth"
             request == [id |-> NewID, ask |-> IF login THEN "auth" ELSE call[c].ask,
                         queue |-> call[c].queue]
  <2>1. /\ call[c].pc \in {"auth", "send"} /\ msgID' = NewID /\ NewID = msgID + 1
        /\ carried' = carried /\ seen' = seen
        /\ wsConn' = IF wsConn.alive THEN [wsConn EXCEPT !.up = Append(@, request)] ELSE wsConn
    BY <1>6 DEF SendRequest, NewID
  <2>2. /\ \A d \in Callers : d # c => call'[d] = call[d]
        /\ call'[c].pc = (IF login THEN "login" ELSE "read") /\ call'[c].id = NewID
        /\ call'[c].ask = call[c].ask /\ call'[c].queue = call[c].queue /\ call'[c].op = call[c].op
    BY <1>0, <1>6 DEF Types, CallType, SendRequest
  <2>3. request \in Request
    BY <1>0, <2>1 DEF Request, CallType
  <2>4. Quiet /\ (~login => Ready) /\ wsConn.open /\ (login => Token)
    BY <1>0, <2>1 DEF HolderOK, Ready
  <2>5. /\ wsConn'.open /\ wsConn'.authed = wsConn.authed /\ wsConn'.down = wsConn.down
        /\ wsConn'.up = <<>> \/ (Len(wsConn'.up) = 1 /\ wsConn'.up[1] = request)
    BY <1>0, <2>1, <2>3, <2>4, AppendedLast DEF ConnType, Quiet
  <2>6. Len(wsConn'.up) <= 1
    <3>1. Len(<<>>) = 0
      OBVIOUS
    <3>2. CASE wsConn'.up = <<>>
      BY <3>1, <3>2
    <3>3. CASE Len(wsConn'.up) = 1
      BY <3>3
    <3> QED  BY <2>5, <3>2, <3>3
  <2>6a. Silent'
    BY <2>4, <2>5 DEF Quiet, Silent
  <2>7. msgID' \notin carried'
    BY <1>0, <2>1 DEF Types
  <2>8. ASSUME NEW ask, ask = IF login THEN "auth" ELSE call[c].ask
        PROVE  /\ call'[c].id = msgID' /\ msgID' > 0
               /\ wsConn'.up # <<>> =>
                     wsConn'.up[1] = [id |-> msgID', ask |-> ask, queue |-> call'[c].queue]
    BY <1>0, <2>1, <2>2, <2>5, <2>8
  <2>9. HolderOK(c)'
    <3>1. Answered(c)' = {}
      BY <2>6a DEF Answered, Silent
    <3>2. CASE login
      <4>1. Asks(c, "auth")'
        BY <3>2, <2>6, <2>6a, <2>7, <2>8 DEF Asks, Silent
      <4> QED  BY <2>2, <2>4, <2>5, <4>1, <3>1, <3>2 DEF HolderOK
    <3>3. CASE ~login
      <4>1. Asks(c, call[c].ask)'
        BY <3>3, <2>2, <2>6, <2>6a, <2>7, <2>8 DEF Asks, Silent
      <4> QED  BY <2>2, <2>4, <2>5, <4>1, <3>1, <3>3 DEF HolderOK, Ready
    <3> QED  BY <3>2, <3>3
  <2>10. wsMu' # Nobody
    BY <1>6, <2>1, Alone DEF SendRequest, Locked
  <2> QED  BY <2>1, <2>2, <2>5, <2>9, <2>10, HolderStep DEF Locked
<1>7. CASE SendTimesOut(c) \/ WriteFails(c) \/ Refused(c) \/ ReadFails(c)
  <2>1. (\E v : Fail(c, v)) /\ call[c].pc \in Locked
    BY <1>7 DEF SendTimesOut, WriteFails, Refused, ReadFails, Reading, Locked
  <2> QED  BY <2>1, FailConn
<1>8. CASE PassOver(c)
  <2>1. /\ Reading(c) /\ ~IsMine(c, Head(wsConn.down))
        /\ wsConn' = [wsConn EXCEPT !.down = Tail(@)]
        /\ UNCHANGED <<wsMu, msgID, call, carried, seen>>
    BY <1>8 DEF PassOver
  <2>2. wsConn.down # <<>>
    BY <2>1 DEF Reading
  <2>3. /\ wsConn'.open = wsConn.open /\ wsConn'.authed = wsConn.authed
        /\ wsConn'.up = wsConn.up
        /\ \A i \in DOMAIN wsConn'.down :
              i + 1 \in DOMAIN wsConn.down /\ wsConn'.down[i] = wsConn.down[i + 1]
    BY <2>1, <2>2, ReadOff
  <2>4. call[c].pc \in {"login", "read"} /\ call[c].pc \in Locked /\ wsConn.open
    BY <1>0, <2>1 DEF Reading, HolderOK, Locked
  <2>5. ASSUME NEW ask, Asks(c, ask)
        PROVE  Asks(c, ask)'
    <3>1. Silent => Silent'
      BY <2>3 DEF Silent
    <3>2. \A i \in DOMAIN wsConn'.down : wsConn'.down[i] # Chatter =>
            /\ wsConn'.down[i].id = msgID /\ wsConn'.down[i].kind \in {"result", "error"}
            /\ \A j \in DOMAIN wsConn'.down : wsConn'.down[j] # Chatter => j = i
      <4>1. DOMAIN wsConn'.down \subseteq Nat
        <5>1. wsConn'.down \in Seq(Message)
          BY <1>0, <2>1, <2>2, HeadAndTail DEF ConnType
        <5> QED  BY <5>1, LenProperties
      <4>2. \A i \in DOMAIN wsConn.down : wsConn.down[i] # Chatter =>
              /\ wsConn.down[i].id = msgID /\ wsConn.down[i].kind \in {"result", "error"}
              /\ \A j \in DOMAIN wsConn.down : wsConn.down[j] # Chatter => j = i
        BY <2>5 DEF Asks
      <4> QED  BY <2>3, <4>1, <4>2
    <3>3. /\ call[c].id = msgID /\ msgID > 0
          /\ Len(wsConn.up) <= 1
          /\ wsConn.up # <<>> =>
                /\ wsConn.up[1] = [id |-> msgID, ask |-> ask, queue |-> call[c].queue]
                /\ msgID \notin carried
                /\ Silent
      BY <2>5 DEF Asks
    <3> QED  BY <2>1, <2>3, <3>1, <3>2, <3>3 DEF Asks
  <2>6. \A i \in Answered(c)' : i + 1 \in Answered(c) /\ wsConn'.down[i] = wsConn.down[i + 1]
    BY <2>3 DEF Answered
  <2>7. HolderOK(c)'
    BY <1>0, <2>1, <2>3, <2>4, <2>5, <2>6 DEF HolderOK
  <2>8. wsMu' # Nobody
    BY <2>1, <2>4, Alone
  <2> QED  BY <2>1, <2>3, <2>4, <2>7, <2>8, HolderStep
<1>9. CASE TakeAnswer(c)
  <2>1. /\ Reading(c) /\ call[c].pc = "read" /\ IsMine(c, Head(wsConn.down))
        /\ wsConn' = [wsConn EXCEPT !.down = Tail(@)]
        /\ Continues(c, Head(wsConn.down).queue)
    BY <1>9 DEF TakeAnswer
  <2>2. Quiet'
    BY <1>0, <2>1, AnswerTaken
  <2>3. wsConn'.open = wsConn.open /\ wsConn'.authed = wsConn.authed
    BY <1>0, <2>1 DEF ConnType
  <2>4. Ready' /\ wsConn'.open
    BY <1>0, <2>1, <2>2, <2>3 DEF HolderOK, Ready
  <2>5. call'[c].pc \in {"idle", "next"} /\ \A d \in Callers : d # c => call'[d] = call[d]
    BY <2>1, Continued DEF Types, EndsWith, NoCall
  <2>6. HolderOK(c)'
    BY <2>5 DEF HolderOK
  <2> QED  BY <2>1, <2>4, <2>5, <2>6, HolderStep DEF Locked
<1>10. CASE LoggedIn(c)
  <2>1. /\ Reading(c) /\ call[c].pc = "login" /\ IsMine(c, Head(wsConn.down))
        /\ Head(wsConn.down).kind # "error"
        /\ wsConn' = [wsConn EXCEPT !.down = Tail(@)] /\ At(c, "send")
        /\ UNCHANGED wsMu
    BY <1>10 DEF LoggedIn
  <2>2. Quiet'
    BY <1>0, <2>1, AnswerTaken
  <2>3. wsConn'.open = wsConn.open /\ wsConn'.authed = wsConn.authed
    BY <1>0, <2>1 DEF ConnType
  <2>4. 1 \in Answered(c) /\ Head(wsConn.down) = wsConn.down[1]
    BY <1>0, <2>1, MineIsAnswer
  <2>5. wsConn.authed /\ wsConn.open
    BY <1>0, <2>1, <2>4 DEF HolderOK, Asks, Answered
  <2>6. HolderOK(c)'
    BY <1>a, <2>1, <2>2, <2>3, <2>5 DEF HolderOK, Ready, PCs
  <2>7. wsMu' # Nobody
    BY <2>1, Alone DEF Locked
  <2> QED  BY <1>a, <2>1, <2>3, <2>5, <2>6, <2>7, HolderStep DEF Locked, PCs
<1> QED
  BY <1>1, <1>2, <1>3, <1>4, <1>5, <1>6, <1>7, <1>8, <1>9, <1>10 DEF Step

(* A request on its way up is the one of the caller that has the mutex.     *)
LEMMA OnItsWay ==
    ASSUME Types, MutexOK, ConnOK, wsConn.up # <<>>
    PROVE  /\ wsConn.open /\ wsConn.up \in Seq(Request) /\ Head(wsConn.up) = wsConn.up[1]
           /\ 1 \in DOMAIN wsConn.up /\ \A i \in DOMAIN wsConn.up : i = 1
           /\ Tail(wsConn.up) = <<>> /\ wsConn.up[1].id = msgID /\ msgID \notin carried /\ Silent
           /\ wsMu \in Callers
           /\ \/ /\ call[wsMu].pc = "login" /\ wsConn.up[1].ask = "auth"
                 /\ Asks(wsMu, "auth")
              \/ /\ call[wsMu].pc = "read" /\ wsConn.up[1].ask = call[wsMu].ask
                 /\ wsConn.up[1].queue = call[wsMu].queue
                 /\ Asks(wsMu, call[wsMu].ask) /\ wsConn.up[1].ask # "auth"
<1>1. wsConn.open
  BY DEF ConnOK, NoConn
<1>2. wsMu \in Callers
  BY <1>1 DEF Types, ConnOK, Ready, Quiet
<1>3. HolderOK(wsMu) /\ call[wsMu].pc \in Locked
  BY <1>2 DEF ConnOK, MutexOK
<1>4. call[wsMu].pc \in {"login", "read"}
  BY <1>1, <1>3 DEF HolderOK, Locked, Ready, Quiet
<1>5. wsConn.up \in Seq(Request)
  BY DEF Types, ConnType
<1>6. Head(wsConn.up) = wsConn.up[1] /\ 1 \in DOMAIN wsConn.up
  BY <1>5, HeadAndTail
<1>7. PICK ask : /\ Asks(wsMu, ask)
                 /\ \/ call[wsMu].pc = "login" /\ ask = "auth"
                    \/ call[wsMu].pc = "read" /\ ask = call[wsMu].ask
  BY <1>3, <1>4 DEF HolderOK
<1>8. DOMAIN wsConn.up = {1} /\ Tail(wsConn.up) = <<>>
  <2>1. Len(wsConn.up) <= 1
    BY <1>7 DEF Asks
  <2> QED  BY <1>5, <2>1, OnlyOne
<1>10. /\ wsConn.up[1] = [id |-> msgID, ask |-> ask, queue |-> call[wsMu].queue]
       /\ msgID \notin carried /\ Silent
  BY <1>7 DEF Asks
<1>11. call[wsMu].ask # "auth"
  BY <1>2 DEF Types, CallType, Question
<1> QED  BY <1>1, <1>2, <1>5, <1>6, <1>7, <1>8, <1>10, <1>11

(* What the server carries out is the caller's, and the answer is the only  *)
(* one on its way.                                                          *)
LEMMA ServeConn ==
    ASSUME Types, MutexOK, ConnOK, CallsOK, Serve
    PROVE  ConnOK'
<1> DEFINE request == Head(wsConn.up)
           answer(kind) == [id |-> request.id, kind |-> kind,
                            queue |-> IF request.ask = "active" THEN activeQueue ELSE NoQueue]
           m(b) == answer(IF b THEN "result" ELSE "error")
<1>1. wsConn.up # <<>> /\ UNCHANGED <<wsMu, msgID, call, seen, activeQueue>>
  BY DEF Serve, clientVars
<1>0. PICK c \in Callers : c = wsMu
  BY <1>1, OnItsWay
<1>2. PICK b \in BOOLEAN :
        /\ wsConn' = [wsConn EXCEPT
              !.up = Tail(@),
              !.authed = @ \/ (b /\ request.ask = "auth"),
              !.down = IF wsConn.alive THEN Append(@, m(b)) ELSE @]
        /\ carried' = IF b THEN carried \cup {request.id} ELSE carried
  BY DEF Serve
<1>3. /\ wsConn.open /\ request = wsConn.up[1] /\ request \in Request
      /\ Tail(wsConn.up) = <<>> /\ request.id = msgID /\ Silent
      /\ \/ call[c].pc = "login" /\ request.ask = "auth" /\ Asks(c, "auth")
         \/ /\ call[c].pc = "read" /\ request.ask = call[c].ask
            /\ Asks(c, call[c].ask) /\ request.ask # "auth"
  BY <1>0, <1>1, OnItsWay, HeadAndTail
<1>4. /\ wsConn'.open /\ wsConn'.up = <<>>
      /\ wsConn'.authed = (wsConn.authed \/ (b /\ request.ask = "auth"))
      /\ wsConn'.down = wsConn.down \/ wsConn'.down = Append(wsConn.down, m(b))
  BY <1>2, <1>3 DEF Types, ConnType
<1>5. m(b) \in Message /\ m(b).id = msgID /\ m(b).kind = (IF b THEN "result" ELSE "error")
      /\ (request.ask = "active" => m(b).queue = activeQueue)
  BY <1>3 DEF Types, Request, Message
<1>6. \A i \in DOMAIN wsConn'.down :
         \/ wsConn'.down[i] = Chatter
         \/ i = Len(wsConn.down) + 1 /\ wsConn'.down[i] = m(b)
  <2>1. CASE wsConn'.down = wsConn.down
    BY <1>3, <2>1 DEF Silent
  <2>2. CASE wsConn'.down = Append(wsConn.down, m(b))
    BY <1>3, <1>5, <2>2, WrittenDown DEF Silent
  <2> QED  BY <1>4, <2>1, <2>2
<1>7. Len(wsConn'.up) <= 1
  <2>1. Len(<<>>) = 0
    OBVIOUS
  <2> QED  BY <1>4, <2>1
<1>8. \A i \in DOMAIN wsConn'.down : wsConn'.down[i] # Chatter =>
        /\ wsConn'.down[i].id = msgID /\ wsConn'.down[i].kind \in {"result", "error"}
        /\ \A j \in DOMAIN wsConn'.down : wsConn'.down[j] # Chatter => j = i
  BY <1>5, <1>6
<1>9. ASSUME NEW ask, Asks(c, ask)
      PROVE  Asks(c, ask)'
  BY <1>1, <1>4, <1>7, <1>8, <1>9 DEF Asks
<1>10. \A i \in Answered(c)' : /\ wsConn'.down[i].kind = (IF b THEN "result" ELSE "error")
                               /\ (request.ask = "active" => wsConn'.down[i].queue = activeQueue)
  BY <1>5, <1>6 DEF Answered
<1>11. HolderOK(c)'
  <2>0. HolderOK(c)
    BY <1>3 DEF ConnOK
  <2>1. CASE call[c].pc = "login" /\ request.ask = "auth" /\ Asks(c, "auth")
    <3>1. \A i \in Answered(c)' : wsConn'.down[i].kind = "result" => wsConn'.authed
      BY <1>4, <1>10, <2>1
    <3> QED  BY <1>1, <1>4, <1>9, <2>0, <2>1, <3>1 DEF HolderOK
  <2>2. CASE call[c].pc = "read" /\ request.ask = call[c].ask /\ Asks(c, call[c].ask)
    <3>1. \A i \in Answered(c)' :
             /\ wsConn'.down[i].kind = "result" => msgID \in carried'
             /\ call[c].op = "command" /\ call[c].ask = "active"
                   => OrTarget(wsConn'.down[i].queue) \in seen[c]
      <4>1. call[c].op = "command" => OrTarget(activeQueue) \in seen[c]
        BY DEF CallsOK, CallOK
      <4>2. b => msgID \in carried'
        BY <1>2, <1>3
      <4> QED  BY <1>10, <2>2, <4>1, <4>2
    <3>2. Asks(c, call[c].ask)'
      <4>1. Asks(c, call[c].ask) /\ call' = call
        BY <1>1, <2>2
      <4> QED  BY <1>1, <1>4, <1>7, <1>8, <4>1 DEF Asks
    <3>3. /\ wsConn'.open /\ call'[c] = call[c] /\ seen' = seen /\ msgID' = msgID
          /\ Token => wsConn'.authed
      BY <1>1, <1>4, <2>0, <2>2 DEF HolderOK
    <3> QED  BY <2>2, <3>1, <3>2, <3>3 DEF HolderOK
  <2> QED  BY <1>3, <2>1, <2>2
<1> QED
  <2>1. call[c].pc \in Locked
    BY <1>3 DEF Locked
  <2> QED  BY <1>0, <1>1, <1>3, <1>4, <1>11, <2>1, HolderStep, ClientAssumption

(* A message nobody asked for disturbs nothing.                             *)
LEMMA ChatterConn ==
    ASSUME Types, MutexOK, ConnOK, SendChatter, wsConn.open
    PROVE  ConnOK'
<1>1. /\ UNCHANGED <<wsMu, msgID, call, carried, seen>>
      /\ wsConn' = [wsConn EXCEPT !.down = Append(@, Chatter)]
  BY DEF SendChatter, clientVars
<1>2. /\ wsConn'.open = wsConn.open /\ wsConn'.authed = wsConn.authed
      /\ wsConn'.up = wsConn.up /\ wsConn'.down = Append(wsConn.down, Chatter)
  BY <1>1 DEF Types, ConnType
<1>3. \A i \in DOMAIN wsConn'.down :
        wsConn'.down[i] = Chatter \/ (i \in DOMAIN wsConn.down /\ wsConn'.down[i] = wsConn.down[i])
  BY <1>2, WrittenDown, ChatterIsMessage
<1>4. Silent => Silent'
  BY <1>3 DEF Silent
<1>5. ASSUME NEW c \in Callers
      PROVE  HolderOK(c)'
  <2>1. ASSUME NEW ask, Asks(c, ask)
        PROVE  Asks(c, ask)'
    BY <1>1, <1>2, <1>3, <1>4, <2>1 DEF Asks
  <2>2. \A i \in Answered(c)' : i \in Answered(c) /\ wsConn'.down[i] = wsConn.down[i]
    BY <1>3 DEF Answered
  <2>3. HolderOK(c)
    BY DEF ConnOK
  <2> QED  BY <1>1, <1>2, <1>4, <2>1, <2>2, <2>3 DEF HolderOK, Ready, Quiet
<1> QED  BY <1>1, <1>2, <1>4, <1>5 DEF ConnOK, Ready, Quiet

(* Every step leaves the connection as the next call or the next step of    *)
(* the one under way needs it.                                              *)
LEMMA ConnStep ==
    ASSUME Types, MutexOK, ConnOK, CallsOK, StraysOK, [Next]_vars
    PROVE  ConnOK'
<1>1. CASE UNCHANGED vars
  BY <1>1, ConnKept DEF vars
<1>2. ASSUME NEW c \in Callers, Step(c)
      PROVE  ConnOK'
  BY <1>2, ConnStepOf
<1>3. ASSUME NEW c \in Callers, Begin(c)
      PROVE  ConnOK'
  <2>1. call'[c].pc = "lock" /\ UNCHANGED <<wsMu, wsConn, msgID, carried>>
        /\ \A d \in Callers : d # c => call'[d] = call[d] /\ seen'[d] = seen[d]
    BY <1>3 DEF Types, Begin, NoCall
  <2> QED  BY <2>1, ConnKept DEF Locked
<1>4. ASSUME NEW c \in Callers, DeadlinePasses(c)
      PROVE  ConnOK'
  <2>1. /\ \A d \in Callers : d # c => call'[d] = call[d]
        /\ call'[c].pc = call[c].pc /\ call'[c].op = call[c].op /\ call'[c].ask = call[c].ask
        /\ call'[c].queue = call[c].queue /\ call'[c].id = call[c].id
    BY <1>4 DEF DeadlinePasses, Types, CallType
  <2> QED  BY <1>4, <2>1, ConnKept DEF DeadlinePasses
<1>5. CASE Serve
  BY <1>5, ServeConn
<1>6. CASE SendChatter
  <2>1. wsConn.open
    BY <1>6 DEF SendChatter, ConnOK, NoConn
  <2> QED  BY <1>6, <2>1, ChatterConn
<1>7. CASE Break
  <2>1. /\ UNCHANGED <<wsMu, msgID, call, carried, seen>> /\ wsConn.open
        /\ wsConn'.open = wsConn.open /\ wsConn'.authed = wsConn.authed
        /\ wsConn'.up = wsConn.up /\ wsConn'.down = wsConn.down
    BY <1>7 DEF Types, ConnType, Break, clientVars, ConnOK, NoConn
  <2>2. \A c \in Callers : HolderOK(c)'
    BY <2>1 DEF ConnOK, HolderOK, Asks, Ready, Quiet, Silent, Answered
  <2> QED  BY <2>1, <2>2 DEF ConnOK, Ready, Quiet, Silent
<1>8. CASE SettleStray
  <2>1. PICK r \in strays : carried' \in {carried, carried \cup {r.id}}
    BY <1>8 DEF SettleStray
  <2>2. UNCHANGED <<wsMu, msgID, call, wsConn, seen>>
    BY <1>8 DEF SettleStray, clientVars
  <2>3. ASSUME NEW c \in Callers
        PROVE  HolderOK(c)'
    <3>1. call[c].pc \in {"login", "read"} => (msgID \in carried' <=> msgID \in carried)
      BY <2>1 DEF StraysOK
    <3>2. HolderOK(c)
      BY DEF ConnOK
    <3> QED  BY <2>2, <3>1, <3>2 DEF HolderOK, Asks, Ready, Quiet, Silent, Answered
  <2> QED  BY <2>2, <2>3 DEF ConnOK, Ready, Quiet, Silent
<1>9. CASE SwitchQueue
  <2>1. \A c \in Callers : seen[c] \subseteq seen'[c]
    BY <1>9 DEF Types, SwitchQueue
  <2> QED  BY <1>9, <2>1, ConnKept DEF SwitchQueue, clientVars
<1>10. CASE Finished
  BY <1>10, ConnKept DEF Finished, vars
<1> QED
  BY <1>1, <1>2, <1>3, <1>4, <1>5, <1>6, <1>7, <1>8, <1>9, <1>10 DEF Next, Server

-----------------------------------------------------------------------------
(* Requests that were given up *)

(* At most one request is left on a connection that is closed.              *)
LEMMA LeftBehind ==
    ASSUME Types, MutexOK, ConnOK, CloseWS
    PROVE  \/ strays' = strays
           \/ /\ wsConn.up # <<>> /\ wsConn.up[1].ask # "auth" /\ wsConn.up[1].id = msgID
              /\ strays' = strays \cup {wsConn.up[1]}
<1>1. CASE wsConn.up = <<>>
  BY <1>1 DEF CloseWS, ToSet
<1>2. CASE wsConn.up # <<>>
  <2>1. ToSet(wsConn.up) = {wsConn.up[1]} /\ wsConn.up[1].id = msgID
    BY <1>2, OnItsWay DEF ToSet
  <2> QED  BY <1>2, <2>1 DEF CloseWS
<1> QED  BY <1>1, <1>2

(* Requests given up have old ids, which the caller at the connection does  *)
(* not wait for.                                                            *)
LEMMA StraysStep ==
    ASSUME Types, MutexOK, ConnOK, StraysOK, [Next]_vars
    PROVE  StraysOK'
<1> USE ClientAssumption
<1>0. msgID \in Nat /\ \A r \in strays : r.id \in Nat
  BY DEF Types, Request
<1>1. CASE UNCHANGED vars
  BY <1>1 DEF vars, StraysOK
<1>a. ASSUME UNCHANGED <<msgID, strays>>,
             \A d \in Callers : call'[d].pc \in {"login", "read"} => call[d].pc \in {"login", "read"}
      PROVE  StraysOK'
  BY <1>a DEF StraysOK
<1>2. ASSUME NEW c \in Callers, Step(c)
      PROVE  StraysOK'
  <2>1. CASE SendTimesOut(c) \/ WriteFails(c) \/ Refused(c) \/ ReadFails(c)
    <3>1. (\E v : Fail(c, v)) /\ call[c].pc \in Locked /\ (msgID' = msgID \/ msgID' = msgID + 1)
      BY <2>1 DEF SendTimesOut, WriteFails, Refused, ReadFails, Reading, Locked
    <3>2. call'[c] = NoCall /\ \A d \in Callers : d # c => call'[d] = call[d]
      BY <3>1 DEF Types, Fail, Return, EndsWith
    <3>3. \A d \in Callers : call'[d].pc \notin {"login", "read"}
      BY <3>1, <3>2, Alone DEF NoCall, Locked
    <3>4. CloseWS
      BY <3>1 DEF Fail
    <3>5. IsFiniteSet(strays')
      BY <3>4, LeftBehind, FS_AddElement DEF StraysOK
    <3>6. \A r \in strays' : r.id \in Nat /\ r.id <= msgID
      BY <1>0, <3>4, LeftBehind DEF StraysOK
    <3>7. \A r \in strays' : r.id <= msgID'
      BY <1>0, <3>1, <3>6
    <3> QED  BY <3>3, <3>5, <3>7 DEF StraysOK
  <2>2. CASE SendRequest(c)
    <3>1. msgID' = msgID + 1 /\ strays' = strays
      BY <2>2 DEF SendRequest
    <3>2. \A r \in strays : r.id <= msgID' /\ r.id # msgID'
      BY <1>0, <3>1 DEF StraysOK
    <3> QED  BY <3>1, <3>2 DEF StraysOK
  <2>3. CASE Lock(c) \/ Connected(c) \/ Connect(c) \/ LoggedIn(c)
    <3>1. \E pc \in {"connect", "auth", "send"} : At(c, pc)
      BY <2>3 DEF Lock, Connected, Connect, LoggedIn
    <3>2. \A d \in Callers : call'[d].pc \in {"login", "read"} => call[d].pc \in {"login", "read"}
      BY <3>1 DEF Types, CallType, At
    <3> QED  BY <1>a, <2>3, <3>2 DEF Lock, Connected, Connect, LoggedIn
  <2>4. CASE LockTimesOut(c) \/ ConnectFails(c)
    BY <1>a, <2>4 DEF Types, LockTimesOut, ConnectFails, Return, EndsWith, NoCall
  <2>5. CASE PassOver(c)
    BY <1>a, <2>5 DEF PassOver
  <2>6. CASE TakeAnswer(c)
    <3>1. call'[c].pc \in {"idle", "next"} /\ \A d \in Callers : d # c => call'[d] = call[d]
      BY <2>6, Continued DEF TakeAnswer, Types, EndsWith, NoCall
    <3> QED  BY <1>a, <2>6, <3>1 DEF TakeAnswer
  <2>7. CASE SecondCall(c)
    <3>1. call'[c].pc \in {"idle", "lock"} /\ \A d \in Callers : d # c => call'[d] = call[d]
      BY <2>7 DEF Types, CallType, SecondCall, EndsWith, NoCall
    <3> QED  BY <1>a, <2>7, <3>1 DEF SecondCall
  <2> QED  BY <1>2, <2>1, <2>2, <2>3, <2>4, <2>5, <2>6, <2>7 DEF Step
<1>3. ASSUME NEW c \in Callers, Begin(c)
      PROVE  StraysOK'
  BY <1>a, <1>3 DEF Types, Begin, NoCall
<1>4. ASSUME NEW c \in Callers, DeadlinePasses(c)
      PROVE  StraysOK'
  BY <1>a, <1>4 DEF Types, CallType, DeadlinePasses
<1>5. CASE Serve \/ SendChatter \/ Break \/ SwitchQueue \/ Finished
  BY <1>a, <1>5 DEF Serve, SendChatter, Break, SwitchQueue, Finished, vars, clientVars
<1>6. CASE SettleStray
  <2>1. strays' \subseteq strays /\ UNCHANGED <<msgID, call>>
    BY <1>6 DEF SettleStray, clientVars
  <2>2. IsFiniteSet(strays')
    BY <2>1, FS_Subset DEF StraysOK
  <2> QED  BY <2>1, <2>2 DEF StraysOK
<1> QED  BY <1>1, <1>2, <1>3, <1>4, <1>5, <1>6 DEF Next, Server

(* What is carried out was asked.                                           *)
LEMMA CarriedWasAsked ==
    ASSUME Types, MutexOK, ConnOK, StraysOK, Server
    PROVE  carried' \subseteq 1..msgID
<1>1. carried \subseteq 1..msgID /\ msgID \in Nat
  BY DEF Types
<1>2. CASE Serve
  <2>1. wsConn.up # <<>>
    BY <1>2 DEF Serve
  <2>2. Head(wsConn.up).id = msgID /\ msgID > 0
    BY <2>1, OnItsWay DEF Asks
  <2>3. carried' \subseteq carried \cup {Head(wsConn.up).id}
    BY <1>2 DEF Serve
  <2> QED  BY <1>1, <2>2, <2>3
<1>3. CASE SettleStray
  <2>1. PICK r \in strays : carried' \in {carried, carried \cup {r.id}}
    BY <1>3 DEF SettleStray
  <2>2. r.id \in 1..msgID
    BY <1>1 DEF StraysOK, Types, Request
  <2> QED  BY <1>1, <2>1, <2>2
<1>4. CASE SendChatter \/ Break \/ SwitchQueue
  BY <1>1, <1>4 DEF SendChatter, Break, SwitchQueue
<1> QED  BY <1>2, <1>3, <1>4 DEF Server

-----------------------------------------------------------------------------
(* Theorems *)

\* Every step keeps the types.
LEMMA TypesStep ==
    ASSUME Types, MutexOK, ConnOK, StraysOK, [Next]_vars
    PROVE  Types'
<1>1. CASE UNCHANGED vars \/ Finished
  BY <1>1 DEF vars, Finished, Types
<1>2. CASE Server
  BY <1>2, ServerTypes, CarriedWasAsked
<1>3. ASSUME NEW c \in Callers, Step(c) \/ Begin(c) \/ DeadlinePasses(c)
      PROVE  Types'
  BY <1>3, StepTypes, BeginTypes
<1> QED  BY <1>1, <1>2, <1>3 DEF Next

\* The invariant holds before the first operation.
LEMMA ClientInvInit ==
    ASSUME ClientInit
    PROVE  ClientInv
<1> USE ClientAssumption
<1>1. ClientTypeOK
  <2>1. NoCall \in CallType
    BY DEF NoCall, CallType, PCs, Operation, Question
  <2>2. Types
    BY <2>1, NoConnType DEF ClientInit, Types, Verdicts
  <2> QED  BY <2>2, Typed
<1>2. MutexOK
  BY DEF ClientInit, MutexOK, NoCall, Locked
<1>3. ConnOK
  BY DEF ClientInit, ConnOK, NoCall, NoConn, HolderOK
<1>4. CallsOK
  BY DEF ClientInit, CallsOK, CallOK, NoCall
<1>5. StraysOK
  BY FS_EmptySet DEF ClientInit, StraysOK
<1> QED  BY <1>1, <1>2, <1>3, <1>4, <1>5 DEF ClientInv

\* Every step keeps the invariant.
LEMMA ClientInvStep ==
    ASSUME ClientInv, [Next]_vars
    PROVE  ClientInv'
<1>1. Types /\ MutexOK /\ ConnOK /\ CallsOK /\ StraysOK
  BY Typed DEF ClientInv
<1> QED  BY <1>1, Typed, TypesStep, MutexStep, ConnStep, CallsStep, StraysStep DEF ClientInv

(* The inductive invariant holds, whatever the fairness.                    *)
THEOREM ClientSound == Spec => []ClientInv
<1>1. ClientInit => ClientInv
  BY ClientInvInit
<1>2. ClientInv /\ [Next]_vars => ClientInv'
  BY ClientInvStep
<1> QED  BY <1>1, <1>2, PTL DEF Spec

(* Every variable of the client keeps its type.                             *)
THEOREM ClientTypeCorrect == Spec => []ClientTypeOK
<1>1. ClientInv => ClientTypeOK
  BY DEF ClientInv
<1> QED  BY <1>1, ClientSound, PTL

(* What the client leaves to the next call is a connection as good as a new *)
(* one, however the call before it ended.                                   *)
THEOREM ConnectionIsClean == Spec => []KeptConnectionIsClean
<1>1. ClientInv => KeptConnectionIsClean
  BY DEF ClientInv, ConnOK, Ready, Quiet, Silent, KeptConnectionIsClean
<1> QED  BY <1>1, ClientSound, PTL

(* Nothing but the login is written before the login is accepted.           *)
THEOREM NothingBeforeLogin == Spec => []LoginComesFirst
<1>1. ASSUME ClientInv
      PROVE  LoginComesFirst
  <2>1. Types /\ MutexOK /\ ConnOK
    BY <1>1, Typed DEF ClientInv
  <2>2. CASE wsConn.up = <<>>
    BY <2>2 DEF LoginComesFirst
  <2>3. CASE wsConn.up # <<>>
    <3>1. HolderOK(wsMu)
      BY <2>1, <2>3, OnItsWay DEF ConnOK
    <3> QED  BY <2>1, <2>3, <3>1, OnItsWay DEF HolderOK, LoginComesFirst
  <2> QED  BY <2>2, <2>3
<1> QED  BY <1>1, ClientSound, PTL

(* A queue command goes to a queue that was active since the operation      *)
(* began.                                                                   *)
THEOREM CommandsGoWhereAsked == Spec => []QueueWasActive
<1>1. ASSUME ClientInv
      PROVE  QueueWasActive
  <2>1. Types /\ MutexOK /\ ConnOK /\ CallsOK
    BY <1>1, Typed DEF ClientInv
  <2>2. CASE wsConn.up = <<>>
    BY <2>2 DEF QueueWasActive
  <2>3. CASE wsConn.up # <<>>
    <3>1. PICK c \in Callers : c = wsMu
      BY <2>1, <2>3, OnItsWay
    <3>2. call[c].id = msgID
      BY <2>1, <2>3, <3>1, OnItsWay DEF Asks
    <3>3. wsConn.up[1].ask = "command" => wsConn.up[1].queue \in seen[c]
      BY <2>1, <2>3, <3>1, OnItsWay DEF CallsOK, CallOK
    <3>4. wsConn.up[1].id = msgID /\ \A i \in DOMAIN wsConn.up : i = 1
      BY <2>1, <2>3, OnItsWay
    <3> QED  BY <3>2, <3>3, <3>4 DEF QueueWasActive
  <2> QED  BY <2>2, <2>3
<1> QED  BY <1>1, ClientSound, PTL

-----------------------------------------------------------------------------
(* What an answer means *)

(* The answer a caller takes was given to it, and what it asked was done.   *)
LEMMA AnsweredWasCarried ==
    ASSUME ClientInv, NEW c \in Callers, TakeAnswer(c)
    PROVE  call[c].pc = "read" /\ call[c].id = msgID /\ msgID \in carried
<1>1. Types /\ HolderOK(c)
  BY Typed DEF ClientInv, ConnOK
<1>2. Reading(c) /\ call[c].pc = "read" /\ IsMine(c, Head(wsConn.down))
      /\ Head(wsConn.down).kind # "error"
  BY DEF TakeAnswer
<1>3. 1 \in Answered(c) /\ Head(wsConn.down) = wsConn.down[1]
  BY <1>1, <1>2, MineIsAnswer
<1>4. Asks(c, call[c].ask) /\ (wsConn.down[1].kind = "result" => msgID \in carried)
  BY <1>1, <1>2, <1>3 DEF HolderOK
<1>5. wsConn.down[1].kind = "result"
  BY <1>2, <1>3, <1>4 DEF Asks, Answered
<1> QED  BY <1>2, <1>4, <1>5 DEF Asks

(* What NilMeansDone asks of one caller in one step                         *)
DoneIfNil(c) ==
    Pending(c) /\ ~Pending(c)' /\ outcome'[c] = "ok" =>
        \/ call[c].id \in carried /\ (call[c].op = "command" => call[c].ask = "command")
        \/ call[c].rest

(* Nobody else ends the operation of a caller.                              *)
LEMMA OthersKeepPending ==
    ASSUME NEW d \in Callers, call'[d].pc = "idle" => call[d].pc = "idle"
    PROVE  DoneIfNil(d)
  BY DEF DoneIfNil, Pending

(* Nor does a failure end one without an error, but for a status that is    *)
(* answered in part.                                                        *)
LEMMA FailureIsTold ==
    ASSUME Types, NEW c \in Callers, NEW v \in {"error", "timeout"}, Return(c, v)
    PROVE  \A d \in Callers : DoneIfNil(d)
<1>1. /\ outcome'[c] = IF call[c].rest THEN "ok" ELSE v
      /\ \A d \in Callers : d # c => call'[d] = call[d]
  BY DEF Types, Return, EndsWith
<1> QED  BY <1>1, OthersKeepPending DEF DoneIfNil

\* In every step an operation that returns nil has done what it was asked.
LEMMA NilStep ==
    ASSUME ClientInv, [Next]_vars
    PROVE  \A d \in Callers : DoneIfNil(d)
<1>0. Types /\ MutexOK /\ ConnOK /\ CallsOK
  BY Typed DEF ClientInv
<1>1. CASE UNCHANGED vars \/ Server \/ Finished
  <2>1. call' = call
    BY <1>1 DEF vars, Server, Serve, SendChatter, Break, SettleStray, SwitchQueue, Finished, clientVars
  <2> QED  BY <2>1, OthersKeepPending
<1>2. ASSUME NEW c \in Callers, Begin(c) \/ DeadlinePasses(c)
      PROVE  \A d \in Callers : DoneIfNil(d)
  <2>1. \A d \in Callers : call'[d].pc = "idle" => call[d].pc = "idle"
    <3>1. CASE Begin(c)
      BY <1>0, <3>1 DEF Types, Begin, NoCall
    <3>2. CASE DeadlinePasses(c)
      BY <1>0, <3>2 DEF Types, CallType, DeadlinePasses
    <3> QED  BY <1>2, <3>1, <3>2
  <2> QED  BY <2>1, OthersKeepPending
<1>3. ASSUME NEW c \in Callers, Step(c)
      PROVE  \A d \in Callers : DoneIfNil(d)
  <2>1. CASE LockTimesOut(c) \/ ConnectFails(c) \/ SendTimesOut(c) \/ WriteFails(c)
             \/ Refused(c) \/ ReadFails(c)
    <3>1. \E v \in {"error", "timeout"} : Return(c, v)
      BY <2>1 DEF LockTimesOut, ConnectFails, SendTimesOut, WriteFails, Refused, ReadFails, Fail
    <3> QED  BY <1>0, <3>1, FailureIsTold
  <2>2. CASE Lock(c) \/ Connected(c) \/ Connect(c) \/ LoggedIn(c)
    <3>1. \E pc \in {"connect", "auth", "send"} : At(c, pc)
      BY <2>2 DEF Lock, Connected, Connect, LoggedIn
    <3>2. \A d \in Callers : call'[d].pc = "idle" => call[d].pc = "idle"
      BY <1>0, <3>1 DEF Types, CallType, At
    <3> QED  BY <3>2, OthersKeepPending
  <2>3. CASE SendRequest(c)
    <3>1. \A d \in Callers : call'[d].pc = "idle" => call[d].pc = "idle"
      BY <1>0, <2>3 DEF Types, CallType, SendRequest
    <3> QED  BY <3>1, OthersKeepPending
  <2>4. CASE PassOver(c)
    BY <2>4, OthersKeepPending DEF PassOver
  <2>5. CASE TakeAnswer(c)
    <3>1. call[c].id \in carried
      BY <2>5, AnsweredWasCarried
    <3>2. \A d \in Callers : d # c => call'[d] = call[d]
      BY <1>0, <2>5, Continued DEF TakeAnswer, Types, EndsWith
    <3>3. call'[c].pc = "next" \/ (call[c].op = "command" => call[c].ask # "active")
      BY <1>0, <2>5, Continued DEF TakeAnswer
    <3>4. call[c].op = "command" => call[c].ask \in {"active", "command"}
      BY <1>0 DEF CallsOK, CallOK
    <3> QED  BY <3>1, <3>2, <3>3, <3>4, OthersKeepPending DEF DoneIfNil, Pending
  <2>6. CASE SecondCall(c)
    <3>1. \A d \in Callers : d # c => call'[d] = call[d]
      BY <1>0, <2>6 DEF Types, SecondCall, EndsWith
    <3>2. call'[c].pc = "idle" => outcome'[c] = IF call[c].rest THEN "ok" ELSE "timeout"
      BY <1>0, <2>6 DEF Types, CallType, SecondCall, EndsWith
    <3> QED  BY <3>1, <3>2, OthersKeepPending DEF DoneIfNil, Pending
  <2> QED  BY <1>3, <2>1, <2>2, <2>3, <2>4, <2>5, <2>6 DEF Step
<1> QED  BY <1>1, <1>2, <1>3 DEF Next

(* An operation returns without an error only if the server has carried out *)
(* its last call, or the first one of a status told enough.                 *)
THEOREM NilIsDone == Spec => NilMeansDone
<1>1. ClientInv /\ [Next]_vars => [\A c \in Callers : DoneIfNil(c)]_vars
  BY NilStep
<1>2. [\A c \in Callers : DoneIfNil(c)]_vars <=>
        [\A c \in Callers :
         Pending(c) /\ ~Pending(c)' /\ outcome'[c] = "ok" =>
            \/ call[c].id \in carried /\ (call[c].op = "command" => call[c].ask = "command")
            \/ call[c].rest]_vars
  BY DEF DoneIfNil
<1> QED  BY <1>1, <1>2, ClientSound, PTL DEF Spec, NilMeansDone

-----------------------------------------------------------------------------
(* The refinement *)

(* How far a call is, in MACalls                                            *)
LEMMA ProgressIs ==
    ASSUME NEW c \in Callers
    PROVE  /\ ProgressOf(c) = IF call[c].pc \in {"idle", "next"} THEN "none"
                             ELSE IF call[c].pc = "read" /\ call[c].id \in carried THEN "carried"
                             ELSE "asked"
           /\ ProgressOf(c)' = IF call'[c].pc \in {"idle", "next"} THEN "none"
                             ELSE IF call'[c].pc = "read" /\ call'[c].id \in carried' THEN "carried"
                             ELSE "asked"
  BY DEF ProgressOf

(* All requests that nobody waits for have been given up: what is on the    *)
(* connection is the request of the caller that has it.                     *)
LEMMA UnclaimedAreStrays == ClientInv => Unclaimed = strays
<1> SUFFICES ASSUME ClientInv
             PROVE  Unclaimed = strays
  OBVIOUS
<1>1. Types /\ MutexOK /\ ConnOK
  BY Typed DEF ClientInv
<1>2. CASE wsConn.up = <<>>
  BY <1>2 DEF Unclaimed, ToSet
<1>3. CASE wsConn.up # <<>>
  <2>1. ToSet(wsConn.up) = {wsConn.up[1]} /\ wsConn.up[1].id = msgID /\ wsMu \in Callers
    BY <1>1, <1>3, OnItsWay DEF ToSet
  <2>2. \/ wsConn.up[1].ask = "auth"
        \/ call[wsMu].pc = "read" /\ call[wsMu].id = msgID
    BY <1>1, <1>3, OnItsWay DEF Asks
  <2> QED  BY <2>1, <2>2 DEF Unclaimed
<1> QED  BY <1>2, <1>3

(* The same after a step                                                    *)
LEMMA UnclaimedNext == ClientInv' => (Unclaimed = strays)'
  BY UnclaimedAreStrays, PTL

(* A step that changes how far one call is, or none                         *)
LEMMA ProgressMoves ==
    ASSUME NEW c \in Callers, NEW x, ProgressOf(c)' = x,
           \A d \in Callers : d # c => ProgressOf(d)' = ProgressOf(d)
    PROVE  [d \in Callers |-> ProgressOf(d)]' =
              [[d \in Callers |-> ProgressOf(d)] EXCEPT ![c] = x]
  OBVIOUS

\* A step that moves no call, verdict or stray request is none of MACalls.
LEMMA CallsStutters ==
    ASSUME ClientInv, ClientInv', \A d \in Callers : ProgressOf(d)' = ProgressOf(d),
           UNCHANGED <<verdict, strays>>
    PROVE  UNCHANGED Calls!callVars
<1>1. [d \in Callers |-> ProgressOf(d)]' = [d \in Callers |-> ProgressOf(d)]
  OBVIOUS
<1>2. Unclaimed = strays /\ Unclaimed' = strays'
  BY UnclaimedAreStrays, UnclaimedNext
<1>3. Cardinality(Unclaimed)' = Cardinality(Unclaimed)
  BY <1>2
<1> QED  BY <1>1, <1>3 DEF Calls!callVars

(* Others go on as they were while one caller makes a step.                 *)
LEMMA ProgressOfOthers ==
    ASSUME NEW c \in Callers, UNCHANGED carried, \A d \in Callers : d # c => call'[d] = call[d]
    PROVE  \A d \in Callers : d # c => ProgressOf(d)' = ProgressOf(d)
  BY ProgressIs

(* A call that returns was asked or carried out, and is no more.            *)
LEMMA CallReturns ==
    ASSUME Types, NEW c \in Callers, NEW v, Return(c, v), UNCHANGED carried
    PROVE  Calls!Return(c, v)
<1>1. /\ call'[c] = NoCall /\ verdict' = [verdict EXCEPT ![c] = v]
      /\ \A d \in Callers : d # c => call'[d] = call[d]
  BY DEF Types, Return, EndsWith
<1>2. ProgressOf(c)' = "none"
  BY <1>1, ProgressIs DEF NoCall
<1>3. \A d \in Callers : d # c => ProgressOf(d)' = ProgressOf(d)
  BY <1>1, ProgressOfOthers
<1>4. [d \in Callers |-> ProgressOf(d)]' = [[d \in Callers |-> ProgressOf(d)] EXCEPT ![c] = "none"]
  BY <1>2, <1>3, ProgressMoves
<1> QED  BY <1>1, <1>4 DEF Calls!Return

(* The number of calls given up, in MACalls                                 *)
LEMMA StrayCount ==
    ASSUME ClientInv, ClientInv'
    PROVE  Cardinality(Unclaimed) = Cardinality(strays) /\ Cardinality(Unclaimed)' = Cardinality(strays')
  BY UnclaimedAreStrays, UnclaimedNext

(* A call that fails at the connection may leave its request behind, unless *)
(* it was carried out or has not been written.                              *)
LEMMA StrayMoves ==
    ASSUME ClientInv, ClientInv', NEW c \in Callers, call[c].pc \in Locked \ {"connect"}, CloseWS
    PROVE  \/ Cardinality(Unclaimed)' = Cardinality(Unclaimed)
           \/ /\ ProgressOf(c) = "asked" /\ call[c].pc = "read"
              /\ Cardinality(Unclaimed)' = Cardinality(Unclaimed) + 1
<1>1. Types /\ MutexOK /\ ConnOK /\ StraysOK
  BY Typed DEF ClientInv
<1>2. CASE strays' = strays
  BY <1>2, StrayCount
<1>3. CASE /\ wsConn.up # <<>> /\ wsConn.up[1].ask # "auth" /\ wsConn.up[1].id = msgID
           /\ strays' = strays \cup {wsConn.up[1]}
  <2>1. wsMu = c /\ call[c].pc = "read" /\ call[c].id = msgID /\ msgID \notin carried
    BY <1>1, <1>3, OnItsWay DEF Asks, MutexOK
  <2>2. wsConn.up[1] \notin strays
    BY <1>1, <1>3, <2>1 DEF StraysOK
  <2>3. Cardinality(strays') = Cardinality(strays) + 1
    BY <1>1, <1>3, <2>2, FS_AddElement DEF StraysOK
  <2>4. ProgressOf(c) = "asked"
    BY <2>1, ProgressIs
  <2> QED  BY <2>1, <2>3, <2>4, StrayCount
<1> QED  BY <1>1, <1>2, <1>3, LeftBehind

(* A call begins.                                                           *)
LEMMA CallIsAsked ==
    ASSUME ClientInv, ClientInv', NEW c \in Callers, call[c].pc \in {"idle", "next"},
           call'[c].pc = "lock", verdict' = [verdict EXCEPT ![c] = "none"],
           UNCHANGED <<strays, carried>>, \A d \in Callers : d # c => call'[d] = call[d]
    PROVE  Calls!Ask(c)
<1>1. ProgressOf(c) = "none" /\ ProgressOf(c)' = "asked"
  BY ProgressIs
<1>2. [d \in Callers |-> ProgressOf(d)]' = [[d \in Callers |-> ProgressOf(d)] EXCEPT ![c] = "asked"]
  BY <1>1, ProgressOfOthers, ProgressMoves
<1>3. Cardinality(Unclaimed)' = Cardinality(Unclaimed)
  BY StrayCount
<1> QED  BY <1>1, <1>2, <1>3 DEF Calls!Ask

(* A step of a call is one of MACalls, or is not seen there.                *)
LEMMA CallsStepOf ==
    ASSUME ClientInv, ClientInv', NEW c \in Callers, Step(c)
    PROVE  [Calls!Next]_Calls!callVars
<1>0. Types /\ MutexOK /\ ConnOK /\ HolderOK(c) /\ call[c] \in CallType
  BY Typed DEF ClientInv, ConnOK, Types
<1>a. ASSUME UNCHANGED <<verdict, strays, carried>>, \A d \in Callers : d # c => call'[d] = call[d],
             ProgressOf(c)' = ProgressOf(c)
      PROVE  UNCHANGED Calls!callVars
  BY <1>a, ProgressOfOthers, CallsStutters
<1>1. CASE Lock(c) \/ Connected(c) \/ Connect(c) \/ LoggedIn(c)
  <2>1. (\E pc \in {"connect", "auth", "send"} : At(c, pc)) /\ call[c].pc \in {"lock", "connect", "login"}
    BY <1>1 DEF Lock, Connected, Connect, LoggedIn
  <2>2. call'[c].pc \in {"connect", "auth", "send"} /\ \A d \in Callers : d # c => call'[d] = call[d]
    BY <1>0, <2>1 DEF Types, CallType, At
  <2>3. ProgressOf(c)' = ProgressOf(c)
    BY <2>1, <2>2, ProgressIs
  <2> QED  BY <1>1, <1>a, <2>2, <2>3 DEF Lock, Connected, Connect, LoggedIn
<1>2. CASE LockTimesOut(c)
  <2>1. ProgressOf(c) = "asked" /\ Return(c, "timeout") /\ UNCHANGED <<strays, carried>>
    BY <1>2, ProgressIs DEF LockTimesOut
  <2>2. Calls!Return(c, "timeout") /\ Cardinality(Unclaimed)' = Cardinality(Unclaimed)
    BY <1>0, <2>1, CallReturns, StrayCount
  <2> QED  BY <2>1, <2>2 DEF Calls!Next, Calls!TimeOut
<1>3. CASE ConnectFails(c)
  <2>1. PICK v \in {"error", "timeout"} : Return(c, v)
    BY <1>3 DEF ConnectFails
  <2>2. ProgressOf(c) = "asked" /\ UNCHANGED <<strays, carried>>
    BY <1>3, ProgressIs DEF ConnectFails
  <2>3. Calls!Return(c, v) /\ Cardinality(Unclaimed)' = Cardinality(Unclaimed)
    BY <1>0, <2>1, <2>2, CallReturns, StrayCount
  <2> QED  BY <2>2, <2>3 DEF Calls!Next, Calls!TimeOut, Calls!Fail
<1>4. CASE SendRequest(c)
  <2>1. /\ call[c].pc \in {"auth", "send"} /\ UNCHANGED <<verdict, strays, carried>>
        /\ msgID' = msgID + 1 /\ \A d \in Callers : d # c => call'[d] = call[d]
        /\ call'[c].pc \in {"login", "read"} /\ call'[c].id = msgID + 1
    BY <1>0, <1>4 DEF Types, CallType, SendRequest, NewID
  <2>2. call'[c].id \notin carried
    BY <1>0, <2>1 DEF Types
  <2>3. ProgressOf(c)' = ProgressOf(c)
    BY <2>1, <2>2, ProgressIs
  <2> QED  BY <1>a, <2>1, <2>3
<1>5. CASE SendTimesOut(c)
  <2>1. call[c].pc \in {"auth", "send"} /\ CloseWS /\ Return(c, "timeout") /\ UNCHANGED carried
    BY <1>5 DEF SendTimesOut, Fail
  <2>2. ProgressOf(c) = "asked" /\ Cardinality(Unclaimed)' = Cardinality(Unclaimed)
    BY <2>1, ProgressIs, StrayMoves DEF Locked
  <2>3. Calls!Return(c, "timeout")
    BY <1>0, <2>1, CallReturns
  <2> QED  BY <2>2, <2>3 DEF Calls!Next, Calls!TimeOut
<1>6. CASE WriteFails(c) \/ Refused(c) \/ ReadFails(c)
  <2>1. /\ call[c].pc \in {"auth", "send", "login", "read"} /\ CloseWS /\ Return(c, "error")
        /\ UNCHANGED carried
    BY <1>6 DEF WriteFails, Refused, ReadFails, Reading, Fail
  <2>2. ProgressOf(c) # "none" /\ Calls!Return(c, "error")
    BY <1>0, <2>1, ProgressIs, CallReturns
  <2>3. \/ Cardinality(Unclaimed)' = Cardinality(Unclaimed)
        \/ /\ ProgressOf(c) = "asked"
           /\ Cardinality(Unclaimed)' = Cardinality(Unclaimed) + 1
    BY <2>1, StrayMoves DEF Locked
  <2> QED  BY <2>2, <2>3 DEF Calls!Next, Calls!Fail
<1>7. CASE PassOver(c)
  <2>1. ProgressOf(c)' = ProgressOf(c)
    BY <1>7, ProgressIs DEF PassOver
  <2> QED  BY <1>7, <1>a, <2>1 DEF PassOver
<1>8. CASE TakeAnswer(c)
  <2>1. call[c].pc = "read" /\ call[c].id \in carried
    BY <1>8, AnsweredWasCarried
  <2>2. /\ UNCHANGED <<carried, strays>> /\ verdict' = [verdict EXCEPT ![c] = "ok"]
        /\ Continues(c, Head(wsConn.down).queue)
    BY <1>8 DEF TakeAnswer
  <2>3. call'[c].pc \in {"idle", "next"} /\ \A d \in Callers : d # c => call'[d] = call[d]
    BY <1>0, <2>2, Continued DEF Types, EndsWith, NoCall
  <2>4. ProgressOf(c) = "carried" /\ ProgressOf(c)' = "none"
        /\ \A d \in Callers : d # c => ProgressOf(d)' = ProgressOf(d)
    BY <2>1, <2>2, <2>3, ProgressIs
  <2>5. [d \in Callers |-> ProgressOf(d)]' = [[d \in Callers |-> ProgressOf(d)] EXCEPT ![c] = "none"]
    BY <2>4, ProgressMoves
  <2>6. Cardinality(Unclaimed)' = Cardinality(Unclaimed)
    BY <2>2, StrayCount
  <2> QED  BY <2>2, <2>4, <2>5, <2>6 DEF Calls!Next, Calls!Succeed, Calls!Return
<1>9. CASE SecondCall(c)
  <2>1. UNCHANGED <<strays, carried>> /\ call[c].pc = "next"
        /\ \A d \in Callers : d # c => call'[d] = call[d]
    BY <1>0, <1>9 DEF Types, SecondCall, EndsWith
  <2>2. \/ call'[c].pc = "idle" /\ UNCHANGED verdict
        \/ call'[c].pc = "lock" /\ verdict' = [verdict EXCEPT ![c] = "none"]
    BY <1>0, <1>9 DEF Types, CallType, SecondCall, EndsWith, NoCall
  <2>3. CASE call'[c].pc = "idle" /\ UNCHANGED verdict
    BY <1>a, <2>1, <2>3, ProgressIs
  <2>4. CASE call'[c].pc = "lock" /\ verdict' = [verdict EXCEPT ![c] = "none"]
    BY <2>1, <2>4, CallIsAsked DEF Calls!Next
  <2> QED  BY <2>2, <2>3, <2>4
<1> QED
  BY <1>1, <1>2, <1>3, <1>4, <1>5, <1>6, <1>7, <1>8, <1>9 DEF Step

(* What the server carries out is what the caller asked last.               *)
LEMMA CallsServe ==
    ASSUME ClientInv, ClientInv', Serve
    PROVE  [Calls!Next]_Calls!callVars
<1>1. Types /\ MutexOK /\ ConnOK
  BY Typed DEF ClientInv
<1>2. wsConn.up # <<>> /\ UNCHANGED <<call, verdict, strays>>
      /\ carried' \in {carried, carried \cup {Head(wsConn.up).id}}
  BY DEF Serve, clientVars
<1>3. PICK c \in Callers : c = wsMu
  BY <1>1, <1>2, OnItsWay
<1>4. /\ Head(wsConn.up).id = msgID /\ msgID \notin carried
      /\ call[c].pc = "login" \/ (call[c].pc = "read" /\ call[c].id = msgID)
  BY <1>1, <1>2, <1>3, OnItsWay DEF Asks
<1>5. \A d \in Callers : d # c => call[d].pc # "read"
  BY <1>1, <1>3 DEF MutexOK, Locked
<1>6. \A d \in Callers : d # c => ProgressOf(d)' = ProgressOf(d)
  BY <1>2, <1>5, ProgressIs
<1>7. CASE ProgressOf(c)' = ProgressOf(c)
  BY <1>2, <1>6, <1>7, CallsStutters
<1>8. CASE ProgressOf(c)' # ProgressOf(c)
  <2>1. ProgressOf(c) = "asked" /\ ProgressOf(c)' = "carried"
    BY <1>2, <1>4, <1>8, ProgressIs
  <2>2. [d \in Callers |-> ProgressOf(d)]' = [[d \in Callers |-> ProgressOf(d)] EXCEPT ![c] = "carried"]
    BY <1>6, <2>1, ProgressMoves
  <2>3. Cardinality(Unclaimed)' = Cardinality(Unclaimed)
    BY <1>2, StrayCount
  <2> QED  BY <1>2, <2>1, <2>2, <2>3 DEF Calls!Next, Calls!Carry
<1> QED  BY <1>7, <1>8

(* A request given up is settled, and no call learns of it.                 *)
LEMMA CallsSettle ==
    ASSUME ClientInv, ClientInv', SettleStray
    PROVE  Calls!Next
<1>1. Types /\ MutexOK /\ ConnOK /\ StraysOK
  BY Typed DEF ClientInv
<1>2. PICK r \in strays : strays' = strays \ {r} /\ carried' \in {carried, carried \cup {r.id}}
  BY DEF SettleStray
<1>3. UNCHANGED <<call, verdict>>
  BY DEF SettleStray, clientVars
<1>4. ASSUME NEW d \in Callers
      PROVE  ProgressOf(d)' = ProgressOf(d)
  <2>1. call[d].pc = "read" => call[d].id = msgID /\ r.id # msgID
    BY <1>1 DEF ConnOK, HolderOK, Asks, StraysOK
  <2> QED  BY <1>2, <1>3, <2>1, ProgressIs
<1>5. Cardinality(strays') = Cardinality(strays) - 1 /\ Cardinality(strays) > 0
  <2>1. Cardinality(strays) \in Nat /\ Cardinality(strays) # 0
    BY <1>1, <1>2, FS_CardinalityType, FS_EmptySet DEF StraysOK
  <2>2. Cardinality(strays \ {r}) = Cardinality(strays) - 1
    BY <1>1, FS_RemoveElement DEF StraysOK
  <2>3. strays' = strays \ {r}
    BY <1>2
  <2> QED  BY <2>1, <2>2, <2>3
<1>6. [d \in Callers |-> ProgressOf(d)]' = [d \in Callers |-> ProgressOf(d)]
  BY <1>4
<1> QED  BY <1>3, <1>5, <1>6, StrayCount DEF Calls!Next, Calls!SettleStray

\* Every step of the client is one of MACalls, or none.
LEMMA CallsNext ==
    ASSUME ClientInv, ClientInv', [Next]_vars
    PROVE  [Calls!Next]_Calls!callVars
<1>0. Types
  BY Typed DEF ClientInv
<1>1. CASE UNCHANGED vars \/ Finished \/ SendChatter \/ Break \/ SwitchQueue
  <2>1. UNCHANGED <<call, verdict, strays, carried>>
    BY <1>1 DEF vars, Finished, SendChatter, Break, SwitchQueue, clientVars
  <2> QED  BY <2>1, ProgressIs, CallsStutters
<1>2. ASSUME NEW c \in Callers, Step(c)
      PROVE  [Calls!Next]_Calls!callVars
  BY <1>2, CallsStepOf
<1>3. ASSUME NEW c \in Callers, Begin(c)
      PROVE  [Calls!Next]_Calls!callVars
  <2>1. /\ call[c].pc = "idle" /\ call'[c].pc = "lock" /\ UNCHANGED <<strays, carried>>
        /\ verdict' = [verdict EXCEPT ![c] = "none"]
        /\ \A d \in Callers : d # c => call'[d] = call[d]
    BY <1>0, <1>3 DEF Types, Begin, Pending, NoCall
  <2> QED  BY <2>1, CallIsAsked DEF Calls!Next
<1>4. ASSUME NEW c \in Callers, DeadlinePasses(c)
      PROVE  [Calls!Next]_Calls!callVars
  <2>1. UNCHANGED <<verdict, strays, carried>>
        /\ \A d \in Callers : call'[d].pc = call[d].pc /\ call'[d].id = call[d].id
    BY <1>0, <1>4 DEF Types, CallType, DeadlinePasses
  <2> QED  BY <2>1, ProgressIs, CallsStutters
<1>5. CASE Serve
  BY <1>5, CallsServe
<1>6. CASE SettleStray
  BY <1>6, CallsSettle
<1> QED  BY <1>1, <1>2, <1>3, <1>4, <1>5, <1>6 DEF Next, Server

(* The calls over the shared connection are those MACalls describes: each   *)
(* is carried out at most once, and what it returns is true of it.          *)
THEOREM CallsAreKept == Spec => ImplementsMACalls
<1>1. ClientInit => Calls!Init
  <2>1. ASSUME ClientInit
        PROVE  Calls!Init
    <3>1. ClientInv
      BY <2>1, ClientInvInit
    <3>2. Cardinality(Unclaimed) = 0
      BY <2>1, <3>1, UnclaimedAreStrays, FS_EmptySet DEF ClientInit
    <3>3. [d \in Callers |-> ProgressOf(d)] = [d \in Callers |-> "none"]
      BY <2>1, ProgressIs DEF ClientInit, NoCall
    <3> QED  BY <2>1, <3>2, <3>3 DEF Calls!Init, ClientInit
  <2> QED  BY <2>1
<1>2. ClientInv /\ ClientInv' /\ [Next]_vars => [Calls!Next]_Calls!callVars
  BY CallsNext
<1> QED  BY <1>1, <1>2, ClientSound, PTL DEF Spec, ImplementsMACalls, Calls!Spec
=============================================================================
