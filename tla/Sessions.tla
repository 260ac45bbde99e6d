------------------------------- MODULE Sessions -------------------------------
(***************************************************************************)
(* session.Manager (internal/session/session.go): the table of AVTransport *)
(* sessions, which of them is current, and the stream generation each one  *)
(* expects.  Every method takes Manager.mu, so a method is one step; the   *)
(* two methods that release it around a call of the streamer               *)
(* (StopIfGeneration, StopWithErrorIfGenerationActive) check again in      *)
(* their second section, which is the step they are here.                  *)
(*                                                                         *)
(* The module is used in two ways.  SessionsSpec is the manager with a     *)
(* client that may call any method with any argument at any time.  The     *)
(* methods themselves are operators, which Transport combines into the     *)
(* steps of its request handlers.                                          *)
(*                                                                         *)
(* Left out: metadata, URLs, tokens and time stamps.  UpdatedAt only       *)
(* orders the candidates for eviction, so any candidate may go here.       *)
(***************************************************************************)
EXTENDS Naturals, FiniteSets

CONSTANTS
    Ids,          \* the identifiers generateID can return
    NoSession,    \* the empty string: no current session
    Gens,         \* the generations the streamer announces (never 0)
    MaxSessions   \* the constant maxSessions

ASSUME SessionsAssumption ==
    /\ NoSession \notin Ids
    /\ Gens \subseteq Nat \ {0}
    /\ MaxSessions \in Nat /\ MaxSessions >= 2

VARIABLES
    sessions,           \* id -> its State; "unborn" before Create, "evicted" after eviction
    currentSessionID,
    sessionGenID        \* id -> expected generation, 0 when none is recorded

sessionsVars == <<sessions, currentSessionID, sessionGenID>>

State == {"loaded", "starting", "playing", "paused", "stopped", "error"}
Ended == {"stopped", "error"}
Active == {"starting", "playing"}

Live == {i \in Ids : sessions[i] \in State}
Exists(id) == sessions[id] \in State
IsState(id, st) == sessions[id] = st

(* CurrentSession() of the code: NoSession stands for nil. *)
CurrentSession ==
    IF currentSessionID \in Live THEN currentSessionID ELSE NoSession

-----------------------------------------------------------------------------
(* Generation checks *)

\* 0 skips the check
GenMatches(id, gen) == gen = 0 \/ sessionGenID[id] = gen

IsCurrentGenerationActive(id, gen) ==
    /\ currentSessionID = id
    /\ sessions[id] \in Active
    /\ GenMatches(id, gen)

IsCurrentGenerationState(id, gen, st) ==
    IsCurrentGenerationActive(id, gen) /\ sessions[id] = st

-----------------------------------------------------------------------------
(* The methods that change the table.  A method that returns false or an   *)
(* error changes nothing: Can... is the condition under which it acts.      *)

SetState(id, st) ==
    /\ sessions' = [sessions EXCEPT ![id] = st]
    /\ UNCHANGED <<currentSessionID, sessionGenID>>

\* mutant: a paused session is left alone
StoppedAllButPaused ==
    [i \in Ids |-> IF i \in Live /\ sessions[i] # "paused" THEN "stopped" ELSE sessions[i]]

\* Every session that is left is stopped; a full table first loses one that is not current.
StoppedAll == [i \in Ids |-> IF i \in Live THEN "stopped" ELSE sessions[i]]

EvictableEvenCurrent(table) == {i \in Ids : table[i] \in Ended}   \* mutant
Evictable(table) == {i \in Ids : table[i] \in Ended /\ i # currentSessionID}

\* mutant: > for >=
VictimsOffByOne ==
    IF Cardinality(Live) <= MaxSessions \/ Evictable(StoppedAll) = {}
    THEN {{}}
    ELSE {{v} : v \in Evictable(StoppedAll)}

\* What evictLocked deletes: one session, which makes room in a table that is full, or none
\* when it finds none that may go.
Victims ==
    IF Cardinality(Live) < MaxSessions \/ Evictable(StoppedAll) = {}
    THEN {{}}
    ELSE {{v} : v \in Evictable(StoppedAll)}

CreateWithBase(id) ==
    /\ sessions[id] = "unborn"
    /\ \E gone \in Victims :
          sessions' = [i \in Ids |-> IF i = id THEN "loaded"
                                     ELSE IF i \in gone THEN "evicted"
                                     ELSE StoppedAll[i]]
    /\ currentSessionID' = id
    /\ UNCHANGED sessionGenID

CanPlay(id) == sessions[id] \in {"paused", "error", "loaded", "stopped"}
Play(id) == CanPlay(id) /\ SetState(id, "starting")

Stop(id) == Exists(id) /\ SetState(id, "stopped")

Pause(id) == Exists(id) /\ SetState(id, "paused")

CanStopIfGeneration(id, gen) ==
    Exists(id) /\ GenMatches(id, gen) /\ sessions[id] # "error"
StopIfGeneration(id, gen) ==
    CanStopIfGeneration(id, gen) /\ SetState(id, "stopped")

CanSetPlayingAccepted(id, gen) ==
    sessions[id] = "starting" /\ GenMatches(id, gen)
SetPlayingAcceptedIfGeneration(id, gen) ==
    CanSetPlayingAccepted(id, gen) /\ SetState(id, "playing")

\* mutant: the ended states are not excluded
CanMarkPlayingEnded(id, gen) ==
    Exists(id) /\ GenMatches(id, gen) /\ sessions[id] # "playing"
CanMarkPlaying(id, gen) ==
    Exists(id) /\ GenMatches(id, gen) /\ sessions[id] \notin {"playing", "stopped", "error"}
MarkPlayingIfGeneration(id, gen) ==
    CanMarkPlaying(id, gen) /\ SetState(id, "playing")

CanMarkPaused(id, gen) == GenMatches(id, gen) /\ sessions[id] \in Active
MarkPausedIfGeneration(id, gen) ==
    CanMarkPaused(id, gen) /\ SetState(id, "paused")

CanSetError(id, gen) == Exists(id) /\ GenMatches(id, gen)
SetErrorIfGeneration(id, gen) ==
    CanSetError(id, gen) /\ SetState(id, "error")

SetErrorIfNoGeneration(id) ==
    Exists(id) /\ sessionGenID[id] = 0 /\ SetState(id, "error")

AcceptPlaybackIfGeneration(id, gen) ==
    /\ IsCurrentGenerationActive(id, gen)
    /\ sessions[id] = "starting"
    /\ SetState(id, "playing")

StopWithErrorIfGenerationActive(id, gen) ==
    IsCurrentGenerationActive(id, gen) /\ SetState(id, "error")

\* mutant: guesses the next generation
SeekGuessesGen(id) ==
    /\ sessions[id] \in Active
    /\ sessions' = [sessions EXCEPT ![id] = "starting"]
    /\ sessionGenID' = [sessionGenID EXCEPT ![id] = @ + 1]
    /\ UNCHANGED currentSessionID

\* A seek of a live stream starts a new generation: the old one is disowned at once.
Seek(id) ==
    /\ sessions[id] \in Active
    /\ sessions' = [sessions EXCEPT ![id] = "starting"]
    /\ sessionGenID' = [sessionGenID EXCEPT ![id] = 0]
    /\ UNCHANGED currentSessionID

SetSessionGenID(id, gen) ==
    /\ sessionGenID' = [sessionGenID EXCEPT ![id] = gen]
    /\ UNCHANGED <<sessions, currentSessionID>>

-----------------------------------------------------------------------------
SessionsInit ==
    /\ sessions = [i \in Ids |-> "unborn"]
    /\ currentSessionID = NoSession
    /\ sessionGenID = [i \in Ids |-> 0]

\* A callback of the streamer or of the backend, checked against a generation.
Callback(id, gen) ==
    \/ StopIfGeneration(id, gen)
    \/ SetPlayingAcceptedIfGeneration(id, gen)
    \/ MarkPlayingIfGeneration(id, gen)
    \/ MarkPausedIfGeneration(id, gen)
    \/ SetErrorIfGeneration(id, gen)
    \/ AcceptPlaybackIfGeneration(id, gen)
    \/ StopWithErrorIfGenerationActive(id, gen)

Command(id) ==
    \/ CreateWithBase(id)
    \/ Play(id)
    \/ Stop(id)
    \/ Pause(id)
    \/ Seek(id)
    \/ SetErrorIfNoGeneration(id)

SessionsNext ==
    \E id \in Ids :
        \/ Command(id)
        \/ \E gen \in Gens \cup {0} : Callback(id, gen)
        \/ \E gen \in Gens : SetSessionGenID(id, gen)

SessionsSpec == SessionsInit /\ [][SessionsNext]_sessionsVars

-----------------------------------------------------------------------------
SessionsTypeOK ==
    /\ sessions \in [Ids -> State \cup {"unborn", "evicted"}]
    /\ currentSessionID \in Ids \cup {NoSession}
    /\ sessionGenID \in [Ids -> Gens \cup {0}]

(* The table never outgrows maxSessions: CreateWithBase always finds a      *)
(* session evictLocked may delete, because it has just stopped them all and *)
(* only one of them is current.                                             *)
SessionsBounded == IsFiniteSet(Live) /\ Cardinality(Live) <= MaxSessions

(* The session a control point addresses survives its own replacement:      *)
(* evictLocked spares the current session, so a handler that read it just   *)
(* before CreateWithBase still finds it in the table.                       *)
CurrentSpared ==
    [][ \A i \in Ids : sessions[i] # "evicted" /\ sessions'[i] = "evicted"
            => /\ currentSessionID # i
               /\ sessions[i] \in State ]_sessionsVars

(* Whatever the order of late callbacks and commands, a session that ended  *)
(* is not heard playing again unless a Play first took it back to starting, *)
(* and a deleted session never comes back.                                  *)
NoSilentRevival ==
    [][ \A i \in Ids :
          /\ sessions[i] \in Ended => sessions'[i] # "playing"
          /\ sessions[i] = "evicted" => sessions'[i] = "evicted" ]_sessionsVars
===============================================================================
