---------------------------- MODULE Sessions_proofs ----------------------------
(***************************************************************************)
(* Theorems about session.Manager, for every set of identifiers and        *)
(* generations and every table size from two up.                           *)
(*                                                                         *)
(* All of them rest on one lemma, StepShape: whatever method a client      *)
(* calls, the table changes in one of four ways.                           *)
(***************************************************************************)
EXTENDS Sessions, FiniteSetTheorems, TLAPS

\* A step that changes the state of one session in the table, and nothing else.
Moves(id, st) ==
    /\ Exists(id)
    /\ sessions[id] \in Ended => st # "playing"
    /\ SetState(id, st)

(* Every step of the manager creates a session, moves one session of the    *)
(* table to another state (an ended one never to playing), disowns a        *)
(* generation because of a seek, or records a new generation.               *)
LEMMA StepShape ==
    ASSUME SessionsNext
    PROVE  \E id \in Ids :
              \/ CreateWithBase(id)
              \/ \E st \in State : Moves(id, st)
              \/ Seek(id)
              \/ \E gen \in Gens : SetSessionGenID(id, gen)
<1>1. PICK id \in Ids : \/ Command(id)
                        \/ \E gen \in Gens \cup {0} : Callback(id, gen)
                        \/ \E gen \in Gens : SetSessionGenID(id, gen)
  BY DEF SessionsNext
<1>2. CASE Command(id)
  <2>1. CASE CreateWithBase(id)
    BY <2>1
  <2>2. CASE Play(id)
    <3>1. Moves(id, "starting")
      BY <2>2 DEF Play, CanPlay, Moves, Exists, State
    <3> QED  BY <3>1 DEF State
  <2>3. CASE Stop(id)
    <3>1. Moves(id, "stopped")
      BY <2>3 DEF Stop, Moves
    <3> QED  BY <3>1 DEF State
  <2>4. CASE Pause(id)
    <3>1. Moves(id, "paused")
      BY <2>4 DEF Pause, Moves
    <3> QED  BY <3>1 DEF State
  <2>5. CASE Seek(id)
    BY <2>5
  <2>6. CASE SetErrorIfNoGeneration(id)
    <3>1. Moves(id, "error")
      BY <2>6 DEF SetErrorIfNoGeneration, Moves
    <3> QED  BY <3>1 DEF State
  <2> QED  BY <1>2, <2>1, <2>2, <2>3, <2>4, <2>5, <2>6 DEF Command
<1>3. CASE \E gen \in Gens \cup {0} : Callback(id, gen)
  <2>1. PICK gen \in Gens \cup {0} : Callback(id, gen)
    BY <1>3
  <2>2. CASE StopIfGeneration(id, gen)
    <3>1. Moves(id, "stopped")
      BY <2>2 DEF StopIfGeneration, CanStopIfGeneration, Moves
    <3> QED  BY <3>1 DEF State
  <2>3. CASE SetPlayingAcceptedIfGeneration(id, gen) \/ AcceptPlaybackIfGeneration(id, gen)
    <3>1. Moves(id, "playing")
      BY <2>3 DEF SetPlayingAcceptedIfGeneration, CanSetPlayingAccepted,
                  AcceptPlaybackIfGeneration, Moves, Exists, State, Ended
    <3> QED  BY <3>1 DEF State
  <2>4. CASE MarkPlayingIfGeneration(id, gen)
    <3>1. Moves(id, "playing")
      BY <2>4 DEF MarkPlayingIfGeneration, CanMarkPlaying, Moves, Ended
    <3> QED  BY <3>1 DEF State
  <2>5. CASE MarkPausedIfGeneration(id, gen)
    <3>1. Moves(id, "paused")
      BY <2>5 DEF MarkPausedIfGeneration, CanMarkPaused, Moves, Exists, State, Active
    <3> QED  BY <3>1 DEF State
  <2>6. CASE SetErrorIfGeneration(id, gen) \/ StopWithErrorIfGenerationActive(id, gen)
    <3>1. Moves(id, "error")
      BY <2>6 DEF SetErrorIfGeneration, CanSetError, StopWithErrorIfGenerationActive,
                  IsCurrentGenerationActive, Moves, Exists, State, Active
    <3> QED  BY <3>1 DEF State
  <2> QED  BY <2>1, <2>2, <2>3, <2>4, <2>5, <2>6 DEF Callback
<1>4. CASE \E gen \in Gens : SetSessionGenID(id, gen)
  BY <1>4
<1> QED  BY <1>1, <1>2, <1>3, <1>4

-----------------------------------------------------------------------------
(* No call takes the table, the current session or a generation out of its  *)
(* type.                                                                     *)
LEMMA SessionsTypeStep ==
    ASSUME SessionsTypeOK, [SessionsNext]_sessionsVars
    PROVE  SessionsTypeOK'
<1>1. CASE UNCHANGED sessionsVars
  BY <1>1 DEF SessionsTypeOK, sessionsVars
<1>2. CASE SessionsNext
  <2>1. PICK id \in Ids :
            \/ CreateWithBase(id)
            \/ \E st \in State : Moves(id, st)
            \/ Seek(id)
            \/ \E gen \in Gens : SetSessionGenID(id, gen)
    BY <1>2, StepShape
  <2>2. CASE CreateWithBase(id)
    <3>1. PICK gone \in Victims :
             sessions' = [i \in Ids |-> IF i = id THEN "loaded"
                                        ELSE IF i \in gone THEN "evicted"
                                        ELSE StoppedAll[i]]
      BY <2>2 DEF CreateWithBase
    <3>2. \A i \in Ids : StoppedAll[i] \in State \cup {"unborn", "evicted"}
      BY DEF SessionsTypeOK, StoppedAll, State
    <3> QED
      BY <2>2, <3>1, <3>2 DEF SessionsTypeOK, CreateWithBase, State
  <2>3. CASE \E st \in State : Moves(id, st)
    BY <2>3 DEF SessionsTypeOK, Moves, SetState
  <2>4. CASE Seek(id)
    BY <2>4 DEF SessionsTypeOK, Seek, State
  <2>5. CASE \E gen \in Gens : SetSessionGenID(id, gen)
    BY <2>5 DEF SessionsTypeOK, SetSessionGenID
  <2> QED  BY <2>1, <2>2, <2>3, <2>4, <2>5
<1> QED  BY <1>1, <1>2

(* The table, the current session and the generations keep their types.     *)
THEOREM SessionsTypeCorrect == SessionsSpec => []SessionsTypeOK
<1>1. SessionsInit => SessionsTypeOK
  BY DEF SessionsInit, SessionsTypeOK
<1> QED  BY <1>1, SessionsTypeStep, PTL DEF SessionsSpec

-----------------------------------------------------------------------------
(* Only CreateWithBase changes which sessions are in the table.             *)
LEMMA LiveUnchanged ==
    ASSUME SessionsTypeOK, NEW id \in Ids,
           (\E st \in State : Moves(id, st)) \/ Seek(id)
              \/ (\E gen \in Gens : SetSessionGenID(id, gen))
    PROVE  Live' = Live
BY DEF SessionsTypeOK, Moves, Exists, SetState, Seek, SetSessionGenID, Live, State, Active

(* What CreateWithBase leaves in the table: the new session, and all the    *)
(* others but the evicted one.                                              *)
LEMMA LiveAfterCreate ==
    ASSUME SessionsTypeOK, NEW id \in Ids, CreateWithBase(id)
    PROVE  \E gone \in Victims : gone \subseteq Live /\ Live' = (Live \ gone) \cup {id}
<1>1. PICK gone \in Victims :
         sessions' = [i \in Ids |-> IF i = id THEN "loaded"
                                    ELSE IF i \in gone THEN "evicted"
                                    ELSE StoppedAll[i]]
  BY DEF CreateWithBase
<1>2. gone \subseteq Live
  <2>1. Evictable(StoppedAll) \subseteq Live
    BY DEF SessionsTypeOK, Evictable, StoppedAll, Live, Ended, State
  <2> QED  BY <2>1 DEF Victims
<1>3. \A i \in Ids : StoppedAll[i] \in State <=> i \in Live
  BY DEF SessionsTypeOK, StoppedAll, Live, State
<1>4. \A i \in Ids : i \in Live' <=> i = id \/ (i \in Live /\ i \notin gone)
  BY <1>1, <1>3 DEF Live, State
<1>5. Live' \subseteq Ids /\ Live \subseteq Ids
  BY DEF Live
<1>6. Live' = (Live \ gone) \cup {id}
  BY <1>4, <1>5
<1> QED  BY <1>2, <1>6

(* A full table always has a session that evictLocked may delete: the       *)
(* sessions have just been stopped, there are at least two, and at most one *)
(* of them is the current session.                                          *)
LEMMA RoomIsMade ==
    ASSUME SessionsTypeOK, IsFiniteSet(Live), Cardinality(Live) >= MaxSessions
    PROVE  Evictable(StoppedAll) # {}
<1>1. Evictable(StoppedAll) = Live \ {currentSessionID}
  BY DEF SessionsTypeOK, Evictable, StoppedAll, Live, Ended, State
<1>2. /\ IsFiniteSet(Live \ {currentSessionID})
      /\ Cardinality(Live \ {currentSessionID}) >= Cardinality(Live) - 1
  BY FS_RemoveElement, FS_CardinalityType
<1>3. Cardinality(Live) - 1 >= 1
  BY SessionsAssumption, FS_CardinalityType
<1>4. Cardinality(Live \ {currentSessionID}) # 0
  BY <1>2, <1>3, FS_CardinalityType
<1> QED  BY <1>1, <1>4, FS_EmptySet

(* The table never holds more than maxSessions sessions.                    *)
THEOREM SessionsBoundedTheorem == SessionsSpec => []SessionsBounded
<1>1. SessionsInit => SessionsBounded
  <2>1. SessionsInit => Live = {}
    BY DEF SessionsInit, Live, State
  <2> QED  BY <2>1, FS_EmptySet, SessionsAssumption DEF SessionsBounded
<1>2. ASSUME SessionsTypeOK, SessionsBounded, [SessionsNext]_sessionsVars
      PROVE  SessionsBounded'
  <2>1. CASE UNCHANGED sessionsVars
    BY <1>2, <2>1 DEF SessionsBounded, sessionsVars, Live
  <2>2. CASE SessionsNext
    <3>1. PICK id \in Ids :
              \/ CreateWithBase(id)
              \/ \E st \in State : Moves(id, st)
              \/ Seek(id)
              \/ \E gen \in Gens : SetSessionGenID(id, gen)
      BY <2>2, StepShape
    <3>2. CASE ~CreateWithBase(id)
      <4>1. Live' = Live
        BY <1>2, <3>1, <3>2, LiveUnchanged
      <4> QED  BY <1>2, <4>1 DEF SessionsBounded
    <3>3. CASE CreateWithBase(id)
      <4>1. PICK gone \in Victims : gone \subseteq Live /\ Live' = (Live \ gone) \cup {id}
        BY <1>2, <3>3, LiveAfterCreate
      <4>2. IsFiniteSet(Live) /\ Cardinality(Live) \in Nat /\ Cardinality(Live) <= MaxSessions
        BY <1>2, FS_CardinalityType DEF SessionsBounded
      <4>3. IsFiniteSet(Live \ gone) /\ Cardinality(Live \ gone) + 1 <= MaxSessions
        <5>1. CASE Cardinality(Live) < MaxSessions
          <6>1. gone = {}
            BY <4>1, <5>1 DEF Victims
          <6>2. Live \ gone = Live
            BY <6>1
          <6> QED  BY <4>2, <5>1, <6>2, SessionsAssumption
        <5>2. CASE ~(Cardinality(Live) < MaxSessions)
          <6>1. Cardinality(Live) >= MaxSessions
            BY <4>2, <5>2, SessionsAssumption
          <6>2. Evictable(StoppedAll) # {}
            BY <1>2, <4>2, <6>1, RoomIsMade
          <6>3. PICK v : gone = {v}
            BY <4>1, <5>2, <6>2 DEF Victims
          <6>4. v \in Live
            BY <4>1, <6>3
          <6>5. IsFiniteSet(Live \ {v}) /\ Cardinality(Live \ {v}) = Cardinality(Live) - 1
            BY <4>2, <6>4, FS_RemoveElement
          <6> QED  BY <4>2, <6>3, <6>5, SessionsAssumption
        <5> QED  BY <5>1, <5>2
      <4>4. Cardinality(Live \ gone) \in Nat
        BY <4>3, FS_CardinalityType
      <4>5. /\ IsFiniteSet((Live \ gone) \cup {id})
            /\ Cardinality((Live \ gone) \cup {id})
                 = IF id \in Live \ gone THEN Cardinality(Live \ gone)
                                         ELSE Cardinality(Live \ gone) + 1
        BY <4>3, FS_AddElement
      <4> QED  BY <4>1, <4>3, <4>4, <4>5, SessionsAssumption DEF SessionsBounded
    <3> QED  BY <3>2, <3>3
  <2> QED  BY <1>2, <2>1, <2>2
<1> QED  BY <1>1, <1>2, SessionsTypeCorrect, PTL DEF SessionsSpec

-----------------------------------------------------------------------------
(* Eviction never takes the session a control point addresses.              *)
THEOREM CurrentSparedTheorem == SessionsSpec => CurrentSpared
<1>1. ASSUME SessionsTypeOK, [SessionsNext]_sessionsVars, NEW i \in Ids,
             sessions[i] # "evicted", sessions'[i] = "evicted"
      PROVE  currentSessionID # i /\ sessions[i] \in State
  <2>1. SessionsNext
    BY <1>1 DEF sessionsVars
  <2>2. PICK id \in Ids :
              \/ CreateWithBase(id)
              \/ \E st \in State : Moves(id, st)
              \/ Seek(id)
              \/ \E gen \in Gens : SetSessionGenID(id, gen)
    BY <2>1, StepShape
  <2>3. CreateWithBase(id)
    BY <1>1, <2>2 DEF SessionsTypeOK, Moves, SetState, Seek, SetSessionGenID, State
  <2>4. PICK gone \in Victims :
           sessions' = [j \in Ids |-> IF j = id THEN "loaded"
                                      ELSE IF j \in gone THEN "evicted"
                                      ELSE StoppedAll[j]]
    BY <2>3 DEF CreateWithBase
  <2>5. StoppedAll[i] # "evicted"
    BY <1>1 DEF StoppedAll
  <2>6. i \in gone
    BY <1>1, <2>4, <2>5
  <2>7. i \in Evictable(StoppedAll)
    BY <2>6 DEF Victims
  <2> QED  BY <1>1, <2>7 DEF SessionsTypeOK, Evictable, StoppedAll, Live, Ended, State
<1>2. SessionsTypeOK /\ [SessionsNext]_sessionsVars =>
        [\A i \in Ids : sessions[i] # "evicted" /\ sessions'[i] = "evicted"
            => /\ currentSessionID # i
               /\ sessions[i] \in State]_sessionsVars
  BY <1>1
<1> QED  BY <1>2, SessionsTypeCorrect, PTL DEF SessionsSpec, CurrentSpared

(* A session that ended is not heard playing again before a new Play, and a *)
(* deleted one never returns: late callbacks revive nothing.                *)
THEOREM NoSilentRevivalTheorem == SessionsSpec => NoSilentRevival
<1>1. ASSUME SessionsTypeOK, [SessionsNext]_sessionsVars, NEW i \in Ids
      PROVE  /\ sessions[i] \in Ended => sessions'[i] # "playing"
             /\ sessions[i] = "evicted" => sessions'[i] = "evicted"
  <2>1. CASE UNCHANGED sessionsVars
    BY <2>1 DEF sessionsVars, Ended
  <2>2. CASE SessionsNext
    <3>1. PICK id \in Ids :
              \/ CreateWithBase(id)
              \/ \E st \in State : Moves(id, st)
              \/ Seek(id)
              \/ \E gen \in Gens : SetSessionGenID(id, gen)
      BY <2>2, StepShape
    <3>2. CASE CreateWithBase(id)
      <4>1. PICK gone \in Victims :
               sessions' = [j \in Ids |-> IF j = id THEN "loaded"
                                          ELSE IF j \in gone THEN "evicted"
                                          ELSE StoppedAll[j]]
        BY <3>2 DEF CreateWithBase
      <4>2. /\ sessions[i] \in Ended => StoppedAll[i] = "stopped"
            /\ sessions[i] = "evicted" => StoppedAll[i] = "evicted" /\ i # id
        BY <1>1, <3>2 DEF StoppedAll, Live, Ended, State, CreateWithBase
      <4> QED  BY <4>1, <4>2
    <3>3. CASE \E st \in State : Moves(id, st)
      BY <1>1, <3>3 DEF SessionsTypeOK, Moves, Exists, SetState, Ended, State
    <3>4. CASE Seek(id)
      BY <1>1, <3>4 DEF SessionsTypeOK, Seek, Ended, Active
    <3>5. CASE \E gen \in Gens : SetSessionGenID(id, gen)
      BY <3>5 DEF SetSessionGenID, Ended
    <3> QED  BY <3>1, <3>2, <3>3, <3>4, <3>5
  <2> QED  BY <1>1, <2>1, <2>2
<1>2. SessionsTypeOK /\ [SessionsNext]_sessionsVars =>
        [\A i \in Ids : /\ sessions[i] \in Ended => sessions'[i] # "playing"
                        /\ sessions[i] = "evicted" => sessions'[i] = "evicted"]_sessionsVars
  BY <1>1
<1> QED  BY <1>2, SessionsTypeCorrect, PTL DEF SessionsSpec, NoSilentRevival
===============================================================================
