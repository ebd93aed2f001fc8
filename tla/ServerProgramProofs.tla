------------------------ MODULE ServerProgramProofs ------------------------
(***************************************************************************)
(* Theorems about the command line server, for any number of clients and   *)
(* players, and whatever capacity is configured: ids and indices stay      *)
(* distinct, every session a task is told of is known to the broker, and   *)
(* the Server only lacks room if it was configured for fewer players.      *)
(***************************************************************************)
EXTENDS ServerProgram, FiniteSetTheorems, WellFoundedInduction, TLAPS

\* A session id is counted up for each player index taken, so that there is an id
\* for each index, except for the one the loop is about to ask for.
Counted ==
    Cardinality(freePlayers) =
        MaxPlayers + 1 - nextSessionId - (IF at = "session" THEN 1 ELSE 0)

\* What the broker has given out it does not give out again.
Issued ==
    /\ \A e \in playerSessions : e[1] < nextSessionId /\ e[2] \notin freePlayers
    /\ \A e, f \in playerSessions : e[1] = f[1] \/ e[2] = f[2] => e = f
    /\ at = "session" => /\ player \in Players \ freePlayers
                         /\ \A e \in playerSessions : e[2] # player
    /\ at \in {"greet", "stopped", "register"} =>
          session < nextSessionId /\ <<session, player>> \in playerSessions

\* A client is sent one id, while the loop handles it, and learns no other.
Greeted ==
    /\ \A c \in Clients : learned[c] \in {NoSession, greeting[c]}
    /\ \A c \in Clients : greeting[c] # NoSession => greeting[c] < nextSessionId
    /\ \A c, d \in Clients : greeting[c] = greeting[d] => c = d \/ greeting[c] = NoSession
    /\ \A c \in Clients : client[c] \in {"out", "connecting"} => greeting[c] = NoSession
    /\ at # "accept" => handling \in Clients
    /\ at \notin {"accept", "connecting"} => client[handling] \notin {"out", "connecting"}
    /\ at \in {"connecting", "player", "session", "greet"} => greeting[handling] = NoSession
    /\ at = "greet" => \A c \in Clients : greeting[c] # session
    /\ at \in {"stopped", "register"} => greeting[handling] = session

\* Every registered session has an id of its own, besides the one being handled.
Registered ==
    /\ \A e \in sessions :
          greeting[e[2]] = e[1] /\ \E p \in Players : <<e[1], p>> \in playerSessions
    /\ \A e \in told : \E p \in Players : <<e[2], p>> \in playerSessions
    /\ IsFiniteSet(sessions)
    /\ Cardinality(sessions) + (IF at \in {"greet", "stopped", "register"} THEN 1 ELSE 0)
          <= nextSessionId - 1

IInv == TypeOK /\ Counted /\ Issued /\ Greeted /\ Registered

USE DEF server

-----------------------------------------------------------------------------
LEMMA Least ==
    ASSUME NEW S \in SUBSET Nat, S # {}
    PROVE  \E p \in S : \A q \in S : p <= q
  <1> DEFINE R == {ss \in Nat \X Nat : ss[1] < ss[2]}
  <1>1. IsWellFoundedOn(R, Nat)
    BY NatLessThanWellFounded DEF OpToRel
  <1>2. PICK p \in S : \A q \in S : ~ (<<q, p>> \in R)
    BY <1>1, WFMin, Zenon
  <1>3. ASSUME NEW q \in S PROVE p <= q
    <2>1. q \in Nat /\ p \in Nat
      OBVIOUS
    <2>2. q < p => <<q, p>> \in R
      BY <2>1
    <2> QED BY <1>2, <2>1, <2>2
  <1> QED BY <1>3

LEMMA FreeAreFinite ==
    ASSUME TypeOK
    PROVE  IsFiniteSet(freePlayers) /\ Cardinality(freePlayers) \in Nat
  <1>1. 1 \in Int /\ MaxPlayers \in Int
    BY AdmissionAssumption DEF AdmissionAssumption
  <1>2. IsFiniteSet(1 .. MaxPlayers)
    BY <1>1, FS_Interval, Zenon
  <1>3. freePlayers \subseteq 1 .. MaxPlayers
    BY DEF TypeOK, Players
  <1> QED BY <1>2, <1>3, FS_Subset, FS_CardinalityType

LEMMA InitIInv == Init => IInv
  <1> SUFFICES ASSUME Init PROVE IInv
    OBVIOUS
  <1> USE AdmissionAssumption DEF AdmissionAssumption, Init
  <1>1. TypeOK
    <2>1. /\ client \in [Clients -> {"out"}]
          /\ greeting \in [Clients -> {NoSession}]
          /\ learned \in [Clients -> {NoSession}]
      OBVIOUS
    <2>2. nextSessionId \in 1 .. MaxPlayers + 1
      OBVIOUS
    <2>3. handling = NoClient /\ at = "accept" /\ player = 0 /\ session = 0
      OBVIOUS
    <2>4. freePlayers = Players /\ playerSessions = {} /\ sessions = {} /\ told = {} /\ ended = {}
      OBVIOUS
    <2>5. panicked \in BOOLEAN /\ capacity \in Capacities
      OBVIOUS
    <2> QED BY <2>1, <2>2, <2>3, <2>4, <2>5 DEF TypeOK
  <1>2. Counted
    <2>1. 1 \in Int /\ MaxPlayers \in Int
      OBVIOUS
    <2>2. Cardinality(1 .. MaxPlayers) = IF 1 > MaxPlayers THEN 0 ELSE MaxPlayers - 1 + 1
      BY <2>1, FS_Interval, Zenon
    <2> QED BY <2>2 DEF Counted, Players
  <1>3. Issued
    BY DEF Issued
  <1>4. Greeted
    BY DEF Greeted
  <1>5. Registered
    BY FS_EmptySet DEF Registered
  <1> QED BY <1>1, <1>2, <1>3, <1>4, <1>5 DEF IInv

-----------------------------------------------------------------------------
(* The accept loop.                                                        *)

LEMMA AcceptIInv ==
    ASSUME IInv, NEW c \in Clients, Accept(c)
    PROVE  IInv'
  <1> USE AdmissionAssumption DEF AdmissionAssumption, IInv, Accept, local, broker
  <1>1. TypeOK'
    BY DEF TypeOK
  <1>2. Counted'
    BY DEF Counted
  <1>3. Issued'
    BY DEF Issued
  <1>4. Greeted'
    BY DEF Greeted
  <1>5. Registered'
    BY DEF Registered
  <1> QED BY <1>1, <1>2, <1>3, <1>4, <1>5

LEMMA ConnectedIInv ==
    ASSUME IInv, Connected
    PROVE  IInv'
  <1> USE AdmissionAssumption DEF AdmissionAssumption, IInv, Connected, NextConnection, local, broker
  <1>1. TypeOK'
    BY DEF TypeOK
  <1>2. Counted'
    BY DEF Counted
  <1>3. Issued'
    BY DEF Issued
  <1>4. Greeted'
    BY DEF Greeted, TypeOK
  <1>5. Registered'
    BY DEF Registered
  <1> QED BY <1>1, <1>2, <1>3, <1>4, <1>5

LEMMA NextPlayerIndexIInv ==
    ASSUME IInv, NextPlayerIndex
    PROVE  IInv'
  <1> USE AdmissionAssumption DEF AdmissionAssumption, IInv
  <1>1. CASE freePlayers = {}
    <2> USE <1>1 DEF NextPlayerIndex, NextConnection
    <2>1. TypeOK'
      BY DEF TypeOK
    <2>2. Counted'
      BY DEF Counted
    <2>3. Issued'
      BY DEF Issued
    <2>4. Greeted'
      BY DEF Greeted
    <2>5. Registered'
      BY DEF Registered
    <2> QED BY <2>1, <2>2, <2>3, <2>4, <2>5
  <1>2. CASE freePlayers # {}
    <2>1. /\ player' \in freePlayers
          /\ freePlayers' = freePlayers \ {player'}
          /\ at = "player" /\ at' = "session"
          /\ UNCHANGED <<client, greeting, learned, handling, session, nextSessionId,
                         playerSessions, server>>
      <3>1. \E p \in freePlayers : \A q \in freePlayers : p <= q
        <4>1. freePlayers \in SUBSET Nat
          BY DEF TypeOK, Players
        <4> QED BY <1>2, <4>1, Least
      <3> QED BY <1>2, <3>1, Zenon DEF NextPlayerIndex, TakePlayer
    <2>2. TypeOK'
      BY <2>1 DEF TypeOK
    <2>3. Counted'
      <3>1. IsFiniteSet(freePlayers) /\ Cardinality(freePlayers) \in Nat
        BY FreeAreFinite
      <3>2. Cardinality(freePlayers \ {player'}) = Cardinality(freePlayers) - 1
        BY <2>1, <3>1, FS_RemoveElement
      <3>3. Cardinality(freePlayers') = Cardinality(freePlayers) - 1
        BY <2>1, <3>2
      <3>4. nextSessionId \in Int
        BY DEF TypeOK
      <3> QED BY <2>1, <3>1, <3>3, <3>4 DEF Counted
    <2>4. Issued'
      BY <2>1 DEF Issued, TypeOK
    <2>5. Greeted'
      BY <2>1 DEF Greeted
    <2>6. Registered'
      BY <2>1 DEF Registered
    <2> QED BY <2>2, <2>3, <2>4, <2>5, <2>6
  <1> QED BY <1>1, <1>2

LEMMA AllocateSessionIdIInv ==
    ASSUME IInv, AllocateSessionId
    PROVE  IInv'
  <1> USE AdmissionAssumption DEF AdmissionAssumption, IInv
  <1>1. /\ at = "session" /\ at' = "greet"
        /\ session' = nextSessionId /\ nextSessionId' = nextSessionId + 1
        /\ playerSessions' = playerSessions \cup {<<nextSessionId, player>>}
        /\ UNCHANGED <<client, greeting, learned, handling, player, freePlayers, server>>
    BY DEF AllocateSessionId
  <1>2. nextSessionId \in 1 .. MaxPlayers
    BY <1>1, FreeAreFinite DEF Counted, TypeOK
  <1>3. player \in Players
    BY <1>1 DEF Issued
  <1>4. TypeOK'
    <2>1. nextSessionId' \in 1 .. MaxPlayers + 1 /\ session' \in SessionIds
      BY <1>1, <1>2 DEF SessionIds
    <2>2. playerSessions' \in SUBSET (SessionIds \X Players)
      BY <1>1, <1>2, <1>3 DEF TypeOK, SessionIds
    <2> QED BY <1>1, <2>1, <2>2 DEF TypeOK
  <1>5. Counted'
    BY <1>1, <1>2 DEF Counted
  <1>6. Issued'
    <2>1. player \notin freePlayers /\ \A e \in playerSessions : e[2] # player
      BY <1>1 DEF Issued
    <2>2. \A e \in playerSessions : e[1] \in Int /\ e[1] < nextSessionId
      BY DEF Issued, TypeOK, SessionIds
    <2>3. \A e \in playerSessions' : e \in playerSessions \/ e = <<nextSessionId, player>>
      BY <1>1
    <2>4. \A e \in playerSessions' : e[1] < nextSessionId' /\ e[2] \notin freePlayers'
      BY <1>1, <1>2, <2>1, <2>2, <2>3 DEF Issued
    <2>5. \A e, f \in playerSessions' : e[1] = f[1] \/ e[2] = f[2] => e = f
      BY <1>2, <2>1, <2>2, <2>3 DEF Issued
    <2>6. session' < nextSessionId' /\ <<session', player'>> \in playerSessions'
      BY <1>1, <1>2
    <2> QED BY <1>1, <2>4, <2>5, <2>6 DEF Issued
  <1>7. Greeted'
    BY <1>1, <1>2 DEF Greeted, TypeOK, SessionIds
  <1>8. Registered'
    <2>1. Cardinality(sessions) \in Nat
      BY FS_CardinalityType DEF Registered
    <2>2. Cardinality(sessions') + 1 <= nextSessionId' - 1
      BY <1>1, <1>2, <2>1 DEF Registered
    <2>3. \A e \in sessions' :
             greeting'[e[2]] = e[1] /\ \E p \in Players : <<e[1], p>> \in playerSessions'
      BY <1>1 DEF Registered
    <2> QED BY <1>1, <2>2, <2>3 DEF Registered
  <1> QED BY <1>4, <1>5, <1>6, <1>7, <1>8

\* The connection is dropped, whatever the loop had taken for it.
LEMMA GivenUpIInv ==
    ASSUME IInv, at # "session", NextConnection,
           UNCHANGED <<client, greeting, learned, local, broker, server>>
    PROVE  IInv'
  <1> USE AdmissionAssumption DEF AdmissionAssumption, IInv, NextConnection, local, broker
  <1>1. TypeOK'
    BY DEF TypeOK
  <1>2. Counted'
    BY DEF Counted
  <1>3. Issued'
    BY DEF Issued
  <1>4. Greeted'
    BY DEF Greeted
  <1>5. Registered'
    <2>1. Cardinality(sessions) \in Nat /\ nextSessionId \in Int
      BY FS_CardinalityType DEF Registered, TypeOK
    <2>2. /\ Cardinality(sessions) <= nextSessionId - 1
          /\ at' = "accept" /\ UNCHANGED <<sessions, nextSessionId>>
      BY <2>1 DEF Registered
    <2>3. Cardinality(sessions') + (IF at' \in {"greet", "stopped", "register"} THEN 1 ELSE 0)
             <= nextSessionId' - 1
      BY <2>1, <2>2
    <2>4. /\ \A e \in sessions' :
                greeting'[e[2]] = e[1] /\ \E p \in Players : <<e[1], p>> \in playerSessions'
          /\ \A e \in told' : \E p \in Players : <<e[2], p>> \in playerSessions'
          /\ IsFiniteSet(sessions')
      BY DEF Registered
    <2> QED BY <2>3, <2>4 DEF Registered
  <1> QED BY <1>1, <1>2, <1>3, <1>4, <1>5

LEMMA GreetIInv ==
    ASSUME IInv, Greet
    PROVE  IInv'
  <1> USE AdmissionAssumption DEF AdmissionAssumption, IInv
  <1>1. CASE client[handling] = "gone"
    BY <1>1, GivenUpIInv DEF Greet, local, broker
  <1>2. CASE client[handling] # "gone"
    <2>1. /\ at = "greet" /\ at' = "stopped"
          /\ greeting' = [greeting EXCEPT ![handling] = session]
          /\ UNCHANGED <<client, learned, handling, player, session, freePlayers, nextSessionId,
                         playerSessions, server>>
      BY <1>2 DEF Greet, local, broker
    <2>2. /\ handling \in Clients /\ greeting[handling] = NoSession
          /\ \A c \in Clients : greeting[c] # session
          /\ session < nextSessionId /\ <<session, player>> \in playerSessions
      BY <2>1 DEF Greeted, Issued
    <2>3. session \in SessionIds /\ session # NoSession
      BY <2>2 DEF TypeOK, SessionIds
    <2>4. TypeOK'
      BY <2>1, <2>3 DEF TypeOK
    <2>5. Counted'
      BY <2>1 DEF Counted
    <2>6. Issued'
      BY <2>1 DEF Issued
    <2>7. /\ greeting'[handling] = session
          /\ \A c \in Clients : c # handling => greeting'[c] = greeting[c]
      BY <2>1, <2>2 DEF TypeOK
    <2>8. client[handling] \notin {"out", "connecting"}
      BY <2>1 DEF Greeted
    <2>9. Greeted'
      BY <2>1, <2>2, <2>3, <2>7, <2>8 DEF Greeted
    <2>10. Registered'
      <3>1. \A e \in sessions' :
               greeting'[e[2]] = e[1] /\ \E p \in Players : <<e[1], p>> \in playerSessions'
        BY <2>1, <2>2, <2>3, <2>7 DEF Registered, TypeOK, SessionIds
      <3> QED BY <2>1, <3>1 DEF Registered
    <2> QED BY <2>4, <2>5, <2>6, <2>9, <2>10
  <1> QED BY <1>1, <1>2

LEMMA StoppedIInv ==
    ASSUME IInv, Stopped
    PROVE  IInv'
  <1> USE AdmissionAssumption DEF AdmissionAssumption, IInv
  <1>1. CASE client[handling] = "gone"
    BY <1>1, GivenUpIInv DEF Stopped, local, broker
  <1>2. CASE client[handling] # "gone"
    <2> USE <1>2 DEF Stopped, local, broker
    <2>1. TypeOK'
      BY DEF TypeOK
    <2>2. Counted'
      BY DEF Counted
    <2>3. Issued'
      BY DEF Issued
    <2>4. Greeted'
      BY DEF Greeted
    <2>5. Registered'
      BY DEF Registered
    <2> QED BY <2>1, <2>2, <2>3, <2>4, <2>5
  <1> QED BY <1>1, <1>2

LEMMA RegisterIInv ==
    ASSUME IInv, Register
    PROVE  IInv'
  <1> USE AdmissionAssumption DEF AdmissionAssumption, IInv
  <1>1. /\ at = "register" /\ at' = "accept" /\ handling' = NoClient
        /\ sessions' = sessions \/ sessions' = sessions \cup {<<session, handling>>}
        /\ told' = told \/ told' = told \cup {<<t, session>> : t \in Reached}
        /\ UNCHANGED <<client, greeting, learned, player, session, freePlayers, nextSessionId,
                       playerSessions, capacity, ended>>
    BY DEF Register, NextConnection, local, broker
  <1>2. /\ handling \in Clients /\ greeting[handling] = session
        /\ session < nextSessionId /\ <<session, player>> \in playerSessions
    BY <1>1 DEF Greeted, Issued
  <1>3. session \in SessionIds /\ player \in Players
    BY <1>2 DEF TypeOK
  <1>4. TypeOK'
    <2>1. sessions' \in SUBSET (SessionIds \X Clients)
      BY <1>1, <1>2, <1>3 DEF TypeOK
    <2>2. panicked' \in BOOLEAN
      BY DEF Register
    <2>3. told' \in SUBSET (Tasks \X SessionIds)
      <3>1. Reached \subseteq Tasks
        BY DEF Reached
      <3> QED BY <1>1, <1>3, <3>1 DEF TypeOK
    <2> QED BY <1>1, <2>1, <2>2, <2>3 DEF TypeOK
  <1>5. Counted'
    BY <1>1 DEF Counted
  <1>6. Issued'
    BY <1>1 DEF Issued
  <1>7. Greeted'
    BY <1>1 DEF Greeted
  <1>8. Registered'
    <2>1. \A e \in sessions' :
             greeting'[e[2]] = e[1] /\ \E p \in Players : <<e[1], p>> \in playerSessions'
      BY <1>1, <1>2, <1>3 DEF Registered
    <2>2. /\ IsFiniteSet(sessions) /\ Cardinality(sessions) \in Nat
          /\ nextSessionId \in Int
      BY FS_CardinalityType DEF Registered, TypeOK
    <2>3. /\ IsFiniteSet(sessions \cup {<<session, handling>>})
          /\ Cardinality(sessions \cup {<<session, handling>>})
               \in {Cardinality(sessions), Cardinality(sessions) + 1}
      BY <2>2, FS_AddElement
    <2>4. Cardinality(sessions) + 1 <= nextSessionId - 1
      BY <1>1 DEF Registered
    <2>5. IsFiniteSet(sessions')
      BY <1>1, <2>2, <2>3
    <2>6. Cardinality(sessions') \in {Cardinality(sessions), Cardinality(sessions) + 1}
      BY <1>1, <2>3
    <2>7. Cardinality(sessions') <= nextSessionId' - 1
      BY <1>1, <2>2, <2>4, <2>6
    <2>8. Cardinality(sessions') + 0 = Cardinality(sessions')
      BY <2>2, <2>6
    <2>9. \A e \in told' : \E p \in Players : <<e[2], p>> \in playerSessions'
      <3>1. \A e \in told' : e \in told \/ e[2] = session
        BY <1>1
      <3> QED BY <1>1, <1>2, <1>3, <3>1 DEF Registered
    <2> QED BY <1>1, <2>1, <2>5, <2>7, <2>8, <2>9 DEF Registered
  <1> QED BY <1>4, <1>5, <1>6, <1>7, <1>8

-----------------------------------------------------------------------------
(* The clients, and the program.                                           *)

LEMMA ClientIInv ==
    ASSUME IInv, NEW c \in Clients, Connect(c) \/ Read(c) \/ Leave(c)
    PROVE  IInv'
  <1> USE AdmissionAssumption
      DEF AdmissionAssumption, IInv, Connect, Read, Leave, Move, Others, local, broker
  <1>1. TypeOK'
    BY DEF TypeOK
  <1>2. Counted'
    BY DEF Counted
  <1>3. Issued'
    BY DEF Issued
  <1>4. Greeted'
    BY DEF Greeted, TypeOK
  <1>5. Registered'
    BY DEF Registered
  <1> QED BY <1>1, <1>2, <1>3, <1>4, <1>5

LEMMA NextIInv == IInv /\ [Next]_vars => IInv'
  <1> SUFFICES ASSUME IInv, [Next]_vars PROVE IInv'
    OBVIOUS
  <1>1. CASE UNCHANGED vars
    BY <1>1 DEF vars, local, broker, IInv, TypeOK, Counted, Issued, Greeted, Registered
  <1>2. CASE Rest
    BY <1>1, <1>2 DEF Rest
  <1> QED BY <1>1, <1>2, AcceptIInv, ConnectedIInv, NextPlayerIndexIInv, AllocateSessionIdIInv,
             GreetIInv, StoppedIInv, RegisterIInv, ClientIInv DEF Next, Loop

\* Of what the loop and the clients know, the tasks only change whether they ended.
LEMMA TasksIInv ==
    ASSUME IInv, UNCHANGED admitVars, ended' \in SUBSET Tasks
    PROVE  IInv'
  <1> USE DEF admitVars, local, broker, IInv
  <1>1. TypeOK'
    BY DEF TypeOK
  <1>2. Counted' /\ Issued' /\ Greeted' /\ Registered'
    BY DEF Counted, Issued, Greeted, Registered
  <1> QED BY <1>1, <1>2

LEMMA ProgramNextIInv == IInv /\ [ProgramNext]_programVars => IInv'
  <1> SUFFICES ASSUME IInv, [ProgramNext]_programVars PROVE IInv'
    OBVIOUS
  <1>1. CASE Next \/ UNCHANGED vars
    BY <1>1, NextIInv
  <1>2. ASSUME NEW t \in Tasks, NEW id \in SessionIds, TakeUp(t, id) PROVE IInv'
    <2>1. ended' \in SUBSET Tasks
      BY <1>2 DEF TakeUp, IInv, TypeOK
    <2> QED BY <1>2, <2>1, TasksIInv DEF TakeUp
  <1>3. CASE SendFails
    <2>1. ended' \in SUBSET Tasks
      BY <1>3 DEF SendFails, IInv, TypeOK, Tasks
    <2> QED BY <1>3, <2>1, TasksIInv DEF SendFails
  <1> QED BY <1>1, <1>2, <1>3 DEF ProgramNext, Hears, Passes, programVars

\* In every state of the command line server what was given out and sent is told
\* from what is not (main.rs:101-233, broker.rs:39-96).
THEOREM AdmissionInvariance == ProgramSpec => []IInv
  <1>1. ProgramInit => IInv
    BY InitIInv DEF ProgramInit
  <1> QED BY <1>1, ProgramNextIInv, PTL DEF ProgramSpec

\* For any number of clients and players no two sessions share a player index and
\* no two clients an id, however many handshakes fail (broker.rs:71-96).
THEOREM AlwaysDistinct == ProgramSpec => []Distinct
  <1>1. IInv => Distinct
    BY DEF IInv, Issued, Greeted, Distinct
  <1> QED BY <1>1, AdmissionInvariance, PTL

\* No task ever looks up a session the broker does not know, and a client learns
\* the id it is registered with (broker.rs:105-114,133-142).
THEOREM AlwaysTakenUp == ProgramSpec => []TakenUp
  <1>1. IInv => RegisteredIsKnown
    BY DEF IInv, Greeted, Registered, RegisteredIsKnown, TypeOK
  <1>2. IInv /\ ~failed /\ [ProgramNext]_programVars => ~failed'
    <2> SUFFICES ASSUME IInv, ~failed, [ProgramNext]_programVars PROVE ~failed'
      OBVIOUS
    <2>1. ASSUME NEW t \in Tasks, NEW id \in SessionIds, TakeUp(t, id) PROVE ~failed'
      <3>1. <<t, id>> \in told
        BY <2>1 DEF TakeUp
      <3>2. PlayersOf(id) # {}
        BY <3>1 DEF IInv, Registered, PlayersOf
      <3> QED BY <2>1, <3>2 DEF TakeUp
    <2> QED BY <2>1 DEF ProgramNext, Hears, Passes, SendFails, programVars
  <1>3. ProgramInit => ~failed
    BY DEF ProgramInit
  <1>4. RegisteredIsKnown /\ ~failed => TakenUp
    BY DEF TakenUp
  <1> QED BY <1>1, <1>2, <1>3, <1>4, AdmissionInvariance, PTL DEF ProgramSpec

-----------------------------------------------------------------------------
(* Room for every session.                                                 *)

\* A loop that has panicked is at its end, and the map never holds more than it
\* was allocated for.
Room ==
    /\ panicked => at = "accept"
    /\ Cardinality(sessions) <= capacity
    /\ RoomForAll

\* The loop asks for an index before it registers, so that a map with room for
\* every index has room for the session.
LEMMA RegisterRoom == ASSUME IInv, Room, Register PROVE Room'
  <1>1. /\ Cardinality(sessions) \in Nat /\ IsFiniteSet(sessions)
        /\ capacity \in Nat
    BY AdmissionAssumption, FS_CardinalityType DEF IInv, Registered, TypeOK, AdmissionAssumption
  <1>2. Cardinality(sessions) + 1 <= nextSessionId - 1 /\ nextSessionId \in 1 .. MaxPlayers + 1
    BY DEF IInv, Registered, Register, TypeOK
  <1>3. at' = "accept" /\ UNCHANGED <<capacity, ended>>
    BY DEF Register, NextConnection
  <1>4. CASE Cardinality(sessions) < capacity
    <2>1. /\ sessions' = sessions \cup {<<session, handling>>}
          /\ panicked' = (ended # {})
      BY <1>4 DEF Register
    <2>2. Cardinality(sessions') \in {Cardinality(sessions), Cardinality(sessions) + 1}
      BY <1>1, <2>1, FS_AddElement
    <2>3. Cardinality(sessions') <= capacity
      BY <1>1, <1>4, <2>2
    <2>4. RoomForAll'
      BY <1>3, <2>1 DEF RoomForAll
    <2> QED BY <1>3, <2>3, <2>4 DEF Room
  <1>5. CASE ~(Cardinality(sessions) < capacity)
    <2>1. UNCHANGED sessions
      BY <1>5 DEF Register
    <2>2. Cardinality(sessions) = capacity
      BY <1>1, <1>5 DEF Room
    <2>3. capacity < MaxPlayers
      BY <1>1, <1>2, <2>2, AdmissionAssumption DEF AdmissionAssumption
    <2> QED BY <1>3, <2>1, <2>2, <2>3 DEF Room, RoomForAll
  <1> QED BY <1>4, <1>5

\* However many players a server is configured for and however many handshakes
\* fail, the loop panics only after a task has ended, or when the map is full and
\* was allocated for fewer sessions than the broker admits (server.rs:54,
\* main.rs:100).
THEOREM AlwaysRoom == ProgramSpec => []RoomForAll
  <1>1. IInv /\ Room /\ [ProgramNext]_programVars => Room'
    <2> SUFFICES ASSUME IInv, Room, [ProgramNext]_programVars PROVE Room'
      OBVIOUS
    <2>1. CASE /\ UNCHANGED <<sessions, capacity, panicked>> /\ ended \subseteq ended'
               /\ panicked => UNCHANGED at
      BY <2>1 DEF Room, RoomForAll
    <2>2. ASSUME Next, ~Register
          PROVE  /\ UNCHANGED <<sessions, capacity, panicked>> /\ ended \subseteq ended'
                 /\ panicked => UNCHANGED at
      BY <2>2 DEF Next, Loop, Accept, Connected, NextPlayerIndex, AllocateSessionId, Greet, Stopped,
                  Connect, Read, Leave, Others, Rest, vars, Room
    <2>3. ASSUME NEW t \in Tasks, NEW id \in SessionIds, TakeUp(t, id)
          PROVE  UNCHANGED <<sessions, capacity, panicked, at>> /\ ended \subseteq ended'
      BY <2>3 DEF TakeUp, admitVars
    <2>4. ASSUME SendFails
          PROVE  UNCHANGED <<sessions, capacity, panicked, at>> /\ ended \subseteq ended'
      BY <2>4 DEF SendFails, admitVars
    <2>5. ASSUME UNCHANGED vars
          PROVE  UNCHANGED <<sessions, capacity, panicked, at>> /\ ended \subseteq ended'
      BY <2>5 DEF vars
    <2> QED BY <2>1, <2>2, <2>3, <2>4, <2>5, RegisterRoom
            DEF ProgramNext, Hears, Passes, programVars
  <1>2. ProgramInit => Room
    <2> SUFFICES ASSUME ProgramInit PROVE Room
      OBVIOUS
    <2>1. capacity \in Nat /\ Cardinality(sessions) = 0
      BY AdmissionAssumption, FS_EmptySet DEF ProgramInit, Init, AdmissionAssumption
    <2> QED BY <2>1 DEF ProgramInit, Init, Room, RoomForAll
  <1>3. Room => RoomForAll
    BY DEF Room
  <1> QED BY <1>1, <1>2, <1>3, AdmissionInvariance, PTL DEF ProgramSpec
=============================================================================
