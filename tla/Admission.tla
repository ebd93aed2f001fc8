----------------------------- MODULE Admission -----------------------------
(***************************************************************************)
(* How the command line server admits clients: the accept loop and         *)
(* server_handle_connection (longboy-server-cli main.rs), the free list    *)
(* and session ids of SessionBroker (broker.rs), and the QUIC handshake    *)
(* between ServerSession::new and ClientSession::new.                      *)
(*                                                                         *)
(* The loop handles one connection at a time and waits for the client      *)
(* meanwhile.  A client may go away at any moment; an await on a client    *)
(* that is gone ends with an error.  Of Server::register, module Server's, *)
(* here are its panics, the session it adds and the tasks it tells.        *)
(* Nothing in the command line server unregisters a session.               *)
(*                                                                         *)
(* The Server's map takes as many sessions as it was allocated for, which  *)
(* is the configuration's session_capacity or, as hashbrown rounds, more;  *)
(* nothing ties that to the number of players.                             *)
(***************************************************************************)
EXTENDS Integers, FiniteSets

CONSTANTS
    Clients,      \* connections that clients open, one each
    MaxPlayers,   \* MAX_PLAYERS of SessionBroker
    Capacities,   \* what capacity() of the Server's sessions map may be
    NoClient,     \* the loop awaits the next connection
    NoSession     \* a client without a session id

ASSUME AdmissionAssumption ==
    /\ MaxPlayers \in Nat
    /\ Capacities \subseteq Nat
    /\ NoClient \notin Clients
    /\ NoSession \notin Nat

Players    == 1 .. MaxPlayers
SessionIds == 1 .. MaxPlayers  \* a session has a player index first
Tasks      == {"sender", "receiver"}  \* in the order of the builder's calls

VARIABLES
    client,          \* where each client is
    greeting,        \* the session id sent to each client
    learned,         \* the session id each client has read
    handling,        \* the client the loop handles
    at,              \* the await, or the step, the loop is at
    player,          \* player_index, in server_handle_connection
    session,         \* session_id, in server_handle_connection
    freePlayers,     \* player_index_free_list
    nextSessionId,   \* next_session_id
    playerSessions,  \* player_sessions, as pairs of session id and player index
    sessions,        \* Server.sessions, as pairs of session id and client
    told,            \* Connected events sent, as pairs of task and session id
    capacity,        \* sessions.capacity()
    ended,           \* the Server's tasks that have ended
    panicked         \* whether the loop has panicked

broker == <<freePlayers, nextSessionId, playerSessions>>
local  == <<player, session>>
server == <<sessions, told, capacity, ended, panicked>>
vars   == <<client, greeting, learned, handling, at, local, broker, server>>

TypeOK ==
    /\ client \in [Clients -> {"out", "connecting", "connected", "told", "gone"}]
    /\ greeting \in [Clients -> SessionIds \cup {NoSession}]
    /\ learned \in [Clients -> SessionIds \cup {NoSession}]
    /\ handling \in Clients \cup {NoClient}
    /\ at \in {"accept", "connecting", "player", "session", "greet", "stopped",
              "register"}
    /\ player \in Players \cup {0}
    /\ session \in SessionIds \cup {0}
    /\ freePlayers \in SUBSET Players
    /\ nextSessionId \in 1 .. MaxPlayers + 1
    /\ playerSessions \in SUBSET (SessionIds \X Players)
    /\ sessions \in SUBSET (SessionIds \X Clients)
    /\ told \in SUBSET (Tasks \X SessionIds)
    /\ capacity \in Capacities
    /\ ended \in SUBSET Tasks
    /\ panicked \in BOOLEAN

Init ==
    /\ client = [c \in Clients |-> "out"]
    /\ greeting = [c \in Clients |-> NoSession]
    /\ learned = [c \in Clients |-> NoSession]
    /\ handling = NoClient
    /\ at = "accept"
    /\ player = 0
    /\ session = 0
    /\ freePlayers = Players
    /\ nextSessionId = 1
    /\ playerSessions = {}
    /\ sessions = {}
    /\ told = {}
    /\ capacity \in Capacities
    /\ ended = {}
    /\ panicked = FALSE

-----------------------------------------------------------------------------
(* The accept loop.                                                        *)

\* Back to accept: an error is logged, and what was taken is not given back.
NextConnection == handling' = NoClient /\ at' = "accept"

Accept(c) ==
    /\ ~panicked
    /\ at = "accept"
    /\ client[c] = "connecting"
    /\ handling' = c
    /\ at' = "connecting"
    /\ UNCHANGED <<client, greeting, learned, local, broker, server>>

\* connecting.await
Connected ==
    /\ at = "connecting"
    /\ IF client[handling] = "gone"
       THEN NextConnection /\ UNCHANGED client
       ELSE /\ client' = [client EXCEPT ![handling] = "connected"]
            /\ at' = "player"
            /\ UNCHANGED handling
    /\ UNCHANGED <<greeting, learned, local, broker, server>>

\* Mutant: the player index stays in the free list.
TakePlayerKept(p) == freePlayers' = freePlayers

TakePlayer(p) == freePlayers' = freePlayers \ {p}

\* next_player_index: the first that is free; without one the connection is
\* dropped.
NextPlayerIndex ==
    /\ at = "player"
    /\ IF freePlayers = {}
       THEN NextConnection /\ UNCHANGED <<player, freePlayers>>
       ELSE /\ player' = CHOOSE p \in freePlayers : \A q \in freePlayers : p <= q
            /\ TakePlayer(player')
            /\ at' = "session"
            /\ UNCHANGED handling
    /\ UNCHANGED <<client, greeting, learned, session, nextSessionId, playerSessions, server>>

\* Mutant: the broker does not record the session.
AllocateUnrecorded ==
    /\ at = "session"
    /\ session' = nextSessionId
    /\ nextSessionId' = nextSessionId + 1
    /\ at' = "greet"
    /\ UNCHANGED <<client, greeting, learned, handling, player, freePlayers, playerSessions,
                   server>>

AllocateSessionId ==
    /\ at = "session"
    /\ session' = nextSessionId
    /\ nextSessionId' = nextSessionId + 1
    /\ playerSessions' = playerSessions \cup {<<session', player>>}
    /\ at' = "greet"
    /\ UNCHANGED <<client, greeting, learned, handling, player, freePlayers, server>>

\* ServerSession::new opens a stream and sends the id and the key,
Greet ==
    /\ at = "greet"
    /\ IF client[handling] = "gone"
       THEN NextConnection /\ UNCHANGED greeting
       ELSE /\ greeting' = [greeting EXCEPT ![handling] = session]
            /\ at' = "stopped"
            /\ UNCHANGED handling
    /\ UNCHANGED <<client, learned, local, broker, server>>

\* Mutant: the server waits until the client has read the id.
StoppedOnlyRead ==
    /\ at = "stopped"
    /\ at' = IF client[handling] = "told" THEN "register" ELSE at
    /\ UNCHANGED <<client, greeting, learned, handling, local, broker, server>>

\* and waits for stopped(): the client has read them and stopped the stream, or
\* its end of the connection has acknowledged them.
Stopped ==
    /\ at = "stopped"
    /\ IF client[handling] = "gone"
       THEN NextConnection
       ELSE at' = "register" /\ UNCHANGED handling
    /\ UNCHANGED <<client, greeting, learned, local, broker, server>>

\* Mutant: the builder's sender() does not keep its end of the task's channel.
ReachedReceiver == {"receiver"} \ ended

\* The tasks register tells, the sender first, before one cannot be told.
Reached == IF "sender" \in ended THEN {} ELSE Tasks \ ended

\* server.register asserts that there is room, adds the session, and panics when
\* it cannot tell a task.
Register ==
    /\ at = "register"
    /\ IF Cardinality(sessions) < capacity
       THEN /\ sessions' = sessions \cup {<<session, handling>>}
            /\ told' = told \cup {<<t, session>> : t \in Reached}
            /\ panicked' = (ended # {})
       ELSE panicked' = TRUE /\ UNCHANGED <<sessions, told>>
    /\ NextConnection
    /\ UNCHANGED <<client, greeting, learned, local, broker, capacity, ended>>

-----------------------------------------------------------------------------
(* The clients.                                                            *)

Move(c, place) == client' = [client EXCEPT ![c] = place]

Others == <<greeting, handling, at, local, broker, server>>

Connect(c) ==
    /\ client[c] = "out"
    /\ Move(c, "connecting")
    /\ UNCHANGED <<learned, Others>>

\* ClientSession::new: reads what was sent and stops the stream.  From then on
\* the client heartbeats, whether or not it is registered yet.
Read(c) ==
    /\ client[c] = "connected"
    /\ greeting[c] # NoSession
    /\ Move(c, "told")
    /\ learned' = [learned EXCEPT ![c] = greeting[c]]
    /\ UNCHANGED Others

\* It closes the connection, crashes or times out.
Leave(c) ==
    /\ client[c] \in {"connecting", "connected", "told"}
    /\ Move(c, "gone")
    /\ UNCHANGED <<learned, Others>>

\* Every client has come and been handled, or the loop is no more.
Rest ==
    /\ \/ panicked
       \/ (at = "accept" /\ \A c \in Clients : client[c] \notin {"out", "connecting"})
    /\ UNCHANGED vars

Loop == Connected \/ NextPlayerIndex \/ AllocateSessionId \/ Greet \/ Stopped \/ Register

Next ==
    \/ \E c \in Clients : Accept(c)
    \/ Loop
    \/ \E c \in Clients : Connect(c) \/ Read(c) \/ Leave(c)
    \/ Rest

\* The loop goes on, as its awaits end: with a client that neither answers nor
\* leaves the connection times out.
Fairness == WF_vars(Loop) /\ \A c \in Clients : WF_vars(Accept(c))

Spec == Init /\ [][Next]_vars /\ Fairness

-----------------------------------------------------------------------------
\* No two sessions share a player index, however many handshakes failed in
\* between, and no two clients learn the same session id.
Distinct ==
    /\ \A e, f \in playerSessions : e[1] = f[1] \/ e[2] = f[2] => e = f
    /\ \A c, d \in Clients : learned[c] = learned[d] => c = d \/ learned[c] = NoSession

\* A registered session is known to the broker, whose factories the Server's
\* tasks call with its id ("Unknown Session ID", broker.rs:108,136), and its
\* client learns no other, before or after it is registered.
RegisteredIsKnown ==
    \A e \in sessions :
        /\ \E p \in Players : <<e[1], p>> \in playerSessions
        /\ learned[e[2]] \in {e[1], NoSession}

\* If the configured capacity is enough for the players the broker admits, the
\* Server has room for every session it is given, however many handshakes fail
\* (server.rs:54): the loop panics after a task has ended, or because the capacity
\* is smaller and used up.
RoomForAll ==
    panicked => \/ ended # {}
                \/ capacity < MaxPlayers /\ Cardinality(sessions) = capacity
=============================================================================
