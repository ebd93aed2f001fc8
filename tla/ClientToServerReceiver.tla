----------------------- MODULE ClientToServerReceiver -----------------------
(***************************************************************************)
(* server/client_to_server_receiver.rs: the task that finds out from which *)
(* socket addresses each client's three mirrored sockets write, and hands  *)
(* every datagram to the Receiver of the session its source address is     *)
(* mapped to.  What a Receiver does with it is module Receiver.            *)
(*                                                                         *)
(* A poll empties the event channel, then reads heartbeats until there are *)
(* none, then datagrams until there are none.  Arrivals and the Server go  *)
(* on meanwhile, so each event, heartbeat and datagram is a step.          *)
(*                                                                         *)
(* A client writes continually from the addresses its sockets have.  A NAT *)
(* may give a socket another address at any time (Rebind); what was sent   *)
(* from the old one stays in flight until it expires, and the old address  *)
(* may be given to another socket.  What is in flight arrives in any       *)
(* order, repeatedly or never.  A heartbeat or a datagram of a wrong size, *)
(* or with a mirroring that does not exist, is read and ignored.           *)
(***************************************************************************)
EXTENDS SessionEvents

CONSTANTS
    Mirrorings,   \* Mirroring: one client socket each
    Addrs,        \* socket addresses
    NoAddr,       \* a socket address not heard of yet
    NoIndex,      \* the index of an id without a session
    FirstAddr,    \* the address a client's socket starts with
    Reach,        \* the addresses a NAT may give the client's sockets
    MaxInserted,  \* bound on the sessions connected
    MaxRebinds    \* bound on the changes of address

ASSUME AddressAssumption ==
    /\ FirstAddr \in [SessionIds -> [Mirrorings -> Addrs]]
    /\ Reach \in [SessionIds -> SUBSET Addrs]
    /\ NoAddr \notin Addrs
    /\ NoIndex \notin Nat
    /\ MaxInserted \in Nat
    /\ MaxRebinds \in Nat

VARIABLES
    sessions,    \* the arena: socket_addrs of the session at each index in use
    inserted,    \* sessions ever put in the arena, whose indices are never used again
    byId,        \* session_id_to_session_map
    byAddr,      \* socket_addr_to_session_map
    phase,       \* where in poll the task is
    panicked,    \* whether an unwrap or expect has failed, which ends the task
    clientAddr,  \* the address each client socket has
    stale,       \* what was sent from addresses since lost and is still in flight
    rebinds      \* changes of address

table   == <<sessions, inserted, byId, byAddr>>
network == <<clientAddr, stale, rebinds>>
vars    == <<eventVars, table, phase, panicked, network>>

\* Heartbeats and datagrams: whose they are, and the source address recv_from
\* returns.  Only a heartbeat says whose it is.
Packets == [id : SessionIds, mirroring : Mirrorings, addr : Addrs]

Indices == Nat

TypeOK ==
    /\ announced \in SUBSET SessionIds
    /\ events \in Seq(Events)
    /\ inserted \in Nat
    /\ DOMAIN sessions \in SUBSET Indices
    /\ \A i \in DOMAIN sessions :
          i < inserted /\ sessions[i] \in [Mirrorings -> Addrs \cup {NoAddr}]
    /\ byId \in [SessionIds -> Indices \cup {NoIndex}]
    /\ byAddr \in [Addrs -> Indices \cup {NoIndex}]
    /\ phase \in {"events", "addresses", "datagrams"}
    /\ panicked \in BOOLEAN
    /\ clientAddr \in [SessionIds -> [Mirrorings -> Addrs]]
    /\ stale \in SUBSET Packets
    /\ rebinds \in Nat

Init ==
    /\ EventsInit
    /\ sessions = <<>>
    /\ inserted = 0
    /\ byId = [id \in SessionIds |-> NoIndex]
    /\ byAddr = [a \in Addrs |-> NoIndex]
    /\ phase = "events"
    /\ panicked = FALSE
    /\ clientAddr = FirstAddr
    /\ stale = {}
    /\ rebinds = 0

-----------------------------------------------------------------------------
(* The task, poll_server_session_events.                                   *)

Panic == panicked' = TRUE /\ UNCHANGED table

NewSession == [m \in Mirrorings |-> NoAddr]

\* Mutant: an index is used again.
ConnectReusing(id) ==
    IF byId[id] = NoIndex
    THEN /\ sessions' = [i \in DOMAIN sessions \cup {0} |->
                            IF i = 0 THEN NewSession ELSE sessions[i]]
         /\ byId' = [byId EXCEPT ![id] = 0]
         /\ inserted' = inserted + 1
         /\ UNCHANGED <<byAddr, panicked>>
    ELSE Panic

Connect(id) ==
    IF byId[id] = NoIndex
    THEN /\ sessions' = [i \in DOMAIN sessions \cup {inserted} |->
                            IF i = inserted THEN NewSession ELSE sessions[i]]
         /\ inserted' = inserted + 1
         /\ byId' = [byId EXCEPT ![id] = inserted]
         /\ UNCHANGED <<byAddr, panicked>>
    ELSE Panic  \* "Duplicate Session ID"

AddrsOf(session) == {session[m] : m \in Mirrorings} \ {NoAddr}

\* Mutant: the addresses of a session that is gone stay mapped.
ForgetNothing(session) == byAddr

Forget(session) == [a \in Addrs |-> IF a \in AddrsOf(session) THEN NoIndex ELSE byAddr[a]]

Disconnect(id) ==
    LET index == byId[id] IN
    IF index \in DOMAIN sessions
    THEN /\ byId' = [byId EXCEPT ![id] = NoIndex]
         /\ sessions' = [i \in DOMAIN sessions \ {index} |-> sessions[i]]
         /\ byAddr' = Forget(sessions[index])
         /\ UNCHANGED <<inserted, panicked>>
    ELSE Panic  \* "Unknown Session ID", or the unwrap after it

HandleEvent ==
    /\ ~panicked
    /\ phase = "events"
    /\ TakeEvent
    /\ LET event == Head(events) IN
       IF event.connects THEN Connect(event.id) ELSE Disconnect(event.id)
    /\ UNCHANGED <<phase, network>>

EventsDone ==
    /\ ~panicked
    /\ phase = "events"
    /\ events = <<>>
    /\ phase' = "addresses"
    /\ UNCHANGED <<eventVars, table, panicked, network>>

-----------------------------------------------------------------------------
(* The task, poll_for_client_socket_addresses.                             *)

Current ==
    {[id |-> id, mirroring |-> m, addr |-> clientAddr[id][m]] :
        id \in SessionIds, m \in Mirrorings}

InFlight == Current \cup stale

\* Mutant: the address the session had before stays mapped.
MapAddrKept(p, index) ==
    /\ sessions' = [sessions EXCEPT ![index][p.mirroring] = p.addr]
    /\ byAddr' = [byAddr EXCEPT ![p.addr] = index]

\* Mutant: the new mapping is made before the old one is removed.
MapAddrSwapped(p, index) ==
    LET old == sessions[index][p.mirroring] IN
    /\ sessions' = [sessions EXCEPT ![index][p.mirroring] = p.addr]
    /\ byAddr' = [a \in Addrs |-> IF a = old THEN NoIndex
                                  ELSE IF a = p.addr THEN index
                                  ELSE byAddr[a]]

\* The session's old address for the mirroring is unmapped, whichever session
\* it is mapped to by now: another client that has been given the address is not
\* heard until its next heartbeat.
MapAddr(p, index) ==
    LET old == sessions[index][p.mirroring] IN
    /\ sessions' = [sessions EXCEPT ![index][p.mirroring] = p.addr]
    /\ byAddr' = [a \in Addrs |-> IF a = p.addr THEN index
                                  ELSE IF a = old THEN NoIndex
                                  ELSE byAddr[a]]

HandleHeartbeat(p) ==
    /\ ~panicked
    /\ phase = "addresses"
    /\ p \in InFlight
    /\ LET index == byId[p.id] IN
       IF index = NoIndex
       THEN UNCHANGED <<table, panicked>>
       ELSE IF index \in DOMAIN sessions
       THEN MapAddr(p, index) /\ UNCHANGED <<inserted, byId, panicked>>
       ELSE Panic
    /\ UNCHANGED <<eventVars, phase, network>>

AddressesDone ==
    /\ ~panicked
    /\ phase = "addresses"
    /\ phase' = "datagrams"
    /\ UNCHANGED <<eventVars, table, panicked, network>>

-----------------------------------------------------------------------------
(* The task, poll_for_client_datagrams.                                    *)

\* The session whose Receiver is handed a datagram, if any.
Route(p) == byAddr[p.addr]

HandleDatagram(p) ==
    /\ ~panicked
    /\ phase = "datagrams"
    /\ p \in InFlight
    /\ IF Route(p) \in DOMAIN sessions \cup {NoIndex}
       THEN UNCHANGED <<table, panicked>>
       ELSE Panic
    /\ UNCHANGED <<eventVars, phase, network>>

DatagramsDone ==
    /\ ~panicked
    /\ phase = "datagrams"
    /\ phase' = "events"
    /\ UNCHANGED <<eventVars, table, panicked, network>>

-----------------------------------------------------------------------------
(* Its surroundings.                                                       *)

\* The Server tells the task of a session or of the end of one.
Announce ==
    /\ \E id \in SessionIds :
          \/ AnnounceConnected(id) /\ inserted + Len(events) < MaxInserted
          \/ AnnounceDisconnected(id)
    /\ UNCHANGED <<table, phase, panicked, network>>

\* No two sockets have an address at the same time.
Free(a) == \A id \in SessionIds, m \in Mirrorings : clientAddr[id][m] # a

Rebind(id, m) ==
    /\ rebinds < MaxRebinds
    /\ \E a \in Reach[id] : Free(a) /\ clientAddr' = [clientAddr EXCEPT ![id][m] = a]
    /\ stale' = stale \cup {[id |-> id, mirroring |-> m, addr |-> clientAddr[id][m]]}
    /\ rebinds' = rebinds + 1
    /\ UNCHANGED <<eventVars, table, phase, panicked>>

Expire(p) ==
    /\ p \in stale
    /\ stale' = stale \ {p}
    /\ UNCHANGED <<eventVars, table, phase, panicked, clientAddr, rebinds>>

Next ==
    \/ HandleEvent \/ EventsDone
    \/ \E p \in InFlight : HandleHeartbeat(p) \/ HandleDatagram(p)
    \/ AddressesDone \/ DatagramsDone
    \/ Announce
    \/ \E id \in SessionIds, m \in Mirrorings : Rebind(id, m)
    \/ \E p \in stale : Expire(p)

\* The runtime polls the task again and again, nothing stays in flight for
\* ever, and of the heartbeats a client repeats some get through.
Fairness ==
    /\ WF_vars(HandleEvent \/ EventsDone)
    /\ WF_vars(AddressesDone)
    /\ WF_vars(DatagramsDone)
    /\ \A id \in SessionIds, m \in Mirrorings :
          SF_vars(\E p \in Current : p.id = id /\ p.mirroring = m /\ HandleHeartbeat(p))
    /\ WF_vars(\E p \in stale : Expire(p))

Spec == Init /\ [][Next]_vars /\ Fairness

-----------------------------------------------------------------------------
\* No event, heartbeat or datagram makes the task fail: the indices its two
\* maps hold are those of sessions in the arena, whatever the Server and the
\* clients did in between (lines 121, 128, 129, 171, 220).
NoPanic == ~panicked

\* An address maps only to a session that has recorded it: what Disconnected
\* relies on to unmap every address of a session (lines 130-133).
NoDangling ==
    \A a \in Addrs : byAddr[a] # NoIndex =>
        /\ byAddr[a] \in DOMAIN sessions
        /\ a \in AddrsOf(sessions[byAddr[a]])

\* No session stays in the arena without an id, and no two ids share one.
NoOrphans ==
    /\ \A i \in DOMAIN sessions : \E id \in SessionIds : byId[id] = i
    /\ \A id1, id2 \in SessionIds : byId[id1] = byId[id2] => id1 = id2 \/ byId[id1] = NoIndex

\* The arena and its two maps agree, whatever the Server and the clients did in
\* between: what every lookup of the task relies on (lines 24-27).
TablesAgree == TypeOK /\ NoDangling /\ NoOrphans

\* From an address no other client can have, a datagram reaches the Receiver of
\* the session it is of or none, across rebinding, reconnecting and heartbeats
\* that arrive late (README.md:15, session-based routing).
Owns(id, a) ==
    \A other \in SessionIds \ {id} : a \notin Reach[other] \cup AddrsOf(FirstAddr[other])

RoutedToSender ==
    \A p \in InFlight : Owns(p.id, p.addr) => Route(p) \in {NoIndex, byId[p.id]}

\* Once addresses and sessions stay as they are, every socket of every
\* connected client is mapped to its session for good, even if addresses passed
\* from one client to another.
Reached(id) ==
    byId[id] # NoIndex /\ \A m \in Mirrorings : byAddr[clientAddr[id][m]] = byId[id]

Settles == \A id \in SessionIds : <>[](id \in announced => Reached(id))
=============================================================================
