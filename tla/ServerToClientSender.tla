------------------------ MODULE ServerToClientSender ------------------------
(***************************************************************************)
(* server/server_to_client_sender.rs: the task that sends every session's  *)
(* state to the address its client's last heartbeat came from.  What a     *)
(* Sender puts in a datagram, and when it has none, is module Sender; here *)
(* any session may have one at any poll.                                   *)
(*                                                                         *)
(* A poll empties the event channel, then reads heartbeats until there are *)
(* none, then polls the Sender of each session in the arena.  Heartbeats   *)
(* and addresses are as in module ClientToServerReceiver, except that the  *)
(* client has one socket, and a heartbeat of another size than a session   *)
(* id is read and ignored.                                                 *)
(***************************************************************************)
EXTENDS SessionEvents

CONSTANTS
    Addrs,        \* socket addresses
    NoAddr,       \* None
    NoIndex,      \* the index of an id without a session
    FirstAddr,    \* the address a client's socket starts with
    Reach,        \* the addresses a NAT may give the client's socket
    MaxInserted,  \* bound on the sessions connected
    MaxRebinds    \* bound on the changes of address

ASSUME AddressAssumption ==
    /\ Reach \in [SessionIds -> SUBSET Addrs]
    /\ FirstAddr \in [SessionIds -> Addrs]
    /\ \A id \in SessionIds : FirstAddr[id] \in Reach[id]
    /\ NoAddr \notin Addrs
    /\ NoIndex \notin Nat
    /\ MaxInserted \in Nat
    /\ MaxRebinds \in Nat

VARIABLES
    sessions,    \* the arena: whose Source each index in use has, and its socket_addr
    inserted,    \* sessions ever put in the arena, whose indices are never used again
    byId,        \* session_id_to_session_map
    phase,       \* where in poll the task is
    panicked,    \* which expect or index has failed, which ends the task, or "no"
    yields,      \* the ids whose Sender, if there is one, yields a datagram when polled
    targets,     \* what the last poll_sessions sent: whose state to which address
    clientAddr,  \* the address each client's socket has
    stale,       \* heartbeats sent from addresses since lost and still in flight
    rebinds      \* changes of address

table   == <<sessions, inserted, byId>>
network == <<clientAddr, stale, rebinds>>
sent    == <<yields, targets>>
vars    == <<eventVars, table, phase, panicked, sent, network>>

Heartbeats == [id : SessionIds, addr : Addrs]

TypeOK ==
    /\ announced \in SUBSET SessionIds
    /\ events \in Seq(Events)
    /\ inserted \in Nat
    /\ DOMAIN sessions \in SUBSET Nat
    /\ \A i \in DOMAIN sessions :
          i < inserted /\ sessions[i] \in [id : SessionIds, addr : Addrs \cup {NoAddr}]
    /\ byId \in [SessionIds -> Nat \cup {NoIndex}]
    /\ phase \in {"events", "addresses", "sessions"}
    /\ panicked \in {"no", "lookup", "send_to"}
    /\ yields \in SUBSET SessionIds
    /\ targets \in SUBSET Heartbeats
    /\ clientAddr \in [SessionIds -> Addrs]
    /\ stale \in SUBSET Heartbeats
    /\ rebinds \in Nat

Init ==
    /\ EventsInit
    /\ sessions = <<>>
    /\ inserted = 0
    /\ byId = [id \in SessionIds |-> NoIndex]
    /\ phase = "events"
    /\ panicked = "no"
    /\ yields = {}
    /\ targets = {}
    /\ clientAddr = FirstAddr
    /\ stale = {}
    /\ rebinds = 0

-----------------------------------------------------------------------------
(* The task.                                                               *)

Panic == panicked' = "lookup" /\ UNCHANGED table

\* Mutant: an index is used again.
ConnectReusing(id) ==
    IF byId[id] = NoIndex
    THEN /\ sessions' = [i \in DOMAIN sessions \cup {0} |->
                            IF i = 0 THEN [id |-> id, addr |-> NoAddr] ELSE sessions[i]]
         /\ byId' = [byId EXCEPT ![id] = 0]
         /\ inserted' = inserted + 1
         /\ UNCHANGED panicked
    ELSE Panic

Connect(id) ==
    IF byId[id] = NoIndex
    THEN /\ sessions' = [i \in DOMAIN sessions \cup {inserted} |->
                            IF i = inserted THEN [id |-> id, addr |-> NoAddr]
                                            ELSE sessions[i]]
         /\ inserted' = inserted + 1
         /\ byId' = [byId EXCEPT ![id] = inserted]
         /\ UNCHANGED panicked
    ELSE Panic  \* "Duplicate Session ID"

\* Mutant: the session stays in the arena.
DisconnectKept(id) ==
    /\ byId' = [byId EXCEPT ![id] = NoIndex]
    /\ UNCHANGED <<sessions, inserted, panicked>>

\* Mutant: the id stays in the map.
DisconnectMapped(id) ==
    /\ sessions' = [i \in DOMAIN sessions \ {byId[id]} |-> sessions[i]]
    /\ UNCHANGED <<byId, inserted, panicked>>

Disconnect(id) ==
    IF byId[id] # NoIndex
    THEN /\ byId' = [byId EXCEPT ![id] = NoIndex]
         /\ sessions' = [i \in DOMAIN sessions \ {byId[id]} |-> sessions[i]]
         /\ UNCHANGED <<inserted, panicked>>
    ELSE Panic  \* "Unknown Session ID"

HandleEvent ==
    /\ panicked = "no"
    /\ phase = "events"
    /\ TakeEvent
    /\ LET event == Head(events) IN
       IF event.connects THEN Connect(event.id) ELSE Disconnect(event.id)
    /\ UNCHANGED <<phase, sent, network>>

EventsDone ==
    /\ panicked = "no"
    /\ phase = "events"
    /\ events = <<>>
    /\ phase' = "addresses"
    /\ UNCHANGED <<eventVars, table, panicked, sent, network>>

Current  == {[id |-> id, addr |-> clientAddr[id]] : id \in SessionIds}
InFlight == Current \cup stale

\* Mutant: only the first heartbeat of a client counts.
MapAddrOnce(h, index) ==
    sessions' = [sessions EXCEPT ![index].addr = IF @ = NoAddr THEN h.addr ELSE @]

MapAddr(h, index) == sessions' = [sessions EXCEPT ![index].addr = h.addr]

HandleHeartbeat(h) ==
    /\ panicked = "no"
    /\ phase = "addresses"
    /\ h \in InFlight
    /\ LET index == byId[h.id] IN
       IF index = NoIndex
       THEN UNCHANGED <<table, panicked>>
       ELSE IF index \in DOMAIN sessions
       THEN MapAddr(h, index) /\ UNCHANGED <<inserted, byId, panicked>>
       ELSE Panic
    /\ UNCHANGED <<eventVars, phase, sent, network>>

AddressesDone ==
    /\ panicked = "no"
    /\ phase = "addresses"
    /\ phase' = "sessions"
    /\ UNCHANGED <<eventVars, table, panicked, sent, network>>

\* What is sent if the Senders of "some" yield datagrams: what one yields for a
\* client not heard of yet is lost.
Datagrams(some) ==
    {sessions[i] : i \in {j \in DOMAIN sessions :
                             sessions[j].id \in some /\ sessions[j].addr # NoAddr}}

\* Every Sender is polled, and each datagram is sent by every socket.
PollSessions ==
    /\ panicked = "no"
    /\ phase = "sessions"
    /\ yields' \in SUBSET SessionIds
    /\ targets' = Datagrams(yields')
    /\ phase' = "events"
    /\ UNCHANGED <<eventVars, table, panicked, network>>

\* A socket cannot send a datagram: some of the others were sent before, and
\* the task ends ("send_to failure").
SendFails ==
    /\ panicked = "no"
    /\ phase = "sessions"
    /\ yields' \in SUBSET SessionIds
    /\ Datagrams(yields') # {}
    /\ targets' \in SUBSET Datagrams(yields')
    /\ panicked' = "send_to"
    /\ UNCHANGED <<eventVars, table, phase, network>>

-----------------------------------------------------------------------------
(* Its surroundings.                                                       *)

Announce ==
    /\ \E id \in SessionIds :
          \/ AnnounceConnected(id) /\ inserted + Len(events) < MaxInserted
          \/ AnnounceDisconnected(id)
    /\ UNCHANGED <<table, phase, panicked, sent, network>>

Rebind(id) ==
    /\ rebinds < MaxRebinds
    /\ \E a \in Reach[id] :
          /\ \A other \in SessionIds : clientAddr[other] # a
          /\ clientAddr' = [clientAddr EXCEPT ![id] = a]
    /\ stale' = stale \cup {[id |-> id, addr |-> clientAddr[id]]}
    /\ rebinds' = rebinds + 1
    /\ UNCHANGED <<eventVars, table, phase, panicked, sent>>

Expire(h) ==
    /\ h \in stale
    /\ stale' = stale \ {h}
    /\ UNCHANGED <<eventVars, table, phase, panicked, sent, clientAddr, rebinds>>

\* The task has ended, and all around it may stop.
Over == panicked # "no" /\ UNCHANGED vars

Next ==
    \/ HandleEvent \/ EventsDone
    \/ \E h \in InFlight : HandleHeartbeat(h)
    \/ AddressesDone \/ PollSessions \/ SendFails
    \/ Announce
    \/ \E id \in SessionIds : Rebind(id)
    \/ \E h \in stale : Expire(h)
    \/ Over

\* As for the receiving task.
Fairness ==
    /\ WF_vars(HandleEvent \/ EventsDone)
    /\ WF_vars(AddressesDone)
    /\ WF_vars(PollSessions \/ SendFails)
    /\ \A id \in SessionIds : SF_vars(\E h \in Current : h.id = id /\ HandleHeartbeat(h))
    /\ WF_vars(\E h \in stale : Expire(h))

Spec == Init /\ [][Next]_vars /\ Fairness

-----------------------------------------------------------------------------
\* No event and no heartbeat makes the task fail: an id in the map has its
\* session in the arena (lines 117, 124, 150).
NoPanic == panicked # "lookup"

\* The arena and the map hold the same sessions, so a session whose end was
\* handled is not sent to again (lines 119-126, 158-172).
NoOrphans ==
    \A i \in DOMAIN sessions :
        byId[sessions[i].id] = i

TablesAgree == TypeOK /\ NoOrphans

\* What is sent of a session goes to an address its own client may have, and to
\* one address only, across rebinding, reconnecting and late heartbeats.
SentToOwner ==
    \A t \in targets :
        /\ t.addr \in Reach[t.id]
        /\ \A u \in targets : u.id = t.id => u.addr = t.addr

\* A client is sent what its Sender yields at the address it has, if it is
\* connected, and is not sent to otherwise.
Served(id) ==
    \A a \in Addrs :
        [id |-> id, addr |-> a] \in targets <=>
            id \in announced \cap yields /\ a = clientAddr[id]

\* Once addresses and sessions stay as they are, every connected client, and
\* none but those, is sent whatever its Sender yields, at the address it has,
\* for good: unless a socket fails to send to one of them (lines 155-173).
Settles == \A id \in SessionIds : <>[](Served(id) \/ panicked = "send_to")
=============================================================================
