--------------------- MODULE ServerToClientSenderProofs ---------------------
(***************************************************************************)
(* Theorems about the sending task, for any number of sessions, addresses, *)
(* events and heartbeats.                                                  *)
(***************************************************************************)
EXTENDS ServerToClientSender, CommonLemmas

-----------------------------------------------------------------------------
(* The inductive invariant.                                                *)

\* The ids the task holds a session for.
Held == {id \in SessionIds : byId[id] # NoIndex}

\* An id in the map has its session in the arena: the converse of NoOrphans.
Mapped ==
    \A id \in Held : byId[id] \in DOMAIN sessions /\ sessions[byId[id]].id = id

\* Every address of a client, on its socket, in flight or kept by the task, is
\* one it can have.
OwnAddresses ==
    /\ \A id \in SessionIds : clientAddr[id] \in Reach[id]
    /\ \A h \in stale : h.addr \in Reach[h.id]
    /\ \A i \in DOMAIN sessions :
          sessions[i].addr # NoAddr => sessions[i].addr \in Reach[sessions[i].id]

\* NoPanic needs the channel: what fits the task is what the Server sends next.
IInv ==
    /\ TypeOK
    /\ NoPanic
    /\ NoOrphans
    /\ Mapped
    /\ Leads(events, Held, announced)
    /\ OwnAddresses
    /\ SentToOwner

LEMMA InitIInv == Init => IInv
  <1> SUFFICES ASSUME Init PROVE IInv
    OBVIOUS
  <1> USE AddressAssumption DEF AddressAssumption, Init, EventsInit
  <1>1. TypeOK
    <2>1. /\ DOMAIN sessions \in SUBSET Nat
          /\ \A i \in DOMAIN sessions :
                i < inserted /\ sessions[i] \in [id : SessionIds, addr : Addrs \cup {NoAddr}]
      OBVIOUS
    <2>2. announced \in SUBSET SessionIds /\ events \in Seq(Events)
      OBVIOUS
    <2>3. byId \in [SessionIds -> Nat \cup {NoIndex}] /\ clientAddr \in [SessionIds -> Addrs]
      OBVIOUS
    <2> QED BY <2>1, <2>2, <2>3 DEF TypeOK
  <1>2. Held = {}
    BY DEF Held
  <1>3. Leads(events, Held, announced)
    BY <1>2, EmptyLeads
  <1>4. NoPanic /\ NoOrphans /\ Mapped /\ OwnAddresses /\ SentToOwner
    BY <1>2 DEF NoPanic, NoOrphans, Mapped, OwnAddresses, SentToOwner
  <1> QED BY <1>1, <1>3, <1>4 DEF IInv

-----------------------------------------------------------------------------
(* The task's steps.                                                       *)

\* The event at the head of the channel fits the map, so Connect and Disconnect
\* take their first branch.
LEMMA HandleEventIInv == ASSUME IInv, HandleEvent PROVE IInv'
  <1> DEFINE e  == Head(events)
             id == e.id
  <1>1. /\ events # <<>> /\ events \in Seq([id : SessionIds, connects : BOOLEAN])
        /\ e \in Events /\ id \in SessionIds /\ Tail(events) \in Seq(Events)
    <2>1. events # <<>> /\ events \in Seq(Events)
      BY DEF IInv, TypeOK, HandleEvent, TakeEvent
    <2>2. e \in Events /\ Tail(events) \in Seq(Events)
      BY <2>1
    <2> QED BY <2>1, <2>2 DEF Events
  <1>2. Held \in SUBSET SessionIds /\ announced \in SUBSET SessionIds
    BY DEF Held, IInv, TypeOK
  <1>3. Fits(Held, e) /\ Leads(Tail(events), After(Held, e), announced)
    BY <1>1, <1>2, TailLeads DEF IInv
  <1>4. /\ events' = Tail(events)
        /\ UNCHANGED <<announced, phase, sent, network>>
        /\ IF e.connects THEN Connect(id) ELSE Disconnect(id)
    BY DEF HandleEvent, TakeEvent
  <1>5. /\ byId \in [SessionIds -> Nat \cup {NoIndex}] /\ inserted \in Nat
        /\ DOMAIN sessions \subseteq Nat
        /\ \A i \in DOMAIN sessions :
              i < inserted /\ sessions[i] \in [id : SessionIds, addr : Addrs \cup {NoAddr}]
        /\ NoIndex \notin Nat
    BY AddressAssumption DEF IInv, TypeOK
  <1>6. CASE e.connects
    <2> DEFINE new == [id |-> id, addr |-> NoAddr]
    <2>1. byId[id] = NoIndex
      BY <1>1, <1>3, <1>6 DEF Fits, Held
    <2>2. /\ DOMAIN sessions' = DOMAIN sessions \cup {inserted}
          /\ sessions'[inserted] = new
          /\ \A i \in DOMAIN sessions : sessions'[i] = sessions[i]
          /\ inserted' = inserted + 1
          /\ byId' = [byId EXCEPT ![id] = inserted]
          /\ UNCHANGED panicked
      BY <1>4, <1>5, <1>6, <2>1 DEF Connect
    <2>3. TypeOK'
      <3>1. \A i \in DOMAIN sessions' :
               i < inserted' /\ sessions'[i] \in [id : SessionIds, addr : Addrs \cup {NoAddr}]
        BY <1>1, <1>5, <2>2
      <3>2. byId' \in [SessionIds -> Nat \cup {NoIndex}]
        BY <1>5, <2>2
      <3>3. inserted' \in Nat /\ DOMAIN sessions' \in SUBSET Nat
        BY <1>5, <2>2
      <3> QED BY <1>1, <1>4, <2>2, <3>1, <3>2, <3>3 DEF IInv, TypeOK, network, sent
    <2>4. Held' = After(Held, e)
      BY <1>1, <1>5, <1>6, <2>2 DEF Held, After
    <2>5. NoOrphans' /\ Mapped'
      BY <1>1, <1>5, <2>1, <2>2 DEF IInv, NoOrphans, Mapped, Held
    <2>6. OwnAddresses' /\ SentToOwner' /\ NoPanic'
      BY <1>4, <1>5, <2>2 DEF IInv, OwnAddresses, SentToOwner, NoPanic, network, sent
    <2> QED BY <1>3, <1>4, <2>3, <2>4, <2>5, <2>6 DEF IInv
  <1>7. CASE ~e.connects
    <2>1. byId[id] # NoIndex
      BY <1>1, <1>3, <1>7 DEF Fits, Held
    <2>2. /\ DOMAIN sessions' = DOMAIN sessions \ {byId[id]}
          /\ \A i \in DOMAIN sessions' : sessions'[i] = sessions[i]
          /\ byId' = [byId EXCEPT ![id] = NoIndex]
          /\ UNCHANGED <<inserted, panicked>>
      BY <1>4, <1>7, <2>1 DEF Disconnect
    <2>3. TypeOK'
      <3>1. byId' \in [SessionIds -> Nat \cup {NoIndex}]
            /\ DOMAIN sessions' \in SUBSET Nat
        BY <1>5, <2>2
      <3> QED BY <1>1, <1>4, <1>5, <2>2, <3>1 DEF IInv, TypeOK, network, sent
    <2>4. Held' = After(Held, e)
      BY <1>1, <1>5, <1>7, <2>2 DEF Held, After
    <2>5. NoOrphans' /\ Mapped'
      BY <1>1, <1>5, <2>1, <2>2 DEF IInv, NoOrphans, Mapped, Held
    <2>6. OwnAddresses' /\ SentToOwner' /\ NoPanic'
      BY <1>4, <1>5, <2>2 DEF IInv, OwnAddresses, SentToOwner, NoPanic, network, sent
    <2> QED BY <1>3, <1>4, <2>3, <2>4, <2>5, <2>6 DEF IInv
  <1> QED BY <1>6, <1>7

\* A heartbeat in flight carries an address of its client.
LEMMA InFlightOwn ==
    ASSUME IInv, NEW h \in InFlight
    PROVE  h.id \in SessionIds /\ h.addr \in Addrs /\ h.addr \in Reach[h.id]
  BY DEF IInv, TypeOK, OwnAddresses, InFlight, Current, Heartbeats

LEMMA HandleHeartbeatIInv ==
    ASSUME IInv, NEW h \in InFlight, HandleHeartbeat(h)
    PROVE  IInv'
  <1>1. h.id \in SessionIds /\ h.addr \in Addrs /\ h.addr \in Reach[h.id]
    BY InFlightOwn
  <1>2. UNCHANGED <<eventVars, phase, sent, network>>
    BY DEF HandleHeartbeat
  <1>3. CASE byId[h.id] = NoIndex
    <2>1. UNCHANGED <<table, panicked>>
      BY <1>3 DEF HandleHeartbeat
    <2> QED BY <1>2, <2>1
            DEF IInv, TypeOK, NoPanic, NoOrphans, Mapped, Held, OwnAddresses, SentToOwner,
                table, network, eventVars, sent
  <1>4. CASE byId[h.id] # NoIndex
    <2> DEFINE index == byId[h.id]
    <2>1. index \in DOMAIN sessions /\ sessions[index].id = h.id
      BY <1>1, <1>4 DEF IInv, Mapped, Held
    <2>2. /\ sessions' = [sessions EXCEPT ![index].addr = h.addr]
          /\ UNCHANGED <<inserted, byId, panicked>>
      BY <1>4, <2>1 DEF HandleHeartbeat, MapAddr
    <2>3. \A i \in DOMAIN sessions : sessions[i] \in [id : SessionIds, addr : Addrs \cup {NoAddr}]
      BY DEF IInv, TypeOK
    <2>4. /\ DOMAIN sessions' = DOMAIN sessions
          /\ sessions'[index] = [id |-> h.id, addr |-> h.addr]
          /\ \A i \in DOMAIN sessions : i # index => sessions'[i] = sessions[i]
      BY <2>1, <2>2, <2>3
    <2>5. TypeOK'
      BY <1>1, <1>2, <2>1, <2>2, <2>4 DEF IInv, TypeOK, network, eventVars, sent
    <2>6. NoOrphans' /\ Mapped' /\ Held' = Held
      BY <2>1, <2>2, <2>4 DEF IInv, NoOrphans, Mapped, Held
    <2>7. OwnAddresses'
      BY <1>1, <1>2, <2>1, <2>4 DEF IInv, OwnAddresses, network
    <2> QED BY <1>2, <2>2, <2>5, <2>6, <2>7 DEF IInv, NoPanic, SentToOwner, eventVars, sent
  <1> QED BY <1>3, <1>4

\* A poll of the sessions sends, of each session, to the address it has at most.
LEMMA SendingIInv ==
    ASSUME IInv, yields' \in SUBSET SessionIds, targets' \in SUBSET Datagrams(yields'),
           phase' \in {"events", "sessions"}, panicked' \in {"no", "send_to"},
           UNCHANGED <<eventVars, table, network>>
    PROVE  IInv'
  <1>1. \A t \in targets' : \E i \in DOMAIN sessions : t = sessions[i] /\ sessions[i].addr # NoAddr
    BY DEF Datagrams
  <1>2. TypeOK'
    <2>1. targets' \in SUBSET Heartbeats
      <3> SUFFICES ASSUME NEW t \in targets' PROVE t \in Heartbeats
        OBVIOUS
      <3>1. PICK i \in DOMAIN sessions : t = sessions[i] /\ sessions[i].addr # NoAddr
        BY <1>1
      <3>2. sessions[i] \in [id : SessionIds, addr : Addrs \cup {NoAddr}]
        BY DEF IInv, TypeOK
      <3> QED BY <3>1, <3>2 DEF Heartbeats
    <2> QED BY <2>1 DEF IInv, TypeOK, eventVars, table, network
  <1>3. SentToOwner'
    <2> SUFFICES ASSUME NEW t \in targets'
                 PROVE  /\ t.addr \in Reach[t.id]
                        /\ \A u \in targets' : u.id = t.id => u.addr = t.addr
      BY DEF SentToOwner
    <2>1. PICK i \in DOMAIN sessions : t = sessions[i] /\ sessions[i].addr # NoAddr
      BY <1>1
    <2>2. t.addr \in Reach[t.id]
      BY <2>1 DEF IInv, OwnAddresses
    <2>3. ASSUME NEW u \in targets', u.id = t.id PROVE u.addr = t.addr
      <3>1. PICK j \in DOMAIN sessions : u = sessions[j]
        BY <1>1
      <3>2. i = j
        BY <2>1, <2>3, <3>1 DEF IInv, NoOrphans
      <3> QED BY <2>1, <3>1, <3>2
    <2> QED BY <2>2, <2>3
  <1> QED BY <1>2, <1>3
          DEF IInv, NoPanic, NoOrphans, Mapped, Held, OwnAddresses, eventVars, table, network

LEMMA PollSessionsIInv == ASSUME IInv, PollSessions \/ SendFails PROVE IInv'
  <1>1. /\ yields' \in SUBSET SessionIds
        /\ targets' \in SUBSET Datagrams(yields')
        /\ UNCHANGED <<eventVars, table, network>>
    BY DEF PollSessions, SendFails
  <1>2. phase' \in {"events", "sessions"} /\ panicked' \in {"no", "send_to"}
    BY DEF PollSessions, SendFails
  <1> QED BY <1>1, <1>2, SendingIInv

-----------------------------------------------------------------------------
(* The steps around it.                                                    *)

LEMMA AnnounceIInv == ASSUME IInv, Announce PROVE IInv'
  <1>1. PICK id \in SessionIds : AnnounceConnected(id) \/ AnnounceDisconnected(id)
    BY DEF Announce
  <1>2. UNCHANGED <<table, phase, panicked, sent, network>>
    BY DEF Announce
  <1>3. /\ events \in Seq([id : SessionIds, connects : BOOLEAN])
        /\ Held \in SUBSET SessionIds /\ announced \in SUBSET SessionIds
        /\ Leads(events, Held, announced)
    BY DEF IInv, TypeOK, Events, Held
  <1>4. PICK e \in Events : /\ Fits(announced, e)
                            /\ announced' = After(announced, e)
                            /\ events' = Append(events, e)
    <2>1. Connected(id) \in Events /\ Disconnected(id) \in Events
      BY DEF Connected, Disconnected, Events
    <2> QED BY <1>1, <2>1
            DEF AnnounceConnected, AnnounceDisconnected, Connected, Disconnected, Fits, After
  <1>5. Leads(events', Held, announced')
    BY <1>3, <1>4, AppendLeads DEF Events
  <1>6. TypeOK'
    <2>1. events' \in Seq(Events) /\ announced' \in SUBSET SessionIds
      BY <1>3, <1>4 DEF Events, After
    <2> QED BY <1>2, <2>1 DEF IInv, TypeOK, table, network, sent
  <1> QED BY <1>2, <1>5, <1>6
          DEF IInv, NoPanic, NoOrphans, Mapped, Held, OwnAddresses, SentToOwner, table, network, sent

LEMMA RebindIInv == ASSUME IInv, NEW id \in SessionIds, Rebind(id) PROVE IInv'
  <1>1. PICK a \in Reach[id] : clientAddr' = [clientAddr EXCEPT ![id] = a]
    BY DEF Rebind
  <1>2. /\ stale' = stale \cup {[id |-> id, addr |-> clientAddr[id]]}
        /\ rebinds' = rebinds + 1
        /\ UNCHANGED <<eventVars, table, phase, panicked, sent>>
    BY DEF Rebind
  <1>3. a \in Addrs /\ clientAddr \in [SessionIds -> Addrs]
    BY AddressAssumption DEF IInv, TypeOK
  <1>4. TypeOK'
    BY <1>1, <1>2, <1>3 DEF IInv, TypeOK, Heartbeats, eventVars, table, sent
  <1>5. OwnAddresses'
    BY <1>1, <1>2, <1>3 DEF IInv, OwnAddresses, table
  <1> QED BY <1>2, <1>4, <1>5
          DEF IInv, NoPanic, NoOrphans, Mapped, Held, SentToOwner, eventVars, table, sent

LEMMA NextIInv == IInv /\ [Next]_vars => IInv'
  <1> SUFFICES ASSUME IInv, [Next]_vars PROVE IInv'
    OBVIOUS
  <1> USE DEF eventVars, table, network, sent
  <1>1. CASE UNCHANGED vars
    BY <1>1 DEF vars, IInv, TypeOK, NoPanic, NoOrphans, Mapped, Held, OwnAddresses, SentToOwner
  <1>2. CASE EventsDone \/ AddressesDone
    <2>1. /\ phase' \in {"addresses", "sessions"}
          /\ UNCHANGED <<eventVars, table, panicked, sent, network>>
      BY <1>2 DEF EventsDone, AddressesDone
    <2>2. TypeOK'
      BY <2>1 DEF IInv, TypeOK
    <2> QED BY <2>1, <2>2 DEF IInv, NoPanic, NoOrphans, Mapped, Held, OwnAddresses, SentToOwner
  <1>3. ASSUME NEW h \in stale, Expire(h) PROVE IInv'
    BY <1>3 DEF Expire, IInv, TypeOK, NoPanic, NoOrphans, Mapped, Held, OwnAddresses, SentToOwner
  <1> QED BY <1>1, <1>2, <1>3, HandleEventIInv, HandleHeartbeatIInv, PollSessionsIInv,
             AnnounceIInv, RebindIInv
          DEF Next, Over

\* Whatever events and heartbeats the task meets, arena, map, channel and addresses
\* agree (server_to_client_sender.rs:103-178).
THEOREM Invariance == Spec => []IInv
  BY InitIInv, NextIInv, PTL DEF Spec

-----------------------------------------------------------------------------
(* The properties.                                                         *)

\* The arena and the map hold the same sessions
\* (server_to_client_sender.rs:119-126, 158-172).
THEOREM TablesAlwaysAgree == Spec => []TablesAgree
  <1>1. IInv => TablesAgree
    BY DEF IInv, TablesAgree
  <1> QED BY <1>1, Invariance, PTL

\* No event and no heartbeat makes the task fail
\* (server_to_client_sender.rs:117, 124, 150).
THEOREM NeverPanics == Spec => []NoPanic
  <1>1. IInv => NoPanic
    BY DEF IInv
  <1> QED BY <1>1, Invariance, PTL

\* What is sent of a session goes to one address, which its own client had.
THEOREM AlwaysSentToOwner == Spec => []SentToOwner
  <1>1. IInv => SentToOwner
    BY DEF IInv
  <1> QED BY <1>1, Invariance, PTL

-----------------------------------------------------------------------------
(* What Settles rests on but for progress: in a time without news and      *)
(* without changes of address, neither what the task learnt of a client    *)
(* nor what it then sends is undone.                                       *)

Rests == events = <<>> /\ stale = {} /\ UNCHANGED <<events, clientAddr>>

Heard(id) == id \in Held => sessions[byId[id]].addr = clientAddr[id]

AllHeard == \A id \in SessionIds : Heard(id)

LEMMA RestingStep ==
    ASSUME IInv, Rests, [Next]_vars
    PROVE  /\ UNCHANGED <<announced, byId, clientAddr, events>>
           /\ \/ UNCHANGED table
              \/ \E id \in Held : MapAddr([id |-> id, addr |-> clientAddr[id]], byId[id])
           /\ UNCHANGED sent \/ PollSessions \/ SendFails
  <1> USE DEF Rests, eventVars, table, network, sent
  <1>1. ~HandleEvent
    BY DEF HandleEvent, TakeEvent
  <1>2. ASSUME NEW h \in InFlight, HandleHeartbeat(h)
        PROVE  /\ UNCHANGED <<announced, byId, clientAddr, events, sent>>
               /\ \/ UNCHANGED table
                  \/ \E id \in Held : MapAddr([id |-> id, addr |-> clientAddr[id]], byId[id])
    <2>1. PICK id \in SessionIds : h = [id |-> id, addr |-> clientAddr[id]]
      BY DEF InFlight, Current
    <2>2. h.id = id
      BY <2>1
    <2>3. CASE byId[id] = NoIndex
      BY <1>2, <2>2, <2>3 DEF HandleHeartbeat
    <2>4. CASE byId[id] # NoIndex
      <3>1. id \in Held /\ byId[id] \in DOMAIN sessions
        BY <2>4 DEF Held, IInv, Mapped
      <3>2. MapAddr(h, byId[id]) /\ UNCHANGED <<announced, byId, clientAddr, events, sent>>
        BY <1>2, <2>2, <2>4, <3>1 DEF HandleHeartbeat
      <3> QED BY <2>1, <3>1, <3>2
    <2> QED BY <2>3, <2>4
  <1>3. ~Announce
    <2>1. events \in Seq(Events)
      BY DEF IInv, TypeOK
    <2> QED BY <2>1 DEF Announce, AnnounceConnected, AnnounceDisconnected
  <1>4. ASSUME NEW id \in SessionIds, Rebind(id)
        PROVE  UNCHANGED <<announced, clientAddr, events, table, sent>>
    BY <1>4 DEF Rebind
  <1>5. CASE EventsDone \/ AddressesDone \/ PollSessions \/ SendFails \/ Over \/ UNCHANGED vars
    BY <1>5 DEF EventsDone, AddressesDone, PollSessions, SendFails, Over, vars
  <1> QED BY <1>1, <1>2, <1>3, <1>4, <1>5 DEF Next

\* With the channel empty the task holds the sessions the Server announced.
LEMMA HeldIsAnnounced == ASSUME IInv, events = <<>> PROVE Held = announced
  BY DEF IInv, TypeOK, Held, Leads, OthersKept

\* The first round: a client heard of at its address stays so
\* (server_to_client_sender.rs:131-153).
THEOREM HeardStays == Spec => [][Rests => \A id \in SessionIds : Heard(id) => Heard(id)']_vars
  <1>1. IInv /\ [Next]_vars => [Rests => \A id \in SessionIds : Heard(id) => Heard(id)']_vars
    <2> SUFFICES ASSUME IInv, [Next]_vars, Rests, NEW id \in SessionIds, Heard(id), (id \in Held)'
                 PROVE  sessions'[byId'[id]].addr = clientAddr'[id]
      BY DEF Heard
    <2>1. UNCHANGED <<byId, clientAddr>>
      BY RestingStep
    <2>2. id \in Held /\ byId[id] \in DOMAIN sessions
      BY <2>1 DEF Held, IInv, Mapped
    <2>3. CASE UNCHANGED table
      BY <2>1, <2>2, <2>3 DEF table, Heard
    <2>4. ASSUME NEW i \in Held, MapAddr([id |-> i, addr |-> clientAddr[i]], byId[i])
          PROVE  sessions'[byId[id]].addr = clientAddr[id]
      <3>1. byId[i] = byId[id] => i = id
        BY <2>2 DEF IInv, Mapped
      <3>2. sessions' = [sessions EXCEPT ![byId[i]].addr = clientAddr[i]]
        BY <2>4 DEF MapAddr
      <3>3. \A j \in DOMAIN sessions : sessions[j] \in [id : SessionIds, addr : Addrs \cup {NoAddr}]
        BY DEF IInv, TypeOK
      <3>4. CASE i = id
        BY <2>2, <3>2, <3>3, <3>4
      <3>5. CASE i # id
        BY <2>2, <3>1, <3>2, <3>5 DEF Heard
      <3> QED BY <3>4, <3>5
    <2> QED BY <2>1, <2>3, <2>4, RestingStep
  <1> QED BY <1>1, Invariance, PTL DEF Spec

\* The second round: once every connected client was heard of, each poll of the
\* sessions that no socket fails serves every client as it should be.
LEMMA PollServes ==
    ASSUME IInv, Rests, AllHeard, PollSessions, NEW id \in SessionIds
    PROVE  Served(id)'
  <1>1. /\ targets' = Datagrams(yields')
        /\ UNCHANGED <<announced, clientAddr>>
    BY DEF PollSessions, eventVars, network
  <1>2. Held = announced
    BY HeldIsAnnounced DEF Rests
  <1>3. clientAddr[id] \in Addrs /\ NoAddr \notin Addrs
    BY AddressAssumption DEF IInv, TypeOK
  <1> SUFFICES ASSUME NEW a \in Addrs
               PROVE  [id |-> id, addr |-> a] \in targets' <=>
                          id \in announced \cap yields' /\ a = clientAddr[id]
    BY <1>1 DEF Served
  <1>4. ASSUME [id |-> id, addr |-> a] \in targets'
        PROVE  id \in announced \cap yields' /\ a = clientAddr[id]
    <2>1. PICK i \in DOMAIN sessions :
              sessions[i] = [id |-> id, addr |-> a] /\ sessions[i].id \in yields'
      BY <1>1, <1>4 DEF Datagrams
    <2>2. byId[id] = i /\ i # NoIndex
      BY <2>1, AddressAssumption DEF IInv, NoOrphans, TypeOK
    <2>3. id \in Held
      BY <2>2 DEF Held
    <2> QED BY <1>2, <2>1, <2>2, <2>3 DEF AllHeard, Heard
  <1>5. ASSUME id \in announced, id \in yields', a = clientAddr[id]
        PROVE  [id |-> id, addr |-> a] \in targets'
    <2>1. byId[id] \in DOMAIN sessions /\ sessions[byId[id]].id = id
      BY <1>2, <1>5 DEF IInv, Mapped
    <2>2. sessions[byId[id]].addr = a
      BY <1>2, <1>5 DEF AllHeard, Heard
    <2>3. sessions[byId[id]] = [id |-> id, addr |-> a]
      BY <2>1, <2>2 DEF IInv, TypeOK
    <2> QED BY <1>1, <1>3, <1>5, <2>1, <2>3 DEF Datagrams
  <1> QED BY <1>4, <1>5

\* The second round, for good: who is served as it should be stays so, whatever
\* Senders yield, unless a socket fails to send and ends the task
\* (server_to_client_sender.rs:155-173).
THEOREM ServedStays ==
    Spec => [][Rests /\ AllHeard => \A id \in SessionIds :
                   (Served(id) \/ PollSessions) => Served(id)' \/ panicked' = "send_to"]_vars
  <1>1. IInv /\ [Next]_vars =>
            [Rests /\ AllHeard => \A id \in SessionIds :
                (Served(id) \/ PollSessions) => Served(id)' \/ panicked' = "send_to"]_vars
    <2> SUFFICES ASSUME IInv, [Next]_vars, Rests, AllHeard,
                        NEW id \in SessionIds, Served(id), ~PollSessions
                 PROVE  Served(id)' \/ panicked' = "send_to"
      BY PollServes
    <2>1. CASE SendFails
      BY <2>1 DEF SendFails
    <2>2. CASE ~SendFails
      BY <2>2, RestingStep DEF Served, sent
    <2> QED BY <2>1, <2>2
  <1> QED BY <1>1, Invariance, PTL DEF Spec
=============================================================================
