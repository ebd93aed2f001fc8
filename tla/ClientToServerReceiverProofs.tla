-------------------- MODULE ClientToServerReceiverProofs --------------------
(***************************************************************************)
(* Theorems about the receiving task, for any number of sessions, sockets, *)
(* addresses, events, heartbeats and datagrams.                            *)
(***************************************************************************)
EXTENDS ClientToServerReceiver, CommonLemmas

-----------------------------------------------------------------------------
(* The inductive invariant.                                                *)

\* The ids the task holds a session for.
Held == {id \in SessionIds : byId[id] # NoIndex}

\* An id in the map has its session in the arena: the converse of NoOrphans.
Mapped == \A id \in Held : byId[id] \in DOMAIN sessions

\* The addresses the sockets of a client can have.
Own(id) == Reach[id] \cup AddrsOf(FirstAddr[id])

OwnAddresses ==
    /\ \A id \in SessionIds, m \in Mirrorings : clientAddr[id][m] \in Own(id)
    /\ \A p \in stale : p.addr \in Own(p.id)

\* An address only one client can have is mapped to its session or to none:
\* when that session ends the address is unmapped, because of NoDangling.
Exclusive ==
    \A id \in SessionIds, a \in Addrs : Owns(id, a) => byAddr[a] \in {NoIndex, byId[id]}

\* NoPanic needs the channel: what fits the task is what the Server sends next.
IInv ==
    /\ TypeOK
    /\ NoPanic
    /\ NoDangling
    /\ NoOrphans
    /\ Mapped
    /\ Leads(events, Held, announced)
    /\ OwnAddresses
    /\ Exclusive

LEMMA InitIInv == Init => IInv
  <1> SUFFICES ASSUME Init PROVE IInv
    OBVIOUS
  <1> USE AddressAssumption DEF AddressAssumption, Init, EventsInit
  <1>1. TypeOK
    <2>1. /\ DOMAIN sessions \in SUBSET Indices
          /\ \A i \in DOMAIN sessions :
                i < inserted /\ sessions[i] \in [Mirrorings -> Addrs \cup {NoAddr}]
      OBVIOUS
    <2>2. announced \in SUBSET SessionIds /\ events \in Seq(Events)
      OBVIOUS
    <2>3. byId \in [SessionIds -> Indices \cup {NoIndex}]
      OBVIOUS
    <2>4. byAddr \in [Addrs -> Indices \cup {NoIndex}]
      OBVIOUS
    <2>5. clientAddr \in [SessionIds -> [Mirrorings -> Addrs]]
      OBVIOUS
    <2> QED BY <2>1, <2>2, <2>3, <2>4, <2>5 DEF TypeOK
  <1>2. Held = {}
    BY DEF Held
  <1>3. Leads(events, Held, announced)
    BY <1>2, EmptyLeads
  <1>4. OwnAddresses
    <2> SUFFICES ASSUME NEW id \in SessionIds, NEW m \in Mirrorings
                 PROVE  FirstAddr[id][m] \in Own(id)
      BY DEF OwnAddresses
    <2>1. FirstAddr[id][m] \in Addrs
      OBVIOUS
    <2> QED BY <2>1 DEF Own, AddrsOf
  <1>5. NoPanic /\ NoDangling /\ NoOrphans /\ Mapped /\ Exclusive
    BY <1>2 DEF NoPanic, NoDangling, NoOrphans, Mapped, Exclusive
  <1> QED BY <1>1, <1>3, <1>4, <1>5 DEF IInv

-----------------------------------------------------------------------------
(* The task's steps.                                                       *)

LEMMA Types ==
    ASSUME IInv
    PROVE  /\ byId \in [SessionIds -> Nat \cup {NoIndex}]
           /\ byAddr \in [Addrs -> Nat \cup {NoIndex}]
           /\ inserted \in Nat
           /\ DOMAIN sessions \subseteq Nat
           /\ \A i \in DOMAIN sessions :
                 i < inserted /\ sessions[i] \in [Mirrorings -> Addrs \cup {NoAddr}]
           /\ NoIndex \notin Nat
           /\ NoAddr \notin Addrs
  BY AddressAssumption DEF AddressAssumption, IInv, TypeOK, Indices

\* The event at the head of the channel fits the map.
LEMMA HeadFits ==
    ASSUME IInv, HandleEvent
    PROVE  LET e == Head(events) IN
           /\ e \in Events /\ e.id \in SessionIds
           /\ e.connects <=> byId[e.id] = NoIndex
           /\ Leads(events', After(Held, e), announced)
           /\ events' \in Seq(Events)
           /\ UNCHANGED <<announced, phase, network>>
           /\ IF e.connects THEN Connect(e.id) ELSE Disconnect(e.id)
  <1> DEFINE e == Head(events)
  <1>1. events # <<>> /\ events \in Seq(Events)
    BY DEF IInv, TypeOK, HandleEvent, TakeEvent
  <1>2. e \in Events /\ Tail(events) \in Seq(Events)
    BY <1>1
  <1>3. e.id \in SessionIds /\ events \in Seq([id : SessionIds, connects : BOOLEAN])
    BY <1>1, <1>2 DEF Events
  <1>4. Held \in SUBSET SessionIds /\ announced \in SUBSET SessionIds
    BY DEF Held, IInv, TypeOK
  <1>5. Fits(Held, e) /\ Leads(Tail(events), After(Held, e), announced)
    BY <1>1, <1>3, <1>4, TailLeads DEF IInv
  <1>6. e.connects <=> byId[e.id] = NoIndex
    BY <1>3, <1>5 DEF Fits, Held
  <1> QED BY <1>2, <1>3, <1>5, <1>6 DEF HandleEvent, TakeEvent

LEMMA ConnectIInv ==
    ASSUME IInv, HandleEvent, Head(events).connects
    PROVE  IInv'
  <1> DEFINE e  == Head(events)
             id == e.id
  <1>1. /\ e \in Events /\ id \in SessionIds /\ byId[id] = NoIndex
        /\ Leads(events', After(Held, e), announced) /\ events' \in Seq(Events)
        /\ UNCHANGED <<announced, phase, network>>
        /\ Connect(id)
    BY HeadFits
  <1>2. /\ DOMAIN sessions' = DOMAIN sessions \cup {inserted}
        /\ sessions'[inserted] = NewSession
        /\ \A i \in DOMAIN sessions : sessions'[i] = sessions[i]
        /\ inserted' = inserted + 1
        /\ byId' = [byId EXCEPT ![id] = inserted]
        /\ UNCHANGED <<byAddr, panicked>>
    BY <1>1, Types DEF Connect
  <1>3. inserted \notin DOMAIN sessions
    BY Types
  <1>4. TypeOK'
    <2>1. NewSession \in [Mirrorings -> Addrs \cup {NoAddr}]
      BY DEF NewSession
    <2>2. \A i \in DOMAIN sessions' :
             i < inserted' /\ sessions'[i] \in [Mirrorings -> Addrs \cup {NoAddr}]
      BY <1>2, <2>1, Types
    <2>3. byId' \in [SessionIds -> Nat \cup {NoIndex}]
      BY <1>2, Types
    <2>4. inserted' \in Nat /\ DOMAIN sessions' \in SUBSET Nat
      BY <1>2, Types
    <2> QED BY <1>1, <1>2, <2>2, <2>3, <2>4 DEF IInv, TypeOK, Indices, network
  <1>5. Held' = After(Held, e)
    BY <1>1, <1>2, Types DEF Held, After
  <1>6. NoDangling'
    BY <1>2, <1>3 DEF IInv, NoDangling
  <1>7. NoOrphans' /\ Mapped'
    <2>1. \A other \in SessionIds : byId[other] # inserted
      BY <1>3, Types DEF IInv, Mapped, Held
    <2> QED BY <1>1, <1>2, <2>1, Types DEF IInv, NoOrphans, Mapped, Held
  <1>8. Exclusive'
    BY <1>1, <1>2, Types DEF IInv, Exclusive, Owns
  <1> QED BY <1>1, <1>2, <1>4, <1>5, <1>6, <1>7, <1>8 DEF IInv, NoPanic, OwnAddresses, network

LEMMA DisconnectIInv ==
    ASSUME IInv, HandleEvent, ~Head(events).connects
    PROVE  IInv'
  <1> DEFINE e     == Head(events)
             id    == e.id
             index == byId[id]
  <1>1. /\ e \in Events /\ id \in SessionIds /\ index # NoIndex
        /\ Leads(events', After(Held, e), announced) /\ events' \in Seq(Events)
        /\ UNCHANGED <<announced, phase, network>>
        /\ Disconnect(id)
    BY HeadFits
  <1>2. index \in DOMAIN sessions
    BY <1>1 DEF IInv, Mapped, Held
  <1>3. /\ DOMAIN sessions' = DOMAIN sessions \ {index}
        /\ \A i \in DOMAIN sessions' : sessions'[i] = sessions[i]
        /\ byId' = [byId EXCEPT ![id] = NoIndex]
        /\ byAddr' = Forget(sessions[index])
        /\ UNCHANGED <<inserted, panicked>>
    BY <1>1, <1>2 DEF Disconnect
  <1>4. /\ byAddr' \in [Addrs -> Nat \cup {NoIndex}]
        /\ \A a \in Addrs : byAddr'[a] = IF a \in AddrsOf(sessions[index]) THEN NoIndex ELSE byAddr[a]
    BY <1>3, Types DEF Forget
  <1>5. \A a \in Addrs : byAddr[a] = index => byAddr'[a] = NoIndex
    BY <1>1, <1>4 DEF IInv, NoDangling
  <1>6. TypeOK'
    <2>1. byId' \in [SessionIds -> Nat \cup {NoIndex}] /\ DOMAIN sessions' \in SUBSET Nat
      BY <1>3, Types
    <2>2. \A i \in DOMAIN sessions' :
             i < inserted' /\ sessions'[i] \in [Mirrorings -> Addrs \cup {NoAddr}]
      BY <1>3, Types
    <2> QED BY <1>1, <1>3, <1>4, <2>1, <2>2 DEF IInv, TypeOK, Indices, network
  <1>7. Held' = After(Held, e)
    BY <1>1, <1>3, Types DEF Held, After
  <1>8. NoDangling'
    BY <1>3, <1>4, <1>5 DEF IInv, NoDangling
  <1>9. NoOrphans' /\ Mapped'
    BY <1>1, <1>2, <1>3, Types DEF IInv, NoOrphans, Mapped, Held
  <1>10. Exclusive'
    BY <1>1, <1>3, <1>4, <1>5, Types DEF IInv, Exclusive, Owns
  <1> QED BY <1>1, <1>3, <1>6, <1>7, <1>8, <1>9, <1>10 DEF IInv, NoPanic, OwnAddresses, network

\* What is in flight carries an address its client's sockets can have.
LEMMA InFlightOwn ==
    ASSUME IInv, NEW p \in InFlight
    PROVE  /\ p.id \in SessionIds /\ p.mirroring \in Mirrorings /\ p.addr \in Addrs
           /\ p.addr \in Own(p.id)
  <1>1. CASE p \in Current
    BY <1>1 DEF IInv, TypeOK, OwnAddresses, Current
  <1>2. CASE p \in stale
    BY <1>2 DEF IInv, TypeOK, OwnAddresses, Packets
  <1> QED BY <1>1, <1>2 DEF InFlight

LEMMA HandleHeartbeatIInv ==
    ASSUME IInv, NEW p \in InFlight, HandleHeartbeat(p)
    PROVE  IInv'
  <1> DEFINE index == byId[p.id]
             old   == sessions[index][p.mirroring]
  <1>1. /\ p.id \in SessionIds /\ p.mirroring \in Mirrorings /\ p.addr \in Addrs
        /\ p.addr \in Own(p.id)
    BY InFlightOwn
  <1>2. UNCHANGED <<eventVars, phase, network>>
    BY DEF HandleHeartbeat
  <1>3. CASE index = NoIndex
    <2>1. UNCHANGED <<table, panicked>>
      BY <1>3 DEF HandleHeartbeat
    <2> QED BY <1>2, <2>1
            DEF IInv, TypeOK, NoPanic, NoDangling, NoOrphans, Mapped, Held, OwnAddresses, Exclusive,
                table, network, eventVars
  <1>4. CASE index # NoIndex
    <2>1. index \in DOMAIN sessions /\ index \in Nat
      BY <1>1, <1>4, Types DEF IInv, Mapped, Held
    <2>2. /\ sessions' = [sessions EXCEPT ![index][p.mirroring] = p.addr]
          /\ byAddr' = [a \in Addrs |-> IF a = p.addr THEN index
                                        ELSE IF a = old THEN NoIndex
                                        ELSE byAddr[a]]
          /\ UNCHANGED <<inserted, byId, panicked>>
      BY <1>4, <2>1 DEF HandleHeartbeat, MapAddr
    <2>3. /\ DOMAIN sessions' = DOMAIN sessions
          /\ sessions'[index] = [sessions[index] EXCEPT ![p.mirroring] = p.addr]
          /\ \A i \in DOMAIN sessions : i # index => sessions'[i] = sessions[i]
      BY <2>1, <2>2
    <2>4. sessions[index] \in [Mirrorings -> Addrs \cup {NoAddr}]
      BY <2>1, Types
    <2>5. /\ sessions'[index] \in [Mirrorings -> Addrs \cup {NoAddr}]
          /\ sessions'[index][p.mirroring] = p.addr
          /\ \A m \in Mirrorings : m # p.mirroring => sessions'[index][m] = sessions[index][m]
      BY <1>1, <2>3, <2>4
    <2>6. TypeOK'
      <3>1. byAddr' \in [Addrs -> Nat \cup {NoIndex}]
        BY <2>1, <2>2, Types
      <3>2. \A i \in DOMAIN sessions' :
               i < inserted' /\ sessions'[i] \in [Mirrorings -> Addrs \cup {NoAddr}]
        BY <2>2, <2>3, <2>5, Types
      <3> QED BY <1>2, <2>2, <2>3, <3>1, <3>2 DEF IInv, TypeOK, Indices, network, eventVars
    <2>7. NoDangling'
      <3> SUFFICES ASSUME NEW a \in Addrs, byAddr'[a] # NoIndex
                   PROVE  byAddr'[a] \in DOMAIN sessions' /\ a \in AddrsOf(sessions'[byAddr'[a]])
        BY DEF NoDangling
      <3>1. CASE a = p.addr
        <4>1. byAddr'[a] = index
          BY <2>2, <3>1
        <4>2. a \in AddrsOf(sessions'[index])
          BY <1>1, <2>5, <3>1, Types DEF AddrsOf
        <4> QED BY <2>1, <2>3, <4>1, <4>2
      <3>2. CASE a # p.addr
        <4>1. a # old /\ byAddr'[a] = byAddr[a]
          BY <2>2, <3>2
        <4>2. byAddr[a] \in DOMAIN sessions /\ a \in AddrsOf(sessions[byAddr[a]])
          BY <4>1 DEF IInv, NoDangling
        <4>3. CASE byAddr[a] = index
          <5>1. PICK m \in Mirrorings : a = sessions[index][m] /\ a # NoAddr
            BY <4>2, <4>3 DEF AddrsOf
          <5>2. m # p.mirroring /\ sessions'[index][m] = a
            BY <2>5, <4>1, <5>1
          <5>3. a \in AddrsOf(sessions'[index])
            BY <5>1, <5>2 DEF AddrsOf
          <5> QED BY <2>1, <2>3, <4>1, <4>3, <5>3
        <4>4. CASE byAddr[a] # index
          BY <2>3, <4>1, <4>2, <4>4
        <4> QED BY <4>3, <4>4
      <3> QED BY <3>1, <3>2
    <2>8. NoOrphans' /\ Mapped' /\ Held' = Held
      BY <2>2, <2>3 DEF IInv, NoOrphans, Mapped, Held
    <2>9. Exclusive'
      <3> SUFFICES ASSUME NEW id \in SessionIds, NEW a \in Addrs, Owns(id, a)
                   PROVE  byAddr'[a] \in {NoIndex, byId[id]}
        BY <2>2 DEF Exclusive, Owns
      <3>1. CASE a = p.addr
        <4>1. p.id = id
          BY <1>1, <3>1 DEF Owns, Own
        <4> QED BY <2>2, <3>1, <4>1
      <3>2. CASE a # p.addr
        BY <2>2, <3>2 DEF IInv, Exclusive
      <3> QED BY <3>1, <3>2
    <2> QED BY <1>2, <2>2, <2>6, <2>7, <2>8, <2>9 DEF IInv, NoPanic, OwnAddresses, network, eventVars
  <1> QED BY <1>3, <1>4

LEMMA HandleDatagramIInv ==
    ASSUME IInv, NEW p \in InFlight, HandleDatagram(p)
    PROVE  IInv'
  <1>1. Route(p) \in DOMAIN sessions \cup {NoIndex}
    BY InFlightOwn DEF IInv, NoDangling, Route
  <1>2. UNCHANGED vars
    BY <1>1 DEF HandleDatagram, vars
  <1> QED BY <1>2 DEF vars, table, network, eventVars, IInv, TypeOK, NoPanic, NoDangling, NoOrphans,
                      Mapped, Held, OwnAddresses, Exclusive

-----------------------------------------------------------------------------
(* The steps around it.                                                    *)

LEMMA AnnounceIInv == ASSUME IInv, Announce PROVE IInv'
  <1>1. PICK id \in SessionIds : AnnounceConnected(id) \/ AnnounceDisconnected(id)
    BY DEF Announce
  <1>2. UNCHANGED <<table, phase, panicked, network>>
    BY DEF Announce
  <1>3. /\ events \in Seq([id : SessionIds, connects : BOOLEAN])
        /\ Held \in SUBSET SessionIds /\ announced \in SUBSET SessionIds
        /\ Leads(events, Held, announced)
    BY DEF IInv, TypeOK, Events, Held
  <1>4. PICK e \in Events : /\ Fits(announced, e)
                            /\ announced' = After(announced, e)
                            /\ events' = Append(events, e)
    <2>1. Connected(id) \in Events /\ Disconnected(id) \in Events
      BY DEF Connected, Disconnected, Events
    <2> QED BY <1>1, <2>1
            DEF AnnounceConnected, AnnounceDisconnected, Connected, Disconnected, Fits, After
  <1>5. Leads(events', Held, announced')
    BY <1>3, <1>4, AppendLeads DEF Events
  <1>6. TypeOK'
    <2>1. events' \in Seq(Events) /\ announced' \in SUBSET SessionIds
      BY <1>3, <1>4 DEF Events, After
    <2> QED BY <1>2, <2>1 DEF IInv, TypeOK, table, network
  <1> QED BY <1>2, <1>5, <1>6
          DEF IInv, NoPanic, NoDangling, NoOrphans, Mapped, Held, OwnAddresses, Exclusive, table, network

LEMMA RebindIInv ==
    ASSUME IInv, NEW id \in SessionIds, NEW m \in Mirrorings, Rebind(id, m)
    PROVE  IInv'
  <1>1. PICK a \in Reach[id] : clientAddr' = [clientAddr EXCEPT ![id][m] = a]
    BY DEF Rebind
  <1>2. /\ stale' = stale \cup {[id |-> id, mirroring |-> m, addr |-> clientAddr[id][m]]}
        /\ rebinds' = rebinds + 1
        /\ UNCHANGED <<eventVars, table, phase, panicked>>
    BY DEF Rebind
  <1>3. a \in Addrs /\ clientAddr \in [SessionIds -> [Mirrorings -> Addrs]]
    BY AddressAssumption DEF IInv, TypeOK
  <1>4. clientAddr' \in [SessionIds -> [Mirrorings -> Addrs]]
    BY <1>1, <1>3
  <1>5. \A i \in SessionIds, k \in Mirrorings : clientAddr'[i][k] \in {a, clientAddr[i][k]}
                                              /\ (clientAddr'[i][k] = a /\ i # id => a = clientAddr[i][k])
    BY <1>1, <1>3
  <1>6. TypeOK'
    BY <1>2, <1>3, <1>4 DEF IInv, TypeOK, Packets, eventVars, table
  <1>7. OwnAddresses'
    BY <1>2, <1>5 DEF IInv, OwnAddresses, Own, AddrsOf
  <1> QED BY <1>2, <1>6, <1>7
          DEF IInv, NoPanic, NoDangling, NoOrphans, Mapped, Held, Exclusive, eventVars, table

LEMMA NextIInv == IInv /\ [Next]_vars => IInv'
  <1> SUFFICES ASSUME IInv, [Next]_vars PROVE IInv'
    OBVIOUS
  <1> USE DEF eventVars, table, network
  <1>1. CASE UNCHANGED vars
    BY <1>1 DEF vars, IInv, TypeOK, NoPanic, NoDangling, NoOrphans, Mapped, Held, OwnAddresses, Exclusive
  <1>2. CASE EventsDone \/ AddressesDone \/ DatagramsDone
    <2>1. /\ phase' \in {"events", "addresses", "datagrams"}
          /\ UNCHANGED <<eventVars, table, panicked, network>>
      BY <1>2 DEF EventsDone, AddressesDone, DatagramsDone
    <2>2. TypeOK'
      BY <2>1 DEF IInv, TypeOK
    <2> QED BY <2>1, <2>2
            DEF IInv, NoPanic, NoDangling, NoOrphans, Mapped, Held, OwnAddresses, Exclusive
  <1>3. ASSUME NEW p \in stale, Expire(p) PROVE IInv'
    <2>1. TypeOK'
      BY <1>3 DEF Expire, IInv, TypeOK
    <2> QED BY <1>3, <2>1
            DEF Expire, IInv, NoPanic, NoDangling, NoOrphans, Mapped, Held, OwnAddresses, Exclusive
  <1>4. CASE HandleEvent
    BY <1>4, ConnectIInv, DisconnectIInv
  <1> QED BY <1>1, <1>2, <1>3, <1>4, HandleHeartbeatIInv, HandleDatagramIInv, AnnounceIInv, RebindIInv
          DEF Next

\* Whatever events, heartbeats and datagrams the task meets, arena, maps, channel and
\* addresses agree (client_to_server_receiver.rs:106-227).
THEOREM Invariance == Spec => []IInv
  BY InitIInv, NextIInv, PTL DEF Spec

-----------------------------------------------------------------------------
(* The properties.                                                         *)

\* The arena, the map of ids and the map of addresses agree
\* (client_to_server_receiver.rs:24-27).
THEOREM TablesAlwaysAgree == Spec => []TablesAgree
  <1>1. IInv => TablesAgree
    BY DEF IInv, TablesAgree
  <1> QED BY <1>1, Invariance, PTL

\* No event, heartbeat or datagram makes the task fail
\* (client_to_server_receiver.rs:121, 128, 129, 171, 220).
THEOREM NeverPanics == Spec => []NoPanic
  <1>1. IInv => NoPanic
    BY DEF IInv
  <1> QED BY <1>1, Invariance, PTL

\* From an address no other client can have, a datagram reaches its own session
\* or none (README.md:15, session-based routing).
THEOREM AlwaysRoutedToSender == Spec => []RoutedToSender
  <1>1. IInv => RoutedToSender
    BY InFlightOwn DEF IInv, RoutedToSender, Exclusive, Route
  <1> QED BY <1>1, Invariance, PTL

-----------------------------------------------------------------------------
(***************************************************************************)
(* The safety half of Settles.  Once the surroundings rest, a client's     *)
(* heartbeats settle the tables in two rounds.  In the first, each socket  *)
(* gets its address recorded, for good, although a heartbeat may unmap an  *)
(* address that another client has been given (MapAddr).  In the second,   *)
(* each address gets mapped, for good, as no record is stale any more.     *)
(***************************************************************************)
Quiet == events = <<>> /\ stale = {}

\* No news and no change of address in this step either.
Rests == Quiet /\ UNCHANGED <<events, clientAddr>>

Recorded(id, m) == id \in Held => sessions[byId[id]][m] = clientAddr[id][m]

AllRecorded == \A id \in SessionIds, m \in Mirrorings : Recorded(id, m)

\* No two clients have an address at the same time: if so at first, for ever.
ApartIn(addrs) ==
    \A id1, id2 \in SessionIds, m1, m2 \in Mirrorings :
        addrs[id1][m1] = addrs[id2][m2] => id1 = id2

\* What handling the heartbeat of socket m of client id makes of the tables.
Refresh(id, m) ==
    /\ id \in Held
    /\ MapAddr([id |-> id, mirroring |-> m, addr |-> clientAddr[id][m]], byId[id])

LEMMA RestingStep ==
    ASSUME IInv, Rests, [Next]_vars
    PROVE  /\ UNCHANGED <<announced, byId, clientAddr, events>>
           /\ \/ UNCHANGED table
              \/ \E id \in SessionIds, m \in Mirrorings : Refresh(id, m)
  <1> USE DEF Rests, Quiet, eventVars, table, network
  <1>1. ~HandleEvent
    BY DEF HandleEvent, TakeEvent
  <1>2. ASSUME NEW p \in InFlight, HandleHeartbeat(p)
        PROVE  /\ UNCHANGED <<announced, byId, clientAddr, events>>
               /\ \/ UNCHANGED table
                  \/ \E id \in SessionIds, m \in Mirrorings : Refresh(id, m)
    <2>1. PICK id \in SessionIds, m \in Mirrorings :
              p = [id |-> id, mirroring |-> m, addr |-> clientAddr[id][m]]
      BY DEF InFlight, Current
    <2>2. p.id = id
      BY <2>1
    <2>3. CASE byId[id] = NoIndex
      BY <1>2, <2>2, <2>3 DEF HandleHeartbeat
    <2>4. CASE byId[id] # NoIndex
      <3>1. id \in Held /\ byId[id] \in DOMAIN sessions
        BY <2>4 DEF Held, IInv, Mapped
      <3>2. MapAddr(p, byId[id]) /\ UNCHANGED <<announced, byId, clientAddr, events>>
        BY <1>2, <2>2, <2>4, <3>1 DEF HandleHeartbeat
      <3>3. Refresh(id, m)
        BY <2>1, <3>1, <3>2 DEF Refresh
      <3> QED BY <3>2, <3>3
    <2> QED BY <2>3, <2>4
  <1>3. ASSUME NEW p \in InFlight, HandleDatagram(p)
        PROVE  UNCHANGED <<announced, clientAddr, events, table>>
    BY <1>3 DEF HandleDatagram, Panic
  <1>4. ~Announce
    <2>1. events \in Seq(Events)
      BY DEF IInv, TypeOK
    <2> QED BY <2>1 DEF Announce, AnnounceConnected, AnnounceDisconnected
  <1>5. ASSUME NEW id \in SessionIds, NEW m \in Mirrorings, Rebind(id, m)
        PROVE  UNCHANGED <<announced, clientAddr, events, table>>
    BY <1>5 DEF Rebind
  <1>6. CASE EventsDone \/ AddressesDone \/ DatagramsDone \/ UNCHANGED vars
    BY <1>6 DEF EventsDone, AddressesDone, DatagramsDone, vars
  <1> QED BY <1>1, <1>2, <1>3, <1>4, <1>5, <1>6 DEF Next

\* Refreshing a socket records and maps its address, and changes no other record.
LEMMA RefreshEffect ==
    ASSUME IInv, NEW id \in SessionIds, NEW m \in Mirrorings, Refresh(id, m)
    PROVE  LET old == sessions[byId[id]][m]
               new == clientAddr[id][m]
           IN  /\ sessions' \in [DOMAIN sessions -> [Mirrorings -> Addrs \cup {NoAddr}]]
               /\ \A i \in DOMAIN sessions, k \in Mirrorings :
                      sessions'[i][k] = IF i = byId[id] /\ k = m THEN new ELSE sessions[i][k]
               /\ \A a \in Addrs :
                      byAddr'[a] = IF a = new THEN byId[id] ELSE IF a = old THEN NoIndex ELSE byAddr[a]
  <1> DEFINE p     == [id |-> id, mirroring |-> m, addr |-> clientAddr[id][m]]
             index == byId[id]
  <1>1. /\ p.mirroring = m /\ p.addr = clientAddr[id][m]
        /\ MapAddr(p, index)
        /\ index \in DOMAIN sessions
    BY DEF Refresh, IInv, Mapped
  <1>2. clientAddr[id][m] \in Addrs
    BY DEF IInv, TypeOK
  <1>3. \A i \in DOMAIN sessions : sessions[i] \in [Mirrorings -> Addrs \cup {NoAddr}]
    BY Types
  <1>4. sessions' = [sessions EXCEPT ![index][m] = clientAddr[id][m]]
    BY <1>1 DEF MapAddr
  <1>5. sessions' \in [DOMAIN sessions -> [Mirrorings -> Addrs \cup {NoAddr}]]
    <2>1. DOMAIN sessions' = DOMAIN sessions
      BY <1>4
    <2> QED BY <1>1, <1>2, <1>3, <1>4, <2>1
  <1>6. \A i \in DOMAIN sessions, k \in Mirrorings :
            sessions'[i][k] = IF i = index /\ k = m THEN clientAddr[id][m] ELSE sessions[i][k]
    BY <1>1, <1>3, <1>4
  <1>7. \A a \in Addrs :
            byAddr'[a] = IF a = clientAddr[id][m] THEN index
                         ELSE IF a = sessions[index][m] THEN NoIndex ELSE byAddr[a]
    BY <1>1 DEF MapAddr
  <1> QED BY <1>5, <1>6, <1>7

\* The first round: a recorded address stays recorded.
THEOREM RecordedStays ==
    Spec => [][Rests => \A id \in SessionIds, m \in Mirrorings :
                            Recorded(id, m) => Recorded(id, m)']_vars
  <1>1. IInv /\ [Next]_vars =>
            [Rests => \A id \in SessionIds, m \in Mirrorings :
                          Recorded(id, m) => Recorded(id, m)']_vars
    <2> SUFFICES ASSUME IInv, [Next]_vars, Rests,
                        NEW id \in SessionIds, NEW m \in Mirrorings, Recorded(id, m), (id \in Held)'
                 PROVE  sessions'[byId'[id]][m] = clientAddr'[id][m]
      BY DEF Recorded
    <2>1. UNCHANGED <<byId, clientAddr>>
      BY RestingStep
    <2>2. id \in Held /\ byId[id] \in DOMAIN sessions
      BY <2>1 DEF Held, IInv, Mapped
    <2>3. CASE UNCHANGED table
      BY <2>1, <2>2, <2>3 DEF table, Recorded
    <2>4. ASSUME NEW i \in SessionIds, NEW k \in Mirrorings, Refresh(i, k)
          PROVE  sessions'[byId[id]][m] = clientAddr[id][m]
      <3>1. i \in Held
        BY <2>4 DEF Refresh
      <3>2. byId[i] = byId[id] => i = id
        BY <2>2, <3>1 DEF Held, IInv, NoOrphans
      <3> QED BY <2>2, <2>4, <3>2, RefreshEffect DEF Recorded
    <2> QED BY <2>1, <2>3, <2>4, RestingStep
  <1> QED BY <1>1, Invariance, PTL DEF Spec

LEMMA ApartAlways ==
    ASSUME ApartIn(FirstAddr)
    PROVE  Spec => []ApartIn(clientAddr)
  <1>1. Init => ApartIn(clientAddr)
    BY DEF Init
  <1>2. IInv /\ ApartIn(clientAddr) /\ [Next]_vars => ApartIn(clientAddr)'
    <2> SUFFICES ASSUME IInv, ApartIn(clientAddr), [Next]_vars PROVE ApartIn(clientAddr)'
      OBVIOUS
    <2>1. CASE UNCHANGED clientAddr
      BY <2>1 DEF ApartIn
    <2>2. ASSUME NEW id \in SessionIds, NEW m \in Mirrorings, Rebind(id, m)
          PROVE  ApartIn(clientAddr)'
      <3>1. PICK a \in Reach[id] : Free(a) /\ clientAddr' = [clientAddr EXCEPT ![id][m] = a]
        BY <2>2 DEF Rebind
      <3>2. clientAddr \in [SessionIds -> [Mirrorings -> Addrs]]
        BY DEF IInv, TypeOK
      <3>3. \A i \in SessionIds, k \in Mirrorings :
                clientAddr'[i][k] = IF i = id /\ k = m THEN a ELSE clientAddr[i][k]
        BY <3>1, <3>2
      <3> QED BY <3>1, <3>3 DEF ApartIn, Free
    <2> QED BY <2>1, <2>2
            DEF Next, vars, network, HandleEvent, EventsDone, HandleHeartbeat, HandleDatagram, AddressesDone,
                DatagramsDone, Announce, Expire
  <1> QED BY <1>1, <1>2, Invariance, PTL DEF Spec

\* The second round: when every record is right, a client that is reached stays
\* reached.
THEOREM ReachedStays ==
    ASSUME ApartIn(FirstAddr)
    PROVE  Spec => [][Rests /\ AllRecorded => \A id \in SessionIds :
                          (id \in announced => Reached(id)) => (id \in announced => Reached(id))']_vars
  <1>1. IInv /\ ApartIn(clientAddr) /\ [Next]_vars =>
            [Rests /\ AllRecorded => \A id \in SessionIds :
                (id \in announced => Reached(id)) => (id \in announced => Reached(id))']_vars
    <2> SUFFICES ASSUME IInv, ApartIn(clientAddr), [Next]_vars, Rests, AllRecorded,
                        NEW id \in SessionIds, id \in announced, Reached(id)
                 PROVE  Reached(id)'
      BY RestingStep
    <2>1. UNCHANGED <<byId, clientAddr>>
      BY RestingStep
    <2> SUFFICES ASSUME NEW m \in Mirrorings
                 PROVE  byAddr'[clientAddr[id][m]] = byId[id]
      BY <2>1 DEF Reached
    <2>2. byAddr[clientAddr[id][m]] = byId[id] /\ clientAddr[id][m] \in Addrs
      BY DEF Reached, IInv, TypeOK
    <2>3. CASE UNCHANGED table
      BY <2>2, <2>3 DEF table
    <2>4. ASSUME NEW i \in SessionIds, NEW k \in Mirrorings, Refresh(i, k)
          PROVE  byAddr'[clientAddr[id][m]] = byId[id]
      <3>1. sessions[byId[i]][k] = clientAddr[i][k]
        BY <2>4 DEF Refresh, AllRecorded, Recorded
      <3>2. clientAddr[id][m] = clientAddr[i][k] => id = i
        BY DEF ApartIn
      <3>3. \A a \in Addrs :
                byAddr'[a] = IF a = clientAddr[i][k] THEN byId[i]
                             ELSE IF a = sessions[byId[i]][k] THEN NoIndex ELSE byAddr[a]
        BY <2>4, RefreshEffect
      <3> QED BY <2>2, <3>1, <3>2, <3>3
    <2> QED BY <2>3, <2>4, RestingStep
  <1> QED BY <1>1, Invariance, ApartAlways, PTL DEF Spec
=============================================================================
