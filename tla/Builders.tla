------------------------------ MODULE Builders ------------------------------
(***************************************************************************)
(* ServerBuilder (server.rs) and ClientBuilder (client.rs): one call for   *)
(* each stream, each of which takes the builder and returns it with one    *)
(* task more, or fails and drops it.                                       *)
(*                                                                         *)
(* A server's streams listen on the ports of their schemas, on sockets     *)
(* that the builder binds or that the application hands in                 *)
(* (sender_with_sockets, receiver_with_socket), which may share a port     *)
(* with another socket or be bound to another.  A client's sockets have    *)
(* ports of their own; the schemas' ports are where it sends to.           *)
(***************************************************************************)
EXTENDS Integers, Sequences

CONSTANT Programs  \* what the builders are called for: which builder, and the streams

VARIABLES
    program,  \* the builder's kind and the calls made of it
    made,     \* calls that have returned the builder: its tasks
    outcome,  \* whether a call has failed, and whether by the builder's own checks
    ports,    \* builder.ports
    bound     \* the ports a server's sockets are bound to

vars == <<program, made, outcome, ports, bound>>

\* A schema, with NoPort for the port of a ServerToClientSchema, and where the
\* sockets of the call come from.
NoPort  == 0
Streams == [mapperPort : Nat \ {0}, port : Nat, sockets : {"bound", "given", "mismatched"}]

PortsOf(s) == {s.mapperPort, s.port} \ {NoPort}

TypeOK ==
    /\ program \in Programs
    /\ made \in 0 .. Len(program.streams)
    /\ outcome \in {"open", "refused", "failed"}
    /\ ports \in SUBSET Nat
    /\ bound \in SUBSET Nat

Init ==
    /\ program \in Programs
    /\ made = 0
    /\ outcome = "open"
    /\ ports = {}
    /\ bound = {}

-----------------------------------------------------------------------------
Keep(newPorts, newBound) ==
    /\ made' = made + 1
    /\ ports' = ports \cup newPorts
    /\ bound' = bound \cup newBound
    /\ UNCHANGED <<program, outcome>>

Drop(why) == outcome' = why /\ UNCHANGED <<program, made, ports, bound>>

\* A port that is bound cannot be bound again, and a socket binds one port.
Binds(s) == PortsOf(s) \cap bound = {} /\ s.mapperPort # s.port

SocketsFit(s) == IF s.sockets = "bound" THEN Binds(s) ELSE s.sockets = "given"

\* ServerBuilder::sender and receiver: `ports` holds mapper ports only.
ServerCall(s) ==
    IF SocketsFit(s) /\ s.mapperPort \notin ports
    THEN Keep({s.mapperPort}, PortsOf(s))
    ELSE Drop("refused")

\* Mutant: a client looks at mapper ports only, as a server does.
ClientCallMapper(s) ==
    IF s.mapperPort \notin ports
    THEN Keep({s.mapperPort}, {})
    ELSE Drop("refused")

\* ClientBuilder::sender and receiver.
ClientCall(s) ==
    IF PortsOf(s) \cap ports = {} /\ s.mapperPort # s.port
    THEN Keep(PortsOf(s), {})
    ELSE Drop("refused")

\* A call may also fail for a reason outside the program: a port that another
\* program has bound, or a socket option.
Call ==
    /\ outcome = "open"
    /\ made < Len(program.streams)
    /\ LET s == program.streams[made + 1] IN
       \/ IF program.server THEN ServerCall(s) ELSE ClientCall(s)
       \/ Drop("failed")

-----------------------------------------------------------------------------
\* Every port of the first n streams is of one of them, and used once there.
PortsDistinct(n) ==
    \A i \in 1 .. n :
        /\ program.streams[i].mapperPort # program.streams[i].port
        /\ \A j \in 1 .. i - 1 : PortsOf(program.streams[i]) \cap PortsOf(program.streams[j]) = {}

SocketsBound == \A i \in DOMAIN program.streams : program.streams[i].sockets = "bound"

\* The two builders, which keep different sets of ports, refuse the same lists of
\* streams: those where a port comes twice.  What a server was built with, a
\* client can be built with (server.rs:91-97,114-126,155-158,175-196,
\* client.rs:77-84,128-131).
BuildsAlike ==
    SocketsBound =>
        /\ PortsDistinct(made)
        /\ outcome = "refused" => ~PortsDistinct(made + 1)
=============================================================================
