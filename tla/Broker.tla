------------------------------- MODULE Broker -------------------------------
(***************************************************************************)
(* broker.rs: how the command line server passes on what players send.     *)
(* The Sink of each session (ClientToServerSink) sends to the broker's     *)
(* channel and the Source of each (ServerToClientSource) receives from     *)
(* the receiver end of its player's index.  All those ends are clones of   *)
(* the one flume channel that SessionBroker::new makes, which is a queue:  *)
(* what one Source receives no other does.  Which input is which does not  *)
(* matter here: the first so many have been received, the others wait.     *)
(***************************************************************************)
EXTENDS Integers

CONSTANTS
    Players,   \* player indices
    MaxInputs  \* bound on the inputs sent

VARIABLES
    sent,      \* inputs sent to the channel
    received,  \* inputs received from it
    sinks,     \* the players whose Sink the receiving task has made
    sources    \* the players whose Source the sending task has made

vars == <<sent, received, sinks, sources>>

TypeOK ==
    /\ sent \in 0 .. MaxInputs
    /\ received \in 0 .. sent
    /\ sinks \in SUBSET Players
    /\ sources \in SUBSET Players

Init ==
    /\ sent = 0
    /\ received = 0
    /\ sinks = {}
    /\ sources = {}

\* ClientBroker::invoke
MakeSink(p) ==
    /\ sinks' = sinks \cup {p}
    /\ UNCHANGED <<sent, received, sources>>

\* ServerBroker::invoke
MakeSource(p) ==
    /\ sources' = sources \cup {p}
    /\ UNCHANGED <<sent, received, sinks>>

\* ClientToServerSink::handle
Handle(p) ==
    /\ p \in sinks
    /\ sent < MaxInputs
    /\ sent' = sent + 1
    /\ UNCHANGED <<received, sinks, sources>>

\* ServerToClientSource::poll, when there is something to receive.
Poll(p) ==
    /\ p \in sources
    /\ received < sent
    /\ received' = received + 1
    /\ UNCHANGED <<sent, sinks, sources>>
=============================================================================
