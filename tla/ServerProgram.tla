---------------------------- MODULE ServerProgram ----------------------------
(***************************************************************************)
(* The command line server: the accept loop of module Admission, the       *)
(* Server's two tasks as far as the broker's factories are concerned, and  *)
(* the broker's channel between the players (module Broker).               *)
(*                                                                         *)
(* Each task takes up a registered session at some later time: it looks    *)
(* the id up in player_sessions, under the broker's lock, and makes a Sink *)
(* or a Source for its player index (broker.rs:105-114, 133-142).  Nobody  *)
(* cancels the token in this program; a task ends by a panic.              *)
(***************************************************************************)
EXTENDS Admission

CONSTANT MaxInputs  \* bound on the inputs sent

ASSUME InputsAssumption == MaxInputs \in Nat

VARIABLES
    sent, received, sinks, sources,  \* of Broker
    failed                           \* whether a task met an "Unknown Session ID"

Channel == INSTANCE Broker

channelVars == <<sent, received, sinks, sources>>
admitVars   == <<client, greeting, learned, handling, at, local, broker, sessions, told, capacity,
                 panicked>>
programVars == <<vars, channelVars, failed>>

ProgramTypeOK == TypeOK /\ Channel!TypeOK /\ failed \in BOOLEAN

ProgramInit == Init /\ Channel!Init /\ failed = FALSE

-----------------------------------------------------------------------------
PlayersOf(id) == {p \in Players : <<id, p>> \in playerSessions}

Make(t, p) ==
    \/ t = "receiver" /\ Channel!MakeSink(p)
    \/ t = "sender" /\ Channel!MakeSource(p)

\* A task handles the Connected event of a session.
TakeUp(t, id) ==
    /\ t \notin ended
    /\ <<t, id>> \in told
    /\ IF PlayersOf(id) = {}
       THEN ended' = ended \cup {t} /\ failed' = TRUE /\ UNCHANGED channelVars
       ELSE UNCHANGED <<ended, failed>> /\ \E p \in PlayersOf(id) : Make(t, p)
    /\ UNCHANGED admitVars

\* The receiving task's poll: an input of a player goes to the channel.
Hears ==
    /\ "receiver" \notin ended
    /\ \E p \in Players : Channel!Handle(p)
    /\ UNCHANGED <<vars, failed>>

\* The sending task's poll: a Source is polled whether or not its client is still
\* there, and sending what it yields can fail.
Passes ==
    /\ "sender" \notin ended
    /\ \E p \in Players : Channel!Poll(p)
    /\ UNCHANGED <<vars, failed>>

SendFails ==
    /\ "sender" \notin ended
    /\ \E p \in Players : Channel!Poll(p)
    /\ ended' = ended \cup {"sender"}
    /\ UNCHANGED <<admitVars, failed>>

ProgramNext ==
    \/ Next /\ UNCHANGED <<channelVars, failed>>
    \/ \E t \in Tasks, id \in SessionIds : TakeUp(t, id)
    \/ Hears
    \/ Passes
    \/ SendFails

\* The tasks go on.
ProgramFairness ==
    /\ Fairness
    /\ \A t \in Tasks, id \in SessionIds : WF_programVars(TakeUp(t, id))
    /\ WF_programVars(Passes)

ProgramSpec == ProgramInit /\ [][ProgramNext]_programVars /\ ProgramFairness

-----------------------------------------------------------------------------
\* Every registered session is given a Sink and a Source: the tasks never meet an
\* "Unknown Session ID" (broker.rs:108,136), however early they hear of it, and
\* the client of a session learns no other id before or after.
TakenUp == ~failed /\ RegisteredIsKnown

Serves(c) ==
    \E id \in SessionIds, p \in Players :
        /\ <<id, c>> \in sessions /\ <<id, p>> \in playerSessions
        /\ p \in sinks \cap sources

TurnedAway(c) ==
    client[c] = "connected" /\ handling # c /\ greeting[c] = NoSession /\ freePlayers = {}

\* A client that connects is served by both tasks, unless it leaves, is turned away
\* because no player index is left, or the loop panics or will at the next
\* registration, as RoomForAll says when; other clients never hold it up for ever
\* (main.rs:174-233).
Admitted ==
    \A c \in Clients :
        client[c] = "connecting" ~>
            Serves(c) \/ client[c] = "gone" \/ TurnedAway(c) \/ ended # {} \/ panicked

\* An input that a player sends is received by some Source, also when the tasks
\* take up the player's session at different times, unless the sending task ends
\* or the loop panics, which ends the program (broker.rs:29,144-173).
PassedOn ==
    \A n \in 1 .. MaxInputs :
        sent >= n ~> received >= n \/ "sender" \in ended \/ panicked
=============================================================================
