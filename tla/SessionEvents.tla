--------------------------- MODULE SessionEvents ---------------------------
(***************************************************************************)
(* What a server task may rely on: the flume channel of                    *)
(* ServerSessionEvents (server_session_event.rs) from the Server to it.    *)
(* For each session id, Connected and Disconnected events are put in       *)
(* alternately, Connected first, and are taken out in order.               *)
(*                                                                         *)
(* Module Server shows that Server::register and Server::unregister keep   *)
(* to this; the task modules build on it.                                  *)
(***************************************************************************)
EXTENDS Integers, Sequences

CONSTANT SessionIds

VARIABLES
    announced,  \* the sessions the task has been told of and not told the end of
    events      \* the channel

eventVars == <<announced, events>>

Connected(id)    == [id |-> id, connects |-> TRUE]
Disconnected(id) == [id |-> id, connects |-> FALSE]
Events           == [id : SessionIds, connects : BOOLEAN]

EventsInit ==
    /\ announced = {}
    /\ events = <<>>

AnnounceConnected(id) ==
    /\ id \notin announced
    /\ announced' = announced \cup {id}
    /\ events' = Append(events, Connected(id))

AnnounceDisconnected(id) ==
    /\ id \in announced
    /\ announced' = announced \ {id}
    /\ events' = Append(events, Disconnected(id))

\* One event out of try_iter().
TakeEvent ==
    /\ events # <<>>
    /\ events' = Tail(events)
    /\ UNCHANGED announced

EventsNext ==
    \/ \E id \in SessionIds : AnnounceConnected(id) \/ AnnounceDisconnected(id)
    \/ TakeEvent

EventsSpec == EventsInit /\ [][EventsNext]_eventVars
=============================================================================
