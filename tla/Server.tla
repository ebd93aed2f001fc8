------------------------------- MODULE Server -------------------------------
(***************************************************************************)
(* server.rs: the Server, its calls register and unregister, and the tasks *)
(* it was built with, each behind a flume channel.                         *)
(* A task is what its event loop makes of it: the ids it holds a session   *)
(* for (poll_server_session_events of ClientToServerReceiver and           *)
(* ServerToClientSender); the modules of those names have the rest.        *)
(*                                                                         *)
(* register and unregister take &mut self, so one call runs at a time, but *)
(* they tell the tasks one by one while the tasks run.  The caller never   *)
(* registers an id that is registered: SessionBroker draws ids from a      *)
(* counter (server-cli broker.rs:48).  It may unregister an id that is     *)
(* not, which panics.                                                      *)
(***************************************************************************)
EXTENDS Integers, Sequences, FiniteSets

CONSTANTS
    SessionIds,
    TaskCount,    \* tasks the Server was built with, in the order of session_senders
    MapCapacity,  \* capacity() of the sessions map: at least the session_capacity asked for
    MaxCalls      \* bound on the calls of register and unregister

Tasks == 1 .. TaskCount

VARIABLES
    sessions,  \* Server.sessions
    call,      \* the call in progress: empty, or one event and the task to send it to next
    calls,     \* calls made
    panicked,  \* whether a call has panicked, which ends the caller
    queue,     \* the channel to each task
    known,     \* the keys of each task's session_id_to_session_map
    alive      \* whether a task still runs: its Receiver end is not dropped

vars == <<sessions, call, calls, panicked, queue, known, alive>>

Events == [id : SessionIds, connects : BOOLEAN]

TypeOK ==
    /\ sessions \in SUBSET SessionIds
    /\ call \in SUBSET [event : Events, next : 1 .. TaskCount + 1]
    /\ calls \in 0 .. MaxCalls
    /\ panicked \in BOOLEAN
    /\ queue \in [Tasks -> Seq(Events)]
    /\ known \in [Tasks -> SUBSET SessionIds]
    /\ alive \in [Tasks -> BOOLEAN]

Init ==
    /\ sessions = {}
    /\ call = {}
    /\ calls = 0
    /\ panicked = FALSE
    /\ queue = [t \in Tasks |-> <<>>]
    /\ known = [t \in Tasks |-> {}]
    /\ alive = [t \in Tasks |-> TRUE]

-----------------------------------------------------------------------------
(* The caller's thread.                                                    *)

MayCall == ~panicked /\ call = {} /\ calls < MaxCalls

Begin(event) ==
    /\ call' = {[event |-> event, next |-> 1]}
    /\ calls' = calls + 1

\* register: the session is in the map before any task hears of it.
BeginRegister(id) ==
    /\ MayCall
    /\ id \notin sessions
    /\ IF Cardinality(sessions) < MapCapacity
       THEN /\ sessions' = sessions \cup {id}
            /\ Begin([id |-> id, connects |-> TRUE])
            /\ UNCHANGED panicked
       ELSE /\ panicked' = TRUE
            /\ UNCHANGED <<sessions, call, calls>>
    /\ UNCHANGED <<queue, known, alive>>

\* unregister: the session must be in the map, and stays in it until every task
\* was told.
BeginUnregister(id) ==
    /\ MayCall
    /\ IF id \in sessions
       THEN Begin([id |-> id, connects |-> FALSE]) /\ UNCHANGED panicked
       ELSE panicked' = TRUE /\ UNCHANGED <<call, calls>>
    /\ UNCHANGED <<sessions, queue, known, alive>>

\* Mutant: a task that has an event waiting is not sent another.
SendEventOnce(c) ==
    /\ ~panicked
    /\ c.next \in Tasks
    /\ IF alive[c.next]
       THEN /\ queue' = IF queue[c.next] = <<>>
                        THEN [queue EXCEPT ![c.next] = <<c.event>>]
                        ELSE queue
            /\ call' = {[c EXCEPT !.next = @ + 1]}
            /\ UNCHANGED panicked
       ELSE /\ panicked' = TRUE
            /\ UNCHANGED <<queue, call>>
    /\ UNCHANGED <<sessions, calls, known, alive>>

\* Mutant: the channels hold one event, and a full one is not waited for.
SendEventBounded(c) ==
    /\ ~panicked
    /\ c.next \in Tasks
    /\ IF alive[c.next] /\ queue[c.next] = <<>>
       THEN /\ queue' = [queue EXCEPT ![c.next] = Append(@, c.event)]
            /\ call' = {[c EXCEPT !.next = @ + 1]}
            /\ UNCHANGED panicked
       ELSE /\ panicked' = TRUE
            /\ UNCHANGED <<queue, call>>
    /\ UNCHANGED <<sessions, calls, known, alive>>

\* send(..).unwrap(): sending to a task that has ended panics, and the tasks
\* after it are not told.
SendEvent(c) ==
    /\ ~panicked
    /\ c.next \in Tasks
    /\ IF alive[c.next]
       THEN /\ queue' = [queue EXCEPT ![c.next] = Append(@, c.event)]
            /\ call' = {[c EXCEPT !.next = @ + 1]}
            /\ UNCHANGED panicked
       ELSE /\ panicked' = TRUE
            /\ UNCHANGED <<queue, call>>
    /\ UNCHANGED <<sessions, calls, known, alive>>

\* Mutant: an unregistered session stays in the map.
FinishCallKept(c) ==
    /\ ~panicked
    /\ c.next = TaskCount + 1
    /\ call' = {}
    /\ UNCHANGED <<sessions, calls, panicked, queue, known, alive>>

FinishCall(c) ==
    /\ ~panicked
    /\ c.next = TaskCount + 1
    /\ call' = {}
    /\ sessions' = IF c.event.connects THEN sessions ELSE sessions \ {c.event.id}
    /\ UNCHANGED <<calls, panicked, queue, known, alive>>

-----------------------------------------------------------------------------
(* A task's thread.                                                        *)

\* "Duplicate Session ID" and "Unknown Session ID" are the other two cases.
Fits(ids, event) == event.connects <=> event.id \notin ids

\* Mutant: a task keeps the id of a session that is gone.
AfterKept(ids, event) == ids \cup {event.id}

After(ids, event) ==
    IF event.connects THEN ids \cup {event.id} ELSE ids \ {event.id}

\* One event of poll_server_session_events.
HandleEvent(t) ==
    /\ alive[t]
    /\ queue[t] # <<>>
    /\ LET event == Head(queue[t]) IN
       IF Fits(known[t], event)
       THEN /\ known' = [known EXCEPT ![t] = After(@, event)]
            /\ UNCHANGED alive
       ELSE /\ alive' = [alive EXCEPT ![t] = FALSE]
            /\ UNCHANGED known
    /\ queue' = [queue EXCEPT ![t] = Tail(@)]
    /\ UNCHANGED <<sessions, call, calls, panicked>>

\* A Source, a Sink or expect("send_to failure") panics, or the runtime's
\* cancellation token is cancelled.
TaskEnds(t) ==
    /\ alive[t]
    /\ alive' = [alive EXCEPT ![t] = FALSE]
    /\ UNCHANGED <<sessions, call, calls, panicked, queue, known>>

Next ==
    \/ \E id \in SessionIds : BeginRegister(id) \/ BeginUnregister(id)
    \/ \E c \in call : SendEvent(c) \/ FinishCall(c)
    \/ \E t \in Tasks : HandleEvent(t) \/ TaskEnds(t)

Spec == Init /\ [][Next]_vars

-----------------------------------------------------------------------------
\* The sessions task t has been told of: those of the map, but for the call in
\* progress, or the one that panicked, as far as it has not reached t yet
\* (registering) or has passed t already (unregistering).
Announced(t) ==
    sessions \ {c.event.id : c \in {d \in call : d.event.connects <=> d.next <= t}}

\* The event loops never meet a duplicate or an unknown session id
\* (client_to_server_receiver.rs:121,128; server_to_client_sender.rs:117,124).
NoEventPanic ==
    \A t \in Tasks : alive[t] /\ queue[t] # <<>> => Fits(known[t], Head(queue[t]))

\* A running task and the Server never disagree about a session except by the
\* events still in the channel and the call in progress: also after a call that
\* panicked half way (server.rs:52-77).
Agree ==
    \A t \in Tasks, id \in SessionIds :
        LET waiting == {i \in DOMAIN queue[t] : queue[t][i].id = id}
            last    == CHOOSE i \in waiting : \A j \in waiting : j <= i
        IN  alive[t] =>
                (id \in Announced(t) <=> IF waiting = {} THEN id \in known[t]
                                                         ELSE queue[t][last].connects)

\* Each channel is what the tasks rely on.
Channel(t) ==
    INSTANCE SessionEvents WITH announced <- Announced(t), events <- queue[t]

TasksTold ==
    /\ \A t \in Tasks : Channel(t)!EventsInit
    /\ [][\A t \in Tasks : [Channel(t)!EventsNext]_(Channel(t)!eventVars)]_vars

\* Once the calls cease, every task holds exactly the registered sessions, unless
\* it has ended or a call has panicked before it reached the task.
Converges == <>[](\A t \in Tasks : known[t] = sessions \/ ~alive[t] \/ panicked)
=============================================================================
