------------------------------ MODULE Lifetime ------------------------------
(***************************************************************************)
(* A Server or a Client from its builder to its end: the builder's calls   *)
(* (module Builders), build, which spawns the tasks on the runtime the     *)
(* application gave it (module Runtimes), for a Server the calls register  *)
(* and unregister (module Server), and the drop.                           *)
(*                                                                         *)
(* A Server's tasks handle its events while the runtime polls them, and    *)
(* its channel to a task is closed once the task has ended, for whatever   *)
(* reason the runtime ends it.  A call that panics unwinds its caller,     *)
(* which drops the Server.                                                 *)
(***************************************************************************)
EXTENDS Runtimes, Sequences, FiniteSets

CONSTANTS
    Programs,                          \* of Builders
    SessionIds, MapCapacity, MaxCalls  \* of Server

ASSUME LifetimeAssumption ==
    /\ MapCapacity \in Nat
    /\ MaxCalls \in Nat
    /\ \A p \in Programs : Len(p.streams) = TaskCount

VARIABLES
    program, made, outcome, ports, bound,          \* of Builders
    sessions, call, calls, panicked, queue, known  \* of Server

alive == [t \in Tasks |-> task[t] \notin Ended]

Builder == INSTANCE Builders
Library == INSTANCE Server

ASSUME ProgramsAssumption == Programs \subseteq [server : BOOLEAN, streams : Seq(Builder!Streams)]

runtimeVars == <<cancelled, task, aborted, owner, handles, runtimeType>>
builderVars == <<program, made, outcome, ports, bound>>
serverVars  == <<sessions, call, calls, panicked, queue, known>>
lifeVars    == <<runtimeVars, builderVars, serverVars>>

LifeTypeOK == TypeOK /\ Builder!TypeOK /\ Library!TypeOK

LifeInit == Init /\ Builder!Init /\ Library!Init

-----------------------------------------------------------------------------
BuilderCall ==
    /\ owner = "building"
    /\ Builder!Call
    /\ UNCHANGED <<runtimeVars, serverVars>>

Built == made = Len(program.streams)

\* Tasks are spawned when every call of the builder has returned; a failed call
\* drops the builder and with it the runtime; and nobody drops a Server that is
\* borrowed by a call, unless the call panics.
RuntimeStep ==
    /\ Next
    /\ ~Built => UNCHANGED handles
    /\ ~Built /\ outcome = "open" => UNCHANGED owner
    /\ call # {} /\ ~panicked => UNCHANGED owner
    /\ UNCHANGED <<builderVars, serverVars>>

Calling == owner = "using" /\ program.server

RegisterOrUnregister ==
    /\ Calling
    /\ UNCHANGED <<runtimeVars, builderVars>>
    /\ \E id \in SessionIds : Library!BeginRegister(id) \/ Library!BeginUnregister(id)

TellTasks ==
    /\ Calling
    /\ UNCHANGED <<runtimeVars, builderVars>>
    /\ \E c \in call : Library!SendEvent(c) \/ Library!FinishCall(c)

TaskFails(t) ==
    /\ \/ runtimeType = "thread" /\ Thread!Fail(t) /\ UNCHANGED aborted
       \/ runtimeType = "tokio" /\ Tokio!Fail(t) /\ UNCHANGED <<cancelled, aborted>>
    /\ UNCHANGED <<owner, handles, runtimeType>>

\* An event that does not fit panics in the poll.
HandleEvent(t) ==
    /\ task[t] \in {"poll", "running"}
    /\ UNCHANGED runtimeVars \/ TaskFails(t)
    /\ Library!HandleEvent(t)
    /\ UNCHANGED builderVars

LifeNext ==
    \/ BuilderCall
    \/ RuntimeStep
    \/ RegisterOrUnregister
    \/ TellTasks
    \/ \E t \in Tasks : HandleEvent(t)

\* As for the runtimes: what is built is spawned, and what cannot be built is
\* dropped.  Calls that were begun go on, ticks go on coming, and a poll looks at the
\* channel first.
LifeFairness ==
    /\ Fairness
    /\ WF_lifeVars(TellTasks)
    /\ \A t \in Tasks : SF_lifeVars(HandleEvent(t))

LifeSpec == LifeInit /\ [][LifeNext]_lifeVars /\ LifeFairness

-----------------------------------------------------------------------------
(* What module Server says of the tasks, of those that a runtime runs.     *)

\* The event loops never meet a duplicate or an unknown session id
\* (client_to_server_receiver.rs:121,128; server_to_client_sender.rs:117,124).
NoEventPanic == Library!NoEventPanic

\* A running task and the Server disagree about a session only by the events still
\* in the channel and the call in progress, also after a call that panicked half
\* way (server.rs:52-77).
Agree == Library!Agree

\* Every channel gives its task what the task relies on (server_session_event.rs).
TasksTold == Library!TasksTold

\* Once the calls cease, every task holds exactly the registered sessions, unless
\* its runtime has ended it or a call has panicked.
Converges == Library!Converges

\* A call of register or unregister that got past its assertion panics half way only
\* if somebody has cancelled the token or a task's poll has panicked
\* (server.rs:60-64,71-75): nothing else ever closes a channel.
CallsFail == panicked /\ call # {} => cancelled \/ failed # {}

\* Both builders refuse the same lists of streams (server.rs:114-126,175-196,
\* client.rs:77-84,128-131).
BuildsAlike == Builder!BuildsAlike
=============================================================================
