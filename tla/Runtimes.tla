------------------------------ MODULE Runtimes ------------------------------
(***************************************************************************)
(* The runtime a program has chosen: the command line server reads which   *)
(* from its configuration (server-cli main.rs:80-90).                      *)
(***************************************************************************)
EXTENDS TaskRuntime

VARIABLES
    runtimeType,  \* config.runtime_type
    aborted       \* of TokioRuntime

Thread == INSTANCE ThreadRuntime
Tokio  == INSTANCE TokioRuntime

vars == <<Tokio!vars, runtimeType>>

TypeOK ==
    \/ runtimeType = "thread" /\ Thread!TypeOK /\ aborted = {}
    \/ runtimeType = "tokio" /\ Tokio!TypeOK

Init ==
    /\ runtimeType \in {"thread", "tokio"}
    /\ Thread!Init
    /\ Tokio!Init

Next ==
    \/ runtimeType = "thread" /\ Thread!Next /\ UNCHANGED <<aborted, runtimeType>>
    \/ runtimeType = "tokio" /\ Tokio!Next /\ UNCHANGED runtimeType

TaskStep(t) ==
    \/ runtimeType = "thread" /\ Thread!Run(t) /\ UNCHANGED <<aborted, owner, handles, runtimeType>>
    \/ runtimeType = "tokio" /\ Tokio!Loop(t) /\ UNCHANGED runtimeType

Leave(t) ==
    /\ runtimeType = "tokio"
    /\ Tokio!Leave(t)
    /\ UNCHANGED <<cancelled, aborted, owner, handles, runtimeType>>

OwnerStep ==
    \/ runtimeType = "thread" /\ (Thread!Spawn \/ Thread!Join) /\ UNCHANGED <<aborted, runtimeType>>
    \/ runtimeType = "tokio" /\ (Tokio!Spawn \/ Tokio!Abort) /\ UNCHANGED runtimeType

\* Threads and loops are scheduled, polls return, a branch of select! that is ready
\* again and again is picked in the end, and spawning and dropping go on.  Whether
\* anybody cancels or drops the runtime, or a poll panics, is open.
Fairness ==
    /\ \A t \in Tasks : WF_vars(TaskStep(t)) /\ SF_vars(Leave(t))
    /\ WF_vars(OwnerStep)

Spec == Init /\ [][Next]_vars /\ Fairness

-----------------------------------------------------------------------------
Abstract == INSTANCE Runtime

\* Whichever runtime it is, a task ends only because the token was cancelled or
\* its poll panicked, and every task ends once it was: whichever of them panic,
\* although select! may go on picking the tick and an abort only ends a loop that is
\* suspended (thread_runtime.rs:54-76, tokio_runtime.rs:59-89).
Implements == Abstract!Spec

\* Dropping a ThreadRuntime comes to an end, and returns only after every thread
\* has (thread_runtime.rs:54-61).
DropEnds  == Thread!DropEnds
DropWaits == runtimeType = "thread" => Thread!DropWaits

\* Once a TokioRuntime is dropped, its loops go on only as far as they get without
\* being suspended (tokio_runtime.rs:59-66,79-86).
NoWakeAfterDrop == Tokio!NoWakeAfterDrop
=============================================================================
