---------------------------- MODULE TaskRuntime ----------------------------
(***************************************************************************)
(* What the two runtimes (runtimes/) have in common: tasks spawned one by  *)
(* one, an owner that keeps their handles, and a cancellation token that   *)
(* all share.  The owner spawns the tasks (Server::build, Client::build),  *)
(* uses the runtime, then drops it; a builder that fails drops it before.  *)
(***************************************************************************)
EXTENDS Integers

CONSTANT TaskCount

ASSUME RuntimeAssumption == TaskCount \in Nat

Tasks == 1 .. TaskCount

VARIABLES
    cancelled,  \* the cancellation token
    task,       \* where in its loop each task is
    owner,      \* what the owner does with the runtime
    handles     \* how many join handles the runtime holds

Ended   == {"returned", "panicked"}
Stopped == Ended \cup {"unspawned"}

active == {t \in Tasks : task[t] \notin Stopped}
failed == {t \in Tasks : task[t] = "panicked"}

Goto(t, place) == task' = [task EXCEPT ![t] = place]

\* The token is the application's; anybody with a clone of it may cancel it.
Cancel ==
    /\ owner \in {"building", "using"}
    /\ ~cancelled
    /\ cancelled' = TRUE
    /\ UNCHANGED <<task, owner, handles>>
=============================================================================
