---------------------------- MODULE TokioRuntime ----------------------------
(***************************************************************************)
(* runtimes/tokio_runtime.rs: each task is an asynchronous loop of select! *)
(* between a tick and the cancellation.  When neither is ready, or the     *)
(* loop has used up tokio's budget, it is suspended until it is woken; a   *)
(* tick that came while the loop was polling is taken without suspending.  *)
(* Dropping the runtime cancels the token and aborts the loops, the last   *)
(* spawned first, and does not wait for them: tokio obeys an abort only    *)
(* while the loop is suspended, so one that is not may poll again.         *)
(***************************************************************************)
EXTENDS TaskRuntime

VARIABLE aborted  \* the tasks told to abort

vars == <<cancelled, task, aborted, owner, handles>>

TypeOK ==
    /\ cancelled \in BOOLEAN
    /\ task \in [Tasks -> {"unspawned", "await", "running"} \cup Ended]
    /\ aborted \in SUBSET Tasks
    /\ owner \in {"building", "using", "aborting", "dropped"}
    /\ handles \in 0 .. TaskCount

Init ==
    /\ cancelled = FALSE
    /\ task = [t \in Tasks |-> "unspawned"]
    /\ aborted = {}
    /\ owner = "building"
    /\ handles = 0

-----------------------------------------------------------------------------
(* A task's loop.                                                          *)

\* The first scheduling, a tick or the token.  A loop that runs polls, and polls
\* again as often as select! finds the next tick ready and picks it, although the
\* token is cancelled or the loop is to be aborted.
Wake(t) ==
    /\ task[t] = "await"
    /\ t \notin aborted
    /\ Goto(t, "running")

\* An abort ends the suspended loop; the token is cancelled by then.
AbortTakes(t) ==
    /\ task[t] = "await"
    /\ t \in aborted
    /\ Goto(t, "returned")

\* Mutant: the loop awaits ticks only.
LeaveDeaf(t) == FALSE

\* select! picks the other branch.  The token is cancelled by then, so cancelling
\* it after the loop changes nothing.
Leave(t) ==
    /\ task[t] = "running"
    /\ cancelled
    /\ Goto(t, "returned")

\* select! finds nothing ready, or the budget is spent.
Yield(t) == task[t] = "running" /\ Goto(t, "await")

\* A panic in poll ends the loop: the token is not touched, and nobody looks at
\* the join handle.
Fail(t) == task[t] = "running" /\ Goto(t, "panicked")

-----------------------------------------------------------------------------
(* The owner.                                                              *)

Spawn ==
    /\ owner = "building"
    /\ IF handles < TaskCount
       THEN Goto(handles + 1, "await") /\ handles' = handles + 1 /\ UNCHANGED owner
       ELSE owner' = "using" /\ UNCHANGED <<task, handles>>
    /\ UNCHANGED <<cancelled, aborted>>

Drop ==
    /\ owner \in {"building", "using"}
    /\ cancelled' = TRUE
    /\ owner' = "aborting"
    /\ UNCHANGED <<task, aborted, handles>>

\* Mutant: dropping the handles detaches the loops.
AbortNone ==
    /\ owner = "aborting"
    /\ handles' = 0
    /\ owner' = "dropped"
    /\ UNCHANGED <<cancelled, task, aborted>>

Abort ==
    /\ owner = "aborting"
    /\ IF handles = 0
       THEN owner' = "dropped" /\ UNCHANGED <<aborted, handles>>
       ELSE /\ aborted' = aborted \cup {handles}
            /\ handles' = handles - 1
            /\ UNCHANGED owner
    /\ UNCHANGED <<cancelled, task>>

Rest ==
    /\ active = {}
    /\ owner \in {"using", "dropped"}
    /\ UNCHANGED vars

Loop(t) ==
    /\ Wake(t) \/ AbortTakes(t) \/ Leave(t) \/ Yield(t) \/ Fail(t)
    /\ UNCHANGED <<cancelled, aborted, owner, handles>>

Next ==
    \/ \E t \in Tasks : Loop(t)
    \/ Spawn \/ Drop \/ Abort
    \/ Cancel /\ UNCHANGED aborted
    \/ Rest

-----------------------------------------------------------------------------
\* After the runtime is dropped no suspended loop is run again: what still polls
\* has not been suspended since, so who drops a Server on this runtime must not
\* reuse its sockets at once.
NoWakeAfterDrop ==
    [][owner = "dropped" => \A t \in Tasks : task[t] = "await" => task'[t] # "running"]_vars
=============================================================================
