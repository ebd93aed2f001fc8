--------------------------- MODULE ThreadRuntime ---------------------------
(***************************************************************************)
(* runtimes/thread_runtime.rs: a thread for each task.  Dropping the       *)
(* runtime cancels the token and joins the threads, the last spawned       *)
(* first.                                                                  *)
(***************************************************************************)
EXTENDS TaskRuntime

vars == <<cancelled, task, owner, handles>>

TypeOK ==
    /\ cancelled \in BOOLEAN
    /\ task \in [Tasks -> {"unspawned", "loop", "poll", "sleep"} \cup Ended]
    /\ owner \in {"building", "using", "joining", "dropped", "panicked"}
    /\ handles \in 0 .. TaskCount

Init ==
    /\ cancelled = FALSE
    /\ task = [t \in Tasks |-> "unspawned"]
    /\ owner = "building"
    /\ handles = 0

-----------------------------------------------------------------------------
(* A task's thread.                                                        *)

\* The while loop; after it the token, cancelled by then, is cancelled again.
Run(t) ==
    \/ /\ task[t] = "loop"
       /\ Goto(t, IF cancelled THEN "returned" ELSE "poll")
       /\ UNCHANGED cancelled
    \/ task[t] = "poll" /\ Goto(t, "sleep") /\ UNCHANGED cancelled
    \/ task[t] = "sleep" /\ Goto(t, "loop") /\ UNCHANGED cancelled

\* A panic in poll unwinds run: the token is not touched.
Fail(t) ==
    /\ task[t] = "poll"
    /\ Goto(t, "panicked")
    /\ UNCHANGED cancelled

-----------------------------------------------------------------------------
(* The owner.                                                              *)

\* Mutant: one thread too many.
SpawnMore ==
    /\ owner = "building"
    /\ IF handles <= TaskCount
       THEN Goto(handles + 1, "loop") /\ handles' = handles + 1 /\ UNCHANGED owner
       ELSE owner' = "using" /\ UNCHANGED <<task, handles>>
    /\ UNCHANGED cancelled

Spawn ==
    /\ owner = "building"
    /\ IF handles < TaskCount
       THEN Goto(handles + 1, "loop") /\ handles' = handles + 1 /\ UNCHANGED owner
       ELSE owner' = "using" /\ UNCHANGED <<task, handles>>
    /\ UNCHANGED cancelled

\* Mutant: dropping the runtime does not cancel the token.
DropUncancelled ==
    /\ owner \in {"building", "using"}
    /\ owner' = "joining"
    /\ UNCHANGED <<cancelled, task, handles>>

\* Also while the tasks are spawned: a builder is dropped when one of its calls
\* fails, and spawn panics when there is no thread to be had.
Drop ==
    /\ owner \in {"building", "using"}
    /\ cancelled' = TRUE
    /\ owner' = "joining"
    /\ UNCHANGED <<task, handles>>

\* Mutant: the threads are detached.
JoinNone ==
    /\ owner = "joining"
    /\ owner' = "dropped"
    /\ UNCHANGED <<cancelled, task, handles>>

\* join().unwrap(): waits for the thread, and panics if the thread did.
Join ==
    /\ owner = "joining"
    /\ IF handles = 0
       THEN owner' = "dropped" /\ UNCHANGED handles
       ELSE /\ task[handles] \in Ended
            /\ IF task[handles] = "returned"
               THEN handles' = handles - 1 /\ UNCHANGED owner
               ELSE handles' = 0 /\ owner' = "panicked"
    /\ UNCHANGED <<cancelled, task>>

Rest ==
    /\ owner \in {"dropped", "panicked"}
    /\ active = {}
    /\ UNCHANGED vars

Next ==
    \/ \E t \in Tasks : (Run(t) \/ Fail(t)) /\ UNCHANGED <<owner, handles>>
    \/ Spawn \/ Cancel \/ Drop \/ Join
    \/ Rest

-----------------------------------------------------------------------------
\* Dropping the runtime comes to an end; it returns only after every thread that
\* was spawned has returned, and does not hide that one panicked (lines 57-60).
DropEnds == owner = "joining" ~> owner \in {"dropped", "panicked"}

DropWaits == owner = "dropped" => active = {} /\ failed = {}
=============================================================================
