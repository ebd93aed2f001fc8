------------------------------ MODULE Runtime ------------------------------
(***************************************************************************)
(* What a runtime (runtime.rs) promises: a task it was given goes on being *)
(* polled until the token is cancelled, unless its own poll panics; once   *)
(* the token is cancelled every task stops.  ThreadRuntime and             *)
(* TokioRuntime are shown to implement this.                               *)
(***************************************************************************)
CONSTANT Tasks

VARIABLES
    cancelled,  \* the cancellation token
    active,     \* the tasks that are polled now and then
    failed      \* the tasks whose poll panicked

vars == <<cancelled, active, failed>>

Init == cancelled = FALSE /\ active = {} /\ failed = {}

Spawn(t) ==
    /\ t \notin failed
    /\ active' = active \cup {t}
    /\ UNCHANGED <<cancelled, failed>>

Cancel == cancelled' = TRUE /\ UNCHANGED <<active, failed>>

Stop(t) == cancelled /\ active' = active \ {t} /\ UNCHANGED <<cancelled, failed>>

Fail(t) ==
    /\ t \in active
    /\ active' = active \ {t}
    /\ failed' = failed \cup {t}
    /\ UNCHANGED cancelled

Next == Cancel \/ \E t \in Tasks : Spawn(t) \/ Stop(t) \/ Fail(t)

AllStop == cancelled ~> [](active = {})

Spec == Init /\ [][Next]_vars /\ AllStop
=============================================================================
