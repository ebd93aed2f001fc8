----------------------------- MODULE Heartbeat -----------------------------
(***************************************************************************)
(* The heartbeat of a client task (client_to_server_sender.rs:80-97, and   *)
(* the same in server_to_client_receiver.rs:76-87) on the clock its        *)
(* runtime polls it with: ThreadRuntime passes the milliseconds since the  *)
(* task started, TokioRuntime those since the poll before, each truncated  *)
(* to a u16.  Polls are between 1 and MaxStep ms apart.                    *)
(***************************************************************************)
EXTENDS Integers

CONSTANTS
    U16Max,           \* u16::MAX
    HeartbeatPeriod,  \* the schema's heartbeat_period, in ms
    MaxStep,          \* the longest time between two polls, in ms
    SinceStart,       \* whether timestamps count from the start (ThreadRuntime)
    OverflowChecks,   \* whether u16 additions are checked (debug) or wrap (release)
    MaxQuiet          \* bound on the counted time without a heartbeat

ASSUME HeartbeatAssumption ==
    /\ U16Max \in Nat
    /\ HeartbeatPeriod \in 1 .. U16Max
    /\ MaxStep \in 1 .. U16Max
    /\ SinceStart \in BOOLEAN
    /\ OverflowChecks \in BOOLEAN
    /\ MaxQuiet \in Nat

VARIABLES
    elapsed,        \* ms since the task started, as a u16
    nextHeartbeat,  \* next_heartbeat
    quiet,          \* ms since the last heartbeat, up to MaxQuiet
    panicked        \* whether the addition has overflowed, which ends the task

vars == <<elapsed, nextHeartbeat, quiet, panicked>>

TypeOK ==
    /\ elapsed \in 0 .. U16Max
    /\ nextHeartbeat \in 0 .. U16Max
    /\ quiet \in 0 .. MaxQuiet
    /\ panicked \in BOOLEAN

Init ==
    /\ elapsed = 0
    /\ nextHeartbeat = 0
    /\ quiet = 0
    /\ panicked = FALSE

-----------------------------------------------------------------------------
Capped(ms) == IF ms < MaxQuiet THEN ms ELSE MaxQuiet

\* Mutant: a heartbeat is due at one instant only.
DueAt(timestamp) == timestamp = nextHeartbeat

Due(timestamp) == timestamp >= nextHeartbeat

\* Mutant: next_heartbeat is wider than a timestamp.
NextHeartbeatWide(timestamp) == timestamp + HeartbeatPeriod

NextHeartbeat(timestamp) == (timestamp + HeartbeatPeriod) % (U16Max + 1)

Overflows(timestamp) == OverflowChecks /\ timestamp + HeartbeatPeriod > U16Max

Heartbeat(timestamp) ==
    /\ Due(timestamp)
    /\ quiet' = 0
    /\ IF Overflows(timestamp)
       THEN panicked' = TRUE /\ UNCHANGED nextHeartbeat
       ELSE nextHeartbeat' = NextHeartbeat(timestamp) /\ UNCHANGED panicked

NoHeartbeat(timestamp, step) ==
    /\ ~Due(timestamp)
    /\ quiet' = Capped(quiet + step)
    /\ UNCHANGED <<nextHeartbeat, panicked>>

\* A poll step ms after the one before.
Poll(step) ==
    LET now       == (elapsed + step) % (U16Max + 1)
        timestamp == IF SinceStart THEN now ELSE step
    IN  /\ ~panicked
        /\ elapsed' = now
        /\ Heartbeat(timestamp) \/ NoHeartbeat(timestamp, step)

Next == \E step \in 1 .. MaxStep : Poll(step)

\* The runtime goes on polling, and does not step over the same one of the last
\* timestamps in every round: how late a poll is varies.
Fairness ==
    /\ WF_vars(Next)
    /\ \A last \in U16Max - MaxStep + 2 .. U16Max : SF_vars(Next /\ elapsed' = last)

Spec == Init /\ [][Next]_vars /\ Fairness

-----------------------------------------------------------------------------
\* A heartbeat is sent every heartbeat_period, give or take a late poll
\* (longboy-schema lib.rs:8,18), except that one which is due in the last ms
\* before the timestamps wrap may be stepped over and then waits a whole round.
Prompt == quiet < HeartbeatPeriod + MaxStep

LateOnlyAtWrap == ~Prompt => nextHeartbeat > U16Max - MaxStep + 1

\* Heartbeats never stop: what the mapping tasks of the server rely on to
\* settle again after a client's address changed.
KeepsBeating == []<>(quiet = 0)

\* Scheduling the next heartbeat does not end the task.
NoPanic == ~panicked
=============================================================================
