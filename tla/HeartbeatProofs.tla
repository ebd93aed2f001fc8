-------------------------- MODULE HeartbeatProofs --------------------------
(***************************************************************************)
(* Theorems about the heartbeat on a ThreadRuntime's clock, for any period *)
(* and any lateness of polls.                                              *)
(***************************************************************************)
EXTENDS Heartbeat, CommonLemmas

Round == U16Max + 1

(***************************************************************************)
(* What the time since the last heartbeat says of the next one: it is that *)
(* much nearer (Nearing), or it was scheduled across the wrap and, as its  *)
(* time is already past in this round, the next poll sends it (Wrapped),   *)
(* or it may be stepped over at the wrap (AtWrap).                         *)
(***************************************************************************)
Nearing == elapsed < nextHeartbeat /\ quiet <= elapsed - nextHeartbeat + HeartbeatPeriod
Wrapped == quiet = 0 /\ nextHeartbeat = elapsed + HeartbeatPeriod - Round
Started == quiet = 0 /\ nextHeartbeat = 0
AtWrap  == nextHeartbeat > U16Max - MaxStep + 1

IInv == TypeOK /\ (Nearing \/ Wrapped \/ Started \/ AtWrap \/ (panicked /\ quiet = 0))

-----------------------------------------------------------------------------
LEMMA WrapOnce ==
    \A ms \in Nat : ms <= U16Max + U16Max
        => ms % Round = IF ms <= U16Max THEN ms ELSE ms - (U16Max + 1)
  <1> SUFFICES ASSUME NEW ms \in Nat, ms <= U16Max + U16Max
               PROVE  ms % Round = IF ms <= U16Max THEN ms ELSE ms - (U16Max + 1)
    OBVIOUS
  <1> USE HeartbeatAssumption DEF HeartbeatAssumption
  <1>1. Round \in Nat \ {0}
    BY DEF Round
  <1>2. CASE ms <= U16Max
    <2>1. ms = Round * 0 + ms /\ ms \in 0 .. Round - 1
      BY <1>2 DEF Round
    <2> QED BY <1>1, <1>2, <2>1, ModUnique
  <1>3. CASE ms > U16Max
    <2>1. ms = Round * 1 + (ms - (U16Max + 1)) /\ ms - (U16Max + 1) \in 0 .. Round - 1
      BY <1>3 DEF Round
    <2>2. ms % Round = ms - (U16Max + 1)
      BY <1>1, <2>1, ModUnique
    <2> QED BY <1>3, <2>2
  <1> QED BY <1>2, <1>3

LEMMA InitIInv == Init => IInv
  <1> SUFFICES ASSUME Init PROVE IInv
    OBVIOUS
  <1>1. TypeOK
    <2>1. 0 \in 0 .. U16Max /\ 0 \in 0 .. MaxQuiet
      BY HeartbeatAssumption DEF HeartbeatAssumption
    <2> QED BY <2>1, Zenon DEF Init, TypeOK
  <1>2. Started
    BY DEF Init, Started
  <1> QED BY <1>1, <1>2 DEF IInv

LEMMA PollIInv ==
    ASSUME SinceStart, IInv, NEW step \in 1 .. MaxStep, Poll(step)
    PROVE  IInv'
  <1> USE HeartbeatAssumption DEF HeartbeatAssumption
  <1> DEFINE now == (elapsed + step) % Round
  <1>1. /\ ~panicked
        /\ elapsed' = now
        /\ Heartbeat(now) \/ NoHeartbeat(now, step)
    BY DEF Poll, Round
  <1>2. /\ elapsed \in 0 .. U16Max /\ nextHeartbeat \in 0 .. U16Max
        /\ quiet \in 0 .. MaxQuiet
    BY DEF IInv, TypeOK
  <1>3. now = IF elapsed + step <= U16Max THEN elapsed + step
                                          ELSE elapsed + step - (U16Max + 1)
    <2>1. elapsed + step \in Nat /\ elapsed + step <= U16Max + U16Max
      BY <1>2
    <2>2. PICK ms \in Nat : ms = elapsed + step
      BY <2>1
    <2>3. ms % Round = IF ms <= U16Max THEN ms ELSE ms - (U16Max + 1)
      BY <2>1, <2>2, WrapOnce
    <2>4. now = ms % Round
      BY <2>2, Zenon
    <2> HIDE DEF now
    <2> QED BY <1>2, <2>2, <2>3, <2>4
  <1>4. now \in 0 .. U16Max
    BY <1>2, <1>3 DEF Round
  <1> HIDE DEF now
  <1>5. CASE Heartbeat(now)
    <2>1. quiet' = 0
      BY <1>5 DEF Heartbeat
    <2>2. CASE Overflows(now)
      BY <1>1, <1>2, <1>4, <1>5, <2>1, <2>2 DEF Heartbeat, IInv, TypeOK
    <2>3. CASE ~Overflows(now)
      <3>1. nextHeartbeat' = (now + HeartbeatPeriod) % Round /\ panicked' = panicked
        BY <1>5, <2>3 DEF Heartbeat, NextHeartbeat, Round
      <3>2. nextHeartbeat' = IF now + HeartbeatPeriod <= U16Max
                             THEN now + HeartbeatPeriod
                             ELSE now + HeartbeatPeriod - (U16Max + 1)
        <4>1. now + HeartbeatPeriod \in Nat /\ now + HeartbeatPeriod <= U16Max + U16Max
          BY <1>4
        <4>2. PICK ms \in Nat : ms = now + HeartbeatPeriod
          BY <4>1
        <4>3. ms % Round = IF ms <= U16Max THEN ms ELSE ms - (U16Max + 1)
          BY <4>1, <4>2, WrapOnce
        <4>4. nextHeartbeat' = ms % Round
          BY <3>1, <4>2, Zenon
        <4> QED BY <1>4, <4>2, <4>3, <4>4
      <3>3. Nearing' \/ Wrapped'
        BY <1>1, <1>4, <2>1, <3>2 DEF Nearing, Wrapped, Round
      <3>4. TypeOK'
        <4>1. nextHeartbeat' \in 0 .. U16Max /\ quiet' \in 0 .. MaxQuiet
          BY <1>4, <2>1, <3>2 DEF Round
        <4>2. panicked \in BOOLEAN
          BY Zenon DEF IInv, TypeOK
        <4> QED BY <1>1, <1>4, <3>1, <4>1, <4>2, Zenon DEF TypeOK
      <3> QED BY <3>3, <3>4 DEF IInv
    <2> QED BY <2>2, <2>3
  <1>6. CASE NoHeartbeat(now, step)
    <2>1. /\ now < nextHeartbeat
          /\ quiet' = Capped(quiet + step)
          /\ nextHeartbeat' = nextHeartbeat /\ panicked' = panicked
      BY <1>2, <1>4, <1>6 DEF NoHeartbeat, Due
    <2>2. quiet' \in 0 .. MaxQuiet /\ quiet' <= quiet + step
      BY <1>2, <2>1 DEF Capped
    <2>3. TypeOK'
      BY <1>1, <1>2, <1>4, <2>1, <2>2 DEF TypeOK, IInv
    <2>4. Nearing' \/ AtWrap'
      <3>1. CASE Nearing
        BY <1>1, <1>2, <1>3, <2>1, <2>2, <3>1 DEF Nearing, AtWrap, Round
      <3>2. CASE Wrapped
        BY <1>1, <1>2, <1>3, <2>1, <2>2, <3>2 DEF Nearing, Wrapped, Round
      <3>3. CASE Started
        BY <1>4, <2>1, <3>3 DEF Started
      <3>4. CASE AtWrap
        BY <2>1, <3>4 DEF AtWrap
      <3> QED BY <1>1, <3>1, <3>2, <3>3, <3>4 DEF IInv
    <2> QED BY <2>3, <2>4 DEF IInv
  <1> QED BY <1>1, <1>5, <1>6

LEMMA IInvSuffices == IInv => LateOnlyAtWrap
  BY HeartbeatAssumption
     DEF HeartbeatAssumption, IInv, TypeOK, Nearing, Wrapped, Started, AtWrap, LateOnlyAtWrap, Prompt

\* With the time since the task's start for a timestamp, as ThreadRuntime passes it
\* (thread_runtime.rs:68-71), a heartbeat is sent every heartbeat_period, give or
\* take a late poll, unless it is due in the last ms before the timestamps wrap:
\* for any period up to 65535 ms and any lateness
\* (client_to_server_sender.rs:80-97, server_to_client_receiver.rs:76-87).
THEOREM LateOnlyThere ==
    ASSUME SinceStart
    PROVE  Spec => []LateOnlyAtWrap
  <1>1. IInv /\ [Next]_vars => IInv'
    <2> SUFFICES ASSUME IInv, [Next]_vars PROVE IInv'
      OBVIOUS
    <2>1. CASE Next
      BY <2>1, PollIInv DEF Next
    <2>2. CASE UNCHANGED vars
      BY <2>2 DEF vars, IInv, TypeOK, Nearing, Wrapped, Started, AtWrap
    <2> QED BY <2>1, <2>2
  <1> QED BY <1>1, InitIInv, IInvSuffices, PTL DEF Spec
=============================================================================
