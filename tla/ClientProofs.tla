---------------------------- MODULE ClientProofs ----------------------------
(***************************************************************************)
(* Theorems about the command line client, for any number of workers and   *)
(* any bound on what waits in its channels.                                *)
(***************************************************************************)
EXTENDS ClientProgram, TLAPS

(***************************************************************************)
(* The printing task ends only after the receiving task, whose end is      *)
(* final once the Client is built, or with the program.                    *)
(***************************************************************************)
Unprinted == main \in {"connecting", "building"} => printing = "unspawned"
Outlasts  == printing = "ended" => task[Receiver] \in Ended \/ main \in {"closing", "exited"}
Over      == main = "exited" => active = {}

IInv == ProgramTypeOK /\ Unprinted /\ Outlasts /\ Over

-----------------------------------------------------------------------------
LEMMA TasksAre == Tasks = {Receiver, Sender} /\ Receiver # Sender
  BY ClientAssumption DEF ClientAssumption, Tasks, Receiver, Sender

LEMMA InitIInv == ProgramInit => IInv
  <1> SUFFICES ASSUME ProgramInit PROVE IInv
    OBVIOUS
  <1> USE ClientAssumption DEF ClientAssumption, ProgramInit, Init
  <1>1. TypeOK
    <2>1. task \in [Tasks -> {"unspawned"}]
      OBVIOUS
    <2>2. handles \in 0 .. TaskCount
      OBVIOUS
    <2>3. cancelled \in BOOLEAN /\ owner = "building" /\ aborted = {}
      OBVIOUS
    <2> QED BY <2>1, <2>2, <2>3 DEF TypeOK
  <1>2. ProgramTypeOK
    BY <1>1 DEF ProgramTypeOK
  <1> QED BY <1>2 DEF IInv, Unprinted, Outlasts, Over

\* What main does: the tasks only change by Spawn.
LEMMA MainIInv ==
    ASSUME IInv, Main \/ BuilderFails \/ Wakes
    PROVE  IInv'
  <1> USE ClientAssumption, TasksAre
      DEF ClientAssumption, IInv, ProgramTypeOK, TypeOK, Unprinted, Outlasts, Over, MainGoes,
          runtimeVars, programVars, active, Stopped, Ended
  <1>1. CASE Connects
    BY <1>1 DEF Connects
  <1>2. CASE Builds
    BY <1>2 DEF Builds, Spawn, Goto
  <1>3. CASE SpawnsPrinting
    BY <1>3 DEF SpawnsPrinting
  <1>4. CASE SendsInput
    <2>1. CASE task[Sender] \notin Ended
      BY <1>4, <2>1 DEF SendsInput
    <2>2. CASE task[Sender] \in Ended
      <3>1. main = "awake" /\ main' = "unwinding"
        BY <1>4, <2>2 DEF SendsInput
      <3>2. /\ cancelled' = TRUE /\ owner' = "aborting"
            /\ UNCHANGED <<task, aborted, handles, workers, printing, stage, inputs, events>>
        BY <1>4, <2>2 DEF SendsInput, Drop
      <3> QED BY <3>1, <3>2
    <2> QED BY <2>1, <2>2
  <1>5. CASE Unwinds
    <2>1. CASE Abort /\ UNCHANGED programVars
      <3>1. aborted' \in SUBSET Tasks /\ handles' \in 0 .. TaskCount
        <4>1. CASE handles = 0
          BY <2>1, <4>1 DEF Abort
        <4>2. CASE handles # 0
          <5>1. handles \in Tasks
            BY <4>2 DEF Tasks
          <5>2. aborted' = aborted \cup {handles} /\ handles' = handles - 1
            BY <2>1, <4>2 DEF Abort
          <5>3. handles' \in 0 .. TaskCount
            BY <4>2, <5>2
          <5>4. aborted' \in SUBSET Tasks
            BY <5>1, <5>2
          <5> QED BY <5>3, <5>4
        <4> QED BY <4>1, <4>2
      <3>2. owner' \in {"aborting", "dropped"} /\ UNCHANGED <<cancelled, task>>
        BY <2>1 DEF Abort
      <3> QED BY <2>1, <3>1, <3>2
    <2>2. CASE main' = "over"
      BY <1>5, <2>2 DEF Unwinds
    <2> QED BY <1>5, <2>1, <2>2 DEF Unwinds
  <1>6. CASE ShutsDown
    BY <1>6 DEF ShutsDown
  <1>7. CASE Exits
    BY <1>7 DEF Exits
  <1>8. CASE BuilderFails
    BY <1>8 DEF BuilderFails, Drop
  <1>9. CASE Wakes
    BY <1>9 DEF Wakes
  <1> QED BY <1>1, <1>2, <1>3, <1>4, <1>5, <1>6, <1>7, <1>8, <1>9 DEF Main

LEMMA TaskIInv ==
    ASSUME IInv, NEW t \in Tasks, TaskStep(t)
    PROVE  IInv'
  <1> USE ClientAssumption, TasksAre
      DEF ClientAssumption, IInv, ProgramTypeOK, TypeOK, Unprinted, Outlasts, Over,
          programVars, active, Stopped, Ended, At, Enter, Goto
  <1>1. CASE Resumes(t)
    BY <1>1 DEF TaskStep, Resumes, Wake, AbortTakes
  <1>2. CASE BeginPoll(t) \/ Returns(t)
    BY <1>2 DEF TaskStep, BeginPoll, Returns
  <1>3. CASE Pauses(t)
    BY <1>3 DEF TaskStep, Pauses, Yield, Leave
  <1>4. CASE Heartbeats(t)
    BY <1>4 DEF TaskStep, Heartbeats, Fail
  <1>5. CASE PollsSource
    BY <1>5 DEF TaskStep, PollsSource, Fail
  <1>6. CASE HandlesDatagram
    BY <1>6 DEF TaskStep, HandlesDatagram, Fail
  <1>7. CASE NoMoreDatagrams
    BY <1>7 DEF TaskStep, NoMoreDatagrams
  <1> QED BY <1>1, <1>2, <1>3, <1>4, <1>5, <1>6, <1>7 DEF TaskStep

LEMMA NextIInv == IInv /\ [ProgramNext]_allVars => IInv'
  <1> SUFFICES ASSUME IInv, [ProgramNext]_allVars PROVE IInv'
    OBVIOUS
  <1>1. CASE Prints
    <2>1. events' \in 0 .. MaxEvents
      BY <1>1, ClientAssumption DEF Prints, IInv, ProgramTypeOK, ClientAssumption
    <2>2. \/ UNCHANGED printing
          \/ printing' = "ended" /\ printing = "awaiting" /\ task[Receiver] \in Ended
      BY <1>1 DEF Prints
    <2>3. UNCHANGED <<runtimeVars, workers, main, stage, inputs>>
      BY <1>1 DEF Prints
    <2> QED BY <2>1, <2>2, <2>3
            DEF IInv, ProgramTypeOK, TypeOK, Unprinted, Outlasts, Over, runtimeVars, active
  <1>2. CASE UNCHANGED allVars
    BY <1>2 DEF allVars, runtimeVars, programVars, IInv, ProgramTypeOK, TypeOK, Unprinted,
                Outlasts, Over, active
  <1> QED BY <1>1, <1>2, MainIInv, TaskIInv DEF ProgramNext, Rests

\* In every state of the client its variables have their types and the printing
\* task has outlasted the receiving task (main.rs:67,174-196).
THEOREM ClientInvariance == ProgramSpec => []IInv
  BY InitIInv, NextIInv, PTL DEF ProgramSpec

\* For any number of workers the Sink finds the printing task there until the
\* program shuts down: the unwrap in its send does not fail before
\* (main.rs:67,174-196).
THEOREM SinkAlwaysHeard == ProgramSpec => []SinkIsHeard
  <1>1. IInv => SinkIsHeard
    BY TasksAre DEF IInv, Outlasts, Over, SinkIsHeard, At, active, Stopped, Ended
  <1> QED BY <1>1, ClientInvariance, PTL

=============================================================================
