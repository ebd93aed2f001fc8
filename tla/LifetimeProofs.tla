-------------------------- MODULE LifetimeProofs --------------------------
(***************************************************************************)
(* Theorems about the two runtimes, and about a Server or a Client on      *)
(* either of them, for any number of tasks.                                *)
(***************************************************************************)
EXTENDS Lifetime, CommonLemmas, WellFoundedInduction

(***************************************************************************)
(* DropWaits is not inductive: that every thread has returned when drop    *)
(* returns rests on how far the joins have come.  The handles are those of *)
(* the first tasks, and drop joins the last of them first, so the tasks    *)
(* whose handles are gone have returned, or never had one.                 *)
(***************************************************************************)
Joined ==
    /\ owner = "using" => handles = TaskCount
    /\ owner \in {"joining", "dropped"} =>
          \A t \in Tasks : t > handles => task[t] \in {"returned", "unspawned"}
    /\ owner = "dropped" => handles = 0

\* Under either runtime a task not spawned yet has not run.
Unstarted ==
    owner = "building" => \A t \in Tasks : t > handles => task[t] = "unspawned"

\* Likewise a TokioRuntime has aborted the tasks whose handles are gone, and
\* aborts none before the token is cancelled.
Aborted ==
    /\ owner = "using" => handles = TaskCount
    /\ owner \in {"aborting", "dropped"} =>
          \A t \in Tasks : t > handles => t \in aborted \/ task[t] = "unspawned"
    /\ owner = "dropped" => handles = 0
    /\ owner \in {"aborting", "dropped"} => cancelled
    /\ owner \notin {"aborting", "dropped"} => aborted = {}

IInv ==
    /\ TypeOK
    /\ Unstarted
    /\ runtimeType = "thread" => Joined
    /\ runtimeType = "tokio" => Aborted

-----------------------------------------------------------------------------
LEMMA InitIInv == Init => IInv
  <1> SUFFICES ASSUME Init PROVE IInv
    OBVIOUS
  <1> USE RuntimeAssumption DEF RuntimeAssumption, Init
  <1>1. Thread!TypeOK
    <2>1. task \in [Thread!Tasks -> {"unspawned"}]
      BY DEF Thread!Init
    <2>2. handles \in 0 .. TaskCount
      BY DEF Thread!Init
    <2>3. cancelled \in BOOLEAN /\ owner = "building"
      BY DEF Thread!Init
    <2> QED
      BY <2>1, <2>2, <2>3 DEF Thread!TypeOK
  <1>2. Tokio!TypeOK /\ aborted = {}
    <2>1. task \in [Tokio!Tasks -> {"unspawned"}]
      BY DEF Tokio!Init
    <2>2. handles \in 0 .. TaskCount
      BY DEF Tokio!Init
    <2>3. cancelled \in BOOLEAN /\ owner = "building" /\ aborted = {}
      BY DEF Tokio!Init
    <2> QED
      BY <2>1, <2>2, <2>3 DEF Tokio!TypeOK
  <1>3. Joined /\ Aborted /\ Unstarted
    BY DEF Thread!Init, Tokio!Init, Joined, Aborted, Unstarted, Tasks, Thread!Tasks
  <1> QED
    BY <1>1, <1>2, <1>3 DEF IInv, TypeOK

LEMMA ThreadStep ==
  ASSUME Thread!TypeOK, Joined, Unstarted, Thread!Next
  PROVE  Thread!TypeOK' /\ Joined' /\ Unstarted'
  <1> USE RuntimeAssumption
      DEF RuntimeAssumption, Tasks, Thread!Tasks, Thread!Ended, Thread!Goto, Thread!TypeOK, Joined, Unstarted
  <1>1. ASSUME NEW t \in Tasks, Thread!Run(t) \/ Thread!Fail(t), UNCHANGED <<owner, handles>>
        PROVE  Thread!TypeOK' /\ Joined' /\ Unstarted'
    BY <1>1 DEF Thread!Run, Thread!Fail
  <1>2. CASE Thread!Spawn
    BY <1>2 DEF Thread!Spawn
  <1>3. CASE Thread!Cancel
    BY <1>3 DEF Thread!Cancel
  <1>4. CASE Thread!Drop
    BY <1>4 DEF Thread!Drop
  <1>5. CASE Thread!Join
    BY <1>5 DEF Thread!Join
  <1>6. CASE Thread!Rest
    BY <1>6 DEF Thread!Rest, Thread!vars
  <1> QED
    BY <1>1, <1>2, <1>3, <1>4, <1>5, <1>6 DEF Thread!Next

LEMMA TokioStep ==
  ASSUME Tokio!TypeOK, Aborted, Unstarted, Tokio!Next
  PROVE  Tokio!TypeOK' /\ Aborted' /\ Unstarted'
  <1> USE RuntimeAssumption
      DEF RuntimeAssumption, Tasks, Tokio!Tasks, Tokio!Ended, Tokio!Goto, Tokio!TypeOK, Aborted, Unstarted
  <1>1. ASSUME NEW t \in Tokio!Tasks, Tokio!Loop(t)
        PROVE  Tokio!TypeOK' /\ Aborted' /\ Unstarted'
    BY <1>1 DEF Tokio!Loop, Tokio!Wake, Tokio!AbortTakes, Tokio!Leave, Tokio!Yield, Tokio!Fail
  <1>2. CASE Tokio!Spawn
    BY <1>2 DEF Tokio!Spawn
  <1>3. CASE Tokio!Cancel /\ UNCHANGED aborted
    BY <1>3 DEF Tokio!Cancel
  <1>4. CASE Tokio!Drop
    BY <1>4 DEF Tokio!Drop
  <1>5. CASE Tokio!Abort
    <2>1. CASE handles = 0
      BY <1>5, <2>1 DEF Tokio!Abort
    <2>2. CASE handles # 0
      <3>1. handles \in Tokio!Tasks
        BY <2>2
      <3>2. aborted' \in SUBSET Tokio!Tasks
        BY <1>5, <2>2, <3>1 DEF Tokio!Abort
      <3>3. handles' \in 0 .. TaskCount
        BY <1>5, <2>2 DEF Tokio!Abort
      <3> QED
        BY <1>5, <2>2, <3>2, <3>3 DEF Tokio!Abort
    <2> QED
      BY <2>1, <2>2
  <1>6. CASE Tokio!Rest
    BY <1>6 DEF Tokio!Rest, Tokio!vars
  <1> QED
    BY <1>1, <1>2, <1>3, <1>4, <1>5, <1>6 DEF Tokio!Next

LEMMA NextIInv == IInv /\ [Next]_vars => IInv'
  <1> SUFFICES ASSUME IInv, [Next]_vars PROVE IInv'
    OBVIOUS
  <1> USE DEF IInv, TypeOK
  <1>1. CASE runtimeType = "thread" /\ Thread!Next /\ UNCHANGED <<aborted, runtimeType>>
    BY <1>1, ThreadStep
  <1>2. CASE runtimeType = "tokio" /\ Tokio!Next /\ UNCHANGED runtimeType
    BY <1>2, TokioStep
  <1>3. CASE UNCHANGED vars
    BY <1>3 DEF vars, Tokio!vars, Thread!TypeOK, Tokio!TypeOK, Joined, Aborted, Unstarted, Tasks
  <1> QED
    BY <1>1, <1>2, <1>3 DEF Next

(***************************************************************************)
(* Every state of either runtime has the types of TypeOK, and Joined holds *)
(* of a ThreadRuntime.                                                     *)
(***************************************************************************)
THEOREM JoinsInvariant == Spec => []IInv
  BY InitIInv, NextIInv, PTL DEF Spec

(***************************************************************************)
(* The places of tasks and owner, the handles and the aborts have their    *)
(* types under either runtime.                                             *)
(***************************************************************************)
THEOREM RuntimesTypeCorrect == Spec => []TypeOK
  <1>1. IInv => TypeOK
    BY DEF IInv
  <1> QED
    BY <1>1, JoinsInvariant, PTL

LEMMA DropSuffices == IInv => DropWaits
  BY RuntimeAssumption
     DEF RuntimeAssumption, IInv, TypeOK, Joined, DropWaits, Thread!DropWaits, Thread!TypeOK, Tasks, Thread!Tasks,
         Thread!active, Thread!failed, Thread!Stopped, Thread!Ended

(***************************************************************************)
(* ThreadRuntime::drop returns only after every thread has returned        *)
(* (thread_runtime.rs:57-60), for any number of threads and whichever of   *)
(* them panic.                                                             *)
(***************************************************************************)
THEOREM DropWaitsForAll == Spec => []DropWaits
  BY DropSuffices, JoinsInvariant, PTL

NoneWakes == owner = "dropped" => \A t \in Tasks : task[t] = "await" => task'[t] # "running"

LEMMA NextNoneWakes == IInv /\ [Next]_vars => [NoneWakes]_(Tokio!vars)
  <1>0. SUFFICES ASSUME IInv, [Next]_vars PROVE [NoneWakes]_(Tokio!vars)
    OBVIOUS
  <1> SUFFICES ASSUME owner = "dropped", NEW u \in Tasks, task[u] = "await", Next
               PROVE  task'[u] # "running"
    BY <1>0 DEF vars, NoneWakes
  <1> USE RuntimeAssumption DEF RuntimeAssumption, Tasks
  <1>1. CASE runtimeType = "thread" /\ Thread!Next
    <2>1. \A t \in Tasks : task[t] \in {"returned", "unspawned"}
      BY <1>0, <1>1 DEF IInv, Joined
    <2> QED
      BY <2>1
  <1>2. CASE runtimeType = "tokio" /\ Tokio!Next
    <2>1. Tokio!TypeOK /\ \A t \in Tasks : t \in aborted \/ task[t] = "unspawned"
      BY <1>0, <1>2 DEF IInv, TypeOK, Aborted
    <2> QED
      BY <1>2, <2>1
         DEF Tokio!Next, Tokio!Loop, Tokio!Wake, Tokio!AbortTakes, Tokio!Leave, Tokio!Yield, Tokio!Fail, Tokio!Goto,
             Tokio!Spawn, Tokio!Cancel, Tokio!Drop, Tokio!Abort, Tokio!Rest, Tokio!vars, Tokio!Tasks,
             Tokio!TypeOK
  <1> QED
    BY <1>1, <1>2 DEF Next

(***************************************************************************)
(* Whichever runtime it is, once it is dropped no suspended loop is run    *)
(* again (tokio_runtime.rs:57-66): every task that was spawned is told to  *)
(* abort by then, whichever were running meanwhile.                        *)
(***************************************************************************)
THEOREM NoWakesAfterDrop == Spec => NoWakeAfterDrop
  <1>1. Spec => [][NoneWakes]_(Tokio!vars)
    BY NextNoneWakes, JoinsInvariant, PTL DEF Spec
  <1> QED
    BY <1>1 DEF NoWakeAfterDrop, Tokio!NoWakeAfterDrop, NoneWakes, Tokio!Tasks, Tasks

-----------------------------------------------------------------------------
(* Both runtimes take only the steps of the abstract one.                  *)

LEMMA ThreadMaps ==
  ASSUME Thread!TypeOK, Unstarted, Thread!Next
  PROVE  [Abstract!Next]_(Abstract!vars)
  <1> USE DEF Thread!Goto, Goto, Thread!Ended, Ended, Stopped, Thread!Tasks, Tasks, Thread!TypeOK
  <1>1. ASSUME NEW t \in Tasks, Thread!Run(t), UNCHANGED <<owner, handles>>
        PROVE  [Abstract!Next]_(Abstract!vars)
    <2>1. CASE task[t] = "loop" /\ cancelled
      <3>1. Abstract!Stop(t)
        BY <1>1, <2>1 DEF Thread!Run, Abstract!Stop, active, failed
      <3> QED
        BY <3>1 DEF Abstract!Next
    <2>2. CASE ~(task[t] = "loop" /\ cancelled)
      BY <1>1, <2>2 DEF Thread!Run, Abstract!vars, active, failed
    <2> QED
      BY <2>1, <2>2
  <1>2. ASSUME NEW t \in Tasks, Thread!Fail(t), UNCHANGED <<owner, handles>>
        PROVE  Abstract!Fail(t)
    BY <1>2 DEF Thread!Fail, Abstract!Fail, active, failed
  <1>3. CASE Thread!Spawn
    <2>1. CASE handles < TaskCount
      <3>1. handles + 1 \in Tasks /\ task[handles + 1] = "unspawned"
        BY <1>3, <2>1, RuntimeAssumption DEF RuntimeAssumption, Thread!Spawn, Unstarted
      <3>2. Abstract!Spawn(handles + 1)
        BY <1>3, <2>1, <3>1 DEF Thread!Spawn, Abstract!Spawn, active, failed
      <3> QED
        BY <3>1, <3>2 DEF Abstract!Next
    <2>2. CASE ~(handles < TaskCount)
      BY <1>3, <2>2 DEF Thread!Spawn, Abstract!vars, active, failed
    <2> QED
      BY <2>1, <2>2
  <1>4. CASE Thread!Cancel \/ Thread!Drop
    BY <1>4 DEF Thread!Cancel, Thread!Drop, Abstract!Next, Abstract!Cancel, active, failed
  <1>5. CASE Thread!Join \/ Thread!Rest
    BY <1>5 DEF Thread!Join, Thread!Rest, Thread!vars, Abstract!vars, active, failed
  <1> QED
    BY <1>1, <1>2, <1>3, <1>4, <1>5 DEF Thread!Next, Abstract!Next

LEMMA TokioMaps ==
  ASSUME Tokio!TypeOK, Aborted, Unstarted, Tokio!Next
  PROVE  [Abstract!Next]_(Abstract!vars)
  <1> USE DEF Tokio!Goto, Tokio!Ended, Ended, Stopped, Tokio!Tasks, Tasks, Tokio!TypeOK
  <1>1. ASSUME NEW t \in Tasks, Tokio!Loop(t)
        PROVE  [Abstract!Next]_(Abstract!vars)
    <2>1. CASE Tokio!Leave(t) \/ Tokio!AbortTakes(t)
      <3>1. Abstract!Stop(t)
        BY <1>1, <2>1 DEF Tokio!Loop, Tokio!Leave, Tokio!AbortTakes, Aborted, Abstract!Stop, active, failed
      <3> QED
        BY <3>1 DEF Abstract!Next
    <2>2. CASE Tokio!Fail(t)
      <3>1. Abstract!Fail(t)
        BY <1>1, <2>2 DEF Tokio!Loop, Tokio!Fail, Abstract!Fail, active, failed
      <3> QED
        BY <3>1 DEF Abstract!Next
    <2>3. CASE Tokio!Wake(t) \/ Tokio!Yield(t)
      BY <1>1, <2>3 DEF Tokio!Loop, Tokio!Wake, Tokio!Yield, Abstract!vars, active, failed
    <2> QED
      BY <1>1, <2>1, <2>2, <2>3 DEF Tokio!Loop
  <1>2. CASE Tokio!Spawn
    <2>1. CASE handles < TaskCount
      <3>1. handles + 1 \in Tasks /\ task[handles + 1] = "unspawned"
        BY <1>2, <2>1, RuntimeAssumption DEF RuntimeAssumption, Tokio!Spawn, Unstarted
      <3>2. Abstract!Spawn(handles + 1)
        BY <1>2, <2>1, <3>1 DEF Tokio!Spawn, Abstract!Spawn, active, failed
      <3> QED
        BY <3>1, <3>2 DEF Abstract!Next
    <2>2. CASE ~(handles < TaskCount)
      BY <1>2, <2>2 DEF Tokio!Spawn, Abstract!vars, active, failed
    <2> QED
      BY <2>1, <2>2
  <1>3. CASE Tokio!Cancel \/ Tokio!Drop
    BY <1>3 DEF Tokio!Cancel, Tokio!Drop, Abstract!Next, Abstract!Cancel, active, failed
  <1>4. CASE Tokio!Abort \/ Tokio!Rest
    BY <1>4 DEF Tokio!Abort, Tokio!Rest, Tokio!vars, Abstract!vars, active, failed
  <1> QED
    BY <1>1, <1>2, <1>3, <1>4 DEF Tokio!Next, Abstract!Next

(***************************************************************************)
(* The safety part of Implements: either runtime, for any number of tasks, *)
(* stops a task only once the token is cancelled or its own poll panicked  *)
(* (thread_runtime.rs:64-77, tokio_runtime.rs:69-90).  That every task     *)
(* does stop is checked by TLC.                                            *)
(***************************************************************************)
THEOREM StepsImplement == Spec => Abstract!Init /\ [][Abstract!Next]_(Abstract!vars)
  <1>1. Init => Abstract!Init
    BY DEF Init, Thread!Init, Thread!Tasks, Tasks, Abstract!Init, active, failed, Stopped
  <1>2. ASSUME IInv, [Next]_vars
        PROVE  [Abstract!Next]_(Abstract!vars)
    <2>1. CASE runtimeType = "thread" /\ Thread!Next
      BY <1>2, <2>1, ThreadMaps DEF IInv, TypeOK
    <2>2. CASE runtimeType = "tokio" /\ Tokio!Next
      BY <1>2, <2>2, TokioMaps DEF IInv, TypeOK, Aborted
    <2>3. CASE UNCHANGED vars
      BY <2>3 DEF vars, Tokio!vars, Abstract!vars, active, failed
    <2> QED
      BY <1>2, <2>1, <2>2, <2>3 DEF Next
  <1> QED
    BY <1>1, <1>2, JoinsInvariant, PTL DEF Spec

-----------------------------------------------------------------------------
(* A Server or a Client on a runtime: the runtime sees a task's events as  *)
(* its polls, and the Server sees a task that its runtime ends as one that *)
(* ends.                                                                   *)

LEMMA LifeRuns == [LifeNext]_lifeVars => [Next]_vars
  <1> SUFFICES ASSUME [LifeNext]_lifeVars PROVE [Next]_vars
    OBVIOUS
  <1> USE DEF vars, Tokio!vars, runtimeVars
  <1>1. CASE BuilderCall \/ RegisterOrUnregister \/ TellTasks
    BY <1>1 DEF BuilderCall, RegisterOrUnregister, TellTasks
  <1>2. CASE RuntimeStep
    BY <1>2 DEF RuntimeStep
  <1>3. ASSUME NEW t \in Tasks, TaskFails(t) PROVE Next
    <2>1. CASE runtimeType = "thread" /\ Thread!Fail(t) /\ UNCHANGED aborted
      BY <1>3, <2>1 DEF TaskFails, Next, Thread!Next, Tasks, Thread!Tasks
    <2>2. CASE runtimeType = "tokio" /\ Tokio!Fail(t) /\ UNCHANGED <<cancelled, aborted>>
      BY <1>3, <2>2 DEF TaskFails, Next, Tokio!Next, Tokio!Loop, Tasks, Tokio!Tasks
    <2> QED
      BY <1>3, <2>1, <2>2 DEF TaskFails
  <1>4. CASE \E t \in Tasks : HandleEvent(t)
    BY <1>3, <1>4 DEF HandleEvent
  <1>5. CASE UNCHANGED lifeVars
    BY <1>5 DEF lifeVars
  <1> QED
    BY <1>1, <1>2, <1>4, <1>5 DEF LifeNext

Places == {"unspawned", "loop", "sleep", "poll", "await", "running", "returned", "panicked"}

\* A step of the runtime ends one task at most: the others' channels stay open.
LEMMA EndsOne ==
  ASSUME IInv, Next
  PROVE  \/ UNCHANGED alive
         \/ \E t \in Tasks : alive[t] /\ alive' = [alive EXCEPT ![t] = FALSE]
  <1> USE DEF alive, Tasks, Ended
  <1>1. ASSUME NEW t \in Tasks, NEW place, Goto(t, place), task \in [Tasks -> Places],
               task[t] \notin Ended
        PROVE  \/ UNCHANGED alive
               \/ alive[t] /\ alive' = [alive EXCEPT ![t] = FALSE]
    <2>1. CASE place \in Ended
      BY <1>1, <2>1 DEF Goto
    <2>2. CASE place \notin Ended
      BY <1>1, <2>2 DEF Goto
    <2> QED
      BY <2>1, <2>2
  <1>2. task \in [Tasks -> Places]
    BY DEF IInv, TypeOK, Thread!TypeOK, Tokio!TypeOK, Thread!Tasks, Tokio!Tasks, Thread!Ended, Tokio!Ended, Places
  <1>3. owner = "building" /\ handles < TaskCount =>
            handles + 1 \in Tasks /\ task[handles + 1] = "unspawned"
    BY RuntimeAssumption
       DEF RuntimeAssumption, IInv, TypeOK, Unstarted, Thread!TypeOK, Tokio!TypeOK
  <1>4. CASE runtimeType = "thread" /\ Thread!Next
    <2> USE DEF Thread!Goto, Goto, Thread!Tasks
    <2>1. CASE UNCHANGED task
      BY <2>1
    <2>2. ASSUME NEW t \in Tasks, Thread!Run(t) \/ Thread!Fail(t)
          PROVE  UNCHANGED alive \/ (alive[t] /\ alive' = [alive EXCEPT ![t] = FALSE])
      BY <1>1, <1>2, <2>2 DEF Thread!Run, Thread!Fail
    <2>3. CASE Thread!Spawn /\ handles < TaskCount
      BY <1>1, <1>2, <1>3, <2>3 DEF Thread!Spawn
    <2> QED
      BY <1>4, <2>1, <2>2, <2>3
         DEF Thread!Next, Thread!Spawn, Thread!Cancel, Thread!Drop, Thread!Join, Thread!Rest, Thread!vars
  <1>5. CASE runtimeType = "tokio" /\ Tokio!Next
    <2> USE DEF Tokio!Goto, Goto, Tokio!Tasks
    <2>1. CASE UNCHANGED task
      BY <2>1
    <2>2. ASSUME NEW t \in Tasks, Tokio!Loop(t)
          PROVE  UNCHANGED alive \/ (alive[t] /\ alive' = [alive EXCEPT ![t] = FALSE])
      BY <1>1, <1>2, <2>2 DEF Tokio!Loop, Tokio!Wake, Tokio!AbortTakes, Tokio!Leave, Tokio!Yield, Tokio!Fail
    <2>3. CASE Tokio!Spawn /\ handles < TaskCount
      BY <1>1, <1>2, <1>3, <2>3 DEF Tokio!Spawn
    <2> QED
      BY <1>5, <2>1, <2>2, <2>3
         DEF Tokio!Next, Tokio!Spawn, Tokio!Cancel, Tokio!Drop, Tokio!Abort, Tokio!Rest, Tokio!vars
  <1> QED
    BY <1>4, <1>5 DEF Next

LEMMA LifeServes == IInv /\ [LifeNext]_lifeVars => [Library!Next]_(Library!vars)
  <1> SUFFICES ASSUME IInv, [LifeNext]_lifeVars PROVE [Library!Next]_(Library!vars)
    OBVIOUS
  <1> USE DEF Library!vars
  <1>1. Tasks = Library!Tasks
    BY DEF Tasks, Library!Tasks
  <1>2. CASE BuilderCall \/ UNCHANGED lifeVars
    BY <1>2 DEF BuilderCall, lifeVars, runtimeVars, serverVars, alive
  <1>3. CASE RuntimeStep
    <2>1. UNCHANGED <<sessions, call, calls, panicked, queue, known>> /\ Next
      BY <1>3 DEF RuntimeStep, serverVars
    <2>2. CASE UNCHANGED alive
      BY <2>1, <2>2
    <2>3. ASSUME NEW t \in Tasks, alive[t], alive' = [alive EXCEPT ![t] = FALSE]
          PROVE  Library!Next
      BY <1>1, <2>1, <2>3 DEF Library!Next, Library!TaskEnds
    <2> QED
      BY <2>1, <2>2, <2>3, EndsOne
  <1>4. CASE RegisterOrUnregister
    BY <1>4 DEF RegisterOrUnregister, Library!Next
  <1>5. CASE TellTasks
    BY <1>5 DEF TellTasks, Library!Next
  <1>6. CASE \E t \in Tasks : HandleEvent(t)
    BY <1>1, <1>6 DEF HandleEvent, Library!Next
  <1> QED
    BY <1>2, <1>3, <1>4, <1>5, <1>6 DEF LifeNext

\* The invariant of the runtimes holds from the builder's calls to the drop.
THEOREM LifeInvariance == LifeSpec => []IInv
  <1>1. LifeInit => IInv
    BY InitIInv DEF LifeInit
  <1>2. IInv /\ [LifeNext]_lifeVars => IInv'
    BY LifeRuns, NextIInv
  <1> QED
    BY <1>1, <1>2, PTL DEF LifeSpec

\* A Server, or a Client, on a ThreadRuntime is gone only after every task is,
\* whichever tasks and calls panic (thread_runtime.rs:57-60).
THEOREM LifeDropWaits == LifeSpec => []DropWaits
  BY LifeInvariance, DropSuffices, PTL

\* No suspended loop of a Server or a Client is run again once it is dropped,
\* however far the aborts had come when it was suspended (tokio_runtime.rs:57-66).
THEOREM LifeNoWakesAfterDrop == LifeSpec => NoWakeAfterDrop
  <1>1. IInv /\ [LifeNext]_lifeVars => [NoneWakes]_(Tokio!vars)
    BY LifeRuns, NextNoneWakes
  <1>2. LifeSpec => [][NoneWakes]_(Tokio!vars)
    BY <1>1, LifeInvariance, PTL DEF LifeSpec
  <1> QED
    BY <1>2 DEF NoWakeAfterDrop, Tokio!NoWakeAfterDrop, NoneWakes, Tokio!Tasks, Tasks

\* What is proved of module Server holds of a Server on a runtime.
LEMMA LifeIsServer == LifeSpec => Library!Spec
  <1>1. LifeInit => Library!Init
    BY DEF LifeInit
  <1> QED
    BY <1>1, LifeInvariance, LifeServes, PTL DEF LifeSpec, Library!Spec

-----------------------------------------------------------------------------
(***************************************************************************)
(* One call at a time, about a session of the map, and every channel leads *)
(* from what its task holds to what it was told.                           *)
(***************************************************************************)
OneCall == (\A c, d \in call : c = d) /\ (\A c \in call : c.event.id \in sessions)
Led     == \A t \in Library!Tasks : alive[t] => Leads(queue[t], known[t], Library!Announced(t))

ServerInv == Library!TypeOK /\ OneCall /\ Led

LEMMA InitServerInv == Library!Init => ServerInv
  <1> SUFFICES ASSUME Library!Init PROVE ServerInv
    OBVIOUS
  <1> USE RuntimeAssumption, LifetimeAssumption DEF RuntimeAssumption, LifetimeAssumption, Library!Init
  <1>1. Library!TypeOK
    <2>1. queue \in [Library!Tasks -> Seq(Library!Events)] /\ known \in [Library!Tasks -> SUBSET SessionIds]
      OBVIOUS
    <2>2. alive \in [Library!Tasks -> BOOLEAN] /\ panicked \in BOOLEAN
      OBVIOUS
    <2>3. calls \in 0 .. MaxCalls
      OBVIOUS
    <2>4. sessions \in SUBSET SessionIds /\ call = {}
      OBVIOUS
    <2> QED BY <2>1, <2>2, <2>3, <2>4 DEF Library!TypeOK
  <1>2. OneCall
    BY DEF OneCall
  <1>3. Led
    <2>1. \A t \in Library!Tasks : Library!Announced(t) = {}
      BY DEF Library!Announced
    <2> QED BY <2>1, EmptyLeads DEF Led
  <1> QED BY <1>1, <1>2, <1>3 DEF ServerInv

\* What a task was told of is a matter of the map and of the call.
LEMMA AnnouncedType ==
    ASSUME Library!TypeOK, NEW t \in Library!Tasks
    PROVE  Library!Announced(t) \in SUBSET SessionIds
  BY DEF Library!TypeOK, Library!Announced

\* Beginning a call or finishing one tells no task anything.
LEMMA BeginTells ==
    ASSUME OneCall, NEW t \in Library!Tasks, NEW id \in SessionIds,
           Library!BeginRegister(id) \/ Library!BeginUnregister(id)
    PROVE  Library!Announced(t)' = Library!Announced(t)
  <1>1. 1 <= t
    BY DEF Library!Tasks
  <1>2. ASSUME NEW e, e.id = id, call' = {[event |-> e, next |-> 1]}
        PROVE  {c.event.id : c \in {d \in call' : d.event.connects <=> d.next <= t}}
                 = IF e.connects THEN {id} ELSE {}
    <2>1. /\ [event |-> e, next |-> 1].event = e
          /\ [event |-> e, next |-> 1].next <= t
      BY <1>1
    <2> QED BY <1>2, <2>1, Zenon
  <1>3. CASE Library!BeginRegister(id) /\ Library!Cardinality(sessions) < MapCapacity
    <2> DEFINE e == [id |-> id, connects |-> TRUE]
    <2>1. call = {} /\ id \notin sessions /\ sessions' = sessions \cup {id}
      BY <1>3 DEF Library!BeginRegister, Library!MayCall
    <2>2. call' = {[event |-> e, next |-> 1]} /\ e.id = id /\ e.connects
      BY <1>3 DEF Library!BeginRegister, Library!Begin
    <2> HIDE DEF e
    <2>3. {c.event.id : c \in {d \in call' : d.event.connects <=> d.next <= t}} = {id}
      BY <1>2, <2>2
    <2> QED BY <2>1, <2>3 DEF Library!Announced
  <1>4. CASE Library!BeginRegister(id) /\ ~(Library!Cardinality(sessions) < MapCapacity)
    BY <1>4 DEF Library!BeginRegister, Library!Announced
  <1>5. CASE Library!BeginUnregister(id) /\ id \notin sessions
    BY <1>5 DEF Library!BeginUnregister, Library!Announced
  <1>6. CASE Library!BeginUnregister(id) /\ id \in sessions
    <2> DEFINE e == [id |-> id, connects |-> FALSE]
    <2>1. call = {} /\ UNCHANGED sessions
      BY <1>6 DEF Library!BeginUnregister, Library!MayCall
    <2>2. call' = {[event |-> e, next |-> 1]} /\ e.id = id /\ ~e.connects
      BY <1>6 DEF Library!BeginUnregister, Library!Begin
    <2> HIDE DEF e
    <2>3. {c.event.id : c \in {d \in call' : d.event.connects <=> d.next <= t}} = {}
      BY <1>2, <2>2
    <2> QED BY <2>1, <2>3 DEF Library!Announced
  <1> QED BY <1>3, <1>4, <1>5, <1>6

LEMMA FinishTells ==
    ASSUME OneCall, NEW t \in Library!Tasks, NEW c \in call, Library!FinishCall(c)
    PROVE  Library!Announced(t)' = Library!Announced(t)
  <1>1. /\ c.next = TaskCount + 1 /\ call' = {}
        /\ sessions' = IF c.event.connects THEN sessions ELSE sessions \ {c.event.id}
    BY DEF Library!FinishCall
  <1>2. call = {c}
    BY DEF OneCall
  <1>3. ~(c.next <= t)
    BY RuntimeAssumption, <1>1 DEF RuntimeAssumption, Library!Tasks
  <1>4. CASE c.event.connects
    BY <1>1, <1>2, <1>3, <1>4 DEF Library!Announced
  <1>5. CASE ~c.event.connects
    BY <1>1, <1>2, <1>3, <1>5 DEF Library!Announced
  <1> QED BY <1>4, <1>5

\* A call tells its event to one task, for which the event fits.
LEMMA SendTells ==
    ASSUME Library!TypeOK, OneCall, NEW t \in Library!Tasks, NEW c \in call,
           Library!SendEvent(c), alive[c.next]
    PROVE  /\ t = c.next => /\ Fits(Library!Announced(t), c.event)
                            /\ Library!Announced(t)' = After(Library!Announced(t), c.event)
           /\ t # c.next => Library!Announced(t)' = Library!Announced(t)
  <1> DEFINE d == [c EXCEPT !.next = @ + 1]
  <1>1. c.next \in Library!Tasks /\ call' = {d} /\ UNCHANGED sessions
    BY DEF Library!SendEvent
  <1>2. call = {c} /\ c.event.id \in sessions
    BY DEF OneCall
  <1>3. d.event = c.event /\ d.next = c.next + 1 /\ c.next \in Int /\ t \in Int
    <2>1. c \in [event : Library!Events, next : 1 .. TaskCount + 1]
      BY DEF Library!TypeOK
    <2> QED BY <1>1, <2>1 DEF Library!Tasks
  <1> HIDE DEF d
  <1>4. CASE t # c.next
    <2>1. d.next <= t <=> c.next <= t
      BY <1>3, <1>4
    <2>2. {x.event.id : x \in {y \in call' : y.event.connects <=> y.next <= t}}
            = {x.event.id : x \in {y \in call : y.event.connects <=> y.next <= t}}
      BY <1>1, <1>2, <1>3, <2>1, Zenon
    <2> QED BY <1>1, <1>4, <2>2 DEF Library!Announced
  <1>5. CASE t = c.next
    <2>1. c.next <= t /\ ~(d.next <= t)
      BY <1>3, <1>5
    <2>2. CASE c.event.connects
      <3>1. Library!Announced(t) = sessions \ {c.event.id}
        BY <1>2, <2>1, <2>2 DEF Library!Announced
      <3>2. Library!Announced(t)' = sessions
        BY <1>1, <1>3, <2>1, <2>2 DEF Library!Announced
      <3> QED BY <1>2, <1>5, <2>2, <3>1, <3>2 DEF After, Fits
    <2>3. CASE ~c.event.connects
      <3>1. Library!Announced(t) = sessions
        BY <1>2, <2>1, <2>3 DEF Library!Announced
      <3>2. Library!Announced(t)' = sessions \ {c.event.id}
        BY <1>1, <1>3, <2>1, <2>3 DEF Library!Announced
      <3> QED BY <1>2, <1>5, <2>3, <3>1, <3>2 DEF After, Fits
    <2> QED BY <2>2, <2>3
  <1> QED BY <1>4, <1>5

LEMMA BeginRegisterServerInv ==
    ASSUME ServerInv, NEW id \in SessionIds, Library!BeginRegister(id)
    PROVE  ServerInv'
  <1> USE RuntimeAssumption, LifetimeAssumption DEF RuntimeAssumption, LifetimeAssumption, ServerInv
  <1>1. CASE Library!Cardinality(sessions) < MapCapacity
    <2> DEFINE e == [id |-> id, connects |-> TRUE]
    <2>1. /\ call = {} /\ calls < MaxCalls /\ id \notin sessions
          /\ sessions' = sessions \cup {id}
          /\ call' = {[event |-> e, next |-> 1]} /\ calls' = calls + 1
          /\ UNCHANGED <<panicked, queue, known, alive>>
      BY <1>1 DEF Library!BeginRegister, Library!MayCall, Library!Begin
    <2>2. Library!TypeOK'
      <3>1. calls' \in 0 .. MaxCalls
        BY <2>1 DEF Library!TypeOK
      <3>2. [event |-> e, next |-> 1] \in [event : Library!Events, next : 1 .. TaskCount + 1]
        BY DEF Library!Events
      <3> QED BY <2>1, <3>1, <3>2 DEF Library!TypeOK
    <2>3. OneCall'
      BY <2>1 DEF OneCall
    <2>4. \A t \in Library!Tasks : Library!Announced(t)' = Library!Announced(t)
      BY BeginTells
    <2> QED BY <2>1, <2>2, <2>3, <2>4 DEF Led
  <1>2. CASE ~(Library!Cardinality(sessions) < MapCapacity)
    <2>1. panicked' = TRUE /\ UNCHANGED <<sessions, call, calls, queue, known, alive>>
      BY <1>2 DEF Library!BeginRegister
    <2> QED BY <2>1 DEF Library!TypeOK, OneCall, Led, Library!Announced
  <1> QED BY <1>1, <1>2

LEMMA BeginUnregisterServerInv ==
    ASSUME ServerInv, NEW id \in SessionIds, Library!BeginUnregister(id)
    PROVE  ServerInv'
  <1> USE RuntimeAssumption, LifetimeAssumption DEF RuntimeAssumption, LifetimeAssumption, ServerInv
  <1>1. CASE id \in sessions
    <2> DEFINE e == [id |-> id, connects |-> FALSE]
    <2>1. /\ call = {} /\ calls < MaxCalls
          /\ call' = {[event |-> e, next |-> 1]} /\ calls' = calls + 1
          /\ UNCHANGED <<sessions, panicked, queue, known, alive>>
      BY <1>1 DEF Library!BeginUnregister, Library!MayCall, Library!Begin
    <2>2. Library!TypeOK'
      <3>1. calls' \in 0 .. MaxCalls
        BY <2>1 DEF Library!TypeOK
      <3>2. [event |-> e, next |-> 1] \in [event : Library!Events, next : 1 .. TaskCount + 1]
        BY DEF Library!Events
      <3> QED BY <2>1, <3>1, <3>2 DEF Library!TypeOK
    <2>3. OneCall'
      BY <1>1, <2>1 DEF OneCall
    <2>4. \A t \in Library!Tasks : Library!Announced(t)' = Library!Announced(t)
      BY BeginTells
    <2> QED BY <2>1, <2>2, <2>3, <2>4 DEF Led
  <1>2. CASE id \notin sessions
    <2>1. panicked' = TRUE /\ UNCHANGED <<sessions, call, calls, queue, known, alive>>
      BY <1>2 DEF Library!BeginUnregister
    <2> QED BY <2>1 DEF Library!TypeOK, OneCall, Led, Library!Announced
  <1> QED BY <1>1, <1>2

LEMMA SendEventServerInv ==
    ASSUME ServerInv, NEW c \in call, Library!SendEvent(c)
    PROVE  ServerInv'
  <1> USE RuntimeAssumption DEF RuntimeAssumption, ServerInv
  <1>1. CASE alive[c.next]
    <2> DEFINE s == c.next
               d == [c EXCEPT !.next = @ + 1]
    <2>1. /\ s \in Library!Tasks
          /\ queue' = [queue EXCEPT ![s] = Append(@, c.event)]
          /\ call' = {d}
          /\ UNCHANGED <<panicked, sessions, calls, known, alive>>
      BY <1>1 DEF Library!SendEvent
    <2>2. call = {c} /\ c.event.id \in sessions
      BY DEF OneCall
    <2>3. c \in [event : Library!Events, next : 1 .. TaskCount + 1] /\ c.event \in Library!Events
      BY DEF Library!TypeOK
    <2>4. d.event = c.event /\ d.next = s + 1 /\ s \in 1 .. TaskCount
      BY <2>1, <2>3 DEF Library!Tasks
    <2>5. d \in [event : Library!Events, next : 1 .. TaskCount + 1]
      BY <2>3, <2>4
    <2>6. queue' \in [Library!Tasks -> Seq(Library!Events)]
      BY <2>1, <2>3 DEF Library!TypeOK
    <2>7. Library!TypeOK'
      BY <2>1, <2>5, <2>6 DEF Library!TypeOK
    <2>8. OneCall'
      BY <2>1, <2>2, <2>4 DEF OneCall
    <2> HIDE DEF d
    <2>9. ASSUME NEW t \in Library!Tasks, t # s PROVE Library!Announced(t)' = Library!Announced(t)
      BY <1>1, <2>9, SendTells
    <2>10. Library!Announced(s)' = After(Library!Announced(s), c.event) /\ Fits(Library!Announced(s), c.event)
      BY <1>1, <2>1, SendTells
    <2>11. Led'
      <3> SUFFICES ASSUME NEW t \in Library!Tasks, alive[t]
                   PROVE  Leads(queue'[t], known[t], Library!Announced(t)')
        BY <2>1 DEF Led
      <3>1. CASE t # s
        BY <2>1, <2>9, <3>1 DEF Led, Library!TypeOK
      <3>2. CASE t = s
        <4>1. queue'[s] = Append(queue[s], c.event)
          BY <2>1 DEF Library!TypeOK
        <4>2. queue[s] \in Seq(Library!Events) /\ known[s] \in SUBSET SessionIds
          BY <2>1 DEF Library!TypeOK
        <4>3. Leads(queue[s], known[s], Library!Announced(s))
          BY <2>1, <3>2 DEF Led
        <4>4. Library!Announced(s) \in SUBSET SessionIds
          BY <2>1, AnnouncedType
        <4>5. Leads(Append(queue[s], c.event), known[s], After(Library!Announced(s), c.event))
          BY <2>3, <2>10, <4>2, <4>3, <4>4, AppendLeads DEF Library!Events
        <4> QED BY <2>10, <3>2, <4>1, <4>5
      <3> QED BY <3>1, <3>2
    <2> QED BY <2>7, <2>8, <2>11
  <1>2. CASE ~alive[c.next]
    <2>1. panicked' = TRUE /\ UNCHANGED <<sessions, call, calls, queue, known, alive>>
      BY <1>2 DEF Library!SendEvent
    <2> QED BY <2>1 DEF Library!TypeOK, OneCall, Led, Library!Announced
  <1> QED BY <1>1, <1>2

LEMMA FinishCallServerInv ==
    ASSUME ServerInv, NEW c \in call, Library!FinishCall(c)
    PROVE  ServerInv'
  <1> USE RuntimeAssumption DEF RuntimeAssumption, ServerInv
  <1>1. /\ c.next = TaskCount + 1 /\ call' = {}
        /\ sessions' = IF c.event.connects THEN sessions ELSE sessions \ {c.event.id}
        /\ UNCHANGED <<calls, panicked, queue, known, alive>>
    BY DEF Library!FinishCall
  <1>2. call = {c}
    BY DEF OneCall
  <1>3. Library!TypeOK'
    BY <1>1 DEF Library!TypeOK
  <1>4. OneCall'
    BY <1>1 DEF OneCall
  <1>5. ASSUME NEW t \in Library!Tasks PROVE Library!Announced(t)' = Library!Announced(t)
    BY FinishTells
  <1> QED BY <1>1, <1>3, <1>4, <1>5 DEF Led

LEMMA TaskServerInv ==
    ASSUME ServerInv, NEW t \in Library!Tasks, Library!HandleEvent(t) \/ Library!TaskEnds(t)
    PROVE  ServerInv'
  <1> USE RuntimeAssumption DEF RuntimeAssumption, ServerInv
  <1>1. \A s \in Library!Tasks : Library!Announced(s)' = Library!Announced(s)
    BY DEF Library!HandleEvent, Library!TaskEnds, Library!Announced
  <1>2. CASE Library!HandleEvent(t)
    <2> DEFINE e == Head(queue[t])
    <2>1. /\ queue[t] \in Seq(Library!Events) /\ known[t] \in SUBSET SessionIds
          /\ Library!Announced(t) \in SUBSET SessionIds
          /\ Leads(queue[t], known[t], Library!Announced(t)) /\ queue[t] # <<>>
      BY <1>2, AnnouncedType DEF Library!HandleEvent, Library!TypeOK, Led
    <2>2. Fits(known[t], e) /\ Leads(Tail(queue[t]), After(known[t], e), Library!Announced(t))
      BY <2>1, TailLeads DEF Library!Events
    <2>3. /\ known' = [known EXCEPT ![t] = After(@, e)]
          /\ queue' = [queue EXCEPT ![t] = Tail(@)]
          /\ UNCHANGED <<alive, sessions, call, calls, panicked>>
      BY <1>2, <2>2 DEF Library!HandleEvent, Library!Fits, Library!After, Fits, After
    <2>4. Tail(queue[t]) \in Seq(Library!Events) /\ e \in Library!Events
      BY <2>1
    <2>5. After(known[t], e) \in SUBSET SessionIds
      BY <2>1, <2>4 DEF After, Library!Events
    <2>6. queue' \in [Library!Tasks -> Seq(Library!Events)] /\ known' \in [Library!Tasks -> SUBSET SessionIds]
      BY <2>3, <2>4, <2>5 DEF Library!TypeOK
    <2>7. Library!TypeOK'
      BY <2>3, <2>6 DEF Library!TypeOK
    <2>8. OneCall'
      BY <2>3 DEF OneCall
    <2>9. Led'
      <3> SUFFICES ASSUME NEW s \in Library!Tasks, alive[s]
                   PROVE  Leads(queue'[s], known'[s], Library!Announced(s))
        BY <1>1, <2>3 DEF Led
      <3>1. CASE s = t
        BY <2>2, <2>3, <3>1 DEF Library!TypeOK
      <3>2. CASE s # t
        BY <2>3, <3>2 DEF Library!TypeOK, Led
      <3> QED BY <3>1, <3>2
    <2> QED BY <2>7, <2>8, <2>9
  <1>3. CASE Library!TaskEnds(t)
    BY <1>1, <1>3 DEF Library!TaskEnds, Library!TypeOK, OneCall, Led
  <1> QED BY <1>2, <1>3

LEMMA NextServerInv == ServerInv /\ [Library!Next]_(Library!vars) => ServerInv'
  <1> SUFFICES ASSUME ServerInv, [Library!Next]_(Library!vars) PROVE ServerInv'
    OBVIOUS
  <1>1. CASE UNCHANGED Library!vars
    BY <1>1 DEF Library!vars, ServerInv, Library!TypeOK, OneCall, Led, Library!Announced
  <1> QED BY <1>1, BeginRegisterServerInv, BeginUnregisterServerInv, SendEventServerInv, FinishCallServerInv, TaskServerInv
          DEF Library!Next

LEMMA Latest ==
    ASSUME NEW S \in SUBSET Nat, NEW n \in Nat, \A i \in S : i <= n, S # {}
    PROVE  \E i \in S : \A j \in S : j <= i
  <1> DEFINE R == {ss \in Nat \X Nat : ss[1] < ss[2]}
             T == {m \in Nat : n - m \in S}
  <1>1. IsWellFoundedOn(R, Nat)
    BY NatLessThanWellFounded DEF OpToRel
  <1>2. T # {}
    <2>1. PICK i \in S : TRUE
      OBVIOUS
    <2>2. n - i \in Nat /\ n - (n - i) = i
      BY <2>1
    <2> QED BY <2>1, <2>2
  <1>3. PICK m \in T : \A k \in T : ~ (<<k, m>> \in R)
    BY <1>1, <1>2, WFMin, Zenon
  <1>4. m \in Nat /\ n - m \in S
    OBVIOUS
  <1>5. ASSUME NEW j \in S PROVE j <= n - m
    <2>1. n - j \in Nat /\ n - (n - j) = j /\ j \in Nat
      OBVIOUS
    <2>2. n - j \in T
      BY <2>1
    <2>3. ~(n - j < m)
      BY <1>3, <1>4, <2>1, <2>2
    <2> QED BY <1>4, <2>1, <2>3
  <1> QED BY <1>4, <1>5

LEMMA ServerInvSuffices == ServerInv => NoEventPanic /\ Agree
  <1> SUFFICES ASSUME ServerInv PROVE Library!NoEventPanic /\ Library!Agree
    BY DEF NoEventPanic, Agree
  <1> USE RuntimeAssumption DEF RuntimeAssumption, ServerInv
  <1>1. Library!NoEventPanic
    <2> SUFFICES ASSUME NEW t \in Library!Tasks, alive[t], queue[t] # <<>>
                 PROVE  Fits(known[t], Head(queue[t]))
      BY DEF Library!NoEventPanic, Library!Fits, Fits
    <2>1. /\ queue[t] \in Seq(Library!Events) /\ known[t] \in SUBSET SessionIds
          /\ Library!Announced(t) \in SUBSET SessionIds
      BY AnnouncedType DEF Library!TypeOK
    <2>2. Leads(queue[t], known[t], Library!Announced(t))
      BY DEF Led
    <2> QED BY <2>1, <2>2, TailLeads DEF Library!Events
  <1>2. Library!Agree
    <2> SUFFICES ASSUME NEW t \in Library!Tasks, NEW id \in SessionIds, alive[t]
                 PROVE  LET waiting == {i \in DOMAIN queue[t] : queue[t][i].id = id}
                            last    == CHOOSE i \in waiting : \A j \in waiting : j <= i
                        IN  id \in Library!Announced(t) <=> IF waiting = {} THEN id \in known[t]
                                                      ELSE queue[t][last].connects
      BY DEF Library!Agree
    <2> DEFINE q       == queue[t]
               waiting == {i \in DOMAIN q : q[i].id = id}
               last    == CHOOSE i \in waiting : \A j \in waiting : j <= i
    <2>1. Leads(q, known[t], Library!Announced(t))
      BY DEF Led
    <2>2. DOMAIN q = 1 .. Len(q) /\ Len(q) \in Nat
      BY DEF Library!TypeOK
    <2>3. CASE waiting = {}
      <3>1. \A i \in DOMAIN q : q[i].id # id
        BY <2>3
      <3> QED BY <2>1, <2>3, <3>1 DEF Leads, OthersKept
    <2>4. CASE waiting # {}
      <3>1. waiting \in SUBSET Nat /\ \A i \in waiting : i <= Len(q)
        BY <2>2
      <3>2. \E i \in waiting : \A j \in waiting : j <= i
        BY <2>2, <2>4, <3>1, Latest
      <3>3. last \in waiting /\ \A j \in waiting : j <= last
        BY <3>2, Zenon
      <3> HIDE DEF last
      <3>4. last \in DOMAIN q /\ q[last].id = id
        BY <3>3
      <3>5. \A j \in last + 1 .. Len(q) : q[j].id # q[last].id
        <4> SUFFICES ASSUME NEW j \in last + 1 .. Len(q), q[j].id = q[last].id PROVE FALSE
          OBVIOUS
        <4>1. j \in waiting /\ last < j
          BY <2>2, <3>4
        <4> QED BY <2>2, <3>3, <3>4, <4>1
      <3>6. q[last].connects <=> q[last].id \in Library!Announced(t)
        BY <2>1, <3>4, <3>5 DEF Leads, LastLeaves
      <3> QED BY <2>4, <3>4, <3>6 DEF last
    <2> QED BY <2>3, <2>4
  <1> QED BY <1>1, <1>2

\* Whichever calls panic half way and whichever tasks end, every channel leads from
\* what its task holds to what it was told (server.rs:52-77).
THEOREM ServerInvariance == Library!Spec => []ServerInv
  BY InitServerInv, NextServerInv, PTL DEF Library!Spec

\* No call that panics half way, no cancellation and no task that panics leaves a
\* running task with an event it cannot handle, or disagreeing with the Server by
\* more than its channel and the call in progress (server.rs:52-77).
THEOREM ServerInvariants == Library!Spec => [](NoEventPanic /\ Agree)
  BY ServerInvariance, ServerInvSuffices, PTL

\* On either runtime no event loop meets a duplicate or an unknown id
\* (client_to_server_receiver.rs:121,128; server_to_client_sender.rs:117,124).
THEOREM LifeNeverPanics == LifeSpec => []NoEventPanic
  BY LifeIsServer, ServerInvariants, PTL

\* On either runtime a running task disagrees with the Server only by its channel
\* and the call in progress (server.rs:52-77).
THEOREM LifeAgrees == LifeSpec => []Agree
  BY LifeIsServer, ServerInvariants, PTL

Drained == \A t \in Tasks : alive[t] /\ queue[t] = <<>> /\ call = {} => known[t] = sessions

\* What Converges rests on but for progress: between two calls, a running task that
\* has emptied its channel holds exactly the registered sessions, on either runtime
\* (server.rs:52-77, client_to_server_receiver.rs:103-142).
THEOREM DrainedAgree == LifeSpec => []Drained
  <1>1. ServerInv => Drained
    <2> SUFFICES ASSUME ServerInv, NEW t \in Tasks, alive[t], queue[t] = <<>>, call = {}
                 PROVE  known[t] = sessions
      BY DEF Drained
    <2>1. Library!Announced(t) = sessions
      BY DEF Library!Announced
    <2>2. Leads(<<>>, known[t], sessions)
      BY <2>1 DEF ServerInv, Led, Tasks, Library!Tasks
    <2>3. \A id \in known[t] \cup sessions : id \in known[t] <=> id \in sessions
      BY <2>2 DEF Leads, OthersKept
    <2> QED BY <2>3
  <1> QED BY <1>1, LifeIsServer, ServerInvariance, PTL

\* A step of the Server is one of the channel to a task, or leaves it alone.
LEMMA NextTells ==
  ASSUME Library!TypeOK, OneCall, [Library!Next]_(Library!vars), NEW t \in Library!Tasks
  PROVE  [Library!Channel(t)!EventsNext]_(Library!Channel(t)!eventVars)
  <1> USE DEF Library!Channel!eventVars
  <1>1. queue[t] \in Seq(Library!Events) /\ queue \in [Library!Tasks -> Seq(Library!Events)]
    BY DEF Library!TypeOK
  <1>2. CASE queue'[t] = queue[t] /\ Library!Announced(t)' = Library!Announced(t)
    BY <1>2
  <1>3. ASSUME NEW id \in SessionIds, Library!BeginRegister(id) \/ Library!BeginUnregister(id)
        PROVE  queue' = queue /\ Library!Announced(t)' = Library!Announced(t)
    BY <1>3, BeginTells DEF Library!BeginRegister, Library!BeginUnregister
  <1>4. ASSUME NEW c \in call, Library!FinishCall(c)
        PROVE  queue' = queue /\ Library!Announced(t)' = Library!Announced(t)
    BY <1>4, FinishTells DEF Library!FinishCall
  <1>5. ASSUME NEW c \in call, Library!SendEvent(c)
        PROVE  [Library!Channel(t)!EventsNext]_(Library!Channel(t)!eventVars)
    <2>1. CASE ~alive[c.next]
      BY <1>2, <1>5, <2>1 DEF Library!SendEvent, Library!Announced
    <2>2. CASE alive[c.next] /\ t # c.next
      BY <1>1, <1>2, <1>5, <2>2, SendTells DEF Library!SendEvent
    <2>3. CASE alive[c.next] /\ t = c.next
      <3>1. queue'[t] = Append(queue[t], c.event)
        BY <1>1, <1>5, <2>3 DEF Library!SendEvent
      <3>2. /\ Fits(Library!Announced(t), c.event)
            /\ Library!Announced(t)' = After(Library!Announced(t), c.event)
        BY <1>5, <2>3, SendTells
      <3>3. /\ c.event.id \in SessionIds /\ c.event.connects \in BOOLEAN
            /\ c.event = [id |-> c.event.id, connects |-> c.event.connects]
        <4>1. c.event \in Library!Events
          BY DEF Library!TypeOK
        <4> QED BY <4>1 DEF Library!Events
      <3>4. CASE c.event.connects
        <4>1. Library!Channel(t)!AnnounceConnected(c.event.id)
          BY <3>1, <3>2, <3>3, <3>4 DEF Fits, After, Library!Channel!AnnounceConnected, Library!Channel!Connected
        <4> QED BY <3>3, <4>1 DEF Library!Channel!EventsNext
      <3>5. CASE ~c.event.connects
        <4>1. Library!Channel(t)!AnnounceDisconnected(c.event.id)
          BY <3>1, <3>2, <3>3, <3>5
             DEF Fits, After, Library!Channel!AnnounceDisconnected, Library!Channel!Disconnected
        <4> QED BY <3>3, <4>1 DEF Library!Channel!EventsNext
      <3> QED BY <3>4, <3>5
    <2> QED BY <2>1, <2>2, <2>3
  <1>6. ASSUME NEW s \in Library!Tasks, Library!HandleEvent(s) \/ Library!TaskEnds(s)
        PROVE  [Library!Channel(t)!EventsNext]_(Library!Channel(t)!eventVars)
    <2>1. Library!Announced(t)' = Library!Announced(t)
      BY <1>6 DEF Library!HandleEvent, Library!TaskEnds, Library!Announced
    <2>2. CASE Library!HandleEvent(s) /\ s = t
      <3>1. Library!Channel(t)!TakeEvent
        BY <1>1, <2>1, <2>2 DEF Library!HandleEvent, Library!Channel!TakeEvent
      <3> QED BY <3>1 DEF Library!Channel!EventsNext
    <2>3. CASE Library!TaskEnds(s) \/ s # t
      BY <1>1, <1>2, <1>6, <2>1, <2>3 DEF Library!HandleEvent, Library!TaskEnds
    <2> QED BY <1>6, <2>2, <2>3
  <1>7. CASE UNCHANGED Library!vars
    BY <1>2, <1>7 DEF Library!vars, Library!Announced
  <1> QED BY <1>2, <1>3, <1>4, <1>5, <1>6, <1>7 DEF Library!Next

\* What the tasks rely on, the Server keeps to: what comes out of a task's channel
\* are, for each id, Connected and Disconnected events in turn
\* (server_session_event.rs, server.rs:52-77).
THEOREM ServerTellsTasks == Library!Spec => TasksTold
  <1>1. Library!Init => \A t \in Library!Tasks : Library!Channel(t)!EventsInit
    BY DEF Library!Init, Library!Channel!EventsInit, Library!Announced
  <1>2. ServerInv /\ [Library!Next]_(Library!vars) =>
            [\A t \in Library!Tasks :
                [Library!Channel(t)!EventsNext]_(Library!Channel(t)!eventVars)]_(Library!vars)
    BY NextTells DEF ServerInv
  <1> QED
    BY <1>1, <1>2, ServerInvariance, PTL DEF Library!Spec, Library!TasksTold, TasksTold

\* The same of a Server on either runtime.
THEOREM LifeTasksTold == LifeSpec => TasksTold
  BY LifeIsServer, ServerTellsTasks, PTL

-----------------------------------------------------------------------------
(***************************************************************************)
(* A call that fails half way has a cause, which lasts: a task that ended  *)
(* without a panic was cancelled.  A call that fails its assertion leaves  *)
(* none in progress, and no other begins after it.                         *)
(***************************************************************************)
Caused == \A t \in Tasks : task[t] = "returned" => cancelled

CallsInv == IInv /\ Caused /\ CallsFail

LEMMA RunsCaused ==
  ASSUME IInv, Caused, [Next]_vars
  PROVE  Caused' /\ (cancelled => cancelled') /\ (failed # {} => failed' # {})
  <1> USE RuntimeAssumption DEF RuntimeAssumption, Tasks, Caused, failed
  <1>1. CASE runtimeType = "thread" /\ Thread!Next
    <2> USE DEF Thread!Goto, Thread!Tasks, Thread!TypeOK, Thread!Ended
    <2>1. Thread!TypeOK /\ Unstarted
      BY <1>1 DEF IInv, TypeOK
    <2>2. ASSUME NEW t \in Tasks, Thread!Run(t) \/ Thread!Fail(t)
          PROVE  Caused' /\ (cancelled => cancelled') /\ (failed # {} => failed' # {})
      BY <2>1, <2>2 DEF Thread!Run, Thread!Fail
    <2>3. CASE Thread!Spawn
      BY <2>1, <2>3 DEF Thread!Spawn, Unstarted
    <2> QED
      BY <1>1, <2>1, <2>2, <2>3
         DEF Thread!Next, Thread!Cancel, Thread!Drop, Thread!Join, Thread!Rest, Thread!vars
  <1>2. CASE runtimeType = "tokio" /\ Tokio!Next
    <2> USE DEF Tokio!Goto, Tokio!Tasks, Tokio!TypeOK, Tokio!Ended
    <2>1. Tokio!TypeOK /\ Unstarted /\ Aborted
      BY <1>2 DEF IInv, TypeOK
    <2>2. ASSUME NEW t \in Tasks, Tokio!Loop(t)
          PROVE  Caused' /\ (cancelled => cancelled') /\ (failed # {} => failed' # {})
      BY <2>1, <2>2 DEF Tokio!Loop, Tokio!Wake, Tokio!AbortTakes, Tokio!Leave, Tokio!Yield, Tokio!Fail, Aborted
    <2>3. CASE Tokio!Spawn
      BY <2>1, <2>3 DEF Tokio!Spawn, Unstarted
    <2> QED
      BY <1>2, <2>1, <2>2, <2>3
         DEF Tokio!Next, Tokio!Cancel, Tokio!Drop, Tokio!Abort, Tokio!Rest, Tokio!vars
  <1>3. CASE UNCHANGED vars
    BY <1>3 DEF vars, Tokio!vars
  <1> QED
    BY <1>1, <1>2, <1>3 DEF Next

LEMMA NextCallsInv == CallsInv /\ [LifeNext]_lifeVars => CallsInv'
  <1> SUFFICES ASSUME CallsInv, [LifeNext]_lifeVars PROVE CallsInv'
    OBVIOUS
  <1> USE DEF CallsInv
  <1>1. IInv' /\ Caused' /\ (cancelled => cancelled') /\ (failed # {} => failed' # {})
    BY LifeRuns, NextIInv, RunsCaused
  <1>2. CASE UNCHANGED <<call, panicked>>
    BY <1>1, <1>2 DEF CallsFail
  <1>3. ASSUME NEW id \in SessionIds, Library!BeginRegister(id) \/ Library!BeginUnregister(id)
        PROVE  CallsInv'
    <2>1. panicked = FALSE /\ call = {}
      BY <1>3 DEF Library!BeginRegister, Library!BeginUnregister, Library!MayCall
    <2>2. UNCHANGED panicked \/ UNCHANGED call
      BY <1>3 DEF Library!BeginRegister, Library!BeginUnregister
    <2> QED
      BY <1>1, <2>1, <2>2 DEF CallsFail
  <1>4. ASSUME NEW c \in call, Library!SendEvent(c), UNCHANGED runtimeVars
        PROVE  CallsInv'
    <2>1. CASE alive[c.next]
      BY <1>1, <1>4, <2>1 DEF Library!SendEvent, CallsFail
    <2>2. CASE ~alive[c.next]
      <3>1. c.next \in Tasks /\ task[c.next] \in Ended
        BY <1>4, <2>2 DEF Library!SendEvent, Library!Tasks, Tasks, alive
      <3>2. cancelled \/ failed # {}
        BY <3>1 DEF Caused, failed, Ended
      <3> QED
        BY <1>1, <1>4, <3>2 DEF Library!SendEvent, CallsFail
    <2> QED
      BY <2>1, <2>2
  <1>5. ASSUME NEW c \in call, Library!FinishCall(c)
        PROVE  CallsInv'
    BY <1>1, <1>5 DEF Library!FinishCall, CallsFail
  <1>6. CASE RegisterOrUnregister
    BY <1>3, <1>6 DEF RegisterOrUnregister
  <1>7. CASE TellTasks
    BY <1>4, <1>5, <1>7 DEF TellTasks
  <1>8. CASE BuilderCall \/ RuntimeStep \/ UNCHANGED lifeVars
    BY <1>2, <1>8 DEF BuilderCall, RuntimeStep, lifeVars, serverVars
  <1>9. CASE \E t \in Tasks : HandleEvent(t)
    BY <1>2, <1>9 DEF HandleEvent, Library!HandleEvent
  <1> QED
    BY <1>6, <1>7, <1>8, <1>9 DEF LifeNext

\* A call of register or unregister that got past its assertion panics half way only
\* if somebody has cancelled the token or a task's poll has panicked
\* (server.rs:60-64,71-75), on either runtime.
THEOREM CallsFailWithCause == LifeSpec => []CallsFail
  <1>1. LifeInit => CallsInv
    <2> SUFFICES ASSUME LifeInit PROVE CallsInv
      OBVIOUS
    <2>1. IInv /\ call = {} /\ panicked = FALSE
      BY InitIInv DEF LifeInit, Library!Init
    <2>2. Caused
      BY DEF LifeInit, Init, Thread!Init, Thread!Tasks, Tasks, Caused
    <2> QED
      BY <2>1, <2>2 DEF CallsInv, CallsFail
  <1>2. CallsInv => CallsFail
    BY DEF CallsInv
  <1> QED
    BY <1>1, <1>2, NextCallsInv, PTL DEF LifeSpec

-----------------------------------------------------------------------------
(***************************************************************************)
(* What the builders have kept of the streams they were called for.  A     *)
(* client keeps every port.  A server keeps the mapper ports, and the      *)
(* sockets it has bound keep every port.                                   *)
(***************************************************************************)
MapperPorts(n) == {program.streams[i].mapperPort : i \in 1 .. n}
AllPorts(n)    == UNION {Builder!PortsOf(program.streams[i]) : i \in 1 .. n}

Kept ==
    /\ program \in Programs
    /\ made \in 0 .. Len(program.streams)
    /\ Builder!SocketsBound =>
          /\ program.server => ports = MapperPorts(made) /\ bound = AllPorts(made)
          /\ ~program.server => ports = AllPorts(made)

LEMMA NextPortsDistinct ==
  ASSUME Kept, made < Len(program.streams)
  PROVE  LET s == program.streams[made + 1] IN
         /\ s \in Builder!Streams
         /\ MapperPorts(made + 1) = MapperPorts(made) \cup {s.mapperPort}
         /\ AllPorts(made + 1) = AllPorts(made) \cup Builder!PortsOf(s)
         /\ MapperPorts(made) \subseteq AllPorts(made)
         /\ Builder!PortsDistinct(made + 1) <=>
                /\ Builder!PortsDistinct(made)
                /\ s.mapperPort # s.port
                /\ Builder!PortsOf(s) \cap AllPorts(made) = {}
  <1> DEFINE s == program.streams[made + 1]
  <1>1. /\ made \in Nat /\ 1 .. made + 1 = 1 .. made \cup {made + 1} /\ 1 .. (made + 1) - 1 = 1 .. made
        /\ program.streams \in Seq(Builder!Streams)
    BY ProgramsAssumption DEF ProgramsAssumption, Kept
  <1>2. \A i \in 1 .. made + 1 : program.streams[i] \in Builder!Streams
    BY <1>1
  <1>3. MapperPorts(made) \subseteq AllPorts(made)
    BY <1>1, <1>2 DEF MapperPorts, AllPorts, Builder!PortsOf, Builder!Streams, Builder!NoPort
  <1>4. MapperPorts(made + 1) = MapperPorts(made) \cup {s.mapperPort}
    BY <1>1 DEF MapperPorts
  <1>5. AllPorts(made + 1) = AllPorts(made) \cup Builder!PortsOf(s)
    BY <1>1 DEF AllPorts
  <1>6. Builder!PortsOf(s) \cap AllPorts(made) = {} <=>
            \A j \in 1 .. made : Builder!PortsOf(s) \cap Builder!PortsOf(program.streams[j]) = {}
    BY DEF AllPorts
  <1> QED
    BY <1>1, <1>2, <1>3, <1>4, <1>5, <1>6 DEF Builder!PortsDistinct

LEMMA CallKeeps ==
  ASSUME Kept, BuildsAlike, Builder!Call
  PROVE  Kept' /\ BuildsAlike'
  <1> DEFINE s == program.streams[made + 1]
  <1> USE DEF BuildsAlike, Builder!BuildsAlike
  <1>1. outcome = "open" /\ made < Len(program.streams) /\ made \in Nat
    BY DEF Builder!Call, Kept
  <1>2. UNCHANGED program /\ (Builder!SocketsBound <=> Builder!SocketsBound')
    BY DEF Builder!Call, Builder!ServerCall, Builder!ClientCall, Builder!Keep, Builder!Drop, Builder!SocketsBound
  <1>3. CASE Builder!Drop("failed")
    BY <1>1, <1>2, <1>3
       DEF Builder!Drop, Kept, MapperPorts, AllPorts, Builder!PortsDistinct
  <1>4. CASE ~Builder!SocketsBound
    BY <1>1, <1>2, <1>4
       DEF Kept, Builder!Call, Builder!ServerCall, Builder!ClientCall, Builder!Keep, Builder!Drop
  <1>5. Builder!SocketsBound =>
            /\ Builder!PortsDistinct(made)
            /\ program.server => ports = MapperPorts(made) /\ bound = AllPorts(made)
            /\ ~program.server => ports = AllPorts(made)
    BY DEF Kept
  <1>6. CASE /\ Builder!Drop("refused")
             /\ ~Builder!PortsDistinct(made + 1)
    <2>1. UNCHANGED <<program, made, ports, bound>> /\ outcome' = "refused"
      BY <1>6 DEF Builder!Drop
    <2>2. /\ Builder!PortsDistinct(made)' <=> Builder!PortsDistinct(made)
          /\ Builder!PortsDistinct(made + 1)' <=> Builder!PortsDistinct(made + 1)
          /\ MapperPorts(made)' = MapperPorts(made)
          /\ AllPorts(made)' = AllPorts(made)
      BY <2>1 DEF MapperPorts, AllPorts, Builder!PortsDistinct
    <2>3. Kept'
      BY <1>2, <2>1, <2>2 DEF Kept
    <2> QED
      BY <1>2, <1>6, <2>1, <2>2, <2>3
  <1>7. CASE /\ made' = made + 1 /\ UNCHANGED outcome
             /\ Builder!PortsDistinct(made + 1)
             /\ program.server => ports' = MapperPorts(made + 1) /\ bound' = AllPorts(made + 1)
             /\ ~program.server => ports' = AllPorts(made + 1)
    <2>1. /\ Builder!PortsDistinct(made)' <=> Builder!PortsDistinct(made + 1)
          /\ MapperPorts(made)' = MapperPorts(made + 1)
          /\ AllPorts(made)' = AllPorts(made + 1)
      BY <1>2, <1>7 DEF MapperPorts, AllPorts, Builder!PortsDistinct
    <2>2. program' \in Programs /\ made' \in 0 .. Len(program'.streams)
      BY <1>1, <1>2, <1>7 DEF Kept
    <2> QED
      BY <1>1, <1>2, <1>7, <2>1, <2>2 DEF Kept
  <1>8. CASE program.server /\ Builder!SocketsBound /\ Builder!ServerCall(s)
    <2>1. Builder!SocketsFit(s) <=> Builder!PortsOf(s) \cap bound = {} /\ s.mapperPort # s.port
      BY <1>1, <1>8 DEF Builder!SocketsBound, Builder!SocketsFit, Builder!Binds, Kept
    <2>2. s.mapperPort \in Builder!PortsOf(s)
      BY <1>1, NextPortsDistinct DEF Builder!PortsOf, Builder!Streams, Builder!NoPort
    <2>3. Builder!PortsDistinct(made + 1) <=> Builder!SocketsFit(s) /\ s.mapperPort \notin ports
      BY <1>1, <1>8, <1>5, <2>1, <2>2, NextPortsDistinct
    <2>4. CASE Builder!SocketsFit(s) /\ s.mapperPort \notin ports
      BY <1>1, <1>8, <1>5, <1>7, <2>3, <2>4, NextPortsDistinct DEF Builder!ServerCall, Builder!Keep
    <2>5. CASE ~(Builder!SocketsFit(s) /\ s.mapperPort \notin ports)
      BY <1>8, <1>6, <2>3, <2>5 DEF Builder!ServerCall
    <2> QED
      BY <2>4, <2>5
  <1>9. CASE ~program.server /\ Builder!SocketsBound /\ Builder!ClientCall(s)
    <2>1. Builder!PortsDistinct(made + 1) <=> Builder!PortsOf(s) \cap ports = {} /\ s.mapperPort # s.port
      BY <1>1, <1>9, <1>5, NextPortsDistinct
    <2>2. CASE Builder!PortsOf(s) \cap ports = {} /\ s.mapperPort # s.port
      BY <1>1, <1>9, <1>5, <1>7, <2>1, <2>2, NextPortsDistinct DEF Builder!ClientCall, Builder!Keep
    <2>3. CASE ~(Builder!PortsOf(s) \cap ports = {} /\ s.mapperPort # s.port)
      BY <1>9, <1>6, <2>1, <2>3 DEF Builder!ClientCall
    <2> QED
      BY <2>2, <2>3
  <1> QED
    BY <1>3, <1>4, <1>8, <1>9 DEF Builder!Call

\* The types of what the builder, the Server and the runtime keep, from the
\* builder's calls to the drop.
THEOREM LifeTypeCorrect == LifeSpec => []LifeTypeOK
  <1> USE ProgramsAssumption DEF ProgramsAssumption
  <1>1. Builder!Init => Builder!TypeOK
    BY DEF Builder!Init, Builder!TypeOK
  <1>2. ASSUME Builder!TypeOK, Builder!Call
        PROVE  Builder!TypeOK'
    <2> DEFINE s == program.streams[made + 1]
    <2>1. program \in Programs /\ made \in Nat /\ made < Len(program.streams)
      BY <1>2 DEF Builder!TypeOK, Builder!Call
    <2>2. program.streams \in Seq(Builder!Streams)
      BY <2>1
    <2>3. s \in Builder!Streams /\ made + 1 \in 0 .. Len(program.streams)
      BY <2>1, <2>2
    <2>4. s.mapperPort \in Nat /\ Builder!PortsOf(s) \subseteq Nat
      BY <2>3 DEF Builder!Streams, Builder!PortsOf
    <2>5. ASSUME NEW why \in {"refused", "failed"}, Builder!Drop(why) PROVE Builder!TypeOK'
      BY <1>2, <2>5 DEF Builder!TypeOK, Builder!Drop
    <2>6. ASSUME NEW P \in SUBSET Nat, NEW Q \in SUBSET Nat, Builder!Keep(P, Q) PROVE Builder!TypeOK'
      BY <1>2, <2>3, <2>6 DEF Builder!TypeOK, Builder!Keep
    <2> HIDE DEF s
    <2>7. Builder!ServerCall(s) \/ Builder!ClientCall(s) \/ Builder!Drop("failed")
      BY <1>2 DEF Builder!Call, s
    <2> QED
      BY <2>4, <2>5, <2>6, <2>7 DEF Builder!ServerCall, Builder!ClientCall
  <1>3. Builder!TypeOK /\ [LifeNext]_lifeVars => Builder!TypeOK'
    <2> SUFFICES ASSUME Builder!TypeOK, [LifeNext]_lifeVars PROVE Builder!TypeOK'
      OBVIOUS
    <2>1. BuilderCall => Builder!Call
      BY DEF BuilderCall
    <2>2. CASE UNCHANGED builderVars
      BY <2>2 DEF builderVars, Builder!TypeOK
    <2> QED
      BY <1>2, <2>1, <2>2
         DEF LifeNext, lifeVars, RuntimeStep, RegisterOrUnregister, TellTasks, HandleEvent
  <1>4. LifeSpec => []Builder!TypeOK
    BY <1>1, <1>3, PTL DEF LifeSpec, LifeInit
  <1>5. LifeSpec => []Library!TypeOK
    <2>1. ServerInv => Library!TypeOK
      BY DEF ServerInv
    <2> QED BY <2>1, LifeIsServer, ServerInvariance, PTL
  <1>6. LifeSpec => []TypeOK
    <2>1. IInv => TypeOK
      BY DEF IInv
    <2> QED BY <2>1, LifeInvariance, PTL
  <1> QED BY <1>4, <1>5, <1>6, PTL DEF LifeTypeOK

\* Although they keep different sets of ports, both builders refuse exactly the
\* lists of streams in which a port comes twice (server.rs:114-126,175-196,
\* client.rs:77-84,128-131).
THEOREM BuildersAlike == LifeSpec => []BuildsAlike
  <1>1. LifeInit => Kept /\ BuildsAlike
    <2> SUFFICES ASSUME LifeInit PROVE Kept /\ BuildsAlike
      OBVIOUS
    <2>1. program \in Programs /\ made = 0 /\ outcome = "open" /\ ports = {} /\ bound = {}
      BY DEF LifeInit, Builder!Init
    <2>2. MapperPorts(0) = {} /\ AllPorts(0) = {} /\ Builder!PortsDistinct(0)
      BY DEF MapperPorts, AllPorts, Builder!PortsDistinct
    <2>3. made \in 0 .. Len(program.streams)
      BY <2>1, ProgramsAssumption DEF ProgramsAssumption
    <2> QED
      BY <2>1, <2>2, <2>3 DEF Kept, BuildsAlike, Builder!BuildsAlike
  <1>2. Kept /\ BuildsAlike /\ [LifeNext]_lifeVars => (Kept /\ BuildsAlike)'
    <2> SUFFICES ASSUME Kept, BuildsAlike, [LifeNext]_lifeVars PROVE Kept' /\ BuildsAlike'
      OBVIOUS
    <2>1. CASE BuilderCall
      BY <2>1, CallKeeps DEF BuilderCall
    <2>2. CASE UNCHANGED builderVars
      <3>1. UNCHANGED <<program, made, outcome, ports, bound>>
        BY <2>2 DEF builderVars
      <3>2. /\ Builder!PortsDistinct(made)' <=> Builder!PortsDistinct(made)
            /\ Builder!PortsDistinct(made + 1)' <=> Builder!PortsDistinct(made + 1)
            /\ Builder!SocketsBound' <=> Builder!SocketsBound
        BY <3>1 DEF Builder!PortsDistinct, Builder!SocketsBound
      <3>3. MapperPorts(made)' = MapperPorts(made) /\ AllPorts(made)' = AllPorts(made)
        BY <3>1 DEF MapperPorts, AllPorts
      <3> QED
        BY <3>1, <3>2, <3>3 DEF Kept, BuildsAlike, Builder!BuildsAlike
    <2> QED
      BY <2>1, <2>2
         DEF LifeNext, lifeVars, RuntimeStep, RegisterOrUnregister, TellTasks, HandleEvent
  <1> QED
    BY <1>1, <1>2, PTL DEF LifeSpec
=============================================================================
