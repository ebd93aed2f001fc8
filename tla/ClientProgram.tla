--------------------------- MODULE ClientProgram ---------------------------
(***************************************************************************)
(* The command line client (longboy-client-cli main.rs): a Client on a     *)
(* TokioRuntime, the channel that carries inputs from main to the Source   *)
(* of the ClientToServerSender, the one that carries what the Sink of the  *)
(* ServerToClientReceiver is handed to a task that prints it, and main.    *)
(*                                                                         *)
(* #[tokio::main] runs main on a thread of its own and every other task on *)
(* its workers, one for each processor.  The Source waits in recv() inside *)
(* poll and keeps the worker it is on.  Timers fire while some worker has  *)
(* nothing to run and waits for them: surely so when none runs a task, and *)
(* perhaps when some do, as tokio need not hand the timers over.           *)
(*                                                                         *)
(* Nobody cancels main's token, and the Client has a child of it.          *)
(***************************************************************************)
EXTENDS TokioRuntime, FiniteSets

CONSTANTS
    MaxWorkers,  \* bound on the workers
    MaxInputs,   \* bound on the inputs waiting in main's channel
    MaxEvents    \* bound on what waits for the printing task

ASSUME ClientAssumption ==
    /\ TaskCount = 2
    /\ MaxWorkers \in Nat \ {0}
    /\ MaxInputs \in Nat \ {0}
    /\ MaxEvents \in Nat

Receiver == 1  \* ServerToClientReceiver and
Sender   == 2  \* ClientToServerSender, in the order of the builder's calls

VARIABLES
    workers,   \* the runtime's workers
    main,      \* where main is
    printing,  \* the task that dumps server events
    stage,     \* where each task is: at its select!, or in its poll
    inputs,    \* inputs in sender_channel
    events     \* inputs of all players in receiver_channel

programVars == <<workers, main, printing, stage, inputs, events>>
runtimeVars == <<cancelled, task, aborted, owner, handles>>
allVars     == <<runtimeVars, programVars>>

ProgramTypeOK ==
    /\ TypeOK
    /\ workers \in 1 .. MaxWorkers
    /\ main \in {"connecting", "building", "asleep", "awake", "unwinding", "over", "closing", "exited"}
    /\ printing \in {"unspawned", "awaiting", "ended"}
    /\ stage \in [Tasks -> {"select", "heartbeat", "io", "done"}]
    /\ inputs \in 0 .. MaxInputs
    /\ events \in 0 .. MaxEvents

ProgramInit ==
    /\ Init
    /\ workers \in 1 .. MaxWorkers
    /\ main = "connecting"
    /\ printing = "unspawned"
    /\ stage = [t \in Tasks |-> "select"]
    /\ inputs = 0
    /\ events = 0

-----------------------------------------------------------------------------
(* main.                                                                   *)

MainGoes(place) == main' = place /\ UNCHANGED <<workers, stage, events>>

\* Connecting and the handshake fail, or the Client is built.
Connects ==
    /\ main = "connecting"
    /\ MainGoes("building") \/ MainGoes("over")
    /\ UNCHANGED <<runtimeVars, printing, inputs>>

Builds ==
    /\ main = "building"
    /\ Spawn
    /\ UNCHANGED programVars

\* A call of the builder fails before anything is spawned.
BuilderFails ==
    /\ main = "building"
    /\ owner = "building" /\ handles = 0
    /\ Drop
    /\ MainGoes("unwinding")
    /\ UNCHANGED <<printing, inputs>>

SpawnsPrinting ==
    /\ main = "building"
    /\ owner = "using"
    /\ MainGoes("asleep")
    /\ printing' = "awaiting"
    /\ UNCHANGED <<runtimeVars, inputs>>

Busy == {t \in Tasks : task[t] = "running"}

WorkerFree == Cardinality(Busy) < workers

\* sleep: the timer is driven by a worker.
Wakes ==
    /\ main = "asleep"
    /\ WorkerFree
    /\ MainGoes("awake")
    /\ UNCHANGED <<runtimeVars, printing, inputs>>

\* Mutant: main does not look at what send returns.
SendsInputIgnoring ==
    /\ main = "awake"
    /\ MainGoes("asleep")
    /\ inputs' = IF task[Sender] \notin Ended /\ inputs < MaxInputs THEN inputs + 1 ELSE inputs
    /\ UNCHANGED <<runtimeVars, printing>>

\* send(..).unwrap(): panics when the Source is gone, and the Client is dropped.
SendsInput ==
    /\ main = "awake"
    /\ IF task[Sender] \notin Ended
       THEN /\ inputs < MaxInputs
            /\ inputs' = inputs + 1
            /\ MainGoes("asleep")
            /\ UNCHANGED runtimeVars
       ELSE /\ Drop
            /\ MainGoes("unwinding")
            /\ UNCHANGED inputs
    /\ UNCHANGED printing

\* The Client is dropped before main's end of the channel to the Source.
Unwinds ==
    /\ main = "unwinding"
    /\ \/ Abort /\ UNCHANGED programVars
       \/ /\ owner = "dropped"
          /\ MainGoes("over")
          /\ UNCHANGED <<runtimeVars, printing, inputs>>

\* The shutdown of tokio's runtime drops the tasks that await and waits for the
\* workers to finish what they run.
ShutsDown ==
    /\ main = "over"
    /\ MainGoes("closing")
    /\ printing' = "ended"
    /\ UNCHANGED <<runtimeVars, inputs>>

Exits ==
    /\ main = "closing"
    /\ active = {}
    /\ MainGoes("exited")
    /\ UNCHANGED <<runtimeVars, printing, inputs>>

-----------------------------------------------------------------------------
(* The tasks, on the workers.                                              *)

At(t, place)    == task[t] = "running" /\ stage[t] = place
Enter(t, place) == stage' = [stage EXCEPT ![t] = place]

\* A suspended loop gets a worker, or is ended by the abort.
Resumes(t) ==
    /\ WorkerFree
    /\ Wake(t) \/ AbortTakes(t)
    /\ UNCHANGED programVars

\* What select! leads to: a poll, suspension, or the end of the loop.
BeginPoll(t) ==
    /\ At(t, "select")
    /\ Enter(t, "heartbeat")
    /\ UNCHANGED <<task, workers, main, printing, inputs, events>>

Pauses(t) ==
    /\ At(t, "select")
    /\ Yield(t) \/ Leave(t)
    /\ UNCHANGED programVars

Returns(t) ==
    /\ At(t, "done")
    /\ Enter(t, "select")
    /\ UNCHANGED <<task, workers, main, printing, inputs, events>>

\* A heartbeat, when one is due, is sent or ends the task.
Heartbeats(t) ==
    /\ At(t, "heartbeat")
    /\ \/ Enter(t, "io") /\ UNCHANGED task
       \/ Fail(t) /\ UNCHANGED stage
    /\ UNCHANGED <<workers, main, printing, inputs, events>>

\* Source::poll: recv() waits for an input or for the end of the channel.  A
\* datagram of the last inputs is sent, or ends the task.
PollsSource ==
    /\ At(Sender, "io")
    /\ inputs > 0 \/ main \in {"over", "closing", "exited"}
    /\ inputs' = IF inputs > 0 THEN inputs - 1 ELSE inputs
    /\ \/ Enter(Sender, "done") /\ UNCHANGED task
       \/ Fail(Sender) /\ UNCHANGED stage
    /\ UNCHANGED <<workers, main, printing, events>>

\* A datagram arrives and its inputs are handed to the Sink, whose send panics
\* when the printing task is gone.
HandlesDatagram ==
    /\ At(Receiver, "io")
    /\ IF printing = "ended"
       THEN Fail(Receiver) /\ UNCHANGED events
       ELSE /\ events < MaxEvents
            /\ events' = events + 1
            /\ UNCHANGED task
    /\ UNCHANGED <<workers, main, printing, stage, inputs>>

\* Mutant: the socket blocks.
NoMoreDatagramsBlocking ==
    /\ At(Receiver, "io")
    /\ UNCHANGED <<task, workers, main, printing, stage, inputs, events>>

\* The socket does not block: the loop ends when it is empty.
NoMoreDatagrams ==
    /\ At(Receiver, "io")
    /\ Enter(Receiver, "done")
    /\ UNCHANGED <<task, workers, main, printing, inputs, events>>

\* Mutant: the printing task ends when there is nothing to print.
PrintsTimeout ==
    /\ printing = "awaiting"
    /\ WorkerFree
    /\ IF events > 0
       THEN events' = events - 1 /\ UNCHANGED printing
       ELSE printing' = "ended" /\ UNCHANGED events
    /\ UNCHANGED <<runtimeVars, workers, main, stage, inputs>>

\* recv_async: the loop ends when the Sink is gone and everything is printed.
Prints ==
    /\ printing = "awaiting"
    /\ WorkerFree
    /\ IF events > 0
       THEN events' = events - 1 /\ UNCHANGED printing
       ELSE task[Receiver] \in Ended /\ printing' = "ended" /\ UNCHANGED events
    /\ UNCHANGED <<runtimeVars, workers, main, stage, inputs>>

TaskStep(t) ==
    /\ \/ Resumes(t) \/ BeginPoll(t) \/ Pauses(t) \/ Heartbeats(t) \/ Returns(t)
       \/ t = Sender /\ PollsSource
       \/ t = Receiver /\ (HandlesDatagram \/ NoMoreDatagrams)
    /\ UNCHANGED <<cancelled, aborted, owner, handles>>

\* The Source waits for an input that main will send after a sleep.
Waiting == At(Sender, "io") /\ inputs = 0 /\ main = "asleep"

\* The program is over, or its only worker waits for good.
Rests ==
    /\ main = "exited" \/ (Waiting /\ ~WorkerFree)
    /\ UNCHANGED allVars

Main == Connects \/ Builds \/ SpawnsPrinting \/ SendsInput \/ Unwinds \/ ShutsDown \/ Exits

ProgramNext ==
    \/ Main \/ BuilderFails \/ Wakes
    \/ \E t \in Tasks : TaskStep(t)
    \/ Prints
    \/ Rests

\* A thread goes on, a task that is ready again and again gets a worker, its poll
\* goes on, and a socket is empty in the end.  Timers fire when no worker runs a
\* task.  select! picks each of its branches in the end, and no loop is without
\* suspension for good: tokio's budget sees to that.
ProgramFairness ==
    /\ WF_allVars(Main)
    /\ SF_allVars(Wakes /\ Busy = {})
    /\ SF_allVars(Prints)
    /\ WF_allVars(TaskStep(Receiver) /\ stage'[Receiver] = "done")
    /\ \A t \in Tasks :
          /\ SF_allVars(TaskStep(t) /\ Busy = {})
          /\ WF_allVars(TaskStep(t) /\ task[t] = "running" /\ stage[t] # "select")
          /\ SF_allVars(TaskStep(t) /\ stage'[t] = "heartbeat" /\ stage[t] = "select")
          /\ SF_allVars(TaskStep(t) /\ task'[t] = "await" /\ task[t] = "running")
          /\ SF_allVars(TaskStep(t) /\ task'[t] = "returned")

ProgramSpec == ProgramInit /\ [][ProgramNext]_allVars /\ ProgramFairness

-----------------------------------------------------------------------------
InUse == main \in {"asleep", "awake"}

\* The Sink finds the printing task there, until the program shuts down: what the
\* unwrap in its send relies on (main.rs:67,174-196).
SinkIsHeard == main # "closing" /\ At(Receiver, "io") => printing # "ended"

\* While the program is in use inputs go on being sent, or the Source waits for one
\* for good and with it the timers, on however many workers; nothing else stops
\* them but a failed task (main.rs:43,198-212).
Flows ==
    \/ []<>(~InUse \/ task[Sender] \in Ended \/ At(Sender, "done"))
    \/ <>[]Waiting

\* A sending task that has failed ends the program: main meets its closed channel
\* at the next input, drops the Client, and the runtime's shutdown finds no task
\* that does not stop (main.rs:155,211).
FailureEnds == task[Sender] = "panicked" ~> main = "exited"
=============================================================================
