# Longboy in TLA+

A verification development of [longboy](../src/README.md), a Rust library that carries
fixed-size inputs between a game server and its clients over UDP. It consists of TLA+
modules that model the library and its two command line programs, TLC configurations that
check them on small instances, and TLAPS proofs about the stream protocol, the Server and its two
table tasks, its runtimes and builders, heartbeats and the two programs, for every value of the
constants: every safety property a passing run
checks is also proved.

Paths below are relative to `src/crates/`; `proto/…`, `server/…`, `client/…` and
`runtimes/…` are under `longboy/src/`.

## 1. The system

| Component | Source | State it keeps | Operations |
|---|---|---|---|
| Sender | `proto/sender.rs` | cycle number, a flag and a slot for each of the last `WINDOW_SIZE` cycles | `poll_datagram` |
| Receiver | `proto/receiver.rs` | local cycle, a flag for each of `MAX_BUFFERED` cycles | `handle_datagram` |
| Cipher | `proto/cipher.rs` | two constant keys | encrypt, decrypt |
| Server | `server.rs` | map of sessions, a channel to each task | `register`, `unregister` |
| ServerBuilder, ClientBuilder | `server.rs`, `client.rs` | ports in use, tasks | `sender…`, `receiver…`, `build` |
| ClientToServerReceiver | `server/client_to_server_receiver.rs` | arena of sessions, id and address maps, sockets | `poll` |
| ServerToClientSender | `server/server_to_client_sender.rs` | arena of sessions, id map, sockets | `poll` |
| ClientToServerSender | `client/client_to_server_sender.rs` | next heartbeat, a Sender, three sockets | `poll` |
| ServerToClientReceiver | `client/server_to_client_receiver.rs` | next heartbeat, a Receiver, a socket | `poll` |
| ThreadRuntime | `runtimes/thread_runtime.rs` | join handles, cancellation token | `spawn`, `drop`, the loop of each thread |
| TokioRuntime | `runtimes/tokio_runtime.rs` | the same | `spawn`, `drop`, the loop of each task |
| Session handshake | `server/server_session.rs`, `client/client_session.rs` | the QUIC connection, session id, key | `new` on both sides |
| Server CLI | `longboy-server-cli/src/main.rs` | the accept loop | `server_handle_connection` |
| SessionBroker | `longboy-server-cli/src/broker.rs` | free player indices, session ids, the channel between players | `next_player_index`, `allocate_session_id`, the Sinks and Sources it makes |
| Client CLI | `longboy-client-cli/src/main.rs` | channels to and from its tasks | its input loop, a Sink and a Source |

How they interact:

    client program                                   server program
    ClientSession::new  <------- QUIC stream ------- ServerSession::new      (handshake)
                                                     Server::register
                                                        | a flume channel to each task
    ClientToServerSender  == UDP datagrams x3 =====> ClientToServerReceiver
         Sender            -- UDP heartbeats x3 --->     Receiver per session
    ServerToClientReceiver <= UDP datagrams x3 ===== ServerToClientSender
         Receiver          -- UDP heartbeat ------->     Sender per session

Every task belongs to a Runtime, which polls it about once a millisecond on a thread of its
own (ThreadRuntime) or as a tokio task, with a u16 timestamp. A poll of the library never waits:
sockets are nonblocking and channels are drained with `try_iter`; the client CLI's Source does, in
`recv()`. All coordination is by channels (Server to task, main to Source, Sink to the printing
task, player to player), by the shared cancellation token, by the broker's locks and by UDP.

What is hard here:

* **The wire.** Datagrams are sent three times and lost, repeated, delayed and reordered.
  Each carries the inputs of the last `WINDOW_SIZE` cycles; the receiver tells new from
  old with eight flags and a u16 that wraps.
* **Addresses.** The server learns a client's addresses from heartbeats only. NATs change
  them, old heartbeats arrive late, an address may pass from one client to another.
* **Two maps of indices.** Sessions come and go while packets of theirs are in flight; an
  index left in a map is an `unwrap` that ends the task for every session.
* **Calls that take several steps.** `register` and `unregister` tell the tasks one by one
  while these run, stop or fail, and may panic half way; a builder's calls fail half way.
* **Clocks.** Timestamps are u16 and wrap every 65.5 s; each task has its own zero, and the
  two runtimes mean different things by them.
* **Shutdown.** Tokens, panics, joins that wait and aborts that do not; a call that panics drops
  the Server while its tasks poll.
* **Workers.** The client CLI waits inside a poll on one of tokio's workers for an input that main
  sends after a sleep, whose timer needs a worker.
* **Admission.** One loop awaits each client in turn; clients stall or leave at any await; one task
  that fails ends the loop at the next registration.

What makes each component correct:

* Sender and Receiver: an input is handed to the sink at most once, and exactly once while
  the receiver keeps up; the receiver never gets ahead of the sender; any one datagram of
  a window repairs the loss of the others; only useless datagrams are dropped.
* Server: each task's view of the sessions is that of the Server, but for what is in its
  channel; no task ever sees a duplicate or unknown id; a call that got
  past its assertion panics only after a task has ended.
* Builders: both refuse the same lists of streams, those where a port comes twice.
* The two server tasks: no lookup fails, a datagram goes to its own session, and the tables
  settle once the network does.
* Client tasks: heartbeats are sent at least every period, for ever.
* Runtimes: a task that was cancelled stops, drop ends, and after it no suspended loop is run again.
* Admission and broker: ids and indices are distinct and enough, who connects is served in the
  end, an input is passed on in the end.
* Client program: inputs flow or the Source waits for one; the Sink is heard; a failed sending
  task ends the program.

## 2. Modules

| Module | Models |
|---|---|
| `ProtoConstants` | `proto/constants.rs`, and the literals 4, 256, 2048 and 65535 as parameters |
| `Sender`, `Receiver` | `poll_datagram` and `handle_datagram` as operators on records |
| `Link` | a Sender, a Receiver, the wire between them and the clocks of their two tasks |
| `Stream` | abstract: an exactly-once stream; `Link` implements it on a calm network |
| `SessionEvents` | abstract: the channel that tells a task of sessions |
| `Server` | `register`, `unregister` and the event loops of all tasks; implements `SessionEvents` for each task |
| `ClientToServerReceiver`, `ServerToClientSender` | the two server tasks, each behind a `SessionEvents` channel, with the clients' addresses around them |
| `Heartbeat` | the heartbeat schedule of both client tasks on either runtime's clock |
| `Runtime` | abstract: tasks that stop after a cancellation |
| `TaskRuntime` | what the two runtimes share: tasks, their owner, the cancellation token |
| `ThreadRuntime`, `TokioRuntime` | the two runtimes |
| `Runtimes` | the choice between them by configuration; implements `Runtime` either way |
| `Builders` | the calls of `ServerBuilder` and `ClientBuilder` |
| `Lifetime` | a Server or Client from its builder to its drop: composes `Builders`, `Runtimes` and `Server`, and implements `Runtime` |
| `ClientProgram` | the command line client on a `TokioRuntime` and tokio's workers |
| `Admission` | accept loop, handshake, free list, session ids, the assertion of `register` |
| `Broker` | the channel between the players' Sinks and Sources |
| `ServerProgram` | the command line server: composes `Admission` and `Broker` with the Server's two tasks |
| `MC…` | values of the constants for TLC |
| `CommonLemmas`, `LinkProofs`, `LifetimeProofs`, `ClientToServerReceiverProofs`, `ServerToClientSenderProofs`, `HeartbeatProofs`, `ClientProofs`, `ServerProgramProofs` | lemmas and theorems (section 5) |

How state and actions correspond to the code:

* **Sender, Receiver.** A record holds the fields of the struct: `cycle`, `flags`, and for
  the Sender its buffer as `slots`, indexed like the code by cycle modulo `WINDOW_SIZE`.
  `PollDatagram` is `poll_datagram`: `PollSource` (lines 56-75), `Transmits` (78), then
  `NextCycle` (82). `HandleDatagram` composes the sections of `handle_datagram`:
  `Rejects` (84-92), `CatchUp` (101-114), `FlagWindow` and `Sinks` (116-150), `Advance`
  (152-165). The loops are sets: the window loop's `break` is the set `Reached` of offsets
  before the first out of reach, the advance loop is the run of flags that are on, which
  ends after at most `MAX_BUFFERED` steps because each step clears the flag it passed.
* **Link.** `Poll` is one poll of the sending task, `Deliver` one datagram of the receiving
  task's loop, each one atomic step, as neither shares memory with the other. A datagram
  stays on the wire for up to `Lifetime` ms and is delivered any number of times, in any order
  or never. That covers the mirrored copies. `sent`, `got`, `mark` and `handled` count what
  the code does not: cycles without wrapping, and deliveries of one marked input, which
  stands for all since no code looks into an input. `ReceiverClock` is what a ThreadRuntime gives the
  receiving task, the time since the task started, `ClockSkew` ms apart from the sender's.
* **Server.** A call is `BeginRegister` or `BeginUnregister`, one `SendEvent` for each task,
  then `FinishCall`; a panic half way leaves `call` where it was, and one at the assertion
  (`register` without room, line 54; `unregister` of an unknown id, line 69) begins no call. A task is its
  channel, the ids it holds and whether it still runs. Ids that are registered are not registered again: the
  broker's counter never repeats one.
* **ClientToServerReceiver, ServerToClientSender.** `sessions` is the arena (indices are
  never used again: thunderdome's carry a generation), `byId` and `byAddr` the maps,
  `phase` the place in `poll`. Every event, heartbeat and datagram is a step, so that the
  Server and the network move between them. A failed `unwrap` or `expect` sets `panicked`
  and the task stops. `Rebind` and `Expire` are the network. In the sending task `PollSessions` polls every
  Sender, of which any set `yields` a datagram; `SendFails` is the `expect` on `send_to` (line 169), which
  ends the task when some of the datagrams are sent.
* **Heartbeat.** `Poll(step)` is a poll `step` ms after the one before; `SinceStart` chooses
  the timestamp of ThreadRuntime or of TokioRuntime.
* **Runtimes.** `task[t]` is the place in `Task::run`, `owner` that of the owning thread, which
  builds, uses and drops. A panic in a poll is `Fail`. A builder that fails drops the runtime too. A tokio
  loop is suspended (`await`) or `running`, and while it runs it polls as often as `select!` finds
  the next tick ready and picks it: `Wake` begins that, `Yield` suspends it (nothing is ready, or
  tokio's budget is spent), `Leave` is the branch of the token. tokio obeys an abort only of a loop that is
  suspended (`AbortTakes`).
* **Builders.** `program` is the list of calls to make, `Call` the next of them. `ports` is the
  builder's own set (mapper ports only, for a server), `bound` what its sockets are bound to.
* **Lifetime.** A call of the builder, a step of the runtime, a step of `register` or `unregister`,
  or a task that handles an event. The channel to a task is open (`alive`) while the runtime has
  not ended the task; an event that does not fit fails the poll it is handled in. A Server is
  dropped between calls, or by a call that panics.
* **ClientProgram.** `main` is the place in `main`, `stage[t]` that in a poll. A suspended loop needs a
  worker that is free (`WorkerFree`) to be resumed (`Resumes`); at its `select!` a running one begins a poll
  (`BeginPoll`) or is suspended (`Pauses`), and after a poll is back there (`Returns`). `PollsSource` needs
  an input or the end of the channel. The order of
  drops in a panic of main's is `unwinding` (the Client), then `over` (the channel to the Source),
  then `closing` (tokio's shutdown).
* **Admission.** `at` is the await or step the accept loop is at; a client is out, connecting,
  connected, told its id or gone, and may leave at any time. `capacity` is that of the
  Server's map, which comes from the configuration. `Register` panics when it is used up; otherwise it adds the
  session, tells the tasks in order (`Reached`, `told`) and panics at the first that has ended.
* **Broker, ServerProgram.** `sent` and `received` count what went into the one flume queue and
  came out; `Hears` is the receiving task's Sinks, `Passes` the sending task's Sources. `TakeUp` is a
  task's handling of `Connected`: it looks the session up in the broker and makes its Sink
  (`MakeSink`, the receiving task) or its Source (`MakeSource`, the sending task), at any time after
  `register` told it; a session the broker does not know ends the task (`failed`). `SendFails` is the
  sending task's `expect` on `send_to`, which ends it too.

Operators named in a `\* Mutant:` comment are plausible mistakes. They are used by no
specification; `PROJECT.json` says which property notices which.

## 3. Runs

Runs that pass:

| Run | Question | Distinct states |
|---|---|---|
| `link_any` | what holds whatever the network does: `NotAhead`, `NoReplay`, `CarriedByWindow`, and which datagrams are dropped (`OnlyBadDropped`) | 481 000 |
| `link_calm` | what holds while the receiver keeps up: `AtMostOnce`, `NoSkip`, `RepairsLoss`, and the refinement `ExactlyOnce` of `Stream` | 107 000 |
| `server` | a Server or Client on either runtime, from its builder to its drop: tasks and Server agree through running, failing and half-done calls (`NoEventPanic`, `Agree`, `TasksTold`, `Converges`), calls fail only with a cause (`CallsFail`), builders agree (`BuildsAlike`), drops end, wait and stop loops (`DropEnds`, `DropWaits`, `NoWakeAfterDrop`), and the refinement `Implements` of `Runtime` | 176 000 |
| `c2s` | the receiving task: no lookup fails (`NoPanic`), the arena and both maps agree (`TablesAgree`), datagrams reach their own session (`RoutedToSender`), the table settles (`Settles`) | 131 000 |
| `s2c` | the sending task: `NoPanic`, `TablesAgree`, `SentToOwner`, `Settles` | 124 000 |
| `heartbeat` | heartbeats for ever (`KeepsBeating`), and what a late poll costs (`LateOnlyAtWrap`) | 700 |
| `server_program` | admission, two tasks and the players' channel: `Distinct`, `TakenUp`, `RoomForAll`, and that who connects is served (`Admitted`) and what is sent passed on (`PassedOn`) | 147 000 |
| `client_program` | the command line client on one to three workers: `SinkIsHeard`, `Flows`, `FailureEnds` | 4 700 |

Runs in which TLC finds a violation, each a place where the code does other than its
documentation, comments or tests say (quoted in `PROJECT.json`, "findings"):

| Run | What happens |
|---|---|
| `link_burst` | after a gap of exactly `MAX_BUFFERED` cycles the datagram's flag is also that of the local cycle; an input is sunk twice |
| `link_wrap` | `MAX_CYCLE` is no multiple of `MAX_BUFFERED`: around the wrap two buffered cycles share a flag, and an input is passed over |
| `heartbeat_tokio` | TokioRuntime polls with the time since the last poll: one heartbeat is sent, then none |
| `heartbeat_debug` | the u16 sum `timestamp + heartbeat_period` panics with overflow checks |

Limits of the code that the models contain and no property contradicts:

* After a gap of more than 256 cycles the receiver drops everything until the sender's cycle
  number has come round (`proto/receiver.rs:87`), and it takes what is whole rounds ahead for near: the last
  part of `OnlyBadDropped`, met in `link_any`, whose lag goes beyond `CycleThreshold`.
* The ends' timestamps are compared but never synchronised (`runtimes/thread_runtime.rs:68`):
  if the tasks started more than 2048 ms apart, or the receiver after the sender by more than a
  datagram takes, datagrams are "late", and an old one can be taken for fresh: `Late` of `OnlyBadDropped` is about the
  clocks as they are, and in `link_any` they differ. `link_calm` has clocks that agree.
* A heartbeat due in the last ms before the timestamp wraps may be stepped over by a late poll, and
  the next is then a round of 65 s away: the exception `LateOnlyAtWrap` makes.
* A heartbeat unmaps its socket's former address even if another session has it now
  (`server/client_to_server_receiver.rs:179`); that session is not heard until its next heartbeat.
  `RoutedToSender` is about addresses that stay with one client, `Settles` about all.
* The broker's channel is a queue: an input one player's Source takes is never seen by the others
  (`longboy-server-cli/src/broker.rs:29`), also if that player has gone. `PassedOn` says that some Source takes it.
* A failed handshake keeps its player index (`longboy-server-cli/src/main.rs:223`), and no session of
  that program ever ends: after `MAX_PLAYERS` clients the server turns everyone away, and the Sources of
  clients that are gone go on taking inputs. `server_program` shows that indices and ids stay
  distinct all the same, and `Admitted` names being turned away.
* The Server's map has room for the configured `session_capacity`, or somewhat more as it rounds
  (`longboy-server-cli/src/main.rs:41,100`); nothing ties that to the broker's 32 players. A client beyond it
  is told its session, and then the accept loop panics (`server.rs:54`): with 16 configured, the
  29th. `RoomForAll` says that this happens only with a smaller capacity, and then not before it is used up.
* `unregister` of an id that is not registered panics (`server.rs:69`). `CallsFail` is about calls
  that got past their assertions.
* After a TokioRuntime is dropped, a loop that is not suspended may go on polling for a while
  (`runtimes/tokio_runtime.rs:79-86`): after a poll of a millisecond or more the next tick is ready, and
  `select!` may pick it. `NoWakeAfterDrop` is what remains.
* One failed `send_to` ends the sending task (`server/server_to_client_sender.rs:169`) and with it, at the next
  registration, the accept loop. `Settles` of `s2c`, `Admitted`, `PassedOn` and `RoomForAll` make that exception.
* What a Source yields before its client's address is known is consumed and lost
  (`server/server_to_client_sender.rs:160`): `Settles` is about what comes after.
* On a machine with one processor the command line client stalls for good when its Source first finds
  no input (`longboy-client-cli/src/main.rs:43,205`), as only the worker the Source keeps would end
  main's sleep. With more workers it may, as tokio need not hand its timers to another. This is the second
  half of `Flows`.
* A failed receiving task of the client is noticed by nobody: the printing task ends and main sends on.
* A call that panics while a thread of a ThreadRuntime has failed panics again in `drop`
  (`runtimes/thread_runtime.rs:59`), and the process aborts; in the model the drop ends (`owner = "panicked"`).

## 4. Bounds, and why they are enough

**Link.** The code's counters are u16. What matters of them is where they wrap relative to
the window and the flags, so the runs use a small `U16Max` with the same residues.
`link_any` and `link_calm` have a window of two and six flags (`SmallWindow = 3` for the code's
4): cycle numbers wrap at `MaxCycle = 10`, a multiple of the window but not of the flags, as the
code's 65535 is of a window of 3 and not of eight flags. `CycleThreshold = 7` is larger than the flags and smaller than the cycle numbers,
as 256 is. `MaxTime` lets the cycle number wrap in both runs. `link_any` has a receiving clock one
millisecond behind (`OneBehind`), so that a fresh datagram is from the future and dropped, and a lag of up to 9, beyond
`CycleThreshold`. Else `LagBound` is what "calm" means: the receiver is at most that many
cycles behind the sender. It is `MaxCycle` modulo the flags, 4 in `link_calm` and 7 in the code, for a lag beyond which two
buffered cycles may share a flag across the wrap; `link_wrap` (window of one, 7 cycle numbers, four flags, `LagBound` one more) and `link_burst` (the code's
own values, any lag) show how the properties fail beyond it.

`ASSUME RoomAssumption` and `FreshAssumption` say what the bounds must
satisfy, and the code's values do: 8 + W <= 65535, and with timestamps accepted up to
2048 ms, one cycle per ms, 2048 < 65535 - 256 (for a wire that forgets datagrams before their
timestamps come round, `Lifetime` < 63 487 ms).

**Lifetime.** Two tasks, one that was told and one that was not, and first and last in the order of
joins; three sessions with capacity for two, so that the assertion of `register` is met; three calls (`MaxCalls`:
register, unregister, register again, or one that fails in between). `MCPrograms` lists what the two
programs build and lists of streams whose ports collide in each way there is, on sockets that the builder binds and
on sockets of the application's.

**Tables.** In `c2s` two clients have two
sockets each and two rebindings, with which an address can be left by one client, taken by the other while packets of
both are in flight, or swapped between a client's sockets; `MaxInserted = 3` lets an id disconnect and connect again. In `s2c` any set of
Senders yields at each poll, and any poll that sends may fail.

**Heartbeat.** Timestamps wrap at 64 and the period is 7, no divisor of it, so every phase of a
heartbeat against the wrap occurs. A poll may be up to `MaxStep` ms after the one before;
`MaxQuiet`, longer than a round, saturates the count since the last heartbeat.

**Programs.** Server: three clients for two players, so that one is turned away or takes the place of one that left
before its index was taken; a map with room for both players and one with room for one (`Capacities`);
two inputs, one waiting and one taken. Client: one worker (none is left while the Source
waits), two (one is left) and three (one is left over while both tasks poll); `MaxInputs` and `MaxEvents` stand for
channels without bound, and with two of each a channel can be empty, filled and filled further while its
reader stands.

**Fairness.**

* Links: none is assumed, all their properties are safety.
* Lifetime: threads and tokio's loops are scheduled and polls return, which is true of the library's
  tasks if Sources and Sinks return (the client CLI's Source does not: `ClientProgram`);
  `select!` picks at random, so a branch that is ready time and again is picked in the end (strong
  fairness of `Leave`); the owner goes on building and dropping, and a call once begun goes on; a poll
  looks at its channel before anything else (strong fairness of `HandleEvent`); a tokio loop that runs is
  suspended or leaves in the end (tokio's budget). Nobody has to call, cancel
  or drop anything, and no poll has to fail.
* Tables: the runtime polls the task for ever and each of its loops ends (weak fairness); a client repeats its
  heartbeat every period, so that some of those it keeps sending from one address get through
  (strong fairness of handling a current heartbeat), and what was sent from an address since lost expires. The
  polling of the sessions ends, or a socket fails (weak fairness of either).
* Heartbeat: the runtime polls for ever, and polls are not late in the same way at every wrap (strong
  fairness of a poll at each of the last timestamps before it; without it a client could miss its heartbeat at every
  wrap).
* Client program: main goes on; a task that is ready again and again gets a worker; a socket is empty in the
  end; `select!` picks each of its branches in the end, and no loop is without suspension for good. Timers are only fair at moments when no worker runs a task: then some worker waits for them.
* Server program: the loop goes on, as an await on a client that is gone ends when QUIC times the connection out; each
  task takes up what it was told of and the Sources are polled (weak fairness of `TakeUp` and of `Passes`). That an await ends
  rests on QUIC's timeouts: a client that stays alive and never lets the stream's data through is not expressible.

## 5. Proofs

`LinkProofs` proves, for every value of the constants that satisfies the named assumptions
(`ProtoAssumption`, `RoomAssumption`, `LinkAssumption`, `FreshAssumption`):

| Theorem | Statement |
|---|---|
| `TypeCorrect` | `Spec => []TypeOK` |
| `NeverAhead` | `Spec => []NotAhead` |
| `WindowCarries` | `Spec => []CarriedByWindow` |
| `NeverReplayed` | `Spec => NoReplay` |
| `DroppedExactly` | `SkewBounded` implies `Spec => []OnlyBadDropped` |
| `Invariance` | `Spec => []IInv`, from which the others follow |

`SkewBounded`, `ClockSkew \in TimestampThreshold - U16Max .. U16Max - Lifetime`, says that the
clocks' difference and a datagram's age are together less than a round of the u16. None of these needs a calm network, and all hold for the code's own constants, where TLC
could not go. `NotAhead` alone is not inductive: a receiver stays behind
the sender because a flag that is on stands for a cycle the sender has used, but flags
and cycle numbers are shared by many cycles. `IInv` therefore relates both ends to the
unwrapped counts:

* `EndsCounted`: `sender.cycle` and `receiver.cycle` are `sent` and `got` modulo `MaxCycle`,
  and a flag that is on belongs to some cycle from `got` to below `sent` (`StandsAt`, `Backed`);
* `WireCounted`: a datagram's cycle and timestamp are those of the `seq` and time it was
  sent at, and it is not older than `Lifetime`. With `FreshAssumption` this turns the
  receiver's modular comparison into one of counts: an accepted datagram has
  `got <= seq` (lemma `AcceptedAhead`);
* `SenderWindow`, `WireWindow`: the slots of the sender, and of every datagram, hold the marked
  input exactly where the cycle it was polled in belongs (`Exact`).

`CommonLemmas` has the facts about `%` these need; the first half of `LinkProofs` says what each section
of `handle_datagram` does to a receiver that stands at a count (`HandleDatagramStands`
sums them up).

The second half is about a calm network (`CalmSpec`), on which the sender is at most `LagBound` cycles ahead. All assume
`CalmBound`, `LagBound <= FlagsApart`:

| Theorem | Statement |
|---|---|
| `CalmInvariance` | `CalmSpec => []CalmInv` |
| `HandledAtMostOnce` | `CalmSpec => []AtMostOnce` |
| `NothingSkipped` | `CalmSpec => []NoSkip` |
| `LossRepaired` | `CalmSpec => RepairsLoss` |
| `StreamImplemented` | `CalmSpec => ExactlyOnce`, the whole refinement, as `Stream` has no fairness |

`FlagsApart` is the least distance of two cycles with one flag: `MaxBuffered`, or what is left of `MaxCycle` after
dividing by it if that is not nothing, because of the wrap. For the code it is 7 (lemma `CodeFlagsApart`, for both windows the
programs use), and it is 4 in `link_calm`, which has exactly that lag; `link_wrap`, with one cycle
more, passes an input over. `CalmInv` is `IInv`, `Calm` and `HandledOnce`: the marked input was handled once if its cycle is behind the
receiver or flagged, and not at all otherwise. Between the ends a flag then belongs to one cycle only, so that catching up
clears no flag of a cycle still waited for, the sink is called with the input exactly if an accepted datagram carries it and
its flag is clear (`CalmSinks`), and such a datagram leaves it handled (`DeliverHandled`).

`LifetimeProofs` proves of the two runtimes (`Runtimes`) and of a Server or Client on either (`Lifetime`), for any number of
tasks and any programs (`RuntimeAssumption`, `LifetimeAssumption`, `ProgramsAssumption`); the two lines about `Library!Spec` are about
the Server alone, whose tasks end when they like:

| Theorem | Statement |
|---|---|
| `RuntimesTypeCorrect` | `Spec => []TypeOK` |
| `JoinsInvariant`, `LifeInvariance` | `Spec => []IInv`, `LifeSpec => []IInv` |
| `DropWaitsForAll`, `LifeDropWaits` | `Spec => []DropWaits`, `LifeSpec => []DropWaits` |
| `NoWakesAfterDrop`, `LifeNoWakesAfterDrop` | `Spec => NoWakeAfterDrop`, `LifeSpec => NoWakeAfterDrop` |
| `StepsImplement` | `Spec => Abstract!Init /\ [][Abstract!Next]_(Abstract!vars)`, the safety part of `Implements` |
| `ServerInvariance` | `Library!Spec => []ServerInv` |
| `ServerInvariants`, `ServerTellsTasks` | `Library!Spec => [](NoEventPanic /\ Agree)`, `Library!Spec => TasksTold` |
| `LifeNeverPanics`, `LifeAgrees` | `LifeSpec => []NoEventPanic`, `LifeSpec => []Agree` |
| `LifeTasksTold` | `LifeSpec => TasksTold`: each channel is one of `SessionEvents` |
| `DrainedAgree` | `LifeSpec => []Drained`: between calls, a running task with an empty channel holds the registered sessions |
| `CallsFailWithCause` | `LifeSpec => []CallsFail` |
| `BuildersAlike` | `LifeSpec => []BuildsAlike` |
| `LifeTypeCorrect` | `LifeSpec => []LifeTypeOK` |

`DropWaits` speaks of the end of a drop only, so `IInv` says how far it has come: a task whose handle is
gone has returned (`Joined`, threads) or was told to abort after the token was cancelled (`Aborted`, tokio). For the
refinements, a task that is not spawned yet has not run (`Unstarted`).

A step of `Lifetime` is a step of `Runtimes` or leaves it alone (`LifeRuns`), which carries the runtimes' theorems over; and
it is a step of `Server` or leaves that alone (`LifeServes`), because a step of the runtime ends one task at most (`EndsOne`);
the lemma `LifeIsServer` thus carries the Server's over. `CallsFail` needs that a task that returned was cancelled (`Caused`),
and that a call which fails its assertion leaves no call behind.
`BuildsAlike` needs what the builders have kept of the streams (`Kept`): all ports in a client's `ports`, in a server's the
mapper ports, with all ports bound.

Of the Server, `NoEventPanic` speaks of the first event of a channel only, and `Agree` of the last one of an id. `ServerInv` says of
every event that the channel leads from what the task holds to what it was told (`Led`, with `Leads` of `CommonLemmas`): the first
event of an id fits what the task holds, the events of an id alternate, the last one leaves what the task was told, and an id
without events is held if and only if it was told. Sending appends an event (`AppendLeads`), a task takes the first
(`TailLeads`), and with one call at a time, about a session of the map (`OneCall`), the beginning and the end of a call change
what nobody was told (`BeginTells`, `FinishTells`; `SendTells` is the step between), which is also why every step of the Server is one of each channel
(`NextTells`).

`ClientToServerReceiverProofs` and `ServerToClientSenderProofs` prove of the two table tasks, for any number of
clients, sockets, addresses, events and packets (`AddressAssumption` of each):

| Theorem | Statement |
|---|---|
| `Invariance` | `Spec => []IInv` |
| `TablesAlwaysAgree` | `Spec => []TablesAgree` |
| `NeverPanics` | `Spec => []NoPanic` |
| `AlwaysRoutedToSender` (receiving) | `Spec => []RoutedToSender` |
| `AlwaysSentToOwner` (sending) | `Spec => []SentToOwner` |
| `RecordedStays`, `ReachedStays` (receiving) | what `Settles` rests on but for progress |
| `HeardStays`, `ServedStays` (sending) | the same |

`TablesAgree` says that no index outlives its session; for `NoPanic` that is not enough: an id in the map must have its session in
the arena (`Mapped`), and an event must fit the map, which only the sender of the events can promise. Here it is the
channel of `SessionEvents`: `IInv` has `Leads(events, Held, announced)`, with the same lemmas as for the Server, and
`LifeTasksTold` proves that the Server's channels are such channels, whatever else happens to it. For the properties about addresses,
`OwnAddresses` says where the addresses in use, in flight and (in the sending task) in the arena can come from, and in the receiving task `Exclusive` that an address
only one client can have is mapped to that client's session or to none. `Exclusive` survives the end of a session because
every address mapped to it is one it has recorded (`NoDangling`).

`Settles` is liveness; what is proved is that nothing undoes the progress it needs once news and changes of address have
ceased (`Rests`). It comes in two rounds. In the first every socket has its address recorded, and a recorded address stays so
(`RecordedStays`, `HeardStays`). In the second, in the receiving task, a heartbeat unmaps the address recorded before even if another
session is reached at it (line 179), but once all records are right that is the address it maps again, so who is reached stays reached
(`ReachedStays`; clients with different addresses at first, as otherwise two could have one address for good); in the sending task, every poll of the sessions
from then on sends what the Senders yield, whichever do, to exactly the connected clients at the addresses they have, unless a
socket fails (`ServedStays`).

`HeartbeatProofs` proves, for any counter width, period and lateness of polls (`HeartbeatAssumption`):

| Theorem | Statement |
|---|---|
| `LateOnlyThere` | `SinceStart` implies `Spec => []LateOnlyAtWrap` |

Its `IInv` (types included) says what the time since the last heartbeat tells of the next one: it is that much nearer
(`Nearing`), or was scheduled across the wrap and is past already, so that the next poll sends it (`Wrapped`),
or none was sent yet (`Started`), or it is one of the last before the wrap (`AtWrap`).

`ClientProofs` proves of `ClientProgram`, for any number of workers and any bounds of its channels
(`ClientAssumption`):

| Theorem | Statement |
|---|---|
| `ClientInvariance` | `ProgramSpec => []IInv`, with the types of `ProgramTypeOK` |
| `SinkAlwaysHeard` | `ProgramSpec => []SinkIsHeard` |

`SinkIsHeard` is about a task in its poll, so `IInv` says when the printing task can have ended (after the receiving task,
or with the program: `Outlasts`), that it was not there while the receiving task was still to be spawned (`Unprinted`), and
that the program outlives the tasks (`Over`).

`ServerProgramProofs` proves of `ServerProgram`, for any number of clients and players (`AdmissionAssumption`,
`InputsAssumption`):

| Theorem | Statement |
|---|---|
| `AdmissionInvariance` | `ProgramSpec => []IInv`, with the types of `Admission` |
| `AlwaysDistinct` | `ProgramSpec => []Distinct` |
| `AlwaysTakenUp` | `ProgramSpec => []TakenUp` |
| `AlwaysRoom` | `ProgramSpec => []RoomForAll` |

`IInv` follows an index and an id from where they are taken to where they end up: as many ids were counted up as indices taken
(`Counted`, which also bounds `nextSessionId`), what was given out is not given out again (`Issued`), a client is sent one id, in its
turn (`Greeted`), and every registered session has one of those ids to itself, with one more left for the client in hand,
and the tasks are told of no other (`Registered`). There are therefore at most as many sessions as players, so that only a smaller
capacity is ever used up; `Room` adds to `RoomForAll` that the map never holds more than its capacity and that a loop that has
panicked goes nowhere.

Only model-checked is liveness, which TLAPS cannot prove here: `Converges`, `DropEnds`, the liveness half of `Implements`,
`Settles` of both table tasks, `KeepsBeating`, `Admitted`, `PassedOn`, `Flows` and `FailureEnds`. What the code does wrong
(`link_burst`, `link_wrap`, `heartbeat_tokio`, `heartbeat_debug`) is shown by TLC's counterexamples.

## 6. Not modelled, and why

* The cipher and the byte layout: a keyed bijection; a datagram is the record it encodes. That
  an input whose ciphertext is all zeros counts as blank (`proto/receiver.rs:141`) is lost with it.
* Configuration, TLS and endpoint setup, logging, socket options: I/O without protocol state. Why a call of a
  builder fails other than by a port that comes twice is one outcome, `Drop("failed")`.
* The window sizes of the two programs: the server CLI's streams are `<_, 28, 1>`, the client
  CLI's `<_, 32, 3>`, so that each ignores the other's datagrams by their length. A link has
  one window for both ends, as the library's tests do.
* Timestamps of a TokioRuntime in `Link`: there both ends get the time since their last poll
  (`runtimes/tokio_runtime.rs:83-86`), about a millisecond always, so that the check of a datagram's timestamp says nothing of its
  age. `Heartbeat` has that clock, `Link` only the ThreadRuntime's.

## 7. Plan

Done, in this order: the stream (Link and its proofs), Server and the session tables, heartbeats,
runtimes, admission and broker, the server program that composes them; then the builders, the lifetime of a
Server or Client that composes them with the runtimes and the Server, and the client program.

Next:

1. Inputs in `ServerToClientSender`: what is consumed from a Source before its client's address is known.
2. `Session`: a handshake, registration and both table modules composed, from admission to the first
   datagram delivered.

To prove next: the safety half of the other liveness properties (`KeepsBeating`: the next heartbeat is never
further away than a period or a round; `Flows`, `Admitted` and `PassedOn`: nothing undoes their progress), and with `Session` above that the table tasks' channels are those of one Server.
