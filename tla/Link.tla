-------------------------------- MODULE Link --------------------------------
(***************************************************************************)
(* One direction of a session: a Sender, the UDP wire and a Receiver       *)
(* sharing a cipher key, as a ClientToServerSender and a                   *)
(* ClientToServerReceiver (or the server-to-client pair) run them.         *)
(*                                                                         *)
(* The wire is the set of datagrams sent at most Lifetime ms ago.  It      *)
(* hands each of them over in any order, any number of times or never,     *)
(* which covers the three mirrored copies of every datagram, any of which  *)
(* may be late or lost.                                                    *)
(*                                                                         *)
(* The two tasks are polled with the ms since each of them started, as a   *)
(* ThreadRuntime does; a TokioRuntime gives the ms since the last poll     *)
(* (tokio_runtime.rs:83-86), which says nothing of a datagram's age.       *)
(*                                                                         *)
(* No code looks inside an input, so one of them stands for all: the       *)
(* source emits Marked at most once, and handled counts how often the sink *)
(* is called with it.  sent and got count the cycles the two ends have     *)
(* moved; seq and at record in a datagram the value of sent and now when   *)
(* it was sent.  None of these is read by the code.                        *)
(***************************************************************************)
EXTENDS Sender, Receiver

CONSTANTS
    Marked,     \* the input whose deliveries are counted
    ClockSkew,  \* the receiving task's clock minus the sending task's, in ms
    Lifetime,   \* the longest time in ms a datagram stays on the wire
    LagBound,   \* calm network: how far the sender may run ahead
    MaxTime     \* bound on the clock

ASSUME LinkAssumption ==
    /\ Marked \in Inputs
    /\ ClockSkew \in Int
    /\ Lifetime \in Nat
    /\ LagBound \in Nat
    /\ MaxTime \in Nat

\* A datagram whose timestamp is accepted was sent too recently for its cycle
\* number to have come round to one the receiver accepts: a sender uses at
\* most one cycle per ms, and 2048 < 65535 - 256.
ASSUME FreshAssumption ==
    \A age \in 0 .. Lifetime :
        AsU16(age + ClockSkew) <= TimestampThreshold => age < MaxCycle - CycleThreshold

VARIABLES
    sender,    \* the Sender
    receiver,  \* the Receiver
    wire,      \* the datagrams in flight
    now,       \* ms since the sending task started
    sent,      \* cycles the sender has used up
    got,       \* cycles the receiver has passed
    mark,      \* the cycle, as counted by sent, of the marked input, or -1
    handled    \* calls of the sink with the marked input

vars == <<sender, receiver, wire, now, sent, got, mark, handled>>

NotPolled == -1

Datagrams == [cycle : Cycles, timestamp : Timestamps, slots : [SlotIndex -> Slots],
              seq : Nat, at : Nat]

TypeOK ==
    /\ sender \in Senders
    /\ receiver \in Receivers
    /\ wire \in SUBSET Datagrams
    /\ now \in 0 .. MaxTime
    /\ sent \in Nat
    /\ got \in Nat
    /\ mark \in Nat \cup {NotPolled}
    /\ handled \in Nat

Init ==
    /\ sender = NewSender
    /\ receiver = NewReceiver
    /\ wire = {}
    /\ now = 0
    /\ sent = 0
    /\ got = 0
    /\ mark = NotPolled
    /\ handled = 0

-----------------------------------------------------------------------------
ReceiverClock == AsU16(now + ClockSkew)

\* The datagrams of w the wire still holds one ms from now.
Survivors(w) == {d \in w : d.at + Lifetime > now}

\* The sending task polls, then sleeps a millisecond.
Poll(slot) ==
    /\ now < MaxTime
    /\ slot = Marked => mark = NotPolled
    /\ sender' = PollDatagram(sender, slot)
    /\ mark' = IF slot = Marked THEN sent ELSE mark
    /\ IF Transmits(PollSource(sender, slot))
       THEN LET d == Datagram(sender, slot, AsU16(now)) IN
            /\ wire' = Survivors(wire \cup
                   {[cycle |-> d.cycle, timestamp |-> d.timestamp, slots |-> d.slots,
                     seq |-> sent, at |-> now]})
            /\ sent' = sent + 1
       ELSE /\ wire' = Survivors(wire)
            /\ sent' = sent
    /\ now' = now + 1
    /\ UNCHANGED <<receiver, got, handled>>

\* A millisecond in which the sending task is not scheduled.
Tick ==
    /\ now < MaxTime
    /\ now' = now + 1
    /\ wire' = Survivors(wire)
    /\ UNCHANGED <<sender, receiver, sent, got, mark, handled>>

\* The receiving task reads a datagram from its socket.
Deliver(d) ==
    /\ d \in wire
    /\ IF Rejects(receiver, ReceiverClock, d)
       THEN UNCHANGED <<receiver, got, handled>>
       ELSE /\ receiver' = HandleDatagram(receiver, d)
            /\ got' = got + CyclesGained(receiver, d)
            /\ handled' = handled + Cardinality(Sinks(receiver, d, Marked))
    /\ UNCHANGED <<sender, wire, now, sent, mark>>

\* The clock has reached its bound and the wire is silent.
Rest == now = MaxTime /\ UNCHANGED vars

Next ==
    \/ \E slot \in Slots : Poll(slot)
    \/ Tick
    \/ \E d \in wire : Deliver(d)
    \/ Rest

Spec == Init /\ [][Next]_vars

\* A calm network delivers often enough that the sender is never more than
\* LagBound cycles ahead of the receiver.
Calm == sent - got <= LagBound

CalmSpec == Init /\ [][Next /\ Calm']_vars

-----------------------------------------------------------------------------
(* Whatever the network does.                                              *)

\* The receiver never moves past a cycle the sender has not used yet: its
\* advance loop stops at the first cycle not flagged (receiver.rs:153-165),
\* although flags and cycle numbers are both shared by many cycles.
NotAhead == got <= sent

\* An input is handed to the sink only while the receiver has not moved past
\* its cycle: a late or repeated datagram is recognised, even once cycle
\* numbers have wrapped (receiver.rs:84-92, 121-132).
NoReplay == [][handled' # handled => mark >= got]_vars

\* Exactly the WindowSize datagrams from the input's own cycle on carry it,
\* across quiet periods and the cycle wrap: that is the redundancy lost
\* datagrams are repaired from (sender.rs:56-87).
Carries(d) == \E i \in SlotIndex : d.slots[i] = Marked

CarriedByWindow ==
    \A d \in wire :
        Carries(d) <=> mark # NotPolled /\ mark <= d.seq /\ d.seq < mark + WindowSize

\* Only bad, late or already processed datagrams are dropped
\* (receiver.rs:84-92): those that are, by the receiver's clock, from the future or
\* more than TimestampThreshold ms old, those of a cycle it has passed, and, since
\* it sees cycle numbers and not cycles, those more than CycleThreshold cycles
\* ahead but for whole rounds of MaxCycle.  All others are accepted.
Late(d) == now - d.at + ClockSkew \notin 0 .. TimestampThreshold

OnlyBadDropped ==
    \A d \in wire :
        Rejects(receiver, ReceiverClock, d) <=>
            \/ Late(d)
            \/ d.seq < got
            \/ (d.seq - got) % MaxCycle > CycleThreshold

-----------------------------------------------------------------------------
(* On a calm network.                                                      *)

\* No input is handled twice, however often its datagrams are repeated
\* (tests/sender_receiver.rs:214-221, mirroring).
AtMostOnce == handled <= 1

\* The receiver never gives a cycle up or takes it for received: it moves past
\* an input only after handling it (tests/sender_receiver.rs:318-338).
NoSkip == mark # NotPolled /\ mark < got => handled >= 1

\* Any one accepted datagram of the WindowSize that carry an input is enough
\* to have it handled, and handles it no second time.
RepairsLoss ==
    [][\A d \in wire :
          Deliver(d) /\ Carries(d) /\ ~Rejects(receiver, ReceiverClock, d)
              => handled' = 1]_vars

\* The two ends together are an exactly-once stream.
Abstract == INSTANCE Stream
ExactlyOnce == Abstract!Spec
=============================================================================
