------------------------------ MODULE Receiver ------------------------------
(***************************************************************************)
(* proto/receiver.rs.  A Receiver is a record: the first cycle it has not  *)
(* seen and one flag per buffered cycle, c's flag being c % MaxBuffered.   *)
(* handle_datagram rejects, catches up, sinks the new slots and advances,  *)
(* in that order; each phase is an operator from a receiver to a receiver. *)
(***************************************************************************)
EXTENDS ProtoConstants, FiniteSets

Receivers == [cycle : Cycles, flags : [FlagIndex -> BOOLEAN]]

NewReceiver == [cycle |-> 0, flags |-> [j \in FlagIndex |-> FALSE]]

FlagOf(cycle) == cycle % MaxBuffered

\* How far a cycle lies ahead of the receiver; a cycle just behind it lies
\* almost MaxCycle ahead.
CycleDiff(r, cycle) == ((cycle + MaxCycle) - r.cycle) % MaxCycle

\* u16::wrapping_sub
TimestampDiff(now, timestamp) == (now - timestamp) % (U16Max + 1)

\* Mutants: the age of a datagram is not looked at, or the limit on its cycle is
\* exclusive.
RejectsByCycle(r, now, d) == CycleDiff(r, d.cycle) > CycleThreshold

RejectsAtLimit(r, now, d) ==
    \/ CycleDiff(r, d.cycle) >= CycleThreshold
    \/ TimestampDiff(now, d.timestamp) > TimestampThreshold

Rejects(r, now, d) ==
    \/ CycleDiff(r, d.cycle) > CycleThreshold
    \/ TimestampDiff(now, d.timestamp) > TimestampThreshold

\* The n-th cycle from the receiver's own.
Ahead(r, n) == (r.cycle + n) % MaxCycle

\* Step over n cycles, clearing their flags.
StepOver(r, n) ==
    [cycle |-> Ahead(r, n),
     flags |-> [j \in FlagIndex |->
                  r.flags[j] /\ \A k \in 0 .. n - 1 : FlagOf(Ahead(r, k)) # j]]

\* Mutant: gives up cycles it could still buffer.
GivenUpEarly(r, d) ==
    LET diff == CycleDiff(r, d.cycle) IN
    IF diff >= WindowSize THEN diff - WindowSize + 1 ELSE 0

\* The cycles given up because the datagram is too far ahead.
GivenUp(r, d) ==
    LET diff == CycleDiff(r, d.cycle) IN
    IF diff > MaxBuffered THEN diff - MaxBuffered ELSE 0

CatchUp(r, d) == StepOver(r, GivenUp(r, d))

\* The cycle that iteration i of the sink loop looks at.
WindowCycle(d, i) == ((d.cycle + MaxCycle) - i) % MaxCycle

\* Mutants: no early out; the loop stops one slot short.
ReachedAll(r, d) == SlotIndex

ReachedShort(r, d) ==
    {i \in 0 .. WindowSize - 2 :
        \A k \in 0 .. i : CycleDiff(r, WindowCycle(d, k)) <= MaxBuffered}

\* The iterations the loop reaches before its early out.
Reached(r, d) ==
    {i \in SlotIndex : \A k \in 0 .. i : CycleDiff(r, WindowCycle(d, k)) <= MaxBuffered}

\* Mutant: the flag of a cycle is not looked at.
UnseenOrNot(r, d) == Reached(r, d)

\* Of those, the ones that find their flag clear.
Unseen(r, d) ==
    {i \in Reached(r, d) :
        LET flag == FlagOf(WindowCycle(d, i)) IN
        ~r.flags[flag] /\ \A k \in 0 .. i - 1 : FlagOf(WindowCycle(d, k)) # flag}

\* The slot handed to the Sink (or skipped, when blank) by an unseen iteration.
SlotAt(d, i) == d.slots[WindowCycle(d, i) % WindowSize]

\* Mutant: only the datagram's own cycle is flagged.
FlagWindowOwn(r, d) == [r EXCEPT !.flags[FlagOf(d.cycle)] = TRUE]

FlagWindow(r, d) ==
    [r EXCEPT !.flags = [j \in FlagIndex |->
        @[j] \/ \E i \in Reached(r, d) : FlagOf(WindowCycle(d, i)) = j]]

\* Whether the advance loop takes its n-th pass (from 0): the flag of that
\* cycle is set and no earlier pass has cleared it.
Passes(r, n) ==
    LET flag == FlagOf(Ahead(r, n)) IN
    r.flags[flag] /\ \A k \in 0 .. n - 1 : FlagOf(Ahead(r, k)) # flag

\* The passes it takes: each clears one flag, so never more than MaxBuffered.
Taken(r) == {n \in FlagIndex : \A k \in 0 .. n : Passes(r, k)}

RunLength(r) == Cardinality(Taken(r))

Advance(r) == StepOver(r, RunLength(r))

\* The iterations of the sink loop that call the Sink with the given input.
Sinks(r, d, input) ==
    {i \in Unseen(CatchUp(r, d), d) : SlotAt(d, i) = input}

\* The whole of handle_datagram on a datagram that is not rejected, and by
\* how many cycles it moves the receiver.
HandleDatagram(r, d) == Advance(FlagWindow(CatchUp(r, d), d))

CyclesGained(r, d) == GivenUp(r, d) + RunLength(FlagWindow(CatchUp(r, d), d))
=============================================================================
