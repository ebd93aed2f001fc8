------------------------------- MODULE Sender -------------------------------
(***************************************************************************)
(* proto/sender.rs.  A Sender is a record: the cycle it will transmit      *)
(* next and, for the last WindowSize cycles, one slot and one flag each.   *)
(* The slot of a cycle c is slot c % WindowSize, so every datagram repeats *)
(* the WindowSize - 1 cycles before its own.  A slot is an input or Blank  *)
(* (the zero-filled slot): sealing a slot or a header and opening it with  *)
(* the same session key gives it back, and nothing here looks inside one.  *)
(***************************************************************************)
EXTENDS ProtoConstants

CONSTANTS
    Inputs,  \* what a Source may write
    Blank    \* the zero-filled slot: the Source had nothing

ASSUME BlankAssumption == Blank \notin Inputs

Slots == Inputs \cup {Blank}

Senders == [cycle : Cycles,
            flags : [SlotIndex -> BOOLEAN],
            slots : [SlotIndex -> Slots]]

NewSender == [cycle |-> 0,
              flags |-> [i \in SlotIndex |-> FALSE],
              slots |-> [i \in SlotIndex |-> Blank]]

\* Mutant: a poll without an input leaves the previous one in the slot.
PollSourceUncleared(s, slot) ==
    LET index == s.cycle % WindowSize IN
    [s EXCEPT !.slots[index] = IF slot = Blank THEN @ ELSE slot,
              !.flags[index] = slot # Blank]

\* One poll of the Source into the slot of the current cycle.
PollSource(s, slot) ==
    LET index == s.cycle % WindowSize IN
    [s EXCEPT !.slots[index] = slot,
              !.flags[index] = slot # Blank]

\* A window in which no cycle has an input is not transmitted.
Transmits(s) == \E i \in SlotIndex : s.flags[i]

\* Mutant: the cycle does not wrap.
NextCycleUnwrapped(s) == [s EXCEPT !.cycle = @ + 1]

\* Only a transmitted cycle is used up.
NextCycle(s) == [s EXCEPT !.cycle = (@ + 1) % MaxCycle]

PollDatagram(s, slot) ==
    LET polled == PollSource(s, slot) IN
    IF Transmits(polled) THEN NextCycle(polled) ELSE polled

\* What poll_datagram puts on the wire when it transmits.
Datagram(s, slot, timestamp) ==
    [cycle     |-> s.cycle,
     timestamp |-> timestamp,
     slots     |-> PollSource(s, slot).slots]
=============================================================================
