--------------------------- MODULE ProtoConstants ---------------------------
(***************************************************************************)
(* The compile-time constants of one longboy stream (proto/constants.rs)   *)
(* and the literals of proto/receiver.rs.  The code fixes U16Max = 65535,  *)
(* SmallWindow = 4, CycleThreshold = 256 and TimestampThreshold = 2048;    *)
(* they are parameters so that TLC can run with narrow counters.           *)
(***************************************************************************)
EXTENDS Integers

CONSTANTS
    WindowSize,         \* WINDOW_SIZE: cycles carried by one datagram
    SmallWindow,        \* windows below this size buffer 2 * SmallWindow cycles
    U16Max,             \* u16::MAX
    CycleThreshold,     \* largest cycle difference a receiver accepts
    TimestampThreshold  \* largest timestamp difference, in ms, it accepts

ASSUME ProtoAssumption ==
    /\ WindowSize \in Nat \ {0}
    /\ SmallWindow \in Nat \ {0}
    /\ U16Max \in Nat
    /\ WindowSize <= U16Max
    /\ CycleThreshold \in Nat
    /\ TimestampThreshold \in Nat

\* Cycle numbers count modulo MaxCycle, the largest multiple of the window
\* that a u16 holds.
MaxCycle == (U16Max \div WindowSize) * WindowSize

\* How many cycles the receiver keeps a flag for.
MaxBuffered == IF WindowSize < SmallWindow THEN 2 * SmallWindow
                                           ELSE 2 * WindowSize

\* The buffered cycles and a window together are fewer than the cycle numbers
\* (65535 of them), so a cycle just behind the receiver never looks buffered.
ASSUME RoomAssumption == MaxBuffered + WindowSize <= MaxCycle

Cycles    == 0 .. MaxCycle - 1
SlotIndex == 0 .. WindowSize - 1
FlagIndex == 0 .. MaxBuffered - 1

\* Task timestamps are milliseconds truncated to a u16.
Timestamps    == 0 .. U16Max
AsU16(millis) == millis % (U16Max + 1)
=============================================================================
