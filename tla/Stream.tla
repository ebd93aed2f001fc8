------------------------------- MODULE Stream -------------------------------
(***************************************************************************)
(* What one direction of a session promises while the network is calm,     *)
(* without windows, flags or cycle numbers: the source emits a stream of   *)
(* inputs, the sink is handed each of them exactly once, in any order, and *)
(* no later than the receiver moves past it.  As in Link, one marked input *)
(* stands for all.                                                         *)
(***************************************************************************)
EXTENDS Integers

VARIABLES
    sent,    \* positions of the stream the source has used
    got,     \* positions the receiver has moved past
    mark,    \* the position of the marked input, or -1
    handled  \* calls of the sink with the marked input

vars == <<sent, got, mark, handled>>

NotPolled == -1

Init ==
    /\ sent = 0
    /\ got = 0
    /\ mark = NotPolled
    /\ handled = 0

\* The source fills the next position, with the marked input or another.
Emit ==
    /\ sent' = sent + 1
    /\ mark' \in {mark} \cup IF mark = NotPolled THEN {sent} ELSE {}
    /\ UNCHANGED <<got, handled>>

\* The marked input is waiting for the receiver.
Pending == mark \in got .. sent - 1 /\ handled = 0

\* The receiver handles what it may and moves on, never past a pending input.
Receive ==
    /\ got' \in got .. sent
    /\ handled' \in {handled} \cup IF Pending THEN {1} ELSE {}
    /\ mark \in 0 .. got' - 1 => handled' = 1
    /\ UNCHANGED <<sent, mark>>

Next == Emit \/ Receive

Spec == Init /\ [][Next]_vars
=============================================================================
