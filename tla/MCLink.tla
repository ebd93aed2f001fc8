------------------------------- MODULE MCLink -------------------------------
(***************************************************************************)
(* Instances of Link for TLC.  The link_*.cfg files narrow the counters,   *)
(* keeping what matters: MaxCycle a multiple of WindowSize but not always  *)
(* of MaxBuffered (65535 % 8 = 7 = 7 % 4), both rules for MaxBuffered, and *)
(* runs long enough for cycle numbers and timestamps to wrap.              *)
(***************************************************************************)
EXTENDS Link

\* The receiving task started one ms after the sending task.
OneBehind == -1
=============================================================================
