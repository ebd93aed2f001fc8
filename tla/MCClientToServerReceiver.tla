---------------------- MODULE MCClientToServerReceiver ----------------------
(***************************************************************************)
(* The receiving task for TLC: two clients with two mirrored sockets each. *)
(* The second may be given the address a2 that the first has had; all      *)
(* other addresses belong to one client.                                   *)
(***************************************************************************)
EXTENDS ClientToServerReceiver, TLC

CONSTANTS s1, s2, m1, m2, a1, a2, a3, b1, b2

MCFirstAddr == (s1 :> ((m1 :> a1) @@ (m2 :> a2))) @@ (s2 :> ((m1 :> b1) @@ (m2 :> b2)))

MCReach == (s1 :> {a1, a2, a3}) @@ (s2 :> {b1, b2, a2})
=============================================================================
