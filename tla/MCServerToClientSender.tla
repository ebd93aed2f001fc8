----------------------- MODULE MCServerToClientSender -----------------------
(***************************************************************************)
(* The sending task for TLC: two clients that each have two addresses, one *)
(* of which a NAT may give to either.                                      *)
(***************************************************************************)
EXTENDS ServerToClientSender, TLC

CONSTANTS s1, s2, a1, b1, c1

MCFirstAddr == (s1 :> a1) @@ (s2 :> b1)
MCReach     == (s1 :> {a1, c1}) @@ (s2 :> {b1, c1})
=============================================================================
