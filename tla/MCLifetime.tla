----------------------------- MODULE MCLifetime -----------------------------
(***************************************************************************)
(* For TLC: what the two command line programs build (longboy-schema       *)
(* lib.rs), the Server under either runtime, and streams that get in each  *)
(* other's way, on sockets of the builder and of the application.          *)
(***************************************************************************)
EXTENDS Lifetime

Stream(mapperPort, port, sockets) ==
    [mapperPort |-> mapperPort, port |-> port, sockets |-> sockets]

Bound(mapperPort, port) == Stream(mapperPort, port, "bound")

StreamLists ==
    {<<Bound(1, 0), Bound(2, p)>> : p \in 1 .. 3}
      \cup {<<Bound(2, 3), Bound(m, 0)>> : m \in 2 .. 3}
      \cup {<<Bound(1, 4), Bound(2, 4)>>, <<Bound(1, 0), Bound(1, 0)>>,
            <<Stream(1, 0, "given"), Stream(1, 3, "given")>>,
            <<Bound(1, 0), Stream(2, 3, "mismatched")>>}

MCPrograms == [server : BOOLEAN, streams : StreamLists]
=============================================================================
