---------------------------- MODULE MCRoomPresence ----------------------------
(***************************************************************************)
(* A small instance of RoomPresence for TLC: a guest with two sockets, and *)
(* the host of the rooms, who only moderates.                              *)
(***************************************************************************)
EXTENDS RoomPresence, TLC

CONSTANTS guest, host, a, b, g1, g2

Clients == (guest :> <<g1, g2>>) @@ (host :> <<>>)
Hosts == [r \in Room |-> host]
=============================================================================
