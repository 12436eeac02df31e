--------------------------- MODULE MCAgencySalary ---------------------------
(* Two accounts open two agencies, one each or both the same; one of them   *)
(* is drawn into agencies as a host, his own or the other's.  Overlapping   *)
(* weeks and periods.                                                       *)
EXTENDS AgencySalary, TLC

CONSTANTS h1, o1, a1, a2

MCAccount == {h1, o1}
MCDrawn == {h1}
MCRooms == {h1, o1}
MCAgencies == {a1, a2}
MCWindows == {-1, 0}
MCBounds == {<<0, 1>>, <<0, 2>>}
MCPolicies == {(0 :> 10) @@ (20 :> 30), (0 :> 20) @@ (20 :> 40)}
MCLevels == (10 :> 12) @@ (20 :> 25)
MCScopes == {{"invites", "rooms"}, {"agencies"}, {"hosts", "rooms"}}
MCSymmetry == Permutations(MCAgencies)
=============================================================================
