-------------------------- MODULE MCCallSignaling --------------------------
(***************************************************************************)
(* Small instances of CallSignaling for TLC: two users with two tabs each  *)
(* and one call, or three users, one with two tabs, and two calls.         *)
(***************************************************************************)
EXTENDS CallSignaling

CONSTANTS a, b, x, a1, a2, b1, b2, x1, c1, c2

TwoUsers == {a, b}
ThreeUsers == {a, b, x}
TwoTabs == {a1, a2, b1, b2}
TwoTabsOneUser == {a1, a2, b1, x1}
OwnerOf(S) == [s \in S |-> CASE s \in {a1, a2} -> a
                             [] s \in {b1, b2} -> b
                             [] OTHER -> x]
TwoTabsOwner == OwnerOf(TwoTabs)
TwoTabsOneUserOwner == OwnerOf(TwoTabsOneUser)
=============================================================================
