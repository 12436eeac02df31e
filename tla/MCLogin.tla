------------------------------ MODULE MCLogin ------------------------------
(***************************************************************************)
(* A small instance of Login for TLC: one number, because the files are    *)
(* all that two numbers share.                                             *)
(***************************************************************************)
EXTENDS Login, TLC

CONSTANTS m1, o1, o2, u1, u2, t1, t2

Fresh == Permutations({o1, o2}) \cup Permutations({u1, u2})
             \cup Permutations({t1, t2})
=============================================================================
