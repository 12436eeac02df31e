----------------------------- MODULE MCRecharge -----------------------------
(* Small instances of Recharge for TLC.                                    *)
EXTENDS Recharge, TLC

CONSTANTS t1, t2, u1, u2, r1, r2, upi, gpay

RequestSymmetry == Permutations({t1, t2}) \cup Permutations({u1, u2})
                     \cup Permutations({r1, r2}) \cup Permutations({upi, gpay})
=============================================================================
