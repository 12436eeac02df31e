------------------------- MODULE MCPayoutWithdrawal -------------------------
(* A small instance of PayoutWithdrawal for TLC.                           *)
EXTENDS PayoutWithdrawal, TLC

CONSTANTS u1, u2, w1, w2, b1, b2

\* At the second rate one Bean is less than a cent.
TwoPolicies == {[rate |-> 50, min |-> 1, enabled |-> TRUE],
                [rate |-> 150, min |-> 2, enabled |-> FALSE]}

PayoutSymmetry == Permutations({u1, u2}) \cup Permutations({w1, w2})
                    \cup Permutations({b1, b2})
=============================================================================
