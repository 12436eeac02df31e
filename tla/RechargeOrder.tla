---------------------------- MODULE RechargeOrder ----------------------------
(***************************************************************************)
(* What a recharge request promises: it is opened, then paid or closed for *)
(* good, and its diamonds reach the wallet at most once and only when it   *)
(* is paid.  (A crash may leave a paid request without its diamonds.)      *)
(***************************************************************************)
EXTENDS Naturals

CONSTANT Txn

VARIABLES
    outcome,   \* where each request stands
    credits    \* how often its diamonds were added to the wallet

orderVars == <<outcome, credits>>

OrderInit ==
    /\ outcome = [t \in Txn |-> "none"]
    /\ credits = [t \in Txn |-> 0]

Move(t, from, to) ==
    /\ outcome[t] = from
    /\ outcome' = [outcome EXCEPT ![t] = to]
    /\ UNCHANGED credits

PutIn(t) ==
    /\ outcome[t] = "paid"
    /\ credits[t] = 0
    /\ credits' = [credits EXCEPT ![t] = 1]
    /\ UNCHANGED outcome

OrderNext ==
    \E t \in Txn :
        \/ Move(t, "none", "open")
        \/ Move(t, "open", "paid")
        \/ Move(t, "open", "closed")
        \/ PutIn(t)

OrderSpec == OrderInit /\ [][OrderNext]_orderVars
=============================================================================
