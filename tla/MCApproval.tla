------------------------------ MODULE MCApproval ------------------------------
(* A small instance of Approval for TLC: one user, two requests of any     *)
(* domains, and an admin of another country, who may do nothing.           *)
EXTENDS Approval, TLC

CONSTANTS u1, r1, r2, owner, staff, foreign

Everything == {"submit", "review", "approve", "suspend", "decide", "ban"}
Permissions == [a \in {owner, staff, foreign} |-> Everything]
Countries == u1 :> "BD"
Territory == (owner :> {"BD", "IN"}) @@ (staff :> {"BD"}) @@ (foreign :> {"IN"})
ApprovalSymmetry == Permutations({r1, r2})
=============================================================================
