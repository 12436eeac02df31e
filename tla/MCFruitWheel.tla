---------------------------- MODULE MCFruitWheel ----------------------------
(* Two players, two fruits, with and without the production wallet.        *)
EXTENDS FruitWheel, TLC

CONSTANTS u1, u2, orange, apple

MCMult == (orange :> 5) @@ (apple :> 10)
=============================================================================
