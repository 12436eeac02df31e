---------------------------- MODULE MCWriteQueue ----------------------------
(* A small instance of WriteQueue for TLC.                                 *)
EXTENDS WriteQueue, TLC

CONSTANTS f1, f2

QueueSymmetry == Permutations({f1, f2})
=============================================================================
