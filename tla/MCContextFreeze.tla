-------------------------- MODULE MCContextFreeze --------------------------
(***************************************************************************)
(* Turns on a new session and on one with a snapshot of an older schema.   *)
(***************************************************************************)
EXTENDS ContextFreeze, TLC

CONSTANTS t1, t2, t3, t4

TurnSymmetry == Permutations(Turns \ Hinted)
=============================================================================
