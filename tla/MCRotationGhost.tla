--------------------------- MODULE MCRotationGhost ---------------------------
(* Two runs on references of their own: the state space is the square of   *)
(* what tests/model_check.rs explores for one.                             *)
EXTENDS RotationGhost, TLC

CONSTANTS r1, r2

MCRun == {r1, r2}
MCSymmetry == Permutations(MCRun)
=============================================================================
