----------------------------- MODULE MCKeyRotation -----------------------------
(* Small instances of KeyRotation.                                         *)
EXTENDS KeyRotation, TLC

CONSTANTS k1, k2, k3

MCKeys == {k1, k2, k3}
MCTwoFiles == {1, 2}
KeySymmetry == Permutations(MCKeys)
===============================================================================
