------------------------------ MODULE MCSignIn ------------------------------
(* A small instance of SignIn.                                              *)
EXTENDS SignIn, TLC

CONSTANTS r1, r2, s1, h1, h2, t1, o1

MCRequests == {r1, r2}
MCSessions == {s1}
MCHandoffs == {h1, h2}
MCAttempts == {t1}
MCOwners   == {o1}
Symmetric == Permutations(MCRequests) \cup Permutations(MCHandoffs)
===============================================================================
