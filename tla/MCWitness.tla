------------------------------ MODULE MCWitness ------------------------------
(* Small instances of Witness.                                             *)
EXTENDS Witness

CONSTANTS h1, o1, o2

MCOneHolder == {h1}
MCOrigins == {o1, o2}
================================================================================
