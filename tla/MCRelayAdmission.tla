-------------------------- MODULE MCRelayAdmission --------------------------
(* One slot and two places for three requests of the relay: two share their  *)
(* connection with two background calls, so that all three may stand in line *)
(* at once, two of them waiting while the third finds the queue full.        *)
EXTENDS RelayAdmission, TLC

CONSTANTS r1, r2, r3, b1, b2, k1, k2

MCInteractive == {r1, r2, r3}
MCBackground  == {b1, b2}
MCKeys        == {k1, k2}
MCKeyOf       == [r \in MCInteractive \cup MCBackground |-> IF r = r3 THEN k2 ELSE k1]
=============================================================================
