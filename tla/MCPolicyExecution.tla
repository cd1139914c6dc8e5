------------------------- MODULE MCPolicyExecution -------------------------
(* One intent and two sessions; a clock of two seconds over a release that   *)
(* is effective at the first of them only;  and seven generations: the six   *)
(* that registration, intent, epoch, reservation and start take, and one     *)
(* more change anywhere among them.                                          *)
EXTENDS PolicyExecution, TLC

CONSTANTS k1, s1, s2

OneKey      == {k1}
TwoSessions == {s1, s2}

\* Sessions have no order of their own.
Alike == Permutations(TwoSessions)
=============================================================================
