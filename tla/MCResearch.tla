------------------------------ MODULE MCResearch ------------------------------
(* Small instances of Research.                                            *)
EXTENDS Research, TLC

CONSTANTS t1, t2, q1, p1

MCTasks == {t1, t2}
MCOneTask == {t1}
MCRequests == {q1, p1}
MCPages == {p1}
MCOneRequest == {q1}
MCNoPages == {}
MCLeast == [k \in Kinds |-> IF k = "model" THEN 2 ELSE 1]
MCReviewed == [k \in Kinds |-> 2]
Symmetric == Permutations(MCTasks)
================================================================================
