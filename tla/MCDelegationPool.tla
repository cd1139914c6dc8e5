-------------------------- MODULE MCDelegationPool --------------------------
(* Three tasks and two workers: a third task is still queued while both      *)
(* workers are busy, so a failure meets a sibling in flight and a task that  *)
(* was never started.                                                        *)
EXTENDS DelegationPool
=============================================================================
