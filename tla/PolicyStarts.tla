---------------------------- MODULE PolicyStarts ----------------------------
(* What manual execution promises of an intent: it is prepared, reserved for *)
(* one attempt, and then blocked, sealed or started, all of which are final; *)
(* a launch belongs to the step that records the start, or never happens.    *)
CONSTANT Keys

VARIABLES phase,     \* what the current authority says of an intent
          launches   \* intents that were launched

Init ==
    /\ phase = [k \in Keys |-> "none"]
    /\ launches = {}

Moves(k, from, to) ==
    /\ phase[k] = from
    /\ phase' = [phase EXCEPT ![k] = to]

Prepare(k) == Moves(k, "none", "prepared") /\ UNCHANGED launches

Reserve(k) ==
    /\ Moves(k, "prepared", "reserved") \/ Moves(k, "prepared", "blocked")
    /\ UNCHANGED launches

Seal(k) == Moves(k, "reserved", "sealed") /\ UNCHANGED launches

Block(k) == Moves(k, "reserved", "blocked") /\ UNCHANGED launches

\* The answer may be lost: then nothing is launched, and never will be.
Start(k) ==
    /\ Moves(k, "reserved", "started")
    /\ launches' \in {launches, launches \cup {k}}

Next == \E k \in Keys : Prepare(k) \/ Reserve(k) \/ Seal(k) \/ Block(k) \/ Start(k)

Spec == Init /\ [][Next]_<<phase, launches>>
=============================================================================
