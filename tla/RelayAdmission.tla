--------------------------- MODULE RelayAdmission ---------------------------
(***************************************************************************)
(* How a request for a model gets to be carried: the capacity that one     *)
(* connection shares between interactive and background work               *)
(* (internal/delegation/capacity.go), and the line, the places and the     *)
(* slots in front of the relay (internal/desk/relay_queue.go).             *)
(*                                                                         *)
(* The relay's slots and places are two buffered channels, the line is a   *)
(* list of channels of which the head's is closed, and the capacity is a   *)
(* counter under a mutex whose waiters are told of every change and look   *)
(* again every second besides.  A waiting request may give up at any       *)
(* instant (its page left, or relayQueueWait passed).                      *)
(***************************************************************************)
EXTENDS Integers, FiniteSets, SequencesExt

CONSTANTS
    Interactive, Background,  \* requests of the relay, calls of background workers
    Keys, KeyOf,              \* provider bindings, and the one each request uses
    Slots,                    \* maxRelayInFlight
    Places,                   \* maxRelayQueued
    Room, BackgroundRoom      \* what one connection takes, and how much of it from workers

Requests == Interactive \cup Background

ASSUME AdmissionAssumption ==
    /\ Interactive \cap Background = {} /\ IsFiniteSet(Interactive) /\ IsFiniteSet(Background)
    /\ KeyOf \in [Requests -> Keys]
    /\ {Slots, Places, Room, BackgroundRoom} \subseteq Nat \ {0}
    /\ BackgroundRoom < Room

VARIABLES
    active, background,  \* per key: calls that hold room, and the background ones of them
    slow,                \* per key: the endpoint asked for less (slowUntil is ahead)
    line, called,        \* the waiting requests in order, and those whose turn was given
    places, slots,       \* tokens in the two buffered channels
    pc

capacityVars == <<active, background, slow>>
lineVars     == <<line, called>>
vars         == <<capacityVars, lineVars, places, slots, pc>>

Steps == {"new", "holding", "grabbing", "joining", "counting", "turn", "room", "slot",
          "served", "servedLeaving", "gone", "goneLeaving", "carrying", "answered",
          "returning", "done"}

Init ==
    /\ active = [k \in Keys |-> 0] /\ background = [k \in Keys |-> 0]
    /\ slow = [k \in Keys |-> FALSE]
    /\ line = << >> /\ called = {}
    /\ places = 0 /\ slots = 0
    /\ pc = [r \in Requests |-> "new"]

At(r, step)   == pc[r] = step
Goto(r, step) == pc' = [pc EXCEPT ![r] = step]

-----------------------------------------------------------------------------
(* Capacity.take and the release it returns.                               *)

IsBackground(r) == r \in Background

HasRoom(r) ==
    /\ active[KeyOf[r]] < (IF slow[KeyOf[r]] THEN 1 ELSE Room)
    /\ IsBackground(r) => background[KeyOf[r]] < BackgroundRoom

AddRoom(r, n) ==
    /\ active' = [active EXCEPT ![KeyOf[r]] = @ + n]
    /\ background' = IF IsBackground(r) THEN [background EXCEPT ![KeyOf[r]] = @ + n] ELSE background
    /\ UNCHANGED slow

TakeRoom(r) == HasRoom(r) /\ AddRoom(r, 1)
GiveRoom(r) == AddRoom(r, -1)

\* The thirty seconds after a 429 are over.
SlowEnds(k) ==
    /\ slow[k]
    /\ slow' = [slow EXCEPT ![k] = FALSE]
    /\ UNCHANGED <<active, background, lineVars, places, slots, pc>>

-----------------------------------------------------------------------------
(* relayLine.                                                              *)

Join(r) ==
    /\ At(r, "joining")
    /\ line' = Append(line, r)
    /\ called' = IF line = << >> THEN called \cup {r} ELSE called
    /\ Goto(r, "counting")
    /\ UNCHANGED <<capacityVars, places, slots>>

\* Mutant of LeaveLine: the head that leaves calls nobody.
LeaveUncalled(r) ==
    \E at \in DOMAIN line : line[at] = r /\ line' = RemoveAt(line, at) /\ UNCHANGED called

LeaveLine(r) ==
    \E at \in DOMAIN line :
        /\ line[at] = r /\ line' = RemoveAt(line, at)
        /\ called' = IF at = 1 /\ Len(line) > 1 THEN called \cup {line[2]} ELSE called

-----------------------------------------------------------------------------
(* admitRelay: the way through without waiting.                            *)

Try(r) ==
    /\ At(r, "new") /\ ~IsBackground(r)
    /\ \/ TakeRoom(r) /\ Goto(r, "holding")
       \/ ~HasRoom(r) /\ Goto(r, "joining") /\ UNCHANGED capacityVars
    /\ UNCHANGED <<lineVars, places, slots>>

LookAtLine(r) ==
    /\ At(r, "holding")
    /\ \/ line = << >> /\ Goto(r, "grabbing") /\ UNCHANGED capacityVars
       \/ line # << >> /\ GiveRoom(r) /\ Goto(r, "joining")
    /\ UNCHANGED <<lineVars, places, slots>>

Grab(r) ==
    /\ At(r, "grabbing")
    /\ \/ slots < Slots /\ slots' = slots + 1 /\ Goto(r, "carrying") /\ UNCHANGED capacityVars
       \/ slots = Slots /\ GiveRoom(r) /\ Goto(r, "joining") /\ UNCHANGED slots
    /\ UNCHANGED <<lineVars, places>>

-----------------------------------------------------------------------------
(* admitRelay: the queue.                                                  *)

\* A full queue refuses at once: 429, and the request leaves the line.
Count(r) ==
    /\ At(r, "counting")
    /\ \/ places < Places /\ places' = places + 1 /\ Goto(r, "turn")
       \/ places = Places /\ Goto(r, "goneLeaving") /\ UNCHANGED places
    /\ UNCHANGED <<capacityVars, lineVars, slots>>

Turn(r) ==
    /\ At(r, "turn") /\ r \in called
    /\ Goto(r, "room")
    /\ UNCHANGED <<capacityVars, lineVars, places, slots>>

WaitRoom(r) ==
    /\ At(r, "room") /\ TakeRoom(r)
    /\ Goto(r, "slot")
    /\ UNCHANGED <<lineVars, places, slots>>

WaitSlot(r) ==
    /\ At(r, "slot") /\ slots < Slots
    /\ slots' = slots + 1
    /\ Goto(r, "served")
    /\ UNCHANGED <<capacityVars, lineVars, places>>

\* Mutant of GiveUp: the room taken before the slot is kept.
GiveUpHolding(r) ==
    /\ At(r, "turn") \/ At(r, "room") \/ At(r, "slot")
    /\ Goto(r, "gone")
    /\ UNCHANGED <<capacityVars, lineVars, places, slots>>

\* The wait is over, wherever it stands.
GiveUp(r) ==
    /\ \/ (At(r, "turn") \/ At(r, "room")) /\ UNCHANGED capacityVars
       \/ At(r, "slot") /\ GiveRoom(r)
    /\ Goto(r, "gone")
    /\ UNCHANGED <<lineVars, places, slots>>

\* The deferred calls, last first: the place, then the line.
Uncount(r) ==
    /\ \/ At(r, "served") /\ Goto(r, "servedLeaving")
       \/ At(r, "gone") /\ Goto(r, "goneLeaving")
    /\ places' = places - 1
    /\ UNCHANGED <<capacityVars, lineVars, slots>>

Leave(r) ==
    /\ \/ At(r, "servedLeaving") /\ Goto(r, "carrying")
       \/ At(r, "goneLeaving") /\ Goto(r, "done")
    /\ LeaveLine(r)
    /\ UNCHANGED <<capacityVars, places, slots>>

-----------------------------------------------------------------------------
(* A background call waits for room alone.                                 *)

Acquire(r) ==
    /\ At(r, "new") /\ IsBackground(r) /\ TakeRoom(r)
    /\ Goto(r, "carrying")
    /\ UNCHANGED <<lineVars, places, slots>>

EndAcquire(r) ==
    /\ At(r, "new") /\ IsBackground(r)
    /\ Goto(r, "done")
    /\ UNCHANGED <<capacityVars, lineVars, places, slots>>

-----------------------------------------------------------------------------
(* The call itself, and the release of what it held.                       *)

\* The endpoint answers; a 429 slows the connection for everybody.
Answered(r) ==
    /\ At(r, "carrying")
    /\ \E limited \in BOOLEAN :
         slow' = IF limited THEN [slow EXCEPT ![KeyOf[r]] = TRUE] ELSE slow
    /\ Goto(r, IF IsBackground(r) THEN "returning" ELSE "answered")
    /\ UNCHANGED <<active, background, lineVars, places, slots>>

ReleaseSlot(r) ==
    /\ At(r, "answered")
    /\ slots' = slots - 1
    /\ Goto(r, "returning")
    /\ UNCHANGED <<capacityVars, lineVars, places>>

ReleaseRoom(r) ==
    /\ At(r, "returning") /\ GiveRoom(r)
    /\ Goto(r, "done")
    /\ UNCHANGED <<lineVars, places, slots>>

Proceed(r) ==
    \/ Try(r) \/ LookAtLine(r) \/ Grab(r)
    \/ Join(r) \/ Count(r) \/ Turn(r) \/ WaitRoom(r) \/ WaitSlot(r)
    \/ Uncount(r) \/ Leave(r)
    \/ Acquire(r)
    \/ Answered(r) \/ ReleaseSlot(r) \/ ReleaseRoom(r)

AllDone == (\A r \in Requests : At(r, "done")) /\ UNCHANGED vars

Next ==
    \/ \E r \in Requests : Proceed(r) \/ GiveUp(r) \/ EndAcquire(r)
    \/ \E k \in Keys : SlowEnds(k)
    \/ AllDone

\* A goroutine that can go on goes on, a carried call ends (the relay's own
\* deadlines), and thirty seconds pass.  Nothing obliges a request to give up.
Fairness ==
    /\ \A r \in Requests : WF_vars(Proceed(r))
    /\ \A k \in Keys : WF_vars(SlowEnds(k))

Spec == Init /\ [][Next]_vars /\ Fairness

-----------------------------------------------------------------------------
TypeOK ==
    /\ active \in [Keys -> 0 .. Room] /\ background \in [Keys -> 0 .. BackgroundRoom]
    /\ slow \in [Keys -> BOOLEAN]
    /\ line \in Seq(Interactive) /\ called \subseteq Interactive
    /\ places \in 0 .. Places /\ slots \in 0 .. Slots
    /\ pc \in [Requests -> Steps]

HoldsRoom(r) ==
    pc[r] \in {"holding", "grabbing", "slot", "served", "servedLeaving", "carrying", "answered", "returning"}
HoldsSlot(r) ==
    ~IsBackground(r) /\ pc[r] \in {"served", "servedLeaving", "carrying", "answered"}
HoldsPlace(r) == pc[r] \in {"turn", "room", "slot", "served", "gone"}
InLine(r) ==
    pc[r] \in {"counting", "turn", "room", "slot", "served", "servedLeaving", "gone", "goneLeaving"}

\* Every count is the number of requests that hold what it counts: nothing is
\* given back twice, and no refusal, timeout or departure keeps anything
\* (the releases of capacity.go:45-60 and relay_queue.go:193-204).
NothingLeaks ==
    /\ \A k \in Keys :
         /\ active[k] = Cardinality({r \in Requests : KeyOf[r] = k /\ HoldsRoom(r)})
         /\ background[k] = Cardinality({r \in Background : KeyOf[r] = k /\ HoldsRoom(r)})
    /\ slots = Cardinality({r \in Requests : HoldsSlot(r)})
    /\ places = Cardinality({r \in Requests : HoldsPlace(r)})
    /\ ToSet(line) = {r \in Requests : InLine(r)}

\* The turn is never lost and never given twice: of the requests in the line
\* exactly the head has been called (a second close of its channel would panic),
\* and it alone competes for room and for a slot, so that nobody is overtaken by
\* a later one (relay_queue.go:38-41).
TurnIsTheHeads ==
    /\ called \cap ToSet(line) = (IF line = << >> THEN {} ELSE {Head(line)})
    /\ \A r \in Interactive : pc[r] \in {"room", "slot", "served"} => Head(line) = r

\* A request that does not give up is carried, or refused by a full queue,
\* although nothing but the others' releases lets it through: all are over in
\* the end, and none that is over begins again.
EveryRequestEnds == <>(\A r \in Requests : At(r, "done"))
=============================================================================
