-------------------------- MODULE RelayAdmissionProofs --------------------------
(***************************************************************************)
(* Proofs about the relay's admission, for every number of requests,       *)
(* connections, slots and places. Each count is shown equal to the number  *)
(* of requests at the steps where it is held: a step of one request adds   *)
(* it to that set together with the count, takes it from both, or leaves   *)
(* both (`Counted`). The turn needs more than it says: that nobody stands  *)
(* in the line twice (`StandsOnce`), and that a request was called only    *)
(* after it joined (`CalledInLine`).                                       *)
(***************************************************************************)
EXTENDS RelayAdmission, FiniteSetTheorems, SequenceTheorems, TLAPS

\* The requests that hold a connection's room, the workers among them, ...
RoomOf(k)   == {r \in Requests : KeyOf[r] = k /\ HoldsRoom(r)}
WorkersOf(k) == {r \in Background : KeyOf[r] = k /\ HoldsRoom(r)}
\* ... a slot, and a place.
SlotHolders  == {r \in Requests : HoldsSlot(r)}
PlaceHolders == {r \in Requests : HoldsPlace(r)}

RoomCounted ==
    \A k \in Keys : active[k] = Cardinality(RoomOf(k)) /\ background[k] = Cardinality(WorkersOf(k))
SlotsCounted  == slots = Cardinality(SlotHolders)
PlacesCounted == places = Cardinality(PlaceHolders)
LineHolds     == \A r \in Requests : InLine(r) <=> \E i \in 1 .. Len(line) : line[i] = r

\* Background calls never queue.
BackgroundSteps == {"new", "carrying", "returning", "done"}
WorkersPass == \A r \in Background : pc[r] \in BackgroundSteps
StandsOnce == \A i, j \in 1 .. Len(line) : line[i] = line[j] => i = j
\* Whoever was called has joined, and whoever went on from its turn was called.
Unjoined == {"new", "holding", "grabbing", "joining"}
CalledInLine ==
    /\ \A r \in called : pc[r] \notin Unjoined
    /\ \A r \in Requests : pc[r] \in {"room", "slot", "served", "servedLeaving"} => r \in called
HeadCalled == \A i \in 1 .. Len(line) : line[i] \in called <=> i = 1

IInv ==
    /\ TypeOK
    /\ RoomCounted /\ SlotsCounted /\ PlacesCounted
    /\ LineHolds /\ WorkersPass /\ StandsOnce /\ CalledInLine /\ HeadCalled

-------------------------------------------------------------------------------
(* Counting one element more, or less.                                     *)

LEMMA Finite ==
  /\ IsFiniteSet(Requests)
  /\ \A k : IsFiniteSet(RoomOf(k)) /\ IsFiniteSet(WorkersOf(k))
  /\ IsFiniteSet(SlotHolders) /\ IsFiniteSet(PlaceHolders)
  <1>1. IsFiniteSet(Requests)
    BY FS_Union, AdmissionAssumption DEF Requests
  <1>2. \A T : T \subseteq Requests => IsFiniteSet(T)
    BY <1>1, FS_Subset
  <1> QED BY <1>1, <1>2 DEF RoomOf, WorkersOf, SlotHolders, PlaceHolders, Requests

LEMMA OneMore ==
  ASSUME NEW S, NEW T, NEW x, IsFiniteSet(S), x \notin S, T = S \cup {x}
  PROVE  Cardinality(S) \in Nat /\ Cardinality(T) = Cardinality(S) + 1
  BY FS_AddElement, FS_CardinalityType

LEMMA OneLess ==
  ASSUME NEW S, NEW T, NEW x, IsFiniteSet(S), x \in S, T = S \ {x}
  PROVE  /\ Cardinality(S) \in Nat \ {0} /\ Cardinality(T) \in Nat
         /\ Cardinality(T) = Cardinality(S) - 1
  <1>1. Cardinality(T) = Cardinality(S) - 1 /\ IsFiniteSet(T)
    BY FS_RemoveElement
  <1>2. Cardinality(S) # 0
    BY FS_EmptySet
  <1> QED BY <1>1, <1>2, FS_CardinalityType

-------------------------------------------------------------------------------
(* What one request's step does to each count.                             *)

RoomSteps == {"holding", "grabbing", "slot", "served", "servedLeaving", "carrying", "answered", "returning"}

LEMMA RoomTaken ==
  ASSUME IInv, NEW r \in Requests, NEW step \in Steps, Goto(r, step), TakeRoom(r),
         pc[r] \notin RoomSteps, step \in RoomSteps
  PROVE  /\ RoomCounted'
         /\ active' \in [Keys -> 0 .. Room] /\ background' \in [Keys -> 0 .. BackgroundRoom]
  <1> DEFINE k0 == KeyOf[r]
  <1>1. /\ k0 \in Keys /\ pc \in [Requests -> Steps]
        /\ active \in [Keys -> 0 .. Room] /\ background \in [Keys -> 0 .. BackgroundRoom]
        /\ Room \in Nat \ {0} /\ BackgroundRoom \in Nat \ {0}
    BY AdmissionAssumption DEF IInv, TypeOK
  <1>2. \A q \in Requests : q # r => (HoldsRoom(q)' <=> HoldsRoom(q))
    BY <1>1 DEF Goto, HoldsRoom
  <1>3. HoldsRoom(r)' /\ ~HoldsRoom(r)
    BY <1>1 DEF Goto, HoldsRoom, RoomSteps
  <1>4. /\ \A k \in Keys : active'[k] = IF k = k0 THEN active[k] + 1 ELSE active[k]
        /\ \A k \in Keys : background'[k] = IF k = k0 /\ IsBackground(r) THEN background[k] + 1 ELSE background[k]
    BY <1>1 DEF TakeRoom, AddRoom
  <1>5. RoomOf(k0)' = RoomOf(k0) \cup {r} /\ r \notin RoomOf(k0)
    BY <1>2, <1>3 DEF RoomOf
  <1>6. \A k \in Keys \ {k0} : RoomOf(k)' = RoomOf(k) /\ WorkersOf(k)' = WorkersOf(k)
    BY <1>2 DEF RoomOf, WorkersOf, Requests
  <1>7. IF IsBackground(r) THEN WorkersOf(k0)' = WorkersOf(k0) \cup {r} /\ r \notin WorkersOf(k0)
                           ELSE WorkersOf(k0)' = WorkersOf(k0)
    BY <1>2, <1>3 DEF WorkersOf, IsBackground, Requests
  <1>8. \A k \in Keys : active'[k] = Cardinality(RoomOf(k)')
    BY <1>1, <1>4, <1>5, <1>6, OneMore, Finite DEF IInv, RoomCounted
  <1>9. \A k \in Keys : background'[k] = Cardinality(WorkersOf(k)')
    BY <1>1, <1>4, <1>6, <1>7, OneMore, Finite DEF IInv, RoomCounted
  <1>10. active[k0] < Room /\ (IsBackground(r) => background[k0] < BackgroundRoom)
    BY <1>1 DEF TakeRoom, HasRoom
  <1>11. active' \in [Keys -> 0 .. Room] /\ background' \in [Keys -> 0 .. BackgroundRoom]
    BY <1>1, <1>10 DEF TakeRoom, AddRoom
  <1> QED BY <1>8, <1>9, <1>11 DEF RoomCounted

LEMMA RoomGiven ==
  ASSUME IInv, NEW r \in Requests, NEW step \in Steps, Goto(r, step), GiveRoom(r),
         pc[r] \in RoomSteps, step \notin RoomSteps
  PROVE  /\ RoomCounted'
         /\ active' \in [Keys -> 0 .. Room] /\ background' \in [Keys -> 0 .. BackgroundRoom]
  <1> DEFINE k0 == KeyOf[r]
  <1>1. /\ k0 \in Keys /\ pc \in [Requests -> Steps]
        /\ active \in [Keys -> 0 .. Room] /\ background \in [Keys -> 0 .. BackgroundRoom]
        /\ Room \in Nat \ {0} /\ BackgroundRoom \in Nat \ {0}
    BY AdmissionAssumption DEF IInv, TypeOK
  <1>2. \A q \in Requests : q # r => (HoldsRoom(q)' <=> HoldsRoom(q))
    BY <1>1 DEF Goto, HoldsRoom
  <1>3. ~HoldsRoom(r)' /\ HoldsRoom(r)
    BY <1>1 DEF Goto, HoldsRoom, RoomSteps
  <1>4. /\ \A k \in Keys : active'[k] = IF k = k0 THEN active[k] - 1 ELSE active[k]
        /\ \A k \in Keys : background'[k] = IF k = k0 /\ IsBackground(r) THEN background[k] - 1 ELSE background[k]
    BY <1>1 DEF GiveRoom, AddRoom
  <1>5. RoomOf(k0)' = RoomOf(k0) \ {r} /\ r \in RoomOf(k0)
    BY <1>2, <1>3 DEF RoomOf
  <1>6. \A k \in Keys \ {k0} : RoomOf(k)' = RoomOf(k) /\ WorkersOf(k)' = WorkersOf(k)
    BY <1>2 DEF RoomOf, WorkersOf, Requests
  <1>7. IF IsBackground(r) THEN WorkersOf(k0)' = WorkersOf(k0) \ {r} /\ r \in WorkersOf(k0)
                           ELSE WorkersOf(k0)' = WorkersOf(k0)
    BY <1>2, <1>3 DEF WorkersOf, IsBackground, Requests
  <1>8. (\A k \in Keys : active'[k] = Cardinality(RoomOf(k)')) /\ active[k0] > 0
    <2>1. /\ Cardinality(RoomOf(k0)) \in Nat \ {0}
          /\ Cardinality(RoomOf(k0)') = Cardinality(RoomOf(k0)) - 1
      BY <1>5, OneLess, Finite
    <2> QED BY <1>1, <1>4, <1>6, <2>1 DEF IInv, RoomCounted
  <1>9. /\ \A k \in Keys : background'[k] = Cardinality(WorkersOf(k)')
        /\ IsBackground(r) => background[k0] > 0
    <2>1. \A k \in Keys : background[k] = Cardinality(WorkersOf(k))
      BY DEF IInv, RoomCounted
    <2>2. CASE IsBackground(r)
      <3>1. /\ Cardinality(WorkersOf(k0)) \in Nat \ {0}
            /\ Cardinality(WorkersOf(k0)') = Cardinality(WorkersOf(k0)) - 1
        BY <1>7, <2>2, OneLess, Finite
      <3> QED BY <1>1, <1>4, <1>6, <2>1, <2>2, <3>1
    <2>3. CASE ~IsBackground(r)
      BY <1>4, <1>6, <1>7, <2>1, <2>3
    <2> QED BY <2>2, <2>3
  <1>10. active' \in [Keys -> 0 .. Room] /\ background' \in [Keys -> 0 .. BackgroundRoom]
    BY <1>1, <1>8, <1>9 DEF GiveRoom, AddRoom
  <1> QED BY <1>8, <1>9, <1>10 DEF RoomCounted

LEMMA RoomKept ==
  ASSUME IInv, NEW r \in Requests, NEW step \in Steps, Goto(r, step), UNCHANGED <<active, background>>,
         pc[r] \in RoomSteps <=> step \in RoomSteps
  PROVE  /\ RoomCounted'
         /\ active' \in [Keys -> 0 .. Room] /\ background' \in [Keys -> 0 .. BackgroundRoom]
  <1>1. \A q \in Requests : HoldsRoom(q)' <=> HoldsRoom(q)
    BY DEF Goto, HoldsRoom, RoomSteps, IInv, TypeOK
  <1>2. \A k \in Keys : RoomOf(k)' = RoomOf(k) /\ WorkersOf(k)' = WorkersOf(k)
    BY <1>1 DEF RoomOf, WorkersOf, Requests
  <1> QED BY <1>2 DEF RoomCounted, IInv, TypeOK

SlotSteps == {"served", "servedLeaving", "carrying", "answered"}

LEMMA SlotTaken ==
  ASSUME IInv, NEW r \in Requests \ Background, NEW step \in Steps, Goto(r, step),
         slots < Slots, slots' = slots + 1, pc[r] \notin SlotSteps, step \in SlotSteps
  PROVE  SlotsCounted' /\ slots' \in 0 .. Slots
  <1>1. SlotHolders' = SlotHolders \cup {r} /\ r \notin SlotHolders
    BY DEF SlotHolders, HoldsSlot, SlotSteps, Goto, IsBackground, IInv, TypeOK
  <1> QED BY <1>1, OneMore, Finite, AdmissionAssumption DEF IInv, SlotsCounted, TypeOK

LEMMA SlotGiven ==
  ASSUME IInv, NEW r \in Requests \ Background, NEW step \in Steps, Goto(r, step),
         slots' = slots - 1, pc[r] \in SlotSteps, step \notin SlotSteps
  PROVE  SlotsCounted' /\ slots' \in 0 .. Slots
  <1>1. SlotHolders' = SlotHolders \ {r} /\ r \in SlotHolders
    BY DEF SlotHolders, HoldsSlot, SlotSteps, Goto, IsBackground, IInv, TypeOK
  <1> QED BY <1>1, OneLess, Finite, AdmissionAssumption DEF IInv, SlotsCounted, TypeOK

LEMMA SlotKept ==
  ASSUME IInv, NEW r \in Requests, NEW step \in Steps, Goto(r, step), UNCHANGED slots,
         r \notin Background => (pc[r] \in SlotSteps <=> step \in SlotSteps)
  PROVE  SlotsCounted' /\ slots' \in 0 .. Slots
  <1>1. SlotHolders' = SlotHolders
    BY DEF SlotHolders, HoldsSlot, SlotSteps, Goto, IsBackground, IInv, TypeOK
  <1> QED BY <1>1 DEF IInv, SlotsCounted, TypeOK

PlaceSteps == {"turn", "room", "slot", "served", "gone"}

LEMMA PlaceTaken ==
  ASSUME IInv, NEW r \in Requests, NEW step \in Steps, Goto(r, step),
         places < Places, places' = places + 1, pc[r] \notin PlaceSteps, step \in PlaceSteps
  PROVE  PlacesCounted' /\ places' \in 0 .. Places
  <1>1. PlaceHolders' = PlaceHolders \cup {r} /\ r \notin PlaceHolders
    BY DEF PlaceHolders, HoldsPlace, PlaceSteps, Goto, IInv, TypeOK
  <1> QED BY <1>1, OneMore, Finite, AdmissionAssumption DEF IInv, PlacesCounted, TypeOK

LEMMA PlaceGiven ==
  ASSUME IInv, NEW r \in Requests, NEW step \in Steps, Goto(r, step),
         places' = places - 1, pc[r] \in PlaceSteps, step \notin PlaceSteps
  PROVE  PlacesCounted' /\ places' \in 0 .. Places
  <1>1. PlaceHolders' = PlaceHolders \ {r} /\ r \in PlaceHolders
    BY DEF PlaceHolders, HoldsPlace, PlaceSteps, Goto, IInv, TypeOK
  <1> QED BY <1>1, OneLess, Finite, AdmissionAssumption DEF IInv, PlacesCounted, TypeOK

LEMMA PlaceKept ==
  ASSUME IInv, NEW r \in Requests, NEW step \in Steps, Goto(r, step), UNCHANGED places,
         pc[r] \in PlaceSteps <=> step \in PlaceSteps
  PROVE  PlacesCounted' /\ places' \in 0 .. Places
  <1>1. PlaceHolders' = PlaceHolders
    BY DEF PlaceHolders, HoldsPlace, PlaceSteps, Goto, IInv, TypeOK
  <1> QED BY <1>1 DEF IInv, PlacesCounted, TypeOK

-------------------------------------------------------------------------------
(* What one request's step does to the line.                               *)

LineSteps == {"counting", "turn", "room", "slot", "served", "servedLeaving", "gone", "goneLeaving"}
LineInv ==
    /\ line \in Seq(Interactive) /\ called \subseteq Interactive
    /\ LineHolds /\ WorkersPass /\ StandsOnce /\ CalledInLine /\ HeadCalled

\* A step of a request that neither joins nor leaves.
LEMMA LineKept ==
  ASSUME IInv, NEW r \in Requests, NEW step \in Steps, Goto(r, step), UNCHANGED lineVars,
         pc[r] \in LineSteps <=> step \in LineSteps,
         pc[r] \notin Unjoined => step \notin Unjoined,
         pc[r] \in Unjoined => r \notin called,
         step \in {"room", "slot", "served", "servedLeaving"} => r \in called,
         r \in Background => step \in BackgroundSteps
  PROVE  LineInv'
  <1> USE DEF IInv, TypeOK, Goto, lineVars
  <1>1. \A q \in Requests : InLine(q)' <=> InLine(q)
    BY DEF InLine, LineSteps
  <1>2. LineHolds' /\ StandsOnce' /\ HeadCalled'
    BY <1>1 DEF LineHolds, StandsOnce, HeadCalled
  <1>3. WorkersPass'
    BY DEF WorkersPass
  <1>4. CalledInLine'
    BY DEF CalledInLine, Requests
  <1> QED BY <1>2, <1>3, <1>4 DEF LineInv

LEMMA LineJoined ==
  ASSUME IInv, NEW r \in Requests, Join(r)
  PROVE  LineInv'
  <1> DEFINE n == Len(line)
  <1>1. /\ r \in Interactive /\ line \in Seq(Interactive) /\ called \subseteq Interactive /\ n \in Nat
        /\ line' = Append(line, r) /\ called' = IF line = << >> THEN called \cup {r} ELSE called
        /\ pc \in [Requests -> Steps] /\ pc' = [pc EXCEPT ![r] = "counting"] /\ pc[r] = "joining"
    <2>1. /\ line' = Append(line, r) /\ called' = IF line = << >> THEN called \cup {r} ELSE called
          /\ pc' = [pc EXCEPT ![r] = "counting"] /\ pc[r] = "joining"
      BY DEF Join, At, Goto
    <2>2. r \in Interactive
      BY <2>1 DEF IInv, WorkersPass, BackgroundSteps, Requests
    <2> QED BY <2>1, <2>2 DEF IInv, TypeOK
  <1>2. /\ line' \in Seq(Interactive) /\ Len(line') = n + 1 /\ line'[n + 1] = r
        /\ \A i \in 1 .. n : line'[i] = line[i]
    BY <1>1
  <1>3. r \notin called /\ \A i \in 1 .. n : line[i] # r
    <2>1. ~InLine(r)
      BY <1>1 DEF InLine
    <2> QED BY <1>1, <2>1 DEF IInv, CalledInLine, Unjoined, LineHolds
  <1>4. LineHolds'
    <2>1. \A q \in Requests : InLine(q)' <=> (InLine(q) \/ q = r)
      BY <1>1 DEF InLine, Steps
    <2>2. \A q : (\E i \in 1 .. n + 1 : line'[i] = q) <=> (\E i \in 1 .. n : line[i] = q) \/ q = r
      <3>1. 1 .. n + 1 = (1 .. n) \cup {n + 1}
        BY <1>1
      <3> QED BY <1>2, <3>1
    <2> QED BY <1>2, <2>1, <2>2 DEF IInv, LineHolds
  <1>5. StandsOnce'
    <2> SUFFICES ASSUME NEW i \in 1 .. n + 1, NEW j \in 1 .. n + 1, line'[i] = line'[j]
                 PROVE  i = j
      BY <1>2 DEF StandsOnce
    <2>1. CASE i = n + 1 \/ j = n + 1
      BY <1>1, <1>2, <1>3, <2>1
    <2>2. CASE i # n + 1 /\ j # n + 1
      <3>1. i \in 1 .. n /\ j \in 1 .. n
        BY <1>1, <2>2
      <3> QED BY <1>2, <3>1 DEF IInv, StandsOnce
    <2> QED BY <2>1, <2>2
  <1>6. HeadCalled'
    <2> SUFFICES ASSUME NEW i \in 1 .. n + 1
                 PROVE  line'[i] \in called' <=> i = 1
      BY <1>2 DEF HeadCalled
    <2>1. CASE i = n + 1
      <3>1. line = << >> <=> n = 0
        BY <1>1
      <3> QED BY <1>1, <1>2, <1>3, <2>1, <3>1
    <2>2. CASE i # n + 1
      <3>1. i \in 1 .. n /\ line # << >>
        BY <1>1, <2>2
      <3> QED BY <1>1, <1>2, <3>1 DEF IInv, HeadCalled
    <2> QED BY <2>1, <2>2
  <1>7. CalledInLine'
    BY <1>1 DEF IInv, CalledInLine, Unjoined, Requests, Steps
  <1>8. WorkersPass'
    BY <1>1, AdmissionAssumption DEF IInv, WorkersPass
  <1> QED BY <1>1, <1>2, <1>4, <1>5, <1>6, <1>7, <1>8 DEF LineInv

\* Taking one element out of a sequence.
LEMMA Removed ==
  ASSUME NEW S, NEW s \in Seq(S), NEW at \in 1 .. Len(s)
  PROVE  /\ RemoveAt(s, at) \in Seq(S)
         /\ Len(RemoveAt(s, at)) = Len(s) - 1
         /\ \A i \in 1 .. Len(s) - 1 : RemoveAt(s, at)[i] = IF i < at THEN s[i] ELSE s[i + 1]
  <1> DEFINE front == SubSeq(s, 1, at - 1)
             back  == SubSeq(s, at + 1, Len(s))
  <1>1. front \in Seq(S) /\ Len(front) = at - 1 /\ \A i \in 1 .. at - 1 : front[i] = s[i]
    OBVIOUS
  <1>2. /\ back \in Seq(S) /\ Len(back) = Len(s) - at
        /\ \A i \in 1 .. Len(s) - at : back[i] = s[at + i]
    OBVIOUS
  <1> HIDE DEF front, back
  <1>3. /\ front \o back \in Seq(S) /\ Len(front \o back) = (at - 1) + (Len(s) - at)
        /\ \A i \in 1 .. (at - 1) + (Len(s) - at) :
             (front \o back)[i] = IF i <= at - 1 THEN front[i] ELSE back[i - (at - 1)]
    <2>1. front \in Seq(S) /\ back \in Seq(S)
      BY <1>1, <1>2
    <2>2. /\ front \o back \in Seq(S) /\ Len(front \o back) = Len(front) + Len(back)
          /\ \A i \in 1 .. Len(front) + Len(back) :
               (front \o back)[i] = IF i <= Len(front) THEN front[i] ELSE back[i - Len(front)]
      BY <2>1, ConcatProperties
    <2> QED BY <1>1, <1>2, <2>2
  <1>4. ASSUME NEW i \in 1 .. Len(s) - 1
        PROVE  (front \o back)[i] = IF i < at THEN s[i] ELSE s[i + 1]
    <2>1. CASE i < at
      BY <1>1, <1>3, <2>1
    <2>2. CASE ~(i < at)
      <3>1. (front \o back)[i] = back[i - (at - 1)] /\ i - (at - 1) \in 1 .. Len(s) - at
        <4>1. i \in 1 .. (at - 1) + (Len(s) - at) /\ ~(i <= at - 1) /\ i - (at - 1) \in 1 .. Len(s) - at
          BY <2>2
        <4> QED BY <1>3, <4>1
      <3>2. back[i - (at - 1)] = s[at + (i - (at - 1))]
        BY <1>2, <3>1
      <3>3. at + (i - (at - 1)) = i + 1 /\ ~(i < at)
        BY <2>2
      <3> QED BY <3>1, <3>2, <3>3
    <2> QED BY <2>1, <2>2
  <1>5. RemoveAt(s, at) = front \o back
    BY DEF RemoveAt, front, back
  <1> QED BY <1>3, <1>4, <1>5

\* A request leaves the line, and where it was the head the next is called.
LEMMA LineLeft ==
  ASSUME IInv, NEW r \in Requests, NEW step \in {"carrying", "done"}, Goto(r, step),
         pc[r] \in LineSteps, LeaveLine(r)
  PROVE  LineInv'
  <1> DEFINE n == Len(line)
  <1>1. PICK at \in 1 .. n :
          /\ line[at] = r /\ line' = RemoveAt(line, at)
          /\ called' = IF at = 1 /\ n > 1 THEN called \cup {line[2]} ELSE called
    BY DEF LeaveLine, IInv, TypeOK
  <1>2. /\ line \in Seq(Interactive) /\ called \subseteq Interactive /\ n \in Nat
        /\ pc \in [Requests -> Steps] /\ pc' = [pc EXCEPT ![r] = step]
    BY DEF IInv, TypeOK, Goto
  <1>3. /\ line' \in Seq(Interactive) /\ Len(line') = n - 1
        /\ \A i \in 1 .. n - 1 : line'[i] = IF i < at THEN line[i] ELSE line[i + 1]
    BY <1>1, <1>2, Removed
  <1>4. r \in Interactive /\ \A i \in 1 .. n : line[i] \in Interactive
    BY <1>1, <1>2
  <1>5. called' \subseteq Interactive
    BY <1>1, <1>2, <1>4
  <1>6. \A i \in 1 .. n : line[i] = r => i = at
    BY <1>1 DEF IInv, StandsOnce
  <1>7. LineHolds'
    <2>1. \A q \in Requests : InLine(q)' <=> (InLine(q) /\ q # r)
      BY <1>2 DEF InLine
    <2>2. ASSUME NEW q \in Requests
          PROVE  (\E i \in 1 .. n - 1 : line'[i] = q) <=> (\E i \in 1 .. n : line[i] = q) /\ q # r
      <3>1. ASSUME NEW i \in 1 .. n - 1, line'[i] = q
            PROVE  (\E j \in 1 .. n : line[j] = q) /\ q # r
        <4> DEFINE j == IF i < at THEN i ELSE i + 1
        <4>1. j \in 1 .. n /\ line[j] = q /\ j # at
          BY <1>2, <1>3, <3>1
        <4> QED BY <1>6, <4>1
      <3>2. ASSUME NEW j \in 1 .. n, line[j] = q, q # r
            PROVE  \E i \in 1 .. n - 1 : line'[i] = q
        <4> DEFINE i == IF j < at THEN j ELSE j - 1
        <4>1. j # at
          BY <1>1, <3>2
        <4>2. i \in 1 .. n - 1 /\ (IF i < at THEN i ELSE i + 1) = j
          BY <1>2, <4>1
        <4>3. line'[i] = line[j]
          BY <1>3, <4>2
        <4> QED BY <3>2, <4>2, <4>3
      <3> QED BY <3>1, <3>2
    <2> QED BY <1>3, <2>1, <2>2 DEF IInv, LineHolds
  <1>8. StandsOnce'
    <2> SUFFICES ASSUME NEW i \in 1 .. n - 1, NEW j \in 1 .. n - 1, line'[i] = line'[j]
                 PROVE  i = j
      BY <1>3 DEF StandsOnce
    <2> DEFINE Was(k) == IF k < at THEN k ELSE k + 1
    <2>1. Was(i) \in 1 .. n /\ Was(j) \in 1 .. n /\ line[Was(i)] = line[Was(j)]
      BY <1>2, <1>3
    <2>2. Was(i) = Was(j)
      BY <2>1 DEF IInv, StandsOnce
    <2> QED BY <1>2, <2>2
  <1>9. HeadCalled'
    <2> SUFFICES ASSUME NEW i \in 1 .. n - 1
                 PROVE  line'[i] \in called' <=> i = 1
      BY <1>3 DEF HeadCalled
    <2> DEFINE j == IF i < at THEN i ELSE i + 1
    <2>1. j \in 1 .. n /\ line'[i] = line[j] /\ j # at /\ n > 1 /\ 2 \in 1 .. n
      BY <1>2, <1>3
    <2>2. line[j] \in called <=> j = 1
      BY <2>1 DEF IInv, HeadCalled
    <2>3. CASE at = 1
      <3>1. line[j] = line[2] <=> j = 2
        BY <2>1 DEF IInv, StandsOnce
      <3>2. j = i + 1
        BY <2>3
      <3> QED BY <1>1, <2>1, <2>2, <2>3, <3>1, <3>2
    <2>4. CASE at # 1
      <3>1. i = 1 <=> j = 1
        BY <2>4
      <3> QED BY <1>1, <2>1, <2>2, <2>4, <3>1
    <2> QED BY <2>3, <2>4
  <1>10. CalledInLine'
    <2>1. ASSUME NEW q \in called' PROVE pc'[q] \notin Unjoined
      <3>1. CASE q \in called
        BY <1>2, <3>1 DEF IInv, CalledInLine, Unjoined, Requests
      <3>2. CASE q \notin called
        <4>1. n > 1 /\ q = line[2] /\ 2 \in 1 .. n
          BY <1>1, <1>2, <2>1, <3>2
        <4>2. InLine(q)
          BY <1>2, <1>4, <4>1 DEF IInv, LineHolds, Requests
        <4> QED BY <1>2, <4>2 DEF InLine, Unjoined
      <3> QED BY <3>1, <3>2
    <2>2. ASSUME NEW q \in Requests, pc'[q] \in {"room", "slot", "served", "servedLeaving"}
          PROVE  q \in called'
      BY <1>1, <1>2, <2>2 DEF IInv, CalledInLine
    <2> QED BY <2>1, <2>2 DEF CalledInLine
  <1>11. WorkersPass'
    BY <1>2 DEF IInv, WorkersPass, BackgroundSteps
  <1> QED BY <1>3, <1>5, <1>7, <1>8, <1>9, <1>10, <1>11 DEF LineInv

-------------------------------------------------------------------------------
(* The invariant is inductive.                                             *)

LEMMA InitInv ==
  ASSUME Init
  PROVE  IInv
  <1>1. /\ Room \in Nat /\ BackgroundRoom \in Nat /\ Places \in Nat /\ Slots \in Nat
        /\ line = << >> /\ called = {} /\ \A r \in Requests : pc[r] = "new"
    BY AdmissionAssumption DEF Init
  <1>2. TypeOK
    BY <1>1 DEF Init, TypeOK, Steps
  <1>3. /\ \A k : RoomOf(k) = {} /\ WorkersOf(k) = {}
        /\ SlotHolders = {} /\ PlaceHolders = {}
    BY <1>1 DEF RoomOf, WorkersOf, SlotHolders, PlaceHolders, HoldsRoom, HoldsSlot, HoldsPlace, Requests
  <1>4. RoomCounted /\ SlotsCounted /\ PlacesCounted
    BY <1>3, FS_EmptySet DEF Init, RoomCounted, SlotsCounted, PlacesCounted
  <1>5. LineHolds /\ WorkersPass /\ StandsOnce /\ CalledInLine /\ HeadCalled
    BY <1>1 DEF LineHolds, InLine, WorkersPass, BackgroundSteps, StandsOnce, CalledInLine, HeadCalled, Requests
  <1> QED BY <1>2, <1>4, <1>5 DEF IInv

\* What a request's step may do to each count, and to the line.
RoomStep(r, step) ==
    \/ TakeRoom(r) /\ pc[r] \notin RoomSteps /\ step \in RoomSteps
    \/ GiveRoom(r) /\ pc[r] \in RoomSteps /\ step \notin RoomSteps
    \/ UNCHANGED <<active, background>> /\ (pc[r] \in RoomSteps <=> step \in RoomSteps)
SlotStep(r, step) ==
    \/ /\ r \notin Background /\ slots < Slots /\ slots' = slots + 1
       /\ pc[r] \notin SlotSteps /\ step \in SlotSteps
    \/ r \notin Background /\ slots' = slots - 1 /\ pc[r] \in SlotSteps /\ step \notin SlotSteps
    \/ UNCHANGED slots /\ (r \notin Background => (pc[r] \in SlotSteps <=> step \in SlotSteps))
PlaceStep(r, step) ==
    \/ places < Places /\ places' = places + 1 /\ pc[r] \notin PlaceSteps /\ step \in PlaceSteps
    \/ places' = places - 1 /\ pc[r] \in PlaceSteps /\ step \notin PlaceSteps
    \/ UNCHANGED places /\ (pc[r] \in PlaceSteps <=> step \in PlaceSteps)
LineStep(r, step) ==
    \/ Join(r)
    \/ LeaveLine(r) /\ pc[r] \in LineSteps /\ step \in {"carrying", "done"}
    \/ /\ UNCHANGED lineVars
       /\ pc[r] \in LineSteps <=> step \in LineSteps
       /\ pc[r] \notin Unjoined => step \notin Unjoined
       /\ step \in {"room", "slot", "served", "servedLeaving"} => r \in called
       /\ r \in Background => step \in BackgroundSteps

OneStep(r, step) ==
    /\ step \in Steps /\ Goto(r, step) /\ slow' \in [Keys -> BOOLEAN]
    /\ RoomStep(r, step) /\ SlotStep(r, step) /\ PlaceStep(r, step) /\ LineStep(r, step)

\* A step that does one of these to each of them keeps the invariant.
LEMMA Counted ==
  ASSUME IInv, NEW r \in Requests, NEW step, OneStep(r, step)
  PROVE  IInv'
  <1> USE DEF OneStep
  <1>1. pc' \in [Requests -> Steps]
    BY DEF IInv, TypeOK, Goto
  <1>2. RoomCounted' /\ active' \in [Keys -> 0 .. Room] /\ background' \in [Keys -> 0 .. BackgroundRoom]
    BY RoomTaken, RoomGiven, RoomKept DEF RoomStep
  <1>3. SlotsCounted' /\ slots' \in 0 .. Slots
    BY SlotTaken, SlotGiven, SlotKept DEF SlotStep
  <1>4. PlacesCounted' /\ places' \in 0 .. Places
    BY PlaceTaken, PlaceGiven, PlaceKept DEF PlaceStep
  <1>5. LineInv'
    <2>1. pc[r] \in Unjoined => r \notin called
      BY DEF IInv, CalledInLine
    <2> QED BY <2>1, LineJoined, LineLeft, LineKept DEF LineStep
  <1> QED BY <1>1, <1>2, <1>3, <1>4, <1>5 DEF IInv, TypeOK, LineInv

\* A step of one request, from one place in the code to the next.
LEMMA ProceedInv ==
  ASSUME IInv, NEW r \in Requests, Proceed(r) \/ GiveUp(r) \/ EndAcquire(r)
  PROVE  IInv'
  <1> USE DEF At, RoomSteps, SlotSteps, PlaceSteps, LineSteps, Unjoined, BackgroundSteps, Steps,
              OneStep, RoomStep, SlotStep, PlaceStep, LineStep
  <1>1. slow \in [Keys -> BOOLEAN] /\ KeyOf[r] \in Keys
    BY AdmissionAssumption DEF IInv, TypeOK
  <1>2. pc[r] \notin BackgroundSteps => r \notin Background
    BY DEF IInv, WorkersPass
  <1>3. pc[r] \in {"room", "slot", "served", "servedLeaving"} => r \in called
    BY DEF IInv, CalledInLine
  <1>4. Try(r) => OneStep(r, "holding") \/ OneStep(r, "joining")
    BY <1>1, <1>2, <1>3 DEF Try, TakeRoom, AddRoom, IsBackground, Goto, capacityVars, lineVars
  <1>5. LookAtLine(r) => OneStep(r, "grabbing") \/ OneStep(r, "joining")
    BY <1>1, <1>2, <1>3 DEF LookAtLine, GiveRoom, AddRoom, Goto, capacityVars, lineVars
  <1>6. Grab(r) => OneStep(r, "carrying") \/ OneStep(r, "joining")
    BY <1>1, <1>2, <1>3 DEF Grab, GiveRoom, AddRoom, Goto, capacityVars, lineVars
  <1>7. Join(r) => OneStep(r, "counting")
    BY <1>1, <1>2, <1>3 DEF Join, Goto, capacityVars, lineVars
  <1>8. Count(r) => OneStep(r, "turn") \/ OneStep(r, "goneLeaving")
    BY <1>1, <1>2, <1>3 DEF Count, Goto, capacityVars, lineVars
  <1>9. Turn(r) => OneStep(r, "room")
    BY <1>1, <1>2, <1>3 DEF Turn, Goto, capacityVars, lineVars
  <1>10. WaitRoom(r) => OneStep(r, "slot")
    BY <1>1, <1>2, <1>3 DEF WaitRoom, TakeRoom, AddRoom, Goto, capacityVars, lineVars
  <1>11. WaitSlot(r) => OneStep(r, "served")
    BY <1>1, <1>2, <1>3 DEF WaitSlot, Goto, capacityVars, lineVars
  <1>12. Uncount(r) => OneStep(r, "servedLeaving") \/ OneStep(r, "goneLeaving")
    BY <1>1, <1>2, <1>3 DEF Uncount, Goto, capacityVars, lineVars
  <1>13. Leave(r) => OneStep(r, "carrying") \/ OneStep(r, "done")
    BY <1>1, <1>2, <1>3 DEF Leave, Goto, capacityVars, lineVars
  <1>14. Acquire(r) => OneStep(r, "carrying")
    BY <1>1, <1>2, <1>3 DEF Acquire, TakeRoom, AddRoom, IsBackground, Goto, capacityVars, lineVars
  <1>15. Answered(r) => OneStep(r, "returning") \/ OneStep(r, "answered")
    BY <1>1, <1>2, <1>3 DEF Answered, IsBackground, Goto, capacityVars, lineVars
  <1>16. ReleaseSlot(r) => OneStep(r, "returning")
    BY <1>1, <1>2, <1>3 DEF ReleaseSlot, Goto, capacityVars, lineVars
  <1>17. ReleaseRoom(r) => OneStep(r, "done")
    BY <1>1, <1>2, <1>3 DEF ReleaseRoom, GiveRoom, AddRoom, Goto, capacityVars, lineVars
  <1>18. GiveUp(r) => OneStep(r, "gone")
    BY <1>1, <1>2, <1>3 DEF GiveUp, GiveRoom, AddRoom, Goto, capacityVars, lineVars
  <1>19. EndAcquire(r) => OneStep(r, "done")
    BY <1>1, <1>2, <1>3 DEF EndAcquire, IsBackground, Goto, capacityVars, lineVars
  <1> QED BY <1>4, <1>5, <1>6, <1>7, <1>8, <1>9, <1>10, <1>11, <1>12, <1>13, <1>14, <1>15, <1>16, <1>17, <1>18, <1>19, Counted DEF Proceed

LEMMA NextInv ==
  ASSUME IInv, [Next]_vars
  PROVE  IInv'
  <1> USE DEF vars, capacityVars, lineVars
  <1>1. CASE \E r \in Requests : Proceed(r) \/ GiveUp(r) \/ EndAcquire(r)
    BY <1>1, ProceedInv
  <1>2. ASSUME UNCHANGED <<active, background, line, called, places, slots, pc>>,
               slow' \in [Keys -> BOOLEAN]
        PROVE  IInv'
    <2>1. RoomCounted' /\ SlotsCounted' /\ PlacesCounted'
      BY <1>2 DEF IInv, RoomCounted, SlotsCounted, PlacesCounted, RoomOf, WorkersOf, SlotHolders,
                  PlaceHolders, HoldsRoom, HoldsSlot, HoldsPlace
    <2>2. LineHolds' /\ WorkersPass' /\ StandsOnce' /\ CalledInLine' /\ HeadCalled'
      BY <1>2 DEF IInv, LineHolds, InLine, WorkersPass, StandsOnce, CalledInLine, HeadCalled
    <2>3. TypeOK'
      BY <1>2 DEF IInv, TypeOK
    <2> QED BY <2>1, <2>2, <2>3 DEF IInv
  <1>3. ASSUME NEW k \in Keys, SlowEnds(k) PROVE IInv'
    <2>1. slow' \in [Keys -> BOOLEAN]
      BY <1>3 DEF SlowEnds, IInv, TypeOK
    <2> QED BY <1>2, <1>3, <2>1 DEF SlowEnds
  <1>4. CASE UNCHANGED vars
    BY <1>2, <1>4 DEF IInv, TypeOK
  <1> QED BY <1>1, <1>3, <1>4 DEF Next, AllDone

\* Counts, line and turns together are kept by every step.
THEOREM Inductive == Spec => []IInv
  <1>1. Init => IInv
    BY InitInv
  <1>2. IInv /\ [Next]_vars => IInv'
    BY NextInv
  <1> QED BY <1>1, <1>2, PTL DEF Spec

-------------------------------------------------------------------------------
(* What follows.                                                           *)

\* Every counter stays within its limit - no connection carries more than it
\* takes, nor more of its workers' calls; no more than maxRelayInFlight requests
\* are carried and no more than maxRelayQueued wait - and only requests of the
\* relay stand in the line (capacity.go:22-61, relay_queue.go:130-176).
THEOREM LimitsHold == Spec => []TypeOK
  BY Inductive, PTL DEF IInv

\* For every number of requests, connections, slots and places: each count is the
\* number of requests that hold what it counts, so that no refusal, timeout or
\* departure keeps anything or gives it back twice (relay_queue.go:193-204).
THEOREM CountsHold == Spec => []NothingLeaks
  <1>1. IInv => NothingLeaks
    <2> SUFFICES ASSUME IInv PROVE NothingLeaks
      OBVIOUS
    <2>1. ToSet(line) = {r \in Requests : InLine(r)}
      <3>1. line \in Seq(Interactive) /\ DOMAIN line = 1 .. Len(line)
        BY DEF IInv, TypeOK
      <3>2. ToSet(line) = {line[i] : i \in 1 .. Len(line)}
        BY <3>1 DEF ToSet
      <3>3. \A i \in 1 .. Len(line) : line[i] \in Requests
        BY <3>1 DEF Requests
      <3> QED BY <3>2, <3>3 DEF IInv, LineHolds
    <2> QED BY <2>1 DEF IInv, RoomCounted, SlotsCounted, PlacesCounted, NothingLeaks,
                        RoomOf, WorkersOf, SlotHolders, PlaceHolders
  <1> QED BY <1>1, Inductive, PTL

\* For every number of requests: of those in the line exactly the head has been
\* called, so that its channel is closed once and nobody is overtaken
\* (relay_queue.go:38-41, 56-80).
THEOREM TurnsInOrder == Spec => []TurnIsTheHeads
  <1>1. IInv => TurnIsTheHeads
    <2> SUFFICES ASSUME IInv PROVE TurnIsTheHeads
      OBVIOUS
    <2>1. line \in Seq(Interactive) /\ DOMAIN line = 1 .. Len(line)
      BY DEF IInv, TypeOK
    <2>2. line # << >> => 1 \in 1 .. Len(line) /\ Head(line) = line[1]
      BY <2>1
    <2>3. ToSet(line) = {line[i] : i \in 1 .. Len(line)}
      BY <2>1 DEF ToSet
    <2>4. called \cap ToSet(line) = (IF line = << >> THEN {} ELSE {Head(line)})
      <3>1. CASE line = << >>
        BY <2>3, <3>1
      <3>2. CASE line # << >>
        BY <2>2, <2>3, <3>2 DEF IInv, HeadCalled
      <3> QED BY <3>1, <3>2
    <2>5. ASSUME NEW r \in Interactive, pc[r] \in {"room", "slot", "served"}
          PROVE  Head(line) = r
      <3>1. r \in called /\ r \in Requests /\ InLine(r)
        BY <2>5 DEF IInv, CalledInLine, Requests, InLine
      <3>2. PICK i \in 1 .. Len(line) : line[i] = r
        BY <3>1 DEF IInv, LineHolds
      <3>3. i = 1 /\ line # << >>
        BY <2>1, <3>1, <3>2 DEF IInv, HeadCalled
      <3> QED BY <2>2, <3>2, <3>3
    <2> QED BY <2>4, <2>5 DEF TurnIsTheHeads
  <1> QED BY <1>1, Inductive, PTL
===============================================================================
