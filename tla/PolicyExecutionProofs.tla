------------------------ MODULE PolicyExecutionProofs ------------------------
(* Theorems about manual execution under a Policy, for every number of        *)
(* intents, sessions, generations and moments.  Every command is shown to     *)
(* turn a valid ledger soundly into the next one; a transaction carries that  *)
(* fact through its durable steps, whichever of them is the last.             *)
EXTENDS PolicyExecution, FiniteSetTheorems, TLAPS

Answers == [session : Sessions \cup {None}, key : Keys \cup {None}, op : Nat, launch : BOOLEAN]

\* Every operation was recorded in a generation of its own, up to this one.
OpsUpTo(l, generation) ==
    \A k \in Keys : l.attempts[k] # None => l.attempts[k].op <= generation

StartPermitted(l, n, k) ==
    /\ l.attempts[k] # None
    /\ l.attempts[k].state = "reserved"
    /\ l.attempts[k].held = None
    /\ l.attempts[k].epoch = Len(l.epochs)
    /\ n.attempts[k].at >= l.last
    /\ Reason(l, n.attempts[k].at, TRUE) = "eligible"

StartsPermitted(l, n) ==
    \A k \in Keys : StartedIn(n, k) /\ ~StartedIn(l, k) => StartPermitted(l, n, k)

StartsKept(l, n) == \A k \in Keys : StartedIn(l, k) => StartedIn(n, k)

Edges == {<<"none", "prepared">>, <<"prepared", "reserved">>, <<"prepared", "blocked">>,
          <<"reserved", "sealed">>, <<"reserved", "blocked">>, <<"reserved", "started">>}

\* At most one intent takes a step, and it is one that PolicyStarts has.
PhaseStep(l, n) ==
    \/ \A k \in Keys : Phase(n, k) = Phase(l, k)
    \/ \E k \in Keys : /\ \A j \in Keys \ {k} : Phase(n, j) = Phase(l, j)
                       /\ <<Phase(l, k), Phase(n, k)>> \in Edges

LaunchesStart(l, n, answer) ==
    answer.launch => answer.key \in Keys /\ ~StartedIn(l, answer.key) /\ StartedIn(n, answer.key)

\* What a command makes of a ledger l, with its answer.
Sound(l, n, answer) ==
    /\ LedgerIsValid(n)
    /\ StartsPermitted(l, n)
    /\ StartsKept(l, n)
    /\ PhaseStep(l, n)
    /\ IsOver(l) => IsOver(n)
    /\ LaunchesStart(l, n, answer)

\* A transaction under way is sound, and the last generation is not passed.
TxIsSound ==
    tx # None => /\ anchor.generation < MaxGeneration
                 /\ OpsUpTo(tx.next, anchor.generation + 1)
                 /\ Sound(anchor.head, tx.next, tx.answer)

IInv ==
    /\ TypeOK
    /\ HeadIsValid
    /\ OpsUpTo(anchor.head, anchor.generation)
    /\ TxIsSound
    /\ OneLaunch

Ready(next, answer) ==
    /\ next \in Ledger
    /\ answer \in Answers
    /\ OpsUpTo(next, anchor.generation + 1)
    /\ Sound(ledger, next, answer)

-------------------------------------------------------------------------------
(* What the status of a release says.                                        *)

Over(l, now) == l.withdrawn \/ now >= Until \/ Superseded(l, now)

LEMMA StatusIsOver ==
  ASSUME NEW l \in Ledger, NEW now \in Times
  PROVE  /\ Status(l, now) \in {"withdrawn", "expired", "superseded"} <=> Over(l, now)
         /\ Status(l, now) \in {"withdrawn", "expired", "superseded", "effective", "not-effective"}
  BY WindowAssumption DEF Status, Over, Superseded, Times, Ledger

LEMMA ReasonIsKnown ==
  ASSUME NEW l \in Ledger, NEW now \in Times, NEW kept \in BOOLEAN
  PROVE  /\ Reason(l, now, kept) \in BlockedReasons \cup {"eligible"}
         /\ Reason(l, now, kept) = "eligible" => Reason(l, now, TRUE) = "eligible"
  <1>1. Status(l, now) \in {"withdrawn", "expired", "superseded", "effective", "not-effective"}
    BY StatusIsOver
  <1> QED BY <1>1 DEF Reason, BlockedReasons, Ledger

\* Time, a review and a withdrawal only ever add to what is over.
LEMMA OverGrows ==
  ASSUME NEW l \in Ledger, NEW n \in Ledger, l.last <= n.last,
         l.withdrawn => n.withdrawn,
         \/ n.newer = l.newer
         \/ l.newer = None
         \/ /\ n.newer # None /\ n.newer.from = l.newer.from
            /\ l.newer.withdrawn = None /\ n.newer.withdrawn = n.last
  PROVE  IsOver(l) => IsOver(n)
  <1>1. l.last \in Times /\ n.last \in Times /\ l.last \in Nat /\ n.last \in Nat
    BY WindowAssumption DEF Ledger, Times
  <1>2. Over(l, l.last) => Over(n, n.last)
    <2> SUFFICES ASSUME Superseded(l, l.last) PROVE Superseded(n, n.last)
      BY <1>1, WindowAssumption DEF Over
    <2>1. l.newer \in Newer /\ l.newer # None
      BY DEF Superseded, Ledger
    <2>2. l.newer.from \in Nat /\ l.last >= l.newer.from
      BY <2>1, WindowAssumption DEF Superseded, Newer, Times
    <2>3. CASE n.newer = l.newer
      BY <1>1, <2>1, <2>2, <2>3 DEF Superseded
    <2>4. CASE n.newer # None /\ n.newer.from = l.newer.from /\ n.newer.withdrawn = n.last
      BY <1>1, <2>1, <2>2, <2>4 DEF Superseded
    <2> QED BY <2>1, <2>3, <2>4
  <1> QED BY <1>1, <1>2, StatusIsOver DEF IsOver

-------------------------------------------------------------------------------
(* Ledgers that differ in little.                                            *)

\* A command that decides nothing of any attempt.
LEMMA SameAttempts ==
  ASSUME NEW l \in Ledger, NEW n \in Ledger, LedgerIsValid(l),
         n.attempts = l.attempts, l.last <= n.last, l.intents \subseteq n.intents,
         Len(l.epochs) <= Len(n.epochs)
  PROVE  /\ \A k \in Keys : n.attempts[k] # None => AttemptIsValid(n, k)
         /\ StartsPermitted(l, n)
         /\ StartsKept(l, n)
         /\ \A k \in Keys : k \in l.intents \/ k \notin n.intents => Phase(n, k) = Phase(l, k)
         /\ \A k \in Keys : k \notin l.intents /\ k \in n.intents
                              => Phase(l, k) = "none" /\ Phase(n, k) = "prepared"
  <1>1. ASSUME NEW k \in Keys, n.attempts[k] # None
        PROVE  AttemptIsValid(n, k)
    <2>1. l.attempts[k] \in Attempt /\ n.attempts[k] = l.attempts[k] /\ AttemptIsValid(l, k)
      BY <1>1 DEF LedgerIsValid, Ledger
    <2>2. l.last \in Nat /\ n.last \in Nat /\ Len(l.epochs) \in Nat /\ Len(n.epochs) \in Nat
      BY WindowAssumption DEF Ledger, Times
    <2>3. l.attempts[k].at \in Nat /\ l.attempts[k].epoch \in Nat
          /\ (l.attempts[k].held = None \/ l.attempts[k].held \in Nat)
      BY <2>1, WindowAssumption DEF Attempt, Times
    <2>4. /\ k \in n.intents
          /\ l.attempts[k].epoch \in 1 .. Len(n.epochs)
          /\ l.attempts[k].at <= n.last
          /\ l.attempts[k].held # None => l.attempts[k].held <= n.last
      BY <2>1, <2>2, <2>3 DEF AttemptIsValid
    <2> QED BY <2>1, <2>4, Zenon DEF AttemptIsValid
  <1>2. StartsPermitted(l, n) /\ StartsKept(l, n)
    BY DEF StartsPermitted, StartsKept, StartedIn
  <1>3. \A k \in Keys : k \notin l.intents => l.attempts[k] = None
    BY DEF LedgerIsValid, AttemptIsValid
  <1>4. ASSUME NEW k \in Keys, k \in l.intents \/ k \notin n.intents
        PROVE  Phase(n, k) = Phase(l, k)
    BY <1>4 DEF Phase
  <1>5. ASSUME NEW k \in Keys, k \notin l.intents, k \in n.intents
        PROVE  Phase(l, k) = "none" /\ Phase(n, k) = "prepared"
    BY <1>3, <1>5 DEF Phase
  <1> QED BY <1>1, <1>2, <1>4, <1>5

\* What an attempt may be in a ledger that last observed this time.
AttemptFits(a, last) ==
    /\ a.held # None => a.state = "reserved" /\ a.at <= a.held /\ a.held <= last
    /\ CASE a.state = "reserved"        -> ~a.start /\ a.reason = "reserved"
         [] a.state = "start-committed" -> a.start /\ a.reason = "start-committed"
         [] a.state = "blocked"         -> a.reason \in BlockedReasons

\* A command that decides one attempt.
LEMMA OneAttempt ==
  ASSUME NEW l \in Ledger, NEW n \in Ledger, LedgerIsValid(l),
         NEW k \in Keys, NEW a \in Attempt,
         n.attempts = [l.attempts EXCEPT ![k] = a],
         n.intents = l.intents, n.epochs = l.epochs, n.registered = l.registered, l.last <= n.last,
         k \in l.intents, a.epoch \in 1 .. Len(l.epochs), a.at <= n.last,
         \A j \in Keys \ {k} : l.attempts[j] # None => l.attempts[j].op # a.op,
         AttemptFits(a, n.last)
  PROVE  LedgerIsValid(n)
  <1>1. n.attempts[k] = a /\ \A j \in Keys \ {k} : n.attempts[j] = l.attempts[j]
    BY DEF Ledger
  <1>2. l.last \in Nat /\ n.last \in Nat /\ Len(l.epochs) \in Nat
    BY WindowAssumption DEF Ledger, Times
  <1>3. AttemptIsValid(n, k)
    BY <1>1 DEF AttemptIsValid, AttemptFits
  <1>4. ASSUME NEW j \in Keys \ {k}, n.attempts[j] # None
        PROVE  AttemptIsValid(n, j)
    <2>1. l.attempts[j] \in Attempt /\ n.attempts[j] = l.attempts[j] /\ AttemptIsValid(l, j)
      BY <1>1, <1>4 DEF LedgerIsValid, Ledger
    <2>2. l.attempts[j].at \in Nat /\ (l.attempts[j].held = None \/ l.attempts[j].held \in Nat)
      BY <2>1, WindowAssumption DEF Attempt, Times
    <2>3. ASSUME NEW i \in Keys \ {j}, n.attempts[i] # None
          PROVE  n.attempts[i].op # n.attempts[j].op
      <3>1. CASE i = k
        BY <1>1, <1>4, <2>1, <3>1
      <3>2. CASE i # k
        <4>1. n.attempts[i] = l.attempts[i]
          BY <1>1, <3>2
        <4> QED BY <2>1, <2>3, <4>1 DEF AttemptIsValid
      <3> QED BY <3>1, <3>2
    <2>4. /\ j \in n.intents
          /\ l.attempts[j].epoch \in 1 .. Len(n.epochs)
          /\ l.attempts[j].at <= n.last
          /\ l.attempts[j].held # None => l.attempts[j].held <= n.last
      BY <1>2, <2>1, <2>2 DEF AttemptIsValid
    <2> QED BY <2>1, <2>3, <2>4, Zenon DEF AttemptIsValid
  <1> QED BY <1>3, <1>4 DEF LedgerIsValid

\* The other intents stay as they were.
LEMMA OthersStay ==
  ASSUME NEW l \in Ledger, NEW n \in Ledger, NEW k \in Keys, NEW a,
         n.attempts = [l.attempts EXCEPT ![k] = a], n.intents = l.intents
  PROVE  \A j \in Keys \ {k} : /\ Phase(n, j) = Phase(l, j)
                               /\ StartedIn(n, j) <=> StartedIn(l, j)
  <1>1. \A j \in Keys \ {k} : n.attempts[j] = l.attempts[j]
    BY DEF Ledger
  <1> QED BY <1>1 DEF Phase, StartedIn

-------------------------------------------------------------------------------
(* The commands, one after another.                                          *)

LEMMA CurrentLedger ==
  ASSUME IInv, Current
  PROVE  /\ ledger = anchor.head /\ ledger \in Ledger /\ LedgerIsValid(ledger)
         /\ OpsUpTo(ledger, anchor.generation) /\ anchor.generation \in Nat
         /\ Epoch \in Nat
  BY DEF IInv, Current, TypeOK, HeadIsValid, Epoch, Ledger

LEMMA ObservedLedger ==
  ASSUME ledger \in Ledger, NEW now, Observes(now)
  PROVE  /\ Observed(now) \in Ledger
         /\ Observed(now) = [ledger EXCEPT !.last = now]
         /\ Observed(now).last = now /\ ledger.last <= now /\ now \in Times
         /\ now \in Nat /\ ledger.last \in Nat
  BY WindowAssumption DEF Observes, Observed, Ledger, Times

LEMMA SilentAnswer == NoAnswer \in Answers /\ NoAnswer.launch = FALSE
  BY DEF NoAnswer, Answers

\* Operations as they were.
LEMMA OpsStay ==
  ASSUME IInv, Current, NEW n \in Ledger, n.attempts = ledger.attempts
  PROVE  OpsUpTo(n, anchor.generation + 1)
  BY CurrentLedger DEF OpsUpTo, Ledger, Attempt

\* A command about releases, or about nothing.
LEMMA PlainIsReady ==
  ASSUME IInv, Current, NEW n \in Ledger,
         n.attempts = ledger.attempts, n.intents = ledger.intents, n.epochs = ledger.epochs,
         ledger.registered => n.registered, ledger.last <= n.last,
         ledger.withdrawn => n.withdrawn,
         \/ n.newer = ledger.newer
         \/ ledger.newer = None
         \/ /\ n.newer # None /\ n.newer.from = ledger.newer.from
            /\ ledger.newer.withdrawn = None /\ n.newer.withdrawn = n.last
  PROVE  Ready(n, NoAnswer)
  <1>1. ledger \in Ledger /\ LedgerIsValid(ledger) /\ Len(ledger.epochs) \in Nat
    BY CurrentLedger DEF Epoch
  <1>2. /\ \A k \in Keys : n.attempts[k] # None => AttemptIsValid(n, k)
        /\ StartsPermitted(ledger, n) /\ StartsKept(ledger, n)
        /\ \A k \in Keys : Phase(n, k) = Phase(ledger, k)
    BY <1>1, SameAttempts
  <1>3. LedgerIsValid(n)
    BY <1>1, <1>2 DEF LedgerIsValid
  <1>4. IsOver(ledger) => IsOver(n)
    BY <1>1, OverGrows
  <1> QED
    BY <1>2, <1>3, <1>4, OpsStay, SilentAnswer DEF Ready, Sound, PhaseStep, LaunchesStart

LEMMA DenyIsReady ==
  ASSUME IInv, Current, NEW now, Observes(now)
  PROVE  Ready(Observed(now), NoAnswer)
  <1>1. ledger \in Ledger
    BY CurrentLedger
  <1>2. Observed(now).attempts = ledger.attempts /\ Observed(now).intents = ledger.intents
        /\ Observed(now).epochs = ledger.epochs /\ Observed(now).registered = ledger.registered
        /\ Observed(now).withdrawn = ledger.withdrawn /\ Observed(now).newer = ledger.newer
    BY <1>1 DEF Observed, Ledger
  <1> QED BY <1>1, <1>2, ObservedLedger, PlainIsReady

LEMMA RegisterIsReady ==
  ASSUME IInv, Current, NEW now, Observes(now)
  PROVE  Ready([Observed(now) EXCEPT !.registered = TRUE], NoAnswer)
  <1> SUFFICES ASSUME NEW n, n = [Observed(now) EXCEPT !.registered = TRUE]
               PROVE  Ready(n, NoAnswer)
    OBVIOUS
  <1>1. ledger \in Ledger
    BY CurrentLedger
  <1>2. /\ n \in Ledger
        /\ n.last = now
        /\ n.attempts = ledger.attempts
        /\ n.intents = ledger.intents
        /\ n.epochs = ledger.epochs
        /\ n.newer = ledger.newer
        /\ n.registered = TRUE
        /\ n.withdrawn = ledger.withdrawn
    <2>1. n \in Ledger
      <3>1. Observed(now) \in Ledger
        BY <1>1, ObservedLedger
      <3> QED BY <3>1 DEF Ledger
    <2>2. n.last = now /\ n.attempts = ledger.attempts /\ n.intents = ledger.intents
          /\ n.epochs = ledger.epochs /\ n.newer = ledger.newer
      BY <1>1, ObservedLedger DEF Ledger
    <2>3. n.registered = TRUE /\ n.withdrawn = ledger.withdrawn
      BY <1>1, ObservedLedger DEF Ledger
    <2> QED BY <2>1, <2>2, <2>3
  <1> QED
    BY <1>1, <1>2, ObservedLedger, PlainIsReady

LEMMA WithdrawIsReady ==
  ASSUME IInv, Current, NEW now, Observes(now)
  PROVE  Ready([Observed(now) EXCEPT !.withdrawn = TRUE], NoAnswer)
  <1> SUFFICES ASSUME NEW n, n = [Observed(now) EXCEPT !.withdrawn = TRUE]
               PROVE  Ready(n, NoAnswer)
    OBVIOUS
  <1>1. ledger \in Ledger
    BY CurrentLedger
  <1>2. /\ n \in Ledger
        /\ n.last = now
        /\ n.attempts = ledger.attempts
        /\ n.intents = ledger.intents
        /\ n.epochs = ledger.epochs
        /\ n.newer = ledger.newer
        /\ n.registered = ledger.registered
        /\ n.withdrawn = TRUE
    <2>1. n \in Ledger
      <3>1. Observed(now) \in Ledger
        BY <1>1, ObservedLedger
      <3> QED BY <3>1 DEF Ledger
    <2>2. n.last = now /\ n.attempts = ledger.attempts /\ n.intents = ledger.intents
          /\ n.epochs = ledger.epochs /\ n.newer = ledger.newer
      BY <1>1, ObservedLedger DEF Ledger
    <2>3. n.registered = ledger.registered /\ n.withdrawn = TRUE
      BY <1>1, ObservedLedger DEF Ledger
    <2> QED BY <2>1, <2>2, <2>3
  <1> QED
    BY <1>1, <1>2, ObservedLedger, PlainIsReady

LEMMA SupersedeIsReady ==
  ASSUME IInv, Current, NEW now, Observes(now), NEW from \in Times, ledger.newer = None
  PROVE  Ready([Observed(now) EXCEPT !.newer = [from |-> from, withdrawn |-> None]], NoAnswer)
  <1> DEFINE new == [from |-> from, withdrawn |-> None]
             n == [Observed(now) EXCEPT !.newer = new]
  <1>1. ledger \in Ledger
    BY CurrentLedger
  <1>2. new \in Newer
    BY DEF Newer
  <1> HIDE DEF new
  <1>3. n \in Ledger /\ n.last = now /\ n.attempts = ledger.attempts /\ n.intents = ledger.intents
        /\ n.epochs = ledger.epochs /\ n.registered = ledger.registered
        /\ n.withdrawn = ledger.withdrawn
    BY <1>1, <1>2, ObservedLedger DEF Ledger
  <1> HIDE DEF n
  <1>4. Ready(n, NoAnswer)
    BY <1>1, <1>3, ObservedLedger, PlainIsReady
  <1> QED BY <1>4 DEF n, new

LEMMA WithdrawNewerIsReady ==
  ASSUME IInv, Current, NEW now, Observes(now), ledger.newer # None, ledger.newer.withdrawn = None
  PROVE  Ready([Observed(now) EXCEPT !.newer = [@ EXCEPT !.withdrawn = now]], NoAnswer)
  <1> DEFINE new == [ledger.newer EXCEPT !.withdrawn = now]
             n == [Observed(now) EXCEPT !.newer = new]
  <1>1. ledger \in Ledger /\ ledger.newer \in Newer
    BY CurrentLedger DEF Ledger
  <1>2. new \in Newer /\ new.from = ledger.newer.from /\ new.withdrawn = now
    BY <1>1, ObservedLedger DEF Newer
  <1>3. Observed(now).newer = ledger.newer
    BY <1>1 DEF Observed, Ledger
  <1>4. [Observed(now) EXCEPT !.newer = [@ EXCEPT !.withdrawn = now]] = n
    BY <1>3
  <1> HIDE DEF new
  <1>5. n \in Ledger /\ n.last = now /\ n.attempts = ledger.attempts /\ n.intents = ledger.intents
        /\ n.epochs = ledger.epochs /\ n.registered = ledger.registered
        /\ n.withdrawn = ledger.withdrawn /\ n.newer = new
    BY <1>1, <1>2, ObservedLedger DEF Ledger
  <1> HIDE DEF n
  <1>6. n.newer # None
    BY <1>2, <1>5, NoneAssumption
  <1>7. Ready(n, NoAnswer)
    BY <1>1, <1>2, <1>5, <1>6, ObservedLedger, PlainIsReady
  <1> QED BY <1>4, <1>7

LEMMA ReviewIsReady ==
  ASSUME IInv, Current
  PROVE  Ready([ledger EXCEPT !.changes = TRUE], NoAnswer)
  <1> SUFFICES ASSUME NEW n, n = [ledger EXCEPT !.changes = TRUE]
               PROVE  Ready(n, NoAnswer)
    OBVIOUS
  <1>1. ledger \in Ledger
    BY CurrentLedger
  <1>2. /\ n \in Ledger
        /\ n.last = ledger.last
        /\ n.attempts = ledger.attempts
        /\ n.intents = ledger.intents
        /\ n.epochs = ledger.epochs
        /\ n.newer = ledger.newer
        /\ n.registered = ledger.registered
        /\ n.withdrawn = ledger.withdrawn
        /\ ledger.last <= n.last
    <2>1. n \in Ledger
      BY <1>1, WindowAssumption DEF Ledger, Times
    <2>2. n.last = ledger.last /\ n.attempts = ledger.attempts /\ n.intents = ledger.intents
          /\ n.epochs = ledger.epochs /\ n.newer = ledger.newer
      BY <1>1, WindowAssumption DEF Ledger
    <2>3. n.registered = ledger.registered /\ n.withdrawn = ledger.withdrawn
      BY <1>1, WindowAssumption DEF Ledger
    <2>4. ledger.last <= n.last
      BY <1>1, <2>2, WindowAssumption DEF Ledger, Times
    <2> QED BY <2>1, <2>2, <2>3, <2>4
  <1> QED
    BY <1>1, <1>2, PlainIsReady

\* The ledger with one more intent.
WithIntent(now, k) == [Observed(now) EXCEPT !.intents = @ \cup {k}]

\* What such a ledger keeps of the current one.
AddsIntent(n, now, k) ==
    /\ n \in Ledger
    /\ n.last = now
    /\ n.attempts = ledger.attempts
    /\ n.intents = ledger.intents \cup {k}
    /\ n.epochs = ledger.epochs
    /\ n.newer = ledger.newer
    /\ ledger.registered => n.registered
    /\ n.withdrawn = ledger.withdrawn

LEMMA IntentLedger ==
  ASSUME ledger \in Ledger, NEW now, Observes(now), NEW k \in Keys
  PROVE  AddsIntent(WithIntent(now, k), now, k)
  <1> SUFFICES ASSUME NEW n, n = WithIntent(now, k)
               PROVE  AddsIntent(n, now, k)
    OBVIOUS
  <1>0. n = [Observed(now) EXCEPT !.intents = @ \cup {k}]
    BY DEF WithIntent
  <1>1. Observed(now).intents = ledger.intents
    BY DEF Observed, Ledger
  <1>2. n \in Ledger
    BY <1>0, <1>1, ObservedLedger DEF Ledger
  <1>3. n.last = now /\ n.attempts = ledger.attempts /\ n.intents = ledger.intents \cup {k}
        /\ n.epochs = ledger.epochs /\ n.newer = ledger.newer
    BY <1>0, <1>1, ObservedLedger DEF Ledger
  <1>4. (ledger.registered => n.registered) /\ n.withdrawn = ledger.withdrawn
    BY <1>0, <1>1, ObservedLedger DEF Ledger
  <1> QED BY <1>2, <1>3, <1>4 DEF AddsIntent

LEMMA IntentFits ==
  ASSUME IInv, Current, NEW k \in Keys, ledger.registered, k \notin ledger.intents,
         Cardinality(ledger.intents) < IntentLimit,
         NEW n \in Ledger, n.attempts = ledger.attempts, n.intents = ledger.intents \cup {k},
         n.epochs = ledger.epochs, n.registered, ledger.last <= n.last,
         n.withdrawn = ledger.withdrawn, n.newer = ledger.newer
  PROVE  Ready(n, NoAnswer)
  <1>1. ledger \in Ledger /\ LedgerIsValid(ledger) /\ Len(ledger.epochs) \in Nat
    BY CurrentLedger DEF Epoch
  <1>2. Cardinality(n.intents) <= IntentLimit
    <2>1. IsFiniteSet(ledger.intents)
      BY <1>1, LimitAssumption, FS_Subset DEF Ledger
    <2>2. Cardinality(ledger.intents) \in Nat
      BY <2>1, FS_CardinalityType
    <2>3. Cardinality(n.intents) = Cardinality(ledger.intents) + 1
      BY <2>1, FS_AddElement
    <2> QED BY <2>2, <2>3, LimitAssumption
  <1>3. ledger.intents \subseteq n.intents /\ Len(ledger.epochs) <= Len(n.epochs) /\ k \in n.intents
    BY <1>1
  <1>4. /\ \A j \in Keys : n.attempts[j] # None => AttemptIsValid(n, j)
        /\ StartsPermitted(ledger, n) /\ StartsKept(ledger, n)
        /\ \A j \in Keys : j \in ledger.intents \/ j \notin n.intents => Phase(n, j) = Phase(ledger, j)
        /\ \A j \in Keys : j \notin ledger.intents /\ j \in n.intents
                             => Phase(ledger, j) = "none" /\ Phase(n, j) = "prepared"
    BY <1>1, <1>3, SameAttempts
  <1>5. LedgerIsValid(n)
    <2>1. Len(n.epochs) <= EpochLimit
          /\ \A d, e \in 1 .. Len(n.epochs) : d # e => n.epochs[d] # n.epochs[e]
      BY <1>1 DEF LedgerIsValid
    <2> QED BY <1>2, <1>4, <2>1, Zenon DEF LedgerIsValid
  <1>6. PhaseStep(ledger, n)
    <2>1. \A j \in Keys \ {k} : Phase(n, j) = Phase(ledger, j)
      BY <1>4
    <2>2. <<Phase(ledger, k), Phase(n, k)>> \in Edges
      BY <1>3, <1>4 DEF Edges
    <2> QED BY <2>1, <2>2 DEF PhaseStep
  <1>7. IsOver(ledger) => IsOver(n)
    BY <1>1, OverGrows
  <1> QED
    BY <1>4, <1>5, <1>6, <1>7, OpsStay, SilentAnswer DEF Ready, Sound, LaunchesStart

LEMMA IntentIsReady ==
  ASSUME IInv, Current, NEW now, Observes(now), NEW k \in Keys,
         ledger.registered, k \notin ledger.intents, Cardinality(ledger.intents) < IntentLimit
  PROVE  Ready([Observed(now) EXCEPT !.intents = @ \cup {k}], NoAnswer)
  <1> SUFFICES ASSUME NEW n, n = WithIntent(now, k)
               PROVE  Ready(n, NoAnswer)
    BY DEF WithIntent
  <1>1. ledger \in Ledger
    BY CurrentLedger
  <1>a. AddsIntent(n, now, k)
    BY <1>1, IntentLedger, Zenon
  <1>2. /\ n \in Ledger
        /\ n.last = now
        /\ n.attempts = ledger.attempts
        /\ n.intents = ledger.intents \cup {k}
        /\ n.epochs = ledger.epochs
        /\ n.newer = ledger.newer
        /\ ledger.registered => n.registered
        /\ n.withdrawn = ledger.withdrawn
    BY <1>a, Zenon DEF AddsIntent
  <1>3. n.registered
    BY <1>2, Zenon
  <1>4. ledger.last <= n.last
    BY <1>1, <1>2, ObservedLedger
  <1>5. Ready(n, NoAnswer)
    BY <1>2, <1>3, <1>4, IntentFits
  <1> QED BY <1>5

\* The ledger with one more epoch.
WithEpoch(now, s) == [Observed(now) EXCEPT !.epochs = Append(@, s)]

\* What such a ledger keeps of the current one.
AddsEpoch(n, now, s) ==
    /\ n \in Ledger
    /\ n.last = now
    /\ n.attempts = ledger.attempts
    /\ n.intents = ledger.intents
    /\ n.epochs = Append(ledger.epochs, s)
    /\ n.newer = ledger.newer
    /\ n.registered = ledger.registered
    /\ n.withdrawn = ledger.withdrawn

LEMMA EpochLedger ==
  ASSUME ledger \in Ledger, NEW now, Observes(now), NEW s \in Sessions
  PROVE  AddsEpoch(WithEpoch(now, s), now, s)
  <1> SUFFICES ASSUME NEW n, n = WithEpoch(now, s)
               PROVE  AddsEpoch(n, now, s)
    OBVIOUS
  <1>0. n = [Observed(now) EXCEPT !.epochs = Append(@, s)]
    BY DEF WithEpoch
  <1>1. Observed(now).epochs = ledger.epochs /\ ledger.epochs \in Seq(Sessions)
    BY DEF Observed, Ledger
  <1>2. Append(ledger.epochs, s) \in Seq(Sessions)
    BY <1>1
  <1>3. n \in Ledger
    <2>1. \A e \in Seq(Sessions) : [Observed(now) EXCEPT !.epochs = e] \in Ledger
      BY ObservedLedger DEF Ledger
    <2>2. n = [Observed(now) EXCEPT !.epochs = Append(ledger.epochs, s)]
      BY <1>0, <1>1
    <2> QED BY <1>2, <2>1, <2>2, Zenon
  <1>4. n.last = now /\ n.attempts = ledger.attempts /\ n.intents = ledger.intents
        /\ n.epochs = Append(ledger.epochs, s) /\ n.newer = ledger.newer
    BY <1>0, <1>1, <1>2, ObservedLedger DEF Ledger
  <1>5. n.registered = ledger.registered /\ n.withdrawn = ledger.withdrawn
    BY <1>0, <1>1, <1>2, ObservedLedger DEF Ledger
  <1> QED BY <1>3, <1>4, <1>5 DEF AddsEpoch

LEMMA EpochFits ==
  ASSUME IInv, Current, NEW s \in Sessions,
         \A e \in 1 .. Epoch : ledger.epochs[e] # s, Epoch < EpochLimit,
         NEW n \in Ledger, n.attempts = ledger.attempts, n.intents = ledger.intents,
         n.epochs = Append(ledger.epochs, s), n.registered = ledger.registered,
         ledger.last <= n.last, n.withdrawn = ledger.withdrawn, n.newer = ledger.newer
  PROVE  Ready(n, NoAnswer)
  <1>1. ledger \in Ledger /\ LedgerIsValid(ledger) /\ Len(ledger.epochs) \in Nat
        /\ ledger.epochs \in Seq(Sessions)
    BY CurrentLedger DEF Epoch, Ledger
  <1>2. Len(n.epochs) = Len(ledger.epochs) + 1
        /\ \A e \in 1 .. Len(ledger.epochs) : n.epochs[e] = ledger.epochs[e]
        /\ n.epochs[Len(ledger.epochs) + 1] = s
    BY <1>1
  <1>3. \A d, e \in 1 .. Len(n.epochs) : d # e => n.epochs[d] # n.epochs[e]
    BY <1>1, <1>2 DEF LedgerIsValid, Epoch
  <1>4. Len(n.epochs) <= EpochLimit /\ Len(ledger.epochs) <= Len(n.epochs)
    BY <1>1, <1>2, LimitAssumption DEF Epoch
  <1>5. /\ \A j \in Keys : n.attempts[j] # None => AttemptIsValid(n, j)
        /\ StartsPermitted(ledger, n) /\ StartsKept(ledger, n)
        /\ \A j \in Keys : Phase(n, j) = Phase(ledger, j)
    BY <1>1, <1>4, SameAttempts
  <1>6. LedgerIsValid(n)
    <2>1. Cardinality(n.intents) <= IntentLimit /\ (n.intents # {} => n.registered)
      BY <1>1 DEF LedgerIsValid
    <2> QED BY <1>3, <1>4, <1>5, <2>1, Zenon DEF LedgerIsValid
  <1>7. IsOver(ledger) => IsOver(n)
    BY <1>1, OverGrows
  <1> QED
    BY <1>5, <1>6, <1>7, OpsStay, SilentAnswer DEF Ready, Sound, PhaseStep, LaunchesStart

LEMMA EpochIsReady ==
  ASSUME IInv, Current, NEW now, Observes(now), NEW s \in Sessions,
         \A e \in 1 .. Epoch : ledger.epochs[e] # s, Epoch < EpochLimit
  PROVE  Ready([Observed(now) EXCEPT !.epochs = Append(@, s)], NoAnswer)
  <1> SUFFICES ASSUME NEW n, n = WithEpoch(now, s)
               PROVE  Ready(n, NoAnswer)
    BY DEF WithEpoch
  <1>1. ledger \in Ledger
    BY CurrentLedger
  <1>a. AddsEpoch(n, now, s)
    BY <1>1, EpochLedger, Zenon
  <1>2. /\ n \in Ledger
        /\ n.last = now
        /\ n.attempts = ledger.attempts
        /\ n.intents = ledger.intents
        /\ n.epochs = Append(ledger.epochs, s)
        /\ n.newer = ledger.newer
        /\ n.registered = ledger.registered
        /\ n.withdrawn = ledger.withdrawn
    BY <1>a, Zenon DEF AddsEpoch
  <1>3. ledger.last <= n.last
    BY <1>1, <1>2, ObservedLedger
  <1>4. Ready(n, NoAnswer)
    BY <1>2, <1>3, EpochFits
  <1> QED BY <1>4

\* The phase of an intent with this attempt.
AttemptPhase(a) ==
    CASE a.state = "blocked"         -> "blocked"
      [] a.state = "start-committed" -> "started"
      [] OTHER -> IF a.held = None THEN "reserved" ELSE "sealed"

\* A command that decides the attempt of one intent.
LEMMA AttemptIsReady ==
  ASSUME IInv, Current, NEW now, Observes(now), NEW k \in Keys, NEW a \in Attempt,
         NEW answer \in Answers,
         k \in ledger.intents, a.epoch \in 1 .. Epoch, a.at <= now, AttemptFits(a, now),
         a.op <= anchor.generation + 1,
         \A j \in Keys \ {k} : ledger.attempts[j] # None => ledger.attempts[j].op # a.op,
         Phase(ledger, k) = AttemptPhase(a) \/ <<Phase(ledger, k), AttemptPhase(a)>> \in Edges,
         StartedIn(ledger, k) => a.state = "start-committed",
         a.state = "start-committed" /\ ~StartedIn(ledger, k) =>
             /\ ledger.attempts[k] # None /\ ledger.attempts[k].state = "reserved"
             /\ ledger.attempts[k].held = None /\ ledger.attempts[k].epoch = Epoch
             /\ a.at >= ledger.last /\ Reason(ledger, a.at, TRUE) = "eligible",
         answer.launch => /\ answer.key = k /\ a.state = "start-committed"
                          /\ ~StartedIn(ledger, k)
  PROVE  Ready([Observed(now) EXCEPT !.attempts[k] = a], answer)
  <1> DEFINE n == [Observed(now) EXCEPT !.attempts[k] = a]
  <1>1. ledger \in Ledger /\ LedgerIsValid(ledger) /\ OpsUpTo(ledger, anchor.generation)
        /\ anchor.generation \in Nat /\ Epoch = Len(ledger.epochs) /\ Epoch \in Nat
    BY CurrentLedger DEF Epoch
  <1>2. Observed(now).attempts = ledger.attempts /\ Observed(now) \in Ledger
    BY <1>1, ObservedLedger DEF Observed, Ledger
  <1>3. [ledger.attempts EXCEPT ![k] = a] \in [Keys -> Attempt \cup {None}]
    BY <1>1 DEF Ledger
  <1>4. n = [Observed(now) EXCEPT !.attempts = [ledger.attempts EXCEPT ![k] = a]]
    BY <1>2
  <1> HIDE DEF n
  <1>5. n \in Ledger /\ n.last = now /\ n.attempts = [ledger.attempts EXCEPT ![k] = a]
        /\ n.intents = ledger.intents /\ n.epochs = ledger.epochs
        /\ n.registered = ledger.registered
        /\ n.withdrawn = ledger.withdrawn /\ n.newer = ledger.newer
    <2>1. n = [ledger EXCEPT !.last = now, !.attempts = [ledger.attempts EXCEPT ![k] = a]]
      BY <1>4 DEF Observed
    <2> QED BY <1>1, <1>2, <1>3, <2>1, ObservedLedger DEF Ledger
  <1>6. ledger.last <= n.last
    BY <1>1, <1>5, ObservedLedger
  <1>7. n.attempts[k] = a /\ a # None /\ \A j \in Keys \ {k} : n.attempts[j] = ledger.attempts[j]
    BY <1>1, <1>5, NoneAssumption DEF Ledger
  <1>8. LedgerIsValid(n)
    BY <1>1, <1>5, <1>6, OneAttempt
  <1>9. \A j \in Keys \ {k} : /\ Phase(n, j) = Phase(ledger, j)
                              /\ StartedIn(n, j) <=> StartedIn(ledger, j)
    BY <1>1, <1>5, OthersStay
  <1>10. Phase(n, k) = AttemptPhase(a)
    BY <1>5, <1>7 DEF Phase, AttemptPhase
  <1>11. StartedIn(n, k) <=> a.state = "start-committed"
    BY <1>7 DEF StartedIn
  <1>12. PhaseStep(ledger, n)
    BY <1>9, <1>10 DEF PhaseStep
  <1>13. StartsPermitted(ledger, n)
    BY <1>1, <1>7, <1>9, <1>11 DEF StartsPermitted, StartPermitted
  <1>14. StartsKept(ledger, n)
    BY <1>9, <1>11 DEF StartsKept
  <1>15. IsOver(ledger) => IsOver(n)
    BY <1>1, <1>5, <1>6, OverGrows
  <1>16. LaunchesStart(ledger, n, answer)
    BY <1>11 DEF LaunchesStart
  <1>17. OpsUpTo(n, anchor.generation + 1)
    BY <1>1, <1>7 DEF OpsUpTo, Ledger, Attempt
  <1>18. Ready(n, answer)
    BY <1>5, <1>8, <1>12, <1>13, <1>14, <1>15, <1>16, <1>17 DEF Ready, Sound
  <1> QED BY <1>18 DEF n

LEMMA ToldIsAnswer ==
  ASSUME NEW s \in Sessions, NEW k \in Keys, NEW op \in Nat, NEW launch \in BOOLEAN
  PROVE  Told(s, k, op, launch) \in Answers /\ Told(s, k, op, launch).launch = launch
         /\ Told(s, k, op, launch).key = k
  BY DEF Told, Answers

LEMMA NewAttemptFits ==
  ASSUME IInv, Current, NEW now, Observes(now), Epoch > 0,
         NEW reason \in BlockedReasons \cup {"eligible"}
  PROVE  /\ NewAttempt(now, reason) \in Attempt
         /\ AttemptFits(NewAttempt(now, reason), now)
         /\ NewAttempt(now, reason).epoch \in 1 .. Epoch
         /\ NewAttempt(now, reason).at <= now
         /\ NewAttempt(now, reason).op = anchor.generation + 1
         /\ NewAttempt(now, reason).state \in {"reserved", "blocked"}
         /\ AttemptPhase(NewAttempt(now, reason)) \in {"reserved", "blocked"}
  <1>1. now \in Times /\ now \in Nat /\ Epoch \in Nat /\ anchor.generation \in Nat
    BY CurrentLedger, ObservedLedger
  <1>2. NewAttempt(now, reason).held = None
    BY DEF NewAttempt
  <1>4. NewAttempt(now, reason) \in Attempt
    BY <1>1 DEF NewAttempt, Attempt
  <1>5. NewAttempt(now, reason).epoch \in 1 .. Epoch /\ NewAttempt(now, reason).at <= now
        /\ NewAttempt(now, reason).op = anchor.generation + 1
    BY <1>1 DEF NewAttempt
  <1>6. CASE reason = "eligible"
    <2>1. /\ NewAttempt(now, reason).state = "reserved"
          /\ NewAttempt(now, reason).reason = "reserved"
          /\ ~NewAttempt(now, reason).start
      BY <1>6 DEF NewAttempt
    <2> QED BY <1>2, <1>4, <1>5, <2>1 DEF AttemptFits, AttemptPhase
  <1>7. CASE reason # "eligible"
    <2>1. /\ NewAttempt(now, reason).state = "blocked"
          /\ NewAttempt(now, reason).reason = reason
          /\ reason \in BlockedReasons
      BY <1>7 DEF NewAttempt
    <2> QED BY <1>2, <1>4, <1>5, <2>1 DEF AttemptFits, AttemptPhase
  <1> QED BY <1>6, <1>7

LEMMA ReserveIsReady ==
  ASSUME IInv, Current, NEW now, Observes(now), NEW s \in Sessions, NEW k \in Keys,
         NEW kept \in BOOLEAN, Epoch > 0, k \in ledger.intents, ledger.attempts[k] = None,
         NEW answer \in Answers, answer.launch = FALSE
  PROVE  Ready([Observed(now) EXCEPT !.attempts[k] = NewAttempt(now, Reason(ledger, now, kept))], answer)
  <1> DEFINE a == NewAttempt(now, Reason(ledger, now, kept))
  <1>1. ledger \in Ledger /\ OpsUpTo(ledger, anchor.generation) /\ anchor.generation \in Nat
        /\ now \in Times
    BY CurrentLedger, ObservedLedger
  <1>2. /\ a \in Attempt /\ AttemptFits(a, now) /\ a.epoch \in 1 .. Epoch /\ a.at <= now
        /\ a.op = anchor.generation + 1 /\ a.state \in {"reserved", "blocked"}
        /\ AttemptPhase(a) \in {"reserved", "blocked"}
    BY <1>1, ReasonIsKnown, NewAttemptFits
  <1> HIDE DEF a
  <1>3. Phase(ledger, k) = "prepared"
    BY DEF Phase
  <1>4. <<Phase(ledger, k), AttemptPhase(a)>> \in Edges
    BY <1>2, <1>3 DEF Edges
  <1>5. ~StartedIn(ledger, k)
    BY DEF StartedIn
  <1>6. \A j \in Keys \ {k} : ledger.attempts[j] # None => ledger.attempts[j].op # a.op
    BY <1>1, <1>2 DEF OpsUpTo, Ledger, Attempt
  <1>7. a.op <= anchor.generation + 1 /\ a.state # "start-committed"
    BY <1>1, <1>2
  <1>8. Ready([Observed(now) EXCEPT !.attempts[k] = a], answer)
    BY <1>2, <1>4, <1>5, <1>6, <1>7, AttemptIsReady
  <1> QED BY <1>8 DEF a

\* What a valid ledger says of an attempt it has.
LEMMA AttemptHere ==
  ASSUME IInv, Current, NEW k \in Keys, ledger.attempts[k] # None
  PROVE  /\ ledger.attempts[k] \in Attempt /\ AttemptIsValid(ledger, k) /\ k \in ledger.intents
         /\ ledger.attempts[k].op <= anchor.generation /\ anchor.generation \in Nat
         /\ ledger.attempts[k].op \in Nat /\ ledger.attempts[k].at \in Nat
         /\ ledger.attempts[k].epoch \in 1 .. Epoch
         /\ ledger.attempts[k].at <= ledger.last /\ ledger.last \in Nat
         /\ Phase(ledger, k) = AttemptPhase(ledger.attempts[k])
         /\ StartedIn(ledger, k) <=> ledger.attempts[k].state = "start-committed"
         /\ \A j \in Keys \ {k} : ledger.attempts[j] # None
                => ledger.attempts[j].op # ledger.attempts[k].op
  <1>1. ledger \in Ledger /\ LedgerIsValid(ledger) /\ OpsUpTo(ledger, anchor.generation)
        /\ anchor.generation \in Nat
    BY CurrentLedger
  <1>2. ledger.attempts[k] \in Attempt /\ AttemptIsValid(ledger, k)
    BY <1>1 DEF Ledger, LedgerIsValid
  <1>3. ledger.attempts[k].op \in Nat /\ ledger.attempts[k].at \in Nat /\ ledger.last \in Nat
    BY <1>1, <1>2, WindowAssumption DEF Ledger, Attempt, Times
  <1>4. k \in ledger.intents
    BY <1>2 DEF AttemptIsValid
  <1> QED BY <1>1, <1>2, <1>3, <1>4
          DEF AttemptIsValid, OpsUpTo, Epoch, Phase, AttemptPhase, StartedIn

LEMMA RecoveryIsReady ==
  ASSUME IInv, Current, NEW now, Observes(now), NEW k \in Keys,
         NEW a, a = ledger.attempts[k], a # None, a.state # "blocked",
         NEW answer \in Answers, answer.launch = FALSE
  PROVE  Ready([Observed(now) EXCEPT !.attempts[k] =
                   [a EXCEPT !.held = IF a.state = "reserved" /\ a.held = None THEN now ELSE @]], answer)
  <1> DEFINE b == [a EXCEPT !.held = IF a.state = "reserved" /\ a.held = None THEN now ELSE @]
  <1>1. /\ a \in Attempt /\ AttemptIsValid(ledger, k) /\ k \in ledger.intents
        /\ a.op <= anchor.generation /\ anchor.generation \in Nat /\ a.op \in Nat /\ a.at \in Nat
        /\ a.epoch \in 1 .. Epoch /\ a.at <= ledger.last /\ ledger.last \in Nat
        /\ Phase(ledger, k) = AttemptPhase(a)
        /\ StartedIn(ledger, k) <=> a.state = "start-committed"
        /\ \A j \in Keys \ {k} : ledger.attempts[j] # None => ledger.attempts[j].op # a.op
    BY AttemptHere
  <1>2. now \in Times /\ now \in Nat /\ ledger.last <= now
    BY CurrentLedger, ObservedLedger
  <1>3. a.held = None \/ a.held \in Nat
    BY <1>1, WindowAssumption DEF Attempt, Times
  <1>4. /\ b \in Attempt /\ b.op = a.op /\ b.epoch = a.epoch /\ b.at = a.at /\ b.state = a.state
        /\ b.start <=> a.start
        /\ b.reason = a.reason
        /\ b.held = IF a.state = "reserved" /\ a.held = None THEN now ELSE a.held
    <2>1. b \in Attempt
      BY <1>1, <1>2 DEF Attempt
    <2>2. b.op = a.op /\ b.epoch = a.epoch /\ b.at = a.at /\ b.state = a.state
          /\ b.reason = a.reason
      BY <1>1 DEF Attempt
    <2>3. b.start <=> a.start
      BY <1>1 DEF Attempt
    <2>4. b.held = IF a.state = "reserved" /\ a.held = None THEN now ELSE a.held
      BY <1>1 DEF Attempt
    <2> QED BY <2>1, <2>2, <2>3, <2>4
  <1> HIDE DEF b
  <1>5. AttemptFits(b, now)
    <2>1. b.held # None => b.state = "reserved" /\ b.at <= b.held /\ b.held <= now
      BY <1>1, <1>2, <1>3, <1>4 DEF AttemptIsValid
    <2>2. CASE a.state = "reserved"
      <3>1. ~a.start /\ a.reason = "reserved"
        BY <1>1, <2>2 DEF AttemptIsValid
      <3> QED BY <1>4, <2>1, <2>2, <3>1 DEF AttemptFits
    <2>3. CASE a.state = "start-committed"
      <3>1. a.start /\ a.reason = "start-committed"
        BY <1>1, <2>3 DEF AttemptIsValid
      <3> QED BY <1>4, <2>1, <2>3, <3>1 DEF AttemptFits
    <2> QED BY <1>1, <2>2, <2>3 DEF Attempt
  <1>6. a.state \in {"reserved", "start-committed"}
    BY <1>1 DEF Attempt
  <1>7. AttemptPhase(a) = AttemptPhase(b) \/ <<AttemptPhase(a), AttemptPhase(b)>> \in Edges
    <2>1. CASE a.state = "reserved" /\ a.held = None
      <3>1. b.held # None
        BY <1>2, <1>4, <2>1, NoneAssumption
      <3>2. AttemptPhase(a) = "reserved" /\ AttemptPhase(b) = "sealed"
        BY <1>4, <2>1, <3>1 DEF AttemptPhase
      <3> QED BY <3>2 DEF Edges
    <2>2. CASE ~(a.state = "reserved" /\ a.held = None)
      BY <1>4, <2>2 DEF AttemptPhase
    <2> QED BY <2>1, <2>2
  <1>8. /\ b.at <= now /\ b.op <= anchor.generation + 1 /\ b.epoch \in 1 .. Epoch
        /\ \A j \in Keys \ {k} : ledger.attempts[j] # None => ledger.attempts[j].op # b.op
        /\ StartedIn(ledger, k) <=> b.state = "start-committed"
        /\ Phase(ledger, k) = AttemptPhase(b) \/ <<Phase(ledger, k), AttemptPhase(b)>> \in Edges
    BY <1>1, <1>2, <1>4, <1>7
  <1>9. Ready([Observed(now) EXCEPT !.attempts[k] = b], answer)
    <2>1. k \in ledger.intents /\ b \in Attempt
      BY <1>1, <1>4
    <2> QED BY <1>5, <1>8, <2>1, AttemptIsReady
  <1> QED BY <1>9 DEF b

LEMMA StartIsReady ==
  ASSUME IInv, Current, NEW now, Observes(now), NEW k \in Keys, NEW kept \in BOOLEAN,
         NEW a, a = ledger.attempts[k], a # None, MayStart(a),
         NEW reason, reason = Reason(ledger, now, kept),
         NEW answer \in Answers, answer.key = k, answer.launch => reason = "eligible"
  PROVE  Ready([Observed(now) EXCEPT !.attempts[k] =
                   [a EXCEPT !.start = TRUE, !.at = now,
                             !.state = IF reason = "eligible" THEN "start-committed" ELSE "blocked",
                             !.reason = IF reason = "eligible" THEN "start-committed" ELSE reason]],
               answer)
  <1> DEFINE b == [a EXCEPT !.start = TRUE, !.at = now,
                            !.state = IF reason = "eligible" THEN "start-committed" ELSE "blocked",
                            !.reason = IF reason = "eligible" THEN "start-committed" ELSE reason]
  <1>1. /\ a \in Attempt /\ k \in ledger.intents
        /\ a.op <= anchor.generation /\ anchor.generation \in Nat /\ a.op \in Nat
        /\ a.epoch \in 1 .. Epoch /\ Phase(ledger, k) = AttemptPhase(a)
        /\ StartedIn(ledger, k) <=> a.state = "start-committed"
        /\ \A j \in Keys \ {k} : ledger.attempts[j] # None => ledger.attempts[j].op # a.op
    BY AttemptHere
  <1>2. now \in Times /\ now \in Nat /\ ledger.last \in Nat /\ ledger.last <= now /\ ledger \in Ledger
    BY CurrentLedger, ObservedLedger
  <1>3. reason \in BlockedReasons \cup {"eligible"}
        /\ (reason = "eligible" => Reason(ledger, now, TRUE) = "eligible")
    BY <1>2, ReasonIsKnown
  <1>4. a.epoch = Epoch /\ a.state = "reserved" /\ a.held = None
    BY DEF MayStart
  <1>5. /\ b \in Attempt /\ b.op = a.op /\ b.epoch = a.epoch /\ b.at = now /\ b.held = None
        /\ b.start
        /\ b.state = (IF reason = "eligible" THEN "start-committed" ELSE "blocked")
        /\ b.reason = (IF reason = "eligible" THEN "start-committed" ELSE reason)
    <2>2. b \in Attempt
      BY <1>1, <1>2, <1>3 DEF Attempt
    <2>3. b.op = a.op /\ b.epoch = a.epoch /\ b.at = now /\ b.held = None
      BY <1>1, <1>4 DEF Attempt
    <2>4. b.start
      BY <1>1 DEF Attempt
    <2>5. /\ b.state = (IF reason = "eligible" THEN "start-committed" ELSE "blocked")
          /\ b.reason = (IF reason = "eligible" THEN "start-committed" ELSE reason)
      BY <1>1 DEF Attempt
    <2> QED BY <2>2, <2>3, <2>4, <2>5
  <1> HIDE DEF b
  <1>6. AttemptFits(b, now)
    BY <1>3, <1>5 DEF AttemptFits
  <1>7. <<Phase(ledger, k), AttemptPhase(b)>> \in Edges
    <2>1. Phase(ledger, k) = "reserved"
      BY <1>1, <1>4 DEF AttemptPhase
    <2>2. AttemptPhase(b) \in {"started", "blocked"}
      BY <1>5 DEF AttemptPhase
    <2> QED BY <2>1, <2>2 DEF Edges
  <1>8. b.at <= now /\ b.op <= anchor.generation + 1 /\ ~StartedIn(ledger, k)
    BY <1>1, <1>2, <1>4, <1>5
  <1>9. answer.launch => b.state = "start-committed"
    BY <1>5
  <1>10. b.state = "start-committed" => b.at >= ledger.last /\ Reason(ledger, b.at, TRUE) = "eligible"
    BY <1>2, <1>3, <1>5
  <1>11. Ready([Observed(now) EXCEPT !.attempts[k] = b], answer)
    <2>1. /\ k \in ledger.intents /\ b \in Attempt /\ b.epoch \in 1 .. Epoch
          /\ \A j \in Keys \ {k} : ledger.attempts[j] # None => ledger.attempts[j].op # b.op
      BY <1>1, <1>5
    <2>2. b.state = "start-committed" =>
             /\ ledger.attempts[k] # None /\ ledger.attempts[k].state = "reserved"
             /\ ledger.attempts[k].held = None /\ ledger.attempts[k].epoch = Epoch
             /\ b.at >= ledger.last /\ Reason(ledger, b.at, TRUE) = "eligible"
      BY <1>4, <1>10
    <2> QED BY <1>6, <1>7, <1>8, <1>9, <2>1, <2>2, AttemptIsReady
  <1> QED BY <1>11 DEF b

-------------------------------------------------------------------------------
(* The invariant.                                                            *)

LEMMA InitInv == ASSUME Init PROVE IInv
  <1>1. InitialLedger \in Ledger
    BY WindowAssumption DEF InitialLedger, Ledger, Times
  <1>2. LedgerIsValid(InitialLedger)
    BY FS_EmptySet, LimitAssumption DEF InitialLedger, LedgerIsValid
  <1>3. TypeOK
    <2>1. ledger \in Ledger /\ copy \in Ledger /\ poisoned \in BOOLEAN /\ tx = None
      BY <1>1 DEF Init, Enrolled
    <2>2. anchor \in [generation : 1 .. MaxGeneration, head : Ledger, intent : Ledger \cup {None}]
      BY <1>1, GenerationAssumption DEF Init, Enrolled
    <2>3. open \subseteq used /\ used \subseteq Sessions
      BY DEF Init
    <2>4. known \in [Keys -> Nat \cup {None}] /\ launched \in [Keys -> Nat]
      BY DEF Init
    <2> QED BY <2>1, <2>2, <2>3, <2>4 DEF TypeOK
  <1>4. HeadIsValid /\ TxIsSound /\ OpsUpTo(anchor.head, anchor.generation)
    BY <1>2 DEF Init, Enrolled, HeadIsValid, TxIsSound, OpsUpTo, InitialLedger
  <1>5. OneLaunch
    BY DEF Init, OneLaunch
  <1> QED BY <1>3, <1>4, <1>5 DEF IInv

\* An answer that launches nothing, or the start it belongs to.
LEMMA DeliverKeeps ==
  ASSUME TypeOK, NEW answer \in Answers, Deliver(answer)
  PROVE  /\ known' \in [Keys -> Nat \cup {None}]
         /\ launched' \in [Keys -> Nat]
         /\ \A k \in Keys : launched'[k] = launched[k]
               \/ (launched'[k] = launched[k] + 1 /\ answer.launch /\ k = answer.key)
  <1>0. known \in [Keys -> Nat \cup {None}] /\ launched \in [Keys -> Nat]
        /\ answer.launch \in BOOLEAN /\ answer.op \in Nat
    BY DEF TypeOK, Answers
  <1>1. CASE answer.session \in open
    <2> DEFINE more == IF answer.launch THEN 1 ELSE 0
    <2>1. /\ known' = [known EXCEPT ![answer.key] = answer.op]
          /\ launched' = [launched EXCEPT ![answer.key] = @ + more]
      BY <1>1 DEF Deliver
    <2>2. more \in Nat /\ (more = 0 \/ (more = 1 /\ answer.launch))
      BY <1>0
    <2> HIDE DEF more
    <2>3. known' \in [Keys -> Nat \cup {None}]
      BY <1>0, <2>1
    <2>4. ASSUME NEW k \in Keys
          PROVE  launched'[k] = IF k = answer.key THEN launched[k] + more ELSE launched[k]
      BY <1>0, <2>1
    <2>5. launched' \in [Keys -> Nat]
      <3>1. DOMAIN launched' = Keys /\ launched' = [k \in Keys |-> launched'[k]]
        BY <1>0, <2>1
      <3>2. \A k \in Keys : launched'[k] \in Nat
        BY <1>0, <2>2, <2>4
      <3> QED BY <3>1, <3>2
    <2>6. ASSUME NEW k \in Keys
          PROVE  launched'[k] = launched[k]
                   \/ (launched'[k] = launched[k] + 1 /\ answer.launch /\ k = answer.key)
      <3>1. launched[k] \in Nat
        BY <1>0
      <3>2. CASE k # answer.key
        BY <2>4, <3>2
      <3>3. CASE k = answer.key /\ more = 0
        BY <2>4, <3>1, <3>3
      <3>4. CASE k = answer.key /\ more = 1 /\ answer.launch
        BY <2>4, <3>1, <3>4
      <3> QED BY <2>2, <3>2, <3>3, <3>4
    <2> QED BY <2>3, <2>5, <2>6
  <1>2. CASE answer.session \notin open
    <2>1. known' = known /\ launched' = launched
      BY <1>2 DEF Deliver
    <2>2. \A k \in Keys : launched'[k] = launched[k]
      BY <2>1
    <2>3. known' \in [Keys -> Nat \cup {None}] /\ launched' \in [Keys -> Nat]
      BY <1>0, <2>1
    <2> QED BY <2>2, <2>3, Zenon
  <1> QED BY <1>1, <1>2

LEMMA CommitKeeps ==
  ASSUME IInv, NEW next, NEW answer, Commit(next, answer), Current => Ready(next, answer)
  PROVE  IInv' /\ anchor'.head = anchor.head /\ UNCHANGED launched
  <1>1. Current
    BY DEF Commit, Prepare, PrepareFails, Unchanged
  <1>2. /\ ledger = anchor.head /\ next \in Ledger /\ answer \in Answers
        /\ OpsUpTo(next, anchor.generation + 1) /\ Sound(anchor.head, next, answer)
        /\ tx = None
    BY <1>1, CurrentLedger DEF Ready, Current
  <1>3. CASE Prepare(next, answer) /\ UNCHANGED <<known, launched>>
    <2>1. /\ anchor'.head = anchor.head /\ anchor'.generation = anchor.generation
          /\ anchor'.intent = next /\ UNCHANGED launched
      BY <1>3 DEF Prepare, Intended, IInv, TypeOK
    <2>2. TypeOK'
      BY <1>2, <1>3 DEF Commit, Prepare, Intended, IInv, TypeOK, Answers
    <2>3. HeadIsValid' /\ OpsUpTo(anchor.head, anchor.generation)' /\ OneLaunch'
      <3>1. HeadIsValid'
        BY <2>1 DEF IInv, HeadIsValid
      <3>2. OpsUpTo(anchor.head, anchor.generation)'
        BY <2>1 DEF IInv, OpsUpTo
      <3>3. OneLaunch'
        BY <2>1 DEF IInv, OneLaunch
      <3> QED BY <3>1, <3>2, <3>3
    <2>4. TxIsSound'
      <3>1. tx'.next = next /\ tx'.answer = answer /\ anchor.generation < MaxGeneration
        BY <1>3 DEF Prepare
      <3>2. OpsUpTo(tx'.next, anchor'.generation + 1)
        BY <1>2, <2>1, <3>1
      <3>3. Sound(anchor'.head, tx'.next, tx'.answer)
        BY <1>2, <2>1, <3>1
      <3> QED BY <2>1, <3>1, <3>2, <3>3 DEF TxIsSound, OpsUpTo
    <2> QED BY <2>1, <2>2, <2>3, <2>4 DEF IInv
  <1>4. CASE PrepareFails(next) /\ UNCHANGED <<known, launched>>
    <2>1. /\ anchor'.head = anchor.head /\ anchor'.generation = anchor.generation
          /\ UNCHANGED launched /\ tx' = None
      BY <1>2, <1>4 DEF PrepareFails, Intended, IInv, TypeOK
    <2>2. TypeOK'
      BY <1>2, <1>4 DEF Commit, PrepareFails, Intended, IInv, TypeOK
    <2>3. HeadIsValid' /\ OpsUpTo(anchor.head, anchor.generation)' /\ OneLaunch'
      <3>1. HeadIsValid'
        BY <2>1 DEF IInv, HeadIsValid
      <3>2. OpsUpTo(anchor.head, anchor.generation)'
        BY <2>1 DEF IInv, OpsUpTo
      <3>3. OneLaunch'
        BY <2>1 DEF IInv, OneLaunch
      <3> QED BY <3>1, <3>2, <3>3
    <2> QED BY <2>1, <2>2, <2>3 DEF IInv, TxIsSound
  <1>5. CASE Unchanged(next) /\ Deliver(answer)
    <2>1. UNCHANGED store /\ next = anchor.head
      BY <1>2, <1>5 DEF Unchanged
    <2>2. ~answer.launch
      BY <1>2, <2>1 DEF Sound, LaunchesStart
    <2>3. known' \in [Keys -> Nat \cup {None}] /\ launched' = launched
      BY <1>2, <1>5, <2>2, DeliverKeeps DEF IInv, TypeOK
    <2>4. TypeOK'
      BY <2>1, <2>3 DEF Commit, IInv, TypeOK, store
    <2>5. HeadIsValid' /\ OpsUpTo(anchor.head, anchor.generation)' /\ OneLaunch' /\ TxIsSound'
      BY <1>2, <2>1, <2>3
      DEF IInv, HeadIsValid, OpsUpTo, OneLaunch, LedgerIsValid, AttemptIsValid, StartedIn, TxIsSound, store
    <2> QED BY <2>1, <2>3, <2>4, <2>5 DEF IInv, store
  <1> QED BY <1>3, <1>4, <1>5 DEF Commit

LEMMA CommandKeeps ==
  ASSUME IInv, NEW now \in Times, Command(now)
  PROVE  IInv' /\ anchor'.head = anchor.head /\ UNCHANGED launched
  <1>1. CASE Deny(now)
    BY <1>1, DenyIsReady, CommitKeeps DEF Deny
  <1>2. CASE Withdraw(now)
    BY <1>2, WithdrawIsReady, CommitKeeps DEF Withdraw
  <1>3. CASE WithdrawNewer(now)
    BY <1>3, WithdrawNewerIsReady, CommitKeeps DEF WithdrawNewer
  <1>4. ASSUME NEW from \in Times, Supersede(now, from)
        PROVE  IInv' /\ anchor'.head = anchor.head /\ UNCHANGED launched
    BY <1>4, SupersedeIsReady, CommitKeeps DEF Supersede
  <1>5. ASSUME NEW s \in Sessions, Activate(s, now)
        PROVE  IInv' /\ anchor'.head = anchor.head /\ UNCHANGED launched
    BY <1>5, EpochIsReady, CommitKeeps DEF Activate
  <1>6. ASSUME NEW s \in Sessions, NEW k \in Keys, ReserveAgain(s, k, now)
        PROVE  IInv' /\ anchor'.head = anchor.head /\ UNCHANGED launched
    <2> DEFINE a == ledger.attempts[k]
               next == [Observed(now) EXCEPT !.attempts[k] =
                          [a EXCEPT !.held = IF a.state = "reserved" /\ a.held = None THEN now ELSE @]]
               answer == Told(s, k, a.op, FALSE)
    <2>1. Commit(next, answer) /\ Observes(now) /\ a # None /\ a.state # "blocked"
      BY <1>6 DEF ReserveAgain
    <2>2. ASSUME Current PROVE Ready(next, answer)
      <3>1. a.op \in Nat
        BY <2>1, <2>2, AttemptHere
      <3>2. answer \in Answers /\ answer.launch = FALSE
        BY <3>1, ToldIsAnswer
      <3> HIDE DEF answer
      <3> QED BY <2>1, <2>2, <3>2, RecoveryIsReady
    <2> HIDE DEF next, answer
    <2> QED BY <2>1, <2>2, CommitKeeps
  <1>7. ASSUME NEW kept \in BOOLEAN, Register(now, kept)
        PROVE  IInv' /\ anchor'.head = anchor.head /\ UNCHANGED launched
    BY <1>7, RegisterIsReady, CommitKeeps DEF Register
  <1>8. ASSUME NEW kept \in BOOLEAN, NEW k \in Keys, PrepareIntent(k, now, kept)
        PROVE  IInv' /\ anchor'.head = anchor.head /\ UNCHANGED launched
    BY <1>8, IntentIsReady, CommitKeeps DEF PrepareIntent
  <1>9. ASSUME NEW kept \in BOOLEAN, NEW s \in Sessions, NEW k \in Keys, Reserve(s, k, now, kept)
        PROVE  IInv' /\ anchor'.head = anchor.head /\ UNCHANGED launched
    <2> DEFINE a == NewAttempt(now, Reason(ledger, now, kept))
               next == [Observed(now) EXCEPT !.attempts[k] = a]
               answer == IF a.state = "reserved" THEN Told(s, k, a.op, FALSE) ELSE NoAnswer
    <2>1. Commit(next, answer) /\ Observes(now) /\ Epoch > 0 /\ k \in ledger.intents
          /\ ledger.attempts[k] = None
      BY <1>9 DEF Reserve, Active
    <2>2. ASSUME Current PROVE Ready(next, answer)
      <3>1. a.op \in Nat
        BY <2>2, CurrentLedger DEF NewAttempt
      <3>2. answer \in Answers /\ answer.launch = FALSE
        BY <3>1, ToldIsAnswer, SilentAnswer
      <3> HIDE DEF answer
      <3> QED BY <2>1, <2>2, <3>2, ReserveIsReady
    <2> HIDE DEF next, answer
    <2> QED BY <2>1, <2>2, CommitKeeps
  <1>10. ASSUME NEW kept \in BOOLEAN, NEW s \in Sessions, NEW k \in Keys,
                CommitStart(s, k, now, kept)
         PROVE  IInv' /\ anchor'.head = anchor.head /\ UNCHANGED launched
    <2> DEFINE a == ledger.attempts[k]
               reason == Reason(ledger, now, kept)
               starts == reason = "eligible"
               next == [Observed(now) EXCEPT !.attempts[k] =
                          [a EXCEPT !.start = TRUE, !.at = now,
                                    !.state = IF starts THEN "start-committed" ELSE "blocked",
                                    !.reason = IF starts THEN "start-committed" ELSE reason]]
               answer == Told(s, k, a.op, starts)
    <2>1. Commit(next, answer) /\ Observes(now) /\ a # None /\ MayStart(a)
      BY <1>10 DEF CommitStart
    <2>2. ASSUME Current PROVE Ready(next, answer)
      <3>1. a.op \in Nat
        BY <2>1, <2>2, AttemptHere
      <3>2. answer \in Answers /\ answer.launch = starts /\ answer.key = k
        BY <3>1, ToldIsAnswer
      <3>3. answer.launch => reason = "eligible"
        BY <3>2
      <3> HIDE DEF answer, a, reason
      <3>4. /\ a = ledger.attempts[k] /\ reason = Reason(ledger, now, kept)
            /\ next = [Observed(now) EXCEPT !.attempts[k] =
                 [a EXCEPT !.start = TRUE, !.at = now,
                           !.state = IF reason = "eligible" THEN "start-committed" ELSE "blocked",
                           !.reason = IF reason = "eligible" THEN "start-committed" ELSE reason]]
        BY DEF a, reason
      <3>5. Ready([Observed(now) EXCEPT !.attempts[k] =
                    [a EXCEPT !.start = TRUE, !.at = now,
                              !.state = IF reason = "eligible" THEN "start-committed" ELSE "blocked",
                              !.reason = IF reason = "eligible" THEN "start-committed" ELSE reason]], answer)
        <4>1. a # None /\ MayStart(a) /\ Observes(now) /\ Current
          BY <2>1, <2>2
        <4>2. a = ledger.attempts[k] /\ reason = Reason(ledger, now, kept)
          BY DEF a, reason
        <4>3. answer \in Answers /\ answer.key = k /\ (answer.launch => reason = "eligible")
          BY <3>2, <3>3
        <4> QED BY <4>1, <4>2, <4>3, StartIsReady
      <3> HIDE DEF next
      <3> QED BY <3>4, <3>5
    <2> HIDE DEF next, answer
    <2> QED BY <2>1, <2>2, CommitKeeps
  <1> QED BY <1>1, <1>2, <1>3, <1>4, <1>5, <1>6, <1>7, <1>8, <1>9, <1>10 DEF Command

\* The last durable step, whether its answer is delivered or not.
LEMMA AdvanceKeeps ==
  ASSUME IInv, tx # None, tx' = None, anchor' = Advanced(tx.next),
         launched' \in [Keys -> Nat],
         \A k \in Keys : launched'[k] = launched[k]
            \/ (launched'[k] = launched[k] + 1 /\ tx.answer.launch /\ k = tx.answer.key)
  PROVE  /\ anchor' \in [generation : 1 .. MaxGeneration, head : Ledger, intent : Ledger \cup {None}]
         /\ HeadIsValid' /\ OpsUpTo(anchor.head, anchor.generation)' /\ TxIsSound' /\ OneLaunch'
  <1>1. /\ tx.next \in Ledger /\ anchor.generation \in 1 .. MaxGeneration
        /\ anchor.generation < MaxGeneration
        /\ OpsUpTo(tx.next, anchor.generation + 1) /\ Sound(anchor.head, tx.next, tx.answer)
    BY DEF IInv, TypeOK, TxIsSound
  <1>2. anchor'.generation = anchor.generation + 1 /\ anchor'.head = tx.next /\ anchor'.intent = None
    BY DEF Advanced
  <1>3. anchor' \in [generation : 1 .. MaxGeneration, head : Ledger, intent : Ledger \cup {None}]
    BY <1>1, GenerationAssumption DEF Advanced
  <1>4. LedgerIsValid(anchor'.head) /\ OpsUpTo(anchor'.head, anchor'.generation)
    BY <1>1, <1>2 DEF Sound
  <1>5. HeadIsValid' /\ OpsUpTo(anchor.head, anchor.generation)'
    BY <1>4 DEF HeadIsValid, OpsUpTo, LedgerIsValid, AttemptIsValid
  <1>6. ASSUME NEW k \in Keys
        PROVE  launched'[k] <= 1 /\ (launched'[k] = 1 => StartedIn(anchor'.head, k))
    <2>1. launched[k] \in Nat /\ launched[k] <= 1 /\ (launched[k] = 1 => StartedIn(anchor.head, k))
      BY DEF IInv, TypeOK, OneLaunch
    <2>2. StartedIn(anchor.head, k) => StartedIn(anchor'.head, k)
      BY <1>1, <1>2 DEF Sound, StartsKept
    <2>3. CASE launched'[k] = launched[k]
      BY <2>1, <2>2, <2>3
    <2>4. CASE launched'[k] = launched[k] + 1 /\ tx.answer.launch /\ k = tx.answer.key
      <3>1. ~StartedIn(anchor.head, k) /\ StartedIn(anchor'.head, k)
        BY <1>1, <1>2, <2>4 DEF Sound, LaunchesStart
      <3> QED BY <2>1, <2>4, <3>1
    <2> QED BY <2>3, <2>4
  <1> QED BY <1>3, <1>5, <1>6 DEF TxIsSound, OneLaunch, StartedIn

LEMMA NextInv == ASSUME IInv, [Next]_vars PROVE IInv'
  <1> USE DEF store
  <1>1. CASE \E now \in Times : Command(now)
    BY <1>1, CommandKeeps
  <1>2. CASE RequestChanges
    BY <1>2, ReviewIsReady, CommitKeeps DEF RequestChanges
  <1>3. ASSUME NEW s \in Sessions, NEW k \in Keys, History(s, k)
        PROVE  IInv'
    <2>1. ledger.attempts[k].op \in Nat
      BY <1>3, AttemptHere DEF History
    <2>2. UNCHANGED <<store, open, used, launched>> /\ known' \in [Keys -> Nat \cup {None}]
      BY <1>3, <2>1 DEF History, IInv, TypeOK
    <2> QED BY <2>2 DEF IInv, TypeOK, HeadIsValid, OpsUpTo, TxIsSound, OneLaunch
  <1>4. ASSUME NEW s \in Sessions, Open(s) \/ Close(s)
        PROVE  IInv'
    BY <1>4 DEF Open, Close, IInv, TypeOK, HeadIsValid, OpsUpTo, TxIsSound, OneLaunch
  <1>5. CASE StoreLedger /\ UNCHANGED <<open, used, known, launched>>
    <2>1. tx'.next = tx.next /\ tx'.answer = tx.answer /\ tx # None /\ tx.next \in Ledger
          /\ UNCHANGED <<copy, anchor, poisoned, open, used, known, launched>>
      BY <1>5 DEF StoreLedger, IInv, TypeOK
    <2>2. TypeOK'
      BY <1>5, <2>1 DEF StoreLedger, IInv, TypeOK
    <2>3. TxIsSound'
      BY <2>1 DEF IInv, TxIsSound, OpsUpTo, Sound
    <2> QED BY <2>1, <2>2, <2>3 DEF IInv, HeadIsValid, OpsUpTo, OneLaunch
  <1>6. CASE Break /\ UNCHANGED <<open, used, known, launched>>
    <2>1. tx # None /\ tx' = None /\ tx.next \in Ledger
      BY <1>6 DEF Break, IInv, TypeOK
    <2>2. CASE UNCHANGED anchor
      <3>1. TypeOK'
        BY <1>6, <2>1, <2>2 DEF Break, IInv, TypeOK
      <3> QED BY <1>6, <2>1, <2>2, <3>1 DEF IInv, HeadIsValid, OpsUpTo, TxIsSound, OneLaunch
    <2>3. CASE anchor' = Advanced(tx.next) /\ UNCHANGED ledger
      <3>1. /\ launched' \in [Keys -> Nat]
            /\ \A k \in Keys : launched'[k] = launched[k]
                  \/ (launched'[k] = launched[k] + 1 /\ tx.answer.launch /\ k = tx.answer.key)
        <4>1. launched' = launched
          BY <1>6
        <4>2. launched' \in [Keys -> Nat]
          BY <4>1 DEF IInv, TypeOK
        <4>3. \A k \in Keys : launched'[k] = launched[k]
          BY <4>1
        <4> QED BY <4>2, <4>3, Zenon
      <3>2. /\ anchor' \in [generation : 1 .. MaxGeneration, head : Ledger, intent : Ledger \cup {None}]
            /\ HeadIsValid' /\ OpsUpTo(anchor.head, anchor.generation)' /\ TxIsSound' /\ OneLaunch'
        BY <2>1, <2>3, <3>1, AdvanceKeeps
      <3>3. TypeOK'
        BY <1>6, <2>1, <2>3, <3>2 DEF Break, IInv, TypeOK
      <3> QED BY <3>2, <3>3 DEF IInv
    <2> QED BY <1>6, <2>2, <2>3 DEF Break
  <1>7. CASE (KeepCopy \/ PutCopyBack) /\ UNCHANGED <<open, used, known, launched>>
    BY <1>7 DEF KeepCopy, PutCopyBack, IInv, TypeOK, HeadIsValid, OpsUpTo, TxIsSound, OneLaunch
  <1>8. CASE Finish
    <2>1. tx # None /\ tx' = None /\ anchor' = Advanced(tx.next) /\ tx.answer \in Answers
          /\ Deliver(tx.answer) /\ UNCHANGED <<ledger, copy, poisoned, open, used>>
      BY <1>8 DEF Finish, Settle, IInv, TypeOK, Answers
    <2>2. /\ known' \in [Keys -> Nat \cup {None}] /\ launched' \in [Keys -> Nat]
          /\ \A k \in Keys : launched'[k] = launched[k]
                \/ (launched'[k] = launched[k] + 1 /\ tx.answer.launch /\ k = tx.answer.key)
      BY <2>1, DeliverKeeps DEF IInv
    <2>3. /\ anchor' \in [generation : 1 .. MaxGeneration, head : Ledger, intent : Ledger \cup {None}]
          /\ HeadIsValid' /\ OpsUpTo(anchor.head, anchor.generation)' /\ TxIsSound' /\ OneLaunch'
      BY <2>1, <2>2, AdvanceKeeps
    <2>4. TypeOK'
      BY <2>1, <2>2, <2>3 DEF IInv, TypeOK
    <2> QED BY <2>3, <2>4 DEF IInv
  <1>9. CASE DeskRestarts
    BY <1>9 DEF DeskRestarts, Restart, IInv, TypeOK, HeadIsValid, OpsUpTo, TxIsSound, OneLaunch
  <1>10. CASE UNCHANGED vars
    BY <1>10 DEF vars, IInv, TypeOK, HeadIsValid, OpsUpTo, TxIsSound, OneLaunch
  <1> QED BY <1>1, <1>2, <1>3, <1>4, <1>5, <1>6, <1>7, <1>8, <1>9, <1>10 DEF Next, Storage

LEMMA Inductive == Spec => []IInv
  <1>1. Init => IInv
    BY InitInv
  <1>2. IInv /\ [Next]_vars => IInv'
    BY NextInv
  <1> QED BY <1>1, <1>2, PTL DEF Spec

\* Every variable keeps its type, and the anchor its bound.
THEOREM TypeCorrect == Spec => []TypeOK
  <1>1. IInv => TypeOK
    BY DEF IInv
  <1> QED BY <1>1, Inductive, PTL

\* No command, in any order and at any time, makes a current ledger that the
\* validation of execution state refuses.
THEOREM HeadAlwaysValid == Spec => []HeadIsValid
  <1>1. IInv => HeadIsValid
    BY DEF IInv
  <1> QED BY <1>1, Inductive, PTL

\* An intent is launched at most once, and never without a current record.
THEOREM LaunchedOnce == Spec => []OneLaunch
  <1>1. IInv => OneLaunch
    BY DEF IInv
  <1> QED BY <1>1, Inductive, PTL

-------------------------------------------------------------------------------
(* What a step may do to the current ledger.                                 *)

\* The launches that an answer of this step can bring.
LaunchesOf(answer) ==
    \A k \in Keys : launched'[k] = launched[k]
        \/ (launched'[k] = launched[k] + 1 /\ answer.launch /\ k = answer.key)

\* The current ledger changes only in the last durable step of a transaction.
LEMMA HeadStep ==
  ASSUME IInv, [Next]_vars
  PROVE  \/ anchor'.head = anchor.head /\ launched' = launched
         \/ /\ anchor'.head = tx.next /\ tx.next \in Ledger
            /\ Sound(anchor.head, tx.next, tx.answer)
            /\ LaunchesOf(tx.answer)
  <1> USE DEF store
  <1>1. CASE \E now \in Times : Command(now)
    BY <1>1, CommandKeeps
  <1>2. CASE RequestChanges
    BY <1>2, ReviewIsReady, CommitKeeps DEF RequestChanges
  <1>3. CASE \/ \E s \in Sessions, k \in Keys : History(s, k)
             \/ \E s \in Sessions : Open(s) \/ Close(s)
             \/ DeskRestarts
             \/ UNCHANGED vars
    BY <1>3 DEF History, Open, Close, DeskRestarts, Restart, vars
  <1>4. CASE Storage
    <2>1. CASE StoreLedger \/ KeepCopy \/ PutCopyBack
      BY <1>4, <2>1 DEF Storage, StoreLedger, KeepCopy, PutCopyBack
    <2>2. CASE Break
      <3>1. launched' = launched
        BY <1>4 DEF Storage
      <3>2. LaunchesOf(tx.answer)
        BY <3>1, Zenon DEF LaunchesOf
      <3>3. tx # None /\ tx.next \in Ledger /\ Sound(anchor.head, tx.next, tx.answer)
        BY <2>2 DEF Break, IInv, TypeOK, TxIsSound
      <3>4. anchor' = anchor \/ anchor'.head = tx.next
        BY <2>2 DEF Break, Advanced
      <3> QED BY <3>1, <3>2, <3>3, <3>4
    <2> QED BY <1>4, <2>1, <2>2 DEF Storage
  <1>5. CASE Finish
    <2>1. tx # None /\ anchor'.head = tx.next /\ tx.answer \in Answers /\ Deliver(tx.answer)
          /\ tx.next \in Ledger
      BY <1>5 DEF Finish, Settle, Advanced, IInv, TypeOK, Answers
    <2>2. LaunchesOf(tx.answer)
      BY <2>1, DeliverKeeps DEF IInv, LaunchesOf
    <2> QED BY <2>1, <2>2 DEF IInv, TxIsSound
  <1> QED BY <1>1, <1>2, <1>3, <1>4, <1>5 DEF Next

\* A start becomes current only when the ledger it replaces permits it.
THEOREM StartsArePermitted == Spec => StartIsPermitted
  <1> DEFINE A == \A k \in Keys : StartedIn(anchor'.head, k) /\ ~StartedIn(anchor.head, k) =>
                    LET before == anchor.head
                        at     == anchor'.head.attempts[k].at
                    IN  /\ before.attempts[k] # None
                        /\ before.attempts[k].state = "reserved"
                        /\ before.attempts[k].held = None
                        /\ before.attempts[k].epoch = Len(before.epochs)
                        /\ at >= before.last
                        /\ Reason(before, at, TRUE) = "eligible"
  <1>1. ASSUME IInv, [Next]_vars PROVE A
    <2>1. CASE anchor'.head = anchor.head
      BY <2>1
    <2>2. CASE anchor'.head = tx.next /\ Sound(anchor.head, tx.next, tx.answer)
      BY <2>2, Zenon DEF Sound, StartsPermitted, StartPermitted
    <2> QED BY <1>1, <2>1, <2>2, HeadStep
  <1> HIDE DEF A
  <1>2. IInv /\ [Next]_vars => [A]_vars
    BY <1>1
  <1>3. [][A]_vars => StartIsPermitted
    BY DEF A, StartIsPermitted
  <1> QED BY <1>2, <1>3, Inductive, PTL DEF Spec

\* What is over at the retained time is over in every later current ledger.
THEOREM OverForGood == Spec => OverStaysOver
  <1>1. ASSUME IInv, [Next]_vars
        PROVE  IsOver(anchor.head) => IsOver(anchor'.head)
    <2>1. CASE anchor'.head = anchor.head
      BY <2>1
    <2>2. CASE anchor'.head = tx.next /\ Sound(anchor.head, tx.next, tx.answer)
      BY <2>2, Zenon DEF Sound
    <2> QED BY <1>1, <2>1, <2>2, HeadStep
  <1>2. IInv /\ [Next]_vars => [IsOver(anchor.head) => IsOver(anchor'.head)]_vars
    BY <1>1
  <1> QED BY <1>2, Inductive, PTL DEF Spec, OverStaysOver

-------------------------------------------------------------------------------
(* The refinement.                                                           *)

LEMMA StartedPhase ==
  ASSUME NEW l \in Ledger, LedgerIsValid(l), NEW k \in Keys
  PROVE  StartedIn(l, k) <=> Phase(l, k) = "started"
  <1>1. l.attempts[k] # None => k \in l.intents
    BY DEF LedgerIsValid, AttemptIsValid
  <1> QED BY <1>1 DEF StartedIn, Phase

Phases(l) == [k \in Keys |-> Phase(l, k)]
Launches  == {k \in Keys : launched[k] > 0}

\* A sound change of the current ledger is a step of PolicyStarts.
LEMMA SoundStep ==
  ASSUME IInv, NEW l \in Ledger, NEW n \in Ledger, NEW answer, LedgerIsValid(l),
         Sound(l, n, answer), LaunchesOf(answer)
  PROVE  \/ Phases(n) = Phases(l) /\ Launches' = Launches
         \/ \E k \in Keys : /\ Phases(n) = [Phases(l) EXCEPT ![k] = Phase(n, k)]
                            /\ <<Phase(l, k), Phase(n, k)>> \in Edges
                            /\ \/ Launches' = Launches
                               \/ /\ Phase(n, k) = "started"
                                  /\ Launches' = Launches \cup {k}
  <1>1. \A k \in Keys : launched[k] \in Nat
    BY DEF IInv, TypeOK
  <1>2. LedgerIsValid(n) /\ PhaseStep(l, n) /\ LaunchesStart(l, n, answer)
    BY DEF Sound
  <1>3. ASSUME NEW k \in Keys, launched'[k] # launched[k]
        PROVE  Phase(l, k) # "started" /\ Phase(n, k) = "started"
    <2>1. answer.launch /\ k = answer.key
      BY <1>3 DEF LaunchesOf
    <2>2. ~StartedIn(l, k) /\ StartedIn(n, k)
      BY <1>2, <2>1, Zenon DEF LaunchesStart
    <2> QED BY <1>2, <2>2, StartedPhase
  <1>4. CASE \A k \in Keys : Phase(n, k) = Phase(l, k)
    <2>1. \A k \in Keys : launched'[k] = launched[k]
      BY <1>3, <1>4
    <2> QED BY <1>4, <2>1 DEF Phases, Launches
  <1>5. ASSUME NEW k \in Keys,
               \A j \in Keys \ {k} : Phase(n, j) = Phase(l, j),
               <<Phase(l, k), Phase(n, k)>> \in Edges
        PROVE  /\ Phases(n) = [Phases(l) EXCEPT ![k] = Phase(n, k)]
               /\ \/ Launches' = Launches
                  \/ Phase(n, k) = "started" /\ Launches' = Launches \cup {k}
    <2>1. Phases(n) = [Phases(l) EXCEPT ![k] = Phase(n, k)]
      BY <1>5 DEF Phases
    <2>2. \A j \in Keys \ {k} : launched'[j] = launched[j]
      BY <1>3, <1>5
    <2>3. CASE launched'[k] = launched[k]
      <3>1. \A j \in Keys : launched'[j] = launched[j]
        BY <2>2, <2>3
      <3> QED BY <2>1, <3>1 DEF Launches
    <2>4. CASE launched'[k] # launched[k]
      <3>1. Phase(n, k) = "started"
        BY <1>3, <2>4
      <3>2. launched'[k] > 0
        BY <1>1, <2>4 DEF LaunchesOf
      <3>3. Launches' = Launches \cup {k}
        BY <2>2, <3>2 DEF Launches
      <3> QED BY <2>1, <3>1, <3>3
    <2> QED BY <2>3, <2>4
  <1> QED BY <1>2, <1>4, <1>5, Zenon DEF PhaseStep

\* Desk implements PolicyStarts over its current ledgers.
THEOREM StartsOnceImplemented == Spec => StartsOnce
  <1>1. Init => Starts!Init
    <2> SUFFICES ASSUME Init PROVE Starts!Init
      OBVIOUS
    <2>1. \A k \in Keys : Phase(anchor.head, k) = "none" /\ launched[k] = 0
      BY DEF Init, Enrolled, InitialLedger, Phase
    <2> QED BY <2>1 DEF Starts!Init
  <1>2. ASSUME IInv, [Next]_vars
        PROVE  [Starts!Next]_<<[k \in Keys |-> Phase(anchor.head, k)], {k \in Keys : launched[k] > 0}>>
    <2>1. anchor.head \in Ledger /\ LedgerIsValid(anchor.head)
      BY <1>2 DEF IInv, TypeOK, HeadIsValid
    <2>2. CASE anchor'.head = anchor.head /\ launched' = launched
      <3>1. \A k \in Keys : Phase(anchor'.head, k) = Phase(anchor.head, k)
        BY <2>2
      <3> QED BY <2>2, <3>1 DEF Phase
    <2>3. CASE /\ anchor'.head = tx.next /\ tx.next \in Ledger
               /\ Sound(anchor.head, tx.next, tx.answer)
               /\ LaunchesOf(tx.answer)
      <3> DEFINE l == anchor.head
                 n == tx.next
      <3>1. Phases(n) = [k \in Keys |-> Phase(anchor.head, k)]'
        BY <2>3 DEF Phases, Phase
      <3>2. Phases(l) = [k \in Keys |-> Phase(anchor.head, k)]
        BY DEF Phases
      <3>3. CASE Phases(n) = Phases(l) /\ Launches' = Launches
        BY <3>1, <3>2, <3>3 DEF Launches
      <3>4. ASSUME NEW k \in Keys,
                   Phases(n) = [Phases(l) EXCEPT ![k] = Phase(n, k)],
                   <<Phase(l, k), Phase(n, k)>> \in Edges,
                   \/ Launches' = Launches
                   \/ Phase(n, k) = "started" /\ Launches' = Launches \cup {k}
            PROVE  Starts!Next
        <4>1. Phases(l)[k] = Phase(l, k)
          BY DEF Phases
        <4> QED
          BY <3>1, <3>2, <3>4, <4>1
          DEF Edges, Launches, Starts!Next, Starts!Prepare, Starts!Reserve, Starts!Seal,
              Starts!Block, Starts!Start, Starts!Moves
      <3>5. \/ Phases(n) = Phases(l) /\ Launches' = Launches
            \/ \E k \in Keys : /\ Phases(n) = [Phases(l) EXCEPT ![k] = Phase(n, k)]
                               /\ <<Phase(l, k), Phase(n, k)>> \in Edges
                               /\ \/ Launches' = Launches
                                  \/ /\ Phase(n, k) = "started"
                                     /\ Launches' = Launches \cup {k}
        BY <1>2, <2>1, <2>3, SoundStep
      <3> QED BY <3>3, <3>4, <3>5
    <2> QED BY <1>2, <2>2, <2>3, HeadStep
  <1> QED BY <1>1, <1>2, Inductive, PTL DEF Spec, StartsOnce, Starts!Spec
=============================================================================
