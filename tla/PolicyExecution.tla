-------------------------- MODULE PolicyExecution --------------------------
(* Manual execution of one registered job under a Policy: intents that a     *)
(* local administrator prepares, and the sessions in which a Runner reserves *)
(* them, asks for the start and learns the decision.  Every decision is one  *)
(* anchored transaction of the Policy ledger, as the lifecycle of the        *)
(* releases it depends on is: one release that the job's adoption approved,  *)
(* and a newer one that may supersede it.                                    *)
(*                                                                           *)
(* The host clock is read inside each transaction and may be set to anything *)
(* at any moment.  A request that repeats a binding wrongly - another body,  *)
(* resource, payload or challenge - is refused as every other denial is: it  *)
(* leaves the time that was observed, and nothing else.                      *)
EXTENDS PolicyAuthority, Sequences, FiniteSets

CONSTANTS Keys,         \* idempotency keys: one intent each
          Sessions,     \* authority channels, each with ids of its own
          MaxTime,      \* bound of the host clock, in seconds
          From, Until,  \* the adopted release is effective from .. until
          EpochLimit,   \* policyExecutionEpochLimit
          IntentLimit   \* policyExecutionIntentLimit

ASSUME WindowAssumption == /\ MaxTime \in Nat
                           /\ From \in Nat
                           /\ Until \in Nat
                           /\ From < Until
ASSUME LimitAssumption == /\ EpochLimit \in Nat
                          /\ IntentLimit \in Nat
                          /\ IsFiniteSet(Keys)

VARIABLES open,      \* sessions whose channel stands, the Runner's lease held
          used,      \* sessions that were ever opened
          known,     \* the operation a Runner was told for an intent, or None
          launched   \* how often a Runner launched an intent

vars == <<store, open, used, known, launched>>

Times == 0 .. MaxTime

BlockedReasons == {"dependency-unavailable", "adoption-changes-requested", "withdrawn",
                   "expired", "superseded", "not-effective"}

Attempt == [op : Nat, epoch : Nat, at : Times, held : Times \cup {None}, start : BOOLEAN,
            state : {"reserved", "start-committed", "blocked"},
            reason : BlockedReasons \cup {"reserved", "start-committed"}]
Newer   == [from : Times, withdrawn : Times \cup {None}]
Ledger  == [last : Times, epochs : Seq(Sessions), registered : BOOLEAN, intents : SUBSET Keys,
            attempts : [Keys -> Attempt \cup {None}],
            changes : BOOLEAN, withdrawn : BOOLEAN, newer : Newer \cup {None}]

ASSUME NoneAssumption == None \notin Times /\ None \notin Attempt /\ None \notin Newer

InitialLedger ==
    [last |-> 0, epochs |-> << >>, registered |-> FALSE, intents |-> {},
     attempts |-> [k \in Keys |-> None],
     changes |-> FALSE, withdrawn |-> FALSE, newer |-> None]

----------------------------------------------------------------------------
(* What a ledger says of the release, at a time.                            *)

\* Mutant: a newer release that is withdrawn gives way to the older one again.
SupersededUntilWithdrawn(l, now) ==
    l.newer # None /\ now >= l.newer.from /\ l.newer.withdrawn = None

\* The newer release takes over at its time, unless it was withdrawn before.
Superseded(l, now) ==
    /\ l.newer # None
    /\ now >= l.newer.from
    /\ l.newer.withdrawn = None \/ l.newer.withdrawn >= l.newer.from

Status(l, now) ==
    CASE l.withdrawn                                       -> "withdrawn"
      [] ~l.withdrawn /\ now >= Until                      -> "expired"
      [] ~l.withdrawn /\ now < Until /\ Superseded(l, now) -> "superseded"
      [] OTHER -> IF now >= From THEN "effective" ELSE "not-effective"

\* kept: what the registration retained can still be read.
Reason(l, now, kept) ==
    CASE ~kept             -> "dependency-unavailable"
      [] kept /\ l.changes -> "adoption-changes-requested"
      [] OTHER             -> IF Status(l, now) = "effective" THEN "eligible" ELSE Status(l, now)

----------------------------------------------------------------------------
(* One transaction.                                                         *)

Observed(now) == [ledger EXCEPT !.last = now]

\* Mutant: the clock is taken as it is.
ObservesAnyTime(now) == now \in Times

\* A command observes a time no earlier than any before it.
Observes(now) == now \in Times /\ now >= ledger.last

NoAnswer == [session |-> None, key |-> None, op |-> 0, launch |-> FALSE]

\* An answer reaches the Runner where its channel still stands.  Only a fresh
\* committed start launches.
Deliver(answer) ==
    IF answer.session \in open
    THEN /\ known' = [known EXCEPT ![answer.key] = answer.op]
         /\ launched' = [launched EXCEPT ![answer.key] = @ + (IF answer.launch THEN 1 ELSE 0)]
    ELSE UNCHANGED <<known, launched>>

Commit(next, answer) ==
    /\ UNCHANGED <<open, used>>
    /\ \/ (Prepare(next, answer) \/ PrepareFails(next)) /\ UNCHANGED <<known, launched>>
       \/ Unchanged(next) /\ Deliver(answer)

\* Every denial, and an answer that repeats what was decided without a word
\* the Runner did not have: the time observed is all that is retained.
Deny(now) == Observes(now) /\ Commit(Observed(now), NoAnswer)

Epoch     == Len(ledger.epochs)
Active(s) == s \in open /\ Epoch > 0 /\ ledger.epochs[Epoch] = s

Register(now, kept) ==
    /\ Observes(now)
    /\ ~ledger.registered
    /\ Reason(ledger, now, kept) = "eligible"
    /\ Commit([Observed(now) EXCEPT !.registered = TRUE], NoAnswer)

PrepareIntent(k, now, kept) ==
    /\ Observes(now)
    /\ ledger.registered
    /\ k \notin ledger.intents
    /\ Cardinality(ledger.intents) < IntentLimit
    /\ Reason(ledger, now, kept) = "eligible"
    /\ Commit([Observed(now) EXCEPT !.intents = @ \cup {k}], NoAnswer)

Activate(s, now) ==
    /\ Observes(now)
    /\ s \in open
    /\ \A e \in 1 .. Epoch : ledger.epochs[e] # s
    /\ Epoch < EpochLimit
    /\ Commit([Observed(now) EXCEPT !.epochs = Append(@, s)], NoAnswer)

\* An operation's name is drawn at random; the generation it is first recorded
\* in is as unique.
NewAttempt(now, reason) ==
    [op |-> anchor.generation + 1, epoch |-> Epoch, at |-> now, held |-> None, start |-> FALSE,
     state |-> IF reason = "eligible" THEN "reserved" ELSE "blocked",
     reason |-> IF reason = "eligible" THEN "reserved" ELSE reason]

Told(s, k, op, launch) == [session |-> s, key |-> k, op |-> op, launch |-> launch]

\* Mutant: a new session takes up what an older one had reserved.
ReserveAnew(s, k, now, kept) ==
    LET a == NewAttempt(now, Reason(ledger, now, kept))
    IN  /\ Observes(now)
        /\ Active(s)
        /\ k \in ledger.intents
        /\ ledger.attempts[k] # None => ledger.attempts[k].epoch # Epoch
        /\ Commit([Observed(now) EXCEPT !.attempts[k] = a],
                  IF a.state = "reserved" THEN Told(s, k, a.op, FALSE) ELSE NoAnswer)

Reserve(s, k, now, kept) ==
    LET a == NewAttempt(now, Reason(ledger, now, kept))
    IN  /\ Observes(now)
        /\ Active(s)
        /\ k \in ledger.intents
        /\ ledger.attempts[k] = None
        /\ Commit([Observed(now) EXCEPT !.attempts[k] = a],
                  IF a.state = "reserved" THEN Told(s, k, a.op, FALSE) ELSE NoAnswer)

\* The session that reserved asks again: it is told what it was told before,
\* and an operation that had not started never will.
ReserveAgain(s, k, now) ==
    LET a == ledger.attempts[k]
    IN  /\ Observes(now)
        /\ Active(s)
        /\ a # None
        /\ a.epoch = Epoch
        /\ a.state # "blocked"
        /\ Commit([Observed(now) EXCEPT !.attempts[k] =
                      [a EXCEPT !.held = IF a.state = "reserved" /\ a.held = None THEN now ELSE @]],
                  Told(s, k, a.op, FALSE))

\* Mutant: a reservation that was recovered may still be started.
MayStartRecovered(a) == a.epoch = Epoch /\ a.state = "reserved"

MayStart(a) == a.epoch = Epoch /\ a.state = "reserved" /\ a.held = None

CommitStart(s, k, now, kept) ==
    LET a      == ledger.attempts[k]
        reason == Reason(ledger, now, kept)
        starts == reason = "eligible"
    IN  /\ Observes(now)
        /\ Active(s)
        /\ a # None
        /\ MayStart(a)
        /\ known[k] = a.op
        /\ Commit([Observed(now) EXCEPT !.attempts[k] =
                      [a EXCEPT !.start = TRUE, !.at = now,
                                !.state = IF starts THEN "start-committed" ELSE "blocked",
                                !.reason = IF starts THEN "start-committed" ELSE reason]],
                  Told(s, k, a.op, starts))

\* A reading of the current ledger: it tells a Runner the operation.
History(s, k) ==
    /\ Current
    /\ Active(s)
    /\ ledger.attempts[k] # None
    /\ known' = [known EXCEPT ![k] = ledger.attempts[k].op]
    /\ UNCHANGED <<store, open, used, launched>>

----------------------------------------------------------------------------
(* The releases, and the review of the adoption.                            *)

Withdraw(now) ==
    /\ Observes(now)
    /\ ~ledger.withdrawn
    /\ Commit([Observed(now) EXCEPT !.withdrawn = TRUE], NoAnswer)

\* No activation is backdated.
Supersede(now, from) ==
    /\ Observes(now)
    /\ ledger.newer = None
    /\ from >= now
    /\ Commit([Observed(now) EXCEPT !.newer = [from |-> from, withdrawn |-> None]], NoAnswer)

WithdrawNewer(now) ==
    /\ Observes(now)
    /\ ledger.newer # None
    /\ ledger.newer.withdrawn = None
    /\ Commit([Observed(now) EXCEPT !.newer = [@ EXCEPT !.withdrawn = now]], NoAnswer)

\* A review is not an execution command: it observes no time.
RequestChanges ==
    /\ ~ledger.changes
    /\ Commit([ledger EXCEPT !.changes = TRUE], NoAnswer)

----------------------------------------------------------------------------
(* Channels, processes and the owner of the folder.                         *)

Open(s) ==
    /\ s \notin used
    /\ open' = open \cup {s}
    /\ used' = used \cup {s}
    /\ UNCHANGED <<store, known, launched>>

\* The Runner ends, or a frame of the channel is lost either way.
Close(s) ==
    /\ s \in open
    /\ open' = open \ {s}
    /\ UNCHANGED <<store, used, known, launched>>

Finish ==
    /\ Settle
    /\ Deliver(tx.answer)
    /\ UNCHANGED <<open, used>>

DeskRestarts ==
    /\ Restart
    /\ open' = {}
    /\ UNCHANGED <<used, known, launched>>

Storage ==
    /\ StoreLedger \/ Break \/ KeepCopy \/ PutCopyBack
    /\ UNCHANGED <<open, used, known, launched>>

Init ==
    /\ Enrolled(InitialLedger)
    /\ open = {}
    /\ used = {}
    /\ known = [k \in Keys |-> None]
    /\ launched = [k \in Keys |-> 0]

Command(now) ==
    \/ Deny(now)
    \/ Withdraw(now)
    \/ WithdrawNewer(now)
    \/ \E from \in Times : Supersede(now, from)
    \/ \E s \in Sessions : Activate(s, now)
    \/ \E s \in Sessions, k \in Keys : ReserveAgain(s, k, now)
    \/ \E kept \in BOOLEAN :
         \/ Register(now, kept)
         \/ \E k \in Keys : PrepareIntent(k, now, kept)
         \/ \E s \in Sessions, k \in Keys : Reserve(s, k, now, kept) \/ CommitStart(s, k, now, kept)

Next ==
    \/ \E now \in Times : Command(now)
    \/ RequestChanges
    \/ \E s \in Sessions, k \in Keys : History(s, k)
    \/ \E s \in Sessions : Open(s) \/ Close(s)
    \/ Storage \/ Finish \/ DeskRestarts

Spec == Init /\ [][Next]_vars

----------------------------------------------------------------------------
(* Properties.                                                              *)

\* The state is what the code's types say.
TypeOK ==
    /\ ledger \in Ledger
    /\ copy \in Ledger
    /\ anchor \in [generation : 1 .. MaxGeneration, head : Ledger, intent : Ledger \cup {None}]
    /\ poisoned \in BOOLEAN
    /\ \/ tx = None
       \/ tx \in [next : Ledger, stored : BOOLEAN,
                  answer : [session : Sessions \cup {None}, key : Keys \cup {None}, op : Nat, launch : BOOLEAN]]
    /\ open \subseteq used
    /\ used \subseteq Sessions
    /\ known \in [Keys -> Nat \cup {None}]
    /\ launched \in [Keys -> Nat]

AttemptIsValid(l, k) ==
    LET a == l.attempts[k]
    IN  /\ k \in l.intents
        /\ a.epoch \in 1 .. Len(l.epochs)
        /\ a.at <= l.last
        /\ \A j \in Keys \ {k} : l.attempts[j] # None => l.attempts[j].op # a.op
        /\ a.held # None => a.state = "reserved" /\ a.at <= a.held /\ a.held <= l.last
        /\ CASE a.state = "reserved"        -> ~a.start /\ a.reason = "reserved"
             [] a.state = "start-committed" -> a.start /\ a.reason = "start-committed"
             [] a.state = "blocked"         -> a.reason \in BlockedReasons

LedgerIsValid(l) ==
    /\ Len(l.epochs) <= EpochLimit
    /\ \A d, e \in 1 .. Len(l.epochs) : d # e => l.epochs[d] # l.epochs[e]
    /\ Cardinality(l.intents) <= IntentLimit
    /\ l.intents # {} => l.registered
    /\ \A k \in Keys : l.attempts[k] # None => AttemptIsValid(l, k)

\* What the handlers build always passes validatePolicyExecution: no order of
\* commands, and nothing the clock does, makes a ledger that Desk refuses to
\* write or to open.  (The transaction validates before it writes; the model
\* does not, so that this says the refusal is never met.)
HeadIsValid == LedgerIsValid(anchor.head)

StartedIn(l, k) == l.attempts[k] # None /\ l.attempts[k].state = "start-committed"

\* An intent is launched at most once, and only when the ledger that Desk will
\* ever accept again records its start: through lost answers, new sessions and
\* restarts, uncertain writes, and a ledger put back from an older copy.
OneLaunch == \A k \in Keys :
    /\ launched[k] <= 1
    /\ launched[k] = 1 => StartedIn(anchor.head, k)

\* A start becomes current only if the ledger it replaces permits it: reserved
\* in the epoch that is still the last one, never held, the release effective
\* at a time no earlier than any that was retained.
StartIsPermitted == [][
    \A k \in Keys : StartedIn(anchor'.head, k) /\ ~StartedIn(anchor.head, k) =>
        LET before == anchor.head
            at     == anchor'.head.attempts[k].at
        IN  /\ before.attempts[k] # None
            /\ before.attempts[k].state = "reserved"
            /\ before.attempts[k].held = None
            /\ before.attempts[k].epoch = Len(before.epochs)
            /\ at >= before.last
            /\ Reason(before, at, TRUE) = "eligible"]_vars

IsOver(l) == Status(l, l.last) \in {"withdrawn", "expired", "superseded"}

\* A release that was over at the retained time stays over, whatever the clock
\* is set to and whatever is withdrawn later.
OverStaysOver == [][IsOver(anchor.head) => IsOver(anchor'.head)]_vars

\* What becomes of an intent, in the ledger that is current.
Phase(l, k) ==
    CASE k \notin l.intents                              -> "none"
      [] k \in l.intents /\ l.attempts[k] = None         -> "prepared"
      [] k \in l.intents /\ l.attempts[k] # None         ->
           CASE l.attempts[k].state = "blocked"         -> "blocked"
             [] l.attempts[k].state = "start-committed" -> "started"
             [] OTHER -> IF l.attempts[k].held = None THEN "reserved" ELSE "sealed"

Starts == INSTANCE PolicyStarts
              WITH phase <- [k \in Keys |-> Phase(anchor.head, k)],
                   launches <- {k \in Keys : launched[k] > 0}

\* Over its current ledgers, Desk is a machine that takes each intent once
\* through its phases and launches none but in the step that records its start.
StartsOnce == Starts!Spec
=============================================================================
