-------------------------- MODULE PolicyAuthority --------------------------
(* The storage of Policy decisions: a ledger in the workspace's folder, and  *)
(* an anchor that the machine keeps apart from it, which names the one       *)
(* ledger that is current.  A change is written in three durable steps under *)
(* both locks - the anchor's intent, the ledger, the anchor's new head - and *)
(* nothing is ever repaired: after an uncertain step the process refuses     *)
(* everything, and an intent left behind refuses everything for good.  The   *)
(* ledger is portable: its owner may keep a copy and put it back.  The       *)
(* anchor is not; that both are rolled back together is outside the model.   *)
(* A digest is the content it is taken of.                                   *)
EXTENDS Naturals

CONSTANTS None,           \* no intent, no transaction, no copy
          MaxGeneration   \* policyAuthorityAnchorMaxGeneration

ASSUME GenerationAssumption == MaxGeneration \in Nat \ {0}

VARIABLES ledger,     \* ledger.json, as it lies in the folder
          copy,       \* an older ledger.json that its owner kept
          anchor,     \* [generation, head, intent]: authority-anchor.json
          poisoned,   \* this process had an uncertain outcome
          tx          \* the change being written, or None

store == <<ledger, copy, anchor, poisoned, tx>>

Enrolled(content) ==
    /\ ledger = content
    /\ copy = content
    /\ anchor = [generation |-> 1, head |-> content, intent |-> None]
    /\ poisoned = FALSE
    /\ tx = None

\* Mutant: the ledger in the folder is believed without the anchor's digest.
CurrentUnchecked == tx = None /\ ~poisoned /\ anchor.intent = None

\* A transaction is admitted: both locks are free, and the ledger that was
\* read is the one the anchor names, with no intent beside it.
Current ==
    /\ tx = None
    /\ ~poisoned
    /\ anchor.intent = None
    /\ ledger = anchor.head

Intended(next) == [anchor EXCEPT !.intent = next]
Advanced(next) == [generation |-> anchor.generation + 1, head |-> next, intent |-> None]

\* The intent is retained; what follows may stop at any step.
Prepare(next, answer) ==
    /\ Current
    /\ next # ledger
    /\ anchor.generation < MaxGeneration
    /\ anchor' = Intended(next)
    /\ tx' = [next |-> next, answer |-> answer, stored |-> FALSE]
    /\ UNCHANGED <<ledger, copy, poisoned>>

\* The write of the intent fails, before or after it took effect.
PrepareFails(next) ==
    /\ Current
    /\ next # ledger
    /\ anchor.generation < MaxGeneration
    /\ anchor' \in {anchor, Intended(next)}
    /\ poisoned' = TRUE
    /\ UNCHANGED <<ledger, copy, tx>>

\* A decision that changes nothing writes nothing, and is answered at once.
Unchanged(next) ==
    /\ Current
    /\ next = ledger
    /\ UNCHANGED store

StoreLedger ==
    /\ tx # None
    /\ ~tx.stored
    /\ ledger' = tx.next
    /\ tx' = [tx EXCEPT !.stored = TRUE]
    /\ UNCHANGED <<copy, anchor, poisoned>>

Settle ==
    /\ tx # None
    /\ tx.stored
    /\ anchor' = Advanced(tx.next)
    /\ tx' = None
    /\ UNCHANGED <<ledger, copy, poisoned>>

\* A write fails, before or after it took effect, or the request's context
\* ends between two of them.
Break ==
    /\ tx # None
    /\ IF tx.stored
       THEN anchor' \in {anchor, Advanced(tx.next)} /\ UNCHANGED ledger
       ELSE ledger' \in {ledger, tx.next} /\ UNCHANGED anchor
    /\ tx' = None
    /\ poisoned' = TRUE
    /\ UNCHANGED copy

\* The process ends and another is started: what is durable stays as it is.
Restart ==
    /\ tx' = None
    /\ poisoned' = FALSE
    /\ UNCHANGED <<ledger, copy, anchor>>

KeepCopy ==
    /\ copy' = ledger
    /\ UNCHANGED <<ledger, anchor, poisoned, tx>>

PutCopyBack ==
    /\ ledger' = copy
    /\ UNCHANGED <<copy, anchor, poisoned, tx>>
=============================================================================
