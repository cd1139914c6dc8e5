------------------------------ MODULE KeyCustody ------------------------------
(***************************************************************************)
(* What a desk's owner is promised of its signing keys, whatever its trail *)
(* and its stops do (src/internal/desk/rotation.go, "No seed is ever       *)
(* removed" and "No undo the list contradicts"): every key made stays in   *)
(* Desk's keeping, in one place; the public list only grows, by the next   *)
(* key; a key the list names is never withdrawn; and the desk goes over    *)
(* to a key only once the list names it.                                   *)
(***************************************************************************)
EXTENDS Naturals, Sequences

CONSTANTS Key, NoKey

VARIABLES
    current,   \* the key the desk names, or NoKey between two moves
    next,      \* the key a rotation made, or NoKey
    retired,   \* the keys kept in the archive
    named      \* the public keys, in order

custody == <<current, next, retired, named>>

NamedKeys == {named[i] : i \in 1 .. Len(named)}
Kept == (retired \cup {current, next}) \ {NoKey}

Begin ==
    \E k \in Key :
        /\ current = k /\ named = <<k>> /\ retired = {}
        /\ next \in (Key \ {k}) \cup {NoKey}

\* A rotation makes the next key, one never kept before.
Make ==
    /\ next = NoKey
    /\ next' \in Key \ (Kept \cup NamedKeys)
    /\ UNCHANGED <<current, retired, named>>

\* A rotation that was not made puts its next key aside: never a named one.
Withdraw ==
    /\ next # NoKey /\ next \notin NamedKeys
    /\ retired' = retired \cup {next} /\ next' = NoKey
    /\ UNCHANGED <<current, named>>

\* The list is appended to, with the next key, while the current one is named.
Name ==
    /\ current # NoKey /\ next # NoKey /\ next \notin NamedKeys
    /\ named[Len(named)] = current
    /\ named' = Append(named, next)
    /\ UNCHANGED <<current, next, retired>>

\* The current key is put aside once the list ends in the next one.
Retire ==
    /\ current # NoKey /\ next # NoKey /\ named[Len(named)] = next
    /\ retired' = retired \cup {current} /\ current' = NoKey
    /\ UNCHANGED <<next, named>>

\* The next key takes the name left free.
TakeOver ==
    /\ current = NoKey /\ next # NoKey /\ named[Len(named)] = next
    /\ current' = next /\ next' = NoKey
    /\ UNCHANGED <<retired, named>>

Change == Make \/ Withdraw \/ Name \/ Retire \/ TakeOver

Promise == Begin /\ [][Change]_custody
===============================================================================
