------------------------------ MODULE KeyRotation ------------------------------
(***************************************************************************)
(* Rotating a desk's signing key, and finishing or undoing a rotation a    *)
(* stop cut short (src/internal/desk/rotation.go).                         *)
(*                                                                         *)
(* Desk and the runtime are two programs that share no transaction.  The   *)
(* runtime hands signing over by appending a key-rotation line to the      *)
(* sidecar of the trail it finds at the audit directory's path; Desk names *)
(* the next key in its list of public keys, moves the current seed to its  *)
(* archive of keys and renames the next seed into the name left free.  A   *)
(* marker, the rotation's journal, is written before each step, and a      *)
(* start reads it back.  Meanwhile the owner moves the trail aside, puts   *)
(* it back or copies it, runtimes append records, and Desk may stop at     *)
(* any moment.                                                             *)
(*                                                                         *)
(* Desk holds its key lock and the signing folder's lock from the reading  *)
(* to the last step, so one rotation or one recovery runs at a time.  A    *)
(* trail and its sidecar are one file here: they are moved, copied and     *)
(* bound together.  A key stands for its seed, its public key and its      *)
(* keyId.  The bytes a digest stands for are the lines themselves.         *)
(***************************************************************************)
EXTENDS Naturals, Sequences, FiniteSets

CONSTANTS
    Keys,            \* the keys that can ever be made
    Files,           \* the trail files there can ever be, 1 .. n
    None,            \* no key, no file, no trail, no marker
    KeyLimit,        \* rotationKeyLimit: the most keys a list names
    MaxRecords,      \* bound: records a trail file reaches
    MaxMoves,        \* bound: moves, copies and restores of the owner's
    MaxStops,        \* bound: crashes and failed steps
    RestoreInPlace,  \* whether a sidecar may be cut back in place (issue #321)
    OrphanRuntime,   \* whether a runtime outlives the Desk that asked it
    LegacyMarker     \* whether the first start may find an empty marker

ASSUME KeysAssumption == None \notin Keys
ASSUME FilesAssumption == Files \subseteq Nat \ {0} /\ 1 \in Files /\ None \notin Files
ASSUME BoundsAssumption ==
    /\ KeyLimit \in Nat /\ MaxRecords \in Nat
    /\ MaxMoves \in Nat /\ MaxStops \in Nat
ASSUME TogglesAssumption ==
    /\ RestoreInPlace \in BOOLEAN
    /\ OrphanRuntime \in BOOLEAN
    /\ LegacyMarker \in BOOLEAN

VARIABLES
    \* The signing folder, which outlives a stop.
    seed,        \* <id>.seed: the key the desk names, or None
    nextSeed,    \* <id>.next.seed: the next key, or None
    list,        \* <id>.keys.jsonl: the public keys, in order
    torn,        \* whether a stop left the list's last line without its end
    marker,      \* <id>.rotating: the rotation's journal, or None
    archived,    \* the keys in Desk's archive of keys
    \* The audit directory.
    files,       \* every trail file there is, with its sidecar's lines
    path,        \* the file the audit directory's names hold now, or None
    \* The Desk process, and the runtime it asked to rotate.
    pc,          \* the step it is about to make
    who,         \* "owner": a confirmed request; "start": a recovery
    bound,       \* the trail file held under its shared lock, or None
    at,          \* the sequence the runtime answered, or the decision gave
    answer,      \* what the last rotation asked for was answered
    request,     \* the runtime asked to rotate and not ended yet, or None
    \* History, and the bounds.
    made,        \* every key ever made
    handed,      \* every key-rotation line a runtime ever wrote
    moves, stops

folder == <<seed, nextSeed, list, torn, marker, archived>>
audit == <<files, path>>
process == <<pc, who, bound, at, answer>>
history == <<made, handed>>
vars == <<folder, audit, process, request, history, moves, stops>>

Maybe(S) == S \cup {None}

-------------------------------------------------------------------------------
(* Lines, lists and journals.                                              *)

\* A sidecar line: a record's signature, or a key rotation made by `by` after
\* record `at`, handing over to `next`.
Line == [kind : {"record", "rotation"}, by : Keys, next : Maybe(Keys), at : Nat]
Signature(k, n) == [kind |-> "record", by |-> k, next |-> None, at |-> n]
Rotation(k, n, to) == [kind |-> "rotation", by |-> k, next |-> to, at |-> n]

\* A key-rotation line as history keeps it: with the file and trail it went to.
Handover == [file : Files, trail : Files, by : Keys, next : Keys, at : Nat]

Trail == [trail : Maybe(Files), records : Nat, lines : Seq(Line)]
NoTrailYet == [trail |-> None, records |-> 0, lines |-> <<>>]

ListedKey == [key : Keys, at : Nat, trail : Maybe(Files)]
Listed(k, n, t) == [key |-> k, at |-> n, trail |-> t]

Seen == [file : Files, lines : Seq(Line)]
Phases == {"legacy", "generate", "rotate", "finish"}
Journal == [phase : Phases, trail : Maybe(Files), next : Maybe(Keys),
            at : Nat, sidecar : Maybe(Seen)]

ASSUME NoneAssumption == None \notin Journal /\ None \notin Seen
ASSUME AnswerAssumption == None # "rotated"

Steps == {"idle", "marked", "made", "journalled", "asked", "rotated", "refused",
          "finishing", "writing", "appending", "listed", "archiving", "placing",
          "settling", "withdrawing", "undoNext", "undoMarker", "recover",
          "promoting", "down"}

Final(s) == s[Len(s)]
KeysListed == {list[i].key : i \in 1 .. Len(list)}

-------------------------------------------------------------------------------
(* Reading a sidecar.                                                      *)

LinesAt(f) == IF f = None THEN <<>> ELSE files[f].lines

IsRotation(line) == line.kind = "rotation"
\* sidecarReading.rotations, by their places among the lines.
RotationsOf(lines) == {i \in 1 .. Len(lines) : IsRotation(lines[i])}

\* How many rotations there are up to line i.
Nth(lines, i) == Cardinality({j \in RotationsOf(lines) : j <= i})

\* sidecarReading.oneTrail: the trail its lines name, where it has one.
OneTrail(f) == IF LinesAt(f) = <<>> THEN None ELSE files[f].trail

\* sidecarReading.signedSinceRotation, required only where a rotation is there.
SignedSince(lines) == RotationsOf(lines) # {} => Final(lines).kind = "record"

\* sidecarReading.names.
Names(lines, k) == \E i \in 1 .. Len(lines) : k \in {lines[i].by, lines[i].next}

\* sidecarReading.last: the last key-rotation line, where there is one.
IsLastRotation(lines, i) ==
    /\ IsRotation(lines[i])
    /\ \A j \in 1 .. Len(lines) : IsRotation(lines[j]) => j <= i
LastRotation(lines) ==
    lines[CHOOSE i \in 1 .. Len(lines) : IsLastRotation(lines, i)]

\* The last rotation hands over to k.
HandsOverTo(lines, k) ==
    /\ \E i \in 1 .. Len(lines) : IsLastRotation(lines, i)
    /\ LastRotation(lines).next = k

\* trailFirst: the first key of the trail the sidecar at f is.
TrailFirst(keys, f) ==
    LET elsewhere == {i \in 2 .. Len(keys) : keys[i].trail \notin {None, OneTrail(f)}}
    IN  IF Len(keys) < 2 THEN 1
        ELSE IF OneTrail(f) = None
        THEN IF Final(keys).trail # None THEN Len(keys) ELSE 1
        ELSE IF elsewhere = {} THEN 1
        ELSE CHOOSE i \in elsewhere : \A j \in elsewhere : j <= i

\* checkKeysAgainst: the list's last key is the current one, and its keys after
\* the trail's first are those the sidecar's rotations hand over to, in order.
Agrees(keys, k, f) ==
    LET first == TrailFirst(keys, f)
        lines == LinesAt(f)
    IN  /\ keys # <<>>
        /\ Final(keys).key = k
        /\ Cardinality(RotationsOf(lines)) = Len(keys) - first
        /\ \A i \in RotationsOf(lines) :
              LET n == first + Nth(lines, i)
              IN  /\ lines[i].next = keys[n].key
                  /\ lines[i].by = keys[n - 1].key
                  /\ lines[i].at = keys[n].at

\* parseDeskKeys of the list with one more key.
KeptList(keys, k) ==
    /\ Len(keys) + 1 <= KeyLimit
    /\ k.at >= 1
    /\ k.trail = Final(keys).trail => k.at > Final(keys).at
    /\ \A i \in 1 .. Len(keys) : keys[i].key # k.key

\* The key in force on a trail: the one its last rotation hands over to, or
\* the one that signed its first record.
InForce(lines) ==
    IF lines = <<>> THEN None
    ELSE IF RotationsOf(lines) = {} THEN Head(lines).by
    ELSE LastRotation(lines).next

\* bindTrail's `seen`: the sidecar there now, where there is one.
SeenAt(f) ==
    IF LinesAt(f) = <<>> THEN None ELSE [file |-> f, lines |-> LinesAt(f)]

\* Mutant: any sidecar no shorter than the one recorded.
GrownBySize(since, f) ==
    since # None /\ Len(since.lines) <= Len(LinesAt(f))

\* bindTrail's `grown`: the same file, holding the same lines first.
Grown(since, f) ==
    /\ since # None
    /\ since.file = f
    /\ Len(since.lines) <= Len(LinesAt(f))
    /\ SubSeq(LinesAt(f), 1, Len(since.lines)) = since.lines

\* trailStill: the audit directory's paths still name the trail bound.
TrailStill == path = bound

-------------------------------------------------------------------------------
(* What a marker m leaves to do: inspectRotationBound, inspectPromotion and *)
(* decideRotation.  What is none of these is unknown, and changes nothing.  *)

\* There is no next key, and the list, the seed and the sidecar agree.
Settled(m) ==
    /\ seed # None /\ ~torn /\ nextSeed = None
    /\ Agrees(list, seed, path)

\* Mutant: asked of a journal still at "rotate", which no seed gap leaves.
PromotingRotate(m) ==
    /\ seed = None /\ ~torn
    /\ m.phase = "rotate" /\ nextSeed # None /\ nextSeed = m.next
    /\ Final(list).key = nextSeed
    /\ OneTrail(path) = m.trail /\ HandsOverTo(LinesAt(path), nextSeed)

\* A stop between the two moves: the rename is left.
Promoting(m) ==
    /\ seed = None /\ ~torn
    /\ m.phase = "finish" /\ nextSeed # None /\ nextSeed = m.next
    /\ Final(list).key = nextSeed /\ Final(list).at = m.at
    /\ OneTrail(path) = m.trail
    /\ HandsOverTo(LinesAt(path), nextSeed)
    /\ LastRotation(LinesAt(path)).at = m.at

\* Only the trail the journal names has a say, once the runtime may be asked.
Decidable(m) ==
    /\ seed # None /\ ~torn /\ nextSeed # None
    /\ m.phase \in {"rotate", "finish"} =>
          m.next = nextSeed /\ OneTrail(path) = m.trail

\* Mutants: a line naming the next key only before its last rotation; a list
\* that names the next key already.
UnwrittenThoughNamed(m) ==
    /\ Decidable(m) /\ m.phase \in {"generate", "rotate"}
    /\ nextSeed \notin KeysListed
    /\ m.phase = "rotate" => Grown(m.sidecar, path)
UnwrittenThoughListed(m) ==
    /\ Decidable(m) /\ m.phase \in {"generate", "rotate"}
    /\ ~Names(LinesAt(path), nextSeed)
    /\ m.phase = "rotate" => Grown(m.sidecar, path)

Unwritten(m) ==
    /\ Decidable(m)
    /\ m.phase \in {"generate", "rotate"}
    /\ ~Names(LinesAt(path), nextSeed)
    /\ nextSeed \notin KeysListed
    /\ m.phase = "rotate" => Grown(m.sidecar, path)

\* The next key's line, as the list takes it.
Took ==
    Listed(nextSeed, LastRotation(LinesAt(path)).at, OneTrail(path))

AlreadyListed ==
    /\ Len(list) >= 2 /\ Final(list) = Took
    /\ list[Len(list) - 1].key = seed
    /\ Agrees(list, nextSeed, path)
ToBeListed ==
    /\ Final(list).key = seed
    /\ KeptList(list, Took)
    /\ Agrees(Append(list, Took), nextSeed, path)

Written(m) ==
    /\ Decidable(m)
    /\ HandsOverTo(LinesAt(path), nextSeed)
    /\ LastRotation(LinesAt(path)).by = seed
    /\ AlreadyListed \/ ToBeListed

-------------------------------------------------------------------------------
(* Where a rotation or a recovery ends.                                    *)

Goes(step) == pc' = step /\ UNCHANGED <<who, bound, at, answer>>
Ends(said) ==
    /\ pc' = "idle" /\ bound' = None /\ at' = 0
    /\ answer' = IF who = "owner" THEN said ELSE answer
    /\ UNCHANGED who

\* A rotation with nothing made beside its marker removes it.
RemoveMarker == marker' = None /\ UNCHANGED <<seed, nextSeed, list, torn, archived>>

Journals(m) == marker' = m /\ UNCHANGED <<seed, nextSeed, list, torn, archived>>

-------------------------------------------------------------------------------
(* The rotation the owner confirms: checkRotation and makeRotation.        *)

\* checkRotation, and the marker that journals the first step.  The trail is
\* named as its sidecar names it, or as the runtime's checkpoint does.
Confirm ==
    /\ pc = "idle" /\ marker = None
    /\ seed # None /\ ~torn
    /\ path # None /\ files[path].records > 0
    /\ Agrees(list, seed, path)
    /\ Len(list) < KeyLimit
    /\ SignedSince(LinesAt(path))
    /\ Journals([phase |-> "generate", trail |-> files[path].trail,
                 next |-> None, at |-> 0, sidecar |-> None])
    /\ pc' = "marked" /\ who' = "owner" /\ answer' = None
    /\ UNCHANGED <<bound, at, audit, request, history, moves, stops>>

\* The runtime makes the next key, whether or not it then answers as asked.
Generate(k) ==
    /\ pc = "marked" /\ nextSeed = None /\ k \notin made
    /\ nextSeed' = k /\ made' = made \cup {k}
    /\ pc' \in {"made", "undoNext"}
    /\ UNCHANGED <<seed, list, torn, marker, archived, who, bound, at, answer,
                   audit, request, handed, moves, stops>>

\* Something is kept under the next key's name, or the runtime made no key.
GenerateNothing ==
    /\ pc = "marked"
    /\ RemoveMarker /\ Ends("unchanged")
    /\ UNCHANGED <<audit, request, history, moves, stops>>

\* The journal names the next key, and the sidecar there now.
JournalRotate ==
    /\ pc = "made"
    /\ Journals([marker EXCEPT !.phase = "rotate", !.next = nextSeed,
                               !.sidecar = SeenAt(path)])
    /\ Goes("journalled")
    /\ UNCHANGED <<audit, request, history, moves, stops>>

\* The sidecar could not be read, the journal not written, or the signing
\* folder was replaced: the runtime is not asked.
GiveUp ==
    /\ pc \in {"made", "journalled"}
    /\ Goes("undoNext")
    /\ UNCHANGED <<folder, audit, request, history, moves, stops>>

Ask ==
    /\ pc = "journalled"
    /\ request' = [by |-> seed, next |-> nextSeed]
    /\ Goes("asked")
    /\ UNCHANGED <<folder, audit, history, moves, stops>>

\* readRotated took the runtime's answer: it is journalled.
JournalFinish ==
    /\ pc = "rotated"
    /\ Journals([marker EXCEPT !.phase = "finish", !.at = at])
    /\ Goes("finishing")
    /\ UNCHANGED <<audit, request, history, moves, stops>>

\* The trail is bound, and the decision taken on it is acted on.
Holds ==
    /\ bound' = path
    /\ at' = LastRotation(LinesAt(path)).at
    /\ pc' = IF AlreadyListed THEN "listed" ELSE "writing"
    /\ UNCHANGED <<who, answer>>

\* The answer, held to the trail as a start would hold it.
HoldAnswer ==
    /\ pc = "finishing"
    /\ IF Written(marker) /\ LastRotation(LinesAt(path)).at = at
       THEN Holds ELSE Ends("conflict")
    /\ UNCHANGED <<folder, audit, request, history, moves, stops>>

\* The runtime refused, or a start found a marker: the sidecar decides.
InspectWritten ==
    /\ pc \in {"refused", "recover"} /\ Written(marker)
    /\ Holds
    /\ UNCHANGED <<folder, audit, request, history, moves, stops>>
InspectUnwritten ==
    /\ pc \in {"refused", "recover"} /\ Unwritten(marker)
    /\ bound' = path /\ pc' = "withdrawing"
    /\ UNCHANGED <<who, at, answer, folder, audit, request, history, moves, stops>>
InspectPromoting ==
    /\ pc = "recover" /\ Promoting(marker)
    /\ bound' = path /\ at' = marker.at /\ pc' = "promoting"
    /\ UNCHANGED <<who, answer, folder, audit, request, history, moves, stops>>
InspectSettled ==
    /\ pc = "recover" /\ Settled(marker)
    /\ RemoveMarker /\ Ends("settled")
    /\ UNCHANGED <<audit, request, history, moves, stops>>
InspectUnknown ==
    /\ pc \in {"refused", "recover"}
    /\ ~Written(marker) /\ ~Unwritten(marker)
    /\ ~Promoting(marker) /\ ~Settled(marker)
    /\ Ends("unknown")
    /\ UNCHANGED <<folder, audit, request, history, moves, stops>>

-------------------------------------------------------------------------------
(* Steps 4 to 6: finishRotation, promoteNext and settleRotation.  Each look *)
(* at the paths is a step before the one it allows: no check can close the *)
(* moment after it (issue #323).                                           *)

\* The look before a step: the paths still name the trail bound, or the
\* rotation stops here and keeps everything.
Look(before, after) ==
    /\ pc = before
    /\ IF TrailStill THEN Goes(after) ELSE Ends("conflict")
    /\ UNCHANGED <<folder, audit, request, history, moves, stops>>
LookBeforeList == Look("writing", "appending")
LookBeforeMoves == Look("listed", "archiving")
LookBeforePlacing == Look("promoting", "placing")
LookBeforeUndo == Look("withdrawing", "undoNext")

\* Mutant: at the sequence the journal holds, which only "finish" records.
AppendKeyJournalled ==
    /\ pc = "appending"
    /\ list' = Append(list, Listed(nextSeed, marker.at, files[bound].trail))
    /\ Goes("listed")
    /\ UNCHANGED <<seed, nextSeed, torn, marker, archived,
                   audit, request, history, moves, stops>>

AppendKey ==
    /\ pc = "appending"
    /\ list' = Append(list, Listed(nextSeed, at, files[bound].trail))
    /\ Goes("listed")
    /\ UNCHANGED <<seed, nextSeed, torn, marker, archived,
                   audit, request, history, moves, stops>>

\* Mutant: the current seed removed, as before the archive.
RemoveSeed ==
    /\ pc = "archiving"
    /\ seed' = None
    /\ Goes("placing")
    /\ UNCHANGED <<nextSeed, list, torn, marker, archived,
                   audit, request, history, moves, stops>>

ArchiveSeed ==
    /\ pc = "archiving"
    /\ archived' = archived \cup {seed} /\ seed' = None
    /\ Goes("placing")
    /\ UNCHANGED <<nextSeed, list, torn, marker, audit, request, history, moves, stops>>

\* The rename never goes over a key.
PlaceNext ==
    /\ pc = "placing" /\ seed = None
    /\ seed' = nextSeed /\ nextSeed' = None
    /\ Goes("settling")
    /\ UNCHANGED <<list, torn, marker, archived, audit, request, history, moves, stops>>

\* Mutant: the trail not looked at once more.
SettleUnlooked ==
    /\ pc = "settling"
    /\ RemoveMarker /\ Ends("rotated")
    /\ UNCHANGED <<audit, request, history, moves, stops>>

\* The trail once more; the marker removed, or archived where it moved.
Settle ==
    /\ pc = "settling"
    /\ RemoveMarker
    /\ Ends(IF TrailStill THEN "rotated" ELSE "conflict")
    /\ UNCHANGED <<audit, request, history, moves, stops>>

-------------------------------------------------------------------------------
(* undoRotation, and makeRotation's undo: the next key, and then its marker. *)

\* Mutant: the marker first.
ArchiveMarkerFirst ==
    /\ pc = "undoNext"
    /\ marker' = None
    /\ Goes("undoMarker")
    /\ UNCHANGED <<seed, nextSeed, list, torn, archived,
                   audit, request, history, moves, stops>>

ArchiveNext ==
    /\ pc = "undoNext"
    /\ archived' = archived \cup {nextSeed} /\ nextSeed' = None
    /\ Goes("undoMarker")
    /\ UNCHANGED <<seed, list, torn, marker, audit, request, history, moves, stops>>

ArchiveMarker ==
    /\ pc = "undoMarker"
    /\ RemoveMarker /\ Ends("kept")
    /\ UNCHANGED <<audit, request, history, moves, stops>>

-------------------------------------------------------------------------------
(* Stops and starts.  Nothing a rotation made is cleaned up by a stop.     *)

\* A file that could not be read, written, moved or looked at: the request or
\* the recovery ends there, and leaves what it made.
CanFail == {"made", "rotated", "refused", "finishing", "writing", "appending",
            "listed", "archiving", "placing", "settling", "withdrawing",
            "undoNext", "undoMarker", "recover", "promoting"}

\* The list is appended to in one write, which a stop can leave in its middle.
ListMayTear ==
    \/ UNCHANGED torn
    \/ pc = "appending" /\ torn' = TRUE

StepFails ==
    /\ pc \in CanFail /\ stops < MaxStops /\ stops' = stops + 1
    /\ ListMayTear /\ Ends("unfinished")
    /\ UNCHANGED <<seed, nextSeed, list, marker, archived,
                   audit, request, history, moves>>

Crash ==
    /\ pc \notin {"idle", "down"} /\ stops < MaxStops /\ stops' = stops + 1
    /\ ListMayTear
    /\ pc' = "down" /\ bound' = None /\ at' = 0 /\ answer' = None
    /\ request' = IF OrphanRuntime THEN request ELSE None
    /\ UNCHANGED <<seed, nextSeed, list, marker, archived, who,
                   audit, history, moves>>

\* recoverRotations, once, before any request is served.  The owner also
\* starts again a Desk that serves with a marker left.
Start ==
    /\ \/ pc = "down"
       \/ pc = "idle" /\ marker # None
    /\ pc' = IF marker = None THEN "idle" ELSE "recover"
    /\ who' = "start" /\ answer' = None
    /\ UNCHANGED <<bound, at, folder, audit, request, history, moves, stops>>

-------------------------------------------------------------------------------
(* The runtime (external).  It takes the trail's lock for every write, so  *)
(* none reaches a trail Desk holds bound.                                  *)

Writes(f, line) ==
    files' = [files EXCEPT ![f].lines = Append(@, line)]

\* The runtime asked to rotate: it rotates from the key in force, where that
\* is the seed, on the trail at the path, once it has a record.
RuntimeRotates ==
    /\ request # None /\ path # None /\ path # bound
    /\ files[path].records > 0
    /\ LinesAt(path) = <<>> \/ InForce(LinesAt(path)) = request.by
    /\ Writes(path, Rotation(request.by, files[path].records, request.next))
    /\ handed' = handed \cup {[file |-> path, trail |-> files[path].trail,
                               by |-> request.by, next |-> request.next,
                               at |-> files[path].records]}
    /\ request' = None
    /\ UNCHANGED <<path, folder, who, bound, answer, made, moves, stops>>

\* readRotated: the answer counts only where it names the journal's trail.
RuntimeAnswers ==
    /\ pc = "asked" /\ RuntimeRotates
    /\ files[path].trail = marker.trail
    /\ pc' = "rotated" /\ at' = files[path].records

\* The line was written, and the answer is lost, or is not the one asked for.
AnswerIsLost ==
    /\ pc = "asked" /\ RuntimeRotates
    /\ pc' = "refused" /\ UNCHANGED at

\* A runtime whose Desk stopped, writing on.
OrphanRotates ==
    /\ pc # "asked" /\ RuntimeRotates
    /\ UNCHANGED <<pc, at>>

\* Refused, killed at its time limit, or gone, with nothing written.
RuntimeRefuses ==
    /\ request # None
    /\ request' = None
    /\ pc' = IF pc = "asked" THEN "refused" ELSE pc
    /\ UNCHANGED <<who, bound, at, answer, folder, audit, history, moves, stops>>

\* A deciding run appends its record, signed where the seed is in force.
RecordDecision ==
    /\ path # None /\ path # bound /\ files[path].records < MaxRecords
    /\ LET n == files[path].records + 1
           lines == LinesAt(path)
           signed == seed # None /\ (lines = <<>> \/ InForce(lines) = seed)
       IN  files' = [files EXCEPT
              ![path].records = n,
              ![path].lines = IF signed THEN Append(@, Signature(seed, n)) ELSE @]
    /\ UNCHANGED <<path, folder, process, request, history, moves, stops>>

Unused == {f \in Files : files[f].trail = None}
NewFile(f) == f \in Unused /\ \A g \in Unused : f <= g

\* Its first record begins a trail, where there is none at the path.
BeginTrail(f) ==
    /\ path = None /\ NewFile(f)
    /\ files' = [files EXCEPT ![f] =
          [trail |-> f, records |-> 1,
           lines |-> IF seed = None THEN <<>> ELSE <<Signature(seed, 1)>>]]
    /\ path' = f
    /\ UNCHANGED <<folder, process, request, history, moves, stops>>

-------------------------------------------------------------------------------
(* The owner's file manager (external): it takes no lock of Desk's.        *)

Moves == moves < MaxMoves /\ moves' = moves + 1

MoveAside ==
    /\ Moves /\ path # None /\ path' = None
    /\ UNCHANGED <<files, folder, process, request, history, stops>>

PutBack(f) ==
    /\ Moves /\ path # f /\ files[f].trail # None
    /\ path' = f
    /\ UNCHANGED <<files, folder, process, request, history, stops>>

\* A copy of the trail as it was after its first n sidecar lines.
CopyBack(f, g, n) ==
    /\ Moves /\ NewFile(f)
    /\ files[g].trail # None /\ n \in 1 .. Len(files[g].lines)
    /\ files' = [files EXCEPT ![f] =
          [trail |-> files[g].trail, records |-> files[g].lines[n].at,
           lines |-> SubSeq(files[g].lines, 1, n)]]
    /\ path' = f
    /\ UNCHANGED <<folder, process, request, history, stops>>

\* The same file, its sidecar cut back in place (issue #321).
CutBack(n) ==
    /\ RestoreInPlace /\ Moves /\ path # None
    /\ n \in 1 .. Len(LinesAt(path)) - 1
    /\ files' = [files EXCEPT ![path].lines = SubSeq(@, 1, n)]
    /\ UNCHANGED <<path, folder, process, request, history, stops>>

-------------------------------------------------------------------------------

\* A desk with one key, whose trail has one record it signed.  An earlier
\* Desk may have left an empty marker beside a next key, the runtime having
\* written the rotation or not.
InitFolder(k) ==
    /\ seed = k /\ list = <<Listed(k, 0, None)>>
    /\ torn = FALSE /\ archived = {}
    /\ path = 1 /\ bound = None /\ at = 0 /\ answer = None /\ request = None
    /\ moves = 0 /\ stops = 0

FirstTrail(lines) ==
    files = [f \in Files |->
        IF f = 1 THEN [trail |-> 1, records |-> 1, lines |-> lines] ELSE NoTrailYet]

InitFresh(k) ==
    /\ nextSeed = None /\ marker = None /\ made = {k} /\ handed = {}
    /\ FirstTrail(<<Signature(k, 1)>>)
    /\ pc = "idle" /\ who = "owner"

InitLegacy(k, next) ==
    /\ LegacyMarker /\ next # k
    /\ nextSeed = next /\ made = {k, next}
    /\ marker = [phase |-> "legacy", trail |-> None, next |-> None,
                 at |-> 0, sidecar |-> None]
    /\ pc = "down" /\ who = "start"
    /\ \/ FirstTrail(<<Signature(k, 1)>>) /\ handed = {}
       \/ /\ FirstTrail(<<Signature(k, 1), Rotation(k, 1, next)>>)
          /\ handed = {[file |-> 1, trail |-> 1, by |-> k, next |-> next, at |-> 1]}

Init == \E k \in Keys :
    InitFolder(k) /\ (InitFresh(k) \/ \E next \in Keys : InitLegacy(k, next))

Rotating ==
    \/ Confirm \/ (\E k \in Keys : Generate(k)) \/ GenerateNothing
    \/ JournalRotate \/ GiveUp \/ Ask \/ JournalFinish
Inspecting ==
    \/ HoldAnswer \/ InspectWritten \/ InspectUnwritten \/ InspectPromoting
    \/ InspectSettled \/ InspectUnknown
Finishing ==
    \/ LookBeforeList \/ LookBeforeMoves \/ LookBeforePlacing \/ LookBeforeUndo
    \/ AppendKey \/ ArchiveSeed \/ PlaceNext \/ Settle
    \/ ArchiveNext \/ ArchiveMarker
Runtime ==
    \/ RuntimeAnswers \/ AnswerIsLost \/ OrphanRotates \/ RuntimeRefuses
    \/ RecordDecision \/ \E f \in Files : BeginTrail(f)
Owner ==
    \/ MoveAside \/ (\E f \in Files : PutBack(f))
    \/ \E f, g \in Files : \E n \in 1 .. Len(files[g].lines) : CopyBack(f, g, n)
    \/ \E n \in 1 .. Len(LinesAt(path)) : CutBack(n)

Next == Rotating \/ Inspecting \/ Finishing \/ StepFails \/ Crash \/ Start \/ Runtime \/ Owner

Spec == Init /\ [][Next]_vars

(* Desk makes each step it has begun, every runtime it asks ends within its *)
(* time limit, and the owner starts a stopped Desk again.                   *)
Fairness ==
    /\ WF_vars(Rotating /\ pc # "idle")
    /\ WF_vars(Inspecting)
    /\ WF_vars(Finishing)
    /\ WF_vars(RuntimeRefuses)
    /\ WF_vars(Start)

FairSpec == Spec /\ Fairness

-------------------------------------------------------------------------------
(* Properties.                                                             *)

TypeOK ==
    /\ seed \in Maybe(Keys) /\ nextSeed \in Maybe(Keys)
    /\ list \in Seq(ListedKey) /\ torn \in BOOLEAN
    /\ marker \in Maybe(Journal)
    /\ archived \subseteq Keys
    /\ files \in [Files -> Trail] /\ path \in Maybe(Files)
    /\ pc \in Steps /\ who \in {"owner", "start"}
    /\ bound \in Maybe(Files) /\ at \in Nat
    /\ answer \in {None, "rotated", "conflict", "unknown", "unchanged",
                   "kept", "unfinished", "settled"}
    /\ request \in Maybe([by : Keys, next : Keys])
    /\ made \subseteq Keys
    /\ handed \subseteq Handover
    /\ moves \in Nat /\ stops \in Nat

\* No seed is ever lost, and none is kept under two names: at every moment of a
\* rotation, a recovery or a stop, each key made is the current one, the next
\* one or in Desk's archive (rotation.go: "No seed is ever removed").
KeysKept ==
    /\ made = archived \cup ({seed, nextSeed} \ {None})
    /\ {seed, nextSeed} \cap archived = {}
    /\ seed # None => seed # nextSeed

\* With no marker, there is nothing to finish: the desk names a key, its list
\* is whole and ends in that key, and no next key is left under its name,
\* where it would refuse every later rotation.
MarkerTellsAll ==
    marker = None =>
        /\ seed # None /\ nextSeed = None
        /\ ~torn /\ Final(list).key = seed

\* Between the two moves the desk names no key: then the next one is there
\* under its marker, and the list already ends in it, unless it is torn.
GapIsNamed ==
    seed = None =>
        /\ marker # None /\ nextSeed # None
        /\ Final(list).key = nextSeed

\* The list names a key after the first only where a runtime handed over to it,
\* from the key listed before it, on the trail and at the sequence listed:
\* whatever was moved, copied, cut back, stopped or answered meanwhile.
ListIsWritten ==
    \A i \in 2 .. Len(list) : \E h \in handed :
        /\ h.trail = list[i].trail /\ h.by = list[i - 1].key
        /\ h.next = list[i].key /\ h.at = list[i].at

\* Whether the next key is put aside by a rotation that may have been asked for.
Undoes == nextSeed # None /\ nextSeed' = None /\ seed' = seed /\ marker.phase = "rotate"

\* A rotation the runtime wrote into the file it was begun beside is never
\* undone: not where that file was moved aside and a copy, an earlier one, or
\* another trail was put in its place, and whatever was answered.
WrittenNotUndone ==
    [][Undoes => \A h \in handed :
          ~(h.next = nextSeed /\ marker.sidecar # None /\ h.file = marker.sidecar.file)]_vars

\* The owner is answered "rotated" only where the desk names the next key, its
\* list ends in it, and the trail at the path hands over to it, at that record.
RotatedMeansSigned ==
    [][answer' = "rotated" /\ answer # "rotated" =>
          /\ marker' = None /\ nextSeed' = None
          /\ Final(list').key = seed'
          /\ path' # None /\ Final(list').trail = files'[path'].trail
          /\ InForce(files'[path'].lines) = seed'
          /\ LastRotation(files'[path'].lines).at = Final(list').at]_vars

\* Where the owner moved nothing, a desk with nothing to finish is one whose
\* keys the panel passes: list, seed and sidecar agree.
SettledKeysAgree ==
    moves = 0 /\ marker = None /\ request = None => Agrees(list, seed, path)

\* A stop between the two moves of a finish whose journal says "rotate": a
\* recovery, or a rotation whose answer was lost, that finishes what the
\* runtime wrote does not journal "finish" first.
Stranded == seed = None /\ marker # None /\ marker.phase # "finish"

\* Every rotation ends: the marker goes, by the rotation itself or by a later
\* start, unless the list was torn, the desk is stranded, or the owner moved
\* something, which may leave a state only the owner can put right.
RotationSettles ==
    marker # None ~> (marker = None \/ torn \/ Stranded \/ moves > 0)

\* README.md:922-924: "where the runtime wrote the line and Desk could not
\* finish, records are written unsigned until the next start finishes it".
NextStartFinishes ==
    /\ pc \in {"idle", "down"} /\ marker # None /\ ~torn /\ moves = 0
    /\ \E h \in handed : h.next = nextSeed
    => Written(marker) \/ Promoting(marker)
\* Whatever the owner, the runtimes and the stops do, the folder's files keep
\* what KeyCustody promises of them.
Custody == INSTANCE KeyCustody WITH
    Key <- Keys, NoKey <- None,
    current <- seed, next <- nextSeed, retired <- archived,
    named <- [i \in 1 .. Len(list) |-> list[i].key]

CustodyKept == Custody!Promise
===============================================================================
