--------------------------- MODULE KeyRotationProofs ---------------------------
(* Theorems about the rotation of a desk's key, for every number of keys,    *)
(* trail files, records, moves and stops, with sidecars cut back and runtimes *)
(* that outlive Desk or without them.  After type correctness and the folder's *)
(* shape come what the rotation keeps (ListOnlyWritten, and KeyCustody's     *)
(* promise), and the four properties that  need a hypothesis on the owner or *)
(* the runtime: NothingWrittenIsUndone, AnsweredRotatedIsSigned,            *)
(* NothingToFinishAgrees and StartsCanDecide.                                *)
EXTENDS KeyRotation, FiniteSetTheorems, SequenceTheorems, TLAPS

Running == Steps \ {"idle", "down", "recover"}

\* The next key is made, and no list names it yet.
Unlisted == {"made", "journalled", "asked", "rotated", "refused", "finishing",
             "writing", "appending", "withdrawing", "undoNext"}

\* Which names hold a key, and what the list ends in, at every step.
Shape ==
    /\ Len(list) >= 1
    /\ Final(list).key \in {seed, nextSeed}
    /\ KeysListed \subseteq made
    /\ pc \notin {"idle", "down"} => marker # None
    /\ pc \in Running =>
         /\ ~torn
         /\ seed = None <=> pc \in {"placing", "promoting"}
         /\ nextSeed = None <=> pc \in {"marked", "settling", "undoMarker"}
    /\ pc \in Unlisted => nextSeed \notin KeysListed
    /\ pc \in {"listed", "archiving"} => Final(list).key = nextSeed

\* A trail at the path, or bound, was begun.
Begun ==
    /\ path # None => files[path].trail # None
    /\ bound # None => files[bound].trail # None
    /\ pc \in {"writing", "appending"} => bound # None

IInv == TypeOK /\ Shape /\ KeysKept /\ MarkerTellsAll /\ GapIsNamed /\ Begun

-------------------------------------------------------------------------------
\* A list's last key is one of the keys it names.
LEMMA LastIsListed ==
  ASSUME TypeOK, Shape
  PROVE  /\ Final(list) \in ListedKey /\ Final(list).key \in Keys
         /\ Final(list).key \in KeysListed
  <1>1. Len(list) \in 1 .. Len(list) /\ list \in Seq(ListedKey)
    BY DEF TypeOK, Shape
  <1>2. list[Len(list)] \in ListedKey
    BY <1>1
  <1>3. list[Len(list)].key \in Keys
    BY <1>2 DEF ListedKey
  <1>4. list[Len(list)].key \in KeysListed
    BY <1>1 DEF KeysListed
  <1> QED BY <1>2, <1>3, <1>4 DEF Final

\* What a journal records of a sidecar is of its type.
LEMMA SeenTyped ==
  ASSUME TypeOK
  PROVE  SeenAt(path) \in Maybe(Seen)
  <1>1. CASE LinesAt(path) = <<>>
    BY <1>1 DEF SeenAt, Maybe
  <1>2. CASE LinesAt(path) # <<>>
    <2>1. path \in Files
      BY <1>2 DEF LinesAt, TypeOK, Maybe
    <2>2. files[path].lines \in Seq(Line)
      BY <2>1 DEF TypeOK, Trail
    <2> QED BY <1>2, <2>1, <2>2, FilesAssumption DEF SeenAt, LinesAt, Seen, Maybe
  <1> QED BY <1>1, <1>2

\* What a written rotation is found with.
LEMMA WrittenFacts ==
  ASSUME TypeOK, NEW m, Written(m)
  PROVE  /\ seed # None /\ nextSeed # None /\ ~torn
         /\ AlreadyListed => Final(list).key = nextSeed
         /\ ~AlreadyListed => nextSeed \notin KeysListed
         /\ path # None
         /\ LastRotation(LinesAt(path)) \in Line
         /\ LastRotation(LinesAt(path)).by = seed
         /\ LastRotation(LinesAt(path)).next = nextSeed
         /\ \E i \in 1 .. Len(LinesAt(path)) :
              /\ LastRotation(LinesAt(path)) = LinesAt(path)[i]
              /\ IsRotation(LinesAt(path)[i])
  <1>1. seed # None /\ nextSeed # None /\ ~torn
    BY DEF Written, Decidable
  <1>2. ASSUME AlreadyListed PROVE Final(list).key = nextSeed
    BY <1>2 DEF AlreadyListed, Took, Listed
  <1>3. ASSUME ~AlreadyListed PROVE nextSeed \notin KeysListed
    BY <1>3 DEF Written, ToBeListed, KeptList, Took, Listed, KeysListed
  <1>4. \E i \in 1 .. Len(LinesAt(path)) : IsLastRotation(LinesAt(path), i)
    BY DEF Written, HandsOverTo
  <1>5. PICK i \in 1 .. Len(LinesAt(path)) :
          LastRotation(LinesAt(path)) = LinesAt(path)[i] /\ IsLastRotation(LinesAt(path), i)
    BY <1>4 DEF LastRotation
  <1>6. path # None
    BY <1>4 DEF LinesAt
  <1>7. LinesAt(path) \in Seq(Line)
    BY <1>6 DEF LinesAt, TypeOK, Maybe, Trail
  <1> QED
    BY <1>1, <1>2, <1>3, <1>5, <1>6, <1>7 DEF IsLastRotation, Written, HandsOverTo

-------------------------------------------------------------------------------
LEMMA InitShape ==
  ASSUME Init
  PROVE  Shape /\ KeysKept /\ MarkerTellsAll /\ GapIsNamed /\ Begun
  <1>1. PICK k \in Keys :
          InitFolder(k) /\ (InitFresh(k) \/ \E next \in Keys : InitLegacy(k, next))
    BY DEF Init
  <1>2. Len(list) = 1 /\ Final(list).key = k /\ KeysListed = {k}
    BY <1>1 DEF InitFolder, Final, Listed, KeysListed
  <1>3. seed = k /\ k # None /\ archived = {} /\ ~torn /\ path = 1 /\ bound = None
    BY <1>1, KeysAssumption DEF InitFolder
  <1>4. files[1].trail # None
    BY <1>1, FilesAssumption DEF InitFresh, InitLegacy, FirstTrail
  <1>5. CASE InitFresh(k)
    BY <1>2, <1>3, <1>4, <1>5
    DEF InitFresh, Shape, KeysKept, MarkerTellsAll, GapIsNamed, Begun, Running, Unlisted, Steps
  <1>6. CASE \E next \in Keys : InitLegacy(k, next)
    <2>1. PICK next \in Keys : InitLegacy(k, next)
      BY <1>6
    <2>2. nextSeed = next /\ next # k /\ next # None /\ made = {k, next}
      BY <2>1, KeysAssumption DEF InitLegacy
    <2>3. pc = "down"
      BY <2>1 DEF InitLegacy
    <2>4. marker \in Journal
      BY <2>1 DEF InitLegacy, Journal, Phases, Maybe
    <2> QED BY <1>2, <1>3, <1>4, <2>2, <2>3, <2>4, NoneAssumption
        DEF Shape, KeysKept, MarkerTellsAll, GapIsNamed, Begun, Running, Unlisted, Steps
  <1> QED BY <1>1, <1>5, <1>6

\* Where the folder is left alone, its shape depends on the step alone.
LEMMA FolderSame ==
  ASSUME Shape, KeysKept, MarkerTellsAll, GapIsNamed, UNCHANGED <<folder, made>>,
         pc' \notin {"idle", "down"} => marker # None,
         pc' \in Running =>
           /\ ~torn
           /\ seed = None <=> pc' \in {"placing", "promoting"}
           /\ nextSeed = None <=> pc' \in {"marked", "settling", "undoMarker"},
         pc' \in Unlisted => nextSeed \notin KeysListed,
         pc' \in {"listed", "archiving"} => Final(list).key = nextSeed
  PROVE  Shape' /\ KeysKept' /\ MarkerTellsAll' /\ GapIsNamed'
  <1>1. KeysListed' = KeysListed /\ Final(list)' = Final(list) /\ Len(list)' = Len(list)
    BY DEF folder, KeysListed, Final
  <1>2. /\ seed' = seed /\ nextSeed' = nextSeed /\ torn' = torn /\ made' = made
        /\ marker' = marker /\ archived' = archived
    BY DEF folder
  <1> QED BY <1>1, <1>2
    DEF Shape, KeysKept, MarkerTellsAll, GapIsNamed, Running, Unlisted, Steps, Final

\* Where the keys and the list are left alone, and the marker may change.
LEMMA KeysSame ==
  ASSUME UNCHANGED <<seed, nextSeed, list, made, archived>>
  PROVE  /\ KeysListed' = KeysListed /\ Final(list)' = Final(list)
         /\ Len(list)' = Len(list)
         /\ KeysKept => KeysKept'
  BY DEF KeysListed, Final, KeysKept

FolderFacts == Shape /\ KeysKept /\ MarkerTellsAll /\ GapIsNamed

-------------------------------------------------------------------------------
LEMMA RotatingShape ==
  ASSUME TypeOK, FolderFacts, Rotating
  PROVE  FolderFacts'
  <1> USE DEF FolderFacts
  <1>1. CASE Confirm
    <2>1. UNCHANGED <<seed, nextSeed, list, made, archived, torn>> /\ pc' = "marked"
          /\ marker = None /\ seed # None /\ ~torn
      BY <1>1 DEF Confirm, Journals, history
    <2>2. marker' \in Journal
      BY <1>1 DEF Confirm, Journals, Journal, Phases, Maybe, TypeOK, Trail
    <2> QED BY <2>1, <2>2, KeysSame, NoneAssumption
        DEF Shape, MarkerTellsAll, GapIsNamed, Running, Unlisted, Steps, Final
  <1>2. ASSUME NEW k \in Keys, Generate(k) PROVE FolderFacts'
    <2>1. /\ UNCHANGED <<seed, list, archived, torn, marker>> /\ pc = "marked"
          /\ pc' \in {"made", "undoNext"}
          /\ nextSeed = None /\ nextSeed' = k /\ made' = made \cup {k} /\ k \notin made
      BY <1>2 DEF Generate
    <2>2. KeysListed' = KeysListed /\ Final(list)' = Final(list)
      BY <2>1 DEF KeysListed, Final
    <2>3. k # None /\ marker # None /\ seed # None /\ ~torn /\ Final(list).key = seed
      BY <2>1, KeysAssumption, LastIsListed DEF Shape, Running, Steps
    <2>4. None \notin archived
      BY KeysAssumption DEF TypeOK
    <2>5. KeysKept'
      BY <2>1, <2>3, <2>4 DEF KeysKept
    <2> QED BY <2>1, <2>2, <2>3, <2>5
        DEF Shape, MarkerTellsAll, GapIsNamed, Running, Unlisted, Steps, Final
  <1>3. CASE GenerateNothing
    <2>1. /\ UNCHANGED <<seed, nextSeed, list, made, archived, torn>> /\ pc = "marked"
          /\ marker' = None /\ pc' = "idle"
      BY <1>3 DEF GenerateNothing, RemoveMarker, Ends, history
    <2>2. seed # None /\ nextSeed = None /\ ~torn /\ Final(list).key = seed
      BY <2>1, KeysAssumption, LastIsListed DEF Shape, Running, Steps
    <2> QED BY <2>1, <2>2, KeysSame
        DEF Shape, MarkerTellsAll, GapIsNamed, Running, Unlisted, Steps, Final
  <1>4. CASE JournalRotate
    <2>1. /\ UNCHANGED <<seed, nextSeed, list, made, archived, torn>> /\ pc = "made"
          /\ pc' = "journalled"
      BY <1>4 DEF JournalRotate, Journals, Goes, history
    <2>2. marker \in Journal
      BY <2>1 DEF Shape, TypeOK, Maybe
    <2>3. marker' # None
      BY <1>4, <2>2, NoneAssumption, SeenTyped, <2>1
      DEF JournalRotate, Journals, Journal, Phases, TypeOK, Maybe
    <2> QED BY <2>1, <2>2, <2>3, KeysSame, NoneAssumption
        DEF Shape, MarkerTellsAll, GapIsNamed, Running, Unlisted, Steps, Final
  <1>5. CASE GiveUp
    BY <1>5, FolderSame DEF GiveUp, Goes, history, Shape, Running, Unlisted, Steps
  <1>6. CASE Ask
    BY <1>6, FolderSame DEF Ask, Goes, history, Shape, Running, Unlisted, Steps
  <1>7. CASE JournalFinish
    <2>1. /\ UNCHANGED <<seed, nextSeed, list, made, archived, torn>> /\ pc = "rotated"
          /\ pc' = "finishing"
      BY <1>7 DEF JournalFinish, Journals, Goes, history
    <2>2. marker \in Journal
      BY <2>1 DEF Shape, TypeOK, Maybe
    <2>3. marker' # None
      BY <1>7, <2>2, NoneAssumption
      DEF JournalFinish, Journals, Journal, Phases, TypeOK, Maybe
    <2> QED BY <2>1, <2>2, <2>3, KeysSame, NoneAssumption
        DEF Shape, MarkerTellsAll, GapIsNamed, Running, Unlisted, Steps, Final
  <1> QED BY <1>1, <1>2, <1>3, <1>4, <1>5, <1>6, <1>7 DEF Rotating

LEMMA InspectingShape ==
  ASSUME TypeOK, FolderFacts, Inspecting
  PROVE  FolderFacts'
  <1> USE DEF FolderFacts
  <1>1. ASSUME pc \in {"refused", "recover", "finishing"}, Written(marker), Holds,
               UNCHANGED <<folder, history>>
        PROVE  FolderFacts'
    <2>1. pc' \in {"listed", "writing"} /\ (pc' = "listed" <=> AlreadyListed)
      BY <1>1 DEF Holds
    <2>2. marker # None
      BY <1>1 DEF Shape
    <2> QED BY <1>1, <2>1, <2>2, WrittenFacts, FolderSame
        DEF history, Running, Unlisted, Steps
  <1>2. CASE HoldAnswer
    <2>1. CASE Written(marker) /\ LastRotation(LinesAt(path)).at = at
      BY <1>1, <1>2, <2>1 DEF HoldAnswer
    <2>2. CASE ~(Written(marker) /\ LastRotation(LinesAt(path)).at = at)
      <3>1. pc' = "idle" /\ UNCHANGED <<folder, made>>
        BY <1>2, <2>2 DEF HoldAnswer, Ends, history
      <3> QED BY <3>1, FolderSame DEF Running, Unlisted, Steps
    <2> QED BY <2>1, <2>2
  <1>3. CASE InspectWritten
    BY <1>1, <1>3 DEF InspectWritten
  <1>4. CASE InspectUnwritten
    <2>1. seed # None /\ nextSeed # None /\ ~torn /\ nextSeed \notin KeysListed
      BY <1>4 DEF InspectUnwritten, Unwritten, Decidable
    <2>2. pc' = "withdrawing" /\ marker # None /\ UNCHANGED <<folder, made>>
      BY <1>4 DEF InspectUnwritten, history, Shape
    <2> QED BY <2>1, <2>2, FolderSame DEF Running, Unlisted, Steps
  <1>5. CASE InspectPromoting
    <2>1. seed = None /\ nextSeed # None /\ ~torn
      BY <1>5 DEF InspectPromoting, Promoting
    <2>2. pc' = "promoting" /\ marker # None /\ UNCHANGED <<folder, made>>
      BY <1>5 DEF InspectPromoting, history, Shape
    <2> QED BY <2>1, <2>2, FolderSame DEF Running, Unlisted, Steps
  <1>6. CASE InspectSettled
    <2>1. /\ UNCHANGED <<seed, nextSeed, list, made, archived, torn>>
          /\ marker' = None /\ pc' = "idle"
      BY <1>6 DEF InspectSettled, RemoveMarker, Ends, history
    <2>2. seed # None /\ nextSeed = None /\ ~torn /\ Final(list).key = seed
      BY <1>6 DEF InspectSettled, Settled, Agrees
    <2> QED BY <2>1, <2>2, KeysSame
        DEF Shape, MarkerTellsAll, GapIsNamed, Running, Unlisted, Steps, Final
  <1>7. CASE InspectUnknown
    <2>1. pc' = "idle" /\ UNCHANGED <<folder, made>>
      BY <1>7 DEF InspectUnknown, Ends, history
    <2> QED BY <2>1, FolderSame DEF Running, Unlisted, Steps
  <1> QED BY <1>2, <1>3, <1>4, <1>5, <1>6, <1>7 DEF Inspecting

LEMMA LookShape ==
  ASSUME FolderFacts, NEW before, NEW after, Look(before, after),
         <<before, after>> \in {<<"writing", "appending">>, <<"listed", "archiving">>,
                                <<"promoting", "placing">>, <<"withdrawing", "undoNext">>}
  PROVE  FolderFacts'
  <1>1. pc = before /\ pc' \in {after, "idle"} /\ UNCHANGED <<folder, made>>
    BY DEF Look, Goes, Ends, history
  <1> QED BY <1>1, FolderSame DEF FolderFacts, Shape, Running, Unlisted, Steps

\* The list appended to ends in the next key, and names no other new one.
LEMMA AppendShape ==
  ASSUME TypeOK, FolderFacts, AppendKey
  PROVE  /\ FolderFacts'
         /\ Len(list') = Len(list) + 1 /\ Final(list') = list'[Len(list')]
         /\ \A i \in 1 .. Len(list) : list'[i] = list[i]
         /\ Final(list') = Listed(nextSeed, at, files[bound].trail)
  <1> DEFINE new == Listed(nextSeed, at, files[bound].trail)
  <1>1. /\ list' = Append(list, new) /\ pc = "appending" /\ pc' = "listed"
        /\ UNCHANGED <<seed, nextSeed, torn, marker, archived, made>>
    BY DEF AppendKey, Goes, history
  <1>2. /\ seed # None /\ nextSeed # None /\ ~torn /\ marker # None
        /\ nextSeed \in Keys /\ nextSeed \in made
    BY <1>1 DEF FolderFacts, Shape, Running, Unlisted, Steps, TypeOK, Maybe, KeysKept
  <1>3. list \in Seq(ListedKey) /\ Len(list) \in Nat
    BY DEF TypeOK
  <1>4. /\ Len(list') = Len(list) + 1
        /\ list'[Len(list')] = new
        /\ \A i \in 1 .. Len(list) : list'[i] = list[i]
    BY <1>1, <1>3
  <1>5. Final(list') = new /\ new.key = nextSeed
    BY <1>4 DEF Final, Listed
  <1>6. KeysListed' \subseteq made
    <2>1. \A i \in 1 .. Len(list') : i \in 1 .. Len(list) \/ i = Len(list')
      BY <1>3, <1>4
    <2>2. \A i \in 1 .. Len(list) : list[i].key \in made
      BY DEF FolderFacts, Shape, KeysListed
    <2> QED BY <1>2, <1>4, <1>5, <2>1, <2>2 DEF KeysListed, Final
  <1>7. Shape'
    BY <1>1, <1>2, <1>3, <1>4, <1>5, <1>6
    DEF FolderFacts, Shape, Running, Unlisted, Steps, Final
  <1> QED BY <1>1, <1>2, <1>4, <1>5, <1>7
      DEF FolderFacts, KeysKept, MarkerTellsAll, GapIsNamed, Final

LEMMA FinishingShape ==
  ASSUME TypeOK, FolderFacts, Finishing
  PROVE  FolderFacts'
  <1> USE DEF FolderFacts
  <1>1. CASE LookBeforeList
    BY <1>1, LookShape DEF LookBeforeList
  <1>2. CASE LookBeforeMoves
    BY <1>2, LookShape DEF LookBeforeMoves
  <1>3. CASE LookBeforePlacing
    BY <1>3, LookShape DEF LookBeforePlacing
  <1>4. CASE LookBeforeUndo
    BY <1>4, LookShape DEF LookBeforeUndo
  <1>5. CASE AppendKey
    BY <1>5, AppendShape
  <1>6. CASE ArchiveSeed
    <2>1. /\ pc = "archiving" /\ pc' = "placing" /\ seed' = None
          /\ archived' = archived \cup {seed}
          /\ UNCHANGED <<nextSeed, list, torn, marker, made>>
      BY <1>6 DEF ArchiveSeed, Goes, history
    <2>2. KeysListed' = KeysListed /\ Final(list)' = Final(list)
      BY <2>1 DEF KeysListed, Final
    <2>3. /\ seed # None /\ nextSeed # None /\ marker # None /\ ~torn
          /\ Final(list).key = nextSeed
      BY <2>1 DEF Shape, Running, Steps
    <2>4. None \notin archived
      BY KeysAssumption DEF TypeOK
    <2>5. KeysKept'
      BY <2>1, <2>3, <2>4 DEF KeysKept
    <2> QED BY <2>1, <2>2, <2>3, <2>5
        DEF Shape, MarkerTellsAll, GapIsNamed, Running, Unlisted, Steps, Final
  <1>7. CASE PlaceNext
    <2>1. /\ pc = "placing" /\ pc' = "settling" /\ seed = None
          /\ seed' = nextSeed /\ nextSeed' = None
          /\ UNCHANGED <<archived, list, torn, marker, made>>
      BY <1>7 DEF PlaceNext, Goes, history
    <2>2. KeysListed' = KeysListed /\ Final(list)' = Final(list)
      BY <2>1 DEF KeysListed, Final
    <2>3. nextSeed # None /\ marker # None /\ ~torn /\ Final(list).key = nextSeed
      BY <2>1 DEF Shape, GapIsNamed, Running, Steps
    <2> QED BY <2>1, <2>2, <2>3
        DEF Shape, KeysKept, MarkerTellsAll, GapIsNamed, Running, Unlisted, Steps, Final
  <1>8. ASSUME pc \in {"settling", "undoMarker"}, RemoveMarker, pc' = "idle", UNCHANGED made
        PROVE  FolderFacts'
    <2>1. UNCHANGED <<seed, nextSeed, list, made, archived, torn>> /\ marker' = None
      BY <1>8 DEF RemoveMarker
    <2>2. seed # None /\ nextSeed = None /\ ~torn /\ Final(list).key = seed
      BY <1>8, KeysAssumption, LastIsListed DEF Shape, Running, Steps
    <2> QED BY <1>8, <2>1, <2>2, KeysSame
        DEF Shape, MarkerTellsAll, GapIsNamed, Running, Unlisted, Steps, Final
  <1>9. CASE Settle
    BY <1>8, <1>9 DEF Settle, Ends, history
  <1>10. CASE ArchiveNext
    <2>1. /\ pc = "undoNext" /\ pc' = "undoMarker" /\ nextSeed' = None
          /\ archived' = archived \cup {nextSeed}
          /\ UNCHANGED <<seed, list, torn, marker, made>>
      BY <1>10 DEF ArchiveNext, Goes, history
    <2>2. KeysListed' = KeysListed /\ Final(list)' = Final(list)
      BY <2>1 DEF KeysListed, Final
    <2>3. /\ seed # None /\ nextSeed # None /\ marker # None /\ ~torn
          /\ Final(list).key = seed
      BY <2>1, LastIsListed DEF Shape, Running, Unlisted, Steps
    <2>4. None \notin archived
      BY KeysAssumption DEF TypeOK
    <2>5. KeysKept'
      BY <2>1, <2>3, <2>4 DEF KeysKept
    <2> QED BY <2>1, <2>2, <2>3, <2>5
        DEF Shape, MarkerTellsAll, GapIsNamed, Running, Unlisted, Steps, Final
  <1>11. CASE ArchiveMarker
    BY <1>8, <1>11 DEF ArchiveMarker, Ends, history
  <1> QED BY <1>1, <1>2, <1>3, <1>4, <1>5, <1>6, <1>7, <1>9, <1>10, <1>11 DEF Finishing

\* A stop anywhere leaves the keys as they are; only a list being appended to
\* can be torn, and its marker is there.
LEMMA StopShape ==
  ASSUME FolderFacts, StepFails \/ Crash
  PROVE  FolderFacts'
  <1> USE DEF FolderFacts
  <1>1. /\ UNCHANGED <<seed, nextSeed, list, made, archived, marker>>
        /\ pc' \in {"idle", "down"} /\ pc \notin {"idle", "down"}
    BY DEF StepFails, Crash, Ends, history, CanFail
  <1>2. marker # None
    BY <1>1 DEF Shape
  <1> QED BY <1>1, <1>2, KeysSame
      DEF Shape, MarkerTellsAll, GapIsNamed, Running, Unlisted, Steps, Final

LEMMA StartShape ==
  ASSUME FolderFacts, Start
  PROVE  FolderFacts'
  <1>1. /\ pc' \in {"idle", "recover"} /\ (pc' = "recover" => marker # None)
        /\ UNCHANGED <<folder, made>>
    BY DEF Start, history
  <1> QED BY <1>1, FolderSame DEF FolderFacts, Running, Unlisted, Steps

LEMMA RuntimeShape ==
  ASSUME FolderFacts, Runtime
  PROVE  FolderFacts'
  <1>1. UNCHANGED <<folder, made>>
    BY DEF Runtime, RuntimeAnswers, AnswerIsLost, OrphanRotates, RuntimeRotates,
           RuntimeRefuses, RecordDecision, BeginTrail, history
  <1>2. \/ pc' = pc
        \/ pc = "asked" /\ pc' \in {"rotated", "refused"}
    BY DEF Runtime, RuntimeAnswers, AnswerIsLost, OrphanRotates,
           RuntimeRefuses, RecordDecision, BeginTrail, process
  <1> QED BY <1>1, <1>2, FolderSame DEF FolderFacts, Shape, Running, Unlisted, Steps

LEMMA OwnerShape ==
  ASSUME FolderFacts, Owner
  PROVE  FolderFacts'
  <1>1. UNCHANGED <<folder, made, pc>>
    BY DEF Owner, MoveAside, PutBack, CopyBack, CutBack, history, process
  <1> QED BY <1>1, FolderSame DEF FolderFacts, Shape, Running, Unlisted, Steps

-------------------------------------------------------------------------------
(* Types.                                                                  *)

Said == {None, "rotated", "conflict", "unknown", "unchanged", "kept",
         "unfinished", "settled"}

LEMMA InitTypes ==
  ASSUME Init
  PROVE  TypeOK
  <1>1. PICK k \in Keys :
          InitFolder(k) /\ (InitFresh(k) \/ \E next \in Keys : InitLegacy(k, next))
    BY DEF Init
  <1>2. /\ seed \in Keys /\ torn \in BOOLEAN /\ archived = {} /\ path \in Files
        /\ bound = None /\ at = 0 /\ answer = None /\ request = None
        /\ moves = 0 /\ stops = 0
    BY <1>1, FilesAssumption DEF InitFolder
  <1>3. list \in Seq(ListedKey)
    BY <1>1 DEF InitFolder, Listed, ListedKey, Maybe
  <1>4. ASSUME NEW lines \in Seq(Line), FirstTrail(lines)
        PROVE  files \in [Files -> Trail]
    BY <1>4, FilesAssumption DEF FirstTrail, Trail, NoTrailYet, Maybe
  <1>5. <<Signature(k, 1)>> \in Seq(Line)
    BY <1>1 DEF Signature, Line, Maybe
  <1>6. CASE InitFresh(k)
    BY <1>2, <1>3, <1>4, <1>5, <1>6 DEF InitFresh, TypeOK, Maybe, Steps
  <1>7. ASSUME NEW next \in Keys, InitLegacy(k, next) PROVE TypeOK
    <2>1. <<Signature(k, 1), Rotation(k, 1, next)>> \in Seq(Line)
      BY <1>1 DEF Signature, Rotation, Line, Maybe
    <2>2. files \in [Files -> Trail]
      BY <1>4, <1>5, <1>7, <2>1 DEF InitLegacy
    <2>3. marker \in Journal
      BY <1>7 DEF InitLegacy, Journal, Phases, Maybe
    <2>4. handed \subseteq Handover
      BY <1>7, FilesAssumption DEF InitLegacy, Handover
    <2> QED BY <1>2, <1>3, <1>7, <2>2, <2>3, <2>4 DEF InitLegacy, TypeOK, Maybe, Steps
  <1> QED BY <1>1, <1>6, <1>7

LEMMA RotatingTypes ==
  ASSUME IInv, Rotating
  PROVE  TypeOK'
  <1> USE DEF IInv
  <1>1. CASE Confirm
    <2>1. marker' \in Journal
      BY <1>1 DEF Confirm, Journals, Journal, Phases, Maybe, TypeOK, Trail
    <2> QED BY <1>1, <2>1 DEF Confirm, Journals, TypeOK, Maybe, Steps, audit, history
  <1>2. ASSUME NEW k \in Keys, Generate(k) PROVE TypeOK'
    BY <1>2 DEF Generate, TypeOK, Maybe, Steps, audit
  <1>3. CASE GenerateNothing
    BY <1>3 DEF GenerateNothing, RemoveMarker, Ends, TypeOK, Maybe, Steps, audit, history
  <1>4. CASE JournalRotate
    <2>1. marker \in Journal /\ nextSeed \in Maybe(Keys) /\ SeenAt(path) \in Maybe(Seen)
      BY <1>4, SeenTyped DEF JournalRotate, Shape, TypeOK, Maybe
    <2>2. marker' \in Journal
      BY <1>4, <2>1 DEF JournalRotate, Journals, Journal, Phases
    <2> QED BY <1>4, <2>2 DEF JournalRotate, Journals, Goes, TypeOK, Maybe, Steps, audit, history
  <1>5. CASE GiveUp
    BY <1>5 DEF GiveUp, Goes, TypeOK, Steps, folder, audit, history
  <1>6. CASE Ask
    <2>1. seed \in Keys /\ nextSeed \in Keys
      BY <1>6 DEF Ask, Shape, Running, Steps, TypeOK, Maybe
    <2> QED BY <1>6, <2>1 DEF Ask, Goes, TypeOK, Maybe, Steps, folder, audit, history
  <1>7. CASE JournalFinish
    <2>1. marker \in Journal /\ at \in Nat
      BY <1>7 DEF JournalFinish, Shape, TypeOK, Maybe
    <2>2. marker' \in Journal
      BY <1>7, <2>1 DEF JournalFinish, Journals, Journal, Phases
    <2> QED BY <1>7, <2>2 DEF JournalFinish, Journals, Goes, TypeOK, Maybe, Steps, audit, history
  <1> QED BY <1>1, <1>2, <1>3, <1>4, <1>5, <1>6, <1>7 DEF Rotating

LEMMA InspectingTypes ==
  ASSUME IInv, Inspecting
  PROVE  TypeOK'
  <1> USE DEF IInv
  <1>1. ASSUME Written(marker), Holds,
               UNCHANGED <<folder, audit, request, history, moves, stops>>
        PROVE  TypeOK'
    <2>1. at' \in Nat
      BY <1>1, WrittenFacts DEF Holds, Line
    <2> QED BY <1>1, <2>1 DEF Holds, TypeOK, Maybe, Steps, folder, audit, history
  <1>2. ASSUME NEW said \in Said, Ends(said),
               UNCHANGED <<folder, audit, request, history, moves, stops>>
        PROVE  TypeOK'
    BY <1>2 DEF Ends, Said, TypeOK, Maybe, Steps, folder, audit, history
  <1>3. CASE HoldAnswer
    BY <1>1, <1>2, <1>3 DEF HoldAnswer, Said
  <1>4. CASE InspectWritten
    BY <1>1, <1>4 DEF InspectWritten
  <1>5. CASE InspectUnwritten
    BY <1>5 DEF InspectUnwritten, TypeOK, Maybe, Steps, folder, audit, history
  <1>6. CASE InspectPromoting
    <2>1. marker \in Journal
      BY <1>6 DEF InspectPromoting, Shape, TypeOK, Maybe
    <2>2. marker.at \in Nat
      BY <2>1 DEF Journal
    <2> QED BY <1>6, <2>2 DEF InspectPromoting, TypeOK, Maybe, Steps, folder, audit, history
  <1>7. CASE InspectSettled
    BY <1>7 DEF InspectSettled, RemoveMarker, Ends, TypeOK, Maybe, Steps, audit, history
  <1>8. CASE InspectUnknown
    BY <1>2, <1>8 DEF InspectUnknown, Said
  <1> QED BY <1>3, <1>4, <1>5, <1>6, <1>7, <1>8 DEF Inspecting

LEMMA FinishingTypes ==
  ASSUME IInv, Finishing
  PROVE  TypeOK'
  <1> USE DEF IInv
  <1>1. ASSUME NEW before, NEW after \in Steps, Look(before, after) PROVE TypeOK'
    BY <1>1 DEF Look, Goes, Ends, TypeOK, Maybe, Steps, folder, audit, history
  <1>2. CASE LookBeforeList \/ LookBeforeMoves \/ LookBeforePlacing \/ LookBeforeUndo
    BY <1>1, <1>2
    DEF LookBeforeList, LookBeforeMoves, LookBeforePlacing, LookBeforeUndo, Steps
  <1>3. CASE AppendKey
    <2>1. nextSeed \in Keys /\ seed # None
      BY <1>3 DEF AppendKey, Shape, Running, Steps, TypeOK, Maybe
    <2>2. bound \in Files
      BY <1>3 DEF AppendKey, Begun, TypeOK, Maybe
    <2>3. Listed(nextSeed, at, files[bound].trail) \in ListedKey
      BY <2>1, <2>2 DEF Listed, ListedKey, TypeOK, Trail
    <2>4. list' \in Seq(ListedKey)
      BY <1>3, <2>3 DEF AppendKey, TypeOK
    <2> QED BY <1>3, <2>4 DEF AppendKey, Goes, TypeOK, Steps, audit, history
  <1>4. CASE ArchiveSeed
    <2>1. seed \in Keys
      BY <1>4 DEF ArchiveSeed, Shape, Running, Steps, TypeOK, Maybe
    <2> QED BY <1>4, <2>1 DEF ArchiveSeed, Goes, TypeOK, Maybe, Steps, audit, history
  <1>5. CASE PlaceNext
    BY <1>5 DEF PlaceNext, Goes, TypeOK, Maybe, Steps, audit, history
  <1>6. CASE Settle
    BY <1>6 DEF Settle, RemoveMarker, Ends, TypeOK, Maybe, Steps, audit, history
  <1>7. CASE ArchiveNext
    <2>1. nextSeed \in Keys
      BY <1>7 DEF ArchiveNext, Shape, Running, Steps, TypeOK, Maybe
    <2> QED BY <1>7, <2>1 DEF ArchiveNext, Goes, TypeOK, Maybe, Steps, audit, history
  <1>8. CASE ArchiveMarker
    BY <1>8 DEF ArchiveMarker, RemoveMarker, Ends, TypeOK, Maybe, Steps, audit, history
  <1> QED BY <1>2, <1>3, <1>4, <1>5, <1>6, <1>7, <1>8 DEF Finishing

LEMMA StopTypes ==
  ASSUME TypeOK, StepFails \/ Crash \/ Start
  PROVE  TypeOK'
  <1>1. CASE StepFails
    <2>1. torn' \in BOOLEAN
      BY <1>1 DEF StepFails, ListMayTear, TypeOK
    <2>2. /\ pc' = "idle" /\ bound' = None /\ at' = 0 /\ who' = who
          /\ answer' \in {answer, "unfinished"} /\ stops' = stops + 1
          /\ UNCHANGED <<seed, nextSeed, list, marker, archived,
                         audit, request, history, moves>>
      BY <1>1 DEF StepFails, Ends
    <2> QED BY <2>1, <2>2 DEF TypeOK, Maybe, Steps, audit, history
  <1>2. CASE Crash
    <2>1. torn' \in BOOLEAN
      BY <1>2 DEF Crash, ListMayTear, TypeOK
    <2>2. /\ pc' = "down" /\ bound' = None /\ at' = 0 /\ answer' = None
          /\ request' \in {request, None} /\ stops' = stops + 1
          /\ UNCHANGED <<seed, nextSeed, list, marker, archived, who,
                         audit, history, moves>>
      BY <1>2 DEF Crash
    <2> QED BY <2>1, <2>2 DEF TypeOK, Maybe, Steps, audit, history
  <1>3. CASE Start
    BY <1>3 DEF Start, TypeOK, Maybe, Steps, folder, audit, history
  <1> QED BY <1>1, <1>2, <1>3

\* A trail file with a line more, or with fewer lines, is a trail file.
LEMMA FilesTyped ==
  ASSUME TypeOK, NEW f \in Files, NEW g \in Trail, files' = [files EXCEPT ![f] = g]
  PROVE  /\ files' \in [Files -> Trail]
         /\ files'[f] = g
         /\ \A h \in Files : h # f => files'[h] = files[h]
  BY DEF TypeOK

LEMMA RuntimeTypes ==
  ASSUME IInv, Runtime
  PROVE  TypeOK' /\ Begun'
  <1> USE DEF IInv
  <1>1. ASSUME RuntimeRotates
        PROVE  /\ files' \in [Files -> Trail] /\ handed' \subseteq Handover
               /\ \A h \in Files : files'[h].trail = files[h].trail
               /\ request' = None
               /\ UNCHANGED <<path, folder, who, bound, answer, made, moves, stops>>
               /\ files[path].records \in Nat
    <2>1. path \in Files /\ request \in [by : Keys, next : Keys] /\ files[path] \in Trail
      BY <1>1 DEF RuntimeRotates, TypeOK, Maybe
    <2>2. files[path].records \in Nat /\ files[path].lines \in Seq(Line)
      BY <2>1 DEF Trail
    <2>3. Rotation(request.by, files[path].records, request.next) \in Line
      BY <2>1, <2>2 DEF Rotation, Line, Maybe
    <2> DEFINE more == Append(files[path].lines,
                         Rotation(request.by, files[path].records, request.next))
               g == [files[path] EXCEPT !.lines = more]
    <2>31. more \in Seq(Line)
      BY <2>2, <2>3
    <2>4. g \in Trail /\ g.trail = files[path].trail
      <3> HIDE DEF more
      <3> QED BY <2>1, <2>31 DEF Trail
    <2>5. files' = [files EXCEPT ![path] = g]
      BY <1>1 DEF RuntimeRotates, Writes
    <2> HIDE DEF g
    <2>6. files' \in [Files -> Trail] /\ \A h \in Files : files'[h].trail = files[h].trail
      BY <2>1, <2>4, <2>5, FilesTyped
    <2>7. files[path].trail \in Files
      BY <2>1, <1>1 DEF Begun, RuntimeRotates, Trail, Maybe
    <2>8. handed' \subseteq Handover
      BY <1>1, <2>1, <2>2, <2>7 DEF RuntimeRotates, Handover, TypeOK
    <2> QED BY <1>1, <2>2, <2>6, <2>8 DEF RuntimeRotates
  <1>2. CASE RuntimeAnswers \/ AnswerIsLost \/ OrphanRotates
    <2>1. RuntimeRotates
      BY <1>2 DEF RuntimeAnswers, AnswerIsLost, OrphanRotates
    <2>2. pc' \in {pc, "rotated", "refused"} /\ at' \in {at, files[path].records}
      BY <1>2 DEF RuntimeAnswers, AnswerIsLost, OrphanRotates
    <2>3. TypeOK'
      BY <1>1, <2>1, <2>2 DEF TypeOK, Maybe, Steps, folder
    <2>4. Begun'
      BY <1>1, <2>1, <2>2 DEF TypeOK, Maybe, Begun
    <2> QED BY <2>3, <2>4
  <1>3. CASE RuntimeRefuses
    <2>1. /\ pc' \in {pc, "refused"} /\ request' = None
          /\ UNCHANGED <<who, bound, at, answer, folder, audit, history, moves, stops>>
      BY <1>3 DEF RuntimeRefuses
    <2>2. TypeOK'
      BY <2>1 DEF TypeOK, Maybe, Steps, folder, audit, history
    <2> QED BY <2>1, <2>2 DEF Begun, audit
  <1>4. CASE RecordDecision
    <2>1. path \in Files /\ files[path] \in Trail
          /\ UNCHANGED <<path, folder, process, request, history, moves, stops>>
      BY <1>4 DEF RecordDecision, TypeOK, Maybe
    <2> DEFINE n == files[path].records + 1
               signed == seed # None /\ (LinesAt(path) = <<>> \/ InForce(LinesAt(path)) = seed)
               more == IF signed THEN Append(files[path].lines, Signature(seed, n))
                       ELSE files[path].lines
               g == [files[path] EXCEPT !.records = n, !.lines = more]
    <2>2. n \in Nat /\ files[path].lines \in Seq(Line)
      BY <2>1 DEF Trail
    <2>3. seed # None => Signature(seed, n) \in Line
      BY <2>2 DEF Signature, Line, Maybe, TypeOK
    <2>31. more \in Seq(Line)
      BY <2>2, <2>3
    <2>4. g \in Trail /\ g.trail = files[path].trail
      <3> HIDE DEF more
      <3> QED BY <2>1, <2>2, <2>31 DEF Trail
    <2>5. files' = [files EXCEPT ![path] = g]
      BY <1>4 DEF RecordDecision
    <2> HIDE DEF g
    <2>6. files' \in [Files -> Trail] /\ \A h \in Files : files'[h].trail = files[h].trail
      BY <2>1, <2>4, <2>5, FilesTyped
    <2>7. TypeOK'
      BY <2>1, <2>6 DEF TypeOK, folder, process, history
    <2> QED BY <2>1, <2>6, <2>7 DEF Begun, TypeOK, Maybe, process
  <1>5. ASSUME NEW f \in Files, BeginTrail(f) PROVE TypeOK' /\ Begun'
    <2> DEFINE g == [trail |-> f, records |-> 1,
                     lines |-> IF seed = None THEN <<>> ELSE <<Signature(seed, 1)>>]
    <2>1. seed # None => Signature(seed, 1) \in Line
      BY DEF Signature, Line, Maybe, TypeOK
    <2>2. g \in Trail /\ g.trail = f
      BY <2>1 DEF Trail, Maybe
    <2>3. files' = [files EXCEPT ![f] = g] /\ path' = f
          /\ UNCHANGED <<folder, process, request, history, moves, stops>>
      BY <1>5 DEF BeginTrail
    <2> HIDE DEF g
    <2>4. /\ files' \in [Files -> Trail] /\ files'[f].trail = f
          /\ \A h \in Files : h # f => files'[h] = files[h]
      BY <2>2, <2>3, FilesTyped
    <2>5. TypeOK'
      BY <2>3, <2>4 DEF TypeOK, Maybe, folder, process, history
    <2> QED BY <2>3, <2>4, <2>5, FilesAssumption DEF Begun, TypeOK, Maybe, process
  <1> QED BY <1>2, <1>3, <1>4, <1>5 DEF Runtime

LEMMA OwnerTypes ==
  ASSUME IInv, Owner
  PROVE  TypeOK' /\ Begun'
  <1> USE DEF IInv
  <1>1. CASE MoveAside
    BY <1>1 DEF MoveAside, Moves, TypeOK, Maybe, Begun, folder, process, history
  <1>2. ASSUME NEW f \in Files, PutBack(f) PROVE TypeOK' /\ Begun'
    BY <1>2 DEF PutBack, Moves, TypeOK, Maybe, Begun, folder, process, history
  <1>3. ASSUME NEW lines \in Seq(Line), NEW n \in 1 .. Len(lines)
        PROVE  SubSeq(lines, 1, n) \in Seq(Line) /\ lines[n].at \in Nat
    <2>1. lines[n] \in Line /\ SubSeq(lines, 1, n) \in Seq(Line)
      OBVIOUS
    <2> QED BY <2>1 DEF Line
  <1>4. ASSUME NEW f \in Files, NEW h \in Files, NEW n \in 1 .. Len(files[h].lines),
               CopyBack(f, h, n)
        PROVE  TypeOK' /\ Begun'
    <2> DEFINE g == [trail |-> files[h].trail, records |-> files[h].lines[n].at,
                     lines |-> SubSeq(files[h].lines, 1, n)]
    <2>1. files[h].lines \in Seq(Line) /\ files[h].trail \in Maybe(Files)
      BY DEF TypeOK, Trail
    <2>2. g \in Trail /\ g.trail = files[h].trail /\ files[h].trail # None
      BY <1>3, <1>4, <2>1 DEF Trail, CopyBack
    <2>3. files' = [files EXCEPT ![f] = g] /\ path' = f /\ moves' = moves + 1
          /\ UNCHANGED <<folder, process, request, history, stops>>
      BY <1>4 DEF CopyBack, Moves
    <2> HIDE DEF g
    <2>4. /\ files' \in [Files -> Trail] /\ files'[f].trail # None
          /\ \A i \in Files : i # f => files'[i] = files[i]
      BY <2>2, <2>3, FilesTyped
    <2>5. TypeOK'
      BY <2>3, <2>4 DEF TypeOK, Maybe, folder, process, history
    <2> QED BY <2>3, <2>4, <2>5 DEF Begun, TypeOK, Maybe, process
  <1>5. ASSUME NEW n \in 1 .. Len(LinesAt(path)), CutBack(n) PROVE TypeOK' /\ Begun'
    <2>1. path \in Files /\ files[path] \in Trail
      BY <1>5 DEF CutBack, TypeOK, Maybe
    <2> DEFINE g == [files[path] EXCEPT !.lines = SubSeq(@, 1, n)]
    <2>2. files[path].lines \in Seq(Line) /\ n \in 1 .. Len(files[path].lines)
      BY <1>5, <2>1 DEF Trail, LinesAt, CutBack
    <2>3. g \in Trail /\ g.trail = files[path].trail
      BY <1>3, <2>1, <2>2 DEF Trail
    <2>4. files' = [files EXCEPT ![path] = g] /\ moves' = moves + 1
          /\ UNCHANGED <<path, folder, process, request, history, stops>>
      BY <1>5 DEF CutBack, Moves
    <2> HIDE DEF g
    <2>5. files' \in [Files -> Trail] /\ \A i \in Files : files'[i].trail = files[i].trail
      BY <2>1, <2>3, <2>4, FilesTyped
    <2>6. TypeOK'
      BY <2>4, <2>5 DEF TypeOK, folder, process, history
    <2> QED BY <2>4, <2>5, <2>6 DEF Begun, TypeOK, Maybe, process
  <1> QED BY <1>1, <1>2, <1>4, <1>5 DEF Owner

\* Desk's own steps change no trail file, and bind only the one at the path.
LEMMA DeskBegun ==
  ASSUME IInv, Rotating \/ Inspecting \/ Finishing \/ StepFails \/ Crash \/ Start
  PROVE  Begun'
  <1> USE DEF IInv
  <1>1. ASSUME Written(marker), Holds PROVE bound' = path /\ path # None
    BY <1>1, WrittenFacts DEF Holds
  <1>2. UNCHANGED audit
    BY DEF Rotating, Confirm, Generate, GenerateNothing, JournalRotate, GiveUp, Ask,
           JournalFinish, Inspecting, HoldAnswer, InspectWritten, InspectUnwritten,
           InspectPromoting, InspectSettled, InspectUnknown, Finishing, LookBeforeList,
           LookBeforeMoves, LookBeforePlacing, LookBeforeUndo, Look, AppendKey,
           ArchiveSeed, PlaceNext, Settle, ArchiveNext, ArchiveMarker, StepFails, Crash,
           Start
  <1>3. \/ bound' \in {bound, None} /\ pc' \notin {"writing", "appending"}
        \/ bound' = bound /\ pc = "writing" /\ pc' = "appending"
        \/ bound' = path /\ (pc' = "writing" => path # None) /\ pc' # "appending"
    <2>1. CASE Rotating
      BY <2>1 DEF Rotating, Confirm, Generate, GenerateNothing, JournalRotate, GiveUp,
                  Ask, JournalFinish, Goes, Ends
    <2>2. CASE Inspecting
      <3>1. CASE HoldAnswer
        BY <1>1, <3>1 DEF HoldAnswer, Holds, Ends
      <3>2. CASE InspectWritten
        BY <1>1, <3>2 DEF InspectWritten, Holds
      <3> QED BY <2>2, <3>1, <3>2
          DEF Inspecting, InspectUnwritten, InspectPromoting, InspectSettled,
              InspectUnknown, Ends
    <2>3. CASE Finishing
      BY <2>3 DEF Finishing, LookBeforeList, LookBeforeMoves, LookBeforePlacing,
                  LookBeforeUndo, Look, AppendKey, ArchiveSeed, PlaceNext, Settle,
                  ArchiveNext, ArchiveMarker, Goes, Ends
    <2>4. CASE StepFails \/ Crash \/ Start
      BY <2>4 DEF StepFails, Crash, Start, Ends
    <2> QED BY <2>1, <2>2, <2>3, <2>4
  <1> QED BY <1>2, <1>3 DEF Begun, audit

-------------------------------------------------------------------------------
\* The strengthened invariant is inductive.
LEMMA Inductive ==
  ASSUME IInv, [Next]_vars
  PROVE  IInv'
  <1>1. CASE Rotating
    BY <1>1, RotatingTypes, RotatingShape, DeskBegun DEF IInv, FolderFacts
  <1>2. CASE Inspecting
    BY <1>2, InspectingTypes, InspectingShape, DeskBegun DEF IInv, FolderFacts
  <1>3. CASE Finishing
    BY <1>3, FinishingTypes, FinishingShape, DeskBegun DEF IInv, FolderFacts
  <1>4. CASE StepFails \/ Crash
    BY <1>4, StopTypes, StopShape, DeskBegun DEF IInv, FolderFacts
  <1>5. CASE Start
    BY <1>5, StopTypes, StartShape, DeskBegun DEF IInv, FolderFacts
  <1>6. CASE Runtime
    BY <1>6, RuntimeTypes, RuntimeShape DEF IInv, FolderFacts
  <1>7. CASE Owner
    BY <1>7, OwnerTypes, OwnerShape DEF IInv, FolderFacts
  <1>8. CASE UNCHANGED vars
    <2>1. UNCHANGED <<folder, audit, process, request, history, moves, stops>>
      BY <1>8 DEF vars
    <2>2. UNCHANGED <<folder, made, pc>> /\ UNCHANGED <<files, path, bound>>
      BY <2>1 DEF history, process, audit
    <2>3. Shape' /\ KeysKept' /\ MarkerTellsAll' /\ GapIsNamed'
      BY <2>2, FolderSame DEF IInv, Shape, Running, Unlisted, Steps
    <2>4. TypeOK'
      BY <2>1 DEF IInv, TypeOK, folder, audit, process, history
    <2> QED BY <2>2, <2>3, <2>4 DEF IInv, Begun
  <1> QED BY <1>1, <1>2, <1>3, <1>4, <1>5, <1>6, <1>7, <1>8 DEF Next

LEMMA IInvHolds == Spec => []IInv
  <1>1. Init => IInv
    BY InitTypes, InitShape DEF IInv
  <1>2. IInv /\ [Next]_vars => IInv'
    BY Inductive
  <1> QED BY <1>1, <1>2, PTL DEF Spec

\* Every state of a rotation, a recovery and a stop is of its type.
THEOREM TypeCorrect == Spec => []TypeOK
  <1>1. IInv => TypeOK
    BY DEF IInv
  <1> QED BY <1>1, IInvHolds, PTL

\* rotation.go, "No seed is ever removed": at every moment each key ever made
\* is the current one, the next one or in the archive, and in one place only.
THEOREM NoKeyIsLost == Spec => []KeysKept
  <1>1. IInv => KeysKept
    BY DEF IInv
  <1> QED BY <1>1, IInvHolds, PTL

\* A desk without a marker has nothing to finish: a seed, no next seed, and a
\* whole list ending in that seed, wherever a rotation or a recovery stopped.
THEOREM NoMarkerNothingLeft == Spec => []MarkerTellsAll
  <1>1. IInv => MarkerTellsAll
    BY DEF IInv
  <1> QED BY <1>1, IInvHolds, PTL

\* While the desk names no seed, the marker and the next seed are there, and the
\* list already ends in the next key: a stop between the two moves loses nothing.
THEOREM NoSeedIsAccountedFor == Spec => []GapIsNamed
  <1>1. IInv => GapIsNamed
    BY DEF IInv
  <1> QED BY <1>1, IInvHolds, PTL

-------------------------------------------------------------------------------
(* What the rotation keeps for the desk's owner: the list of public keys     *)
(* names what runtimes wrote, and the signing folder keeps KeyCustody's      *)
(* promise.  Both rest on the invariant above.                               *)

\* A runtime handed over from `by` to `next`, on trail t, after record n.
WasHanded(t, by, next, n) ==
    \E h \in handed : h.trail = t /\ h.by = by /\ h.next = next /\ h.at = n

\* Every rotation line of every sidecar is one a runtime wrote on its trail.
LinesHanded ==
    \A f \in Files : \A i \in 1 .. Len(files[f].lines) :
        IsRotation(files[f].lines[i]) =>
            WasHanded(files[f].trail, files[f].lines[i].by,
                      files[f].lines[i].next, files[f].lines[i].at)

\* The rotation decided on, and not listed yet, is one a runtime wrote.
DecisionHanded ==
    pc \in {"writing", "appending"} =>
        WasHanded(files[bound].trail, seed, nextSeed, at)

JInv == IInv /\ LinesHanded /\ DecisionHanded /\ ListIsWritten

-------------------------------------------------------------------------------
LEMMA InitHanded ==
  ASSUME Init
  PROVE  LinesHanded /\ DecisionHanded /\ ListIsWritten
  <1>1. PICK k \in Keys :
          InitFolder(k) /\ (InitFresh(k) \/ \E next \in Keys : InitLegacy(k, next))
    BY DEF Init
  <1>2. Len(list) = 1
    BY <1>1 DEF InitFolder
  <1>3. pc \notin {"writing", "appending"}
    BY <1>1 DEF InitFresh, InitLegacy
  <1>4. ASSUME FirstTrail(<<Signature(k, 1)>>) PROVE LinesHanded
    BY <1>4 DEF FirstTrail, LinesHanded, NoTrailYet, Signature, IsRotation
  <1>5. ASSUME NEW next \in Keys, FirstTrail(<<Signature(k, 1), Rotation(k, 1, next)>>),
               handed = {[file |-> 1, trail |-> 1, by |-> k, next |-> next, at |-> 1]}
        PROVE  LinesHanded
    BY <1>5 DEF FirstTrail, LinesHanded, NoTrailYet, Signature, Rotation, IsRotation, WasHanded
  <1>6. LinesHanded
    BY <1>1, <1>4, <1>5 DEF InitFresh, InitLegacy
  <1> QED BY <1>2, <1>3, <1>6 DEF DecisionHanded, ListIsWritten

\* Desk decides to list only what the sidecar at the path says it was handed.
LEMMA HoldsHanded ==
  ASSUME TypeOK, LinesHanded, Written(marker), Holds,
         UNCHANGED <<folder, audit, history>>
  PROVE  DecisionHanded'
  <1> DEFINE last == LastRotation(LinesAt(path))
  <1>1. path \in Files /\ LinesAt(path) = files[path].lines
    BY WrittenFacts DEF TypeOK, Maybe, LinesAt
  <1>2. PICK i \in 1 .. Len(files[path].lines) :
          last = files[path].lines[i] /\ IsRotation(files[path].lines[i])
    BY <1>1, WrittenFacts
  <1>3. WasHanded(files[path].trail, last.by, last.next, last.at)
    BY <1>1, <1>2 DEF LinesHanded
  <1>4. last.by = seed /\ last.next = nextSeed
    BY WrittenFacts
  <1>5. WasHanded(files[path].trail, seed, nextSeed, last.at)
    BY <1>3, <1>4
  <1>6. /\ bound' = path /\ at' = last.at /\ files' = files /\ handed' = handed
        /\ seed' = seed /\ nextSeed' = nextSeed
    BY DEF Holds, folder, audit, history
  <1> QED BY <1>5, <1>6 DEF DecisionHanded, WasHanded

\* The sidecars are not Desk's to write.
LEMMA DeskLines ==
  ASSUME LinesHanded, UNCHANGED <<files, handed>>
  PROVE  LinesHanded'
  BY DEF LinesHanded, WasHanded

LEMMA ListSame ==
  ASSUME ListIsWritten, UNCHANGED list, handed \subseteq handed'
  PROVE  ListIsWritten'
  BY DEF ListIsWritten

LEMMA DeskHanded ==
  ASSUME IInv, IInv', LinesHanded, DecisionHanded, ListIsWritten,
         Rotating \/ Inspecting \/ Finishing \/ StepFails \/ Crash \/ Start
  PROVE  LinesHanded' /\ DecisionHanded' /\ ListIsWritten'
  <1>1. UNCHANGED <<files, handed>>
    BY DEF Rotating, Confirm, Generate, GenerateNothing, JournalRotate, GiveUp, Ask,
           JournalFinish, Inspecting, HoldAnswer, InspectWritten, InspectUnwritten,
           InspectPromoting, InspectSettled, InspectUnknown, Finishing, LookBeforeList,
           LookBeforeMoves, LookBeforePlacing, LookBeforeUndo, Look, AppendKey,
           ArchiveSeed, PlaceNext, Settle, ArchiveNext, ArchiveMarker, StepFails, Crash,
           Start, audit, history
  <1>2. LinesHanded'
    BY <1>1, DeskLines
  <1>3. CASE AppendKey
    <2>1. WasHanded(files[bound].trail, seed, nextSeed, at) /\ pc' = "listed"
      BY <1>3 DEF AppendKey, DecisionHanded, Goes
    <2>2. Final(list).key = seed
      BY <1>3, LastIsListed DEF AppendKey, IInv, Shape, Unlisted
    <2> DEFINE new == Listed(nextSeed, at, files[bound].trail)
    <2>3. list' = Append(list, new) /\ list \in Seq(ListedKey) /\ Len(list) >= 1
      BY <1>3 DEF AppendKey, IInv, TypeOK, Shape
    <2>4. /\ Len(list') = Len(list) + 1 /\ list'[Len(list) + 1] = new
          /\ \A i \in 1 .. Len(list) : list'[i] = list[i]
      BY <2>3
    <2>5. ASSUME NEW i \in 2 .. Len(list')
          PROVE  WasHanded(list'[i].trail, list'[i - 1].key, list'[i].key, list'[i].at)
      <3>1. CASE i = Len(list) + 1
        <4>1. i - 1 = Len(list) /\ list'[i - 1] = list[Len(list)]
          BY <2>3, <2>4, <3>1
        <4>2. /\ new.key = nextSeed /\ new.at = at /\ new.trail = files[bound].trail
              /\ list'[i] = new /\ list'[i - 1].key = seed
          BY <2>2, <2>4, <3>1, <4>1 DEF Listed, Final
        <4> HIDE DEF new
        <4> QED BY <2>1, <4>2
      <3>2. CASE i # Len(list) + 1
        <4>1. i \in 2 .. Len(list) /\ list'[i] = list[i] /\ list'[i - 1] = list[i - 1]
          BY <2>3, <2>4, <3>2
        <4> QED BY <4>1 DEF ListIsWritten, WasHanded
      <3> QED BY <3>1, <3>2
    <2>6. ListIsWritten'
      BY <1>1, <2>5 DEF ListIsWritten, WasHanded
    <2> QED BY <1>2, <2>1, <2>6 DEF DecisionHanded
  <1>4. CASE HoldAnswer \/ InspectWritten
    <2>1. UNCHANGED <<folder, audit, history>>
      BY <1>4 DEF HoldAnswer, InspectWritten
    <2>2. DecisionHanded'
      <3>1. CASE Written(marker) /\ Holds
        BY <2>1, <3>1, HoldsHanded DEF IInv
      <3>2. CASE ~(Written(marker) /\ Holds)
        <4>1. pc' = "idle"
          BY <1>4, <3>2 DEF HoldAnswer, InspectWritten, Ends
        <4> QED BY <4>1 DEF DecisionHanded
      <3> QED BY <3>1, <3>2
    <2> QED BY <1>1, <1>2, <2>1, <2>2, ListSame DEF folder
  <1>5. CASE LookBeforeList
    <2>1. UNCHANGED <<list, seed, nextSeed, files, handed>>
      BY <1>5 DEF LookBeforeList, Look, folder, audit, history
    <2>2. pc = "writing" /\ (pc' = "idle" \/ UNCHANGED <<bound, at>>)
      BY <1>5 DEF LookBeforeList, Look, Goes, Ends
    <2> QED BY <1>2, <2>1, <2>2, ListSame DEF DecisionHanded, WasHanded
  <1>6. CASE ~(AppendKey \/ HoldAnswer \/ InspectWritten \/ LookBeforeList)
    <2>1. pc' \notin {"writing", "appending"}
      BY <1>6 DEF Rotating, Confirm, Generate, GenerateNothing, JournalRotate, GiveUp,
             Ask, JournalFinish, Inspecting, InspectUnwritten, InspectPromoting,
             InspectSettled, InspectUnknown, Finishing, LookBeforeMoves,
             LookBeforePlacing, LookBeforeUndo, Look, ArchiveSeed, PlaceNext, Settle,
             ArchiveNext, ArchiveMarker, StepFails, Crash, Start, Goes, Ends
    <2>2. UNCHANGED list
      BY <1>6 DEF Rotating, Confirm, Generate, GenerateNothing, JournalRotate, GiveUp,
             Ask, JournalFinish, Inspecting, InspectUnwritten, InspectPromoting,
             InspectSettled, InspectUnknown, Finishing, LookBeforeMoves,
             LookBeforePlacing, LookBeforeUndo, Look, ArchiveSeed, PlaceNext, Settle,
             ArchiveNext, ArchiveMarker, StepFails, Crash, Start, RemoveMarker, Journals,
             folder
    <2> QED BY <1>1, <1>2, <2>1, <2>2, ListSame DEF DecisionHanded
  <1> QED BY <1>3, <1>4, <1>5, <1>6

-------------------------------------------------------------------------------
\* A file's lines are handed where each is an earlier line of the same trail,
\* or no rotation, or one now in the history.
LEMMA OneFileHanded ==
  ASSUME TypeOK, LinesHanded, handed \subseteq handed', NEW f \in Files, NEW g,
         files' = [files EXCEPT ![f] = g],
         \A i \in 1 .. Len(g.lines) : IsRotation(g.lines[i]) =>
             \E h \in handed' : /\ h.trail = g.trail /\ h.by = g.lines[i].by
                                /\ h.next = g.lines[i].next /\ h.at = g.lines[i].at
  PROVE  LinesHanded'
  <1>1. files'[f] = g /\ \A e \in Files : e # f => files'[e] = files[e]
    BY DEF TypeOK
  <1>2. ASSUME NEW e \in Files, NEW i \in 1 .. Len(files'[e].lines),
               IsRotation(files'[e].lines[i])
        PROVE  WasHanded(files[e].trail, files[e].lines[i].by,
                         files[e].lines[i].next, files[e].lines[i].at)'
    <2>1. CASE e = f
      BY <1>1, <1>2, <2>1 DEF WasHanded
    <2>2. CASE e # f
      BY <1>1, <1>2, <2>2 DEF WasHanded, LinesHanded
    <2> QED BY <2>1, <2>2
  <1> QED BY <1>2 DEF LinesHanded, IsRotation

\* A decision stands while its trail and what was handed over do.
LEMMA DecisionSame ==
  ASSUME DecisionHanded, handed \subseteq handed', UNCHANGED <<seed, nextSeed>>,
         pc' \in {"writing", "appending"} =>
            /\ UNCHANGED <<pc, at, bound>>
            /\ files'[bound].trail = files[bound].trail
  PROVE  DecisionHanded'
  BY DEF DecisionHanded, WasHanded

LEMMA RuntimeHanded ==
  ASSUME IInv, LinesHanded, DecisionHanded, ListIsWritten, Runtime
  PROVE  LinesHanded' /\ DecisionHanded' /\ ListIsWritten'
  <1> USE DEF IInv
  <1>1. UNCHANGED <<seed, nextSeed, list, bound>>
    BY DEF Runtime, RuntimeAnswers, AnswerIsLost, OrphanRotates, RuntimeRotates,
           RuntimeRefuses, RecordDecision, BeginTrail, folder, process
  <1>2. pc' \in {"writing", "appending"} => UNCHANGED <<pc, at>>
    BY DEF Runtime, RuntimeAnswers, AnswerIsLost, OrphanRotates, RuntimeRotates,
           RuntimeRefuses, RecordDecision, BeginTrail, process
  <1>3. CASE RuntimeRotates
    <2> DEFINE line == Rotation(request.by, files[path].records, request.next)
               more == Append(files[path].lines, line)
               g == [files[path] EXCEPT !.lines = more]
               hand == [file |-> path, trail |-> files[path].trail, by |-> request.by,
                        next |-> request.next, at |-> files[path].records]
    <2>1. /\ path \in Files /\ files[path].lines \in Seq(Line) /\ files[path] \in Trail
          /\ files' = [files EXCEPT ![path] = g] /\ handed' = handed \cup {hand}
      BY <1>3 DEF RuntimeRotates, Writes, TypeOK, Maybe, Trail
    <2>2. g.lines = more /\ g.trail = files[path].trail
      <3> HIDE DEF more
      <3> QED BY <2>1 DEF Trail
    <2>3. /\ Len(more) = Len(files[path].lines) + 1
          /\ more[Len(files[path].lines) + 1] = line
          /\ \A i \in 1 .. Len(files[path].lines) : more[i] = files[path].lines[i]
      BY <2>1
    <2>4. ASSUME NEW i \in 1 .. Len(more), IsRotation(more[i])
          PROVE  \E h \in handed' : /\ h.trail = files[path].trail /\ h.by = more[i].by
                                    /\ h.next = more[i].next /\ h.at = more[i].at
      <3>1. CASE i = Len(files[path].lines) + 1
        <4>1. more[i] = line /\ hand \in handed'
          BY <2>1, <2>3, <3>1
        <4>2. /\ hand.trail = files[path].trail /\ hand.by = line.by
              /\ hand.next = line.next /\ hand.at = line.at
          BY DEF Rotation
        <4> HIDE DEF hand, line, more
        <4> QED BY <4>1, <4>2
      <3>2. CASE i # Len(files[path].lines) + 1
        <4>1. i \in 1 .. Len(files[path].lines) /\ more[i] = files[path].lines[i]
          BY <2>1, <2>3, <3>2
        <4> QED BY <2>1, <2>4, <4>1 DEF LinesHanded, WasHanded
      <3> QED BY <3>1, <3>2
    <2> HIDE DEF line, hand, more, g
    <2>5. LinesHanded'
      <3>1. handed \subseteq handed'
        BY <2>1
      <3>2. ASSUME NEW i \in 1 .. Len(g.lines), IsRotation(g.lines[i])
            PROVE  \E h \in handed' : /\ h.trail = g.trail /\ h.by = g.lines[i].by
                                      /\ h.next = g.lines[i].next /\ h.at = g.lines[i].at
        BY <2>2, <2>4, <3>2
      <3> QED BY <2>1, <3>1, <3>2, OneFileHanded
    <2>6. bound # None => files'[bound].trail = files[bound].trail
      BY <2>1, <2>2 DEF TypeOK, Maybe
    <2>7. pc \in {"writing", "appending"} => bound # None
      BY DEF Begun
    <2> QED BY <1>1, <1>2, <2>1, <2>5, <2>6, <2>7, DecisionSame, ListSame
  <1>4. CASE RuntimeRefuses
    BY <1>1, <1>2, <1>4, DeskLines, DecisionSame, ListSame DEF RuntimeRefuses, audit, history
  <1>5. ASSUME handed' = handed, NEW f \in Files, NEW g, files' = [files EXCEPT ![f] = g],
               files[f].trail # None => g.trail = files[f].trail, LinesHanded'
        PROVE  LinesHanded' /\ DecisionHanded' /\ ListIsWritten'
    <2>1. bound # None => files'[bound].trail = files[bound].trail
      BY <1>5 DEF TypeOK, Maybe, Begun
    <2> QED BY <1>1, <1>2, <1>5, <2>1, DecisionSame, ListSame DEF Begun
  <1>6. CASE RecordDecision
    <2> DEFINE n == files[path].records + 1
               signed == seed # None /\ (LinesAt(path) = <<>> \/ InForce(LinesAt(path)) = seed)
               more == IF signed THEN Append(files[path].lines, Signature(seed, n))
                       ELSE files[path].lines
               g == [files[path] EXCEPT !.records = n, !.lines = more]
    <2>1. /\ path \in Files /\ files[path].lines \in Seq(Line) /\ files[path] \in Trail
          /\ files' = [files EXCEPT ![path] = g] /\ handed' = handed
      BY <1>6 DEF RecordDecision, TypeOK, Maybe, Trail, history
    <2>2. g.lines = more /\ g.trail = files[path].trail
      <3> HIDE DEF more
      <3> QED BY <2>1 DEF Trail
    <2>3. ASSUME NEW i \in 1 .. Len(more), IsRotation(more[i])
          PROVE  i \in 1 .. Len(files[path].lines) /\ more[i] = files[path].lines[i]
      BY <2>1, <2>3 DEF Signature, IsRotation
    <2> HIDE DEF more, g
    <2>4. LinesHanded'
      <3>1. ASSUME NEW i \in 1 .. Len(g.lines), IsRotation(g.lines[i])
            PROVE  \E h \in handed' : /\ h.trail = g.trail /\ h.by = g.lines[i].by
                                      /\ h.next = g.lines[i].next /\ h.at = g.lines[i].at
        BY <2>1, <2>2, <2>3, <3>1 DEF LinesHanded, WasHanded
      <3> QED BY <2>1, <3>1, OneFileHanded
    <2> QED BY <1>5, <2>1, <2>2, <2>4
  <1>7. ASSUME NEW f \in Files, BeginTrail(f)
        PROVE  LinesHanded' /\ DecisionHanded' /\ ListIsWritten'
    <2> DEFINE g == [trail |-> f, records |-> 1,
                     lines |-> IF seed = None THEN <<>> ELSE <<Signature(seed, 1)>>]
    <2>1. files' = [files EXCEPT ![f] = g] /\ handed' = handed /\ files[f].trail = None
      BY <1>7 DEF BeginTrail, NewFile, Unused, history
    <2>2. \A i \in 1 .. Len(g.lines) : ~IsRotation(g.lines[i])
      BY DEF Signature, IsRotation
    <2> HIDE DEF g
    <2>3. LinesHanded'
      BY <2>1, <2>2, OneFileHanded
    <2> QED BY <1>5, <2>1, <2>3
  <1> QED BY <1>3, <1>4, <1>6, <1>7
      DEF Runtime, RuntimeAnswers, AnswerIsLost, OrphanRotates

LEMMA OwnerHanded ==
  ASSUME IInv, LinesHanded, DecisionHanded, ListIsWritten, Owner
  PROVE  LinesHanded' /\ DecisionHanded' /\ ListIsWritten'
  <1> USE DEF IInv
  <1>1. UNCHANGED <<seed, nextSeed, list, bound, pc, at, handed>>
    BY DEF Owner, MoveAside, PutBack, CopyBack, CutBack, folder, process, history
  <1>2. CASE UNCHANGED files
    BY <1>1, <1>2, DeskLines, DecisionSame, ListSame
  <1>3. ASSUME NEW f \in Files, NEW h \in Files, NEW n \in 1 .. Len(files[h].lines), NEW g,
               files' = [files EXCEPT ![f] = g], g.trail = files[h].trail,
               g.lines = SubSeq(files[h].lines, 1, n),
               files[f].trail # None => g.trail = files[f].trail
        PROVE  LinesHanded' /\ DecisionHanded' /\ ListIsWritten'
    <2>1. files[h].lines \in Seq(Line)
      BY DEF TypeOK, Trail
    <2>2. \A i \in 1 .. Len(g.lines) :
            i \in 1 .. Len(files[h].lines) /\ g.lines[i] = files[h].lines[i]
      BY <1>3, <2>1
    <2>3. ASSUME NEW i \in 1 .. Len(g.lines), IsRotation(g.lines[i])
          PROVE  \E e \in handed' : /\ e.trail = g.trail /\ e.by = g.lines[i].by
                                    /\ e.next = g.lines[i].next /\ e.at = g.lines[i].at
      BY <1>1, <1>3, <2>2, <2>3 DEF LinesHanded, WasHanded
    <2>4. LinesHanded'
      BY <1>1, <1>3, <2>3, OneFileHanded
    <2>5. bound # None => files'[bound].trail = files[bound].trail
      BY <1>3 DEF TypeOK, Maybe, Begun
    <2> QED BY <1>1, <2>4, <2>5, DecisionSame, ListSame DEF Begun
  <1>4. ASSUME NEW f \in Files, NEW h \in Files, NEW n \in 1 .. Len(files[h].lines),
               CopyBack(f, h, n)
        PROVE  LinesHanded' /\ DecisionHanded' /\ ListIsWritten'
    <2> DEFINE g == [trail |-> files[h].trail, records |-> files[h].lines[n].at,
                     lines |-> SubSeq(files[h].lines, 1, n)]
    <2>1. files' = [files EXCEPT ![f] = g] /\ files[f].trail = None
      BY <1>4 DEF CopyBack, NewFile, Unused
    <2>2. g.trail = files[h].trail /\ g.lines = SubSeq(files[h].lines, 1, n)
      OBVIOUS
    <2> HIDE DEF g
    <2> QED BY <1>3, <2>1, <2>2
  <1>5. ASSUME NEW n \in 1 .. Len(LinesAt(path)), CutBack(n)
        PROVE  LinesHanded' /\ DecisionHanded' /\ ListIsWritten'
    <2> DEFINE less == SubSeq(files[path].lines, 1, n)
               g == [files[path] EXCEPT !.lines = less]
    <2>1. /\ path \in Files /\ files[path] \in Trail /\ LinesAt(path) = files[path].lines
          /\ files' = [files EXCEPT ![path] = g]
      BY <1>5 DEF CutBack, TypeOK, Maybe, LinesAt
    <2>2. g.trail = files[path].trail /\ g.lines = less
      <3> HIDE DEF less
      <3> QED BY <2>1 DEF Trail
    <2>3. n \in 1 .. Len(files[path].lines)
      BY <2>1
    <2> HIDE DEF g
    <2> QED BY <1>3, <2>1, <2>2, <2>3
  <1> QED BY <1>2, <1>4, <1>5 DEF Owner, MoveAside, PutBack

-------------------------------------------------------------------------------
LEMMA HandedInductive ==
  ASSUME JInv, [Next]_vars
  PROVE  JInv'
  <1>1. IInv'
    BY Inductive DEF JInv
  <1>2. CASE Rotating \/ Inspecting \/ Finishing \/ StepFails \/ Crash \/ Start
    BY <1>1, <1>2, DeskHanded DEF JInv
  <1>3. CASE Runtime
    BY <1>1, <1>3, RuntimeHanded DEF JInv
  <1>4. CASE Owner
    BY <1>1, <1>4, OwnerHanded DEF JInv
  <1>5. CASE UNCHANGED vars
    <2>1. UNCHANGED <<seed, nextSeed, list, files, handed, pc, at, bound>>
      BY <1>5 DEF vars, folder, audit, process, history
    <2> QED BY <1>1, <2>1, DeskLines, DecisionSame, ListSame DEF JInv
  <1> QED BY <1>2, <1>3, <1>4, <1>5 DEF Next

\* The list of public keys names a key only where a runtime handed over to it,
\* from the key before it, on the trail and at the record listed: whatever was
\* moved, copied, cut back, stopped or answered (rotation.go, writeNext).
THEOREM ListOnlyWritten == Spec => []ListIsWritten
  <1>1. Init => JInv
    BY InitTypes, InitShape, InitHanded DEF JInv, IInv
  <1>2. JInv /\ [Next]_vars => JInv'
    BY HandedInductive
  <1>3. JInv => ListIsWritten
    BY DEF JInv
  <1> QED BY <1>1, <1>2, <1>3, PTL DEF Spec

-------------------------------------------------------------------------------
(* The signing folder keeps KeyCustody's promise.                          *)

\* The list's keys in order, before and after a key more.
LEMMA NamedAppend ==
  ASSUME NEW S, NEW l \in Seq(S), NEW e \in S
  PROVE  [i \in 1 .. Len(Append(l, e)) |-> Append(l, e)[i].key]
           = Append([i \in 1 .. Len(l) |-> l[i].key], e.key)
  <1> DEFINE before == [i \in 1 .. Len(l) |-> l[i].key]
             after == [i \in 1 .. Len(Append(l, e)) |-> Append(l, e)[i].key]
  <1>1. /\ Len(Append(l, e)) = Len(l) + 1 /\ Append(l, e)[Len(l) + 1] = e
        /\ \A i \in 1 .. Len(l) : Append(l, e)[i] = l[i]
        /\ Len(l) \in Nat
    OBVIOUS
  <1>2. /\ before \in Seq({l[i].key : i \in 1 .. Len(l)}) /\ Len(before) = Len(l)
    BY <1>1
  <1>3. /\ Len(Append(before, e.key)) = Len(l) + 1
        /\ Append(before, e.key)[Len(l) + 1] = e.key
        /\ \A i \in 1 .. Len(l) : Append(before, e.key)[i] = l[i].key
        /\ DOMAIN Append(before, e.key) = 1 .. (Len(l) + 1)
        /\ Append(before, e.key) = [i \in 1 .. (Len(l) + 1) |-> Append(before, e.key)[i]]
    BY <1>1, <1>2
  <1>4. \A i \in 1 .. (Len(l) + 1) : after[i] = Append(before, e.key)[i]
    <2>1. \A i \in 1 .. (Len(l) + 1) : i \in 1 .. Len(l) \/ i = Len(l) + 1
      BY <1>1
    <2>2. \A i \in 1 .. (Len(l) + 1) : after[i] = Append(l, e)[i].key
      BY <1>1
    <2> QED BY <1>1, <1>3, <2>1, <2>2
  <1>5. after = [i \in 1 .. (Len(l) + 1) |-> after[i]]
    BY <1>1
  <1> QED BY <1>3, <1>4, <1>5

\* The public keys the abstract list names are those the list names.
LEMMA NamedSame ==
  ASSUME TypeOK, Shape
  PROVE  /\ Custody!NamedKeys = KeysListed
         /\ [i \in 1 .. Len(list) |-> list[i].key][Len([i \in 1 .. Len(list) |-> list[i].key])]
              = Final(list).key
  <1>1. Len(list) \in Nat /\ Len(list) >= 1
    BY DEF TypeOK, Shape
  <1>2. Len([i \in 1 .. Len(list) |-> list[i].key]) = Len(list)
    BY <1>1
  <1>3. Custody!NamedKeys = KeysListed
    BY <1>1, <1>2 DEF Custody!NamedKeys, KeysListed
  <1> QED BY <1>1, <1>2, <1>3 DEF Final

LEMMA CustodyBegins ==
  ASSUME Init
  PROVE  Custody!Begin
  <1>1. PICK k \in Keys :
          InitFolder(k) /\ (InitFresh(k) \/ \E next \in Keys : InitLegacy(k, next))
    BY DEF Init
  <1>2. seed = k /\ archived = {} /\ list = <<Listed(k, 0, None)>>
    BY <1>1 DEF InitFolder
  <1>3. [i \in 1 .. Len(list) |-> list[i].key] = <<k>>
    BY <1>2 DEF Listed
  <1>4. nextSeed \in (Keys \ {k}) \cup {None}
    BY <1>1 DEF InitFresh, InitLegacy
  <1> QED BY <1>1, <1>2, <1>3, <1>4 DEF Custody!Begin

\* Which steps change the folder's keys, and to what.
LEMMA OtherStepsKeep ==
  ASSUME Next, ~(\E k \in Keys : Generate(k)), ~AppendKey, ~ArchiveSeed, ~PlaceNext,
         ~ArchiveNext
  PROVE  UNCHANGED <<seed, nextSeed, archived, list>>
  BY DEF Next, Rotating, Confirm, GenerateNothing, JournalRotate, GiveUp,
         Ask, JournalFinish, Inspecting, HoldAnswer, InspectWritten, InspectUnwritten,
         InspectPromoting, InspectSettled, InspectUnknown, Finishing, LookBeforeList,
         LookBeforeMoves, LookBeforePlacing, LookBeforeUndo, Look, Settle,
         ArchiveMarker, StepFails, Crash, Start, Runtime, RuntimeAnswers, AnswerIsLost,
         OrphanRotates, RuntimeRotates, RuntimeRefuses, RecordDecision, BeginTrail,
         Owner, MoveAside, PutBack, CopyBack, CutBack, RemoveMarker, Journals, folder

LEMMA CustodyStep ==
  ASSUME IInv, [Next]_vars
  PROVE  [Custody!Change]_(Custody!custody)
  <1> DEFINE names == [i \in 1 .. Len(list) |-> list[i].key]
  <1> USE DEF IInv
  <1>1. ASSUME UNCHANGED <<seed, nextSeed, archived, list>>
        PROVE  UNCHANGED Custody!custody
    BY <1>1 DEF Custody!custody
  <1>2. ASSUME NEW k \in Keys, Generate(k) PROVE Custody!Make
    <2>1. /\ pc = "marked" /\ nextSeed = None /\ nextSeed' = k /\ k \notin made
          /\ UNCHANGED <<seed, archived, list>>
      BY <1>2 DEF Generate
    <2>2. k \notin Custody!Kept
      BY <2>1 DEF Custody!Kept, KeysKept
    <2>3. k \notin Custody!NamedKeys
      BY <2>1, NamedSame DEF Shape
    <2> QED BY <2>1, <2>2, <2>3 DEF Custody!Make
  <1>3. CASE AppendKey
    <2>1. /\ seed # None /\ nextSeed # None /\ nextSeed \notin KeysListed
          /\ nextSeed \in Keys
      BY <1>3 DEF AppendKey, Shape, Running, Unlisted, Steps, TypeOK, Maybe
    <2>2. Final(list).key = seed
      BY <1>3, <2>1, LastIsListed DEF Shape
    <2> DEFINE new == Listed(nextSeed, at, files[bound].trail)
    <2>3. bound \in Files
      BY <1>3 DEF AppendKey, Begun, TypeOK, Maybe
    <2>4. new \in ListedKey /\ new.key = nextSeed
      BY <2>1, <2>3 DEF Listed, ListedKey, TypeOK, Trail
    <2>5. list' = Append(list, new) /\ UNCHANGED <<seed, nextSeed, archived>>
          /\ list \in Seq(ListedKey)
      BY <1>3 DEF AppendKey, TypeOK
    <2> HIDE DEF new
    <2>6. [i \in 1 .. Len(list') |-> list'[i].key] = Append(names, nextSeed)
      BY <2>4, <2>5, NamedAppend
    <2>7. names[Len(names)] = seed /\ nextSeed \notin Custody!NamedKeys
      BY <2>1, <2>2, NamedSame
    <2> QED BY <2>1, <2>5, <2>6, <2>7 DEF Custody!Name, Custody!Change
  <1>4. CASE ArchiveSeed
    <2>1. seed # None /\ nextSeed # None /\ Final(list).key = nextSeed
      BY <1>4 DEF ArchiveSeed, Shape, Running, Steps
    <2>2. list' = list
      BY <1>4 DEF ArchiveSeed
    <2>3. UNCHANGED names
      BY <2>2
    <2> QED BY <1>4, <2>1, <2>3, NamedSame DEF ArchiveSeed, Custody!Retire, Custody!Change
  <1>5. CASE PlaceNext
    <2>1. seed = None /\ nextSeed # None /\ Final(list).key = nextSeed
      BY <1>5 DEF PlaceNext, GapIsNamed
    <2>2. list' = list
      BY <1>5 DEF PlaceNext
    <2>3. UNCHANGED names
      BY <2>2
    <2> QED BY <1>5, <2>1, <2>3, NamedSame DEF PlaceNext, Custody!TakeOver, Custody!Change
  <1>6. CASE ArchiveNext
    <2>1. nextSeed # None /\ nextSeed \notin KeysListed
      BY <1>6 DEF ArchiveNext, Shape, Running, Unlisted, Steps
    <2>2. list' = list
      BY <1>6 DEF ArchiveNext
    <2>3. UNCHANGED names
      BY <2>2
    <2> QED BY <1>6, <2>1, <2>3, NamedSame DEF ArchiveNext, Custody!Withdraw, Custody!Change
  <1>7. CASE UNCHANGED vars
    BY <1>1, <1>7 DEF vars, folder
  <1> QED BY <1>1, <1>2, <1>3, <1>4, <1>5, <1>6, <1>7, OtherStepsKeep DEF Custody!Change

\* The rotation implements KeyCustody: under every interleaving of Desk, its
\* runtimes, its stops and the owner's file manager, the signing folder only
\* makes a key, withdraws one never listed, lists the next one, and goes over.
THEOREM RotationKeepsCustody == Spec => CustodyKept
  <1>1. Init => Custody!Begin
    BY CustodyBegins
  <1>2. IInv /\ [Next]_vars => [Custody!Change]_(Custody!custody)
    BY CustodyStep
  <1> QED BY <1>1, <1>2, IInvHolds, PTL DEF Spec, CustodyKept, Custody!Promise

-------------------------------------------------------------------------------
(* What becomes of the trail files, wherever no sidecar is cut back in place. *)

\* A line more in the sidecar at the path, which Desk does not hold.
LineMore(x) ==
    /\ path \in Files /\ path # bound /\ x \in Line
    /\ files'[path].lines = Append(files[path].lines, x)
    /\ files'[path].trail = files[path].trail
    /\ \A f \in Files \ {path} : files'[f] = files[f]

\* A file begun, or copied.
FileMore ==
    \E f \in Files : files[f].trail = None /\ \A e \in Files \ {f} : files'[e] = files[e]

LinesSame ==
    \A f \in Files : files'[f].lines = files[f].lines /\ files'[f].trail = files[f].trail

\* The runtime Desk asked, as it writes its rotation.
LEMMA RotationLine ==
  ASSUME IInv, RuntimeRotates
  PROVE  /\ LineMore(Rotation(request.by, files[path].records, request.next))
         /\ handed' = handed \cup {[file |-> path, trail |-> files[path].trail,
                                    by |-> request.by, next |-> request.next,
                                    at |-> files[path].records]}
         /\ request # None /\ request' = None
  <1> USE DEF IInv
  <1> DEFINE line == Rotation(request.by, files[path].records, request.next)
             more == Append(files[path].lines, line)
             g == [files[path] EXCEPT !.lines = more]
  <1>1. /\ path \in Files /\ path # bound /\ files[path].lines \in Seq(Line)
        /\ files[path] \in Trail /\ files' = [files EXCEPT ![path] = g]
        /\ request \in [by : Keys, next : Keys] /\ files[path].records \in Nat
    BY DEF RuntimeRotates, Writes, TypeOK, Maybe, Trail
  <1>2. g.lines = more /\ g.trail = files[path].trail
    <2> HIDE DEF more
    <2> QED BY <1>1 DEF Trail
  <1>3. line \in Line
    BY <1>1 DEF Rotation, Line, Maybe
  <1> HIDE DEF line, g
  <1>4. files'[path] = g /\ \A f \in Files \ {path} : files'[f] = files[f]
    BY <1>1 DEF TypeOK
  <1> QED BY <1>1, <1>2, <1>3, <1>4 DEF LineMore, RuntimeRotates, line

\* A deciding run appends a record's line, or none.
LEMMA RecordLine ==
  ASSUME IInv, RecordDecision
  PROVE  \/ LinesSame
         \/ \E x \in Line : LineMore(x) /\ ~IsRotation(x)
  <1> USE DEF IInv
  <1> DEFINE n == files[path].records + 1
             signed == seed # None /\ (LinesAt(path) = <<>> \/ InForce(LinesAt(path)) = seed)
             more == IF signed THEN Append(files[path].lines, Signature(seed, n))
                     ELSE files[path].lines
             g == [files[path] EXCEPT !.records = n, !.lines = more]
  <1>1. /\ path \in Files /\ path # bound /\ files[path] \in Trail
        /\ files' = [files EXCEPT ![path] = g]
    BY DEF RecordDecision, TypeOK, Maybe
  <1>2. g.lines = more /\ g.trail = files[path].trail
    <2> HIDE DEF more
    <2> QED BY <1>1 DEF Trail
  <1>3. signed => Signature(seed, n) \in Line /\ ~IsRotation(Signature(seed, n))
    BY <1>1 DEF Signature, Line, TypeOK, Maybe, Trail, IsRotation
  <1> HIDE DEF g
  <1>4. files'[path] = g /\ \A f \in Files \ {path} : files'[f] = files[f]
    BY <1>1 DEF TypeOK
  <1>5. CASE signed
    <2>1. files'[path].lines = Append(files[path].lines, Signature(seed, n))
      BY <1>2, <1>4, <1>5
    <2> QED BY <1>1, <1>2, <1>3, <1>4, <1>5, <2>1 DEF LineMore
  <1>6. CASE ~signed
    <2>1. files'[path].lines = files[path].lines
      BY <1>2, <1>4, <1>6
    <2> QED BY <1>2, <1>4, <2>1 DEF LinesSame
  <1> QED BY <1>5, <1>6

LEMMA NewFileOnly ==
  ASSUME IInv,
         \/ \E f \in Files : BeginTrail(f)
         \/ \E f, g \in Files : \E n \in 1 .. Len(files[g].lines) : CopyBack(f, g, n)
  PROVE  FileMore
  BY DEF BeginTrail, CopyBack, NewFile, Unused, FileMore, IInv, TypeOK

\* What the runtimes and the owner leave alone, and how they change the files.
LEMMA OthersSteps ==
  ASSUME IInv, ~RestoreInPlace, Runtime \/ Owner
  PROVE  /\ UNCHANGED <<folder, bound, who, answer, made>>
         /\ \/ pc' = pc /\ at' = at
            \/ pc = "asked" /\ pc' \in {"rotated", "refused"}
         /\ \/ RuntimeRotates
            \/ /\ UNCHANGED handed /\ request' \in {request, None}
               /\ \/ LinesSame
                  \/ \E x \in Line : LineMore(x) /\ ~IsRotation(x)
                  \/ FileMore
  <1>1. UNCHANGED <<folder, bound, who, answer, made>>
    BY DEF Runtime, RuntimeAnswers, AnswerIsLost, OrphanRotates, RuntimeRotates,
           RuntimeRefuses, RecordDecision, BeginTrail, Owner, MoveAside, PutBack, CopyBack,
           CutBack, process, history
  <1>2. \/ pc' = pc /\ at' = at
        \/ pc = "asked" /\ pc' \in {"rotated", "refused"}
    BY DEF Runtime, RuntimeAnswers, AnswerIsLost, OrphanRotates, RuntimeRotates,
           RuntimeRefuses, RecordDecision, BeginTrail, Owner, MoveAside, PutBack, CopyBack,
           CutBack, process
  <1>3. CASE RuntimeAnswers \/ AnswerIsLost \/ OrphanRotates
    BY <1>1, <1>2, <1>3 DEF RuntimeAnswers, AnswerIsLost, OrphanRotates
  <1>4. CASE RuntimeRefuses \/ MoveAside \/ \E f \in Files : PutBack(f)
    <2>1. UNCHANGED <<files, handed>> /\ request' \in {request, None}
      BY <1>4 DEF RuntimeRefuses, MoveAside, PutBack, audit, history
    <2> QED BY <1>1, <1>2, <2>1 DEF LinesSame
  <1>5. CASE RecordDecision
    <2>1. UNCHANGED <<handed, request>>
      BY <1>5 DEF RecordDecision, history
    <2> QED BY <1>1, <1>2, <1>5, <2>1, RecordLine
  <1>6. CASE \/ \E f \in Files : BeginTrail(f)
             \/ \E f, g \in Files : \E n \in 1 .. Len(files[g].lines) : CopyBack(f, g, n)
    <2>1. UNCHANGED <<handed, request>>
      BY <1>6 DEF BeginTrail, CopyBack, history
    <2> QED BY <1>1, <1>2, <1>6, <2>1, NewFileOnly
  <1> QED BY <1>3, <1>4, <1>5, <1>6 DEF Runtime, Owner, CutBack

\* What Desk's own steps leave alone.
LEMMA DeskSteps ==
  ASSUME Rotating \/ Inspecting \/ Finishing \/ StepFails \/ Crash \/ Start
  PROVE  /\ UNCHANGED <<audit, handed>>
         /\ \/ request' \in {request, None}
            \/ Ask
         /\ \/ UNCHANGED <<nextSeed, made>>
            \/ \E k \in Keys : Generate(k)
            \/ PlaceNext /\ nextSeed' = None
            \/ ArchiveNext /\ nextSeed' = None
  <1>1. UNCHANGED <<audit, handed>>
    BY DEF Rotating, Confirm, Generate, GenerateNothing, JournalRotate, GiveUp, Ask,
           JournalFinish, Inspecting, HoldAnswer, InspectWritten, InspectUnwritten,
           InspectPromoting, InspectSettled, InspectUnknown, Finishing, LookBeforeList,
           LookBeforeMoves, LookBeforePlacing, LookBeforeUndo, Look, AppendKey,
           ArchiveSeed, PlaceNext, Settle, ArchiveNext, ArchiveMarker, StepFails, Crash,
           Start, history
  <1>2. request' \in {request, None} \/ Ask
    BY DEF Rotating, Confirm, Generate, GenerateNothing, JournalRotate, GiveUp,
           JournalFinish, Inspecting, HoldAnswer, InspectWritten, InspectUnwritten,
           InspectPromoting, InspectSettled, InspectUnknown, Finishing, LookBeforeList,
           LookBeforeMoves, LookBeforePlacing, LookBeforeUndo, Look, AppendKey,
           ArchiveSeed, PlaceNext, Settle, ArchiveNext, ArchiveMarker, StepFails, Crash,
           Start
  <1>3. \/ UNCHANGED <<nextSeed, made>>
        \/ \E k \in Keys : Generate(k)
        \/ PlaceNext /\ nextSeed' = None
        \/ ArchiveNext /\ nextSeed' = None
    BY DEF Rotating, Confirm, GenerateNothing, JournalRotate, GiveUp, Ask,
           JournalFinish, Inspecting, HoldAnswer, InspectWritten, InspectUnwritten,
           InspectPromoting, InspectSettled, InspectUnknown, Finishing, LookBeforeList,
           LookBeforeMoves, LookBeforePlacing, LookBeforeUndo, Look, AppendKey,
           ArchiveSeed, PlaceNext, Settle, ArchiveNext, ArchiveMarker, StepFails, Crash,
           Start, RemoveMarker, Journals, folder, history
  <1> QED BY <1>1, <1>2, <1>3

-------------------------------------------------------------------------------
(* A rotation that a runtime wrote beside the file it was begun beside is    *)
(* not undone, wherever no sidecar is cut back in place.                     *)

\* No runtime has handed over to the next key, and none is asked to.
Fresh ==
    /\ \A h \in handed : h.next # nextSeed
    /\ request # None => request.next # nextSeed

\* What runtimes hand over to was made, and their lines stay in their files.
HandedStays ==
    /\ \A h \in handed :
          /\ h.next \in made
          /\ files[h.file].trail # None /\ Names(files[h.file].lines, h.next)
    /\ request # None => request.next \in made

\* What a withdrawal rests on: the runtime was never asked, or the file the
\* rotation was begun beside is held, and does not name the next key.
Unwound ==
    /\ pc \in {"made", "journalled"} => Fresh
    /\ pc \in {"withdrawing", "undoNext"} /\ marker.phase = "rotate" =>
         \/ pc = "undoNext" /\ Fresh
         \/ /\ bound # None /\ marker.sidecar # None /\ marker.sidecar.file = bound
            /\ ~Names(files[bound].lines, nextSeed)

UInv == IInv /\ HandedStays /\ Unwound

\* A key a sidecar names, its lines and one more name too.
LEMMA NamesMore ==
  ASSUME NEW lines \in Seq(Line), NEW x \in Line, NEW k,
         Names(lines, k) \/ k = x.next
  PROVE  Names(Append(lines, x), k)
  <1>1. /\ Len(Append(lines, x)) = Len(lines) + 1 /\ Len(lines) \in Nat
        /\ Append(lines, x)[Len(lines) + 1] = x
        /\ \A i \in 1 .. Len(lines) : Append(lines, x)[i] = lines[i]
    OBVIOUS
  <1>2. CASE k = x.next
    <2>1. Len(lines) + 1 \in 1 .. Len(Append(lines, x))
      BY <1>1
    <2> QED BY <1>1, <1>2, <2>1 DEF Names
  <1>3. CASE Names(lines, k)
    <2>1. PICK i \in 1 .. Len(lines) : k \in {lines[i].by, lines[i].next}
      BY <1>3 DEF Names
    <2>2. i \in 1 .. Len(Append(lines, x)) /\ Append(lines, x)[i] = lines[i]
      BY <1>1
    <2> QED BY <2>1, <2>2 DEF Names
  <1> QED BY <1>2, <1>3

LEMMA InitUnwound ==
  ASSUME Init
  PROVE  HandedStays /\ Unwound
  <1>1. PICK k \in Keys :
          InitFolder(k) /\ (InitFresh(k) \/ \E next \in Keys : InitLegacy(k, next))
    BY DEF Init
  <1>2. pc \in {"idle", "down"} /\ request = None
    BY <1>1 DEF InitFolder, InitFresh, InitLegacy
  <1>3. ASSUME NEW h \in handed
        PROVE  /\ h.next \in made
               /\ files[h.file].trail # None /\ Names(files[h.file].lines, h.next)
    <2>1. PICK next \in Keys : InitLegacy(k, next)
      BY <1>1, <1>3 DEF InitFresh
    <2>2. /\ FirstTrail(<<Signature(k, 1), Rotation(k, 1, next)>>) /\ made = {k, next}
          /\ h = [file |-> 1, trail |-> 1, by |-> k, next |-> next, at |-> 1]
      BY <1>3, <2>1 DEF InitLegacy
    <2>3. files[1].trail = 1 /\ files[1].lines = <<Signature(k, 1), Rotation(k, 1, next)>>
      BY <2>2, FilesAssumption DEF FirstTrail
    <2>4. Names(files[1].lines, next)
      <3>1. 2 \in 1 .. Len(files[1].lines) /\ files[1].lines[2] = Rotation(k, 1, next)
        BY <2>3
      <3> QED BY <3>1 DEF Names, Rotation
    <2> QED BY <2>2, <2>3, <2>4, FilesAssumption
  <1> QED BY <1>2, <1>3 DEF HandedStays, Unwound

\* Lines only go on being added, so what a handed-over key's file names stays.
LEMMA HandedStaysKept ==
  ASSUME UInv, [Next]_vars, ~RestoreInPlace
  PROVE  HandedStays'
  <1> USE DEF UInv, IInv
  <1>1. ASSUME UNCHANGED <<files, handed>>, made \subseteq made',
               request' # None => request'.next \in made'
        PROVE  HandedStays'
    BY <1>1 DEF HandedStays
  <1>2. CASE Rotating \/ Inspecting \/ Finishing \/ StepFails \/ Crash \/ Start
    <2>1. UNCHANGED <<files, handed>>
      BY <1>2, DeskSteps DEF audit
    <2>2. made \subseteq made'
      BY <1>2, DeskSteps DEF Generate, PlaceNext, ArchiveNext, history
    <2>3. CASE Ask
      <3>1. nextSeed \in made
        BY <2>3 DEF Ask, Shape, Running, Steps, KeysKept
      <3> QED BY <1>1, <2>1, <2>2, <2>3, <3>1 DEF Ask
    <2>4. CASE request' \in {request, None}
      BY <1>1, <2>1, <2>2, <2>4 DEF HandedStays
    <2> QED BY <1>2, <2>3, <2>4, DeskSteps
  <1>3. ASSUME NEW x, LineMore(x), NEW f \in Files, NEW k, Names(files[f].lines, k)
        PROVE  Names(files'[f].lines, k)
    <2>1. files[f].lines \in Seq(Line)
      BY DEF TypeOK, Trail
    <2> QED BY <1>3, <2>1, NamesMore DEF LineMore
  <1>4. \A h \in handed : h.file \in Files
    BY DEF TypeOK, Handover
  <1>5. CASE Runtime \/ Owner
    <2>1. made' = made /\ request' \in {request, None}
      BY <1>5, OthersSteps, RotationLine
    <2>2. CASE RuntimeRotates
      <3> DEFINE x == Rotation(request.by, files[path].records, request.next)
      <3>1. LineMore(x) /\ x.next = request.next /\ request # None
        BY <2>2, RotationLine DEF Rotation
      <3>2. \A f \in Files : files'[f].trail = files[f].trail
        BY <3>1 DEF LineMore
      <3>3. ASSUME NEW h \in handed'
            PROVE  /\ h.next \in made
                   /\ files'[h.file].trail # None /\ Names(files'[h.file].lines, h.next)
        <4>1. CASE h \in handed
          BY <1>3, <1>4, <3>1, <3>2, <4>1 DEF HandedStays
        <4>2. CASE h \notin handed
          <5>1. h.file = path /\ h.next = request.next
            BY <2>2, <3>3, <4>2, RotationLine
          <5>2. /\ path \in Files /\ files[path].lines \in Seq(Line)
                /\ files[path].trail # None /\ x \in Line
                /\ files'[path].lines = Append(files[path].lines, x)
            BY <3>1, FilesAssumption DEF LineMore, TypeOK, Trail, Begun
          <5> HIDE DEF x
          <5>3. Names(files'[path].lines, request.next)
            BY <3>1, <5>2, NamesMore
          <5>4. request.next \in made
            BY <3>1 DEF HandedStays
          <5> QED BY <3>2, <5>1, <5>2, <5>3, <5>4
        <4> QED BY <4>1, <4>2
      <3> QED BY <2>1, <3>3 DEF HandedStays
    <2>3. CASE UNCHANGED handed /\ LinesSame
      BY <1>4, <2>1, <2>3 DEF HandedStays, LinesSame
    <2>4. CASE UNCHANGED handed /\ \E x \in Line : LineMore(x)
      <3>1. \A f \in Files : files'[f].trail = files[f].trail
        BY <2>4 DEF LineMore
      <3> QED BY <1>3, <1>4, <2>1, <2>4, <3>1 DEF HandedStays
    <2>5. CASE UNCHANGED handed /\ FileMore
      BY <1>4, <2>1, <2>5 DEF HandedStays, FileMore
    <2> QED BY <1>5, <2>2, <2>3, <2>4, <2>5, OthersSteps
  <1>6. CASE UNCHANGED vars
    BY <1>1, <1>6 DEF vars, audit, history, HandedStays
  <1> QED BY <1>2, <1>5, <1>6 DEF Next

\* Desk asks no runtime to hand over to a key, and none was, before Desk asks.
LEMMA FreshKept ==
  ASSUME UInv, Fresh, Runtime \/ Owner, ~RestoreInPlace
  PROVE  Fresh'
  <1>1. nextSeed' = nextSeed
    BY OthersSteps DEF UInv, folder
  <1>2. CASE RuntimeRotates
    <2>1. request' = None /\ \A h \in handed' : h \in handed \/ h.next = request.next
      BY <1>2, RotationLine DEF UInv
    <2> QED BY <1>1, <1>2, <2>1, RotationLine DEF Fresh, UInv
  <1>3. CASE UNCHANGED handed /\ request' \in {request, None}
    BY <1>1, <1>3 DEF Fresh
  <1> QED BY <1>2, <1>3, OthersSteps DEF UInv

\* The file Desk holds is left alone.
LEMMA BoundStays ==
  ASSUME IInv, Runtime \/ Owner, ~RestoreInPlace, bound # None
  PROVE  /\ bound' = bound
         /\ files'[bound].lines = files[bound].lines
         /\ files'[bound].trail = files[bound].trail
  <1>1. bound \in Files /\ files[bound].trail # None
    BY DEF IInv, TypeOK, Maybe, Begun
  <1>2. CASE RuntimeRotates
    BY <1>1, <1>2, RotationLine, OthersSteps DEF LineMore
  <1>3. CASE LinesSame
    BY <1>1, <1>3, OthersSteps DEF LinesSame
  <1>4. CASE \E x \in Line : LineMore(x)
    BY <1>1, <1>4, OthersSteps DEF LineMore
  <1>5. CASE FileMore
    BY <1>1, <1>5, OthersSteps DEF FileMore
  <1> QED BY <1>2, <1>3, <1>4, <1>5, OthersSteps

LEMMA UnwoundKept ==
  ASSUME UInv, [Next]_vars, ~RestoreInPlace
  PROVE  Unwound'
  <1> USE DEF UInv, IInv
  <1>1. CASE Rotating \/ Inspecting \/ Finishing \/ StepFails \/ Crash \/ Start
    <2>1. UNCHANGED <<files, handed>>
      BY <1>1, DeskSteps DEF audit
    <2>2. ASSUME NEW k \in Keys, Generate(k) PROVE Unwound'
      <3>1. k \notin made /\ nextSeed' = k /\ request' = request /\ handed' = handed
        BY <2>2 DEF Generate
      <3>2. Fresh'
        BY <3>1 DEF Fresh, HandedStays
      <3> QED BY <2>2, <3>2 DEF Generate, Unwound
    <2>3. CASE JournalRotate \/ GiveUp
      <3>1. pc \in {"made", "journalled"} /\ UNCHANGED <<nextSeed, request, handed>>
        BY <2>3 DEF JournalRotate, Journals, GiveUp, folder, history
      <3>2. Fresh'
        BY <3>1 DEF Fresh, Unwound
      <3>3. pc' \in {"journalled", "undoNext"}
        BY <2>3 DEF JournalRotate, GiveUp, Goes
      <3> QED BY <3>2, <3>3 DEF Unwound
    <2>4. CASE InspectUnwritten
      <3>1. /\ UNCHANGED <<marker, nextSeed, files>> /\ pc' = "withdrawing" /\ bound' = path
            /\ Unwritten(marker)
        BY <2>4 DEF InspectUnwritten, folder, audit
      <3>2. ASSUME marker.phase = "rotate"
            PROVE  /\ path # None /\ marker.sidecar # None /\ marker.sidecar.file = path
                   /\ ~Names(files[path].lines, nextSeed)
        <4>1. Grown(marker.sidecar, path) /\ ~Names(LinesAt(path), nextSeed)
          BY <3>1, <3>2 DEF Unwritten
        <4>2. marker \in Journal
          BY <2>4 DEF InspectUnwritten, Shape, TypeOK, Maybe
        <4>3. marker.sidecar \in Maybe(Seen)
          BY <4>2 DEF Journal
        <4>4. marker.sidecar.file \in Files
          BY <4>1, <4>3 DEF Grown, Maybe, Seen
        <4> QED BY <4>1, <4>4, FilesAssumption DEF Grown, LinesAt
      <3> QED BY <3>1, <3>2 DEF Unwound
    <2>5. CASE LookBeforeUndo
      <3>1. /\ UNCHANGED <<marker, nextSeed, files>> /\ pc = "withdrawing"
            /\ pc' = "idle" \/ (pc' = "undoNext" /\ bound' = bound)
        BY <2>5 DEF LookBeforeUndo, Look, Goes, Ends, folder, audit
      <3> QED BY <3>1 DEF Unwound
    <2>6. CASE pc' \notin {"made", "journalled", "withdrawing", "undoNext"}
      BY <2>6 DEF Unwound
    <2>7. \/ pc' \notin {"made", "journalled", "withdrawing", "undoNext"}
          \/ (\E k \in Keys : Generate(k)) \/ JournalRotate \/ GiveUp
          \/ InspectUnwritten \/ LookBeforeUndo
      BY <1>1 DEF Rotating, Confirm, GenerateNothing, Ask,
           JournalFinish, Inspecting, HoldAnswer, InspectWritten,
           InspectPromoting, InspectSettled, InspectUnknown, Finishing, LookBeforeList,
           LookBeforeMoves, LookBeforePlacing, Look, AppendKey,
           ArchiveSeed, PlaceNext, Settle, ArchiveNext, ArchiveMarker, StepFails, Crash,
           Start, Holds, Goes, Ends
    <2> QED BY <2>2, <2>3, <2>4, <2>5, <2>6, <2>7
  <1>2. CASE Runtime \/ Owner
    <2>1. UNCHANGED <<marker, nextSeed, bound>>
      BY <1>2, OthersSteps DEF folder
    <2>2. pc' = pc \/ pc' \in {"rotated", "refused"}
      BY <1>2, OthersSteps
    <2>3. Fresh => Fresh'
      BY <1>2, FreshKept
    <2>4. bound # None => files'[bound].lines = files[bound].lines
      BY <1>2, BoundStays
    <2> QED BY <2>1, <2>2, <2>3, <2>4 DEF Unwound
  <1>3. CASE UNCHANGED vars
    <2>1. UNCHANGED <<pc, marker, nextSeed, bound, files, handed, request>>
      BY <1>3 DEF vars, folder, audit, process, history
    <2> QED BY <2>1 DEF Unwound, Fresh
  <1> QED BY <1>1, <1>2, <1>3 DEF Next

\* Only ArchiveNext puts the next key aside.
LEMMA UndoIsArchiveNext ==
  ASSUME IInv, [Next]_vars, Undoes
  PROVE  pc = "undoNext" /\ marker.phase = "rotate"
  <1> USE DEF IInv
  <1>1. nextSeed # None /\ nextSeed' = None /\ seed' = seed
    BY DEF Undoes
  <1>2. CASE Rotating \/ Inspecting \/ Finishing \/ StepFails \/ Crash \/ Start
    <2>1. ~PlaceNext
      BY <1>1 DEF PlaceNext
    <2>2. \A k \in Keys : ~Generate(k)
      BY <1>1 DEF Generate
    <2>3. ArchiveNext
      BY <1>1, <1>2, <2>1, <2>2, DeskSteps
    <2> QED BY <2>3 DEF ArchiveNext, Undoes
  <1>3. ~(Runtime \/ Owner)
    <2>1. ASSUME Runtime \/ Owner PROVE nextSeed' = nextSeed
      BY <2>1 DEF Runtime, RuntimeAnswers, AnswerIsLost, OrphanRotates, RuntimeRotates,
           RuntimeRefuses, RecordDecision, BeginTrail, Owner, MoveAside, PutBack, CopyBack,
           CutBack, folder
    <2> QED BY <1>1, <2>1
  <1>4. ~UNCHANGED vars
    BY <1>1 DEF vars, folder
  <1> QED BY <1>2, <1>3, <1>4 DEF Next

\* A rotation the runtime wrote into the file it was begun beside is never
\* undone, whatever was moved, copied, stopped or answered, as long as no
\* sidecar is cut back in place (rotation.go, undoRotation; issue #321).
THEOREM NothingWrittenIsUndone == ~RestoreInPlace => (Spec => WrittenNotUndone)
  <1> SUFFICES ASSUME ~RestoreInPlace PROVE Spec => WrittenNotUndone
    OBVIOUS
  <1>1. Init => UInv
    BY InitTypes, InitShape, InitUnwound DEF UInv, IInv
  <1>2. UInv /\ [Next]_vars => UInv'
    BY Inductive, HandedStaysKept, UnwoundKept DEF UInv
  <1>3. ASSUME UInv, [Next]_vars, Undoes, NEW h \in handed,
               h.next = nextSeed, marker.sidecar # None, h.file = marker.sidecar.file
        PROVE  FALSE
    <2>1. pc = "undoNext" /\ marker.phase = "rotate"
      BY <1>3, UndoIsArchiveNext DEF UInv
    <2>2. ~Fresh
      BY <1>3 DEF Fresh
    <2>3. marker.sidecar.file = bound /\ ~Names(files[bound].lines, nextSeed)
      BY <1>3, <2>1, <2>2 DEF UInv, Unwound
    <2> QED BY <1>3, <2>3 DEF UInv, HandedStays
  <1>4. UInv /\ [Next]_vars =>
          (Undoes => \A h \in handed :
             ~(h.next = nextSeed /\ marker.sidecar # None /\ h.file = marker.sidecar.file))
    BY <1>3
  <1> QED BY <1>1, <1>2, <1>4, PTL DEF Spec, WrittenNotUndone

-------------------------------------------------------------------------------
(* The owner is told "rotated" only of a rotation the trail at the path      *)
(* carries, wherever no sidecar is cut back in place.                        *)

Deciding == {"writing", "appending"}
Decided == {"listed", "archiving", "placing", "settling"}

\* The key the rotation under way goes over to.
Goal == IF pc = "settling" THEN seed ELSE nextSeed

\* The trail held hands over to it, and once listed, the list ends as it says.
HeldSigned ==
    /\ pc \in {"recover", "promoting"} => who = "start"
    /\ who = "owner" /\ pc \in Deciding \cup Decided =>
         bound # None /\ HandsOverTo(files[bound].lines, Goal)
    /\ who = "owner" /\ pc \in Deciding => at = LastRotation(files[bound].lines).at
    /\ who = "owner" /\ pc \in Decided =>
         Final(list) = Listed(Goal, LastRotation(files[bound].lines).at, files[bound].trail)

RInv == IInv /\ HeldSigned

LEMMA InitSigned ==
  ASSUME Init
  PROVE  HeldSigned
  BY DEF Init, InitFolder, InitFresh, InitLegacy, HeldSigned, Deciding, Decided

\* The trail is bound as the decision found it.
LEMMA HoldsSigned ==
  ASSUME IInv, Written(marker), Holds, UNCHANGED <<folder, audit>>
  PROVE  HeldSigned'
  <1> USE DEF IInv
  <1>1. path \in Files /\ LinesAt(path) = files[path].lines /\ path # None
    BY WrittenFacts DEF TypeOK, Maybe, LinesAt
  <1>2. HandsOverTo(files[path].lines, nextSeed)
    BY <1>1 DEF Written
  <1>3. OneTrail(path) = files[path].trail
    <2>1. files[path].lines # <<>>
      BY <1>2 DEF HandsOverTo
    <2> QED BY <1>1, <2>1 DEF OneTrail
  <1>4. /\ bound' = path /\ at' = LastRotation(files[path].lines).at
        /\ pc' = IF AlreadyListed THEN "listed" ELSE "writing"
        /\ UNCHANGED <<list, seed, nextSeed, files>>
    BY <1>1 DEF Holds, folder, audit
  <1>5. CASE AlreadyListed
    <2>1. Final(list) = Listed(nextSeed, LastRotation(files[path].lines).at, files[path].trail)
      BY <1>1, <1>3, <1>5 DEF AlreadyListed, Took
    <2> QED BY <1>1, <1>2, <1>4, <1>5, <2>1 DEF HeldSigned, Goal, Deciding, Decided, Final
  <1>6. CASE ~AlreadyListed
    BY <1>1, <1>2, <1>4, <1>6 DEF HeldSigned, Goal, Deciding, Decided
  <1> QED BY <1>5, <1>6

LEMMA FinishingSigned ==
  ASSUME RInv, Finishing
  PROVE  HeldSigned'
  <1> USE DEF RInv, IInv
  <1>1. UNCHANGED files
    BY DeskSteps DEF audit
  <1>2. ASSUME NEW before, NEW after, Look(before, after),
               <<before, after>> \in {<<"writing", "appending">>, <<"listed", "archiving">>,
                                      <<"promoting", "placing">>, <<"withdrawing", "undoNext">>}
        PROVE  HeldSigned'
    <2>1. /\ pc = before /\ who' = who /\ UNCHANGED <<seed, nextSeed, list>>
          /\ pc' = "idle" \/ (pc' = after /\ UNCHANGED <<bound, at>>)
      BY <1>2 DEF Look, Goes, Ends, folder
    <2>2. Final(list)' = Final(list)
      BY <2>1 DEF Final
    <2>3. "owner" # "start"
      OBVIOUS
    <2>4. CASE pc' = "idle"
      BY <2>4 DEF HeldSigned, Deciding, Decided
    <2>5. CASE pc' = after /\ UNCHANGED <<bound, at>> /\ pc \in {"writing", "listed"}
      BY <1>1, <1>2, <2>1, <2>2, <2>5 DEF HeldSigned, Goal, Deciding, Decided
    <2>6. CASE pc' = after /\ pc = "promoting"
      BY <1>2, <2>1, <2>6 DEF HeldSigned, Deciding, Decided
    <2>7. CASE pc' = after /\ pc = "withdrawing"
      BY <1>2, <2>1, <2>7 DEF HeldSigned, Deciding, Decided
    <2> QED BY <1>2, <2>1, <2>4, <2>5, <2>6, <2>7
  <1>3. CASE LookBeforeList \/ LookBeforeMoves \/ LookBeforePlacing \/ LookBeforeUndo
    BY <1>2, <1>3 DEF LookBeforeList, LookBeforeMoves, LookBeforePlacing, LookBeforeUndo
  <1>4. CASE AppendKey
    <2>1. /\ pc = "appending" /\ pc' = "listed"
          /\ UNCHANGED <<seed, nextSeed, who, bound, at>>
      BY <1>4 DEF AppendKey, Goes
    <2>2. Final(list') = Listed(nextSeed, at, files[bound].trail)
      BY <1>4, AppendShape DEF FolderFacts
    <2>3. Final(list)' = Final(list')
      BY DEF Final
    <2> QED BY <1>1, <2>1, <2>2, <2>3 DEF HeldSigned, Goal, Deciding, Decided
  <1>5. CASE ArchiveSeed
    <2>1. /\ pc = "archiving" /\ pc' = "placing"
          /\ UNCHANGED <<nextSeed, list, who, bound, at>>
      BY <1>5 DEF ArchiveSeed, Goes
    <2>2. Final(list)' = Final(list)
      BY <2>1 DEF Final
    <2> QED BY <1>1, <2>1, <2>2 DEF HeldSigned, Goal, Deciding, Decided
  <1>6. CASE PlaceNext
    <2>1. /\ pc = "placing" /\ pc' = "settling" /\ seed' = nextSeed
          /\ UNCHANGED <<list, who, bound, at>>
      BY <1>6 DEF PlaceNext, Goes
    <2>2. Final(list)' = Final(list)
      BY <2>1 DEF Final
    <2> QED BY <1>1, <2>1, <2>2 DEF HeldSigned, Goal, Deciding, Decided
  <1>7. CASE Settle \/ ArchiveNext \/ ArchiveMarker
    <2>1. pc' \in {"idle", "undoMarker"}
      BY <1>7 DEF Settle, ArchiveNext, ArchiveMarker, Goes, Ends
    <2> QED BY <2>1 DEF HeldSigned, Deciding, Decided
  <1> QED BY <1>3, <1>4, <1>5, <1>6, <1>7 DEF Finishing

LEMMA SignedKept ==
  ASSUME RInv, [Next]_vars, ~RestoreInPlace
  PROVE  HeldSigned'
  <1> USE DEF RInv, IInv
  <1>1. CASE Rotating
    <2>1. pc' \notin {"recover", "promoting"} \cup Deciding \cup Decided
      BY <1>1 DEF Rotating, Confirm, Generate, GenerateNothing, JournalRotate, GiveUp,
                  Ask, JournalFinish, Goes, Ends, Deciding, Decided
    <2> QED BY <2>1 DEF HeldSigned
  <1>2. CASE Inspecting
    <2>1. ASSUME Written(marker), Holds, UNCHANGED <<folder, audit>> PROVE HeldSigned'
      BY <2>1, HoldsSigned
    <2>2. CASE HoldAnswer \/ InspectWritten
      <3>1. \/ pc' = "idle"
            \/ Written(marker) /\ Holds /\ UNCHANGED <<folder, audit>>
        BY <2>2 DEF HoldAnswer, InspectWritten, Ends
      <3> QED BY <2>1, <3>1 DEF HeldSigned, Deciding, Decided
    <2>3. CASE InspectPromoting
      <3>1. pc = "recover" /\ pc' = "promoting" /\ who' = who
        BY <2>3 DEF InspectPromoting
      <3> QED BY <3>1 DEF HeldSigned, Deciding, Decided
    <2>4. CASE InspectUnwritten \/ InspectSettled \/ InspectUnknown
      <3>1. pc' \in {"withdrawing", "idle"}
        BY <2>4 DEF InspectUnwritten, InspectSettled, InspectUnknown, Ends
      <3> QED BY <3>1 DEF HeldSigned, Deciding, Decided
    <2> QED BY <1>2, <2>2, <2>3, <2>4 DEF Inspecting
  <1>3. CASE Finishing
    BY <1>3, FinishingSigned
  <1>4. CASE StepFails \/ Crash \/ Start
    <2>1. pc' \in {"idle", "down"} \/ (pc' = "recover" /\ who' = "start")
      BY <1>4 DEF StepFails, Crash, Start, Ends
    <2> QED BY <2>1 DEF HeldSigned, Deciding, Decided
  <1>5. CASE Runtime \/ Owner
    <2>1. UNCHANGED <<seed, nextSeed, list, bound, who>>
      BY <1>5, OthersSteps DEF folder
    <2>2. Final(list)' = Final(list)
      BY <2>1 DEF Final
    <2>3. (pc' = pc /\ at' = at) \/ pc' \in {"rotated", "refused"}
      BY <1>5, OthersSteps
    <2>4. bound # None => /\ files'[bound].lines = files[bound].lines
                          /\ files'[bound].trail = files[bound].trail
      BY <1>5, BoundStays
    <2> QED BY <2>1, <2>2, <2>3, <2>4 DEF HeldSigned, Goal, Deciding, Decided
  <1>6. CASE UNCHANGED vars
    <2>1. UNCHANGED <<seed, nextSeed, list, bound, who, pc, at, files>>
      BY <1>6 DEF vars, folder, audit, process
    <2>2. Final(list)' = Final(list)
      BY <2>1 DEF Final
    <2> QED BY <2>1, <2>2 DEF HeldSigned, Goal, Deciding, Decided
  <1> QED BY <1>1, <1>2, <1>3, <1>4, <1>5, <1>6 DEF Next

\* Only a rotation's last step answers "rotated".
LEMMA RotatedIsSettle ==
  ASSUME [Next]_vars, answer' = "rotated", answer # "rotated"
  PROVE  Settle /\ who = "owner" /\ TrailStill
  <1>1. CASE Settle
    BY <1>1 DEF Settle, Ends
  <1>2. CASE ~Settle
    BY <1>2, AnswerAssumption DEF Next, Rotating, Confirm, Generate, GenerateNothing, JournalRotate, GiveUp, Ask,
           JournalFinish, Inspecting, HoldAnswer, InspectWritten, InspectUnwritten,
           InspectPromoting, InspectSettled, InspectUnknown, Finishing, LookBeforeList,
           LookBeforeMoves, LookBeforePlacing, LookBeforeUndo, Look, AppendKey,
           ArchiveSeed, PlaceNext, ArchiveNext, ArchiveMarker, StepFails, Crash,
           Start, Holds, Goes, Ends, Runtime, RuntimeAnswers, AnswerIsLost, OrphanRotates,
           RuntimeRotates, RuntimeRefuses, RecordDecision, BeginTrail, Owner, MoveAside,
           PutBack, CopyBack, CutBack, vars, process
  <1> QED BY <1>1, <1>2

\* A trail that hands over has a key in force: the one handed over to.
LEMMA HandedInForce ==
  ASSUME NEW lines, NEW k, HandsOverTo(lines, k)
  PROVE  InForce(lines) = k
  <1>1. PICK i \in 1 .. Len(lines) : IsLastRotation(lines, i)
    BY DEF HandsOverTo
  <1>2. i \in RotationsOf(lines)
    BY <1>1 DEF RotationsOf, IsLastRotation
  <1>3. lines # <<>>
    BY <1>1
  <1> QED BY <1>2, <1>3 DEF InForce, HandsOverTo

\* The owner is answered "rotated" only where the desk names the next key, its
\* list ends in it, and the trail at the path hands over to it at that record,
\* as long as no sidecar is cut back in place (settleRotation; issue #321).
THEOREM AnsweredRotatedIsSigned == ~RestoreInPlace => (Spec => RotatedMeansSigned)
  <1> SUFFICES ASSUME ~RestoreInPlace PROVE Spec => RotatedMeansSigned
    OBVIOUS
  <1>1. Init => RInv
    BY InitTypes, InitShape, InitSigned DEF RInv, IInv
  <1>2. RInv /\ [Next]_vars => RInv'
    BY Inductive, SignedKept DEF RInv
  <1>3. ASSUME RInv, [Next]_vars, answer' = "rotated", answer # "rotated"
        PROVE  /\ marker' = None /\ nextSeed' = None
               /\ Final(list').key = seed'
               /\ path' # None /\ Final(list').trail = files'[path'].trail
               /\ InForce(files'[path'].lines) = seed'
               /\ LastRotation(files'[path'].lines).at = Final(list').at
    <2>1. Settle /\ who = "owner" /\ path = bound /\ pc = "settling"
      BY <1>3, RotatedIsSettle DEF TrailStill, Settle
    <2>2. marker' = None /\ UNCHANGED <<seed, nextSeed, list, files, path>>
      BY <2>1 DEF Settle, RemoveMarker, audit
    <2>3. nextSeed = None
      BY <1>3, <2>1 DEF RInv, IInv, Shape, Running, Steps
    <2>4. /\ bound # None /\ HandsOverTo(files[bound].lines, seed)
          /\ Final(list) = Listed(seed, LastRotation(files[bound].lines).at, files[bound].trail)
      BY <1>3, <2>1 DEF RInv, HeldSigned, Goal, Decided
    <2>5. Final(list') = Final(list)
      BY <2>2 DEF Final
    <2>6. InForce(files[bound].lines) = seed
      BY <2>4, HandedInForce
    <2>7. files'[path'] = files[bound]
      BY <2>1, <2>2
    <2> QED BY <2>1, <2>2, <2>3, <2>4, <2>5, <2>6, <2>7 DEF Listed
  <1>4. RInv /\ [Next]_vars =>
          (answer' = "rotated" /\ answer # "rotated" =>
             /\ marker' = None /\ nextSeed' = None
             /\ Final(list').key = seed'
             /\ path' # None /\ Final(list').trail = files'[path'].trail
             /\ InForce(files'[path'].lines) = seed'
             /\ LastRotation(files'[path'].lines).at = Final(list').at)
    BY <1>3
  <1> QED BY <1>1, <1>2, <1>4, PTL DEF Spec, RotatedMeansSigned

-------------------------------------------------------------------------------
(* Where the owner moved nothing, the list, the seed and the sidecar of a    *)
(* desk with nothing to finish agree, wherever no runtime outlives its Desk. *)

\* The keys listed after the first are those the lines hand over to, in order.
Matches(keys, lines) ==
    /\ Cardinality(RotationsOf(lines)) = Len(keys) - 1
    /\ \A i \in RotationsOf(lines) :
          LET n == 1 + Nth(lines, i)
          IN  /\ lines[i].next = keys[n].key
              /\ lines[i].by = keys[n - 1].key
              /\ lines[i].at = keys[n].at

\* The rotations of a sidecar are finitely many, and each has its number.
LEMMA NthBounds ==
  ASSUME NEW lines \in Seq(Line)
  PROVE  /\ IsFiniteSet(RotationsOf(lines)) /\ Cardinality(RotationsOf(lines)) \in Nat
         /\ \A i \in RotationsOf(lines) : Nth(lines, i) \in 1 .. Cardinality(RotationsOf(lines))
  <1> DEFINE R == RotationsOf(lines)
  <1>1. IsFiniteSet(1 .. Len(lines)) /\ R \subseteq 1 .. Len(lines)
    BY FS_Interval DEF RotationsOf
  <1>2. IsFiniteSet(R) /\ Cardinality(R) \in Nat
    BY <1>1, FS_Subset, FS_CardinalityType
  <1>3. ASSUME NEW i \in R PROVE Nth(lines, i) \in 1 .. Cardinality(R)
    <2> DEFINE upto == {j \in R : j <= i}
    <2>1. upto \subseteq R /\ i \in upto
      BY <1>1, <1>3
    <2> HIDE DEF upto, R
    <2>2. IsFiniteSet(upto) /\ Cardinality(upto) \in Nat /\ Cardinality(upto) <= Cardinality(R)
      BY <1>2, <2>1, FS_Subset, FS_CardinalityType
    <2>3. Cardinality(upto) # 0
      BY <2>1, <2>2, FS_EmptySet
    <2>4. Nth(lines, i) = Cardinality(upto)
      BY DEF Nth, upto, R
    <2> QED BY <1>2, <2>2, <2>3, <2>4
  <1> QED BY <1>2, <1>3

\* A record's line leaves the rotations, and their numbers, as they were.
LEMMA RotationsAfterRecord ==
  ASSUME NEW lines \in Seq(Line), NEW x \in Line, ~IsRotation(x)
  PROVE  /\ RotationsOf(Append(lines, x)) = RotationsOf(lines)
         /\ \A i \in RotationsOf(lines) :
              Append(lines, x)[i] = lines[i] /\ Nth(Append(lines, x), i) = Nth(lines, i)
  <1>1. /\ Len(Append(lines, x)) = Len(lines) + 1 /\ Len(lines) \in Nat
        /\ Append(lines, x)[Len(lines) + 1] = x
        /\ \A i \in 1 .. Len(lines) : Append(lines, x)[i] = lines[i]
    OBVIOUS
  <1>2. \A i \in 1 .. Len(lines) + 1 : i \in 1 .. Len(lines) \/ i = Len(lines) + 1
    BY <1>1
  <1>3. 1 .. Len(lines) \subseteq 1 .. Len(lines) + 1
    BY <1>1
  <1>4. RotationsOf(Append(lines, x)) = RotationsOf(lines)
    BY <1>1, <1>2, <1>3 DEF RotationsOf
  <1> QED BY <1>1, <1>4 DEF Nth, RotationsOf

\* A rotation's line is one rotation more, the last.
LEMMA RotationsAfterRotation ==
  ASSUME NEW lines \in Seq(Line), NEW x \in Line, IsRotation(x)
  PROVE  /\ RotationsOf(Append(lines, x)) = RotationsOf(lines) \cup {Len(lines) + 1}
         /\ Cardinality(RotationsOf(Append(lines, x))) = Cardinality(RotationsOf(lines)) + 1
         /\ Append(lines, x)[Len(lines) + 1] = x
         /\ Nth(Append(lines, x), Len(lines) + 1) = Cardinality(RotationsOf(lines)) + 1
         /\ \A i \in RotationsOf(lines) :
              Append(lines, x)[i] = lines[i] /\ Nth(Append(lines, x), i) = Nth(lines, i)
         /\ IsLastRotation(Append(lines, x), Len(lines) + 1)
         /\ Len(lines) + 1 \in 1 .. Len(Append(lines, x))
  <1> DEFINE R == RotationsOf(lines)
             S == RotationsOf(Append(lines, x))
  <1>1. /\ Len(Append(lines, x)) = Len(lines) + 1 /\ Len(lines) \in Nat
        /\ Append(lines, x)[Len(lines) + 1] = x
        /\ \A i \in 1 .. Len(lines) : Append(lines, x)[i] = lines[i]
    OBVIOUS
  <1>2. \A i \in 1 .. Len(lines) + 1 : i \in 1 .. Len(lines) \/ i = Len(lines) + 1
    BY <1>1
  <1>3. 1 .. Len(lines) \subseteq 1 .. Len(lines) + 1 /\ Len(lines) + 1 \in 1 .. Len(lines) + 1
    BY <1>1
  <1>4. S = R \cup {Len(lines) + 1}
    BY <1>1, <1>2, <1>3 DEF RotationsOf
  <1>5. R \subseteq 1 .. Len(lines) /\ Len(lines) + 1 \notin R
    BY <1>1 DEF RotationsOf
  <1>6. Cardinality(S) = Cardinality(R) + 1
    BY <1>4, <1>5, NthBounds, FS_AddElement
  <1>7. {j \in S : j <= Len(lines) + 1} = S
    BY <1>1, <1>4, <1>5
  <1>8. Nth(Append(lines, x), Len(lines) + 1) = Cardinality(S)
    BY <1>7 DEF Nth
  <1>9. ASSUME NEW i \in R PROVE Nth(Append(lines, x), i) = Nth(lines, i)
    <2>1. {j \in S : j <= i} = {j \in R : j <= i}
      BY <1>1, <1>4, <1>5
    <2> QED BY <2>1 DEF Nth
  <1>10. IsLastRotation(Append(lines, x), Len(lines) + 1)
    BY <1>1 DEF IsLastRotation
  <1> QED BY <1>1, <1>3, <1>4, <1>5, <1>6, <1>8, <1>9, <1>10

\* The last rotation is one line, whatever it is found as.
LEMMA LastIsOne ==
  ASSUME NEW lines \in Seq(Line), NEW i \in 1 .. Len(lines), IsLastRotation(lines, i)
  PROVE  LastRotation(lines) = lines[i]
  <1>1. \A j \in 1 .. Len(lines) : IsLastRotation(lines, j) => j = i
    BY DEF IsLastRotation
  <1> QED BY <1>1 DEF LastRotation

LEMMA LastAfterRecord ==
  ASSUME NEW lines \in Seq(Line), NEW x \in Line, ~IsRotation(x), NEW k, HandsOverTo(lines, k)
  PROVE  /\ HandsOverTo(Append(lines, x), k)
         /\ LastRotation(Append(lines, x)) = LastRotation(lines)
  <1>1. PICK i \in 1 .. Len(lines) : IsLastRotation(lines, i)
    BY DEF HandsOverTo
  <1>2. /\ Len(Append(lines, x)) = Len(lines) + 1 /\ Len(lines) \in Nat
        /\ Append(lines, x)[Len(lines) + 1] = x
        /\ \A j \in 1 .. Len(lines) : Append(lines, x)[j] = lines[j]
    OBVIOUS
  <1>3. i \in 1 .. Len(Append(lines, x)) /\ Append(lines, x)[i] = lines[i]
    BY <1>2
  <1>4. \A j \in 1 .. Len(lines) + 1 : j \in 1 .. Len(lines) \/ j = Len(lines) + 1
    BY <1>2
  <1>5. IsLastRotation(Append(lines, x), i)
    BY <1>1, <1>2, <1>3, <1>4 DEF IsLastRotation
  <1>6. Append(lines, x) \in Seq(Line)
    OBVIOUS
  <1> QED BY <1>1, <1>3, <1>5, <1>6, LastIsOne DEF HandsOverTo

\* What matching says of one rotation.
LEMMA MatchesAt ==
  ASSUME NEW keys, NEW lines, Matches(keys, lines), NEW i \in RotationsOf(lines)
  PROVE  /\ lines[i].next = keys[1 + Nth(lines, i)].key
         /\ lines[i].by = keys[(1 + Nth(lines, i)) - 1].key
         /\ lines[i].at = keys[1 + Nth(lines, i)].at
  BY DEF Matches

LEMMA MatchesAfterRecord ==
  ASSUME NEW lines \in Seq(Line), NEW x \in Line, ~IsRotation(x), NEW keys,
         Matches(keys, lines)
  PROVE  Matches(keys, Append(lines, x))
  <1> DEFINE more == Append(lines, x)
  <1>1. /\ RotationsOf(more) = RotationsOf(lines)
        /\ \A i \in RotationsOf(lines) : more[i] = lines[i] /\ Nth(more, i) = Nth(lines, i)
    BY RotationsAfterRecord
  <1>2. Cardinality(RotationsOf(lines)) = Len(keys) - 1
    BY DEF Matches
  <1> HIDE DEF more
  <1>3. ASSUME NEW i \in RotationsOf(more)
        PROVE  /\ more[i].next = keys[1 + Nth(more, i)].key
               /\ more[i].by = keys[(1 + Nth(more, i)) - 1].key
               /\ more[i].at = keys[1 + Nth(more, i)].at
    <2>1. i \in RotationsOf(lines) /\ more[i] = lines[i] /\ Nth(more, i) = Nth(lines, i)
      BY <1>1, <1>3
    <2> QED BY <2>1, MatchesAt
  <1>4. Matches(keys, more)
    BY <1>1, <1>2, <1>3 DEF Matches
  <1> QED BY <1>4 DEF more

\* A rotation written from the last key listed matches it and one key more.
LEMMA MatchesAfterRotation ==
  ASSUME NEW lines \in Seq(Line), NEW x \in Line, IsRotation(x),
         NEW keys \in Seq(ListedKey), NEW k \in ListedKey, keys # <<>>,
         Matches(keys, lines), x.by = Final(keys).key, x.next = k.key, x.at = k.at
  PROVE  Matches(Append(keys, k), Append(lines, x))
  <1> DEFINE R == RotationsOf(lines)
             S == RotationsOf(Append(lines, x))
             c == Cardinality(R)
  <1>1. /\ Len(Append(keys, k)) = Len(keys) + 1 /\ Len(keys) \in Nat /\ Len(keys) >= 1
        /\ Append(keys, k)[Len(keys) + 1] = k
        /\ \A i \in 1 .. Len(keys) : Append(keys, k)[i] = keys[i]
    OBVIOUS
  <1>2. c = Len(keys) - 1 /\ c \in Nat
    BY NthBounds DEF Matches
  <1>3. Cardinality(S) = Len(Append(keys, k)) - 1
    BY <1>1, <1>2, RotationsAfterRotation
  <1>4. ASSUME NEW i \in R
        PROVE  /\ Append(lines, x)[i].next = Append(keys, k)[1 + Nth(Append(lines, x), i)].key
               /\ Append(lines, x)[i].by = Append(keys, k)[(1 + Nth(Append(lines, x), i)) - 1].key
               /\ Append(lines, x)[i].at = Append(keys, k)[1 + Nth(Append(lines, x), i)].at
    <2>1. Append(lines, x)[i] = lines[i] /\ Nth(Append(lines, x), i) = Nth(lines, i)
      BY RotationsAfterRotation
    <2>2. Nth(lines, i) \in 1 .. c
      BY NthBounds
    <2>3. 1 + Nth(lines, i) \in 1 .. Len(keys) /\ (1 + Nth(lines, i)) - 1 \in 1 .. Len(keys)
      BY <1>1, <1>2, <2>2
    <2>4. /\ Append(keys, k)[1 + Nth(lines, i)] = keys[1 + Nth(lines, i)]
          /\ Append(keys, k)[(1 + Nth(lines, i)) - 1] = keys[(1 + Nth(lines, i)) - 1]
      BY <1>1, <2>3
    <2>5. /\ lines[i].next = keys[1 + Nth(lines, i)].key
          /\ lines[i].by = keys[(1 + Nth(lines, i)) - 1].key
          /\ lines[i].at = keys[1 + Nth(lines, i)].at
      BY <1>4, MatchesAt
    <2> QED BY ONLY <2>1, <2>4, <2>5
  <1>5. ASSUME NEW i, i = Len(lines) + 1
        PROVE  /\ Append(lines, x)[i].next = Append(keys, k)[1 + Nth(Append(lines, x), i)].key
               /\ Append(lines, x)[i].by = Append(keys, k)[(1 + Nth(Append(lines, x), i)) - 1].key
               /\ Append(lines, x)[i].at = Append(keys, k)[1 + Nth(Append(lines, x), i)].at
    <2>1. Append(lines, x)[Len(lines) + 1] = x
          /\ Nth(Append(lines, x), Len(lines) + 1) = c + 1
      BY RotationsAfterRotation
    <2>2. 1 + (c + 1) = Len(keys) + 1 /\ (1 + (c + 1)) - 1 = Len(keys)
          /\ Len(keys) \in 1 .. Len(keys)
      BY <1>1, <1>2
    <2>3. Append(keys, k)[1 + (c + 1)] = k /\ Append(keys, k)[(1 + (c + 1)) - 1] = Final(keys)
      BY <1>1, <2>2 DEF Final
    <2> QED BY <1>5, <2>1, <2>3
  <1>6. S = R \cup {Len(lines) + 1}
    BY RotationsAfterRotation
  <1> HIDE DEF R, S
  <1>7. \A i \in S :
          /\ Append(lines, x)[i].next = Append(keys, k)[1 + Nth(Append(lines, x), i)].key
          /\ Append(lines, x)[i].by = Append(keys, k)[(1 + Nth(Append(lines, x), i)) - 1].key
          /\ Append(lines, x)[i].at = Append(keys, k)[1 + Nth(Append(lines, x), i)].at
    BY ONLY <1>4, <1>5, <1>6
  <1> QED BY ONLY <1>3, <1>7 DEF Matches, S

\* On a trail never moved, the first key listed is the trail's first.
LEMMA AgreesIsMatches ==
  ASSUME TypeOK, files[1].trail = 1, files[1].lines # <<>>, NEW keys, NEW k,
         \A i \in 1 .. Len(keys) : keys[i].trail \in {None, 1}
  PROVE  Agrees(keys, k, 1) <=>
           keys # <<>> /\ Final(keys).key = k /\ Matches(keys, files[1].lines)
  <1>1. LinesAt(1) = files[1].lines /\ OneTrail(1) = 1 /\ 1 # None
    BY FilesAssumption DEF LinesAt, OneTrail
  <1>2. {i \in 2 .. Len(keys) : keys[i].trail \notin {None, OneTrail(1)}} = {}
    BY <1>1
  <1>3. TrailFirst(keys, 1) = 1
    BY <1>1, <1>2 DEF TrailFirst
  <1> QED BY <1>1, <1>3 DEF Agrees, Matches

\* The last rotation the trail carries, and how the list takes it.
Last == LastRotation(files[1].lines)
TookLast == Listed(nextSeed, Last.at, 1)

\* How far a rotation of a trail never moved has come: not written, written
\* and not listed, or listed and the seed not yet gone over.
NotWritten == Final(list).key = seed /\ Matches(list, files[1].lines)
NotListed ==
    /\ Final(list).key = seed /\ nextSeed # None
    /\ HandsOverTo(files[1].lines, nextSeed)
    /\ Matches(Append(list, TookLast), files[1].lines)
NotPlaced == Final(list).key = nextSeed /\ Matches(list, files[1].lines)

BeforeWritten == {"made", "journalled", "asked", "withdrawing", "undoNext"}

Unmoved ==
    /\ path = 1 /\ files[1].trail = 1 /\ files[1].lines # <<>>
    /\ \A i \in 1 .. Len(list) : list[i].trail \in {None, 1}
    /\ NotWritten \/ NotListed \/ NotPlaced
    /\ pc \in BeforeWritten => NotWritten
    /\ pc \in Deciding => bound = 1 /\ at = Last.at /\ NotListed

\* Only a runtime Desk waits for can rotate, to the key Desk made.
OnlyAsked ==
    request # None => pc = "asked" /\ request = [by |-> seed, next |-> nextSeed]

AInv == IInv /\ OnlyAsked /\ (moves = 0 => Unmoved)

LEMMA AppendToOne ==
  ASSUME NEW S, NEW a \in S, NEW b \in S
  PROVE  Append(<<a>>, b) = <<a, b>>
  <1>1. /\ <<a>> \in Seq(S) /\ Append(<<a>>, b) \in Seq(S) /\ <<a, b>> \in Seq(S)
        /\ Len(<<a>>) = 1 /\ <<a>>[1] = a /\ Len(Append(<<a>>, b)) = 2 /\ Len(<<a, b>>) = 2
    OBVIOUS
  <1>2. \A i \in 1 .. 2 : Append(<<a>>, b)[i] = <<a, b>>[i]
    <2>1. Append(<<a>>, b)[1] = a /\ Append(<<a>>, b)[2] = b
      BY <1>1
    <2>2. \A i \in 1 .. 2 : i = 1 \/ i = 2
      OBVIOUS
    <2> QED BY <2>1, <2>2
  <1> QED BY <1>1, <1>2, SeqEqual

LEMMA InitUnmoved ==
  ASSUME Init
  PROVE  OnlyAsked /\ Unmoved
  <1>1. PICK k \in Keys :
          InitFolder(k) /\ (InitFresh(k) \/ \E next \in Keys : InitLegacy(k, next))
    BY DEF Init
  <1>2. /\ seed = k /\ list = <<Listed(k, 0, None)>> /\ path = 1 /\ request = None
        /\ pc \in {"idle", "down"}
    BY <1>1 DEF InitFolder, InitFresh, InitLegacy
  <1>3. /\ Len(list) = 1 /\ list[1] = Listed(k, 0, None) /\ Final(list) = Listed(k, 0, None)
        /\ list # <<>> /\ list \in Seq(ListedKey)
    BY <1>2 DEF Final, Listed, ListedKey, Maybe
  <1>4. Final(list).key = seed /\ \A i \in 1 .. Len(list) : list[i].trail \in {None, 1}
    BY <1>2, <1>3 DEF Listed
  <1> DEFINE first == Signature(k, 1)
             lines == <<first>>
  <1>5. first \in Line /\ ~IsRotation(first) /\ lines \in Seq(Line)
    BY DEF Signature, Line, Maybe, IsRotation
  <1>6. RotationsOf(lines) = {}
    BY <1>5 DEF RotationsOf
  <1>7. Matches(list, lines)
    <2> HIDE DEF lines
    <2> QED BY <1>3, <1>6, FS_EmptySet DEF Matches
  <1>8. CASE FirstTrail(lines)
    <2>1. files[1].trail = 1 /\ files[1].lines = lines /\ lines # <<>>
      BY <1>8, FilesAssumption DEF FirstTrail
    <2> HIDE DEF lines
    <2>2. NotWritten
      BY <1>4, <1>7, <2>1 DEF NotWritten
    <2> QED BY <1>2, <1>4, <2>1, <2>2 DEF OnlyAsked, Unmoved, BeforeWritten, Deciding
  <1>9. ASSUME NEW next \in Keys, InitLegacy(k, next), FirstTrail(<<first, Rotation(k, 1, next)>>)
        PROVE  OnlyAsked /\ Unmoved
    <2> DEFINE x == Rotation(k, 1, next)
               more == Append(lines, x)
    <2>1. more = <<first, Rotation(k, 1, next)>>
      <3>1. x \in Line
        BY DEF Rotation, Line, Maybe
      <3> HIDE DEF x, first
      <3>2. Append(<<first>>, x) = <<first, x>>
        BY <1>5, <3>1, AppendToOne
      <3> QED BY <3>2 DEF x
    <2>2. files[1].trail = 1 /\ files[1].lines = more /\ more # <<>>
      BY <1>9, <2>1, FilesAssumption DEF FirstTrail
    <2>3. x \in Line /\ IsRotation(x) /\ x.by = k /\ x.next = next /\ x.at = 1
      BY DEF Rotation, Line, Maybe, IsRotation
    <2> HIDE DEF x, lines
    <2>4. /\ IsLastRotation(more, Len(lines) + 1) /\ more[Len(lines) + 1] = x
          /\ Len(lines) + 1 \in 1 .. Len(more)
      BY <1>5, <2>3, RotationsAfterRotation
    <2>5. more \in Seq(Line)
      BY <1>5, <2>3
    <2>6. LastRotation(more) = x
      BY <2>4, <2>5, LastIsOne
    <2>7. nextSeed = next /\ next # None
      BY <1>9, KeysAssumption DEF InitLegacy
    <2>8. TookLast = Listed(next, 1, 1)
      BY <2>2, <2>3, <2>6, <2>7 DEF TookLast, Last
    <2>9. Listed(next, 1, 1) \in ListedKey /\ Listed(next, 1, 1).key = next
          /\ Listed(next, 1, 1).at = 1
      BY FilesAssumption DEF Listed, ListedKey, Maybe
    <2>10. Final(list).key = k
      BY <1>2, <1>4
    <2> HIDE DEF more
    <2>11. Matches(Append(list, TookLast), more)
      BY <1>3, <1>5, <1>7, <2>3, <2>8, <2>9, <2>10, MatchesAfterRotation DEF more
    <2>12. HandsOverTo(more, next)
      BY <2>3, <2>4, <2>6 DEF HandsOverTo
    <2>13. NotListed
      BY <1>4, <2>2, <2>7, <2>11, <2>12 DEF NotListed
    <2> QED BY <1>2, <1>4, <2>2, <2>13 DEF OnlyAsked, Unmoved, BeforeWritten, Deciding
  <1> QED BY <1>1, <1>8, <1>9 DEF InitFresh, InitLegacy

\* Where the folder and the sidecar stay, so does how far the rotation has come.
LEMMA UnmovedSame ==
  ASSUME Unmoved, UNCHANGED <<seed, nextSeed, list, path, files>>,
         pc' \in BeforeWritten => NotWritten,
         pc' \in Deciding => bound' = 1 /\ at' = Last.at /\ NotListed
  PROVE  Unmoved'
  BY DEF Unmoved, NotWritten, NotListed, NotPlaced, TookLast, Last, Final

\* With no next key made, there is nothing written to list.
LEMMA NoNextNothingWritten ==
  ASSUME IInv, Unmoved, nextSeed = None
  PROVE  NotWritten
  <1>1. Final(list).key # None
    BY LastIsListed, KeysAssumption DEF IInv
  <1> QED BY <1>1 DEF Unmoved, NotListed, NotPlaced

\* A rotation decided on is written, and the list, with it, matches the trail.
LEMMA HoldsUnmoved ==
  ASSUME IInv, Unmoved, Written(marker), Holds, UNCHANGED <<folder, audit>>
  PROVE  Unmoved'
  <1> USE DEF IInv
  <1>1. /\ UNCHANGED <<seed, nextSeed, list, path, files>>
        /\ bound' = 1 /\ at' = Last.at /\ pc' = IF AlreadyListed THEN "listed" ELSE "writing"
        /\ path = 1 /\ files[1].trail = 1 /\ files[1].lines # <<>>
    BY FilesAssumption DEF Holds, folder, audit, Unmoved, Last, LinesAt
  <1>2. LinesAt(path) = files[1].lines /\ OneTrail(path) = 1
    BY <1>1, FilesAssumption DEF LinesAt, OneTrail
  <1>3. Took = TookLast
    BY <1>2 DEF Took, TookLast, Last
  <1>4. CASE AlreadyListed
    BY <1>1, <1>4, UnmovedSame DEF BeforeWritten, Deciding
  <1>5. CASE ~AlreadyListed
    <2>1. ToBeListed /\ HandsOverTo(files[1].lines, nextSeed) /\ nextSeed # None
      BY <1>2, <1>5 DEF Written, Decidable
    <2>2. Final(list).key = seed /\ Agrees(Append(list, TookLast), nextSeed, 1)
      BY <1>1, <1>3, <2>1 DEF ToBeListed
    <2>3. LastRotation(files[1].lines) \in Line /\ nextSeed \in Keys
      BY <1>2, <2>1, WrittenFacts DEF TypeOK, Maybe
    <2>4. TookLast \in ListedKey /\ TookLast.trail = 1
      BY <2>3, FilesAssumption DEF TookLast, Last, Listed, ListedKey, Line, Maybe
    <2>5. \A i \in 1 .. Len(Append(list, TookLast)) : Append(list, TookLast)[i].trail \in {None, 1}
      <3>1. list \in Seq(ListedKey) /\ \A i \in 1 .. Len(list) : list[i].trail \in {None, 1}
        BY DEF TypeOK, Unmoved
      <3> QED BY <2>4, <3>1
    <2>6. Matches(Append(list, TookLast), files[1].lines)
      BY <1>1, <2>2, <2>5, AgreesIsMatches
    <2>7. NotListed
      BY <2>1, <2>2, <2>6 DEF NotListed
    <2> QED BY <1>1, <1>5, <2>7, UnmovedSame DEF BeforeWritten, Deciding
  <1> QED BY <1>4, <1>5

LEMMA RotatingUnmoved ==
  ASSUME IInv, Unmoved, Rotating
  PROVE  Unmoved'
  <1> USE DEF IInv
  <1>1. ASSUME NEW k \in Keys, Generate(k) PROVE Unmoved'
    <2>1. /\ pc = "marked" /\ pc' \in {"made", "undoNext"} /\ nextSeed = None
          /\ UNCHANGED <<seed, list, path, files>>
      BY <1>1 DEF Generate, audit
    <2>2. NotWritten
      BY <2>1, NoNextNothingWritten
    <2>3. NotWritten'
      BY <2>1, <2>2 DEF NotWritten, Final
    <2> QED BY <2>1, <2>3 DEF Unmoved, Deciding
  <1>2. CASE ~\E k \in Keys : Generate(k)
    <2>1. UNCHANGED <<seed, nextSeed, list, path, files>>
      BY <1>2 DEF Rotating, Confirm, GenerateNothing, JournalRotate, GiveUp, Ask,
                  JournalFinish, RemoveMarker, Journals, folder, audit
    <2>2. /\ pc' \in BeforeWritten => pc \in BeforeWritten
          /\ pc' \notin Deciding
      BY <1>2 DEF Rotating, Confirm, GenerateNothing, JournalRotate, GiveUp, Ask,
                  JournalFinish, Goes, Ends, BeforeWritten, Deciding
    <2> QED BY <2>1, <2>2, UnmovedSame DEF Unmoved
  <1> QED BY <1>1, <1>2

LEMMA InspectingUnmoved ==
  ASSUME IInv, Unmoved, Inspecting
  PROVE  Unmoved'
  <1> USE DEF IInv
  <1>1. CASE HoldAnswer \/ InspectWritten
    <2>1. /\ UNCHANGED <<folder, audit>>
          /\ pc' = "idle" \/ (Written(marker) /\ Holds)
      BY <1>1 DEF HoldAnswer, InspectWritten, Ends
    <2>2. CASE pc' = "idle"
      BY <2>1, <2>2, UnmovedSame DEF folder, audit, BeforeWritten, Deciding
    <2> QED BY <2>1, <2>2, HoldsUnmoved
  <1>2. CASE InspectUnwritten
    <2>1. /\ pc' = "withdrawing" /\ Unwritten(marker)
          /\ UNCHANGED <<seed, nextSeed, list, path, files>>
      BY <1>2 DEF InspectUnwritten, folder, audit
    <2>2. ~Names(files[1].lines, nextSeed) /\ nextSeed \notin KeysListed
      BY <2>1, FilesAssumption DEF Unwritten, Unmoved, LinesAt
    <2>3. ~NotPlaced
      BY <2>2, LastIsListed DEF NotPlaced
    <2>4. ASSUME NotListed PROVE FALSE
      <3>1. PICK i \in 1 .. Len(files[1].lines) : IsLastRotation(files[1].lines, i)
        BY <2>4 DEF NotListed, HandsOverTo
      <3>2. files[1].lines \in Seq(Line)
        BY FilesAssumption DEF TypeOK, Trail
      <3>3. files[1].lines[i].next = nextSeed
        BY <2>4, <3>1, <3>2, LastIsOne DEF NotListed, HandsOverTo
      <3> QED BY <2>2, <3>3 DEF Names
    <2>5. NotWritten
      BY <2>3, <2>4 DEF Unmoved
    <2> QED BY <2>1, <2>5, UnmovedSame DEF Deciding
  <1>3. CASE InspectPromoting \/ InspectSettled \/ InspectUnknown
    <2>1. /\ pc' \notin BeforeWritten \cup Deciding
          /\ UNCHANGED <<seed, nextSeed, list, path, files>>
      BY <1>3 DEF InspectPromoting, InspectSettled, InspectUnknown, Ends, RemoveMarker,
                  folder, audit, BeforeWritten, Deciding
    <2> QED BY <2>1, UnmovedSame
  <1> QED BY <1>1, <1>2, <1>3 DEF Inspecting

LEMMA FinishingUnmoved ==
  ASSUME IInv, Unmoved, Finishing
  PROVE  Unmoved'
  <1> USE DEF IInv
  <1>1. CASE LookBeforeList \/ LookBeforeMoves \/ LookBeforePlacing \/ LookBeforeUndo
             \/ Settle \/ ArchiveMarker
    <2>1. UNCHANGED <<seed, nextSeed, list, path, files>>
      BY <1>1 DEF LookBeforeList, LookBeforeMoves, LookBeforePlacing, LookBeforeUndo, Look,
                  Settle, ArchiveMarker, RemoveMarker, folder, audit
    <2>2. /\ pc' \in BeforeWritten => pc \in BeforeWritten
          /\ pc' \in Deciding => pc \in Deciding /\ UNCHANGED <<bound, at>>
      BY <1>1 DEF LookBeforeList, LookBeforeMoves, LookBeforePlacing, LookBeforeUndo, Look,
                  Settle, ArchiveMarker, Goes, Ends, BeforeWritten, Deciding
    <2> QED BY <2>1, <2>2, UnmovedSame DEF Unmoved
  <1>2. CASE AppendKey
    <2>1. /\ pc = "appending" /\ pc' = "listed" /\ UNCHANGED <<nextSeed, path, files>>
          /\ list' = Append(list, Listed(nextSeed, at, files[bound].trail))
      BY <1>2 DEF AppendKey, Goes, audit
    <2>2. bound = 1 /\ at = Last.at /\ NotListed /\ files[1].trail = 1
      BY <2>1 DEF Unmoved, Deciding
    <2>3. list' = Append(list, TookLast)
      BY <2>1, <2>2 DEF TookLast
    <2>4. /\ Len(list') = Len(list) + 1 /\ Final(list') = list'[Len(list')]
          /\ \A i \in 1 .. Len(list) : list'[i] = list[i]
          /\ Final(list') = TookLast
      BY <1>2, <2>2, AppendShape DEF FolderFacts, TookLast
    <2>5. TookLast.key = nextSeed /\ TookLast.trail = 1
      BY DEF TookLast, Listed
    <2>6. Final(list)' = Final(list')
      BY DEF Final
    <2>7. NotPlaced'
      BY <2>1, <2>2, <2>3, <2>4, <2>5, <2>6 DEF NotListed, NotPlaced
    <2>8. \A i \in 1 .. Len(list') : list'[i].trail \in {None, 1}
      <3>1. Len(list) \in Nat
        BY DEF TypeOK
      <3>2. \A i \in 1 .. Len(list') : i \in 1 .. Len(list) \/ i = Len(list')
        BY <2>4, <3>1
      <3> QED BY <2>4, <2>5, <3>2 DEF Unmoved
    <2> QED BY <2>1, <2>7, <2>8 DEF Unmoved, BeforeWritten, Deciding
  <1>3. CASE ArchiveSeed
    <2>1. /\ pc = "archiving" /\ pc' = "placing" /\ UNCHANGED <<nextSeed, list, path, files>>
      BY <1>3 DEF ArchiveSeed, Goes, audit
    <2>2. Final(list).key = nextSeed /\ seed # nextSeed
      BY <2>1 DEF Shape, KeysKept, Running, Steps
    <2>3. NotPlaced
      BY <2>2 DEF Unmoved, NotWritten, NotListed
    <2>4. NotPlaced'
      BY <2>1, <2>3 DEF NotPlaced, Final
    <2> QED BY <2>1, <2>4 DEF Unmoved, BeforeWritten, Deciding
  <1>4. CASE PlaceNext
    <2>1. /\ seed = None /\ seed' = nextSeed /\ pc' = "settling"
          /\ UNCHANGED <<list, path, files>>
      BY <1>4 DEF PlaceNext, Goes, audit
    <2>2. NotPlaced
      BY <2>1, LastIsListed, KeysAssumption DEF Unmoved, NotWritten, NotListed
    <2>3. NotWritten'
      BY <2>1, <2>2 DEF NotPlaced, NotWritten, Final
    <2> QED BY <2>1, <2>3 DEF Unmoved, BeforeWritten, Deciding
  <1>5. CASE ArchiveNext
    <2>1. /\ pc = "undoNext" /\ pc' = "undoMarker" /\ UNCHANGED <<seed, list, path, files>>
      BY <1>5 DEF ArchiveNext, Goes, audit
    <2>2. NotWritten'
      BY <2>1 DEF Unmoved, BeforeWritten, NotWritten, Final
    <2> QED BY <2>1, <2>2 DEF Unmoved, BeforeWritten, Deciding
  <1> QED BY <1>1, <1>2, <1>3, <1>4, <1>5 DEF Finishing

\* A record's line leaves what the trail hands over as it was.
LEMMA RecordUnmoved ==
  ASSUME IInv, Unmoved, RecordDecision
  PROVE  Unmoved'
  <1> USE DEF IInv
  <1>1. UNCHANGED <<seed, nextSeed, list, path, pc, bound, at>> /\ path = 1
    BY DEF RecordDecision, folder, process, Unmoved
  <1>2. files[1].lines \in Seq(Line) /\ 1 \in Files
    BY FilesAssumption DEF TypeOK, Trail
  <1>3. CASE LinesSame
    BY <1>1, <1>2, <1>3
    DEF LinesSame, Unmoved, NotWritten, NotListed, NotPlaced, TookLast, Last, Final
  <1>4. ASSUME NEW x \in Line, LineMore(x), ~IsRotation(x) PROVE Unmoved'
    <2>1. files'[1].lines = Append(files[1].lines, x) /\ files'[1].trail = files[1].trail
      BY <1>1, <1>4 DEF LineMore
    <2>2. files'[1].lines # <<>>
      BY <1>2, <2>1
    <2>3. NotWritten => NotWritten'
      BY <1>1, <1>2, <1>4, <2>1, MatchesAfterRecord DEF NotWritten, Final
    <2>4. NotPlaced => NotPlaced'
      BY <1>1, <1>2, <1>4, <2>1, MatchesAfterRecord DEF NotPlaced, Final
    <2>5. ASSUME NotListed PROVE NotListed' /\ Last' = Last
      <3>1. /\ HandsOverTo(Append(files[1].lines, x), nextSeed) 
            /\ LastRotation(Append(files[1].lines, x)) = Last
        BY <1>2, <1>4, <2>5, LastAfterRecord DEF NotListed, Last
      <3>2. Last' = Last /\ TookLast' = TookLast
        BY <1>1, <2>1, <3>1 DEF Last, TookLast
      <3>3. Matches(Append(list, TookLast), Append(files[1].lines, x))
        BY <1>2, <1>4, <2>5, MatchesAfterRecord DEF NotListed
      <3> QED BY <1>1, <2>1, <2>5, <3>1, <3>2, <3>3 DEF NotListed, Final
    <2> QED BY <1>1, <2>1, <2>2, <2>3, <2>4, <2>5 DEF Unmoved
  <1> QED BY <1>3, <1>4, RecordLine

\* The runtime Desk waits for writes the rotation Desk asked it for.
LEMMA RotatesUnmoved ==
  ASSUME IInv, OnlyAsked, Unmoved, RuntimeAnswers \/ AnswerIsLost \/ OrphanRotates
  PROVE  Unmoved'
  <1> USE DEF IInv
  <1> DEFINE x == Rotation(request.by, files[path].records, request.next)
  <1>1. RuntimeRotates /\ request # None
    BY DEF RuntimeAnswers, AnswerIsLost, OrphanRotates, RuntimeRotates
  <1>2. pc = "asked" /\ pc' \in {"rotated", "refused"}
        /\ request = [by |-> seed, next |-> nextSeed]
    BY <1>1 DEF OnlyAsked, RuntimeAnswers, AnswerIsLost, OrphanRotates
  <1>3. UNCHANGED <<seed, nextSeed, list, path>> /\ path = 1
    BY <1>1 DEF RuntimeRotates, folder, Unmoved
  <1>4. NotWritten
    BY <1>2 DEF Unmoved, BeforeWritten
  <1>5. files[1].lines \in Seq(Line) /\ files[1].records \in Nat
    BY FilesAssumption DEF TypeOK, Trail
  <1>6. /\ files'[1].lines = Append(files[1].lines, x) /\ files'[1].trail = 1 /\ x \in Line
    BY <1>1, <1>3, RotationLine DEF LineMore, Unmoved
  <1>7. IsRotation(x) /\ x.by = seed /\ x.next = nextSeed /\ x.at = files[1].records
    BY <1>2, <1>3 DEF Rotation, IsRotation
  <1> HIDE DEF x
  <1>8. /\ IsLastRotation(files'[1].lines, Len(files[1].lines) + 1)
        /\ files'[1].lines[Len(files[1].lines) + 1] = x
        /\ Len(files[1].lines) + 1 \in 1 .. Len(files'[1].lines)
        /\ files'[1].lines \in Seq(Line)
    BY <1>5, <1>6, <1>7, RotationsAfterRotation
  <1>9. LastRotation(files'[1].lines) = x
    BY <1>8, LastIsOne
  <1>10. nextSeed \in Keys /\ nextSeed # None
    BY <1>2, KeysAssumption DEF Shape, Running, Steps, TypeOK, Maybe
  <1>11. TookLast' = Listed(nextSeed, files[1].records, 1) /\ Last' = x
    BY <1>3, <1>7, <1>9 DEF TookLast, Last
  <1> DEFINE k == Listed(nextSeed, files[1].records, 1)
  <1>12. k \in ListedKey /\ k.key = nextSeed /\ k.at = files[1].records
    BY <1>5, <1>10, FilesAssumption DEF Listed, ListedKey, Maybe
  <1>13. list \in Seq(ListedKey) /\ list # <<>> /\ Final(list).key = seed
    BY <1>4 DEF TypeOK, Shape, NotWritten
  <1> HIDE DEF k
  <1>14. Matches(Append(list, k), Append(files[1].lines, x))
    BY <1>4, <1>5, <1>6, <1>7, <1>12, <1>13, MatchesAfterRotation DEF NotWritten
  <1>15. HandsOverTo(files'[1].lines, nextSeed)
    BY <1>7, <1>8, <1>9 DEF HandsOverTo
  <1>16. NotListed'
    BY <1>3, <1>6, <1>10, <1>11, <1>13, <1>14, <1>15 DEF NotListed, Final, k
  <1>17. files'[1].lines # <<>>
    BY <1>8
  <1> QED BY <1>2, <1>3, <1>6, <1>16, <1>17 DEF Unmoved, BeforeWritten, Deciding

LEMMA OnlyAskedKept ==
  ASSUME IInv, OnlyAsked, [Next]_vars, ~OrphanRuntime
  PROVE  OnlyAsked'
  <1>1. CASE pc = "asked" /\ pc' # "asked"
    <2>1. request' = None
      BY <1>1 DEF Next, Rotating, Confirm, Generate, GenerateNothing, JournalRotate, GiveUp,
           Ask, JournalFinish, Inspecting, HoldAnswer, InspectWritten, InspectUnwritten,
           InspectPromoting, InspectSettled, InspectUnknown, Finishing, LookBeforeList,
           LookBeforeMoves, LookBeforePlacing, LookBeforeUndo, Look, AppendKey,
           ArchiveSeed, PlaceNext, Settle, ArchiveNext, ArchiveMarker, StepFails, CanFail,
           Crash, Start, Runtime, RuntimeAnswers, AnswerIsLost, OrphanRotates,
           RuntimeRotates, RuntimeRefuses, RecordDecision, BeginTrail, Owner, MoveAside,
           PutBack, CopyBack, CutBack, vars, process
    <2> QED BY <2>1 DEF OnlyAsked
  <1>2. CASE pc = "asked" /\ pc' = "asked"
    <2>1. UNCHANGED <<seed, nextSeed>> /\ request' \in {request, None}
      BY <1>2 DEF Next, Rotating, Confirm, Generate, GenerateNothing, JournalRotate, GiveUp,
           Ask, JournalFinish, Inspecting, HoldAnswer, InspectWritten, InspectUnwritten,
           InspectPromoting, InspectSettled, InspectUnknown, Finishing, LookBeforeList,
           LookBeforeMoves, LookBeforePlacing, LookBeforeUndo, Look, AppendKey,
           ArchiveSeed, PlaceNext, Settle, ArchiveNext, ArchiveMarker, StepFails, CanFail,
           Crash, Start, Runtime, RuntimeAnswers, AnswerIsLost, OrphanRotates,
           RuntimeRotates, RuntimeRefuses, RecordDecision, BeginTrail, Owner, MoveAside,
           PutBack, CopyBack, CutBack, vars, folder, process
    <2> QED BY <1>2, <2>1 DEF OnlyAsked
  <1>3. CASE pc # "asked"
    <2>1. request = None
      BY <1>3 DEF OnlyAsked
    <2>2. CASE Ask
      BY <2>2 DEF Ask, Goes, folder, OnlyAsked
    <2>3. CASE ~Ask
      <3>1. request' = None
        BY <2>1, <2>3 DEF Next, Rotating, Confirm, Generate, GenerateNothing, JournalRotate,
           GiveUp, JournalFinish, Inspecting, HoldAnswer, InspectWritten, InspectUnwritten,
           InspectPromoting, InspectSettled, InspectUnknown, Finishing, LookBeforeList,
           LookBeforeMoves, LookBeforePlacing, LookBeforeUndo, Look, AppendKey,
           ArchiveSeed, PlaceNext, Settle, ArchiveNext, ArchiveMarker, StepFails,
           Crash, Start, Runtime, RuntimeAnswers, AnswerIsLost, OrphanRotates,
           RuntimeRotates, RuntimeRefuses, RecordDecision, BeginTrail, Owner, MoveAside,
           PutBack, CopyBack, CutBack, vars
      <3> QED BY <3>1 DEF OnlyAsked
    <2> QED BY <2>2, <2>3
  <1> QED BY <1>1, <1>2, <1>3

\* Only the owner's moves count as moves.
LEMMA MovesStay ==
  ASSUME IInv, [Next]_vars, moves' = 0
  PROVE  ~Owner /\ moves = 0
  <1>1. moves \in Nat
    BY DEF IInv, TypeOK
  <1>2. ~Owner
    BY <1>1 DEF Owner, MoveAside, PutBack, CopyBack, CutBack, Moves
  <1>3. moves = 0
    BY <1>2 DEF Next, Rotating, Confirm, Generate, GenerateNothing, JournalRotate, GiveUp,
           Ask, JournalFinish, Inspecting, HoldAnswer, InspectWritten, InspectUnwritten,
           InspectPromoting, InspectSettled, InspectUnknown, Finishing, LookBeforeList,
           LookBeforeMoves, LookBeforePlacing, LookBeforeUndo, Look, AppendKey,
           ArchiveSeed, PlaceNext, Settle, ArchiveNext, ArchiveMarker, StepFails,
           Crash, Start, Runtime, RuntimeAnswers, AnswerIsLost, OrphanRotates,
           RuntimeRotates, RuntimeRefuses, RecordDecision, BeginTrail, vars
  <1> QED BY <1>2, <1>3

LEMMA UnmovedKept ==
  ASSUME IInv, OnlyAsked, moves = 0 => Unmoved, [Next]_vars
  PROVE  (moves = 0 => Unmoved)'
  <1> SUFFICES ASSUME moves' = 0 PROVE Unmoved'
    OBVIOUS
  <1>1. ~Owner /\ moves = 0
    BY MovesStay
  <1>4. Unmoved
    BY <1>1
  <1>5. CASE Rotating
    BY <1>4, <1>5, RotatingUnmoved
  <1>6. CASE Inspecting
    BY <1>4, <1>6, InspectingUnmoved
  <1>7. CASE Finishing
    BY <1>4, <1>7, FinishingUnmoved
  <1>8. CASE StepFails \/ Crash \/ Start
    <2>1. /\ UNCHANGED <<seed, nextSeed, list, path, files>>
          /\ pc' \in {"idle", "down", "recover"}
      BY <1>8 DEF StepFails, Crash, Start, Ends, folder, audit
    <2> QED BY <1>4, <2>1, UnmovedSame DEF BeforeWritten, Deciding
  <1>9. CASE Runtime
    <2>1. CASE RuntimeAnswers \/ AnswerIsLost \/ OrphanRotates
      BY <1>4, <2>1, RotatesUnmoved
    <2>2. CASE RuntimeRefuses
      <3>1. UNCHANGED <<seed, nextSeed, list, path, files, bound, at>> /\ pc' \in {pc, "refused"}
        BY <2>2 DEF RuntimeRefuses, folder, audit
      <3> QED BY <1>4, <3>1, UnmovedSame DEF Unmoved, BeforeWritten, Deciding
    <2>3. CASE RecordDecision
      BY <1>4, <2>3, RecordUnmoved
    <2>4. ~\E f \in Files : BeginTrail(f)
      BY <1>4, FilesAssumption DEF BeginTrail, Unmoved
    <2> QED BY <1>9, <2>1, <2>2, <2>3, <2>4 DEF Runtime
  <1>10. CASE UNCHANGED vars
    <2>1. UNCHANGED <<seed, nextSeed, list, path, files, pc, bound, at>>
      BY <1>10 DEF vars, folder, audit, process
    <2> QED BY <1>4, <2>1, UnmovedSame DEF Unmoved
  <1> QED BY <1>1, <1>5, <1>6, <1>7, <1>8, <1>9, <1>10 DEF Next

\* Where the owner moved nothing, a desk with nothing to finish is one whose
\* list, seed and sidecar agree, after any stops and recoveries, as long as no
\* runtime outlives the Desk that asked it (checkKeysAgainst, inspectRotation).
THEOREM NothingToFinishAgrees == ~OrphanRuntime => (Spec => []SettledKeysAgree)
  <1> SUFFICES ASSUME ~OrphanRuntime PROVE Spec => []SettledKeysAgree
    OBVIOUS
  <1>1. Init => AInv
    BY InitTypes, InitShape, InitUnmoved DEF AInv, IInv
  <1>2. AInv /\ [Next]_vars => AInv'
    BY Inductive, OnlyAskedKept, UnmovedKept DEF AInv
  <1>3. AInv => SettledKeysAgree
    <2> SUFFICES ASSUME AInv, moves = 0, marker = None PROVE Agrees(list, seed, path)
      BY DEF SettledKeysAgree
    <2> USE DEF AInv, IInv
    <2>1. Unmoved /\ nextSeed = None
      BY DEF MarkerTellsAll
    <2>2. Final(list).key = seed /\ Matches(list, files[1].lines) /\ list # <<>>
      BY <2>1, NoNextNothingWritten DEF NotWritten, Shape, TypeOK
    <2>3. /\ path = 1 /\ files[1].trail = 1 /\ files[1].lines # <<>>
          /\ \A i \in 1 .. Len(list) : list[i].trail \in {None, 1}
      BY <2>1 DEF Unmoved
    <2> QED BY <2>2, <2>3, AgreesIsMatches
  <1> QED BY <1>1, <1>2, <1>3, PTL DEF Spec

-------------------------------------------------------------------------------
(* Where the owner moved nothing and no runtime outlives its Desk, a start   *)
(* finds what it is to do: the safety half of NextStartFinishes, and what    *)
(* RotationSettles rests on.                                                 *)

Here == files[1].lines

\* The next key is nowhere yet but under its own name.
ToWrite ==
    /\ NotWritten
    /\ nextSeed # None => ~Names(Here, nextSeed) /\ nextSeed \notin KeysListed
\* The list will take the next key, at the record its line came after.
ToList ==
    /\ NotListed /\ Last.at >= 1 /\ nextSeed \notin KeysListed
    /\ Final(list).trail = 1 => Final(list).at < Last.at
\* The list took it, after the seed.
ToPlace ==
    /\ NotPlaced /\ Len(list) >= 2 /\ Final(list).trail = 1
    /\ seed # None => list[Len(list) - 1].key = seed

Staged ==
    /\ ToWrite \/ ToList \/ ToPlace
    /\ Len(list) = 1 => list[1].trail = None

\* The sidecar's last rotation came after a record there is, and before the
\* one a later line signs; its lines name only keys there were.
Lined ==
    /\ RotationsOf(Here) # {} =>
         /\ \E i \in 1 .. Len(Here) : IsLastRotation(Here, i)
         /\ Last.at <= files[1].records
         /\ Final(Here).kind = "record" => Last.at < files[1].records
    /\ \A i \in 1 .. Len(Here) : Here[i].by \in made /\ Here[i].next \in Maybe(made)

\* What the journal says, whatever step a stop came at.
Journalled ==
    marker # None /\ marker.phase # "legacy" =>
      /\ marker.trail = 1
      /\ nextSeed # None /\ Final(list).key = seed => Len(list) < KeyLimit
      /\ marker.phase \in {"rotate", "finish"} /\ nextSeed # None => marker.next = nextSeed
      /\ marker.phase = "rotate" => Grown(marker.sidecar, 1)
      /\ marker.phase = "finish" /\ nextSeed # None =>
           (ToList \/ ToPlace) /\ marker.at = Last.at

\* What each step of a rotation has to show for it.
Stepped ==
    /\ pc \in {"marked", "made"} => marker.phase = "generate"
    /\ pc \in {"journalled", "asked", "rotated"} => marker.phase = "rotate"
    /\ pc = "finishing" => marker.phase = "finish"
    /\ pc = "marked" => Len(list) < KeyLimit
    /\ pc \in {"marked", "made", "journalled", "asked"} /\ Final(list).trail = 1 =>
         Final(list).at < files[1].records
    /\ pc \in {"rotated", "finishing"} => ToList /\ at = Last.at

Recoverable == Staged /\ Lined /\ Journalled /\ Stepped

DInv == AInv /\ (moves = 0 => Recoverable)

\* How far a rotation has come is one of the three.
LEMMA StagesApart ==
  ASSUME IInv
  PROVE  /\ NotWritten => ~NotListed /\ ~NotPlaced
         /\ NotListed => ~NotPlaced
  <1> USE DEF IInv
  <1>1. Final(list).key \in Keys /\ list \in Seq(ListedKey) /\ Len(list) \in Nat
    BY LastIsListed DEF TypeOK
  <1>2. ASSUME Final(list).key = seed, Final(list).key = nextSeed PROVE FALSE
    BY <1>1, <1>2, KeysAssumption DEF KeysKept
  <1>3. Len(Append(list, TookLast)) = Len(list) + 1
    BY <1>1
  <1>4. ASSUME NotWritten, NotListed PROVE FALSE
    BY <1>1, <1>3, <1>4 DEF NotWritten, NotListed, Matches
  <1> QED BY <1>2, <1>4 DEF NotWritten, NotListed, NotPlaced

\* The last rotation of lines that match hands over to the last key listed.
LEMMA MatchesLast ==
  ASSUME NEW lines \in Seq(Line), NEW keys, Len(keys) \in Nat, Matches(keys, lines),
         NEW i \in 1 .. Len(lines), IsLastRotation(lines, i)
  PROVE  /\ LastRotation(lines).next = keys[Len(keys)].key
         /\ LastRotation(lines).by = keys[Len(keys) - 1].key
         /\ LastRotation(lines).at = keys[Len(keys)].at
  <1>1. i \in RotationsOf(lines)
    BY DEF IsLastRotation, RotationsOf
  <1>2. {j \in RotationsOf(lines) : j <= i} = RotationsOf(lines)
    BY DEF IsLastRotation, RotationsOf
  <1>3. Nth(lines, i) = Len(keys) - 1
    BY <1>2 DEF Nth, Matches
  <1>4. 1 + Nth(lines, i) = Len(keys) /\ (1 + Nth(lines, i)) - 1 = Len(keys) - 1
    BY <1>3
  <1>5. LastRotation(lines) = lines[i]
    BY LastIsOne
  <1> QED BY <1>1, <1>4, <1>5, MatchesAt

\* A sidecar that grew still holds what the journal recorded of it first.
LEMMA GrownMore ==
  ASSUME NEW since \in Seen, NEW lines \in Seq(Line), NEW x \in Line,
         Len(since.lines) <= Len(lines), SubSeq(lines, 1, Len(since.lines)) = since.lines
  PROVE  /\ Len(since.lines) <= Len(Append(lines, x))
         /\ SubSeq(Append(lines, x), 1, Len(since.lines)) = since.lines
  <1> DEFINE n == Len(since.lines)
             more == Append(lines, x)
  <1>1. since.lines \in Seq(Line) /\ n \in Nat
    BY DEF Seen
  <1>2. /\ Len(more) = Len(lines) + 1 /\ more \in Seq(Line)
        /\ \A i \in 1 .. Len(lines) : more[i] = lines[i]
    OBVIOUS
  <1> HIDE DEF n, more
  <1>3. n <= Len(lines) /\ n <= Len(more) /\ Len(lines) \in Nat
    BY <1>1, <1>2 DEF n
  <1>4. /\ SubSeq(more, 1, n) \in Seq(Line) /\ SubSeq(lines, 1, n) \in Seq(Line)
        /\ Len(SubSeq(more, 1, n)) = n /\ Len(SubSeq(lines, 1, n)) = n
        /\ \A i \in 1 .. n : SubSeq(more, 1, n)[i] = more[i] /\ SubSeq(lines, 1, n)[i] = lines[i]
    BY <1>1, <1>2, <1>3
  <1>5. SubSeq(more, 1, n) = SubSeq(lines, 1, n)
    BY <1>2, <1>3, <1>4, SeqEqual
  <1> QED BY <1>3, <1>5 DEF n, more

\* Where the folder's keys and the sidecar stay.
LEMMA StagedSame ==
  ASSUME Staged, Lined, UNCHANGED <<seed, nextSeed, list, files, made>>
  PROVE  /\ Staged' /\ Lined'
         /\ ToList' = ToList /\ ToPlace' = ToPlace
  BY DEF Staged, Lined, Here, Last, ToWrite, ToList, ToPlace, NotWritten, NotListed, NotPlaced,
         TookLast, Final, KeysListed

LEMMA JournalledSame ==
  ASSUME Staged, Lined, Journalled,
         UNCHANGED <<seed, nextSeed, list, files, made>>, marker' \in {marker, None}
  PROVE  Journalled'
  BY StagedSame DEF Journalled, Final, Last, Grown, LinesAt

\* What there is at the path, where nothing was moved.
LEMMA HereFacts ==
  ASSUME IInv, Unmoved
  PROVE  /\ path = 1 /\ 1 \in Files /\ files[1] \in Trail /\ files[1].trail = 1
         /\ Here \in Seq(Line) /\ Here # <<>> /\ files[1].records \in Nat
         /\ LinesAt(path) = Here /\ LinesAt(1) = Here /\ OneTrail(path) = 1
         /\ list \in Seq(ListedKey) /\ Len(list) \in Nat /\ list # <<>>
         /\ \A i \in 1 .. Len(list) : list[i].trail \in {None, 1}
  <1>1. path = 1 /\ 1 \in Files /\ 1 # None /\ files[1].trail = 1 /\ Here # <<>>
        /\ \A i \in 1 .. Len(list) : list[i].trail \in {None, 1}
    BY FilesAssumption DEF Unmoved, Here
  <1>2. files[1] \in Trail
    BY <1>1 DEF IInv, TypeOK
  <1>3. Here \in Seq(Line) /\ files[1].records \in Nat
    BY <1>2 DEF Trail, Here
  <1>4. list \in Seq(ListedKey) /\ Len(list) \in Nat /\ list # <<>>
    BY DEF IInv, TypeOK, Shape
  <1> QED BY <1>1, <1>2, <1>3, <1>4 DEF LinesAt, OneTrail, Here

\* Once listed, the last rotation hands over from the key before the last.
LEMMA ListedLast ==
  ASSUME IInv, Unmoved, Lined, ToPlace
  PROVE  /\ HandsOverTo(Here, nextSeed) /\ Last.at = Final(list).at
         /\ Last.by = list[Len(list) - 1].key
         /\ \E i \in 1 .. Len(Here) : IsLastRotation(Here, i)
  <1>1. Matches(list, Here) /\ Len(list) >= 2 /\ Final(list).key = nextSeed
    BY DEF ToPlace, NotPlaced, Here
  <1>2. RotationsOf(Here) # {}
    <2>1. Cardinality(RotationsOf(Here)) # 0
      BY <1>1, HereFacts DEF Matches
    <2> QED BY <2>1, FS_EmptySet
  <1>3. PICK i \in 1 .. Len(Here) : IsLastRotation(Here, i)
    BY <1>2 DEF Lined
  <1>4. /\ LastRotation(Here).next = list[Len(list)].key
        /\ LastRotation(Here).by = list[Len(list) - 1].key
        /\ LastRotation(Here).at = list[Len(list)].at
    BY <1>1, <1>3, HereFacts, MatchesLast
  <1> QED BY <1>1, <1>3, <1>4 DEF HandsOverTo, Last, Here, Final

\* Before that, it hands over from the seed.
LEMMA UnlistedLast ==
  ASSUME IInv, Unmoved, ToList
  PROVE  /\ HandsOverTo(Here, nextSeed) /\ Last.by = seed
         /\ \E i \in 1 .. Len(Here) : IsLastRotation(Here, i)
  <1> DEFINE more == Append(list, TookLast)
  <1>1. Matches(more, Here) /\ HandsOverTo(Here, nextSeed) /\ Final(list).key = seed
    BY DEF ToList, NotListed, Here
  <1>2. PICK i \in 1 .. Len(Here) : IsLastRotation(Here, i)
    BY <1>1 DEF HandsOverTo
  <1>3. Len(more) = Len(list) + 1 /\ Len(list) >= 1
        /\ \A j \in 1 .. Len(list) : more[j] = list[j]
    BY HereFacts
  <1>4. Len(list) \in 1 .. Len(list) /\ Len(more) - 1 = Len(list) /\ Len(more) \in Nat
    BY <1>3, HereFacts
  <1> HIDE DEF more
  <1>5. LastRotation(Here).by = more[Len(more) - 1].key
    BY <1>1, <1>2, <1>4, HereFacts, MatchesLast
  <1>6. more[Len(more) - 1] = list[Len(list)]
    BY <1>3, <1>4
  <1> QED BY <1>1, <1>2, <1>5, <1>6 DEF Last, Here, Final

\* A rotation the trail carries is one that a start finds written.
LEMMA CarriedIsWritten ==
  ASSUME IInv, Unmoved, Staged, Lined, Journalled,
         seed # None, nextSeed # None, ~torn, marker # None, marker.phase # "legacy",
         ToList \/ ToPlace
  PROVE  Written(marker)
  <1> USE DEF IInv
  <1>1. Decidable(marker)
    BY HereFacts DEF Decidable, Journalled
  <1>2. LinesAt(path) = Here /\ Took = TookLast /\ path = 1
    BY HereFacts DEF Took, TookLast, Last, Here
  <1>3. Last = LastRotation(LinesAt(path))
    BY <1>2 DEF Last, Here
  <1>4. HandsOverTo(LinesAt(path), nextSeed) /\ LastRotation(LinesAt(path)).by = seed
    BY <1>2, <1>3, ListedLast, UnlistedLast DEF ToPlace
  <1>5. CASE ToPlace
    <2>1. Final(list) = TookLast
      <3>1. Final(list).key = nextSeed /\ Final(list).at = Last.at /\ Final(list).trail = 1
        BY <1>5, ListedLast DEF ToPlace, NotPlaced
      <3>2. Final(list) \in ListedKey
        BY LastIsListed
      <3>3. Final(list) = [key |-> Final(list).key, at |-> Final(list).at,
                           trail |-> Final(list).trail]
        BY <3>2 DEF ListedKey
      <3> QED BY <3>1, <3>3 DEF TookLast, Listed
    <2>2. Agrees(list, nextSeed, 1)
      BY <1>5, HereFacts, AgreesIsMatches DEF ToPlace, NotPlaced, Here
    <2>3. AlreadyListed
      BY <1>2, <1>5, <2>1, <2>2 DEF AlreadyListed, ToPlace
    <2> QED BY <1>1, <1>4, <2>3 DEF Written
  <1>6. CASE ToList
    <2>1. Final(list).key = seed /\ Matches(Append(list, TookLast), Here)
      BY <1>6 DEF ToList, NotListed, Here
    <2>2. TookLast.key = nextSeed /\ TookLast.at = Last.at /\ TookLast.trail = 1
      BY DEF TookLast, Listed
    <2>3. TookLast \in ListedKey
      <3>1. nextSeed \in Keys
        BY DEF TypeOK, Maybe
      <3>2. PICK i \in 1 .. Len(Here) : IsLastRotation(Here, i)
        BY <1>6, UnlistedLast
      <3>3. Last \in Line
        BY <3>2, HereFacts, LastIsOne DEF Last, Here
      <3> QED BY <3>1, <3>3, HereFacts DEF TookLast, Listed, ListedKey, Line, Maybe
    <2>4. KeptList(list, TookLast)
      <3>1. Len(list) + 1 <= KeyLimit
        BY <2>1, HereFacts, BoundsAssumption DEF Journalled
      <3>2. \A i \in 1 .. Len(list) : list[i].key # nextSeed
        BY <1>6 DEF ToList, KeysListed
      <3> QED BY <1>6, <2>2, <3>1, <3>2 DEF KeptList, ToList
    <2>5. Agrees(Append(list, TookLast), nextSeed, 1)
      <3> DEFINE more == Append(list, TookLast)
      <3>1. /\ Len(more) = Len(list) + 1 /\ more[Len(list) + 1] = TookLast /\ more # <<>>
            /\ \A i \in 1 .. Len(list) : more[i] = list[i]
        BY <2>3, HereFacts
      <3>2. \A i \in 1 .. Len(more) : i \in 1 .. Len(list) \/ i = Len(list) + 1
        BY <3>1, HereFacts
      <3>3. \A i \in 1 .. Len(more) : more[i].trail \in {None, 1}
        BY <2>2, <3>1, <3>2, HereFacts
      <3>4. Final(more).key = nextSeed
        BY <2>2, <3>1 DEF Final
      <3> HIDE DEF more
      <3>5. Agrees(more, nextSeed, 1)
        BY <2>1, <3>1, <3>3, <3>4, HereFacts, AgreesIsMatches DEF Here, more
      <3> QED BY <3>5 DEF more
    <2>6. ToBeListed
      BY <1>2, <2>1, <2>4, <2>5 DEF ToBeListed
    <2> QED BY <1>1, <1>4, <2>6 DEF Written
  <1> QED BY <1>5, <1>6

Decides == Written(marker) \/ Unwritten(marker) \/ Promoting(marker) \/ Settled(marker)

RecoveryDecides ==
    moves = 0 =>
      /\ pc \in {"recover", "refused"} /\ ~torn /\ ~Stranded /\ marker.phase # "legacy"
           => Decides
      /\ pc = "finishing" => Written(marker) /\ LastRotation(LinesAt(path)).at = at

LEMMA RecoverableDecides ==
  ASSUME DInv
  PROVE  RecoveryDecides
  <1> SUFFICES ASSUME moves = 0 PROVE RecoveryDecides
    BY DEF RecoveryDecides
  <1> USE DEF DInv, AInv, IInv
  <1>1. Unmoved /\ Staged /\ Lined /\ Journalled /\ Stepped
    BY DEF Recoverable
  <1>2. ASSUME pc \in {"recover", "refused"}, ~torn, ~Stranded, marker.phase # "legacy"
        PROVE  Decides
    <2>1. marker # None
      BY <1>2 DEF Shape
    <2>2. CASE seed = None
      <3>1. marker.phase = "finish" /\ nextSeed # None /\ Final(list).key = nextSeed
        BY <1>2, <2>1, <2>2 DEF Stranded, GapIsNamed
      <3>2. marker.at = Last.at /\ marker.next = nextSeed /\ marker.trail = 1
        BY <1>1, <1>2, <2>1, <3>1 DEF Journalled
      <3>3. ToPlace
        <4>1. Final(list).key # None
          BY LastIsListed, KeysAssumption
        <4> QED BY <1>1, <2>1, <2>2, <3>1, <4>1 DEF Journalled, ToList, NotListed
      <3>4. HandsOverTo(Here, nextSeed) /\ Last.at = Final(list).at
        BY <1>1, <3>3, ListedLast
      <3>5. LinesAt(path) = Here /\ OneTrail(path) = 1 /\ LastRotation(LinesAt(path)) = Last
        BY <1>1, HereFacts DEF Last, Here
      <3> QED BY <1>2, <2>2, <3>1, <3>2, <3>4, <3>5 DEF Decides, Promoting
    <2>3. CASE seed # None /\ nextSeed = None
      <3>1. NotWritten
        BY <1>1, <2>3, NoNextNothingWritten
      <3>2. Agrees(list, seed, 1)
        BY <1>1, <3>1, HereFacts, AgreesIsMatches DEF NotWritten, Here
      <3> QED BY <1>1, <1>2, <2>3, <3>2, HereFacts DEF Decides, Settled
    <2>4. CASE seed # None /\ nextSeed # None /\ ToWrite
      <3>1. Decidable(marker)
        BY <1>1, <1>2, <2>1, <2>4, HereFacts DEF Decidable, Journalled
      <3>2. marker.phase # "finish"
        BY <1>1, <2>1, <2>4, StagesApart DEF Journalled, ToWrite, ToList, ToPlace
      <3>3. marker.phase \in Phases
        BY <2>1 DEF TypeOK, Maybe, Journal
      <3>4. marker.phase = "rotate" => Grown(marker.sidecar, path)
        BY <1>1, <2>1, HereFacts DEF Journalled
      <3>5. ~Names(LinesAt(path), nextSeed) /\ nextSeed \notin KeysListed
        BY <1>1, <2>4, HereFacts DEF ToWrite
      <3> QED BY <1>2, <3>1, <3>2, <3>3, <3>4, <3>5 DEF Decides, Unwritten, Phases
    <2>5. CASE seed # None /\ nextSeed # None /\ (ToList \/ ToPlace)
      BY <1>1, <1>2, <2>1, <2>5, CarriedIsWritten DEF Decides
    <2> QED BY <1>1, <2>2, <2>3, <2>4, <2>5 DEF Staged
  <1>3. ASSUME pc = "finishing"
        PROVE  Written(marker) /\ LastRotation(LinesAt(path)).at = at
    <2>1. ToList /\ at = Last.at /\ marker.phase = "finish"
      BY <1>1, <1>3 DEF Stepped
    <2>2. marker # None /\ seed # None /\ nextSeed # None /\ ~torn
      BY <1>3 DEF Shape, Running, Steps
    <2>3. Written(marker)
      BY <1>1, <2>1, <2>2, CarriedIsWritten
    <2> QED BY <1>1, <2>1, <2>3, HereFacts DEF Last, Here
  <1> QED BY <1>2, <1>3 DEF RecoveryDecides

LEMMA InitRecoverable ==
  ASSUME Init
  PROVE  Recoverable
  <1>1. IInv /\ Unmoved
    BY InitTypes, InitShape, InitUnmoved DEF IInv
  <1>2. PICK k \in Keys :
          InitFolder(k) /\ (InitFresh(k) \/ \E next \in Keys : InitLegacy(k, next))
    BY DEF Init
  <1>3. /\ seed = k /\ k # None /\ list = <<Listed(k, 0, None)>> /\ pc \in {"idle", "down"}
        /\ made \in {{k}, {k, nextSeed}} /\ (nextSeed # None => made = {k, nextSeed})
        /\ marker # None => marker.phase = "legacy"
        /\ nextSeed # None => nextSeed # k
    <2>1. seed = k /\ list = <<Listed(k, 0, None)>>
      BY <1>2 DEF InitFolder
    <2>2. CASE InitFresh(k)
      BY <2>1, <2>2, KeysAssumption DEF InitFresh
    <2>3. ASSUME NEW next \in Keys, InitLegacy(k, next) PROVE <1>3!:
      BY <2>1, <2>3, KeysAssumption DEF InitLegacy
    <2> QED BY <1>2, <2>2, <2>3
  <1>4. /\ Len(list) = 1 /\ Final(list) = Listed(k, 0, None) /\ list[1].trail = None
        /\ KeysListed = {k} /\ Final(list).key = k /\ Final(list).trail = None
    BY <1>3 DEF Final, Listed, KeysListed
  <1>5. Journalled /\ Stepped
    BY <1>3 DEF Journalled, Stepped
  <1> DEFINE first == Signature(k, 1)
  <1>6. first.kind = "record" /\ first.by = k /\ first.next = None
    BY DEF Signature
  <1>7. ~NotPlaced
    BY <1>3, <1>4 DEF NotPlaced
  <1> HIDE DEF first
  <1>8. CASE FirstTrail(<<first>>)
    <2>1. Here = <<first>> /\ Len(Here) = 1 /\ Here[1] = first
      BY <1>8, FilesAssumption DEF FirstTrail, Here
    <2>2. RotationsOf(Here) = {}
      BY <1>6, <2>1 DEF RotationsOf, IsRotation
    <2>3. ~NotListed
      BY <2>2 DEF NotListed, HandsOverTo, IsLastRotation, RotationsOf, Here
    <2>4. NotWritten
      BY <1>1, <1>7, <2>3 DEF Unmoved
    <2>5. nextSeed # None => ~Names(Here, nextSeed) /\ nextSeed \notin KeysListed
      BY <1>3, <1>4, <1>6, <2>1 DEF Names
    <2>6. Staged
      BY <1>4, <2>4, <2>5 DEF Staged, ToWrite
    <2>7. Lined
      BY <1>3, <1>6, <2>1, <2>2 DEF Lined, Maybe
    <2> QED BY <1>5, <2>6, <2>7 DEF Recoverable
  <1>9. ASSUME NEW next \in Keys, InitLegacy(k, next), FirstTrail(<<first, Rotation(k, 1, next)>>)
        PROVE  Recoverable
    <2> DEFINE x == Rotation(k, 1, next)
    <2>1. x.kind = "rotation" /\ x.by = k /\ x.next = next /\ x.at = 1
      BY DEF Rotation
    <2>2. nextSeed = next /\ next # k
      BY <1>9 DEF InitLegacy
    <2> HIDE DEF x
    <2>3. Here = <<first, x>> /\ Len(Here) = 2 /\ Here[1] = first /\ Here[2] = x
          /\ files[1].records = 1
      BY <1>9, FilesAssumption DEF FirstTrail, Here, x
    <2>4. 2 \in 1 .. Len(Here) /\ IsLastRotation(Here, 2)
      BY <2>1, <2>3 DEF IsLastRotation, IsRotation
    <2>5. 2 \in RotationsOf(Here)
      BY <2>4 DEF RotationsOf, IsLastRotation
    <2>6. Last = x
      BY <1>1, <2>3, <2>4, HereFacts, LastIsOne DEF Last, Here
    <2>7. ~NotWritten
      <3>1. IsFiniteSet(RotationsOf(Here)) /\ Cardinality(RotationsOf(Here)) # 0
        BY <1>1, <2>5, HereFacts, NthBounds, FS_EmptySet
      <3> QED BY <1>4, <3>1 DEF NotWritten, Matches, Here
    <2>8. NotListed
      BY <1>1, <1>7, <2>7 DEF Unmoved
    <2>9. Staged
      BY <1>3, <1>4, <2>1, <2>2, <2>6, <2>8, FilesAssumption DEF Staged, ToList
    <2>10. \A i \in 1 .. 2 : i = 1 \/ i = 2
      OBVIOUS
    <2>11. \A i \in 1 .. Len(Here) : Here[i].by \in made /\ Here[i].next \in Maybe(made)
      BY <1>3, <1>6, <1>9, <2>1, <2>2, <2>3, <2>10, KeysAssumption DEF Maybe
    <2>12. Lined
      BY <2>1, <2>3, <2>4, <2>6, <2>11 DEF Lined, Final
    <2> QED BY <1>5, <2>9, <2>12 DEF Recoverable
  <1> QED BY <1>2, <1>8, <1>9 DEF InitFresh, InitLegacy, first

\* A deciding run's record, in the sidecar where the seed is in force.
LEMMA RecordAfter ==
  ASSUME IInv, Unmoved, RecordDecision
  PROVE  /\ files'[1].records = files[1].records + 1
         /\ \/ files'[1].lines = Here
            \/ /\ seed \in made /\ files'[1].lines = Append(Here, Signature(seed, files[1].records + 1))
               /\ Signature(seed, files[1].records + 1) \in Line
  <1> DEFINE n == files[path].records + 1
             signed == seed # None /\ (LinesAt(path) = <<>> \/ InForce(LinesAt(path)) = seed)
             more == IF signed THEN Append(files[path].lines, Signature(seed, n))
                     ELSE files[path].lines
             g == [files[path] EXCEPT !.records = n, !.lines = more]
  <1>1. path = 1 /\ 1 \in Files /\ files[1] \in Trail /\ Here = files[path].lines
    BY HereFacts DEF Here
  <1>2. files' = [files EXCEPT ![path] = g]
    BY DEF RecordDecision
  <1>3. g.lines = more /\ g.records = n
    <2> HIDE DEF more, n
    <2> QED BY <1>1 DEF Trail
  <1> HIDE DEF g
  <1>4. files'[1] = g
    BY <1>1, <1>2 DEF IInv, TypeOK
  <1>5. signed => seed \in made /\ Signature(seed, n) \in Line
    BY <1>1 DEF Signature, Line, IInv, TypeOK, Maybe, Trail, KeysKept
  <1> QED BY <1>1, <1>3, <1>4, <1>5

LEMMA RecordRecoverable ==
  ASSUME IInv, Unmoved, Recoverable, RecordDecision
  PROVE  Recoverable'
  <1> USE DEF IInv
  <1> DEFINE x == Signature(seed, files[1].records + 1)
  <1>1. /\ UNCHANGED <<seed, nextSeed, list, marker, made, pc, at>>
        /\ files[1].records \in Nat /\ files'[1].records = files[1].records + 1
        /\ Here \in Seq(Line) /\ Here # <<>>
    BY HereFacts, RecordAfter DEF RecordDecision, folder, process, history
  <1>2. Final(list)' = Final(list) /\ KeysListed' = KeysListed
    BY <1>1 DEF Final, KeysListed
  <1>3. (\E i \in 1 .. Len(Here) : IsLastRotation(Here, i)) => Last \in Line
    BY <1>1, LastIsOne DEF Last, Here
  <1>4. ToPlace \/ ToList => \E i \in 1 .. Len(Here) : IsLastRotation(Here, i)
    BY ListedLast, UnlistedLast DEF Recoverable
  \* What holds once the lines' facts do.
  <1>5. ASSUME Last' = Last \/ RotationsOf(Here) = {}, ToWrite => ToWrite',
               ToList => ToList' /\ Last' = Last, ToPlace => ToPlace' /\ Last' = Last,
               Lined', \A since : since \in Seen /\ Grown(since, 1) => Grown(since, 1)'
        PROVE  Recoverable'
    <2>1. Staged'
      BY <1>1, <1>5 DEF Recoverable, Staged
    <2>2. marker # None => marker.sidecar \in Maybe(Seen)
      BY DEF TypeOK, Maybe, Journal
    <2>3. Journalled'
      <3>1. marker # None /\ marker.phase = "rotate" /\ Grown(marker.sidecar, 1) => Grown(marker.sidecar, 1)'
        BY <1>1, <1>5, <2>2 DEF Grown, Maybe
      <3> QED BY <1>1, <1>2, <1>5, <3>1 DEF Recoverable, Journalled
    <2>4. Stepped'
      <3>1. Final(list).at \in Nat
        BY LastIsListed DEF ListedKey
      <3> QED BY <1>1, <1>2, <1>5, <3>1 DEF Recoverable, Stepped
    <2> QED BY <1>5, <2>1, <2>3, <2>4 DEF Recoverable
  <1>6. CASE files'[1].lines = Here
    <2>1. Here' = Here /\ Last' = Last
      BY <1>6 DEF Here, Last
    <2>2. (ToWrite => ToWrite') /\ (ToList => ToList') /\ (ToPlace => ToPlace')
      BY <1>1, <1>2, <2>1
      DEF ToWrite, ToList, ToPlace, NotWritten, NotListed, NotPlaced, TookLast, Here
    <2>3. Lined'
      BY <1>1, <1>3, <2>1 DEF Recoverable, Lined, Line
    <2>4. \A since : Grown(since, 1) => Grown(since, 1)'
      BY <2>1, FilesAssumption DEF Grown, LinesAt, Here
    <2> QED BY <1>5, <2>1, <2>2, <2>3, <2>4
  <1>7. CASE files'[1].lines = Append(Here, x) /\ seed \in made /\ x \in Line
    <2>1. x.by = seed /\ x.next = None /\ x.kind = "record" /\ ~IsRotation(x)
      BY DEF Signature, IsRotation
    <2> HIDE DEF x
    <2>2. Here' = Append(Here, x)
      BY <1>7 DEF Here
    <2>3. RotationsOf(Here') = RotationsOf(Here)
      BY <1>1, <1>7, <2>1, <2>2, RotationsAfterRecord
    <2>4. /\ Len(Here') = Len(Here) + 1 /\ Here'[Len(Here')] = x /\ Len(Here) \in Nat
          /\ \A i \in 1 .. Len(Here) : Here'[i] = Here[i]
      BY <1>1, <1>7, <2>2
    <2>5. \A i \in 1 .. Len(Here') : i \in 1 .. Len(Here) \/ i = Len(Here')
      BY <2>4
    <2>6. ASSUME NEW i \in 1 .. Len(Here), IsLastRotation(Here, i)
          PROVE  i \in 1 .. Len(Here') /\ IsLastRotation(Here', i) /\ Last' = Last
      <3>1. HandsOverTo(Here, Last.next)
        BY <2>6 DEF HandsOverTo, Last, Here
      <3>2. LastRotation(Here') = LastRotation(Here)
        BY <1>1, <1>7, <2>1, <2>2, <3>1, LastAfterRecord
      <3>3. IsLastRotation(Here', i)
        BY <2>1, <2>4, <2>5, <2>6 DEF IsLastRotation
      <3> QED BY <2>4, <3>2, <3>3 DEF Last, Here
    <2>7. ASSUME ToList PROVE ToList' /\ Last' = Last
      <3>1. Last' = Last
        BY <1>4, <2>6, <2>7
      <3>2. HandsOverTo(Here', nextSeed)
        BY <1>1, <1>7, <2>1, <2>2, <2>7, LastAfterRecord DEF ToList, NotListed, Here
      <3>3. Matches(Append(list, TookLast), Here')
        BY <1>1, <1>7, <2>1, <2>2, <2>7, MatchesAfterRecord DEF ToList, NotListed, Here
      <3>4. NotListed'
        BY <1>1, <1>2, <2>7, <3>1, <3>2, <3>3 DEF ToList, NotListed, TookLast, Here
      <3> QED BY <1>1, <1>2, <2>7, <3>1, <3>4 DEF ToList
    <2>8. ASSUME ToPlace PROVE ToPlace' /\ Last' = Last
      <3>1. Last' = Last
        BY <1>4, <2>6, <2>8
      <3>2. Matches(list, Here')
        BY <1>1, <1>7, <2>1, <2>2, <2>8, MatchesAfterRecord DEF ToPlace, NotPlaced, Here
      <3> QED BY <1>1, <1>2, <2>8, <3>1, <3>2 DEF ToPlace, NotPlaced, Here
    <2>9. ASSUME ToWrite PROVE ToWrite'
      <3>1. Matches(list, Here')
        BY <1>1, <1>7, <2>1, <2>2, <2>9, MatchesAfterRecord DEF ToWrite, NotWritten, Here
      <3>2. ASSUME nextSeed # None PROVE ~Names(Here', nextSeed)
        <4>1. seed # nextSeed
          BY <3>2 DEF KeysKept
        <4> QED BY <2>1, <2>4, <2>5, <2>9, <3>2, <4>1 DEF ToWrite, Names
      <3> QED BY <1>1, <1>2, <2>9, <3>1, <3>2 DEF ToWrite, NotWritten, Here
    <2>10. Lined'
      <3>1. \A i \in 1 .. Len(Here') : Here'[i].by \in made /\ Here'[i].next \in Maybe(made)
        BY <1>7, <2>1, <2>4, <2>5 DEF Recoverable, Lined, Maybe
      <3>2. ASSUME RotationsOf(Here') # {}
            PROVE  /\ \E i \in 1 .. Len(Here') : IsLastRotation(Here', i)
                   /\ Last'.at < files'[1].records /\ Last'.at <= files'[1].records
        <4>1. PICK i \in 1 .. Len(Here) : IsLastRotation(Here, i)
          BY <2>3, <3>2 DEF Recoverable, Lined
        <4>2. Last.at <= files[1].records /\ Last.at \in Nat
          BY <1>3, <2>3, <3>2, <4>1 DEF Recoverable, Lined, Line
        <4>3. i \in 1 .. Len(Here') /\ IsLastRotation(Here', i) /\ Last' = Last
          BY <2>6, <4>1
        <4>4. Last'.at < files'[1].records /\ Last'.at <= files'[1].records
          BY <1>1, <4>2, <4>3
        <4> QED BY <4>3, <4>4
      <3> QED BY <1>1, <3>1, <3>2 DEF Lined
    <2>11. ASSUME NEW since \in Seen, Grown(since, 1) PROVE Grown(since, 1)'
      BY <1>1, <1>7, <2>2, <2>11, GrownMore, FilesAssumption DEF Grown, LinesAt, Here
    <2> QED BY <1>5, <2>3, <2>6, <2>7, <2>8, <2>9, <2>10, <2>11, <1>4 DEF Recoverable, Lined
  <1> QED BY <1>6, <1>7, RecordAfter

\* The rotation the runtime writes is there to list, beside the journal.
LEMMA RotatesRecoverable ==
  ASSUME IInv, OnlyAsked, Unmoved, Recoverable, RuntimeAnswers \/ AnswerIsLost \/ OrphanRotates
  PROVE  Recoverable'
  <1> USE DEF IInv
  <1> DEFINE x == Rotation(request.by, files[path].records, request.next)
  <1>1. RuntimeRotates /\ request # None
    BY DEF RuntimeAnswers, AnswerIsLost, OrphanRotates, RuntimeRotates
  <1>2. /\ pc = "asked" /\ request = [by |-> seed, next |-> nextSeed]
        /\ pc' = "refused" \/ (pc' = "rotated" /\ at' = files[path].records)
    BY <1>1 DEF OnlyAsked, RuntimeAnswers, AnswerIsLost, OrphanRotates
  <1>3. UNCHANGED <<seed, nextSeed, list, marker, made>>
    BY <1>1 DEF RuntimeRotates, folder
  <1>4. path = 1 /\ files[1] \in Trail /\ Here \in Seq(Line) /\ files[1].records \in Nat
    BY HereFacts
  <1>5. NotWritten /\ ToWrite
    BY <1>2, StagesApart DEF Unmoved, BeforeWritten, Recoverable, Staged, ToList, ToPlace
  <1>6. /\ files'[1].lines = Append(Here, x) /\ x \in Line
        /\ files'[1].records = files[1].records /\ files[1].records >= 1
    <2>1. files' = [files EXCEPT ![path].lines = Append(@, x)] /\ files[path].records > 0
      BY <1>1 DEF RuntimeRotates, Writes
    <2>2. x \in Line
      BY <1>1, RotationLine DEF LineMore
    <2> HIDE DEF x
    <2>3. files'[1] = [files[1] EXCEPT !.lines = Append(files[1].lines, x)]
      BY <1>4, <2>1, HereFacts DEF TypeOK
    <2> QED BY <1>4, <2>1, <2>2, <2>3 DEF Here, Trail
  <1>7. /\ IsRotation(x) /\ x.kind = "rotation" /\ x.by = seed /\ x.next = nextSeed
        /\ x.at = files[1].records
    BY <1>2, <1>4 DEF Rotation, IsRotation
  <1> HIDE DEF x
  <1>8. Here' = Append(Here, x)
    BY <1>6 DEF Here
  <1>9. /\ IsLastRotation(Here', Len(Here) + 1) /\ Here'[Len(Here) + 1] = x
        /\ Len(Here) + 1 \in 1 .. Len(Here') /\ Here' \in Seq(Line) /\ Len(Here') = Len(Here) + 1
        /\ Cardinality(RotationsOf(Here')) = Cardinality(RotationsOf(Here)) + 1
        /\ Len(Here) \in Nat /\ \A i \in 1 .. Len(Here) : Here'[i] = Here[i]
    BY <1>4, <1>6, <1>7, <1>8, RotationsAfterRotation
  <1>10. Last' = x
    BY <1>9, LastIsOne DEF Last, Here
  <1>11. nextSeed \in Keys /\ nextSeed # None /\ seed \in Keys /\ seed # None /\ marker # None
         /\ seed \in made /\ nextSeed \in made
    BY <1>2, KeysAssumption DEF Shape, Running, Steps, TypeOK, Maybe, KeysKept
  <1>12. Final(list)' = Final(list) /\ KeysListed' = KeysListed /\ Final(list).key = seed
    BY <1>3, <1>5 DEF Final, KeysListed, NotWritten
  <1>13. NotListed'
    <2>1. Unmoved'
      BY RotatesUnmoved
    <2>2. Cardinality(RotationsOf(Here)) = Len(list) - 1 /\ Len(list) \in Nat
      BY <1>5, HereFacts DEF NotWritten, Matches, Here
    <2>3. ~NotWritten'
      BY <1>3, <1>9, <2>2 DEF NotWritten, Matches, Here
    <2>4. ~NotPlaced'
      BY <1>3, <1>11, <1>12 DEF NotPlaced, KeysKept
    <2> QED BY <2>1, <2>3, <2>4 DEF Unmoved
  <1>14. ToList'
    BY <1>2, <1>3, <1>4, <1>5, <1>6, <1>7, <1>10, <1>11, <1>12, <1>13
    DEF ToList, ToWrite, Recoverable, Stepped
  <1>15. Lined'
    <2>1. \A i \in 1 .. Len(Here') : i \in 1 .. Len(Here) \/ i = Len(Here) + 1
      BY <1>9
    <2>2. \A i \in 1 .. Len(Here') : Here'[i].by \in made /\ Here'[i].next \in Maybe(made)
      BY <1>7, <1>9, <1>11, <2>1 DEF Recoverable, Lined, Maybe
    <2>3. Final(Here') = x /\ x.kind # "record"
      BY <1>7, <1>9 DEF Final
    <2>4. Last'.at <= files'[1].records
      BY <1>4, <1>6, <1>7, <1>10
    <2> QED BY <1>3, <1>9, <2>2, <2>3, <2>4 DEF Lined
  <1>16. marker.phase = "rotate"
    BY <1>2 DEF Recoverable, Stepped
  <1>17. Grown(marker.sidecar, 1)'
    <2>1. marker.sidecar \in Maybe(Seen) /\ Grown(marker.sidecar, 1)
      BY <1>11, <1>16 DEF TypeOK, Maybe, Journal, Recoverable, Journalled
    <2> QED BY <1>3, <1>4, <1>6, <1>8, <2>1, GrownMore, FilesAssumption
        DEF Grown, LinesAt, Here, Maybe
  <1>18. Journalled'
    BY <1>3, <1>11, <1>12, <1>16, <1>17 DEF Recoverable, Journalled
  <1>19. Stepped'
    BY <1>2, <1>3, <1>4, <1>7, <1>10, <1>14, <1>16 DEF Stepped
  <1>20. Staged'
    BY <1>3, <1>14 DEF Recoverable, Staged
  <1> QED BY <1>15, <1>18, <1>19, <1>20 DEF Recoverable

\* Where nothing but the step and the marker's removal change.
LEMMA QuietRecoverable ==
  ASSUME Recoverable, UNCHANGED <<seed, nextSeed, list, files, made>>,
         marker' \in {marker, None}, Stepped'
  PROVE  Recoverable'
  BY StagedSame, JournalledSame DEF Recoverable

\* The steps that have something to show.
Showing == {"marked", "made", "journalled", "asked", "rotated", "finishing"}

LEMMA RotatingRecoverable ==
  ASSUME IInv, Unmoved, Recoverable, Rotating
  PROVE  Recoverable'
  <1> USE DEF IInv
  <1>1. CASE Confirm
    <2>1. /\ UNCHANGED <<seed, nextSeed, list, files, made>> /\ pc' = "marked"
          /\ marker = None /\ Len(list) < KeyLimit /\ SignedSince(LinesAt(path))
          /\ marker' = [phase |-> "generate", trail |-> files[path].trail,
                        next |-> None, at |-> 0, sidecar |-> None]
      BY <1>1 DEF Confirm, Journals, audit, history
    <2>2. nextSeed = None /\ NotWritten
      BY <2>1, NoNextNothingWritten DEF MarkerTellsAll
    <2>3. ASSUME Final(list).trail = 1 PROVE Final(list).at < files[1].records
      <3>1. Len(list) # 1
        BY <2>3, FilesAssumption DEF Recoverable, Staged, Final
      <3>2. Cardinality(RotationsOf(Here)) # 0 /\ Matches(list, Here)
        BY <2>2, <3>1, HereFacts DEF NotWritten, Matches, Here
      <3>3. RotationsOf(Here) # {}
        BY <3>2, FS_EmptySet
      <3>4. PICK i \in 1 .. Len(Here) : IsLastRotation(Here, i)
        BY <3>3 DEF Recoverable, Lined
      <3>5. Last.at = Final(list).at
        BY <3>2, <3>4, HereFacts, MatchesLast DEF Last, Here, Final
      <3>6. Final(Here).kind = "record"
        BY <2>1, <3>3, HereFacts DEF SignedSince
      <3> QED BY <3>3, <3>5, <3>6 DEF Recoverable, Lined
    <2>4. marker'.phase = "generate" /\ marker'.trail = 1
      BY <2>1, HereFacts
    <2>5. Staged' /\ Lined'
      BY <2>1, StagedSame DEF Recoverable
    <2>6. Journalled'
      BY <2>1, <2>2, <2>4 DEF Journalled
    <2>7. Stepped'
      BY <2>1, <2>3, <2>4 DEF Stepped, Final
    <2> QED BY <2>5, <2>6, <2>7 DEF Recoverable
  <1>2. ASSUME NEW k \in Keys, Generate(k) PROVE Recoverable'
    <2>1. /\ pc = "marked" /\ pc' \in {"made", "undoNext"} /\ nextSeed = None
          /\ k \notin made /\ nextSeed' = k /\ made' = made \cup {k}
          /\ UNCHANGED <<seed, list, marker, files>>
      BY <1>2 DEF Generate, audit
    <2>2. NotWritten /\ k # None
      BY <2>1, NoNextNothingWritten, KeysAssumption
    <2>3. Here' = Here /\ Last' = Last /\ Final(list)' = Final(list) /\ KeysListed' = KeysListed
      BY <2>1 DEF Here, Last, Final, KeysListed
    <2>4. ~Names(Here, k) /\ k \notin KeysListed
      BY <2>1, <2>2 DEF Names, Recoverable, Lined, Maybe, Shape
    <2>5. ToWrite'
      BY <2>1, <2>2, <2>3, <2>4 DEF ToWrite, NotWritten, Here
    <2>6. Staged'
      BY <2>1, <2>5 DEF Recoverable, Staged
    <2>7. Lined'
      BY <2>1, <2>3 DEF Recoverable, Lined, Maybe
    <2>8. marker.phase = "generate" /\ Len(list) < KeyLimit
      BY <2>1 DEF Recoverable, Stepped
    <2>9. Journalled'
      BY <2>1, <2>8 DEF Recoverable, Journalled
    <2>10. Stepped'
      BY <2>1, <2>3, <2>8 DEF Recoverable, Stepped
    <2> QED BY <2>6, <2>7, <2>9, <2>10 DEF Recoverable
  <1>3. CASE GenerateNothing
    <2>1. UNCHANGED <<seed, nextSeed, list, files, made>> /\ marker' = None /\ pc' = "idle"
      BY <1>3 DEF GenerateNothing, RemoveMarker, Ends, audit, history
    <2> QED BY <2>1, QuietRecoverable DEF Stepped
  <1>4. CASE JournalRotate
    <2>1. /\ UNCHANGED <<seed, nextSeed, list, files, made>> /\ pc = "made" /\ pc' = "journalled"
          /\ marker' = [marker EXCEPT !.phase = "rotate", !.next = nextSeed,
                                      !.sidecar = SeenAt(path)]
      BY <1>4 DEF JournalRotate, Journals, Goes, audit, history
    <2>2. marker \in Journal /\ marker # None /\ marker.phase = "generate"
      BY <2>1 DEF Shape, TypeOK, Maybe, Recoverable, Stepped
    <2>3. /\ marker'.phase = "rotate" /\ marker'.next = nextSeed
          /\ marker'.trail = marker.trail /\ marker'.sidecar = SeenAt(path)
      BY <2>1, <2>2 DEF Journal
    <2>4. SeenAt(path) = [file |-> 1, lines |-> Here]
      BY HereFacts DEF SeenAt
    <2>5. Grown(SeenAt(path), 1)
      <3>1. SubSeq(Here, 1, Len(Here)) = Here /\ Len(Here) \in Nat
        BY HereFacts, SubSeqFull
      <3>2. SeenAt(path) # None
        BY <2>4, HereFacts, NoneAssumption DEF Seen
      <3> QED BY <2>4, <3>1, <3>2, HereFacts DEF Grown
    <2>6. Staged' /\ Lined'
      BY <2>1, StagedSame DEF Recoverable
    <2>7. Journalled'
      <3>1. Grown(marker.sidecar, 1)'
        BY <2>1, <2>3, <2>5 DEF Grown, LinesAt
      <3>2. Final(list)' = Final(list)
        BY <2>1 DEF Final
      <3> QED BY <2>1, <2>2, <2>3, <3>1, <3>2 DEF Recoverable, Journalled
    <2>8. Stepped'
      BY <2>1, <2>3 DEF Recoverable, Stepped, Final
    <2> QED BY <2>6, <2>7, <2>8 DEF Recoverable
  <1>5. CASE GiveUp
    <2>1. UNCHANGED <<seed, nextSeed, list, files, made, marker>> /\ pc' = "undoNext"
      BY <1>5 DEF GiveUp, Goes, folder, audit, history
    <2> QED BY <2>1, QuietRecoverable DEF Stepped
  <1>6. CASE Ask
    <2>1. /\ UNCHANGED <<seed, nextSeed, list, files, made, marker>>
          /\ pc = "journalled" /\ pc' = "asked"
      BY <1>6 DEF Ask, Goes, folder, audit, history
    <2>2. Stepped'
      BY <2>1 DEF Recoverable, Stepped, Final
    <2> QED BY <2>1, <2>2, QuietRecoverable
  <1>7. CASE JournalFinish
    <2>1. /\ UNCHANGED <<seed, nextSeed, list, files, made, at>>
          /\ pc = "rotated" /\ pc' = "finishing"
          /\ marker' = [marker EXCEPT !.phase = "finish", !.at = at]
      BY <1>7 DEF JournalFinish, Journals, Goes, audit, history
    <2>2. marker \in Journal /\ marker # None /\ marker.phase = "rotate" /\ ToList /\ at = Last.at
      BY <2>1 DEF Shape, TypeOK, Maybe, Recoverable, Stepped
    <2>3. marker'.phase = "finish" /\ marker'.at = at /\ marker'.next = marker.next
          /\ marker'.trail = marker.trail
      BY <2>1, <2>2 DEF Journal
    <2>4. Staged' /\ Lined' /\ ToList' /\ Last' = Last /\ Final(list)' = Final(list)
      BY <2>1, <2>2, StagedSame DEF Recoverable, Last, Final
    <2>5. Journalled'
      BY <2>1, <2>2, <2>3, <2>4 DEF Recoverable, Journalled
    <2>6. Stepped'
      BY <2>1, <2>2, <2>3, <2>4 DEF Stepped
    <2> QED BY <2>4, <2>5, <2>6 DEF Recoverable
  <1> QED BY <1>1, <1>2, <1>3, <1>4, <1>5, <1>6, <1>7 DEF Rotating

LEMMA FinishingRecoverable ==
  ASSUME IInv, Unmoved, Recoverable, Finishing
  PROVE  Recoverable'
  <1> USE DEF IInv
  <1>1. CASE LookBeforeList \/ LookBeforeMoves \/ LookBeforePlacing \/ LookBeforeUndo
             \/ Settle \/ ArchiveMarker
    <2>1. UNCHANGED <<seed, nextSeed, list, files, made>> /\ marker' \in {marker, None}
      BY <1>1 DEF LookBeforeList, LookBeforeMoves, LookBeforePlacing, LookBeforeUndo, Look,
                  Settle, ArchiveMarker, RemoveMarker, folder, audit, history
    <2>2. pc' \notin Showing
      BY <1>1 DEF LookBeforeList, LookBeforeMoves, LookBeforePlacing, LookBeforeUndo, Look,
                  Settle, ArchiveMarker, Goes, Ends, Showing
    <2> QED BY <2>1, <2>2, QuietRecoverable DEF Stepped, Showing
  <1>2. CASE AppendKey
    <2>1. /\ pc = "appending" /\ pc' = "listed"
          /\ UNCHANGED <<seed, nextSeed, files, made, marker>>
          /\ list' = Append(list, Listed(nextSeed, at, files[bound].trail))
      BY <1>2 DEF AppendKey, Goes, audit, history
    <2>2. bound = 1 /\ at = Last.at /\ NotListed
      BY <2>1 DEF Unmoved, Deciding
    <2>3. ToList
      BY <2>2, StagesApart DEF Recoverable, Staged, ToWrite, ToPlace
    <2>4. list' = Append(list, TookLast)
      BY <2>1, <2>2, HereFacts DEF TookLast
    <2>5. /\ Len(list') = Len(list) + 1 /\ Final(list') = TookLast
          /\ \A i \in 1 .. Len(list) : list'[i] = list[i]
      BY <1>2, <2>2, AppendShape, HereFacts DEF FolderFacts, TookLast
    <2>6. Final(list)' = Final(list') /\ Here' = Here /\ Last' = Last
      BY <2>1 DEF Final, Here, Last
    <2>7. TookLast.key = nextSeed /\ TookLast.trail = 1
      BY DEF TookLast, Listed
    <2>8. Len(list') >= 2 /\ list'[Len(list') - 1] = Final(list)
      <3>1. Len(list) >= 1 /\ Len(list) \in 1 .. Len(list) /\ Len(list') - 1 = Len(list)
        BY <2>5, HereFacts
      <3> QED BY <2>5, <3>1 DEF Final
    <2>9. NotPlaced'
      BY <2>1, <2>2, <2>4, <2>5, <2>6, <2>7 DEF NotListed, NotPlaced
    <2>10. ToPlace'
      BY <2>1, <2>2, <2>5, <2>6, <2>7, <2>8, <2>9 DEF ToPlace, NotListed
    <2>11. Staged'
      BY <2>5, <2>8, <2>10, HereFacts DEF Staged
    <2>12. Lined'
      BY <2>1, <2>6 DEF Recoverable, Lined
    <2>13. ASSUME nextSeed # None PROVE nextSeed # seed
      BY <2>13 DEF KeysKept
    <2>14. Journalled'
      BY <2>1, <2>5, <2>6, <2>7, <2>10, <2>13 DEF Recoverable, Journalled, Grown, LinesAt
    <2> QED BY <2>1, <2>11, <2>12, <2>14 DEF Recoverable, Stepped
  <1>3. CASE ArchiveSeed
    <2>1. /\ pc = "archiving" /\ pc' = "placing" /\ seed' = None
          /\ UNCHANGED <<nextSeed, list, files, made, marker>>
      BY <1>3 DEF ArchiveSeed, Goes, audit, history
    <2>2. Final(list).key = nextSeed /\ seed # nextSeed
      BY <2>1 DEF Shape, KeysKept, Running, Steps
    <2>3. ToPlace
      BY <2>2 DEF Recoverable, Staged, ToWrite, ToList, NotWritten, NotListed
    <2>4. Final(list)' = Final(list) /\ Here' = Here /\ Last' = Last
      BY <2>1 DEF Final, Here, Last
    <2>5. ToPlace'
      BY <2>1, <2>3, <2>4 DEF ToPlace, NotPlaced
    <2>6. Final(list).key # None
      BY LastIsListed, KeysAssumption
    <2>7. Journalled'
      BY <2>1, <2>4, <2>5, <2>6 DEF Recoverable, Journalled, Grown, LinesAt
    <2>8. Staged' /\ Lined'
      BY <2>1, <2>4, <2>5 DEF Recoverable, Staged, Lined
    <2> QED BY <2>1, <2>7, <2>8 DEF Recoverable, Stepped
  <1>4. CASE PlaceNext
    <2>1. /\ seed = None /\ seed' = nextSeed /\ nextSeed' = None /\ pc' = "settling"
          /\ UNCHANGED <<list, files, made, marker>>
      BY <1>4 DEF PlaceNext, Goes, audit, history
    <2>2. ToPlace
      BY <2>1, LastIsListed, KeysAssumption
      DEF Recoverable, Staged, ToWrite, ToList, NotWritten, NotListed
    <2>3. Final(list)' = Final(list) /\ Here' = Here /\ Last' = Last
      BY <2>1 DEF Final, Here, Last
    <2>4. ToWrite'
      BY <2>1, <2>2, <2>3 DEF ToPlace, NotPlaced, ToWrite, NotWritten
    <2>5. Journalled'
      BY <2>1, <2>3 DEF Recoverable, Journalled, Grown, LinesAt
    <2>6. Staged' /\ Lined'
      BY <2>1, <2>3, <2>4 DEF Recoverable, Staged, Lined
    <2> QED BY <2>1, <2>5, <2>6 DEF Recoverable, Stepped
  <1>5. CASE ArchiveNext
    <2>1. /\ pc = "undoNext" /\ pc' = "undoMarker" /\ nextSeed' = None
          /\ UNCHANGED <<seed, list, files, made, marker>>
      BY <1>5 DEF ArchiveNext, Goes, audit, history
    <2>2. Final(list)' = Final(list) /\ Here' = Here /\ Last' = Last
      BY <2>1 DEF Final, Here, Last
    <2>3. ToWrite'
      BY <2>1, <2>2 DEF Unmoved, BeforeWritten, ToWrite, NotWritten
    <2>4. Journalled'
      BY <2>1, <2>2 DEF Recoverable, Journalled, Grown, LinesAt
    <2>5. Staged' /\ Lined'
      BY <2>1, <2>2, <2>3 DEF Recoverable, Staged, Lined
    <2> QED BY <2>1, <2>4, <2>5 DEF Recoverable, Stepped
  <1> QED BY <1>1, <1>2, <1>3, <1>4, <1>5 DEF Finishing

LEMMA RecoverableKept ==
  ASSUME AInv, moves = 0 => Recoverable, [Next]_vars
  PROVE  (moves = 0 => Recoverable)'
  <1> SUFFICES ASSUME moves' = 0 PROVE Recoverable'
    OBVIOUS
  <1> USE DEF AInv
  <1>1. ~Owner /\ moves = 0
    BY MovesStay
  <1>2. Unmoved /\ Recoverable
    BY <1>1
  <1>3. CASE Rotating
    BY <1>2, <1>3, RotatingRecoverable
  <1>4. CASE Inspecting \/ StepFails \/ Crash \/ Start
    <2>1. UNCHANGED <<seed, nextSeed, list, files, made>> /\ marker' \in {marker, None}
      BY <1>4 DEF Inspecting, HoldAnswer, InspectWritten, InspectUnwritten, InspectPromoting,
                  InspectSettled, InspectUnknown, RemoveMarker, StepFails, Crash, Start,
                  folder, audit, history
    <2>2. pc' \notin Showing
      BY <1>4 DEF Inspecting, HoldAnswer, InspectWritten, InspectUnwritten, InspectPromoting,
                  InspectSettled, InspectUnknown, Holds, Ends, StepFails, Crash, Start, Showing
    <2> QED BY <1>2, <2>1, <2>2, QuietRecoverable DEF Stepped, Showing
  <1>5. CASE Finishing
    BY <1>2, <1>5, FinishingRecoverable
  <1>6. CASE Runtime
    <2>1. CASE RuntimeAnswers \/ AnswerIsLost \/ OrphanRotates
      BY <1>2, <2>1, RotatesRecoverable
    <2>2. CASE RuntimeRefuses
      <3>1. /\ UNCHANGED <<seed, nextSeed, list, files, made, marker, at>>
            /\ pc' \in {pc, "refused"}
        BY <2>2 DEF RuntimeRefuses, folder, audit, history
      <3>2. ToList' = ToList /\ Last' = Last /\ Final(list)' = Final(list)
        BY <1>2, <3>1, StagedSame DEF Recoverable, Last, Final
      <3>3. Stepped'
        BY <1>2, <3>1, <3>2 DEF Recoverable, Stepped
      <3> QED BY <1>2, <3>1, <3>3, QuietRecoverable
    <2>3. CASE RecordDecision
      BY <1>2, <2>3, RecordRecoverable
    <2>4. ~\E f \in Files : BeginTrail(f)
      BY <1>2, FilesAssumption DEF BeginTrail, Unmoved
    <2> QED BY <1>6, <2>1, <2>2, <2>3, <2>4 DEF Runtime
  <1>7. CASE UNCHANGED vars
    <2>1. UNCHANGED <<seed, nextSeed, list, files, made, marker, pc, at>>
      BY <1>7 DEF vars, folder, audit, process, history
    <2>2. ToList' = ToList /\ Last' = Last /\ Final(list)' = Final(list)
      BY <1>2, <2>1, StagedSame DEF Recoverable, Last, Final
    <2>3. Stepped'
      BY <1>2, <2>1, <2>2 DEF Recoverable, Stepped
    <2> QED BY <1>2, <2>1, <2>3, QuietRecoverable
  <1> QED BY <1>1, <1>3, <1>4, <1>5, <1>6, <1>7 DEF Next

\* Where the owner moved nothing, every start decides what a rotation a stop
\* cut short leaves to do, but for the seed gap of a finish that journalled
\* nothing, a torn list and an empty marker; and no answer the runtime gave is
\* ever found in conflict with the trail (decideRotation; README.md:922-924),
\* as long as no runtime outlives the Desk that asked it.
THEOREM StartsCanDecide == ~OrphanRuntime => (Spec => []RecoveryDecides)
  <1> SUFFICES ASSUME ~OrphanRuntime PROVE Spec => []RecoveryDecides
    OBVIOUS
  <1>1. Init => DInv
    BY InitTypes, InitShape, InitUnmoved, InitRecoverable DEF DInv, AInv, IInv
  <1>2. DInv /\ [Next]_vars => DInv'
    BY Inductive, OnlyAskedKept, UnmovedKept, RecoverableKept DEF DInv, AInv
  <1>3. DInv => RecoveryDecides
    BY RecoverableDecides
  <1> QED BY <1>1, <1>2, <1>3, PTL DEF Spec
===============================================================================
