------------------------ MODULE DeskHomeMigrationProofs ------------------------
(* Theorems about the move of an installation to its Desk home, for every     *)
(* number of processes, folders, settings, stops and edits.  Until the first  *)
(* folder is renamed they rest on the lease: one process at most applies the  *)
(* journal then, and the bridge it writes is compared with no later launcher. *)
(* From there on they hold also where the lease fails to keep two apart.      *)
EXTENDS DeskHomeMigration, TLAPS

Done == {"after", "edited"}

\* What the step n of the journal leaves behind, in these files.
LastsIn(n, places, bound, settings) ==
    /\ n = Bridging => settings[Launcher] \in Done \cup {"bridge"}
    /\ n \in Renaming => places[FolderOf(n)] = "to"
    /\ n = Relocating => bound = "to"
    /\ n \in Writing => settings[SettingOf(n)] \in Done /\ places[1] = "to"

Lasts(n) == LastsIn(n, place, runner, setting)

\* A process that applies has every step before its own behind it, and one
\* that has compared a file is at a step that makes one, or replaces one.
StepsBehind ==
    \A p \in Procs : pc[p] \in Busy => \A n \in 1 .. step[p] - 1 : Lasts(n)
AtWrites ==
    \A p \in Procs :
        /\ pc[p] \in {"claiming", "filling"} => step[p] \in Writes /\ Target(step[p]) \in Made
        /\ pc[p] \in {"replacing", "verifying"} =>
             step[p] \in Writes /\ Target(step[p]) \notin Made

\* What the locator and the launcher can hold.
Written ==
    /\ setting[Locator] \in Done \cup {"absent", "torn"}
    /\ setting[Launcher] \in Done \cup {"before", "bridge"}

\* Until the configuration folder is renamed, who applies holds its lock alone.
Leased ==
    /\ \A p \in Procs : pc[p] \in Busy /\ place[1] = "from" =>
          lease[p].file = "own" /\ lease[p].mode = "exclusive"
    /\ \A p, q \in Procs : p # q /\ lease[p].file = "own" /\ lease[p].mode = "exclusive" =>
          lease[q].file # "own"

\* No folder is renamed before the launcher is bridged, and a process about to
\* put the bridge in place puts it over the old launcher, or an edit of it.
BridgeFirst ==
    /\ setting[Launcher] = "before" => \A f \in 1 .. Folders : place[f] = "from"
    /\ \A p \in Procs : pc[p] = "replacing" /\ step[p] = Bridging =>
          place[1] = "from" /\ setting[Launcher] \in {"before", "edited"}

IInv == /\ TypeOK /\ StepsBehind /\ AtWrites /\ Written /\ Leased /\ BridgeFirst
        /\ LocatorIsLast /\ LauncherStarts

\* No step undoes one that is behind.
Keeps ==
    /\ \A f \in 1 .. Folders : place[f] = "to" => place'[f] = "to"
    /\ runner = "to" => runner' = "to"
    /\ place[1] = "to" => \A w \in 1 .. Settings : setting[w] \in Done => setting'[w] \in Done
    /\ setting[Launcher] \in Done \cup {"bridge"} => setting'[Launcher] \in Done \cup {"bridge"}

-------------------------------------------------------------------------------
\* The steps of the journal are numbered one after another.
LEMMA Numbered ==
  /\ Folders \in Nat /\ Folders >= 1 /\ Settings \in Nat /\ Settings >= 2
  /\ Install \in 1 .. Folders /\ Launcher \in 1 .. Settings /\ Launcher # Locator
  /\ Locator \in 1 .. Settings
  /\ Bridging = 1 /\ Relocating = Folders + 2 /\ Completing = Folders + Settings + 3
  /\ Renaming = 2 .. Folders + 1
  /\ Writing = Folders + 3 .. Folders + Settings + 2
  /\ 1 \in 1 .. Folders /\ Launcher \notin Made
  /\ \A n \in Renaming : FolderOf(n) \in 1 .. Folders /\ FolderOf(n) = n - 1
  /\ \A n \in Writing : SettingOf(n) \in 1 .. Settings /\ SettingOf(n) = n - Folders - 2
  BY SizesAssumption
     DEF Locator, Completing, Bridging, Relocating, Renaming, Writing, FolderOf, SettingOf

\* A step that writes has a file, and is past the renames unless it is the bridge.
LEMMA Targeted ==
  ASSUME NEW n \in Writes
  PROVE  /\ Target(n) \in 1 .. Settings /\ n + 1 \in 1 .. Completing /\ n \in Nat
         /\ n = Bridging => Target(n) = Launcher /\ Bytes(n) = "bridge" /\ n \notin Writing
         /\ n # Bridging => /\ n \in Writing /\ Target(n) = SettingOf(n) /\ Bytes(n) = "after"
                            /\ \A f \in 1 .. Folders : f + 1 \in 1 .. n - 1 /\ f + 1 \in Renaming
         /\ Bytes(n) \in {"bridge", "after"} /\ Expected(n) # "edited"
         /\ Bytes(n) = "bridge" <=> n = Bridging
         /\ Target(n) \in Made => n # Bridging
  BY Numbered DEF Writes, Target, Bytes, Expected, Before

\* With every step behind, everything is at its new place.
LEMMA AllBehind ==
  ASSUME NEW places, NEW bound, NEW settings,
         \A n \in 1 .. Completing - 1 : LastsIn(n, places, bound, settings)
  PROVE  /\ \A f \in 1 .. Folders : places[f] = "to"
         /\ bound = "to"
         /\ \A w \in 1 .. Settings : settings[w] \in Done
  <1>1. ASSUME NEW f \in 1 .. Folders PROVE places[f] = "to"
    <2>1. f + 1 \in 1 .. Completing - 1 /\ f + 1 \in Renaming
      BY Numbered
    <2>2. FolderOf(f + 1) = f
      BY DEF FolderOf
    <2> QED BY <2>1, <2>2 DEF LastsIn
  <1>2. bound = "to"
    <2>1. Relocating \in 1 .. Completing - 1
      BY Numbered
    <2> QED BY <2>1 DEF LastsIn
  <1>3. ASSUME NEW w \in 1 .. Settings PROVE settings[w] \in Done
    <2>1. w + Folders + 2 \in 1 .. Completing - 1 /\ w + Folders + 2 \in Writing
      BY Numbered
    <2>2. SettingOf(w + Folders + 2) = w
      BY Numbered DEF SettingOf
    <2> QED BY <2>1, <2>2 DEF LastsIn
  <1> QED BY <1>1, <1>2, <1>3

\* What is behind stays behind.
LEMMA LastsStay ==
  ASSUME Keeps, NEW n, Lasts(n)
  PROVE  Lasts(n)'
  <1>1. n \in Renaming => place'[FolderOf(n)] = "to"
    BY Numbered DEF Keeps, Lasts, LastsIn
  <1>2. n \in Writing => setting'[SettingOf(n)] \in Done /\ place'[1] = "to"
    BY Numbered DEF Keeps, Lasts, LastsIn
  <1>3. n = Bridging => setting'[Launcher] \in Done \cup {"bridge"}
    BY Numbered DEF Keeps, Lasts, LastsIn
  <1> QED BY <1>1, <1>2, <1>3 DEF Keeps, Lasts, LastsIn

-------------------------------------------------------------------------------
\* A process that applies is where it was, at the first step, or one further
\* with the step it was at behind.
InOrder ==
    \A q \in Procs : pc'[q] \in Busy =>
        \/ pc[q] \in Busy /\ step'[q] = step[q]
        \/ step'[q] = Bridging
        \/ pc[q] \in Busy /\ step'[q] = step[q] + 1 /\ \A n \in {step[q]} : Lasts(n)'

\* Who is about to claim or replace a file has compared it, who fills one has
\* claimed it, and who verifies has replaced.
Looked ==
    \A q \in Procs :
        /\ pc'[q] \in {"claiming", "replacing"} =>
             /\ step'[q] = step[q]
             /\ \/ pc[q] = pc'[q]
                \/ /\ At(q, Writes) /\ Content(q) = Expected(step[q])
                   /\ Target(step[q]) \in Made <=> pc'[q] = "claiming"
        /\ pc'[q] = "filling" =>
             /\ step'[q] = step[q]
             /\ pc[q] = "filling" \/ (pc[q] = "claiming" /\ Content(q) = "absent")
        /\ pc'[q] = "verifying" => step'[q] = step[q] /\ pc[q] \in {"replacing", "verifying"}

\* What changes no file of the move and takes no process further.
Aside ==
    /\ UNCHANGED <<place, runner, setting>>
    /\ \A q \in Procs : pc'[q] \in Busy =>
         (pc[q] = pc'[q] /\ step'[q] = step[q]) \/ (pc'[q] = "applying" /\ step'[q] = Bridging)

LEMMA AsideKeeps == ASSUME TypeOK, Aside PROVE Keeps /\ InOrder /\ Looked
  BY DEF Aside, Keeps, InOrder, Looked, Busy

LEMMA StepsStay ==
  ASSUME TypeOK, StepsBehind, Keeps, InOrder
  PROVE  StepsBehind'
  <1> SUFFICES ASSUME NEW q \in Procs, pc'[q] \in Busy,
                      NEW n \in 1 .. step'[q] - 1
               PROVE  Lasts(n)'
    BY DEF StepsBehind
  <1>1. CASE pc[q] \in Busy /\ step'[q] = step[q]
    <2>1. Lasts(n)
      BY <1>1 DEF StepsBehind
    <2> QED BY <2>1, LastsStay
  <1>2. CASE step'[q] = Bridging
    BY <1>2 DEF Bridging
  <1>3. CASE pc[q] \in Busy /\ step'[q] = step[q] + 1 /\ \A m \in {step[q]} : Lasts(m)'
    <2>1. CASE n = step[q]
      BY <1>3, <2>1
    <2>2. CASE n # step[q]
      <3>1. step[q] \in Nat
        BY Numbered DEF TypeOK
      <3>2. n \in 1 .. step[q] - 1
        BY <1>3, <2>2, <3>1
      <3>3. Lasts(n)
        BY <1>3, <3>2 DEF StepsBehind
      <3> QED BY <3>3, LastsStay
    <2> QED BY <2>1, <2>2
  <1> QED BY <1>1, <1>2, <1>3 DEF InOrder

-------------------------------------------------------------------------------
(* One step of a process that applies, and the type it leaves.             *)

LEMMA StepInRange ==
  ASSUME TypeOK, NEW p \in Procs, step[p] \in {Relocating} \cup Renaming \cup Writes
  PROVE  step[p] + 1 \in 1 .. Completing
  BY Numbered, Targeted DEF TypeOK

\* Past the bridge, a step that writes has the configuration folder renamed.
LEMMA PastRenames ==
  ASSUME StepsBehind, NEW p \in Procs, pc[p] \in Busy, step[p] \in Writes, step[p] # Bridging
  PROVE  /\ \A f \in 1 .. Folders : place[f] = "to"
         /\ setting[Launcher] # "before"
  <1>1. ASSUME NEW f \in 1 .. Folders PROVE place[f] = "to"
    <2>1. f + 1 \in 1 .. step[p] - 1 /\ f + 1 \in Renaming
      BY Targeted
    <2>2. Lasts(f + 1)
      BY <2>1 DEF StepsBehind
    <2>3. FolderOf(f + 1) = f
      BY DEF FolderOf
    <2> QED BY <2>1, <2>2, <2>3 DEF Lasts, LastsIn
  <1>2. Bridging \in 1 .. step[p] - 1
    BY Numbered, Targeted DEF Writes
  <1>3. Lasts(Bridging)
    BY <1>2 DEF StepsBehind
  <1> QED BY <1>1, <1>3 DEF Lasts, LastsIn, Done

LEMMA CompareOnward ==
  ASSUME TypeOK, StepsBehind, NEW p \in Procs, Compare(p)
  PROVE  TypeOK' /\ Keeps /\ InOrder /\ Looked
  <1> USE DEF Compare, Goes, Busy
  <1>1. step[p] \in Writes /\ pc[p] = "applying" /\ UNCHANGED <<journal, place, runner, setting>>
    BY DEF At
  <1>2. left' \in {"nothing", "folder", "lock"}
    BY DEF MakesParent, TypeOK
  <1>3. Keeps
    BY <1>1 DEF Keeps
  <1>4. CASE Content(p) \in Settled(step[p]) /\ Applies(p)
    <2> USE DEF Applies, Onward
    <2>1. TypeOK'
      BY <1>1, <1>2, <1>4, StepInRange DEF TypeOK, bounds
    <2>2. setting[Target(step[p])] \in {Bytes(step[p]), "after"}
      BY <1>4 DEF Content, Settled
    <2>3. \A n \in {step[p]} : Lasts(n)'
      <3>1. CASE step[p] = Bridging
        BY <1>1, <2>2, <3>1, Targeted, Numbered DEF Lasts, LastsIn, Done
      <3>2. CASE step[p] # Bridging
        <4>1. place[1] = "to" /\ setting[SettingOf(step[p])] = "after"
          BY <1>1, <2>2, <3>2, PastRenames, Targeted, Numbered
        <4>2. step[p] \in Writing
          BY <1>1, <3>2 DEF Writes
        <4> QED BY <1>1, <4>1, <4>2, Numbered DEF Lasts, LastsIn, Done
      <3> QED BY <3>1, <3>2
    <2>4. InOrder
      BY <1>1, <1>4, <2>3 DEF TypeOK, InOrder
    <2>5. Looked
      BY <1>4 DEF TypeOK, Looked
    <2> QED BY <1>3, <2>1, <2>4, <2>5
  <1>5. CASE Content(p) = Expected(step[p]) /\ GoesToWrite(p)
    <2>1. PICK to \in {"claiming", "replacing"} :
            pc' = [pc EXCEPT ![p] = to] /\ (Target(step[p]) \in Made <=> to = "claiming")
      BY <1>5 DEF GoesToWrite
    <2>2. UNCHANGED <<leaving, step, conf, lease, stops, edits>>
      BY <1>5 DEF GoesToWrite, bounds
    <2>3. TypeOK'
      BY <1>1, <1>2, <2>1, <2>2 DEF TypeOK
    <2>4. InOrder
      BY <1>1, <2>1, <2>2 DEF TypeOK, InOrder
    <2>5. Looked
      BY <1>1, <1>5, <2>1, <2>2 DEF TypeOK, Looked, At
    <2> QED BY <1>3, <2>3, <2>4, <2>5
  <1> QED BY <1>4, <1>5

LEMMA RenameOnward ==
  ASSUME TypeOK, NEW p \in Procs, Rename(p)
  PROVE  TypeOK' /\ Keeps /\ InOrder /\ Looked
  <1> USE DEF Rename, Applies, Onward, Goes, At, Busy
  <1>1. step[p] + 1 \in 1 .. Completing
    BY StepInRange
  <1>2. FolderOf(step[p]) \in 1 .. Folders
    BY Numbered
  <1>3. TypeOK'
    BY <1>1, <1>2 DEF TypeOK, bounds
  <1>4. Keeps
    BY <1>2 DEF TypeOK, Keeps
  <1>5. \A n \in {step[p]} : Lasts(n)'
    BY <1>2, Numbered DEF TypeOK, Lasts, LastsIn
  <1>6. InOrder /\ Looked
    BY <1>5 DEF TypeOK, InOrder, Looked
  <1> QED BY <1>3, <1>4, <1>6

LEMMA RelocateOnward ==
  ASSUME TypeOK, NEW p \in Procs, Relocate(p)
  PROVE  TypeOK' /\ Keeps /\ InOrder /\ Looked
  <1> USE DEF Relocate, Applies, Onward, Goes, At, Busy
  <1>1. step[p] + 1 \in 1 .. Completing
    BY StepInRange
  <1>2. TypeOK'
    BY <1>1 DEF TypeOK, bounds
  <1>3. Keeps
    BY DEF TypeOK, Keeps
  <1>4. \A n \in {step[p]} : Lasts(n)'
    BY Numbered DEF Lasts, LastsIn
  <1>5. InOrder /\ Looked
    BY <1>4 DEF TypeOK, InOrder, Looked
  <1> QED BY <1>2, <1>3, <1>5

\* A process exits, and the files hold what they held.
LEMMA ExitAside ==
  ASSUME TypeOK, NEW p \in Procs, Exits(p), left' \in {left, "folder"},
         UNCHANGED <<journal, place, runner, setting, step, conf, bounds>>
  PROVE  TypeOK' /\ Aside
  BY DEF Exits, Goes, Drops, NoLease, TypeOK, Aside, Busy, bounds

LEMMA ClaimOnward ==
  ASSUME TypeOK, AtWrites, NEW p \in Procs, Claim(p)
  PROVE  TypeOK' /\ Keeps /\ InOrder /\ Looked
  <1> DEFINE w == Target(step[p])
  <1>1. /\ pc[p] = "claiming" /\ w \in Made /\ w \in 1 .. Settings
        /\ UNCHANGED <<journal, place, runner, left>>
    BY Targeted DEF Claim, AtWrites
  <1>2. CASE /\ Content(p) = "absent" /\ setting' = [setting EXCEPT ![w] = "torn"]
             /\ Goes(p, "filling") /\ UNCHANGED <<leaving, step, conf, lease, bounds>>
    <2>1. /\ setting[w] = "absent" /\ setting' = [setting EXCEPT ![w] = "torn"]
          /\ pc' = [pc EXCEPT ![p] = "filling"]
          /\ UNCHANGED <<leaving, step, conf, lease, stops, edits>>
      BY <1>2 DEF Content, Goes, bounds
    <2>2. InOrder /\ Looked
      BY <1>1, <1>2, <2>1 DEF TypeOK, InOrder, Looked, Busy
    <2> HIDE DEF w
    <2>3. TypeOK'
      BY <1>1, <2>1 DEF TypeOK, Busy
    <2>4. Keeps
      BY <1>1, <2>1, Numbered DEF TypeOK, Keeps, Done
    <2> QED BY <2>2, <2>3, <2>4
  <1>3. CASE Exits(p) /\ UNCHANGED <<setting, step, conf, bounds>>
    BY <1>1, <1>3, ExitAside, AsideKeeps
  <1> QED BY <1>2, <1>3 DEF Claim

LEMMA FillOnward ==
  ASSUME TypeOK, StepsBehind, AtWrites, NEW p \in Procs, Fill(p)
  PROVE  TypeOK' /\ Keeps /\ InOrder /\ Looked
  <1> DEFINE n == step[p]  w == Target(step[p])
  <1>1. /\ pc[p] = "filling" /\ n \in Writes /\ w \in Made
        /\ UNCHANGED <<journal, place, runner, left>>
    BY DEF Fill, AtWrites
  <1>2. w \in 1 .. Settings /\ n # Bridging /\ n \in Writing /\ w = SettingOf(n) /\ Bytes(n) = "after"
    BY <1>1, Targeted
  <1>3. \/ setting' = [setting EXCEPT ![w] = "after"]
        \/ setting[w] = "edited" /\ setting' = setting
    BY <1>2 DEF Fill, Puts, Content
  <1>4. n + 1 \in 1 .. Completing
    BY <1>1, StepInRange
  <1>5. /\ pc' = [pc EXCEPT ![p] = "applying"] /\ step' = [step EXCEPT ![p] = n + 1]
        /\ UNCHANGED <<leaving, conf, lease, stops, edits>>
    BY DEF Fill, Applies, Onward, Goes, bounds
  <1>6. place[1] = "to"
    BY <1>1, <1>2, PastRenames, Numbered DEF Busy
  <1> HIDE DEF n, w
  <1>7. TypeOK'
    BY <1>1, <1>2, <1>3, <1>4, <1>5 DEF TypeOK, Busy
  <1>8. Keeps
    BY <1>1, <1>2, <1>3, Numbered DEF TypeOK, Keeps, Done
  <1>9. setting'[SettingOf(n)] \in Done /\ place'[1] = "to"
    BY <1>1, <1>2, <1>3, <1>6 DEF TypeOK, Done
  <1>10. n # Bridging /\ n \notin Renaming /\ n # Relocating
    BY ONLY <1>2, Numbered
  <1>11. \A m \in {n} : Lasts(m)'
    BY <1>9, <1>10 DEF Lasts, LastsIn
  <1>12. InOrder /\ Looked
    BY <1>1, <1>5, <1>11 DEF TypeOK, InOrder, Looked, Busy, n
  <1> QED BY <1>7, <1>8, <1>12

LEMMA ReplaceOnward ==
  ASSUME TypeOK, StepsBehind, AtWrites, BridgeFirst, NEW p \in Procs, Replace(p)
  PROVE  TypeOK' /\ Keeps /\ InOrder /\ Looked
  <1> DEFINE n == step[p]  w == Target(step[p])
  <1>1. /\ pc[p] = "replacing" /\ n \in Writes
        /\ setting' = [setting EXCEPT ![w] = Bytes(n)]
        /\ pc' = [pc EXCEPT ![p] = "verifying"]
        /\ UNCHANGED <<journal, place, runner, left, leaving, step, conf, lease, stops, edits>>
    BY DEF Replace, AtWrites, Puts, Goes, bounds
  <1>2. /\ w \in 1 .. Settings /\ Bytes(n) \in {"bridge", "after"}
        /\ Bytes(n) = "bridge" => n = Bridging /\ w = Launcher
    BY <1>1, Targeted
  <1>3. Bytes(n) = "bridge" => place[1] = "from"
    BY <1>1, <1>2 DEF BridgeFirst
  <1> HIDE DEF n, w
  <1>4. TypeOK'
    BY <1>1, <1>2 DEF TypeOK, Busy
  <1>5. Keeps
    BY <1>1, <1>2, <1>3, Numbered DEF TypeOK, Keeps, Done
  <1>6. InOrder /\ Looked
    BY <1>1 DEF TypeOK, InOrder, Looked, Busy
  <1> QED BY <1>4, <1>5, <1>6

LEMMA VerifyOnward ==
  ASSUME TypeOK, StepsBehind, AtWrites, NEW p \in Procs, Verify(p)
  PROVE  TypeOK' /\ Keeps /\ InOrder /\ Looked
  <1>1. pc[p] = "verifying" /\ step[p] \in Writes /\ UNCHANGED <<journal, place, runner, setting, left>>
    BY DEF Verify, AtWrites, files
  <1>2. CASE Content(p) = Bytes(step[p]) /\ Applies(p)
    <2>1. /\ pc' = [pc EXCEPT ![p] = "applying"] /\ step' = [step EXCEPT ![p] = step[p] + 1]
          /\ UNCHANGED <<leaving, conf, lease, stops, edits>>
      BY <1>2 DEF Applies, Onward, Goes, bounds
    <2>2. TypeOK'
      BY <1>1, <2>1, StepInRange DEF TypeOK, Busy
    <2>3. Keeps
      BY <1>1 DEF Keeps
    <2>4. \A n \in {step[p]} : Lasts(n)'
      <3>1. CASE step[p] = Bridging
        BY <1>1, <1>2, <3>1, Targeted, Numbered DEF Lasts, LastsIn, Done, Content
      <3>2. CASE step[p] # Bridging
        <4>1. place[1] = "to" /\ setting[SettingOf(step[p])] = "after"
          BY <1>1, <1>2, <3>2, PastRenames, Targeted, Numbered DEF Content, Busy
        <4>2. step[p] \in Writing
          BY <1>1, <3>2 DEF Writes
        <4>3. step[p] \notin Renaming /\ step[p] # Relocating
          BY ONLY <4>2, Numbered
        <4>4. setting' = setting /\ place' = place
          BY <1>1
        <4> QED BY ONLY <3>2, <4>1, <4>2, <4>3, <4>4 DEF Lasts, LastsIn, Done
      <3> QED BY <3>1, <3>2
    <2>5. InOrder /\ Looked
      BY <1>1, <2>1, <2>4 DEF TypeOK, InOrder, Looked, Busy
    <2> QED BY <2>2, <2>3, <2>5
  <1>3. CASE Exits(p) /\ UNCHANGED <<step, conf, bounds>>
    BY <1>1, <1>3, ExitAside, AsideKeeps
  <1> QED BY <1>2, <1>3 DEF Verify

LEMMA StopOnward ==
  ASSUME TypeOK, NEW p \in Procs, Stop(p)
  PROVE  TypeOK' /\ Keeps /\ InOrder /\ Looked
  <1>1. /\ pc' = [pc EXCEPT ![p] = "down"] /\ leaving' = [leaving EXCEPT ![p] = FALSE]
        /\ lease' = [lease EXCEPT ![p] = [file |-> "none", mode |-> "none"]]
        /\ UNCHANGED <<place, runner, setting, left, step, conf, edits>> /\ stops' = stops + 1
    BY DEF Stop, Exits, Goes, Drops, NoLease
  <1>2. journal' \in {journal, "torn"}
    BY DEF Stop
  <1>3. TypeOK'
    BY <1>1, <1>2 DEF TypeOK
  <1>4. Keeps /\ InOrder /\ Looked
    BY <1>1 DEF TypeOK, Keeps, InOrder, Looked, Busy
  <1> QED BY <1>3, <1>4

LEMMA EditOnward ==
  ASSUME TypeOK, NEW w \in 1 .. Settings, Edit(w)
  PROVE  TypeOK' /\ Keeps /\ InOrder /\ Looked
  <1> USE DEF Edit
  <1>1. TypeOK'
    BY DEF TypeOK
  <1>2. Keeps
    BY Numbered DEF TypeOK, Keeps, Done
  <1>3. InOrder /\ Looked
    BY DEF InOrder, Looked
  <1> QED BY <1>1, <1>2, <1>3

\* The lock file under either name is one there can be, or none.
LEMMA LockFileTyped ==
  \A name \in {"from", "to"} : LockFile(name) \in {"none", "own", "fresh"}
  BY DEF LockFile

Leases == [Procs -> [file : {"none", "own", "fresh"}, mode : {"none", "shared", "exclusive"}]]

LEMMA LeaseTyped ==
  ASSUME TypeOK, NEW p \in Procs
  PROVE  /\ Drops(p) => lease' \in Leases
         /\ \A file \in {"none", "own", "fresh"}, mode \in {"shared", "exclusive"} :
              Takes(p, file, mode) => lease' \in Leases
         /\ UNCHANGED lease => lease' \in Leases
  <1>1. lease \in Leases
    BY DEF TypeOK, Leases
  <1>2. ASSUME NEW l \in [file : {"none", "own", "fresh"}, mode : {"none", "shared", "exclusive"}]
        PROVE  [lease EXCEPT ![p] = l] \in Leases
    BY <1>1 DEF Leases
  <1>3. Drops(p) => lease' \in Leases
    BY <1>2 DEF Drops, NoLease
  <1>4. ASSUME NEW file \in {"none", "own", "fresh"}, NEW mode \in {"shared", "exclusive"}
        PROVE  Takes(p, file, mode) => lease' \in Leases
    BY <1>2 DEF Takes, Held
  <1> QED BY <1>1, <1>3, <1>4

\* A process goes to a step that applies nothing, and the files move not.
LEMMA TurnAside ==
  ASSUME TypeOK, NEW p \in Procs,
         NEW to \in {"down", "reading", "locking", "resolving", "opening", "leasing",
                     "serving", "queueing", "reverting", "draining"},
         Goes(p, to), lease' \in Leases,
         leaving' \in {leaving, [leaving EXCEPT ![p] = FALSE], [leaving EXCEPT ![p] = TRUE]},
         conf' \in {conf, [conf EXCEPT ![p] = "from"], [conf EXCEPT ![p] = "to"]},
         journal' \in {journal, "pending", "complete"}, left' \in {left, "folder", "lock"},
         UNCHANGED <<place, runner, setting, step, bounds>>
  PROVE  TypeOK' /\ Aside
  <1> USE DEF Goes, bounds
  <1>1. Aside
    BY DEF TypeOK, Aside, Busy
  <1>2. /\ pc' \in [Procs -> Busy \cup {"down", "reading", "locking", "resolving", "opening",
                              "leasing", "serving", "queueing", "reverting", "draining"}]
        /\ leaving' \in [Procs -> BOOLEAN] /\ conf' \in [Procs -> {"from", "to"}]
    BY DEF TypeOK
  <1>3. TypeOK'
    BY <1>2 DEF TypeOK, Leases
  <1> QED BY <1>1, <1>3

LEMMA RecoveringAside ==
  ASSUME TypeOK, NEW p \in Procs, Recovering(p)
  PROVE  TypeOK' /\ Aside
  <1> USE TurnAside, LeaseTyped DEF Exits, files
  <1>1. CASE Start(p)
    BY <1>1 DEF Start
  <1>2. CASE ReadJournal(p)
    <2>1. UNCHANGED <<files, step, conf, bounds>>
      BY <1>2 DEF ReadJournal
    <2>2. Exits(p) \/ \E to \in {"locking", "resolving"} : Goes(p, to) /\ UNCHANGED <<leaving, lease>>
      BY <1>2 DEF ReadJournal
    <2> QED BY <2>1, <2>2
  <1>3. CASE LockToApply(p)
    <2>1. CASE pc' = [pc EXCEPT ![p] = "applying"]
      <3>1. PICK file \in {"none", "own", "fresh"} :
                lease' = [lease EXCEPT ![p] = [file |-> file, mode |-> "exclusive"]]
        BY <1>3, <2>1, LockFileTyped DEF LockToApply, TypeOK, Goes, Takes, Held
      <3>2. step' = [step EXCEPT ![p] = Bridging] /\ UNCHANGED leaving
        BY <1>3, <2>1 DEF LockToApply, TypeOK, Goes
      <3>3. UNCHANGED <<files, conf, bounds>>
        BY <1>3 DEF LockToApply
      <3> QED BY <2>1, <3>1, <3>2, <3>3, Numbered DEF TypeOK, Aside, Busy, bounds
    <2>2. CASE Exits(p) /\ UNCHANGED step
      BY <1>3, <2>2 DEF LockToApply
    <2> QED BY <1>3, <2>1, <2>2 DEF LockToApply, Goes
  <1>4. CASE Resolve(p)
    <2>1. UNCHANGED <<files, step, bounds>>
      BY <1>4 DEF Resolve
    <2>2. CASE Goes(p, "opening") /\ UNCHANGED <<leaving, lease>>
               /\ conf' \in {[conf EXCEPT ![p] = "from"], [conf EXCEPT ![p] = "to"]}
      BY <2>1, <2>2
    <2>3. CASE Exits(p) /\ UNCHANGED conf
      BY <2>1, <2>3
    <2> QED BY <1>4, <2>2, <2>3 DEF Resolve
  <1>5. CASE Open(p)
    <2>1. UNCHANGED <<journal, place, runner, setting, step, conf, bounds>>
      BY <1>5 DEF Open
    <2>2. left' \in {left, "folder"}
      BY <1>5 DEF Open
    <2>3. CASE Exits(p)
      BY <2>1, <2>2, <2>3
    <2>4. CASE Goes(p, "leasing") /\ UNCHANGED <<leaving, lease>>
      BY <2>1, <2>2, <2>4
    <2> QED BY <1>5, <2>3, <2>4 DEF Open
  <1>6. CASE Lease(p)
    <2>1. UNCHANGED <<journal, place, runner, setting, step, conf, bounds>>
      BY <1>6 DEF Lease
    <2>2. LockFile(conf[p]) \in {"none", "own", "fresh"}
      BY LockFileTyped DEF TypeOK
    <2>3. left' \in {left, "lock"}
      BY <1>6 DEF Lease
    <2>4. \/ Exits(p)
          \/ Takes(p, LockFile(conf[p]), "shared") /\ Goes(p, "serving") /\ UNCHANGED leaving
      BY <1>6 DEF Lease
    <2> QED BY <2>1, <2>2, <2>3, <2>4
  <1> QED BY <1>1, <1>2, <1>3, <1>4, <1>5, <1>6 DEF Recovering

LEMMA ConfirmingAside ==
  ASSUME TypeOK, NEW p \in Procs, Confirming(p)
  PROVE  TypeOK' /\ Aside
  <1> USE TurnAside, LeaseTyped DEF Exits, files
  <1>1. CASE Convert(p)
    <2>1. UNCHANGED <<files, leaving, step, conf, bounds>>
      BY <1>1 DEF Convert
    <2>2. \/ Takes(p, "own", "exclusive") /\ Goes(p, "queueing")
          \/ Drops(p) /\ Goes(p, "reverting")
      BY <1>1 DEF Convert
    <2> QED BY <2>1, <2>2
  <1>2. CASE Revert(p)
    <2>1. UNCHANGED <<files, leaving, step, conf, bounds>> /\ Goes(p, "serving")
      BY <1>2 DEF Revert
    <2>2. Takes(p, "own", "shared") \/ UNCHANGED lease
      BY <1>2 DEF Revert
    <2> QED BY <2>1, <2>2
  <1>3. CASE Queue(p)
    <2>1. UNCHANGED <<place, runner, setting, left, step, conf, bounds>>
      BY <1>3 DEF Queue
    <2>2. CASE /\ journal' = "pending" /\ leaving' = [leaving EXCEPT ![p] = TRUE]
               /\ Goes(p, "draining") /\ UNCHANGED lease
      BY <2>1, <2>2
    <2>3. lease[p].file \in {"none", "own", "fresh"}
      BY DEF TypeOK
    <2>4. CASE /\ UNCHANGED <<journal, leaving>>
               /\ \/ Drops(p) /\ Goes(p, "reverting")
                  \/ Takes(p, lease[p].file, "shared") /\ Goes(p, "serving")
      BY <2>1, <2>3, <2>4
    <2> QED BY <1>3, <2>2, <2>4 DEF Queue
  <1>4. CASE Close(p)
    BY <1>4 DEF Close
  <1>5. CASE Quit(p)
    BY <1>5 DEF Quit
  <1> QED BY <1>1, <1>2, <1>3, <1>4, <1>5 DEF Confirming

LEMMA EndingAside ==
  ASSUME TypeOK, NEW p \in Procs, Refuses(p) \/ Complete(p)
  PROVE  TypeOK' /\ Aside
  <1>1. CASE Refuses(p)
    <2>1. Exits(p) /\ UNCHANGED <<journal, place, runner, setting, step, conf, bounds>>
      BY <1>1 DEF Refuses
    <2>2. left' \in {left, "folder"}
      BY <1>1 DEF Refuses, MakesParent
    <2> QED BY <2>1, <2>2, ExitAside
  <1>2. CASE Complete(p)
    BY <1>2 DEF Complete, TypeOK, Aside, Busy, Goes, Drops, NoLease, bounds
  <1> QED BY <1>1, <1>2

LEMMA NextOnward ==
  ASSUME TypeOK, StepsBehind, AtWrites, BridgeFirst, [Next]_vars
  PROVE  TypeOK' /\ Keeps /\ InOrder /\ Looked
  <1>1. ASSUME NEW p \in Procs, Recovering(p) \/ Confirming(p) \/ Refuses(p) \/ Complete(p)
        PROVE  TypeOK' /\ Keeps /\ InOrder /\ Looked
    BY <1>1, RecoveringAside, ConfirmingAside, EndingAside, AsideKeeps
  <1>2. ASSUME NEW p \in Procs, Compare(p) \/ Claim(p) \/ Fill(p) \/ Replace(p) \/ Verify(p)
        PROVE  TypeOK' /\ Keeps /\ InOrder /\ Looked
    BY <1>2, CompareOnward, ClaimOnward, FillOnward, ReplaceOnward, VerifyOnward
  <1>3. ASSUME NEW p \in Procs, Rename(p) \/ Relocate(p) \/ Stop(p)
        PROVE  TypeOK' /\ Keeps /\ InOrder /\ Looked
    BY <1>3, RenameOnward, RelocateOnward, StopOnward
  <1>4. ASSUME NEW w \in 1 .. Settings, Edit(w)
        PROVE  TypeOK' /\ Keeps /\ InOrder /\ Looked
    BY <1>4, EditOnward
  <1>5. CASE UNCHANGED vars
    BY <1>5 DEF vars, files, bounds, TypeOK, Keeps, InOrder, Looked
  <1> QED BY <1>1, <1>2, <1>3, <1>4, <1>5 DEF Next, Applying, SettingSteps

LEMMA AtWritesStays ==
  ASSUME AtWrites, Looked
  PROVE  AtWrites'
  BY DEF AtWrites, Looked, At

-------------------------------------------------------------------------------
(* The lease, until the configuration folder is renamed.                   *)

\* A step of p's moves no other process and no other's lock; a lock it takes of
\* the installation's own file is one it can hold, and one it converts back is
\* held no stronger; and it begins to apply with that lock alone.
LeaseStep(p) ==
    /\ \A q \in Procs \ {p} : pc'[q] = pc[q] /\ lease'[q] = lease[q]
    /\ \/ lease'[p] = lease[p]
       \/ lease'[p].file # "own"
       \/ CanHold(p, "own", lease'[p].mode)
       \/ lease[p].file = "own" /\ lease'[p].mode # "exclusive"
    /\ pc'[p] \in Busy =>
         \/ pc[p] \in Busy /\ lease'[p] = lease[p]
         \/ place[1] = "from" => lease'[p].file = "own" /\ lease'[p].mode = "exclusive"

LEMMA LeaseStepKeeps ==
  ASSUME Leased, NEW p \in Procs, LeaseStep(p), place'[1] = "from" => place[1] = "from"
  PROVE  Leased'
  <1>1. ASSUME NEW q \in Procs, pc'[q] \in Busy, place'[1] = "from"
        PROVE  lease'[q].file = "own" /\ lease'[q].mode = "exclusive"
    BY <1>1 DEF Leased, LeaseStep
  <1>2. ASSUME NEW q \in Procs, NEW r \in Procs, q # r,
               lease'[q].file = "own", lease'[q].mode = "exclusive"
        PROVE  lease'[r].file # "own"
    <2>1. CASE q = p
      BY <1>2, <2>1 DEF Leased, LeaseStep, CanHold
    <2>2. CASE r = p
      BY <1>2, <2>2 DEF Leased, LeaseStep, CanHold
    <2>3. CASE q # p /\ r # p
      BY <1>2, <2>3 DEF Leased, LeaseStep
    <2> QED BY <2>1, <2>2, <2>3
  <1> QED BY <1>1, <1>2 DEF Leased

\* A process that goes elsewhere, and what it may do with its lease on the way.
LEMMA GoesWithLease ==
  ASSUME TypeOK, NEW p \in Procs, NEW to, Goes(p, to), to \notin Busy,
         \/ UNCHANGED lease
         \/ Drops(p)
         \/ \E file, mode : Takes(p, file, mode) /\ CanHold(p, file, mode)
         \/ Takes(p, lease[p].file, "shared")
  PROVE  LeaseStep(p)
  <1>1. pc'[p] = to /\ \A q \in Procs \ {p} : pc'[q] = pc[q]
    BY DEF Goes, TypeOK
  <1>2. CASE UNCHANGED lease
    BY <1>1, <1>2 DEF LeaseStep
  <1>3. CASE Drops(p)
    BY <1>1, <1>3 DEF LeaseStep, Drops, NoLease, TypeOK
  <1>4. ASSUME NEW file, NEW mode, Takes(p, file, mode), CanHold(p, file, mode)
        PROVE  LeaseStep(p)
    <2>1. lease'[p] = [file |-> file, mode |-> mode] /\ \A q \in Procs \ {p} : lease'[q] = lease[q]
      BY <1>4 DEF Takes, Held, TypeOK
    <2> QED BY <1>1, <1>4, <2>1 DEF LeaseStep
  <1>5. CASE Takes(p, lease[p].file, "shared")
    <2>1. /\ lease'[p] = [file |-> lease[p].file, mode |-> "shared"]
          /\ \A q \in Procs \ {p} : lease'[q] = lease[q]
      BY <1>5 DEF Takes, Held, TypeOK
    <2> QED BY <1>1, <2>1 DEF LeaseStep
  <1> QED BY <1>2, <1>3, <1>4, <1>5

LEMMA RecoveringLeases ==
  ASSUME TypeOK, NEW p \in Procs, Recovering(p)
  PROVE  LeaseStep(p)
  <1> USE GoesWithLease DEF Exits
  <1> DEFINE elsewhere == {"down", "reading", "locking", "resolving", "opening", "leasing", "serving"}
  <1>0. \A to \in elsewhere : to \notin Busy
    BY DEF Busy
  <1>1. CASE Start(p) \/ ReadJournal(p) \/ Resolve(p) \/ Open(p)
    BY <1>0, <1>1 DEF Start, ReadJournal, Resolve, Open
  <1>2. CASE Lease(p)
    BY <1>0, <1>2 DEF Lease
  <1>3. CASE LockToApply(p)
    <2>1. CASE Exits(p)
      BY <1>0, <2>1
    <2>2. CASE ~Exits(p)
      <3>1. PICK file : /\ CanHold(p, file, "exclusive") /\ Takes(p, file, "exclusive")
                        /\ Goes(p, "applying") /\ (place[1] = "from" => file = "own")
        BY <1>3, <2>2 DEF LockToApply, LockFile
      <3>2. /\ lease'[p] = [file |-> file, mode |-> "exclusive"]
            /\ \A q \in Procs \ {p} : pc'[q] = pc[q] /\ lease'[q] = lease[q]
        BY <3>1 DEF Takes, Held, Goes, TypeOK
      <3> QED BY <3>1, <3>2 DEF LeaseStep
    <2> QED BY <2>1, <2>2
  <1> QED BY <1>1, <1>2, <1>3 DEF Recovering

LEMMA ConfirmingLeases ==
  ASSUME TypeOK, NEW p \in Procs, Confirming(p)
  PROVE  LeaseStep(p)
  <1> USE GoesWithLease DEF Exits
  <1> DEFINE elsewhere == {"down", "reading", "queueing", "reverting", "serving", "draining"}
  <1>0. \A to \in elsewhere : to \notin Busy
    BY DEF Busy
  <1>1. CASE Convert(p)
    BY <1>0, <1>1 DEF Convert
  <1>2. CASE Revert(p)
    BY <1>0, <1>2 DEF Revert
  <1>3. CASE Queue(p)
    BY <1>0, <1>3 DEF Queue
  <1>4. CASE Close(p) \/ Quit(p)
    BY <1>0, <1>4 DEF Close, Quit
  <1> QED BY <1>1, <1>2, <1>3, <1>4 DEF Confirming

LEMMA ApplyingLeases ==
  ASSUME TypeOK, NEW p \in Procs, Applying(p) \/ Stop(p)
  PROVE  LeaseStep(p)
  <1>0. \A to \in {"down", "resolving"} : to \notin Busy
    BY DEF Busy
  <1>1. CASE Stop(p) \/ Exits(p)
    BY <1>0, <1>1, GoesWithLease DEF Stop, Exits
  <1>2. CASE Complete(p)
    BY <1>0, <1>2, GoesWithLease DEF Complete
  <1>3. ASSUME NEW to \in Busy, pc[p] \in Busy, Goes(p, to), UNCHANGED lease
        PROVE  LeaseStep(p)
    BY <1>3 DEF LeaseStep, Goes, TypeOK
  <1>4. CASE (Applying(p) /\ ~Exits(p)) /\ ~Complete(p)
    <2>1. pc[p] \in Busy
      BY <1>4 DEF Applying, SettingSteps, Compare, Refuses, Claim, Fill, Replace, Verify,
                  Rename, Relocate, At, Busy
    <2>2. UNCHANGED lease /\ \E to \in Busy : Goes(p, to)
      BY <1>4 DEF Applying, SettingSteps, Compare, Refuses, Claim, Fill, Replace, Verify,
                  Rename, Relocate, GoesToWrite, Applies, Onward, Busy
    <2> QED BY <1>3, <2>1, <2>2
  <1> QED BY <1>1, <1>2, <1>4

LEMMA LeasedStays ==
  ASSUME TypeOK, Leased, Keeps, TypeOK', [Next]_vars
  PROVE  Leased'
  <1>0. place'[1] = "from" => place[1] = "from"
    BY Numbered DEF TypeOK, Keeps
  <1>1. ASSUME NEW p \in Procs, Recovering(p) \/ Confirming(p) \/ Applying(p) \/ Stop(p)
        PROVE  Leased'
    BY <1>0, <1>1, RecoveringLeases, ConfirmingLeases, ApplyingLeases, LeaseStepKeeps
  <1>2. ASSUME NEW w \in 1 .. Settings, Edit(w) PROVE Leased'
    BY <1>2 DEF Edit, Leased
  <1>3. CASE UNCHANGED vars
    BY <1>3 DEF vars, files, Leased
  <1> QED BY <1>1, <1>2, <1>3 DEF Next

\* While the configuration folder is where it was, one process applies.
LEMMA OneApplies ==
  ASSUME Leased, NEW p \in Procs, NEW q \in Procs, pc[p] \in Busy, pc[q] \in Busy,
         place[1] = "from"
  PROVE  p = q
  BY DEF Leased

-------------------------------------------------------------------------------
(* What only the actions that write a setting, or end the move, can break. *)

\* Only these change a setting, a folder's place or the journal's completion.
LEMMA OnlyThese ==
  ASSUME [Next]_vars
  PROVE  \/ UNCHANGED <<place, setting>> /\ (journal' = "complete" => journal = "complete")
         \/ \E p \in Procs : Rename(p) \/ Claim(p) \/ Fill(p) \/ Replace(p) \/ Complete(p)
         \/ \E w \in 1 .. Settings : Edit(w)
  <1> USE DEF files
  <1>1. ASSUME NEW p \in Procs, Recovering(p)
        PROVE  UNCHANGED <<place, setting, journal>>
    BY <1>1 DEF Recovering, Start, ReadJournal, LockToApply, Resolve, Open, Lease
  <1>2. ASSUME NEW p \in Procs, Confirming(p)
        PROVE  UNCHANGED <<place, setting>> /\ (journal' = "complete" => journal = "complete")
    BY <1>2 DEF Confirming, Convert, Revert, Queue, Close, Quit
  <1>3. ASSUME NEW p \in Procs, Relocate(p) \/ Compare(p) \/ Refuses(p) \/ Verify(p)
        PROVE  UNCHANGED <<place, setting, journal>>
    BY <1>3 DEF Relocate, Compare, Refuses, Verify
  <1>4. ASSUME NEW p \in Procs, Stop(p)
        PROVE  UNCHANGED <<place, setting>> /\ (journal' = "complete" => journal = "complete")
    BY <1>4 DEF Stop
  <1>5. CASE UNCHANGED vars
    BY <1>5 DEF vars
  <1> QED BY <1>1, <1>2, <1>3, <1>4, <1>5 DEF Next, Applying, SettingSteps

\* The four writes of a setting there are, and who makes them.
LEMMA FourWrites ==
  ASSUME TypeOK, AtWrites, [Next]_vars, setting' # setting
  PROVE  \/ \E p \in Procs : /\ Claim(p) /\ step[p] \in Writing
                             /\ setting[SettingOf(step[p])] = "absent"
                             /\ setting' = [setting EXCEPT ![SettingOf(step[p])] = "torn"]
         \/ \E p \in Procs : /\ Fill(p) /\ step[p] \in Writing /\ pc[p] = "filling"
                             /\ Target(step[p]) = SettingOf(step[p])
                             /\ setting' = [setting EXCEPT ![SettingOf(step[p])] = "after"]
                             /\ pc'[p] = "applying" /\ step'[p] = step[p] + 1
         \/ \E p \in Procs : /\ Replace(p) /\ step[p] \in Writes /\ pc[p] = "replacing"
                             /\ Target(step[p]) \notin Made
                             /\ setting' = [setting EXCEPT ![Target(step[p])] = Bytes(step[p])]
         \/ \E w \in 1 .. Settings : Edit(w)
  <1>1. ASSUME NEW p \in Procs, pc[p] \in {"claiming", "filling"}
        PROVE  /\ step[p] \in Writing /\ Target(step[p]) = SettingOf(step[p])
               /\ Bytes(step[p]) = "after"
    BY <1>1, Targeted DEF AtWrites
  <1>2. ASSUME NEW p \in Procs, Claim(p)
        PROVE  /\ step[p] \in Writing /\ setting[SettingOf(step[p])] = "absent"
               /\ setting' = [setting EXCEPT ![SettingOf(step[p])] = "torn"]
    BY <1>1, <1>2 DEF Claim, Content
  <1>3. ASSUME NEW p \in Procs, Fill(p)
        PROVE  /\ step[p] \in Writing /\ pc[p] = "filling"
               /\ Target(step[p]) = SettingOf(step[p])
               /\ setting' = [setting EXCEPT ![SettingOf(step[p])] = "after"]
               /\ pc'[p] = "applying" /\ step'[p] = step[p] + 1
    BY <1>1, <1>3 DEF Fill, Puts, Applies, Onward, Goes, TypeOK
  <1>4. ASSUME NEW p \in Procs, Replace(p)
        PROVE  /\ step[p] \in Writes /\ pc[p] = "replacing" /\ Target(step[p]) \notin Made
               /\ setting' = [setting EXCEPT ![Target(step[p])] = Bytes(step[p])]
    BY <1>4 DEF Replace, AtWrites, Puts
  <1>5. ASSUME NEW p \in Procs, Rename(p) \/ Complete(p) PROVE FALSE
    BY <1>5 DEF Rename, Complete
  <1> QED BY <1>2, <1>3, <1>4, <1>5, OnlyThese

LEMMA WrittenStays ==
  ASSUME TypeOK, AtWrites, Written, [Next]_vars
  PROVE  Written'
  <1> USE DEF Done, Written, TypeOK
  <1>0. CASE UNCHANGED setting
    BY <1>0
  <1>1. ASSUME NEW p \in Procs, step[p] \in Writing, NEW v \in {"torn", "after"},
               v = "torn" => setting[SettingOf(step[p])] = "absent",
               setting' = [setting EXCEPT ![SettingOf(step[p])] = v]
        PROVE  Written'
    BY <1>1, Numbered
  <1>2. ASSUME NEW p \in Procs, step[p] \in Writes, Target(step[p]) \notin Made,
               setting' = [setting EXCEPT ![Target(step[p])] = Bytes(step[p])]
        PROVE  Written'
    <2>1. Target(step[p]) \in 1 .. Settings /\ Target(step[p]) # Locator
      BY <1>2, Targeted, SizesAssumption DEF Locator
    <2>2. Bytes(step[p]) \in {"bridge", "after"}
      BY <1>2, Targeted
    <2> QED BY <1>2, <2>1, <2>2, Numbered
  <1>3. ASSUME NEW w \in 1 .. Settings, Edit(w) PROVE Written'
    BY <1>3, Numbered DEF Edit
  <1> QED BY <1>0, <1>1, <1>2, <1>3, FourWrites

\* A process past the last entry of the journal leaves everything done.
LEMMA LastStepDone ==
  ASSUME StepsBehind, NEW p \in Procs, pc[p] \in Busy, step[p] = Completing
  PROVE  /\ \A f \in 1 .. Folders : place[f] = "to"
         /\ runner = "to"
         /\ \A w \in 1 .. Settings : setting[w] \in Done
  <1>1. \A n \in 1 .. Completing - 1 : LastsIn(n, place, runner, setting)
    BY DEF StepsBehind, Lasts
  <1> QED BY <1>1, AllBehind

LEMMA BridgeStaysFirst ==
  ASSUME IInv, Looked, [Next]_vars
  PROVE  BridgeFirst'
  <1> USE Numbered DEF IInv
  <1>1. ASSUME NEW p \in Procs, Rename(p) PROVE setting[Launcher] # "before" /\ UNCHANGED setting
    <2>1. UNCHANGED setting /\ step[p] \in Renaming /\ pc[p] \in Busy
      BY <1>1 DEF Rename, At, Busy
    <2>2. Bridging \in 1 .. step[p] - 1
      BY <2>1
    <2>3. Lasts(Bridging)
      BY <2>1, <2>2 DEF StepsBehind
    <2> QED BY <2>1, <2>3 DEF Lasts, LastsIn, Done
  <1>2. UNCHANGED place \/ \E p \in Procs : Rename(p)
    BY OnlyThese DEF Claim, Fill, Replace, Complete, Edit
  <1>3. setting'[Launcher] = "before" => setting[Launcher] = "before"
    <2>1. setting \in [1 .. Settings -> {"absent", "torn", "before", "bridge", "after", "edited"}]
      BY DEF TypeOK
    <2>2. \A q \in Procs : step[q] \in Writes => Bytes(step[q]) # "before"
      BY Targeted
    <2> QED BY <2>1, <2>2, FourWrites DEF Edit
  <1>4. setting'[Launcher] = "before" => \A f \in 1 .. Folders : place'[f] = "from"
    BY <1>1, <1>2, <1>3 DEF BridgeFirst
  <1>5. ASSUME NEW p \in Procs, pc'[p] = "replacing", step'[p] = Bridging
        PROVE  place'[1] = "from" /\ setting'[Launcher] \in {"before", "edited"}
    <2>1. pc[p] \in Busy /\ step[p] = Bridging
      BY <1>5 DEF Looked, At, Busy
    <2>2. place[1] = "from" /\ setting[Launcher] \in {"before", "edited"}
      <3>1. CASE pc[p] = "replacing"
        BY <2>1, <3>1 DEF BridgeFirst
      <3>2. CASE Content(p) = Expected(step[p])
        BY <2>1, <3>2 DEF BridgeFirst, Content, Expected, Target
      <3> QED BY <1>5, <3>1, <3>2 DEF Looked
    <2>3. ASSUME NEW q \in Procs, Rename(q) \/ Claim(q) \/ Fill(q) \/ Replace(q) PROVE FALSE
      <3>1. pc[q] \in Busy
        BY <2>3 DEF Rename, Claim, Fill, Replace, At, Busy
      <3>2. q = p
        BY <2>1, <2>2, <3>1, OneApplies
      <3>3. pc'[q] \in {"applying", "down", "filling", "verifying"}
        BY <2>3 DEF Rename, Claim, Fill, Replace, Applies, Onward, Exits, Goes, TypeOK
      <3> QED BY <1>5, <3>2, <3>3
    <2>4. UNCHANGED place
      BY <1>2, <2>3
    <2>5. setting'[Launcher] \in {"before", "edited"}
      BY <2>2, <2>3, FourWrites DEF Edit, TypeOK
    <2> QED BY <2>2, <2>4, <2>5
  <1> QED BY <1>4, <1>5 DEF BridgeFirst

LEMMA LocatorStaysLast ==
  ASSUME IInv, [Next]_vars
  PROVE  LocatorIsLast'
  <1> USE DEF IInv, Done
  <1>1. TypeOK' /\ Keeps /\ StepsBehind'
    BY NextOnward, StepsStay
  <1>2. CASE setting[Locator] = "after" \/ journal = "complete"
    BY <1>1, <1>2, Numbered DEF LocatorIsLast, Keeps
  <1>3. CASE ~(setting[Locator] = "after" \/ journal = "complete")
    <2>1. ASSUME setting'[Locator] = "after" PROVE LocatorIsLast'
      <3>1. PICK p \in Procs : /\ step[p] \in Writing /\ SettingOf(step[p]) = Locator
                               /\ pc'[p] = "applying" /\ step'[p] = step[p] + 1
        <4>1. ASSUME NEW p \in Procs, step[p] \in Writes, Target(step[p]) \notin Made
              PROVE  Target(step[p]) # Locator
          BY <4>1, SizesAssumption DEF Locator
        <4>2. \A q \in Procs : step[q] \in Writing => SettingOf(step[q]) \in 1 .. Settings
          BY Numbered
        <4>3. \A q \in Procs : step[q] \in Writes => Target(step[q]) \in 1 .. Settings
          BY Targeted
        <4>4. /\ setting \in [1 .. Settings ->
                               {"absent", "torn", "before", "bridge", "after", "edited"}]
              /\ setting[Locator] # "after" /\ Locator \in 1 .. Settings
          BY <1>3, Numbered DEF TypeOK
        <4>5. ~ \E v \in 1 .. Settings : Edit(v) \/ setting' = [setting EXCEPT ![v] = "torn"]
          BY <2>1, <4>4 DEF Edit
        <4> QED BY <2>1, <4>1, <4>2, <4>3, <4>4, <4>5, FourWrites
      <3>2. step'[p] = Completing
        <4>1. /\ step[p] \in Folders + 3 .. Folders + Settings + 2 /\ Folders \in Nat /\ Settings \in Nat
              /\ Completing = Folders + Settings + 3 /\ SettingOf(step[p]) = step[p] - Folders - 2
          BY ONLY <3>1, Numbered
        <4>2. step[p] - Folders - 2 = Settings
          BY ONLY <3>1, <4>1 DEF Locator
        <4> QED BY ONLY <3>1, <4>1, <4>2
      <3>3. \A n \in 1 .. Completing - 1 : LastsIn(n, place', runner', setting')
        BY <1>1, <3>1, <3>2 DEF StepsBehind, Lasts, Busy
      <3>4. /\ \A f \in 1 .. Folders : place'[f] = "to"
            /\ runner' = "to"
            /\ \A w \in 1 .. Settings : setting'[w] \in Done
        <4> HIDE DEF IInv, Done
        <4> QED BY ONLY <3>3, AllBehind
      <3> QED BY <3>4 DEF LocatorIsLast
    <2>2. ASSUME NEW p \in Procs, Complete(p) PROVE LocatorIsLast'
      <3>1. pc[p] \in Busy /\ step[p] = Completing /\ UNCHANGED <<place, runner, setting>>
        BY <2>2 DEF Complete, At, Busy
      <3> QED BY <3>1, LastStepDone DEF LocatorIsLast
    <2>3. CASE setting'[Locator] # "after" /\ journal' # "complete"
      BY <2>3 DEF LocatorIsLast
    <2>4. journal' # "complete" \/ \E p \in Procs : Complete(p)
      BY <1>3, OnlyThese DEF Rename, Claim, Fill, Replace, Edit
    <2> QED BY <2>1, <2>2, <2>3, <2>4
  <1> QED BY <1>2, <1>3

LEMMA LauncherStillStarts ==
  ASSUME IInv, [Next]_vars
  PROVE  LauncherStarts'
  <1> USE Numbered DEF IInv
  <1>1. Keeps /\ Looked
    BY NextOnward
  <1>2. setting'[Launcher] = "before" => place'[Install] = "from"
    BY <1>1, BridgeStaysFirst DEF BridgeFirst
  <1>3. ASSUME setting'[Launcher] = "after" PROVE place'[Install] = "to"
    <2>1. CASE setting[Launcher] = "after"
      BY <1>1, <2>1 DEF LauncherStarts, Keeps
    <2>2. CASE setting[Launcher] # "after"
      <3>1. PICK p \in Procs : pc[p] \in Busy /\ step[p] \in Writes /\ step[p] # Bridging
        BY <1>3, <2>2, Targeted, FourWrites DEF Edit, TypeOK, Busy, Writes
      <3>2. place[Install] = "to"
        BY <3>1, PastRenames
      <3> QED BY <1>1, <3>2 DEF Keeps
    <2> QED BY <2>1, <2>2
  <1> QED BY <1>2, <1>3 DEF LauncherStarts

-------------------------------------------------------------------------------
(* The inductive invariant, and the theorems.                              *)

LEMMA InitIInv == Init => IInv
  <1> SUFFICES ASSUME Init PROVE IInv
    OBVIOUS
  <1> USE SizesAssumption, Numbered DEF Init
  <1>1. TypeOK
    BY DEF TypeOK, NoLease
  <1>2. StepsBehind /\ AtWrites
    BY DEF StepsBehind, AtWrites, Busy
  <1>6. Leased
    BY DEF Leased, NoLease, Busy
  <1>7. BridgeFirst
    BY DEF BridgeFirst
  <1>3. Written
    BY DEF Written, Done, Locator
  <1>4. LocatorIsLast
    BY DEF LocatorIsLast, Locator
  <1>5. LauncherStarts
    BY DEF LauncherStarts
  <1> QED BY <1>1, <1>2, <1>3, <1>4, <1>5, <1>6, <1>7 DEF IInv

LEMMA NextIInv == IInv /\ [Next]_vars => IInv'
  <1> SUFFICES ASSUME IInv, [Next]_vars PROVE IInv'
    OBVIOUS
  <1>1. TypeOK' /\ Keeps /\ InOrder /\ Looked
    BY NextOnward DEF IInv
  <1>2. StepsBehind' /\ AtWrites' /\ Written'
    BY <1>1, StepsStay, AtWritesStays, WrittenStays DEF IInv
  <1>3. Leased' /\ BridgeFirst'
    BY <1>1, LeasedStays, BridgeStaysFirst DEF IInv
  <1>4. LocatorIsLast' /\ LauncherStarts'
    BY LocatorStaysLast, LauncherStillStarts
  <1> QED BY <1>1, <1>2, <1>3, <1>4 DEF IInv

LEMMA Inductive == Spec => []IInv
  BY InitIInv, NextIInv, PTL DEF Spec

\* Every variable keeps its type: no process runs past the journal's last
\* entry (applyHomeTransaction), and no lock is held of a file there is not.
THEOREM TypeCorrect == Spec => []TypeOK
  BY Inductive, PTL DEF IInv

\* desk_home_transaction.go:349: the locator and the completion come after
\* every folder, Runner's workspace and every other setting, however many
\* processes apply the journal, at once or one after another.
THEOREM LocatorComesLast == Spec => []LocatorIsLast
  BY Inductive, PTL DEF IInv

\* The launcher names a place the installation is at (homeLauncherBridge and
\* the prelude of applyHomeTransaction), at every stop.
THEOREM LauncherAlwaysStarts == Spec => []LauncherStarts
  BY Inductive, PTL DEF IInv

\* applyHomeWrite compares before it replaces, and claims what was not there: an
\* edit that no process had looked past stays as the owner left it,
\* through every replay and whoever else applies.
THEOREM EditsStay == Spec => EditsKept
  <1>1. ASSUME IInv, [Next]_vars, NEW w \in 1 .. Settings, Stands(w)
        PROVE  Stands(w)'
    <2> USE DEF IInv
    <2>1. setting[w] = "edited" /\ ~UnderWay(w) /\ Looked
      BY <1>1, NextOnward DEF Stands
    <2>2. setting'[w] = "edited"
      <3>1. ASSUME NEW p \in Procs, pc[p] \in {"filling", "replacing"}
            PROVE  Target(step[p]) # w
        BY <2>1, <3>1 DEF UnderWay
      <3>2. setting \in [1 .. Settings -> {"absent", "torn", "before", "bridge", "after", "edited"}]
        BY <1>1 DEF TypeOK
      <3>3. \A p \in Procs : step[p] \in Writing => SettingOf(step[p]) \in 1 .. Settings
        BY Numbered
      <3>4. \A p \in Procs : step[p] \in Writes => Target(step[p]) \in 1 .. Settings
        BY Targeted
      <3> QED BY <1>1, <2>1, <3>1, <3>2, <3>3, <3>4, FourWrites DEF Edit
    <2>3. ~UnderWay(w)'
      <3>1. SUFFICES ASSUME NEW p \in Procs, pc'[p] \in {"filling", "replacing"},
                            Target(step'[p]) = w
                     PROVE  UnderWay(w)
        BY <2>1 DEF UnderWay
      <3>2. step'[p] = step[p]
        BY <2>1, <3>1 DEF Looked
      <3>3. Content(p) = "edited"
        BY <2>1, <3>1, <3>2 DEF Content
      <3>4. ~(At(p, Writes) /\ Content(p) = Expected(step[p]))
        BY <3>3, Targeted DEF At
      <3>5. pc[p] \in {"filling", "replacing"}
        BY <2>1, <3>1, <3>3, <3>4 DEF Looked
      <3> QED BY <3>1, <3>2, <3>5 DEF UnderWay
    <2> QED BY <2>2, <2>3 DEF Stands
  <1>2. IInv /\ [Next]_vars => [\A w \in 1 .. Settings : Stands(w) => Stands(w)']_vars
    BY <1>1
  <1> QED BY <1>2, Inductive, PTL DEF Spec, EditsKept

\* To give an argument the value it has changes nothing.
LEMMA SameValue ==
  ASSUME NEW D, NEW R, NEW f \in [D -> R], NEW d \in D, NEW v, v = f[d]
  PROVE  [f EXCEPT ![d] = v] = f
  <1>1. \A e \in D : [f EXCEPT ![d] = v][e] = f[e]
    OBVIOUS
  <1> QED BY <1>1

\* Once the journal says complete, no folder is moved, Runner is not rebound and
\* nothing the move wrote is taken away by it: a process that read the journal
\* before finds every folder moved (applyHomeRename) and has no older bytes to
\* put over a file (applyHomeWrite), the launcher's bridge least of all.
THEOREM CompletionIsFinal == Spec => CompleteIsFinal
  <1>1. ASSUME IInv, [Next]_vars, journal = "complete"
        PROVE  /\ UNCHANGED <<journal, place, runner>>
               /\ \A w \in 1 .. Settings : setting[w] = "after" => setting'[w] = "after"
    <2> USE Numbered DEF IInv
    <2>0. place \in [1 .. Folders -> {"from", "to"}]
      BY <1>1 DEF TypeOK
    <2>1. /\ \A f \in 1 .. Folders : place[f] = "to"
          /\ runner = "to"
      BY <1>1 DEF LocatorIsLast
    <2>2. journal' = "complete"
      BY <1>1 DEF Next, vars, files, Recovering, Confirming, Applying, SettingSteps, Start,
            ReadJournal, LockToApply, Resolve, Open, Lease, Convert, Revert, Queue, Close, Quit,
            Rename, Relocate, Compare, Refuses, Claim, Fill, Replace, Verify, Complete, Stop, Edit
    <2>3. UNCHANGED runner
      BY <1>1, <2>1 DEF Next, vars, files, Recovering, Confirming, Applying, SettingSteps, Start,
            ReadJournal, LockToApply, Resolve, Open, Lease, Convert, Revert, Queue, Close, Quit,
            Rename, Relocate, Compare, Refuses, Claim, Fill, Replace, Verify, Complete, Stop, Edit
    <2>4. UNCHANGED place
      <3>1. ASSUME NEW p \in Procs, Rename(p) PROVE UNCHANGED place
        <4>1. FolderOf(step[p]) \in 1 .. Folders
          BY <3>1 DEF Rename, At
        <4>2. place' = [place EXCEPT ![FolderOf(step[p])] = "to"]
          BY <3>1 DEF Rename
        <4> QED BY ONLY <2>0, <2>1, <4>1, <4>2, SameValue
      <3> QED BY <1>1, <3>1, OnlyThese DEF Claim, Fill, Replace, Complete, Edit
    <2>5. ASSUME NEW w \in 1 .. Settings, setting[w] = "after" PROVE setting'[w] = "after"
      <3>1. ASSUME NEW p \in Procs, step[p] \in Writes, pc[p] = "replacing"
            PROVE  Bytes(step[p]) = "after"
        <4>1. place[1] # "from"
          BY <2>1
        <4>2. step[p] # Bridging
          BY <1>1, <3>1, <4>1 DEF BridgeFirst
        <4> QED BY <3>1, <4>2, Targeted
      <3>2. \A v \in 1 .. Settings : ~Edit(v)
        BY <1>1 DEF Edit
      <3>3. setting \in [1 .. Settings -> {"absent", "torn", "before", "bridge", "after", "edited"}]
        BY <1>1 DEF TypeOK
      <3>4. \A p \in Procs : step[p] \in Writing => SettingOf(step[p]) \in 1 .. Settings
        OBVIOUS
      <3> QED BY <1>1, <2>5, <3>1, <3>2, <3>3, <3>4, FourWrites
    <2> QED BY <1>1, <2>2, <2>3, <2>4, <2>5
  <1> QED BY <1>1, Inductive, PTL DEF Spec, CompleteIsFinal

===============================================================================
