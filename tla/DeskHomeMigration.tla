--------------------------- MODULE DeskHomeMigration ---------------------------
(***************************************************************************)
(* Moving an installation to its Desk home                                 *)
(* (src/internal/desk/desk_home_transaction.go, desk_home_lifecycle.go).   *)
(*                                                                         *)
(* A confirmed move is one journal, kept outside the folders it moves:     *)
(* folders to rename, a Runner to relocate, settings to write, and last    *)
(* the locator that says where the installation is.  The Desk that took    *)
(* the confirmation stops serving and applies it; a Desk that starts reads *)
(* the journal first and applies what is left, from the beginning.  Every  *)
(* process serves under a shared lock on a file in the configuration       *)
(* folder, and a move needs that lock alone.  The lock file moves with its *)
(* folder, and processes start, stop and confirm at any moment.            *)
(*                                                                         *)
(* One move is modelled, the first: from the legacy configuration folder.  *)
(* A folder's or a setting's bytes are whether they are the ones reviewed. *)
(***************************************************************************)
EXTENDS Naturals, FiniteSets

CONSTANTS
    Procs,            \* the Desk processes there can be
    Folders,          \* how many folders move; 1 is the configuration folder
    Install,          \* the folder of the managed installation
    Settings,         \* how many settings are written; the last is the locator
    Launcher,         \* the setting that is the shell launcher
    Made,             \* the settings there are none of before the move
    MaxStops,         \* bound: crashes and failed steps
    MaxEdits,         \* bound: the owner's edits of a setting being moved
    SplitConversion   \* whether a lock's conversion gives up the one held first

ASSUME SizesAssumption ==
    /\ Folders \in Nat \ {0} /\ Install \in 1 .. Folders
    /\ Settings \in Nat \ {0} /\ Launcher \in 1 .. Settings - 1
    /\ Made \subseteq 1 .. Settings /\ Launcher \notin Made /\ Settings \in Made
    /\ MaxStops \in Nat /\ MaxEdits \in Nat
    /\ SplitConversion \in BOOLEAN

VARIABLES
    \* Files, which outlive every process.
    journal,   \* "none", "torn", "pending" or "complete"
    place,     \* where each folder is: "from" or "to"
    runner,    \* the input root Runner's workspace is bound to
    setting,   \* what each setting's file holds
    left,      \* what was made under the configuration folder's old name since
    \* Each process.
    pc,        \* the step it is about to make
    leaving,   \* whether it applies the move it confirmed, and then ends
    step,      \* the step of the journal it is at
    conf,      \* the configuration folder it resolved: "from" or "to"
    lease,     \* the lock it holds on which lock file
    stops, edits

files == <<journal, place, runner, setting, left>>
bounds == <<stops, edits>>
vars == <<files, pc, leaving, step, conf, lease, bounds>>

Locator == Settings

\* applyHomeTransaction, in order: the launcher's bridge, the renames, Runner,
\* the settings, and the journal's completion.
Bridging == 1
Renaming == 2 .. Folders + 1
Relocating == Folders + 2
Writing == Folders + 3 .. Folders + Settings + 2
Completing == Folders + Settings + 3
FolderOf(n) == n - 1

\* Mutant: the settings written from the last, which is the locator.
SettingOfBackwards(n) == Folders + Settings + 3 - n
SettingOf(n) == n - Folders - 2

\* The revision a write expects: homeWrite.Before.
Before(w) == IF w \in Made THEN "absent" ELSE IF w = Launcher THEN "bridge" ELSE "before"

\* The steps that write a setting; which, over what, and what they leave there.
Writes == {Bridging} \cup Writing
Target(n) == IF n = Bridging THEN Launcher ELSE SettingOf(n)
Expected(n) == IF n = Bridging THEN "before" ELSE Before(SettingOf(n))
Bytes(n) == IF n = Bridging THEN "bridge" ELSE "after"

\* Mutant: no bridge; the launcher stays the old place's until it is written.
SettledNoBridge(n) == {Bytes(n), "after"} \cup IF n = Bridging THEN {"before"} ELSE {}
\* Mutant: a file that already holds the new bytes is not the one expected.
SettledOnce(n) == IF n = Bridging THEN {"bridge", "after"} ELSE {}
\* What leaves a step nothing to do: its bytes, or the final launcher, which is
\* not taken back to its bridge.
Settled(n) == {Bytes(n), "after"}

-------------------------------------------------------------------------------
(* The installation's lease: flock on the configuration folder's lock file. *)

NoLease == [file |-> "none", mode |-> "none"]
Held(file, mode) == [file |-> file, mode |-> mode]

\* Whether p can hold the lock of the file in the mode.
CanHold(p, file, mode) ==
    \A q \in Procs \ {p} :
        lease[q].file = file => mode = "shared" /\ lease[q].mode = "shared"

Drops(p) == lease' = [lease EXCEPT ![p] = NoLease]
Takes(p, file, mode) == lease' = [lease EXCEPT ![p] = Held(file, mode)]

\* The lock file under a configuration folder's name: the installation's own,
\* or one made anew under the old name.
LockFile(name) ==
    IF place[1] = name THEN "own"
    ELSE IF name = "from" /\ left # "nothing" THEN "fresh"
    ELSE "none"

Goes(p, to) == pc' = [pc EXCEPT ![p] = to]
Exits(p) == Goes(p, "down") /\ Drops(p) /\ leaving' = [leaving EXCEPT ![p] = FALSE]

-------------------------------------------------------------------------------
(* Starting: RecoverDeskHomeMigration, and then New.                       *)

Start(p) ==
    /\ pc[p] = "down" /\ Goes(p, "reading")
    /\ UNCHANGED <<files, leaving, step, conf, lease, bounds>>

\* finishHomeTransaction reads the journal before it takes the lock.
ReadJournal(p) ==
    /\ pc[p] = "reading"
    /\ \/ /\ journal = "pending" /\ Goes(p, "locking")
          /\ UNCHANGED <<leaving, lease>>
       \/ /\ journal \in {"none", "complete"} /\ ~leaving[p] /\ Goes(p, "resolving")
          /\ UNCHANGED <<leaving, lease>>
       \/ /\ journal = "torn" \/ (journal = "complete" /\ leaving[p])
          /\ Exits(p)
    /\ UNCHANGED <<files, step, conf, bounds>>

\* The lock file at the old name, or else at the new one, held alone.
LockToApply(p) ==
    /\ pc[p] = "locking"
    /\ LET file == IF place[1] = "from" \/ left = "lock"
                   THEN LockFile("from") ELSE LockFile("to")
       IN  IF CanHold(p, file, "exclusive")
           THEN /\ Takes(p, file, "exclusive") /\ Goes(p, "applying")
                /\ step' = [step EXCEPT ![p] = Bridging]
                /\ UNCHANGED leaving
           ELSE Exits(p) /\ UNCHANGED step
    /\ UNCHANGED <<files, conf, bounds>>

\* resolveHomeConfig: where the locator says, or the legacy folder.
Resolve(p) ==
    /\ pc[p] = "resolving"
    /\ \/ /\ setting[Locator] \in {"absent", "after"}
          /\ conf' = [conf EXCEPT ![p] = IF setting[Locator] = "after" THEN "to" ELSE "from"]
          /\ Goes(p, "opening") /\ UNCHANGED <<leaving, lease>>
       \/ setting[Locator] \notin {"absent", "after"} /\ Exits(p) /\ UNCHANGED conf
    /\ UNCHANGED <<files, step, bounds>>

\* openAssistantStore makes the folder where there is none, and then New reads
\* the journal.
Open(p) ==
    /\ pc[p] = "opening"
    /\ left' = IF LockFile(conf[p]) = "none" THEN "folder" ELSE left
    /\ IF journal \in {"none", "complete"}
       THEN Goes(p, "leasing") /\ UNCHANGED <<leaving, lease>>
       ELSE Exits(p)
    /\ UNCHANGED <<journal, place, runner, setting, step, conf, bounds>>

\* openHomeLease makes the lock file, and never its folder.
Lease(p) ==
    /\ pc[p] = "leasing"
    /\ LET file == LockFile(conf[p])
       IN  IF file # "none" /\ CanHold(p, file, "shared")
           THEN /\ Takes(p, file, "shared") /\ Goes(p, "serving")
                /\ left' = IF file = "fresh" THEN "lock" ELSE left
                /\ UNCHANGED leaving
           ELSE Exits(p) /\ UNCHANGED left
    /\ UNCHANGED <<journal, place, runner, setting, step, conf, bounds>>

-------------------------------------------------------------------------------
(* Serving, and confirming a move: queueHomeMove.                          *)

\* A move is confirmed of the installation the process opened, while it is
\* where it was reviewed.  A refused conversion can lose the lock that was
\* held (flock(2)); its file stays open, and the owner may confirm again.
Convert(p) ==
    /\ pc[p] = "serving" /\ conf[p] = "from" /\ place[1] = "from"
    /\ lease[p].file # "fresh"
    /\ IF CanHold(p, "own", "exclusive")
       THEN Takes(p, "own", "exclusive") /\ Goes(p, "queueing")
       ELSE /\ SplitConversion
            /\ Drops(p) /\ Goes(p, "reverting")
    /\ UNCHANGED <<files, leaving, step, conf, bounds>>

\* The shared lock asked for again; whether it was given is not looked at.
Revert(p) ==
    /\ pc[p] = "reverting" /\ Goes(p, "serving")
    /\ IF CanHold(p, "own", "shared") THEN Takes(p, "own", "shared") ELSE UNCHANGED lease
    /\ UNCHANGED <<files, leaving, step, conf, bounds>>

\* The journal is claimed where there is none; where one is pending the move
\* is refused, and the lock converted back.
Queue(p) ==
    /\ pc[p] = "queueing"
    /\ \/ /\ journal = "none" /\ journal' = "pending"
          /\ leaving' = [leaving EXCEPT ![p] = TRUE]
          /\ Goes(p, "draining") /\ UNCHANGED lease
       \/ /\ journal # "none" /\ UNCHANGED <<journal, leaving>>
          /\ IF SplitConversion
             THEN Drops(p) /\ Goes(p, "reverting")
             ELSE Takes(p, lease[p].file, "shared") /\ Goes(p, "serving")
    /\ UNCHANGED <<place, runner, setting, left, step, conf, bounds>>

\* HTTP drained and every worker stopped, Close gives the lock up, and
\* FinishDeskHomeMove reads the journal.
Close(p) ==
    /\ pc[p] = "draining" /\ Drops(p) /\ Goes(p, "reading")
    /\ UNCHANGED <<files, leaving, step, conf, bounds>>

Quit(p) ==
    /\ pc[p] = "serving" /\ Exits(p)
    /\ UNCHANGED <<files, step, conf, bounds>>

-------------------------------------------------------------------------------
(* Applying the journal, from its first step whoever applied it before.    *)

At(p, steps) == pc[p] = "applying" /\ step[p] \in steps

Onward(p) == step' = [step EXCEPT ![p] = @ + 1] /\ Goes(p, "applying")
Applies(p) == Onward(p) /\ UNCHANGED <<leaving, conf, lease, bounds>>

\* applyHomeRename: done where the folder is at its destination.
Rename(p) ==
    /\ At(p, Renaming)
    /\ place' = [place EXCEPT ![FolderOf(step[p])] = "to"]
    /\ Applies(p)
    /\ UNCHANGED <<journal, runner, setting, left>>

\* Runner's answer is held to the operation's ID: one already made is made.
Relocate(p) ==
    /\ At(p, {Relocating})
    /\ runner' = "to"
    /\ Applies(p)
    /\ UNCHANGED <<journal, place, setting, left>>

\* What p's step finds in its file, and the file with p's bytes in it.
Content(p) == setting[Target(step[p])]
Puts(p) == setting' = [setting EXCEPT ![Target(step[p])] = Bytes(step[p])]

\* The file's folder is made first, the configuration folder's old one for the
\* locator, which goes where that folder was.
MakesParent(p) ==
    left' = IF Target(step[p]) = Locator /\ left = "nothing" THEN "folder" ELSE left

\* The look at the file is over, and what is written rests on it.
GoesToWrite(p) ==
    /\ Goes(p, IF Target(step[p]) \in Made THEN "claiming" ELSE "replacing")
    /\ UNCHANGED <<leaving, step, conf, lease, bounds>>

\* Mutant: the final launcher taken back to its bridge.
CompareBridgeAgain(p) ==
    /\ At(p, Writes)
    /\ \/ Content(p) \in Settled(step[p]) /\ step[p] # Bridging /\ Applies(p)
       \/ (Content(p) = Expected(step[p]) \/ step[p] = Bridging) /\ GoesToWrite(p)
    /\ MakesParent(p)
    /\ UNCHANGED <<journal, place, runner, setting>>

\* applyHomeWrite: nothing to do, or the revision expected.
Compare(p) ==
    /\ At(p, Writes)
    /\ \/ Content(p) \in Settled(step[p]) /\ Applies(p)
       \/ Content(p) = Expected(step[p]) /\ Content(p) \notin Settled(step[p]) /\ GoesToWrite(p)
    /\ MakesParent(p)
    /\ UNCHANGED <<journal, place, runner, setting>>

\* A setting changed since the review, or torn: the journal is kept.
Refuses(p) ==
    /\ At(p, Writes) /\ Content(p) \notin Settled(step[p]) \cup {Expected(step[p])}
    /\ Exits(p) /\ MakesParent(p)
    /\ UNCHANGED <<journal, place, runner, setting, step, conf, bounds>>

\* Mutant: a file that is there by now is claimed like one that is not.
ClaimOver(p) ==
    /\ pc[p] = "claiming" /\ Goes(p, "filling")
    /\ setting' = [setting EXCEPT ![Target(step[p])] = "torn"]
    /\ UNCHANGED <<journal, place, runner, left, leaving, step, conf, lease, bounds>>

\* claimPrivateData: where there was no file, one is made by its name, and there
\* must still be none;
Claim(p) ==
    /\ pc[p] = "claiming"
    /\ \/ /\ Content(p) = "absent" /\ setting' = [setting EXCEPT ![Target(step[p])] = "torn"]
          /\ Goes(p, "filling") /\ UNCHANGED <<leaving, step, conf, lease, bounds>>
       \/ Content(p) # "absent" /\ Exits(p) /\ UNCHANGED <<setting, step, conf, bounds>>
    /\ UNCHANGED <<journal, place, runner, left>>

\* and then its bytes are written, over an edit of it, unless that put another
\* file in its place.
Fill(p) ==
    /\ pc[p] = "filling"
    /\ Puts(p) \/ (Content(p) = "edited" /\ UNCHANGED setting)
    /\ Applies(p)
    /\ UNCHANGED <<journal, place, runner, left>>

\* writePrivateData: another file is renamed over it, whatever it holds by now,
Replace(p) ==
    /\ pc[p] = "replacing" /\ Puts(p) /\ Goes(p, "verifying")
    /\ UNCHANGED <<journal, place, runner, left, leaving, step, conf, lease, bounds>>

\* and read back.
Verify(p) ==
    /\ pc[p] = "verifying"
    /\ \/ Content(p) = Bytes(step[p]) /\ Applies(p)
       \/ Content(p) # Bytes(step[p]) /\ Exits(p) /\ UNCHANGED <<step, conf, bounds>>
    /\ UNCHANGED files

Complete(p) ==
    /\ At(p, {Completing})
    /\ journal' = "complete" /\ Drops(p)
    /\ Goes(p, IF leaving[p] THEN "down" ELSE "resolving")
    /\ leaving' = [leaving EXCEPT ![p] = FALSE]
    /\ UNCHANGED <<place, runner, setting, left, step, conf, bounds>>

-------------------------------------------------------------------------------
\* A process stopped anywhere.  A journal claimed by name and not yet written is
\* left with less than its bytes, as a setting is.
Stop(p) ==
    /\ pc[p] # "down" /\ stops < MaxStops /\ stops' = stops + 1
    /\ Exits(p)
    /\ \/ UNCHANGED journal
       \/ pc[p] = "queueing" /\ journal = "none" /\ journal' = "torn"
    /\ UNCHANGED <<place, runner, setting, left, step, conf, edits>>

\* The owner's editor, or another program of theirs.
Edit(w) ==
    /\ journal = "pending" /\ edits < MaxEdits /\ edits' = edits + 1
    /\ setting' = [setting EXCEPT ![w] = "edited"]
    /\ UNCHANGED <<journal, place, runner, left, pc, leaving, step, conf, lease, stops>>

Init ==
    /\ journal = "none" /\ runner = "from" /\ left = "nothing"
    /\ place = [f \in 1 .. Folders |-> "from"]
    /\ setting = [w \in 1 .. Settings |-> IF w \in Made THEN "absent" ELSE "before"]
    /\ pc = [p \in Procs |-> "down"] /\ leaving = [p \in Procs |-> FALSE]
    /\ step = [p \in Procs |-> Bridging] /\ conf = [p \in Procs |-> "from"]
    /\ lease = [p \in Procs |-> NoLease]
    /\ stops = 0 /\ edits = 0

Recovering(p) ==
    Start(p) \/ ReadJournal(p) \/ LockToApply(p) \/ Resolve(p) \/ Open(p) \/ Lease(p)
Confirming(p) == Convert(p) \/ Revert(p) \/ Queue(p) \/ Close(p) \/ Quit(p)
SettingSteps(p) ==
    Compare(p) \/ Refuses(p) \/ Claim(p) \/ Fill(p) \/ Replace(p) \/ Verify(p)
Applying(p) == SettingSteps(p) \/ Rename(p) \/ Relocate(p) \/ Complete(p)

Next ==
    \/ \E p \in Procs : Recovering(p) \/ Confirming(p) \/ Applying(p) \/ Stop(p)
    \/ \E w \in 1 .. Settings : Edit(w)

Spec == Init /\ [][Next]_vars

(* A Desk makes each step it has begun, and where none runs the owner       *)
(* starts one again.                                                       *)
Fairness ==
    /\ \A p \in Procs :
        /\ WF_vars(ReadJournal(p) \/ LockToApply(p) \/ Resolve(p) \/ Open(p) \/ Lease(p))
        /\ WF_vars(Applying(p)) /\ WF_vars(Revert(p) \/ Queue(p) \/ Close(p))
    /\ WF_vars((\A q \in Procs : pc[q] = "down") /\ \E p \in Procs : Start(p))

FairSpec == Spec /\ Fairness

-------------------------------------------------------------------------------
\* A process that applies the journal.
Busy == {"applying", "claiming", "filling", "replacing", "verifying"}

TypeOK ==
    /\ journal \in {"none", "torn", "pending", "complete"}
    /\ place \in [1 .. Folders -> {"from", "to"}] /\ runner \in {"from", "to"}
    /\ setting \in [1 .. Settings ->
                      {"absent", "torn", "before", "bridge", "after", "edited"}]
    /\ left \in {"nothing", "folder", "lock"}
    /\ pc \in [Procs -> Busy \cup {"down", "reading", "locking", "resolving", "opening",
                                   "leasing", "serving", "queueing", "reverting", "draining"}]
    /\ leaving \in [Procs -> BOOLEAN] /\ step \in [Procs -> 1 .. Completing]
    /\ conf \in [Procs -> {"from", "to"}]
    /\ lease \in [Procs -> [file : {"none", "own", "fresh"},
                            mode : {"none", "shared", "exclusive"}]]
    /\ stops \in Nat /\ edits \in Nat

\* desk_home_transaction.go:349: the locator is installed last.  Where it names
\* the new home, or the journal is complete, every folder is there, Runner's
\* workspace follows it, and no setting still says the old place, however many
\* processes applied it and wherever they were stopped.
LocatorIsLast ==
    setting[Locator] = "after" \/ journal = "complete" =>
        /\ \A f \in 1 .. Folders : place[f] = "to"
        /\ runner = "to"
        /\ \A w \in 1 .. Settings : setting[w] \in {"after", "edited"}

\* design/desk-home.md: an interrupted move can still start recovery.  The
\* launcher names a place the installation is at.
LauncherStarts ==
    /\ setting[Launcher] = "before" => place[Install] = "from"
    /\ setting[Launcher] = "after" => place[Install] = "to"

\* docs/design/desk-home.md:90: "Recovery refuses changed metadata".  Once what
\* the owner wrote since the review stands, no replay, retry or second process
\* replaces it.  It stands when no process has looked at that file and is about to
\* write over it; such a process, about to rename or in the middle of a claim, does
\* not look again, and the edit it did not see is lost.  A claim yet to be made
\* does: a file made since the comparison is safe from it.
UnderWay(w) == \E p \in Procs : pc[p] \in {"filling", "replacing"} /\ Target(step[p]) = w
Stands(w) == setting[w] = "edited" /\ ~UnderWay(w)
EditsKept == [][\A w \in 1 .. Settings : Stands(w) => Stands(w)']_vars

\* A completed move is never taken up again: no later start, and no process
\* that read the journal before it was completed, moves a folder, rebinds
\* Runner, or takes a setting away from what the move wrote.  (An edit that was
\* not yet safe from a process under way is not safe from it now.)
CompleteIsFinal ==
    [][journal = "complete" =>
        /\ UNCHANGED <<journal, place, runner>>
        /\ \A w \in 1 .. Settings : setting[w] = "after" => setting'[w] = "after"]_vars

\* A confirmed move is completed, by its Desk or by a later start, wherever it
\* was stopped: unless a setting was edited, or torn and left so, which refuses
\* every retry, or a Desk serves beside it, which keeps the lock it needs alone.
Marred ==
    \E w \in 1 .. Settings : setting[w] = "edited" \/ (setting[w] = "torn" /\ ~UnderWay(w))
Hindered == \E p \in Procs : pc[p] = "serving"
MoveFinishes ==
    journal = "pending" ~> (journal = "complete" \/ Marred \/ Hindered)

\* desk_home_transaction.go:3-5: "It runs only after all Desk processes have
\* released their installation leases", and desk_home_lifecycle.go:88:
\* "Recovery cannot run alongside another current Desk process".  The code does
\* not hold to it: a lock lost in its conversion, and a Desk that read no
\* journal and is leased the lock file made in the place of the moved one.
MovesAlone ==
    \A p, q \in Procs : pc[p] \in Busy => pc[q] \notin {"serving", "queueing", "draining"}
===============================================================================
