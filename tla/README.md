# Judgment Pack Desk, as TLA+

Desk is a local server, written in Go under `internal/`, with a browser front
end under `web/`. It keeps its owner's projects on the machine: it writes their
files, asks models, runs the `jp` runtime as a child process, signs audit trails,
decides what a Policy may execute, and moves its own installation. Nearly all of
its state is in files. Its difficulty is not in any one function: it is in
goroutines that share one small structure, and in journals that several writes,
several processes, the owner's file manager and a stop at any instant all reach.

This directory holds TLA+ modules of those parts, the TLC configurations that
check them on small instances, and proofs that TLAPS checks for every value of
the constants. Paths below are relative to `src/`. `PROJECT.json` maps each
definition to the lines it stands for.

## 1. The system: components, state, operations

The eight parts that are modelled come first; then what is left, with the state
it keeps and what makes it hard.

| Component | State it keeps | Operations | What is hard | What must hold |
|---|---|---|---|---|
| Delegated task batch, `internal/delegation/tasks.go` | a journal of task states; in memory an index, the first fatal error, a cancelled context | `Run`: two workers take tasks, journal before and after executing; the caller joins, sweeps and answers | workers interleave; a journal write fails having reached the disk or not; the context ends at any instant | intent before execution, an honest answer, nothing written after the answer, it returns |
| Relay admission, `internal/desk/relay_queue.go`, `internal/delegation/capacity.go` | a counter per connection, a line, two channels of tokens | try, join, wait a turn, room and slot, give up, release, throttle after a 429 | four resources taken in several steps and given back on every way out | no resource leaks, the turn is neither lost nor doubled, a worker never fills a connection, a waiter gets through |
| Signing key rotation, `internal/desk/rotation.go` | seed, next seed, public list, marker and archive of each desk; the trail and its sidecar belong to the runtime | rotate, inspect, finish, undo, recover at start | two programs without a common transaction; a lost answer; stops between renames; trails moved, copied and cut back | no key is lost, nothing is listed unless handed over, nothing written is undone |
| Desk home migration, `internal/desk/desk_home_*.go` | one journal, folders, settings, a locator, a lock file that moves with its folder | confirm, lease, apply, resume at start | several processes, replays from the start, a lock whose file is renamed | the locator comes last, the launcher always works, an edit made before a replay compares the file survives it, a completed move is final |
| Policy execution, `internal/desk/policy_*.go` | a ledger in the workspace, an anchor outside it, the channels of Runners | register, prepare, activate, reserve, commit a start, withdraw, supersede, review | three durable writes per decision, lost answers, restarts, a clock set back, a ledger put back from a copy | an intent is launched at most once, only when permitted and recorded |
| Witness, `internal/desk/witness.go` | the list of holders, each holder's folder and token, a scheduler with one turn | confirm, change, remove; submit the trail's head, keep the answer, read the chain; the decision record's reading | a far service answers between two locked sections; the owner changes what is on its way; the runtime saves what Desk has yet to | nothing kept is lost, nothing is claimed that cannot be shown, what is sent is what was confirmed last, and goes where |
| Input research, `internal/desk/input_research*.go` | one journal per run, the worker's lease, proofs on disk, goroutines | confirm, scan, recover, ask an AI or a source, delegate tasks, publish, pause, extend, stop | tasks race each other, the stop, their time limits and failing writes; a request whose outcome nobody knows | no source is asked twice, never more than was approved, a stop holds, a run comes to rest |
| Sessions and sign-in, `internal/desk/session.go`, `auth_*.go` | two bounded tables, the policy in memory and on disk, an epoch all work shares | exchange a launch link, authenticate, sign in by password or provider, change the policy, sign out | three locks, taken one after another; a hash and a provider in between | one link buys one session; work and sessions are those the policy in force admits |

How they meet. A browser request passes the session check, then a handler.
Handlers that ask a model pass the relay's admission; the background workers of
a delegated batch share its per-connection capacity (`RelayAdmission` has both
kinds of request). Handlers that run `jp` go through `runRuntime`, which is
bounded in time and may leave an orphan behind a crash: rotation is the one
whose orphan matters. A start of Desk recovers the home migration before it opens anything,
binds the workspace's Policy anchor while the server is made, and recovers the
rotations of its desks before it serves a request; each of these reads only its
own journal, so the modules share no state and are checked apart. The worker of
a research run delegates through the same `delegation.Run` as any batch:
`Research` has a batch of its own, with what a task does to the journal, and
`DelegationPool` what the batch itself promises for any task. The witness signs
the head of the trail whose keys `KeyRotation` rotates; the two meet only in the
trail. Policy execution is itself composed: `PolicyExecution` extends `PolicyAuthority`, whose
transaction is the only way any of its commands changes anything.

Not modelled:

| Component | State | Why not |
|---|---|---|
| Policy machine, enrollment, enablement (`policy_authority_machine.go`, `policy_execution_enable.go`) | a registry with generations and intents of its own | the same three durable steps as `PolicyAuthority`, over a second file; the order of the two at enrollment is worth a module of its own |
| Policy adoption, coverage, sources | documents, a restored snapshot, the owner of a source | mostly validation of documents; the review of an adoption and the lifecycle of a release are in `PolicyExecution` |
| Archive and removal (`archive.go`), project move, storage, custody | projects, journals and locks | the move has the shape of the home migration's; the removal in the background was left out |
| File API and web edit buffers (`files.go`, `useDocumentBuffer.ts`) | files, a buffer with the digest it came from | within one server a save compares and replaces under one lock, which holds by construction. Another program's write between the comparison and the rename is lost, which no lock of Desk's can prevent |
| Stamping (`stamping.go`) | settings, kept answers | the shape of a submission in `Witness`: ask without the lock, read the settings again before keeping |
| Audit record, trail and repair; key creation and handover | parsed records | `KeyRotation` has the trail as rotation reads it, and starts from a folder with a key |
| Input subscriptions | timers | they queue runs of the kind `Research` models |
| Jobs companion (`jobs*.go`) | a child process, a lease, a journal of requests | its authority channel is in `PolicyExecution`; the rest was left out |
| Upgrade, reviews, MCP relay, codex bridge, watch, web runs and chat | small, per request or per page | left out |
| Conversations, briefs, builds, assistant settings | whole documents | the last writer wins, by design |
| Dialects, graphs, exchange, small libraries, pages | none of their own | large pure functions over documents |
| Startup identity, relay upstream calls, local gateway | none, or a child process | pure I/O and translation |

`PROJECT.json` lists every component with its reason, and every hazard found in
the code with the line where it bites.

## 2. Modules

| Module | Models |
|---|---|
| `DelegationPool` | one call of `delegation.Run` |
| `RelayAdmission` | `Capacity` and `admitRelay` with its line, places and slots |
| `KeyRotation` | a desk's signing folder, its audit folder, Desk, the runtime and the owner |
| `KeyCustody` | abstract: what becomes of keys, whatever the trail and the stops do |
| `DeskHomeMigration` | the move of an installation by any number of Desk processes |
| `PolicyAuthority` | the ledger, the anchor and the three durable steps of a transaction |
| `PolicyExecution` | the commands over it, channels, Runners, the clock |
| `PolicyStarts` | abstract: the phases of an intent, and when it may be launched |
| `Witness` | the witness of one desk, the service at the other end, the owner and the decision record |
| `Research` | one run of input research with its worker, tasks and owner |
| `SignIn` | sessions, launch links, attempts at a provider, and the sign-in policy |
| `MC*` | instances for TLC: model values, sizes, symmetry |
| `*Proofs` | theorems and proofs of the module they extend |

A definition whose comment begins with "Mutant" is a plausible slip of the code
(a dropped guard, a lost reset, a swapped order). No specification uses it;
each property is shown to fail when its mutant replaces the definition it is of.

### DelegationPool

`pc[w]` is where worker `w` stands in the closure that `Run` starts; each action
is the code between two points where another goroutine can act: the section
under the mutex (`Pick`, `Stop`, and `Fail`'s first half), a call of a hook
(`Begin`, `Execute`, `Commit`), the reading of `batch.Err` (`Judge`), `cancel`
(`Cancel`). `Join`, `Sweep` and `Answer` are the caller's. A checkpoint that
fails may have reached the journal or not.

### RelayAdmission

One action per step of `admitRelay` that takes or gives one thing, because
another goroutine may act between any two. `line` is the list of channels,
`called` those that were closed. The mutex of `Capacity` makes `TakeRoom` and
`GiveRoom` atomic. A waiter looks again on every change and every second
besides, so a missed wake-up costs a second; the model lets a waiter look at any
time. `GiveUp` is both the reader leaving and `relayQueueWait`.

### KeyRotation and KeyCustody

A key stands for its seed, public key and key id; a trail and its sidecar are
one file; a digest is the lines it is taken of. `marker` is the rotation's
journal, with the phase and what it saw. The actions are the steps of
`makeRotation`, the five readings of `inspectRotationBound`, the writes of
`finishRotation` and `undoRotation` with the look at the paths before each
(`Look`), the runtime's `audit key rotate` that writes, answers, loses its answer
or outlives Desk, and the owner's file manager: a trail is moved aside, put
back, replaced by an earlier copy, begun again, or cut back in place. `Crash` and
`StepFails` fall between any two steps, and the write of a list's line may tear.

Left out: the confirmation token, the line an archive appends about what it
keeps, a sidecar that names two trails. The signing folder is changed by Desk
alone, and its lock lets one rotation or recovery run at a time, so there is one
`pc`. An orphan of `audit key generate` is a listed hazard without a property.

### DeskHomeMigration

The journal's entries are numbered in the order `applyHomeTransaction` takes
them: the launcher's bridge, the renames, Runner, the settings, of which the
locator is last, and the completion. A process starts, reads the journal, locks,
applies or resolves its folder and takes its lease, serves, and may be asked to
confirm: a conversion of its shared lock, the journal, the end of serving, the
apply. Locks are on files, and `left` says what was made under the old name
once the folder had moved away.

The constant `SplitConversion` says what the platform does: flock(2) converts a
shared lock by giving it up first.

`applyHomeWrite` is as many steps as another program can see of it: the
comparison of the file's revision (`Compare`, or `Refuses`); then, where there was
no file, its claim (`Claim`, which fails where there is one by now) and its bytes
(`Fill`), or else the rename over the file compared (`Replace`) and its reading back
(`Verify`). An edit falls between any two of them, and so do a stop and another
process. Neither `Fill` nor `Replace` looks at the file again, and an edit just
before them is replaced, in the model as in the code (see Divergences); an editor
that saves by renaming can leave `Fill` writing to a file nobody sees, which is its
other branch. `EditsKept` is therefore about an edit that stands: one that no process
has looked past and is about to write over. Merged are the prelude's two reads of
the launcher and the `Chmod` after a write with its reading back; the journal, which
is claimed in the same way, is made in one step unless a stop leaves it torn.

Only the first move from the legacy folder is modelled; `JPACK_DESK_HOME`, a second
journal path and folders swapped behind their identity are not, and a Desk that
serves a fresh folder confirms nothing.

### PolicyAuthority, PolicyExecution and PolicyStarts

`PolicyAuthority` is `policy_authority_anchor.go`: a transaction is admitted only
where the ledger in the folder is the one the anchor names and no intent stands
beside it (`Current`); it writes the anchor's intent, the ledger, and the new
anchor. A failure between two of them, or one whose effect is not known, makes
the process refuse everything (`poisoned`), and an intent left behind makes
every later process refuse. The owner may keep a copy of the ledger and put it
back; that the anchor is rolled back with it is out of the code's own scope
(`docs/design/policy-authority-anchor.md`). `poisoned` is the process's, because
the anchor is captured once, when the server is made.

`PolicyExecution` builds the next ledger of each command and hands it to
`Commit`, with the answer that reaches the Runner if its channel still stands
when the transaction settles. A Runner launches on a fresh committed start only
(`docs/design/policy-manual-admission-core.md`). The clock is read inside each
transaction and may be anything; `Observes` is the code's refusal of a time
before the retained one. What the registration retained may be unreadable at
any moment (`kept`).

Abstractions: a digest is the content; an operation's random name is the
generation it is first recorded in; a request that repeats a binding wrongly is
a denial like any other, which retains the time and nothing else; one job, one
dependency, one adopted release and one that may supersede it. Several channels
may be open, as the core allows; the admission of `jobs_admission.go` opens one
at a time, which is fewer behaviours. The validation before a write is left out
on purpose: `HeadIsValid` says it is never met. When the epoch limit is reached,
execution is over for good, in the code as in the model.

### Witness

The actions are the locked sections of the code: the turn (`TakesTurn`), what an
attempt reads under `witnessMu` (`AttemptReads`), the token read last and the
request (`AttemptSends`), the statement kept first whatever it is for
(`KeepsAnswer`), those before it fetched (`FetchesMissing`), the runtime's
reading (`ReadsAnswer`), which saves its continuation before Desk writes the
cursor (`MovesCursor`). The decision record does the same beside it
(`PanelOpens` to `PanelReads`), and the owner's change takes a step per file
(`SetsToken` to `SettingsChanged`), each of which may fail or be the last before a
crash. `witnessMu` and `witnessReadMu` are not variables: who holds them is read
off the parties' `pc`. The witness is external, and does what the code expects of
one and what it guards against: it serves, refuses, loses an answer, answers
with another statement or one of a second chain, retires the trail, and signs for
somebody else.

`agreed` is not in the code: the origin the owner confirmed with the last token
put into custody, and that token's number, with which `SentAsConfirmed` compares
what is on its way. `KeptStatementsStay` is about statements on disk: the code does
not promise to keep every one it received, and the model drops those whose write
fails (`KeepsAnswer`, `KeepsRefusal`) or that a crash finds in memory.

Time is three flags: the interval has passed (`due`), `notBefore` is ahead
(`held`), and the witness's own Retry-After is (`asked`). They are two because
`settingsChanged` clears `notBefore` (see Divergences).

### Research

`run` is `record.json`, which every Update of the code reads and replaces under
one lock: `Commit` is such an Update, which succeeds, or fails with or without
having reached the disk. `th[a]` is where each goroutine of the worker stands,
`Main` the coordinator; an attempt goes through `Begins` (admission, budget and
reservation in one Update), `Dispatches`, `Answers`, `Saves` and, for a search,
`Decides` and its retry. `sent` and `kept` are not in the code: the attempts that
reached a provider, and the bytes on disk, which the properties compare with what
the journal says of them.

An answer's content is left out, and so is why the AI chooses an action: it may
choose any. The phases of a record, reprocessing, continuations, portable runs
and the approvals of a chat are left out, as are readings of the journal that
fail.

### SignIn

An action is one critical section of `signIn.mu`, `sessionStore.mu` or
`launchStore.mu`. A request holds in `req[r]` what it noted in an earlier one: the
session it presented, the links it carries, the epoch its context belongs to, the
generation of the policy. A change of policy is the long one: it saves the
record, closes the sessions, cancels the epoch, each a step. Sessions have no
clock; one that may expire does so at any instant. The epoch's cancellation of
work runs in a goroutine of the context package (`context.AfterFunc`) and is
immediate in the model. `rev` in a session is not in the code: it says under which
policy it was minted, which is what a session may not outlive.

Left out: rate limits, the four slots of discovery and the ring of finished
links, which choose the words of a refusal; the sliding of idle time; the
protocol with the provider; the policy sources whose commits share
`policySourceMu`.

## 3. Runs

| Run | Question | States | Why the bounds are enough |
|---|---|---|---|
| `delegation_batch` | do the journal and the answer of a batch agree, and does `Run` return? | 54,000 | three tasks and two workers: one task is still queued while both workers are busy, so a failure meets a sibling in flight and a task never started; the code never has more than two workers |
| `relay_admission` | does every way through give back exactly what it took, and is every request that does not give up carried or refused? | 123,000 | one slot and two places for three requests: one carried, two in line, one refused; two background calls share a connection with two of them; no symmetry, which liveness forbids |
| `rotation_moves` | does a rotation tell the truth and settle, whatever is moved? | 259,000 | three keys are two rotations; two trail files are the one begun beside and what replaces it; two records are one beyond the first, so that one is cut back or missing; two stops are a stop in a recovery |
| `rotation_hostile` | and is every key kept where the record itself is wrong? | 456,000 | two moves put a copy back after moving the trail aside; besides, a sidecar cut back in place, an orphan, an earlier Desk's empty marker, two stops |
| `rotation_stranded` | finding 1 | | one stop is enough |
| `home_moves` | are order, launcher, edits and completion kept by any number of appliers, and is a confirmed move completed? | 151,000 | two processes are an applier and whoever confirms, starts or applies beside it; two folders and three settings have one entry of each kind; an edit at any step, between comparison and rename and within a claim too; two stops, either of them within a write |
| `home_lost_lock` | finding 2 | | no stop is needed |
| `policy_execution` | is an intent launched once, permitted and recorded, and a release over for good? | 1.24 million | one intent, two channels (the second session meets what the first left), a clock of two seconds with a release effective at the first of them, and one generation more than the shortest run from registration to start |
| `witness` | can Desk show what it claims, is anything it kept lost, is what is sent what was confirmed, does the cursor reach the head? | 216,000 | two statements are one before the head and the head, so that one can be missing, doubled or of a second chain; two settings are a change, two origins a change of the URL; one trouble is a crash, a failed write or a stray statement anywhere. Readings in steps need more statements, and two chains at one index more troubles; the proofs cover both |
| `research` | is a source asked once, by whichever task, and within what the disk may hold? | 938,000 | two tasks race for one source, a search (with a retry) and a page differ; two requests of each kind and one increase reach every limit; faults are the next run's |
| `research_settles` | does every run come to rest, published, and whatever fails on the way, was no more sent than approved, does a stop hold, and is nothing left for the next execution? | 161,000 | one task, one search with its retry and the least limits, with fairness; one fault falls anywhere, and one increase is approved |
| `sign_in` | does a link buy one session, and do work, sessions and changes of policy stay with the policy in force? | 540,000 | two requests are a change of policy beside whatever it races; two links share one place, so one displaces the other; one session's place is fought over; two changes are the first sign-in and the one that replaces it |

The states column counts distinct states. `CHECK_DEADLOCK FALSE` stands where
the system may stop for good: the bounds on moves, stops, faults, generations,
statements and changes are used up, or a Desk is down, or the Policy storage
refuses everything, as it should.

What the runs show, property by property, is in the comment before each
property. The ones that say most:

- `NilMeansCarried`: the answer of a batch and its journal are two accounts of
  the same run, and they agree in every order of cancel, failure and late success.
- `NothingLeaks` and `TurnIsTheHeads`: five counts equal the number of requests
  that hold what each counts; the turn is the head's, its channel is closed once,
  and nobody but the head competes for a slot.
- `KeysKept`, `ListIsWritten`, `WrittenNotUndone`, `CustodyKept`: whatever the
  owner and the stops do to the trail, keys stay and the list tells only what a
  runtime wrote.
- `LocatorIsLast`, also with two processes applying one journal at once: that the
  lease fails to exclude them (finding 2) costs nothing of the move's order.
- `OneLaunch` and `StartsOnce`: the ledger may be put back from a copy in which
  the start is not recorded, and no second launch follows.
- `EvidenceKept`: what the cursor says is countersigned is on disk, with every
  statement before it, through any crash between answer, reading and cursor.
- `SentAsConfirmed`: a change of the URL writes a token and then the settings, and
  may stop between them; neither the new token to the old place nor one replaced
  anywhere goes out.
- `AskedOnce` and `WithinApproval`: what reached the providers, compared with what
  a journal says that may lack the last write.
- `OnlyTheCurrent` and `WorkIsCurrent`: two accounts a change of policy must keep
  true while somebody proves himself beside it.

Two of the liveness properties name exceptions. `MoveFinishes`: a setting that is
edited, or torn by a stop within its write, stops the move for good (`Marred`; see
Divergences), and a Desk that serves beside it keeps the lock it needs
(`Hindered`). `RotationSettles`: a list torn by a stop, a desk that is stranded
(finding 1), or a trail the owner moved.

### Fairness

- `DelegationPool`: each goroutine goes on, and hooks return, since a task has a
  limit of five minutes and a journal write is a local file's.
- `RelayAdmission`: a request that can proceed does, a carried call ends by the
  relay's deadlines, and the thirty seconds of a slow period pass. Giving up and
  the end of a background wait are not fair: nothing obliges them.
- `KeyRotation`: Desk makes the steps it began, a runtime it asked ends within
  `runRuntime`'s bound, and the owner starts Desk again. Nothing is assumed of
  confirmations, records, moves or stops.
- `DeskHomeMigration`: each process makes the steps it began, and the owner starts
  a Desk when none runs. Confirming is not fair, nor is quitting.
- `Witness`: the loop goes on, readings and changes end, time passes. Strong
  fairness of an answer that is served, of pages that come whole and of the two
  steps that wait for `witnessReadMu`: a witness that answers again and again, and a Go
  mutex, which starves nobody. `CursorReachesHead` asks only where, from some time
  on, the witness is set, keyed and signs for this desk alone (`Undisturbed`).
- `Research`: the timer scans every second, the coordinator and every goroutine go
  on, providers answer or time out, a task's five minutes pass, and a stop is read
  four times a second. Publication is strongly fair: it is retried by every scan,
  and its failure is of the disk. Nothing is assumed of the owner.

The Policy and sign-in modules assume none: every property of theirs is safety.
That an intent starts, or a browser gets a session, is not a promise of the code.

## 4. Findings

1. `rotation_stranded`. `README.md:922` says the next start finishes a rotation
   that the runtime wrote. The second of the two renames is finished only where
   the journal says `finish`; a rotation whose answer was lost, and a recovery
   that finishes from an earlier phase, do not journal it. A stop between the two
   renames then leaves a marker no start acts on, and no current key. Both keys
   are kept (`KeysKept` holds), so the repair is by hand.
2. `home_lost_lock`. The move "runs only after all Desk processes have released
   their installation leases". A refused conversion of a shared flock loses the
   shared lock; the answer to asking for it again is dropped; another Desk's
   conversion is then granted while the first goes on serving. The same property
   is violated without the split conversion, by a Desk that read no journal and
   then leased the lock file made under the old name after the folder had moved.

### Divergences

Met while modelling, and part of the models; each shapes a property rather than
violating one of its own.

- *A torn write of the move.* `docs/design/desk-home.md:89` says a restart resumes
  an interrupted transaction. `claimPrivateData` (`private_data.go:257`) creates a
  file under its name and then writes it; a stop in between leaves bytes that are
  neither absent nor the new ones, and every later start refuses them. It is
  `Marred` in `MoveFinishes`.
- *An edit under a write.* `docs/design/desk-home.md:88-91` has the journal record
  "compare-and-swap metadata writes" and says "Recovery refuses changed metadata".
  `applyHomeWrite` compares (`desk_home_transaction.go:469-477`) and
  `writePrivateData` then renames its own file over whatever is there
  (`private_data.go:150-170`): what the owner saves between the two is replaced,
  nothing is refused, and the reading back finds the move's bytes. A file made by
  `claimPrivateData` is written the same way after its name is there
  (`private_data.go:258-263`). With `Stands` weakened to `setting[w] = "edited"`, TLC
  finds such an edit lost in `home_moves`. A second process that applies beside the first can
  do it after the move is complete; that takes three processes. `EditsKept` and
  `CompleteIsFinal` say what is left: an edit that no process had looked past stays,
  and a completed move's own bytes do.
- *A launcher without its mode.* `writePrivateData` gives every file mode 0600
  (`private_data.go:159`), and `applyHomeWrite` makes the launcher executable
  after it returns (`desk_home_transaction.go:484-486`). A stop in between leaves a
  launcher that no shell runs until a Desk started some other way replays the
  move. `LauncherStarts` is about what the launcher says, not its mode.
- *A witness asked before its time.* `settingsChanged` (`witness.go:1367`) clears
  `notBefore`, after `witnessMu` is released: a witness that asked to be left alone
  until a time (`README.md:1213-1217`, `witness.go:1411`) is asked again when the owner
  changes anything of it. Hence two flags, `held` and `asked`.
- *A task past its sources.* `docs/adr/0012-shared-delegated-tasks.md:124-126`
  keeps fatal what is of storage, policy or verification, and retains successful
  siblings of an ordinary failure. A task past its six source attempts returns
  `delegation.Fatal` (`input_research_delegation.go:493`), which ends the batch.
- *A task that spins.* In `taskResearchSource`
  (`input_research_delegation.go:440-488`) a task that lost a race for a source
  looks again as long as another's attempt of it stands as started, waiting or
  completed; where it is none it may use, it looks again at once, and nothing ends
  it but the five minutes of a task. `Settles` holds only by `TaskTimeUp`.
- *A late task's reservation.* Where a task's time is up and the write that would
  settle its source fails, the failure is not fatal to the batch, and the
  reservation stays until a recovery: `LeftOfALateTask` in `ResumesClean`.
  `docs/design/input-preparations.md` has storage failures terminal.
- *A late setup session.* `createSession` asks whether sign-in is required outside
  `signIn.mu`, so an exchange begun before a policy is set mints a plain session
  after the change closed them all (`session.go:66` "policy changes end every
  session"). No policy admits it and it has no expiry: it holds a place until the
  next start. `OnlyTheCurrent` is about the sessions the policy admits.
- *An attempt without room.* Completing a sign-in uses its attempt up also where
  the answer is that no session fits.
- *A check twice.* Only one password is hashed at a time, and a change of policy
  of password hashes too, so that under a login's hash only a provider's policy can
  come, which admits no password session. Reading the policy again after the hash
  (`handlePasswordLogin`) is a second line of defence: without it nothing in the
  model breaks.

## 5. Proofs

TLAPS checks every theorem below for any number of tasks, keys, files,
processes, folders, settings, intents, sessions, generations, holders,
statements, requests and links. The
assumptions are the named `ASSUME`s beside the constants, which TLC evaluates
with each run: sizes are naturals, `None` is not a value, the two workers'
bound, that the requests at the relay are finitely many (a count of them is a
number), that the launcher is not the locator, that the value that stands for
"none" in a research run is no actor, no request and no reason why an execution
ended, and that no answer at all is not the answer "rotated".

| Module | Theorems | Inductive invariant, and why it is needed |
|---|---|---|
| `DelegationPoolProofs` | `TypeCorrect`, `IntentIsSaved`, `NilIsHonest`, `InterruptionHasAReason`, `ReturnSettles`, `WritesEndWithRun`, `TerminalStatesStay` | who holds which task (`Holding`), that every task handed out is held or terminal (`Accounted`), why a batch stopped (`Reasons`), and what the caller may assume once it has joined (`Calling`). None of the properties is inductive: the answer depends on what each worker still carries. |
| `RelayAdmissionProofs` | `Inductive`, `LimitsHold`, `CountsHold`, `TurnsInOrder` | nobody stands in the line twice (`StandsOnce`), the line holds exactly those whose step says so (`LineHolds`), whoever was called had joined and whoever goes on from its turn was called (`CalledInLine`), and of the line the head alone was (`HeadCalled`). A count that equals the number of its holders is kept because each step moves one request between two sets of holders, which the cardinalities follow. |
| `KeyRotationProofs` | `TypeCorrect`, `NoKeyIsLost`, `NoMarkerNothingLeft`, `NoSeedIsAccountedFor`, `ListOnlyWritten`, `RotationKeepsCustody` (refinement), `NothingWrittenIsUndone`, `AnsweredRotatedIsSigned`, `NothingToFinishAgrees`, `StartsCanDecide` | `Shape`: what each step of the program counter and each phase of the marker says of seed, next seed and list. For the list and the refinement besides, that each line of a sidecar, each journal's view of one and the runtime's answer come from a handover some runtime wrote. The last four: below. |
| `DeskHomeMigrationProofs` | `TypeCorrect`, `LocatorComesLast`, `LauncherAlwaysStarts`, `EditsStay`, `CompletionIsFinal` | every entry behind an applier's step lasts (`StepsBehind`), and no process undoes one (`Keeps`), which is what makes two appliers at once harmless. What a process is about to write to a file rests on a look at it made steps before (`AtWrites`, `Written`): that the launcher's bridge is not put over the final launcher by a process that compared early holds because the bridge comes before any folder moves (`BridgeFirst`), and until the configuration folder has moved the lease lets one process apply (`Leased`). After that nothing rests on the lease. |
| `PolicyExecutionProofs` | `TypeCorrect`, `HeadAlwaysValid`, `LaunchedOnce`, `StartsArePermitted`, `OverForGood`, `StartsOnceImplemented` (refinement) | a transaction under way carries `Sound`: what its ledger may be, compared with the current one. Each command is shown to build a sound ledger (`...IsReady`), a transaction keeps that through its steps whichever is the last, and only its last durable step makes the ledger current (`HeadStep`). |
| `WitnessProofs` | `Invariance`, `TypeCorrect`, `EvidenceIsKept`, `OnlyUnderTheCurrent`, `SentWasConfirmed`, `ListedCanBeRemoved`, `NothingKeptIsLost` | a folder only grows (`Grown`), whichever step touches it, a reading that moves statements aside included; a change keeps apart from submissions and readings (`Apart`); and what a party read under the lock still holds where it is used (`Submitted`, `Answered`, `Opened`). `SentAsConfirmed` needs that the token of the witness listed, or of the one about to be, is the last confirmed (`Latest`). `EvidenceKept` is not inductive without them: the cursor moves to what the runtime's reading confirmed two steps before. |
| `ResearchProofs` | `Inductive`, `TypeCorrect`, `NeverAskedTwice`, `ApprovedOnly`, `RoomIsEnough`, `NothingLeftOver`, `StopIsObeyed` | what the journal says of itself (`Sound`: a source's attempts are a chain of saved retries, admissions are within the limits, and what is retained and reserved fits the room), what it says of the attempt each goroutine holds in memory (`AllFit`), which steps belong to which state of the run (`InOrder`), that what was sent is saved as started first (`SentAreSaved`), what is on disk and not yet counted (`KeptCounted`), and what an execution that failed leaves to the recovery (`Clean`). |
| `SignInProofs` | `LinksBuyOne`, `WorkStaysCurrent`, `SessionsAreCurrent`, `AdminsChangeIt`, `SignInStays` | what each noted value is still worth: one change at a time (`OneChange`), no count ahead of its counter (`Behind`), an attempt of this generation is of this policy (`Fitting`), work of this epoch was admitted under it (`AdmittedNow`), its session is bound or gone (`Bound`), who changes the policy was admitted by it (`Admins`), and live sessions are of the policy in force unless a change is closing them (`Minted`). |

Four theorems of the rotation carry a hypothesis, each a constant that says what
the surroundings do. `NothingWrittenIsUndone` and `AnsweredRotatedIsSigned` need
that no sidecar is cut back in place (`~RestoreInPlace`, issue 321): a file that
loses lines under Desk's lock says less than it did when Desk read it. They hold
beside copies, moves, any number of stops and runtimes that outlive Desk. A
withdrawal rests either on the runtime never having been asked (`Fresh`: no line
anywhere and no request names the next key) or on the very file the rotation was
begun beside, held, and silent about that key (`Unwound`); the files only grow, so
what a handover named stays named (`HandedStays`). An answer of "rotated" rests on
the trail held since the decision (`HeldSigned`), which nobody else may write.
`NothingToFinishAgrees` needs that no runtime outlives its Desk (`~OrphanRuntime`):
an orphan may write after the rotation was withdrawn, and the next start sees a
rotation nothing on disk answers. Its invariant follows a trail never moved through
three places a rotation may have come to (`NotWritten`, `NotListed`, `NotPlaced`),
at each of which the list, with the next key once it is written, matches the lines
one by one (`Matches`). The lemmas before it count a sidecar's rotations as it grows
(`RotationsAfterRecord`, `RotationsAfterRotation`).

`StartsCanDecide`, under the same hypothesis, is the safety half of
`RotationSettles` and what is right in the sentence finding 1 refutes: on a trail
nobody moved, every start finds the rotation written, not written, between the two
renames or settled, and never `unknown`, except in the seed gap whose journal does not
say `finish` (`Stranded`), with a torn list, or with an earlier Desk's empty marker;
and the answer a runtime gave never conflicts with the trail (`HoldAnswer`). The
three places above are not enough for it: each also has to say that the list still
takes the next key (`ToList`: room, a later record, a key not listed) or took it
after the seed (`ToPlace`), that the journal names the trail, the next key and a
sidecar that only grew since (`Journalled`), and that the last rotation came before
the record that lets the next one begin (`Lined`, from `signedSinceRotation`).
No run repeats it.

The two refinements show that each step of the detailed specification is a step
of the abstract one or a stutter: `KeyRotation` of `KeyCustody`, with the folder's
files; `PolicyExecution` of `PolicyStarts`, with the phases of the ledger the
anchor names.

In `ResearchProofs` the properties are about what happened outside the journal:
what reached a provider, what lies on disk, what a next execution finds. None is
inductive, because between the write that admits a request and the write that
settles it only the goroutine knows where it is, and that goroutine may be told to
stop, lose its time or die. `AllFit` ties its step to the state of its attempt, and
every action is shown to keep the tie. `KeptCounted` compares the disk with the
journal by what is owed: a reservation stands for a stored answer from the moment
it is stored until the journal counts it, so a write that fails in between costs
room and never exceeds it. The proof follows one attempt at a time (`FlyStep`,
`KeptStep`): the others' attempts are not touched, since no two goroutines hold the
same one (`Alone`).

The type invariants of the proved modules are theorems and no run repeats them.
`SignInStays`, `ListedCanBeRemoved`, `InterruptionHasAReason`, `ReturnSettles`,
`TerminalStatesStay`, `NoSeedIsAccountedFor` and `StartsCanDecide` are proved and no run checks them
either.

Model-checked only: every liveness property (`Returns`, `EveryRequestEnds`,
`RotationSettles`, `MoveFinishes`, `CursorReachesHead`, `Settles`), since fairness
and ENABLED are out of the prover's reach. Every invariant and every action
property that a passing run checks is a theorem. The prover also has no induction
over data and no recursive operators, so no module uses either: where the code
walks a list, the model counts or quantifies over places in it
(`RotationsOf` and `Nth` of `KeyRotation`).

## 6. What the models leave out

The components of the second table of section 1, and within the modelled ones
what their sections name. The reasons are of three kinds. Much of the code is
validation and translation of documents, where a model would be the code again.
Some parts repeat a protocol that is modelled: the machine registry that of the
Policy anchor, the project move that of the home, stamping that of the witness.
And the browser's side is per page: its pages ask the server and show what it
answers, and what they may lose is an edit in one tab. The parts that would add
something new are the enrollment's two registries, the jobs companion's lease and
journal, and the removal of a project in the background.
