-------------------------------- MODULE Research --------------------------------
(***************************************************************************)
(* One run of input research (src/internal/desk/input_research*.go): its   *)
(* journal on disk, the worker that executes it under the run's lease, the *)
(* tasks it delegates, and the owner who confirms, stops and extends it.   *)
(*                                                                         *)
(* The journal is read and replaced under one lock, so that an Update of   *)
(* the code is one step here: `Commit`. `th` is what each of the worker's  *)
(* goroutines is doing; `Main` is the coordinator, which waits while its   *)
(* tasks run. `sent` and `kept` are not the code's: the attempts that      *)
(* reached a provider, and the bytes of answers on disk.                   *)
(***************************************************************************)
EXTENDS Naturals, Sequences, FiniteSets

CONSTANTS
    Task,         \* the tasks the coordinator may delegate
    Main,
    Request,      \* the source requests the AI may choose, by digest
    Page,         \* those that read a page; the others search
    None,
    Reviewed,     \* the limits of the reviewed recipe, for each kind
    Saving,       \* the AI requests reserved for saving; 2 in the code
    TaskLimit,    \* a task's AI requests, and its source requests; 6 in the code
    Concurrency,  \* the tasks at work at once
    MaxRetries,   \* the recipe's retries of a search
    MaxGrants,    \* bound: increases approved; 16 in the code
    Room,         \* the bytes a run may retain
    Allowance,    \* the bytes reserved for one source
    MaxFaults     \* bound: crashes and journal writes that fail

Kinds == {"model", "search", "page"}
Actor == Task \cup {Main}

ASSUME ResearchAssumption ==
    /\ Main \notin Task /\ Page \subseteq Request
    /\ None \notin Actor \cup Request \cup {"interrupted", "stopped", "unsaved", "unpublished"}
    /\ IsFiniteSet(Task)
    /\ Reviewed \in [Kinds -> Nat]
    /\ {Saving, MaxRetries, MaxGrants, MaxFaults, Room} \subseteq Nat
    /\ {TaskLimit, Concurrency, Allowance} \subseteq Nat \ {0}

VARIABLES
    run,     \* record.json                                            [disk]
    lease,   \* worker.lock is held
    th,      \* the worker's goroutines
    dead,    \* the execution's context is cancelled
    fatal,   \* the batch of tasks is cancelled
    late,    \* the tasks whose time is up
    sent,    \* the attempts dispatched to a provider
    kept,    \* the bytes of the answers received, on disk
    faults
vars == <<run, lease, th, dead, fatal, late, sent, kept, faults>>

Settled == {"completed", "completed-with-gaps", "partial", "interrupted", "blocked", "stopped"}
States == {"review", "queued", "running", "paused"} \cup Settled

(* ---- the journal ------------------------------------------------------- *)
New(kind, q, by) ==
    [kind |-> kind, req |-> q, by |-> by, st |-> "started", number |-> 1, of |-> 0,
     next |-> 0, held |-> kind # "model", code |-> "none", cont |-> FALSE]

NewRun ==
    [state |-> "review", stop |-> FALSE, step |-> 0, final |-> FALSE, attempts |-> <<>>,
     pending |-> {}, retrieved |-> 0, limits |-> Reviewed, asks |-> None, grants |-> 0,
     declined |-> FALSE, met |-> FALSE, unpublished |-> FALSE, resume |-> None,
     tasks |-> [t \in Task |-> "none"]]
Idle == [pc |-> "idle", kind |-> None, req |-> None, at |-> 0, after |-> 0,
         res |-> None, size |-> 0]

Init ==
    /\ run = NewRun /\ lease = FALSE /\ th = [a \in Actor |-> Idle]
    /\ dead = FALSE /\ fatal = FALSE /\ late = {} /\ sent = {} /\ kept = 0 /\ faults = 0

Of(r, P(_)) == {i \in DOMAIN r.attempts : P(r.attempts[i])}
KindOf(q) == IF q \in Page THEN "page" ELSE "search"
\* Requests that count against the limits, and those that were made.
Admitted(r, kind) == Cardinality(Of(r, LAMBDA a : a.kind = kind /\ a.st # "not-started"))
Used(r, kind) ==
    Cardinality(Of(r, LAMBDA a : a.kind = kind /\ a.st \notin {"waiting", "not-started"}))
HasBudget(r, kind) == Admitted(r, kind) < r.limits[kind]
Reserved(r) == Allowance * Cardinality(Of(r, LAMBDA a : a.held))
\* Mutant of HasRoom: what others reserved is not counted.
HasRoomForOne(r) == r.retrieved + Allowance <= Room
HasRoom(r) == r.retrieved + Reserved(r) + Allowance <= Room
Retryable(a) == a.kind = "search" /\ a.code \in {"temporary", "limited"} /\ MaxRetries > 0
Continuable(a) == a.st = "uncertain" /\ a.kind # "model" /\ a.code \in {"temporary", "gap"}
Prior(r, q) == Of(r, LAMBDA a : a.req = q)
Latest(S) == CHOOSE i \in S : \A j \in S : j <= i

\* One Update of the journal: it commits, or it fails, with or without
\* having committed. The goroutines go on as `ok` or as `failed` then.
Commit(next, ok, failed) ==
    \/ run' = next /\ th' = ok /\ UNCHANGED faults
    \/ /\ faults < MaxFaults /\ faults' = faults + 1
       /\ run' \in {run, next} /\ th' = failed
\* A step without one.
Moves(next) == th' = next /\ UNCHANGED <<run, faults>>
As(a, job) == [th EXCEPT ![a] = job]
At(a, pc) == [th EXCEPT ![a].pc = pc]
With(a, pc, res) == [th EXCEPT ![a].pc = pc, ![a].res = res]
\* The actor is done with its attempt.
Ends(a, pc, res) == As(a, [Idle EXCEPT !.pc = pc, !.res = res])
Goes(a, pc) == Ends(a, pc, None)
Frame == UNCHANGED <<lease, dead, fatal, late, sent, kept>>

(* ---- one attempt of an actor ------------------------------------------- *)
Alive(a) == ~dead /\ (a \in Task => ~fatal /\ a \notin late)
Job(kind, q) == [Idle EXCEPT !.pc = "begin", !.kind = kind, !.req = q]

\* Where an actor goes on when its attempt returned: ok, cached, a gap the
\* run may continue past, a limit, or an error.
Returned(a, outcome) ==
    IF th[a].kind = "model"
    THEN CASE outcome = "ok" -> Goes(a, IF a = Main THEN "stepping" ELSE "act")
           [] outcome # "ok" /\ a = Main -> Ends(a, "finish", "interrupted")
           [] OTHER -> Ends(a, "end", None)
    ELSE CASE outcome = "ok" -> Goes(a, "retaining")
           [] outcome # "ok" /\ a \in Task -> With(a, "failing", outcome)
           [] outcome = "gap" /\ a = Main -> At(a, "continuing")
           [] outcome = "limit" /\ a = Main -> Goes(a, "finalizing")
           [] OTHER -> Ends(a, "finish", "interrupted")

OfTask(t) == {i \in DOMAIN run.attempts :
                 run.attempts[i].by = t /\ run.attempts[i].st # "not-started"}
OfTaskKind(t, model) == Cardinality({i \in OfTask(t) : (run.attempts[i].kind = "model") = model})
\* Why the journal admits no request of a task, if it does not.
TaskVerdict(t, kind) ==
    CASE run.tasks[t] # "running" \/ run.stop -> "stopped"
      [] kind = "model" /\ OfTaskKind(t, TRUE) >= TaskLimit -> "allowance"
      [] kind = "model" /\ OfTaskKind(t, TRUE) < TaskLimit
            /\ Admitted(run, "model") + Saving >= run.limits["model"] -> "limit"
      [] kind # "model" /\ (run.final \/ OfTaskKind(t, FALSE) >= TaskLimit) -> "allowance"
      [] OTHER -> "go"

\* Mutant of PriorVerdict: a request without an answer may be made again.
OnlyAnswersAreKnown(j) ==
    IF \E i \in Prior(run, j.req) : j.kind # "model" /\ run.attempts[i].st = "completed"
    THEN "ok" ELSE "go"
\* What is known of the same request: its answer, a gap, or nothing certain.
PriorVerdict(j) ==
    LET last == run.attempts[Latest(Prior(run, j.req))]
    IN  CASE j.kind = "model" \/ Prior(run, j.req) = {} -> "go"
          [] j.kind # "model" /\ Prior(run, j.req) # {} ->
               IF last.st = "completed" THEN "ok"
               ELSE IF last.cont /\ Continuable(last) THEN "gap" ELSE "duplicate"
RetryVerdict(j) ==
    LET last == run.attempts[j.after]
    IN  IF /\ j.after \in run.pending /\ last.st = "uncertain" /\ last.next = 0
           /\ Retryable(last) /\ last.number <= MaxRetries
        THEN "go" ELSE "error"
\* Mutant of Verdict: the journal is not asked whether the owner stopped.
VerdictAfterAStop(a) ==
    LET j == th[a]
        known == IF j.after = 0 THEN PriorVerdict(j) ELSE RetryVerdict(j)
    IN  IF ~Alive(a) \/ run.state # "running" THEN "stopped"
        ELSE IF a \in Task /\ TaskVerdict(a, j.kind) # "go" THEN TaskVerdict(a, j.kind)
        ELSE IF known # "go" THEN known
        ELSE IF ~HasBudget(run, j.kind) \/ (j.kind # "model" /\ ~HasRoom(run)) THEN "limit"
        ELSE "go"
Verdict(a) ==
    LET j == th[a]
        known == IF j.after = 0 THEN PriorVerdict(j) ELSE RetryVerdict(j)
    IN  IF ~Alive(a) THEN "stopped"
        ELSE IF a \in Task /\ TaskVerdict(a, j.kind) # "go" THEN TaskVerdict(a, j.kind)
        ELSE IF run.stop \/ run.state # "running" THEN "stopped"
        ELSE IF known # "go" THEN known
        ELSE IF ~HasBudget(run, j.kind) \/ (j.kind # "model" /\ ~HasRoom(run)) THEN "limit"
        ELSE "go"

\* The attempt is saved before anything is sent, and with it the bytes it
\* may bring; a retry takes its place in the run's schedule.
Begun(a) ==
    LET j == th[a]
        new == Len(run.attempts) + 1
        again == [New(j.kind, j.req, a) EXCEPT !.number = run.attempts[j.after].number + 1,
                                              !.of = j.after]
    IN  IF j.after = 0
        THEN [run EXCEPT !.attempts = Append(@, New(j.kind, j.req, a)),
                         !.step = IF a \in Task /\ j.kind = "model" THEN @ + 1 ELSE @]
        ELSE [run EXCEPT !.attempts = Append([@ EXCEPT ![j.after].next = new], again),
                         !.pending = @ \ {j.after}]
Begins(a) ==
    /\ th[a].pc = "begin" /\ Frame
    /\ LET v == Verdict(a)
           refused(why) == IF th[a].after = 0 THEN Returned(a, why) ELSE With(a, "dropping", why)
       IN  IF v = "go"
           THEN Commit(Begun(a), [th EXCEPT ![a].pc = "call", ![a].at = Len(run.attempts) + 1],
                       refused("error"))
           ELSE Moves(refused(v))

\* A retry that is no longer to be made leaves the schedule.
Drops(a) ==
    /\ th[a].pc = "dropping" /\ Frame
    /\ LET after == IF th[a].after # 0 THEN th[a].after ELSE th[a].at
       IN  Commit([run EXCEPT !.pending = @ \ {after}], Returned(a, th[a].res), Returned(a, "error"))

Sets(a, st) == [run EXCEPT !.attempts[th[a].at].st = st]
MayUse(a) == Alive(a) /\ ~run.stop /\ (a = Main => run.state = "running")
\* The AI's connection may be busy: the attempt is saved as waiting, and as
\* started again before the connection is used.
WaitsForAI(a) ==
    /\ th[a].pc = "call" /\ th[a].kind = "model" /\ Frame
    /\ IF MayUse(a) THEN Commit(Sets(a, "waiting"), At(a, "queued"), With(a, "answered", "failed"))
       ELSE Moves(With(a, "answered", "failed"))
TakesAI(a) ==
    /\ th[a].pc = "queued" /\ Frame
    /\ \/ MayUse(a) /\ Commit(Sets(a, "started"), At(a, "send"), With(a, "answered", "failed"))
       \/ Moves(With(a, "answered", "failed"))
Dispatches(a) ==
    /\ th[a].pc = "send" \/ (th[a].pc = "call" /\ th[a].kind # "model")
    /\ \/ sent' = sent \cup {th[a].at} /\ Moves(At(a, "out"))
       \/ UNCHANGED sent /\ Moves(With(a, "answered", "failed"))
    /\ UNCHANGED <<lease, dead, fatal, late, kept>>

Outcomes(kind) ==
    CASE kind = "model" -> {"ok", "failed"}
      [] kind = "page" -> {"ok", "gap", "refused", "failed"}
      [] OTHER -> {"ok", "gap", "refused", "temporary", "limited", "failed"}
Sizes(kind, res) ==
    CASE kind = "model" -> IF res = "ok" THEN {1} ELSE {0}
      [] kind # "model" /\ res = "failed" -> {0, Allowance}
      [] OTHER -> IF res \in {"ok", "gap", "refused"} THEN {Allowance} ELSE {0}
\* A source's proof is on disk before the journal knows of it.
Answers(a) ==
    /\ th[a].pc = "out" /\ UNCHANGED <<run, lease, dead, fatal, late, sent, faults>>
    /\ \E res \in Outcomes(th[a].kind) : \E size \in Sizes(th[a].kind, res) :
          /\ th' = As(a, [th[a] EXCEPT !.pc = "answered", !.res = res, !.size = size])
          /\ kept' = IF th[a].kind = "model" THEN kept ELSE kept + size

\* Mutant of Answered: the reservation is not given back.
AnsweredAndHeld(a) ==
    LET j == th[a]
        st == CASE j.res = "ok" -> "completed" [] j.res = "refused" -> "refused"
                [] OTHER -> "uncertain"
    IN  [run EXCEPT !.retrieved = @ + j.size, !.attempts[j.at].st = st,
                    !.attempts[j.at].code = IF j.res \in {"gap", "temporary", "limited"} THEN j.res ELSE @]
Answered(a) ==
    LET j == th[a]
        old == run.attempts[j.at]
        st == CASE j.res = "ok" -> "completed"
                [] j.res = "refused" -> "refused"
                [] OTHER -> IF old.st = "waiting" THEN "not-started" ELSE "uncertain"
    IN  [run EXCEPT !.retrieved = @ + j.size,
                    !.attempts[j.at] = [old EXCEPT !.held = FALSE, !.st = st,
                        !.code = IF j.res \in {"gap", "temporary", "limited"} THEN j.res ELSE old.code]]
\* The response is saved where it fits beside what the others reserved.
Saves(a) ==
    LET j == th[a]
        own == IF run.attempts[j.at].held THEN Allowance ELSE 0
        after == CASE j.res = "ok" -> Returned(a, "ok")
                   [] j.res = "refused" -> Returned(a, "error")
                   [] OTHER -> As(a, [th[a] EXCEPT !.pc = "deciding", !.res = None, !.size = 0])
    IN  /\ j.pc = "answered" /\ UNCHANGED <<lease, dead, fatal, late, sent>>
        /\ IF run.retrieved + (Reserved(run) - own) + j.size > Room
           THEN Moves(Returned(a, "error")) /\ UNCHANGED kept
           ELSE /\ Commit(Answered(a), after, Returned(a, "error"))
                /\ kept' = IF j.kind = "model" /\ run' # run THEN kept + j.size ELSE kept

\* A failed search may be tried again, by this goroutine and no other.
Decides(a) ==
    LET j == th[a]
        last == run.attempts[j.at]
        retries == /\ ~run.stop /\ Alive(a) /\ Retryable(last)
                   /\ last.number <= MaxRetries /\ HasBudget(run, j.kind)
    IN  /\ j.pc = "deciding" /\ Frame
        /\ IF retries
           THEN Commit([run EXCEPT !.pending = @ \cup {j.at}], At(a, "waiting"), Returned(a, "error"))
           ELSE Commit(run, Returned(a, IF Alive(a) /\ Continuable(last) THEN "gap" ELSE "error"),
                       Returned(a, "error"))
Retries(a) ==
    /\ th[a].pc = "waiting" /\ Frame
    /\ Moves(IF Alive(a) THEN [th EXCEPT ![a].pc = "begin", ![a].after = th[a].at]
             ELSE With(a, "dropping", "stopped"))

\* What a source's answer says is added to the run.
Retains(a) ==
    /\ th[a].pc = "retaining" /\ Frame
    /\ Commit(run, Goes(a, IF a = Main THEN "head" ELSE "turn"),
              IF a = Main THEN Ends(a, "finish", "blocked") ELSE Ends(a, "end", "unsaved"))
\* A gap whose retries are over is marked, so that the run may go on.
Continues(a) ==
    LET i == IF th[a].at # 0 THEN th[a].at ELSE Latest(Prior(run, th[a].req))
        on == IF a = Main THEN "head" ELSE "told"
        stops(why) == IF a = Main THEN Ends(a, "finish", "interrupted") ELSE Ends(a, "end", why)
    IN  /\ th[a].pc = "continuing" /\ Frame
        /\ IF /\ Alive(a) /\ run.state = "running" /\ ~run.stop /\ i \notin run.pending
              /\ Continuable(run.attempts[i])
           THEN Commit([run EXCEPT !.attempts[i].cont = TRUE],
                       Goes(a, on), stops("unsaved"))
           ELSE Moves(stops("stopped"))

Attempts(a) ==
    \/ Begins(a) \/ Drops(a) \/ WaitsForAI(a) \/ TakesAI(a) \/ Dispatches(a) \/ Answers(a)
    \/ Saves(a) \/ Decides(a) \/ Retries(a) \/ Retains(a) \/ Continues(a)

(* ---- the coordinator --------------------------------------------------- *)
\* The worker returns: its lease is given back, and what it did not save of
\* the run is for the next one to recover.
Quits ==
    /\ lease' = FALSE /\ th' = [a \in Actor |-> Idle] /\ dead' = FALSE /\ fatal' = FALSE /\ late' = {}
    /\ UNCHANGED <<sent, kept>>
\* An Update of the coordinator's that makes it return where it fails.
OrQuits(next, pc) ==
    \/ run' = next /\ th' = Goes(Main, pc) /\ UNCHANGED faults /\ Frame
    \/ faults < MaxFaults /\ faults' = faults + 1 /\ run' \in {run, next} /\ Quits
Finishes(st) == Moves(Ends(Main, "finish", st)) /\ Frame

\* Mutant of Recovered: an outcome nobody knows is taken for no request.
RecoveredAsUnsent ==
    [run EXCEPT !.state = "interrupted", !.pending = {},
        !.tasks = [t \in Task |-> IF @[t] \in {"queued", "running"} THEN "settled" ELSE @[t]],
        !.attempts = [i \in DOMAIN @ |-> [@[i] EXCEPT !.held = FALSE,
            !.st = IF @ \in {"waiting", "started"} THEN "not-started" ELSE @]]]
\* What becomes of an attempt whose process is gone.
Left(a) ==
    [a EXCEPT !.held = FALSE, !.st = CASE a.st = "waiting" -> "not-started"
                                       [] a.st = "started" -> "uncertain" [] OTHER -> a.st]
\* What a process left running is interrupted before anything else is done.
Recovered ==
    [run EXCEPT !.state = "interrupted", !.pending = {},
        !.tasks = [t \in Task |-> IF @[t] \in {"queued", "running"} THEN "settled" ELSE @[t]],
        !.attempts = [i \in DOMAIN @ |-> Left(@[i])]]
\* Mutant of Scans: a run whose worker is gone is left running.
ScansTheQueued ==
    /\ ~lease /\ (run.state = "queued" \/ run.unpublished)
    /\ lease' = TRUE /\ UNCHANGED <<dead, fatal, late, sent, kept>>
    /\ Moves(Goes(Main, "publish"))
Scans ==
    /\ ~lease /\ (run.state \in {"running", "queued"} \/ run.unpublished)
    /\ lease' = TRUE /\ UNCHANGED <<dead, fatal, late, sent, kept>>
    /\ Moves(Goes(Main, IF run.state = "running" THEN "recover" ELSE "publish"))
Recovers == th[Main].pc = "recover" /\ OrQuits(Recovered, "publish")

Published == [run EXCEPT !.unpublished = FALSE, !.resume = None,
                         !.state = IF run.resume # None THEN run.resume ELSE @]
PublishesFirst ==
    /\ th[Main].pc = "publish"
    /\ \/ run.unpublished /\ OrQuits(Published, "start")
       \/ run.unpublished /\ Quits /\ UNCHANGED <<run, faults>>
       \/ ~run.unpublished /\ Moves(At(Main, "start")) /\ Frame
Starts ==
    /\ th[Main].pc = "start"
    /\ IF run.state = "queued" /\ ~run.stop
       THEN OrQuits([run EXCEPT !.state = "running"], "head")
       ELSE Quits /\ UNCHANGED <<run, faults>>

WorkComplete(r) == r.met /\ ~r.unpublished
Finalizes(r) ==
    r.final \/ (r.step > 0 /\ r.step + Saving >= r.limits["model"]) \/ ~(HasBudget(r, "page") \/ HasBudget(r, "search"))
\* The head of the loop, the candidates' tasks, and the next request to the
\* AI; the connections may turn out to have changed.
Heads ==
    /\ th[Main].pc = "head"
    /\ \/ dead /\ Finishes("interrupted")
       \/ ~dead /\ run.step >= run.limits["model"]
            /\ \E st \in {"partial"} \cup (IF WorkComplete(run) THEN {"completed"} ELSE {}) : Finishes(st)
       \/ ~dead /\ run.step < run.limits["model"] /\ WorkComplete(run) /\ Finishes("completed")
       \/ ~dead /\ run.step < run.limits["model"] /\ ~WorkComplete(run)
            /\ OrQuits([run EXCEPT !.final = Finalizes(run)], "claiming")
Queued(S) == [run EXCEPT !.tasks = [t \in Task |-> IF t \in S THEN "queued" ELSE @[t]]]
Unclaimed == {t \in Task : run.tasks[t] = "none"}
Batch(then) == Ends(Main, "batch", then)
Claims ==
    /\ th[Main].pc = "claiming" /\ Frame
    /\ \/ Moves(Ends(Main, "finish", "blocked"))
       \/ run.stop /\ Moves(Ends(Main, "finish", "interrupted"))
       \/ ~run.stop /\ \E S \in SUBSET (IF run.final THEN {} ELSE Unclaimed) :
             Commit(Queued(S), Batch("asking"), Ends(Main, "finish", "interrupted"))
Asks ==
    /\ th[Main].pc = "asking"
    /\ IF run.step >= run.limits["model"] THEN Finishes("partial")
       ELSE /\ Commit([run EXCEPT !.final = @ \/ run.step + Saving >= run.limits["model"]],
                      As(Main, Job("model", None)), Ends(Main, "finish", "blocked"))
            /\ Frame
StepsOn == th[Main].pc = "stepping" /\ OrQuits([run EXCEPT !.step = @ + 1], "act")
FinalizesRun == th[Main].pc = "finalizing" /\ OrQuits([run EXCEPT !.final = TRUE], "head")

\* What the AI's answer asks for: to finish, records, nothing usable, ...
Acting == th[Main].pc = "act"
Rejected(i) == [run EXCEPT !.attempts[i].code = "rejected"]
ActsFinish == Acting /\ Finishes("completed")
ActsNothing ==
    Acting /\ \E pc \in {"rejecting", "head"} : Moves(Goes(Main, pc)) /\ Frame
\* The AI is told what was wrong, twice; then the run ends with what it has.
Rejects ==
    /\ th[Main].pc = "rejecting" /\ Frame
    /\ IF run.stop THEN Moves(Ends(Main, "finish", "blocked"))
       ELSE \E ok \in {Goes(Main, "head"), Ends(Main, "finish", "partial")} :
               Commit(Rejected(Len(run.attempts)), ok, Ends(Main, "finish", "blocked"))
ActsRecords ==
    /\ Acting
    /\ IF run.stop THEN Finishes("blocked")
       ELSE /\ Frame
            /\ \E met \in {run.met, TRUE} :
                  Commit([run EXCEPT !.unpublished = TRUE, !.met = met],
                         Goes(Main, "publishing"), Ends(Main, "finish", "blocked"))
PublishesRecords ==
    /\ th[Main].pc = "publishing" /\ Frame
    /\ \/ \E ok \in {Goes(Main, "head"), Ends(Main, "finish", "partial")} :
             Commit(Published, ok, Ends(Main, "finish", "blocked"))
       \/ Moves(Ends(Main, "finish", "blocked"))
\* ... a source, never asked for twice, ...
ActsSource ==
    /\ Acting /\ ~run.final
    /\ \E q \in Request :
          IF run.step >= run.limits["model"] THEN Finishes("partial")
          ELSE IF ~HasBudget(run, KindOf(q)) THEN OrQuits([run EXCEPT !.final = TRUE], "rejecting")
          ELSE Prior(run, q) = {} /\ Moves(As(Main, Job(KindOf(q), q))) /\ Frame
\* ... or tasks.
ActsDelegate ==
    /\ Acting /\ ~run.final /\ ~run.stop /\ Frame
    /\ \E S \in SUBSET Unclaimed :
          S # {} /\ Commit(Queued(S), Batch("head"), At(Main, "rejecting"))

Working == {t \in Task : th[t].pc # "idle"}
QueuedTasks == {t \in Task : run.tasks[t] = "queued"}
BatchEnds ==
    /\ th[Main].pc = "batch" /\ Working = {} /\ (dead \/ fatal \/ QueuedTasks = {})
    /\ LET left == [run EXCEPT !.tasks = [t \in Task |-> IF t \in QueuedTasks THEN "settled" ELSE @[t]]]
           failed == Ends(Main, "finish", "interrupted")
       IN  Commit(left, IF dead \/ fatal THEN failed ELSE Goes(Main, th[Main].res), failed)
    /\ Frame

(* ---- the end of an execution, and the budget --------------------------- *)
\* The increase Desk offers: only where the limits are what stopped the run.
Proposed(r) ==
    LET Rest(k) == r.limits[k] - Used(r, k)
        last == r.attempts[Len(r.attempts)]
        more == [k \in Kinds |->
                   IF k = "model" THEN (IF Rest(k) <= Saving THEN r.limits[k] + Saving + 1 ELSE r.limits[k])
                   ELSE IF Rest(k) = 0 THEN r.limits[k] + 1 ELSE r.limits[k]]
        ends == r.final \/ Used(r, "model") >= r.limits["model"]
        sound == Len(r.attempts) = 0 \/ (last.st = "completed" /\ last.code # "rejected") \/ (last.cont /\ Continuable(last))
    IN  IF /\ ~r.stop /\ r.grants < MaxGrants /\ ~r.declined /\ ~r.met
           /\ r.state \in {"running", "completed-with-gaps", "partial"}
           /\ ends /\ sound /\ more # r.limits /\ more["model"] - Used(r, "model") > Saving
        THEN more ELSE None
Paused(r) ==
    IF Proposed(r) = None THEN r ELSE [r EXCEPT !.state = "paused", !.asks = Proposed(r)]

Finished(st) ==
    LET gaps == Of(run, LAMBDA a : a.cont /\ Continuable(a)) # {}
        state == CASE run.stop -> "stopped"
                   [] ~run.stop /\ dead -> "interrupted"
                   [] OTHER -> IF st = "completed" /\ (~run.met \/ gaps) THEN "completed-with-gaps" ELSE st
        next == [run EXCEPT !.state = state, !.pending = {}]
    IN  IF ~run.stop /\ ~dead /\ st \in {"completed", "partial"} THEN Paused(next) ELSE next
FinishesRun == th[Main].pc = "finish" /\ OrQuits(Finished(th[Main].res), "last")

\* What could not be published blocks the run; what it was is kept for when
\* it can be.
Blocked ==
    [run EXCEPT !.resume = IF @ # None THEN @
                           ELSE IF run.state \in {"running", "blocked", "queued"} THEN "partial" ELSE run.state,
                !.state = IF @ \in {"paused", "queued"} THEN @ ELSE "blocked"]
PublishesLast ==
    /\ th[Main].pc = "last"
    /\ \/ ~run.unpublished /\ Quits /\ UNCHANGED <<run, faults>>
       \/ run.unpublished /\ Quits /\ run' \in {Published, Blocked} /\ UNCHANGED faults
       \/ run.unpublished /\ Quits /\ faults < MaxFaults /\ faults' = faults + 1 /\ UNCHANGED run

Coordinates ==
    \/ Recovers \/ PublishesFirst \/ Starts \/ Heads \/ Claims \/ Asks \/ StepsOn \/ FinalizesRun
    \/ ActsFinish \/ ActsNothing \/ Rejects \/ ActsRecords \/ PublishesRecords \/ ActsSource \/ ActsDelegate
    \/ BatchEnds \/ FinishesRun \/ PublishesLast

(* ---- a task ------------------------------------------------------------ *)
TaskFrame == UNCHANGED <<lease, dead, sent, kept>>
StartsTask(t) ==
    /\ th[Main].pc = "batch" /\ ~dead /\ ~fatal /\ run.tasks[t] = "queued" /\ th[t].pc = "idle"
    /\ Cardinality(Working) < Concurrency
    /\ IF run.state = "running" /\ ~run.stop
       THEN Commit([run EXCEPT !.tasks[t] = "running"], Goes(t, "first"), th)
       ELSE Moves(th)
    /\ fatal' = (th'[t].pc = "idle") /\ UNCHANGED late /\ TaskFrame

Sourced(t, q) == As(t, [Idle EXCEPT !.pc = "look", !.kind = KindOf(q), !.req = q])
\* A candidate's page is read before its first turn.
BeginsTask(t) ==
    /\ th[t].pc = "first" /\ Frame
    /\ IF TaskVerdict(t, "model") # "go" THEN Moves(Ends(t, "end", None))
       ELSE \/ Moves(At(t, "turn")) \/ \E q \in Page : Moves(Sourced(t, q))
TakesTurn(t) ==
    /\ th[t].pc = "turn" /\ Frame
    /\ Moves(IF Alive(t) /\ TaskVerdict(t, "model") = "go" THEN As(t, Job("model", None))
             ELSE Ends(t, "end", None))

\* The same request, of whichever task, is waited for; what is not known of
\* it is the AI's to get round.
InFlight(q) ==
    LET i == Latest(Prior(run, q))
    IN  Prior(run, q) # {} /\ (run.attempts[i].st \in {"started", "waiting"} \/ i \in run.pending)
Looks(t) ==
    /\ th[t].pc = "look" /\ Frame
    /\ LET q == th[t].req
           i == Latest(Prior(run, q))
       IN  IF InFlight(q) THEN ~Alive(t) /\ Moves(Ends(t, "end", None))
           ELSE IF Prior(run, q) # {} /\ run.attempts[i].st # "completed"
                THEN Moves(Goes(t, "told"))
                ELSE Moves(As(t, Job(th[t].kind, q)))
Racing(t) ==
    \E i \in Prior(run, th[t].req) :
        run.attempts[i].by # t /\ run.attempts[i].st \in {"started", "waiting", "completed"}
\* A source that failed: another task's answer is waited for, a gap is
\* continued past, a limit is the AI's to get round, and the rest is fatal.
Fails(t) ==
    /\ th[t].pc = "failing" /\ Frame
    /\ Moves(IF ~Alive(t) THEN Ends(t, "end", None)
             ELSE IF Racing(t) THEN Sourced(t, th[t].req)
             ELSE CASE th[t].res = "gap" -> At(t, "continuing")
                    [] th[t].res = "limit" -> Goes(t, "told")
                    [] OTHER -> Ends(t, "end", th[t].res))

\* The AI is told why its action came to nothing, twice; a candidate's first
\* page was no action of its.
Told(t) ==
    LET asked == {i \in OfTask(t) : run.attempts[i].kind = "model"}
    IN  /\ th[t].pc = "told" /\ Frame
        /\ IF ~Alive(t) THEN Moves(Ends(t, "end", None))
           ELSE IF asked = {} THEN Moves(At(t, "turn"))
           ELSE \E ok \in {At(t, "turn"), Ends(t, "end", None)} :
                   Commit(Rejected(Latest(asked)), ok, Ends(t, "end", "unsaved"))
ActsTask(t) ==
    /\ th[t].pc = "act" /\ Frame
    /\ \/ Commit(run, Ends(t, "end", None), Ends(t, "end", "unsaved"))
       \/ run.stop /\ Moves(Ends(t, "end", "stopped"))
       \/ \E pc \in {"turn", "told"} : Moves(Goes(t, pc))
       \/ ~run.final /\ \E q \in Request : Moves(Sourced(t, q))
       \/ /\ \A u \in Task : th[u].pc # "publishing"
          /\ IF run.stop \/ ~Alive(t) THEN Moves(Ends(t, "end", "stopped"))
             ELSE \E met \in {run.met, TRUE} :
                     Commit([run EXCEPT !.unpublished = TRUE, !.met = met],
                            At(t, "publishing"), Ends(t, "end", "unsaved"))
PublishesTask(t) ==
    /\ th[t].pc = "publishing" /\ Frame
    /\ \/ \E pc \in {"end", "told"} :
             Commit(Published, Ends(t, pc, None), Ends(t, "end", "unsaved"))
       \/ Moves(Ends(t, "end", "unpublished"))
EndsTask(t) ==
    /\ th[t].pc = "end" /\ TaskFrame
    /\ \/ /\ run' = [run EXCEPT !.tasks[t] = "settled"] /\ UNCHANGED faults
          /\ fatal' = (fatal \/ th[t].res # None)
       \/ /\ faults < MaxFaults /\ faults' = faults + 1 /\ UNCHANGED run /\ fatal' = TRUE
    /\ th' = As(t, Idle) /\ late' = late \ {t}

Works(t) ==
    \/ StartsTask(t) \/ BeginsTask(t) \/ TakesTurn(t) \/ Looks(t) \/ Fails(t) \/ Told(t) \/ ActsTask(t)
    \/ PublishesTask(t) \/ EndsTask(t)

(* ---- the owner, time and stops ----------------------------------------- *)
Outside == UNCHANGED <<lease, th, dead, fatal, late, sent, kept, faults>>
Confirm == run.state = "review" /\ run' = [run EXCEPT !.state = "queued"] /\ Outside
Stop ==
    /\ run' = [run EXCEPT !.stop = TRUE,
                  !.declined = @ \/ run.asks # None, !.asks = None,
                  !.state = IF run.asks # None \/ @ \in {"review", "queued"} THEN "stopped" ELSE @]
    /\ run' # run /\ Outside
\* A settled run may be offered an increase when the owner asks.
ReviewBudget ==
    /\ run.state \in {"completed-with-gaps", "partial"} /\ Proposed(run) # None
    /\ run' = Paused(run) /\ Outside
Approve ==
    /\ run.state = "paused" /\ ~run.stop /\ run.asks # None
    /\ run' = [run EXCEPT !.limits = run.asks, !.asks = None, !.grants = @ + 1,
                          !.state = "queued", !.final = FALSE]
    /\ Outside
Decline ==
    /\ run.state = "paused" /\ ~run.stop /\ run.asks # None
    /\ run' = [run EXCEPT !.asks = None, !.declined = TRUE, !.state = "completed-with-gaps"]
    /\ Outside

Executing == lease /\ th[Main].pc \notin {"idle", "recover", "publish", "start"}
Cancels == dead' = TRUE /\ ~dead /\ UNCHANGED <<run, lease, th, fatal, late, sent, kept, faults>>
StopSeen == Executing /\ run.stop /\ Cancels
TimeUp == Executing /\ Cancels
\* A task has five minutes.
TaskTimeUp(t) ==
    /\ th[t].pc \notin {"idle", "end"} /\ Alive(t) /\ late' = late \cup {t}
    /\ UNCHANGED <<run, lease, th, dead, fatal, sent, kept, faults>>
Crash == lease /\ faults < MaxFaults /\ faults' = faults + 1 /\ UNCHANGED run /\ Quits

Next ==
    \/ Scans \/ Coordinates \/ \E a \in Actor : Attempts(a)
    \/ \E t \in Task : Works(t) \/ TaskTimeUp(t)
    \/ Confirm \/ Stop \/ ReviewBudget \/ Approve \/ Decline \/ StopSeen \/ TimeUp \/ Crash

Spec == Init /\ [][Next]_vars

\* The timer scans for work every second, the runtime runs every goroutine,
\* providers answer or time out, and a stop is read four times a second. A
\* publication that can be tried again and again succeeds some time.
Publishes == th[Main].pc = "publish" /\ PublishesFirst /\ ~run'.unpublished
Fairness ==
    /\ WF_vars(Scans) /\ WF_vars(Coordinates) /\ SF_vars(Publishes) /\ WF_vars(StopSeen)
    /\ \A a \in Actor : WF_vars(Attempts(a))
    /\ \A t \in Task : WF_vars(Works(t)) /\ WF_vars(TaskTimeUp(t))
FairSpec == Spec /\ Fairness

(* ---- properties -------------------------------------------------------- *)
\* Types; a stored answer never takes a run past the bytes it may retain.
TypeOK ==
    /\ run.state \in States /\ run.resume \in Settled \cup {None}
    /\ run.pending \subseteq DOMAIN run.attempts /\ sent \subseteq DOMAIN run.attempts
    /\ \A i \in DOMAIN run.attempts :
          /\ run.attempts[i].kind \in Kinds /\ run.attempts[i].by \in Actor
          /\ run.attempts[i].st \in {"started", "waiting", "completed", "refused", "uncertain", "not-started"}
    /\ {dead, fatal, lease} \subseteq BOOLEAN /\ run.retrieved \in 0 .. Room
    /\ run.limits \in [Kinds -> Nat]

\* No source is asked for twice (beginResearchAttempt): what was sent of one
\* request, across tasks, crashes, lost writes and increases, is one request
\* and its saved retries.
AskedOnce ==
    \A i, j \in sent :
        i < j /\ run.attempts[i].req # None /\ run.attempts[i].req = run.attempts[j].req =>
            /\ run.attempts[i].st = "uncertain" /\ Retryable(run.attempts[i])
            /\ run.attempts[j].number > run.attempts[i].number
            /\ run.attempts[j].number <= MaxRetries + 1

\* What reached the providers never exceeds what the owner approved by then
\* (researchRequestBudget), and an attempt that Desk says was never started,
\* and so does not count, reached none (recoverInputResearch).
WithinApproval ==
    /\ \A k \in Kinds : Cardinality({i \in sent : run.attempts[i].kind = k}) <= run.limits[k]
    /\ \A i \in sent : run.attempts[i].st # "not-started"

\* Acquisitions at once, and answers whose saving failed, never take more of
\* the disk than one run may (reserveResearchSource): a proof is on disk
\* before the journal counts it.
KeptWithinRoom == kept <= Room

\* A run that may go on, after an increase or a crash, takes nothing with it
\* of what went before: no retry, reservation, task or publication is left of
\* an execution that is over (recoverInputResearch, finish). One reservation
\* may be: of a task's source whose journal write failed after the task's
\* time was up, which is not fatal to the batch (taskResearchSource).
LeftOfALateTask(i) ==
    faults > 0 /\ run.attempts[i].by \in Task /\ run.attempts[i].st = "started"
ResumesClean ==
    run.state \in {"review", "queued", "paused"} =>
        /\ run.pending = {} /\ run.resume = None /\ ~run.unpublished
        /\ \A i \in DOMAIN run.attempts : run.attempts[i].held => LeftOfALateTask(i)
        /\ \A t \in Task : run.tasks[t] # "running"

\* Once a stop is saved no request is admitted (beginResearchAttempt), no task
\* begins, and the run is never queued, paused or running again.
StopHolds ==
    [][run.stop =>
        /\ Len(run'.attempts) = Len(run.attempts) /\ run'.stop
        /\ run.state \in Settled => run'.state \in Settled
        /\ \A t \in Task : run.tasks[t] = "queued" => run'.tasks[t] # "running"]_vars

\* A run that was queued comes to rest, and what it found is published
\* (scanInputResearch, executeInputResearch): whatever failed, was waited for
\* or was interrupted on the way.
Settles ==
    (run.state \in {"queued", "running"} \/ run.unpublished)
        ~> (run.state \notin {"queued", "running"} /\ ~run.unpublished)

================================================================================
