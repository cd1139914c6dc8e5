--------------------------- MODULE DelegationPool ---------------------------
(***************************************************************************)
(* One call of delegation.Run (internal/delegation/tasks.go): a batch of   *)
(* tasks carried by at most two workers that share an index and the first  *)
(* fatal error under one mutex, each journalling a task before and after   *)
(* executing it; then the joining caller, which journals what was never    *)
(* started and answers.                                                    *)
(*                                                                         *)
(* The hooks belong to the caller.  Transition is a durable write that may *)
(* fail, with or without having reached the journal; Execute succeeds,     *)
(* fails, or fails with delegation.Fatal.  The parent context may be       *)
(* cancelled at any instant.                                               *)
(***************************************************************************)
EXTENDS Naturals

CONSTANTS
    NTasks,       \* tasks in the batch, dispatched in the order 1..NTasks
    Concurrency   \* the resolved concurrency of the batch

ASSUME BatchAssumption == NTasks \in Nat /\ Concurrency \in 1 .. 2

VARIABLES
    journal,     \* durable state of each task, as Transition last committed it
    next,        \* the first task not handed to a worker
    fatal,       \* the first fatal error, "none" before it
    cancelled,   \* the batch's own cancel() was called
    ctxDone,     \* the caller's context is done
    pc,          \* where each worker is
    held,        \* the task a worker carries, 0 for none
    result,      \* what Execute returned to the worker
    verdict,     \* the terminal state the worker is about to journal
    caller,      \* the goroutine that called Run
    answer       \* what Run returned

workerVars == <<pc, held, result, verdict>>
callerVars == <<caller, answer>>
vars == <<journal, next, fatal, cancelled, ctxDone, workerVars, callerVars>>

Tasks   == 1 .. NTasks
Workers == {w \in 1 .. Concurrency : w <= NTasks}

Terminal   == {"complete", "failed", "interrupted"}
TaskState  == {"queued", "running"} \cup Terminal
WorkerStep == {"pick", "begin", "execute", "judge", "commit", "fail", "cancel", "done"}
Fault      == {"checkpoint", "task"}

\* The batch context is the caller's with a cancel of its own.
BatchDone == cancelled \/ ctxDone

Exhausted == next > NTasks

Init ==
    /\ journal = [t \in Tasks |-> "queued"]
    /\ next = 1
    /\ fatal = "none"
    /\ cancelled = FALSE
    /\ ctxDone \in BOOLEAN
    /\ pc = [w \in Workers |-> "pick"]
    /\ held = [w \in Workers |-> 0]
    /\ result = [w \in Workers |-> "none"]
    /\ verdict = [w \in Workers |-> "none"]
    /\ caller = "joining"
    /\ answer = "none"

Goto(w, step) == pc' = [pc EXCEPT ![w] = step]

-----------------------------------------------------------------------------
(* A worker's loop.                                                        *)

\* Under the mutex: the batch may already be over, or every task handed out.
Stop(w) ==
    /\ pc[w] = "pick"
    /\ Exhausted \/ BatchDone
    /\ Goto(w, "done")
    /\ UNCHANGED <<journal, next, fatal, cancelled, ctxDone, held, result, verdict, callerVars>>

Pick(w) ==
    /\ pc[w] = "pick"
    /\ ~Exhausted /\ ~BatchDone
    /\ held' = [held EXCEPT ![w] = next]
    /\ next' = next + 1
    /\ Goto(w, "begin")
    /\ UNCHANGED <<journal, fatal, cancelled, ctxDone, result, verdict, callerVars>>

\* Transition: it commits, or it fails and the journal may hold the line or not.
Commits(t, state)     == journal' = [journal EXCEPT ![t] = state]
CommitFails(t, state) == Commits(t, state) \/ UNCHANGED journal

\* Mutant of Begin: the error of the checkpoint is not looked at.
BeginRegardless(w) ==
    /\ pc[w] = "begin"
    /\ CommitFails(held[w], "running")
    /\ Goto(w, "execute")
    /\ UNCHANGED <<next, fatal, cancelled, ctxDone, held, result, verdict, callerVars>>

Begin(w) ==
    /\ pc[w] = "begin"
    /\ \/ Commits(held[w], "running") /\ Goto(w, "execute") /\ UNCHANGED result
       \/ /\ CommitFails(held[w], "running")
          /\ Goto(w, "fail")
          /\ result' = [result EXCEPT ![w] = "checkpoint"]
    /\ UNCHANGED <<next, fatal, cancelled, ctxDone, held, verdict, callerVars>>

Execute(w) ==
    /\ pc[w] = "execute"
    /\ \E r \in {"ok", "error", "task"} : result' = [result EXCEPT ![w] = r]
    /\ Goto(w, "judge")
    /\ UNCHANGED <<journal, next, fatal, cancelled, ctxDone, held, verdict, callerVars>>

\* A batch that is over by now interrupts even a task that succeeded.
TerminalState(r) ==
    IF BatchDone THEN "interrupted" ELSE IF r = "ok" THEN "complete" ELSE "failed"

\* Mutant of Judge: a failed task is executed again, without a bound.
JudgeRetries(w) ==
    /\ pc[w] = "judge"
    /\ verdict' = [verdict EXCEPT ![w] = TerminalState(result[w])]
    /\ Goto(w, IF result[w] = "error" THEN "execute" ELSE "commit")
    /\ UNCHANGED <<journal, next, fatal, cancelled, ctxDone, held, result, callerVars>>

Judge(w) ==
    /\ pc[w] = "judge"
    /\ verdict' = [verdict EXCEPT ![w] = TerminalState(result[w])]
    /\ Goto(w, "commit")
    /\ UNCHANGED <<journal, next, fatal, cancelled, ctxDone, held, result, callerVars>>

\* The final checkpoint is written whether or not the batch was cancelled.
Commit(w) ==
    /\ pc[w] = "commit"
    /\ \/ /\ Commits(held[w], verdict[w])
          /\ Goto(w, IF result[w] = "task" THEN "fail" ELSE "pick")
          /\ UNCHANGED result
       \/ /\ CommitFails(held[w], verdict[w])
          /\ Goto(w, "fail")
          /\ result' = [result EXCEPT ![w] = "checkpoint"]
    /\ held' = [held EXCEPT ![w] = 0]
    /\ UNCHANGED <<next, fatal, cancelled, ctxDone, verdict, callerVars>>

\* fail: the first error is kept under the mutex, the cancel comes after it.
Fail(w) ==
    /\ pc[w] = "fail"
    /\ fatal' = IF fatal = "none" THEN result[w] ELSE fatal
    /\ Goto(w, "cancel")
    /\ UNCHANGED <<journal, next, cancelled, ctxDone, held, result, verdict, callerVars>>

Cancel(w) ==
    /\ pc[w] = "cancel"
    /\ cancelled' = TRUE
    /\ Goto(w, "done")
    /\ UNCHANGED <<journal, next, fatal, ctxDone, held, result, verdict, callerVars>>

WorkerNext(w) ==
    Stop(w) \/ Pick(w) \/ Begin(w) \/ Execute(w) \/ Judge(w) \/ Commit(w) \/ Fail(w) \/ Cancel(w)

-----------------------------------------------------------------------------
(* The caller: it joins the workers, interrupts what never started, answers. *)

\* Mutant of Joined: the first worker to end lets the caller go on.
JoinedFirst == Workers = {} \/ \E w \in Workers : pc[w] = "done"

Joined == \A w \in Workers : pc[w] = "done"

Join ==
    /\ caller = "joining"
    /\ Joined
    /\ caller' = "sweeping"
    /\ UNCHANGED <<journal, next, fatal, cancelled, ctxDone, workerVars, answer>>

Sweep ==
    /\ caller = "sweeping" /\ ~Exhausted
    /\ \/ Commits(next, "interrupted") /\ UNCHANGED fatal
       \/ /\ CommitFails(next, "interrupted")
          /\ fatal' = IF fatal = "none" THEN "checkpoint" ELSE fatal
    /\ next' = next + 1
    /\ UNCHANGED <<cancelled, ctxDone, workerVars, callerVars>>

\* Mutant of Outcome: the end of the caller's context is forgotten.
OutcomeForgetsContext == IF fatal # "none" THEN "stopped" ELSE "nil"

Outcome == IF fatal # "none" THEN "stopped" ELSE IF ctxDone THEN "ended" ELSE "nil"

\* The deferred cancel of the batch ends with the call.
Answer ==
    /\ caller = "sweeping" /\ Exhausted
    /\ answer' = Outcome
    /\ caller' = "returned"
    /\ cancelled' = TRUE
    /\ UNCHANGED <<journal, next, fatal, ctxDone, workerVars>>

\* The caller's context is cancelled from outside.
EndContext ==
    /\ ~ctxDone
    /\ ctxDone' = TRUE
    /\ UNCHANGED <<journal, next, fatal, cancelled, workerVars, callerVars>>

\* Run has returned and its goroutines are gone.
Returned == caller = "returned" /\ UNCHANGED vars

Next ==
    \/ \E w \in Workers : WorkerNext(w)
    \/ Join \/ Sweep \/ Answer
    \/ EndContext
    \/ Returned

\* The Go scheduler runs every goroutine, and both hooks return: a task has a
\* five minute limit of its own and a journal write is a local file write.
Fairness ==
    /\ \A w \in Workers : WF_vars(WorkerNext(w))
    /\ WF_vars(Join \/ Sweep \/ Answer)

Spec == Init /\ [][Next]_vars /\ Fairness

-----------------------------------------------------------------------------
TypeOK ==
    /\ journal \in [Tasks -> TaskState]
    /\ next \in 1 .. NTasks + 1
    /\ fatal \in Fault \cup {"none"}
    /\ cancelled \in BOOLEAN /\ ctxDone \in BOOLEAN
    /\ pc \in [Workers -> WorkerStep]
    /\ held \in [Workers -> 0 .. NTasks]
    /\ result \in [Workers -> {"none", "ok", "error"} \cup Fault]
    /\ verdict \in [Workers -> Terminal \cup {"none"}]
    /\ caller \in {"joining", "sweeping", "returned"}
    /\ answer \in {"none", "stopped", "ended", "nil"}

\* No task is executed before its intent is saved, and none by two workers:
\* while Execute runs the journal says "running", and only one worker has it
\* (tasks.go:126-140; the mutex around next and the order of the checkpoints).
SavedIntent ==
    \A w \in Workers : pc[w] = "execute" =>
        /\ journal[held[w]] = "running"
        /\ \A v \in Workers \ {w} : held[v] # held[w]

\* A run that answers without an error carried every task to its own end:
\* nothing was interrupted, skipped or left running (tasks.go:169-182).
NilMeansCarried ==
    answer = "nil" => \A t \in Tasks : journal[t] \in {"complete", "failed"}

\* A task is called interrupted only where the batch really was stopped: by
\* its context or by a fatal error, never because the workers ran out early
\* (tasks.go:127, 149-154, 170-178).
InterruptedMeansStopped ==
    (\E t \in Tasks : journal[t] = "interrupted") => ctxDone \/ fatal # "none"

\* Every task has a terminal state when Run returns, unless a journal write
\* failed, which is then among what Run reports (tasks.go:157-181).
SettledOnReturn ==
    caller = "returned" =>
        \/ \A t \in Tasks : journal[t] \in Terminal
        \/ answer = "stopped"

\* Once Run has returned no write reaches the journal: the workers are joined
\* before the answer (the promise of Fatal's comment, tasks.go:80-81).
NoLateWrite == [][caller = "returned" => UNCHANGED journal]_vars

\* A terminal state is final: no worker and no sweep writes over it, whatever
\* was cancelled meanwhile.
TerminalIsFinal ==
    [][\A t \in Tasks : journal[t] \in Terminal => journal'[t] = journal[t]]_vars

\* Run returns.
Returns == <>(caller = "returned")
=============================================================================
