------------------------ MODULE DelegationPoolProofs ------------------------
(* Theorems about one delegated batch, for every number of tasks and both    *)
(* concurrencies.  The inductive invariant says where every task that was    *)
(* handed out can be, and why a worker that is done is done.                 *)
EXTENDS DelegationPool, TLAPS

Stopped == ctxDone \/ fatal # "none"

\* The worker still owes its task a terminal state.
Busy(w) == pc[w] \in {"begin", "execute", "judge", "commit"}

\* A worker's task is its own, was handed out, and is in the journal as the
\* worker's step says; what was not handed out is still queued.
Holding ==
    /\ \A w \in Workers :
         /\ held[w] < next
         /\ Busy(w) => held[w] # 0
         /\ pc[w] = "begin" => journal[held[w]] = "queued"
         /\ pc[w] \in {"execute", "judge", "commit"} => journal[held[w]] = "running"
    /\ \A v, w \in Workers : held[v] = held[w] /\ held[w] # 0 => v = w
    /\ \A t \in Tasks : t >= next => journal[t] = "queued"

\* What was handed out has a terminal state, a worker, or an error on its way.
Accounted ==
    \A t \in Tasks : t < next /\ journal[t] \notin Terminal =>
        \/ fatal # "none"
        \/ \E w \in Workers : Busy(w) /\ held[w] = t
        \/ \E w \in Workers : pc[w] = "fail"

\* Every stop has its reason.
Reasons ==
    /\ InterruptedMeansStopped
    /\ cancelled /\ caller # "returned" => fatal # "none"
    /\ \A w \in Workers :
         /\ pc[w] = "commit" =>
              /\ verdict[w] \in Terminal
              /\ verdict[w] = "interrupted" => Stopped
         /\ pc[w] = "cancel" => fatal # "none"
         /\ pc[w] = "fail" => result[w] \in Fault
         /\ pc[w] = "done" /\ next <= NTasks => Stopped

Calling ==
    /\ caller # "joining" => \A w \in Workers : pc[w] = "done"
    /\ caller = "returned" <=> answer # "none"
    /\ caller = "returned" => next > NTasks
    /\ answer = "nil" => \A t \in Tasks : journal[t] \in {"complete", "failed"}
    /\ fatal = "none" => answer # "stopped"
    /\ caller = "returned" /\ fatal # "none" => answer = "stopped"

IInv == TypeOK /\ Holding /\ Accounted /\ Reasons /\ Calling

-----------------------------------------------------------------------------
\* A batch with a task in it has a worker.
LEMMA SomeWorker ==
  ASSUME NEW t \in Tasks
  PROVE  1 \in Workers
  BY BatchAssumption DEF Tasks, Workers

\* Stop(w) keeps the invariant.
LEMMA StopKeeps ==
  ASSUME NEW w \in Workers, IInv, Stop(w)
  PROVE  IInv'
<1> USE BatchAssumption DEF Tasks, IInv, Stop, Goto, vars, workerVars, callerVars, Exhausted, BatchDone
<1>1. TypeOK'
  BY DEF TypeOK, TaskState, Terminal, WorkerStep, Fault, Reasons
<1>2. Holding'
  BY DEF TypeOK, TaskState, Terminal, Holding, Busy, Reasons
<1>3. Accounted'
  BY DEF TypeOK, Terminal, Fault, Holding, Accounted, Calling, Reasons, Busy
<1>4. Reasons'
  BY DEF TypeOK, Terminal, Fault, Reasons, Holding, Calling, InterruptedMeansStopped, Stopped, Busy
<1>5. Calling'
  BY DEF TypeOK, TaskState, Terminal, Accounted, Calling, Holding, Busy, Reasons, InterruptedMeansStopped, Stopped
<1> QED
  BY <1>1, <1>2, <1>3, <1>4, <1>5

\* Pick(w) keeps the invariant.
LEMMA PickKeeps ==
  ASSUME NEW w \in Workers, IInv, Pick(w)
  PROVE  IInv'
<1> USE BatchAssumption DEF Tasks, IInv, Pick, Goto, vars, workerVars, callerVars, Exhausted, BatchDone
<1>1. TypeOK'
  BY DEF TypeOK, TaskState, Terminal, WorkerStep, Fault, Reasons
<1>2. Holding'
  <2> USE DEF TypeOK, Holding, Busy
  <2>1. \A v \in Workers : held'[v] < next' /\ (Busy(v)' => held'[v] # 0)
    OBVIOUS
  <2>2. \A v \in Workers : pc'[v] = "begin" => journal'[held'[v]] = "queued"
    OBVIOUS
  <2>3. \A v \in Workers : pc'[v] \in {"execute", "judge", "commit"} => journal'[held'[v]] = "running"
    OBVIOUS
  <2>4. \A v, u \in Workers : held'[v] = held'[u] /\ held'[u] # 0 => v = u
    OBVIOUS
  <2>5. \A t \in Tasks : t >= next' => journal'[t] = "queued"
    OBVIOUS
  <2> QED
    BY <2>1, <2>2, <2>3, <2>4, <2>5
<1>3. Accounted'
  BY DEF TypeOK, Terminal, Fault, Holding, Accounted, Calling, Reasons, Busy
<1>4. Reasons'
  BY DEF TypeOK, Terminal, Fault, Reasons, Holding, Calling, InterruptedMeansStopped, Stopped, Busy
<1>5. Calling'
  BY DEF TypeOK, TaskState, Terminal, Accounted, Calling, Holding, Busy, Reasons, InterruptedMeansStopped, Stopped
<1> QED
  BY <1>1, <1>2, <1>3, <1>4, <1>5

\* Begin(w) keeps the invariant.
LEMMA BeginKeeps ==
  ASSUME NEW w \in Workers, IInv, Begin(w)
  PROVE  IInv'
<1> USE BatchAssumption DEF Tasks, IInv, Begin, Commits, CommitFails, Goto, vars, workerVars, callerVars, Exhausted, BatchDone
<1>1. TypeOK'
  BY DEF TypeOK, TaskState, Terminal, WorkerStep, Fault, Reasons
<1>2. Holding'
  BY DEF TypeOK, TaskState, Terminal, Holding, Busy, Reasons
<1>3. Accounted'
  <2> USE DEF TypeOK, Holding, Accounted, Busy
  <2>1. CASE Goto(w, "fail")
    <3>1. pc'[w] = "fail"
      BY <2>1
    <3> QED
      BY <3>1
  <2>2. CASE Goto(w, "execute") /\ journal' = [journal EXCEPT ![held[w]] = "running"]
    <3>1. \A v \in Workers : (Busy(v) => Busy(v)') /\ (pc[v] = "fail" => pc'[v] = "fail")
      BY <2>2
    <3>2. \A t \in Tasks : journal'[t] \notin Terminal => journal[t] \notin Terminal
      BY <2>2 DEF Terminal
    <3> QED
      BY <3>1, <3>2
  <2> QED
    BY <2>1, <2>2
<1>4. Reasons'
  BY DEF TypeOK, Terminal, Fault, Reasons, Holding, Calling, InterruptedMeansStopped, Stopped, Busy
<1>5. Calling'
  BY DEF TypeOK, TaskState, Terminal, Accounted, Calling, Holding, Busy, Reasons, InterruptedMeansStopped, Stopped
<1> QED
  BY <1>1, <1>2, <1>3, <1>4, <1>5

\* Execute(w) keeps the invariant.
LEMMA ExecuteKeeps ==
  ASSUME NEW w \in Workers, IInv, Execute(w)
  PROVE  IInv'
<1> USE BatchAssumption DEF Tasks, IInv, Execute, Goto, vars, workerVars, callerVars, Exhausted, BatchDone
<1>1. TypeOK'
  BY DEF TypeOK, TaskState, Terminal, WorkerStep, Fault, Reasons
<1>2. Holding'
  BY DEF TypeOK, TaskState, Terminal, Holding, Busy, Reasons
<1>3. Accounted'
  BY DEF TypeOK, Terminal, Fault, Holding, Accounted, Calling, Reasons, Busy
<1>4. Reasons'
  BY DEF TypeOK, Terminal, Fault, Reasons, Holding, Calling, InterruptedMeansStopped, Stopped, Busy
<1>5. Calling'
  BY DEF TypeOK, TaskState, Terminal, Accounted, Calling, Holding, Busy, Reasons, InterruptedMeansStopped, Stopped
<1> QED
  BY <1>1, <1>2, <1>3, <1>4, <1>5

\* Judge(w) keeps the invariant.
LEMMA JudgeKeeps ==
  ASSUME NEW w \in Workers, IInv, Judge(w)
  PROVE  IInv'
<1> USE BatchAssumption DEF Tasks, IInv, Judge, TerminalState, Goto, vars, workerVars, callerVars, Exhausted, BatchDone
<1>1. TypeOK'
  BY DEF TypeOK, TaskState, Terminal, WorkerStep, Fault, Reasons
<1>2. Holding'
  BY DEF TypeOK, TaskState, Terminal, Holding, Busy, Reasons
<1>3. Accounted'
  BY DEF TypeOK, Terminal, Fault, Holding, Accounted, Calling, Reasons, Busy
<1>4. Reasons'
  BY DEF TypeOK, Terminal, Fault, Reasons, Holding, Calling, InterruptedMeansStopped, Stopped, Busy
<1>5. Calling'
  BY DEF TypeOK, TaskState, Terminal, Accounted, Calling, Holding, Busy, Reasons, InterruptedMeansStopped, Stopped
<1> QED
  BY <1>1, <1>2, <1>3, <1>4, <1>5

\* Commit(w) keeps the invariant.
LEMMA CommitKeeps ==
  ASSUME NEW w \in Workers, IInv, Commit(w)
  PROVE  IInv'
<1> USE BatchAssumption DEF Tasks, IInv, Commit, Commits, CommitFails, Goto, vars, workerVars, callerVars, Exhausted, BatchDone
<1>1. TypeOK'
  <2> USE DEF TypeOK
  <2>1. verdict[w] \in TaskState
    BY DEF Reasons, TaskState
  <2>2. journal' \in [Tasks -> TaskState]
    BY <2>1
  <2>3. pc' \in [Workers -> WorkerStep] /\ result' \in [Workers -> {"none", "ok", "error"} \cup Fault]
    BY DEF WorkerStep, Fault
  <2> QED
    BY <2>2, <2>3
<1>2. Holding'
  BY DEF TypeOK, TaskState, Terminal, Holding, Busy, Reasons
<1>3. Accounted'
  <2> USE DEF TypeOK, Holding, Accounted, Busy
  <2>1. CASE Goto(w, "fail")
    <3>1. pc'[w] = "fail"
      BY <2>1
    <3> QED
      BY <3>1
  <2>2. CASE Goto(w, "pick") /\ journal' = [journal EXCEPT ![held[w]] = verdict[w]]
    <3>1. \A v \in Workers : v # w => pc'[v] = pc[v] /\ held'[v] = held[v]
      BY <2>2
    <3>2. held[w] \in Tasks /\ journal'[held[w]] \in Terminal
      BY <2>2 DEF Reasons
    <3>3. \A t \in Tasks : t # held[w] => journal'[t] = journal[t]
      BY <2>2
    <3> SUFFICES ASSUME NEW t \in Tasks, t < next', journal'[t] \notin Terminal
                 PROVE  \/ fatal' # "none"
                        \/ \E v \in Workers : Busy(v)' /\ held'[v] = t
                        \/ \E v \in Workers : pc'[v] = "fail"
      OBVIOUS
    <3>4. t # held[w] /\ journal[t] \notin Terminal /\ t < next
      BY <3>2, <3>3
    <3>5. CASE fatal # "none"
      BY <3>5
    <3>6. CASE \E v \in Workers : pc[v] = "fail"
      BY <3>1, <3>6
    <3>7. CASE \E v \in Workers : Busy(v) /\ held[v] = t
      <4>1. PICK v \in Workers : Busy(v) /\ held[v] = t
        BY <3>7
      <4>2. Busy(v)' /\ held'[v] = t
        BY <3>1, <3>4, <4>1
      <4> QED
        BY <4>2
    <3> QED
      BY <3>4, <3>5, <3>6, <3>7
  <2> QED
    BY <2>1, <2>2
<1>4. Reasons'
  BY DEF TypeOK, Terminal, Fault, Reasons, Holding, Calling, InterruptedMeansStopped, Stopped, Busy
<1>5. Calling'
  BY DEF TypeOK, TaskState, Terminal, Accounted, Calling, Holding, Busy, Reasons, InterruptedMeansStopped, Stopped
<1> QED
  BY <1>1, <1>2, <1>3, <1>4, <1>5

\* Fail(w) keeps the invariant.
LEMMA FailKeeps ==
  ASSUME NEW w \in Workers, IInv, Fail(w)
  PROVE  IInv'
<1> USE BatchAssumption DEF Tasks, IInv, Fail, Goto, vars, workerVars, callerVars, Exhausted, BatchDone
<1>1. TypeOK'
  BY DEF TypeOK, TaskState, Terminal, WorkerStep, Fault, Reasons
<1>2. Holding'
  BY DEF TypeOK, TaskState, Terminal, Holding, Busy, Reasons
<1>3. Accounted'
  BY DEF TypeOK, Terminal, Fault, Holding, Accounted, Calling, Reasons, Busy
<1>4. Reasons'
  BY DEF TypeOK, Terminal, Fault, Reasons, Holding, Calling, InterruptedMeansStopped, Stopped, Busy
<1>5. Calling'
  BY DEF TypeOK, TaskState, Terminal, Accounted, Calling, Holding, Busy, Reasons, InterruptedMeansStopped, Stopped
<1> QED
  BY <1>1, <1>2, <1>3, <1>4, <1>5

\* Cancel(w) keeps the invariant.
LEMMA CancelKeeps ==
  ASSUME NEW w \in Workers, IInv, Cancel(w)
  PROVE  IInv'
<1> USE BatchAssumption DEF Tasks, IInv, Cancel, Goto, vars, workerVars, callerVars, Exhausted, BatchDone
<1>1. TypeOK'
  BY DEF TypeOK, TaskState, Terminal, WorkerStep, Fault, Reasons
<1>2. Holding'
  BY DEF TypeOK, TaskState, Terminal, Holding, Busy, Reasons
<1>3. Accounted'
  BY DEF TypeOK, Terminal, Fault, Holding, Accounted, Calling, Reasons, Busy
<1>4. Reasons'
  BY DEF TypeOK, Terminal, Fault, Reasons, Holding, Calling, InterruptedMeansStopped, Stopped, Busy
<1>5. Calling'
  BY DEF TypeOK, TaskState, Terminal, Accounted, Calling, Holding, Busy, Reasons, InterruptedMeansStopped, Stopped
<1> QED
  BY <1>1, <1>2, <1>3, <1>4, <1>5

\* Join keeps the invariant.
LEMMA JoinKeeps ==
  ASSUME IInv, Join
  PROVE  IInv'
<1> USE BatchAssumption DEF Tasks, IInv, Join, Joined, Goto, vars, workerVars, callerVars, Exhausted, BatchDone
<1>1. TypeOK'
  BY DEF TypeOK, TaskState, Terminal, WorkerStep, Fault, Reasons
<1>2. Holding'
  BY DEF TypeOK, TaskState, Terminal, Holding, Busy, Reasons
<1>3. Accounted'
  BY DEF TypeOK, Terminal, Fault, Holding, Accounted, Calling, Reasons, Busy
<1>4. Reasons'
  BY DEF TypeOK, Terminal, Fault, Reasons, Holding, Calling, InterruptedMeansStopped, Stopped, Busy
<1>5. Calling'
  BY SomeWorker DEF TypeOK, TaskState, Terminal, Accounted, Calling, Holding, Busy, Reasons, InterruptedMeansStopped, Stopped
<1> QED
  BY <1>1, <1>2, <1>3, <1>4, <1>5

\* Sweep keeps the invariant.
LEMMA SweepKeeps ==
  ASSUME IInv, Sweep
  PROVE  IInv'
<1> USE BatchAssumption DEF Tasks, IInv, Sweep, Commits, CommitFails, Goto, vars, workerVars, callerVars, Exhausted, BatchDone
<1>1. TypeOK'
  BY DEF TypeOK, TaskState, Terminal, WorkerStep, Fault, Reasons
<1>2. Holding'
  BY DEF TypeOK, TaskState, Terminal, Holding, Busy, Reasons
<1>3. Accounted'
  BY DEF TypeOK, Terminal, Fault, Holding, Accounted, Calling, Reasons, Busy
<1>4. Reasons'
  BY SomeWorker DEF TypeOK, Terminal, Fault, Reasons, Holding, Calling, InterruptedMeansStopped, Stopped, Busy
<1>5. Calling'
  BY DEF TypeOK, TaskState, Terminal, Accounted, Calling, Holding, Busy, Reasons, InterruptedMeansStopped, Stopped
<1> QED
  BY <1>1, <1>2, <1>3, <1>4, <1>5

\* Answer keeps the invariant.
LEMMA AnswerKeeps ==
  ASSUME IInv, Answer
  PROVE  IInv'
<1> USE BatchAssumption DEF Tasks, IInv, Answer, Outcome, Goto, vars, workerVars, callerVars, Exhausted, BatchDone
<1>1. TypeOK'
  BY DEF TypeOK, TaskState, Terminal, WorkerStep, Fault, Reasons
<1>2. Holding'
  BY DEF TypeOK, TaskState, Terminal, Holding, Busy, Reasons
<1>3. Accounted'
  BY DEF TypeOK, Terminal, Fault, Holding, Accounted, Calling, Reasons, Busy
<1>4. Reasons'
  BY DEF TypeOK, Terminal, Fault, Reasons, Holding, Calling, InterruptedMeansStopped, Stopped, Busy
<1>5. Calling'
  BY DEF TypeOK, TaskState, Terminal, Accounted, Calling, Holding, Busy, Reasons, InterruptedMeansStopped, Stopped
<1> QED
  BY <1>1, <1>2, <1>3, <1>4, <1>5

\* EndContext keeps the invariant.
LEMMA EndContextKeeps ==
  ASSUME IInv, EndContext
  PROVE  IInv'
<1> USE BatchAssumption DEF Tasks, IInv, EndContext, Goto, vars, workerVars, callerVars, Exhausted, BatchDone
<1>1. TypeOK'
  BY DEF TypeOK, TaskState, Terminal, WorkerStep, Fault, Reasons
<1>2. Holding'
  BY DEF TypeOK, TaskState, Terminal, Holding, Busy, Reasons
<1>3. Accounted'
  BY DEF TypeOK, Terminal, Fault, Holding, Accounted, Calling, Reasons, Busy
<1>4. Reasons'
  BY DEF TypeOK, Terminal, Fault, Reasons, Holding, Calling, InterruptedMeansStopped, Stopped, Busy
<1>5. Calling'
  BY DEF TypeOK, TaskState, Terminal, Accounted, Calling, Holding, Busy, Reasons, InterruptedMeansStopped, Stopped
<1> QED
  BY <1>1, <1>2, <1>3, <1>4, <1>5

-----------------------------------------------------------------------------
LEMMA InitEstablishes == Init => IInv
<1> SUFFICES ASSUME Init PROVE IInv
  OBVIOUS
<1> USE BatchAssumption DEF Init
<1>1. TypeOK
  <2>1. journal \in [Tasks -> TaskState]
    BY DEF TaskState
  <2>2. next \in 1 .. NTasks + 1
    OBVIOUS
  <2>3. pc \in [Workers -> WorkerStep] /\ held \in [Workers -> 0 .. NTasks]
    BY DEF WorkerStep
  <2>4. /\ result \in [Workers -> {"none", "ok", "error"} \cup Fault]
        /\ verdict \in [Workers -> Terminal \cup {"none"}]
    OBVIOUS
  <2> QED
    BY <2>1, <2>2, <2>3, <2>4 DEF TypeOK
<1>2. Holding
  BY DEF Holding, Busy
<1>3. Accounted
  BY DEF Accounted, Tasks
<1>4. Reasons
  BY DEF Reasons, InterruptedMeansStopped
<1>5. Calling
  BY DEF Calling
<1> QED
  BY <1>1, <1>2, <1>3, <1>4, <1>5 DEF IInv

LEMMA StepKeeps == IInv /\ [Next]_vars => IInv'
<1> SUFFICES ASSUME IInv, [Next]_vars PROVE IInv'
  OBVIOUS
<1>1. CASE UNCHANGED vars
  BY <1>1 DEF IInv, TypeOK, Holding, Accounted, Reasons, Calling, Busy, Stopped,
     InterruptedMeansStopped, vars, workerVars, callerVars
<1>2. ASSUME NEW w \in Workers, WorkerNext(w) PROVE IInv'
  BY <1>2, StopKeeps, PickKeeps, BeginKeeps, ExecuteKeeps, JudgeKeeps, CommitKeeps,
     FailKeeps, CancelKeeps DEF WorkerNext
<1> QED
  BY <1>1, <1>2, JoinKeeps, SweepKeeps, AnswerKeeps, EndContextKeeps DEF Next, Returned

THEOREM Inductive == Spec => []IInv
  BY InitEstablishes, StepKeeps, PTL DEF Spec

-----------------------------------------------------------------------------
\* Every variable of a batch keeps its type, whatever fails or is cancelled.
THEOREM TypeCorrect == Spec => []TypeOK
  BY Inductive, PTL DEF IInv

\* A task being executed has its intent in the journal, and one worker
\* (the mutex around next, and the checkpoint before Execute).
THEOREM IntentIsSaved == Spec => []SavedIntent
<1>1. IInv => SavedIntent
  BY DEF IInv, Holding, Busy, SavedIntent
<1> QED
  BY <1>1, Inductive, PTL

\* Run answers nil only where every task was carried to complete or failed.
THEOREM NilIsHonest == Spec => []NilMeansCarried
<1>1. IInv => NilMeansCarried
  BY DEF IInv, Calling, NilMeansCarried
<1> QED
  BY <1>1, Inductive, PTL

\* A task is journalled as interrupted only after the batch was stopped.
THEOREM InterruptionHasAReason == Spec => []InterruptedMeansStopped
<1>1. IInv => InterruptedMeansStopped
  BY DEF IInv, Reasons
<1> QED
  BY <1>1, Inductive, PTL

\* When Run has returned, every task is settled or Run said that it stopped.
THEOREM ReturnSettles == Spec => []SettledOnReturn
<1>1. IInv => SettledOnReturn
  <2> SUFFICES ASSUME IInv, caller = "returned", answer # "stopped", NEW t \in Tasks
               PROVE  journal[t] \in Terminal
    BY DEF SettledOnReturn
  <2>1. fatal = "none" /\ t < next
    BY BatchAssumption DEF IInv, TypeOK, Calling, Tasks
  <2>2. \A w \in Workers : pc[w] = "done"
    BY DEF IInv, Calling
  <2> QED
    BY <2>1, <2>2 DEF IInv, Accounted, Busy
<1> QED
  BY <1>1, Inductive, PTL

\* No write reaches the journal once Run has returned: its workers are joined.
THEOREM WritesEndWithRun == Spec => NoLateWrite
<1>1. IInv /\ [Next]_vars => [caller = "returned" => UNCHANGED journal]_vars
  <2> SUFFICES ASSUME IInv, Next, caller = "returned" PROVE UNCHANGED journal
    BY DEF vars
  <2>1. \A w \in Workers : ~WorkerNext(w)
    BY DEF IInv, Calling, WorkerNext, Stop, Pick, Begin, Execute, Judge, Commit, Fail, Cancel
  <2> QED
    BY <2>1 DEF Next, Join, Sweep, Answer, EndContext, Returned, vars
<1> QED
  BY <1>1, Inductive, PTL DEF Spec, NoLateWrite

\* No terminal state in the journal is ever written over.
THEOREM TerminalStatesStay == Spec => TerminalIsFinal
<1>1. IInv /\ [Next]_vars
        => [\A t \in Tasks : journal[t] \in Terminal => journal'[t] = journal[t]]_vars
  <2> SUFFICES ASSUME IInv, Next, NEW t \in Tasks, journal[t] \in Terminal
               PROVE  journal'[t] = journal[t]
    BY DEF vars
  <2> USE DEF IInv, TypeOK, Holding, Terminal
  <2>1. ASSUME NEW w \in Workers, WorkerNext(w) PROVE journal'[t] = journal[t]
    <3>1. CASE Begin(w)
      BY <3>1 DEF Begin, Commits, CommitFails
    <3>2. CASE Commit(w)
      BY <3>2 DEF Commit, Commits, CommitFails
    <3> QED
      BY <2>1, <3>1, <3>2 DEF WorkerNext, Stop, Pick, Execute, Judge, Fail, Cancel
  <2>2. ASSUME Sweep PROVE journal'[t] = journal[t]
    BY <2>2, BatchAssumption DEF Sweep, Commits, CommitFails, Exhausted, Tasks
  <2> QED
    BY <2>1, <2>2 DEF Next, Join, Answer, EndContext, Returned, vars
<1> QED
  BY <1>1, Inductive, PTL DEF Spec, TerminalIsFinal
=============================================================================
