----------------------------- MODULE ResearchProofs -----------------------------
(***************************************************************************)
(* Proofs about a run of input research, for every number of tasks,        *)
(* requests, faults and increases, and every recipe.                       *)
(***************************************************************************)
EXTENDS Research, FiniteSetTheorems, SequenceTheorems, WellFoundedInduction, TLAPS

AttemptStates == {"started", "waiting", "completed", "refused", "uncertain", "not-started"}
Codes == {"none", "gap", "temporary", "limited", "rejected"}
Attempt == [kind : Kinds, req : Request \cup {None}, by : Actor, st : AttemptStates, number : Nat,
            of : Nat, next : Nat, held : BOOLEAN, code : Codes, cont : BOOLEAN]
Limits == [Kinds -> Nat]
Runs == [state : States, stop : BOOLEAN, step : Nat, final : BOOLEAN, attempts : Seq(Attempt),
         pending : SUBSET Nat, retrieved : Nat, limits : Limits, asks : Limits \cup {None},
         grants : Nat, declined : BOOLEAN, met : BOOLEAN, unpublished : BOOLEAN,
         resume : Settled \cup {None}, tasks : [Task -> {"none", "queued", "running", "settled"}]]

Pcs == {"idle", "recover", "publish", "start", "head", "claiming", "batch", "asking", "stepping",
        "act", "finalizing", "rejecting", "publishing", "finish", "last",
        "begin", "call", "queued", "send", "out", "answered", "deciding", "waiting", "dropping",
        "failing", "continuing", "retaining", "first", "turn", "look", "told", "end"}
Results == {None, "ok", "gap", "limit", "duplicate", "error", "stopped", "allowance", "failed",
            "refused", "temporary", "limited", "asking", "head", "unsaved", "unpublished"} \cup Settled
Jobs == [pc : Pcs, kind : Kinds \cup {None}, req : Request \cup {None}, at : Nat, after : Nat,
         res : Results, size : Nat]

(* ---- the journal ------------------------------------------------------- *)
Asked(r) == 1 .. Len(r.attempts)
\* A source's attempts are one after another, each the retry of the one before.
Chained(r) ==
    \A i, j \in Asked(r) :
        i < j /\ r.attempts[i].req # None /\ r.attempts[i].req = r.attempts[j].req =>
            /\ r.attempts[i].next # 0 /\ r.attempts[i].st = "uncertain" /\ Retryable(r.attempts[i])
            /\ r.attempts[i].number < r.attempts[j].number
Kindly(r) ==
    \A i \in Asked(r) :
        /\ r.attempts[i].kind = "model" <=> r.attempts[i].req = None
        /\ r.attempts[i].held => r.attempts[i].kind # "model"
        /\ r.attempts[i].number <= MaxRetries + 1
Bounded(r) ==
    /\ r.retrieved + Reserved(r) <= Room
    /\ \A k \in Kinds : Admitted(r, k) <= r.limits[k]
    /\ r.asks # None => \A k \in Kinds : r.limits[k] <= r.asks[k]
Sound(r) == r \in Runs /\ r.pending \subseteq Asked(r) /\ Chained(r) /\ Kindly(r) /\ Bounded(r)

(* ---- what an actor is doing, and what the journal says of it ----------- *)
Sourcing(j) == j.kind \in {"search", "page"} /\ j.req \in Request
AtWork == {"call", "queued", "send", "out", "answered", "deciding", "waiting"}
Fits(a, j, r) ==
    /\ j \in Jobs /\ {j.at, j.after} \subseteq 0 .. Len(r.attempts)
    /\ j.at # 0 => /\ r.attempts[j.at].by = a /\ r.attempts[j.at].kind = j.kind
                   /\ r.attempts[j.at].req = j.req
    /\ j.after # 0 => /\ r.attempts[j.after].kind = j.kind /\ r.attempts[j.after].req = j.req
                      /\ j.pc = "begin" => j.after = j.at
    /\ j.pc \in AtWork => j.at # 0
    /\ j.pc \in AtWork \cup {"begin"} =>
          IF j.kind = "model" THEN j.req = None ELSE j.kind \in Kinds /\ j.req \in Request
    /\ j.pc \in {"waiting", "dropping"} \/ (j.pc = "begin" /\ j.after # 0) => j.kind # "model"
    /\ j.pc \in {"queued", "send"} => j.kind = "model"
    /\ j.pc \in {"call", "send", "out"} => r.attempts[j.at].st = "started"
    /\ j.pc = "queued" => r.attempts[j.at].st = "waiting"
    /\ j.pc = "answered" => r.attempts[j.at].st \in
          (IF j.kind = "model" THEN {"started", "waiting"} ELSE {"started"})
    /\ j.pc \in {"call", "out", "answered"} /\ j.kind # "model" => r.attempts[j.at].held
    /\ j.pc \in (AtWork \ {"answered"}) \cup {"begin"} => j.size = 0
    /\ j.pc = "answered" => j.size \in (IF j.kind = "model" THEN {0, 1} ELSE {0, Allowance})
    /\ j.pc \in {"look", "failing", "dropping"} => Sourcing(j)
    /\ j.pc \in {"finish"} => j.res \in Settled \ {"completed-with-gaps"}
    /\ j.pc \in {"batch"} => j.res \in {"asking", "head"}
LastIsTheAIs(j, r) ==
    /\ j.pc \in AtWork /\ j.kind = "model" => j.at = Len(r.attempts)
    /\ j.pc \in {"stepping", "act", "rejecting"} =>
          Len(r.attempts) > 0 /\ r.attempts[Len(r.attempts)].kind = "model"
AllFit ==
    /\ th \in [Actor -> Jobs] /\ LastIsTheAIs(th[Main], run)
    /\ \A a \in Actor : Fits(a, th[a], run)

(* ---- where the execution stands ---------------------------------------- *)
Ahead == {"idle", "publish", "start", "last"}
\* Before and after its requests, a goroutine knows of none.
Blank(j) == j.pc \in Ahead \cup {"recover"} => j.at = 0 /\ j.after = 0
InOrder ==
    /\ \A a \in Actor : Blank(th[a])
    /\ lease \in BOOLEAN /\ dead \in BOOLEAN /\ fatal \in BOOLEAN /\ late \subseteq Task
    /\ faults \in Nat
    /\ ~lease => th[Main].pc = "idle"
    /\ th[Main].pc # "batch" => \A t \in Task : th[t].pc = "idle"
    /\ th[Main].pc \notin Ahead => run.state = "running"
    /\ th[Main].pc \in {"publish", "start", "last"} => run.state # "running"

(* ---- what was sent and kept -------------------------------------------- *)
SentAreSaved ==
    /\ sent \subseteq Asked(run)
    /\ \A i \in sent : run.attempts[i].st \notin {"waiting", "not-started"}
    /\ \A a \in Actor : th[a].pc = "call" => th[a].at \notin sent

\* Nothing of its attempt is on disk yet.
Waits(j) == j.pc \in {"call", "out"} \/ (j.pc = "answered" /\ j.size = 0)
Owed(r, jobs) ==
    {i \in Asked(r) : r.attempts[i].held /\ \A a \in Actor : jobs[a].at = i => ~Waits(jobs[a])}
Frozen == run.state = "interrupted" \/ (run.state = "blocked" /\ run.resume = "interrupted")
KeptCounted ==
    /\ kept \in 0 .. Room
    /\ Frozen \/ kept <= run.retrieved + Allowance * Cardinality(Owed(run, th))

(* ---- what is left of an execution that failed -------------------------- *)
Broken ==
    \/ run.state \in {"interrupted", "stopped"}
    \/ run.state = "blocked" /\ run.resume \in {"interrupted", "stopped"}
    \/ /\ run.state = "running"
       /\ \/ th[Main].pc \in {"idle", "recover"}
          \/ th[Main].pc = "finish" /\ th[Main].res = "interrupted"
          \/ th[Main].pc = "batch" /\ fatal
Unpublishing ==
    /\ run.state = "running"
    /\ \/ th[Main].pc = "publishing" \/ (th[Main].pc = "finish" /\ th[Main].res = "blocked")
       \/ /\ th[Main].pc = "batch"
          /\ \E t \in Task : th[t].pc = "publishing" \/ (th[t].pc = "end" /\ th[t].res # None)
HeldBy(i) ==
    \/ \E a \in Actor : th[a].at = i /\ th[a].pc \in {"call", "out", "answered"}
    \/ LeftOfALateTask(i)
    \/ run.attempts[i].by = Main /\ th[Main].pc = "dropping" /\ th[Main].res = "error"
Clean ==
    /\ run.pending # {} => run.state = "running"
    /\ run.asks # None => run.state = "paused"
    /\ run.resume # None => run.state = "blocked" /\ run.unpublished
    /\ run.unpublished => Broken \/ run.state = "blocked" \/ Unpublishing
    /\ \A t \in Task : run.tasks[t] = "running" => Broken \/ th[t].pc # "idle"
    /\ \A i \in Asked(run) : run.attempts[i].held => Broken \/ HeldBy(i)

IInv == Sound(run) /\ AllFit /\ InOrder /\ SentAreSaved /\ KeptCounted /\ Clean

-------------------------------------------------------------------------------
(* Sequences and sets of attempts.                                         *)

\* One attempt of the journal is replaced, or none where there is no such one.
LEMMA Replaced ==
  ASSUME NEW s \in Seq(Attempt), NEW i, NEW e, i \in 1 .. Len(s) => e \in Attempt
  PROVE  /\ [s EXCEPT ![i] = e] \in Seq(Attempt) /\ Len([s EXCEPT ![i] = e]) = Len(s)
         /\ \A k \in 1 .. Len(s) : [s EXCEPT ![i] = e][k] = IF k = i THEN e ELSE s[k]
  <1>1. CASE i \in 1 .. Len(s)
    BY <1>1, ExceptSeq
  <1>2. CASE i \notin 1 .. Len(s)
    <2>1. [s EXCEPT ![i] = e] = s
      BY <1>2
    <2> QED BY <1>2, <2>1
  <1> QED BY <1>1, <1>2

\* The journal's sets of attempts, written out.
LEMMA AttemptSets ==
  ASSUME NEW r \in Runs
  PROVE  /\ r.attempts \in Seq(Attempt) /\ DOMAIN r.attempts = Asked(r)
         /\ Len(r.attempts) \in Nat
         /\ \A i \in Asked(r) : r.attempts[i] \in Attempt
         /\ \A q : Prior(r, q) = {i \in Asked(r) : r.attempts[i].req = q}
         /\ \A k : Admitted(r, k) = Cardinality({i \in Asked(r) :
                        r.attempts[i].kind = k /\ r.attempts[i].st # "not-started"})
         /\ Reserved(r) = Allowance * Cardinality({i \in Asked(r) : r.attempts[i].held})
         /\ \A S : S \subseteq Asked(r) => IsFiniteSet(S) /\ Cardinality(S) \in Nat
  <1>1. r.attempts \in Seq(Attempt)
    BY DEF Runs
  <1>2. DOMAIN r.attempts = Asked(r) /\ Len(r.attempts) \in Nat
    BY <1>1 DEF Asked
  <1>3. \A i \in Asked(r) : r.attempts[i] \in Attempt
    BY <1>1 DEF Asked
  <1>4. IsFiniteSet(Asked(r))
    BY <1>2, FS_Interval DEF Asked
  <1>5. \A S : S \subseteq Asked(r) => IsFiniteSet(S) /\ Cardinality(S) \in Nat
    BY <1>4, FS_Subset, FS_CardinalityType
  <1> QED BY <1>1, <1>2, <1>3, <1>5 DEF Prior, Admitted, Reserved, Of

LEMMA AdmittedSet ==
  ASSUME NEW r \in Runs, NEW k
  PROVE  Admitted(r, k) = Cardinality({i \in Asked(r) : r.attempts[i].kind = k /\ r.attempts[i].st # "not-started"})
  BY AttemptSets

\* The latest of some attempts is one of them.
LEMMA LatestIn ==
  ASSUME NEW n \in Nat, NEW S, S \subseteq 1 .. n, S # {}
  PROVE  Latest(S) \in S /\ \A j \in S : j <= Latest(S)
  <1> DEFINE T == {n - i : i \in S}
  <1>1. T \subseteq Nat /\ T # {}
    <2>1. \A i \in S : n - i \in Nat
      OBVIOUS
    <2>2. T \subseteq Nat
      BY <2>1
    <2>3. PICK i \in S : TRUE
      OBVIOUS
    <2>4. n - i \in T
      BY <2>3
    <2> QED BY <2>2, <2>4
  <1>2. PICK x \in T : \A y \in T : <<y, x>> \notin OpToRel(<, Nat)
    BY <1>1, WFMin, NatLessThanWellFounded
  <1>3. \A y \in T : ~(y < x)
    BY <1>1, <1>2 DEF OpToRel
  <1>4. PICK i \in S : x = n - i
    OBVIOUS
  <1>5. \A j \in S : j <= i
    <2> SUFFICES ASSUME NEW j \in S PROVE j <= i
      OBVIOUS
    <2>1. n - j \in T
      OBVIOUS
    <2>2. ~(n - j < n - i)
      BY <1>3, <1>4, <2>1
    <2>3. i \in 1 .. n /\ j \in 1 .. n
      OBVIOUS
    <2> HIDE DEF T
    <2> QED BY ONLY n \in Nat, <2>2, <2>3
  <1>6. \E k \in S : \A j \in S : j <= k
    BY <1>5
  <1> QED BY <1>6 DEF Latest

\* What is left of the room, one reservation more or less.
LEMMA Times ==
  ASSUME NEW m \in Nat, NEW n \in Nat
  PROVE  m * n \in Nat /\ m * (n + 1) = m * n + m
  OBVIOUS
LEMMA TimesMore ==
  ASSUME NEW m \in Nat, NEW n \in Nat, NEW k \in Nat, n <= k
  PROVE  m * n <= m * k
  OBVIOUS

\* The same attempts, but for the marks that an AI's answer was rejected and
\* that a gap is continued past.
Alike(r, s) ==
    /\ Len(s.attempts) = Len(r.attempts)
    /\ \A i \in Asked(r) :
         /\ s.attempts[i] = [r.attempts[i] EXCEPT !.code = s.attempts[i].code, !.cont = s.attempts[i].cont]
         /\ r.attempts[i].kind # "model" => s.attempts[i].code = r.attempts[i].code

LEMMA AlikeFields ==
  ASSUME NEW r \in Runs, NEW s \in Runs, Alike(r, s)
  PROVE  /\ Asked(s) = Asked(r)
         /\ \A i \in Asked(r) :
              /\ s.attempts[i].kind = r.attempts[i].kind /\ s.attempts[i].req = r.attempts[i].req
              /\ s.attempts[i].by = r.attempts[i].by /\ s.attempts[i].st = r.attempts[i].st
              /\ s.attempts[i].number = r.attempts[i].number /\ s.attempts[i].next = r.attempts[i].next
              /\ s.attempts[i].held = r.attempts[i].held
              /\ r.attempts[i].kind # "model" => s.attempts[i].code = r.attempts[i].code
  <1>1. Asked(s) = Asked(r)
    BY DEF Alike, Asked
  <1>2. ASSUME NEW i \in Asked(r)
        PROVE  /\ r.attempts[i] \in Attempt
               /\ s.attempts[i] = [r.attempts[i] EXCEPT !.code = s.attempts[i].code, !.cont = s.attempts[i].cont]
               /\ r.attempts[i].kind # "model" => s.attempts[i].code = r.attempts[i].code
    BY AttemptSets DEF Alike
  <1>3. \A e \in Attempt : \A c, d :
          LET f == [e EXCEPT !.code = c, !.cont = d] IN
            /\ f.kind = e.kind /\ f.req = e.req /\ f.by = e.by /\ f.st = e.st
            /\ f.number = e.number /\ f.next = e.next /\ f.held = e.held
    BY DEF Attempt
  <1>4. ASSUME NEW i \in Asked(r)
        PROVE  /\ s.attempts[i].kind = r.attempts[i].kind /\ s.attempts[i].req = r.attempts[i].req
               /\ s.attempts[i].by = r.attempts[i].by /\ s.attempts[i].st = r.attempts[i].st
               /\ s.attempts[i].number = r.attempts[i].number /\ s.attempts[i].next = r.attempts[i].next
               /\ s.attempts[i].held = r.attempts[i].held
    <2> DEFINE e == r.attempts[i]
               c == s.attempts[i].code
               d == s.attempts[i].cont
    <2>1. e \in Attempt /\ s.attempts[i] = [e EXCEPT !.code = c, !.cont = d]
      BY <1>2
    <2> HIDE DEF c, d
    <2>2. LET f == [e EXCEPT !.code = c, !.cont = d] IN
            /\ f.kind = e.kind /\ f.req = e.req /\ f.by = e.by /\ f.st = e.st
            /\ f.number = e.number /\ f.next = e.next /\ f.held = e.held
      BY ONLY <2>1, <1>3
    <2> QED BY ONLY <2>1, <2>2
  <1> QED BY ONLY <1>1, <1>2, <1>4

LEMMA SoundAlike ==
  ASSUME NEW r, NEW s \in Runs, Sound(r), Alike(r, s), s.retrieved = r.retrieved,
         \A k \in Kinds : r.limits[k] <= s.limits[k],
         s.asks # None => \A k \in Kinds : s.limits[k] <= s.asks[k],
         s.pending \subseteq Asked(r)
  PROVE  Sound(s)
  <1>1. r \in Runs
    BY DEF Sound
  <1>2. Asked(s) = Asked(r)
    BY <1>1, AlikeFields
  <1>3. Reserved(s) = Reserved(r) /\ \A k : Admitted(s, k) = Admitted(r, k)
    <2>1. {i \in Asked(s) : s.attempts[i].held} = {i \in Asked(r) : r.attempts[i].held}
      BY <1>1, <1>2, AlikeFields
    <2>2. ASSUME NEW k
          PROVE  {i \in Asked(s) : s.attempts[i].kind = k /\ s.attempts[i].st # "not-started"}
                    = {i \in Asked(r) : r.attempts[i].kind = k /\ r.attempts[i].st # "not-started"}
      <3>1. \A i \in Asked(r) : s.attempts[i].kind = r.attempts[i].kind /\ s.attempts[i].st = r.attempts[i].st
        BY <1>1, AlikeFields
      <3> QED BY <1>2, <3>1
    <2>3. Reserved(s) = Reserved(r)
      BY <1>1, <2>1, AttemptSets
    <2>4. ASSUME NEW k PROVE Admitted(s, k) = Admitted(r, k)
      BY <1>1, <2>2, AdmittedSet
    <2> QED BY <2>3, <2>4
  <1>4. Bounded(s)
    <2> SUFFICES ASSUME NEW k \in Kinds PROVE Admitted(s, k) <= s.limits[k]
      BY <1>3 DEF Bounded, Sound
    <2>1. Admitted(r, k) \in Nat /\ r.limits[k] \in Nat /\ s.limits[k] \in Nat
      <3> DEFINE S == {i \in Asked(r) : r.attempts[i].kind = k /\ r.attempts[i].st # "not-started"}
      <3>1. Admitted(r, k) = Cardinality(S)
        BY <1>1, AttemptSets
      <3>2. Admitted(r, k) \in Nat
        <4>1. S \subseteq Asked(r)
          OBVIOUS
        <4> HIDE DEF S
        <4> QED BY <1>1, <3>1, <4>1, AttemptSets
      <3> QED BY <1>1, <3>2 DEF Runs, Limits
    <2> QED BY <1>3, <2>1 DEF Bounded, Sound
  <1>5. Kindly(s)
    BY <1>1, <1>2, AlikeFields DEF Kindly, Sound
  <1>6. Chained(s)
    <2> SUFFICES ASSUME NEW i \in Asked(r), NEW j \in Asked(r), i < j, s.attempts[i].req # None,
                        s.attempts[i].req = s.attempts[j].req
                 PROVE  /\ s.attempts[i].next # 0 /\ s.attempts[i].st = "uncertain"
                        /\ Retryable(s.attempts[i]) /\ s.attempts[i].number < s.attempts[j].number
      BY <1>2 DEF Chained
    <2>1. r.attempts[i].req # None /\ r.attempts[i].req = r.attempts[j].req /\ r.attempts[i].kind # "model"
      BY <1>1, AlikeFields DEF Sound, Kindly
    <2>2. /\ r.attempts[i].next # 0 /\ r.attempts[i].st = "uncertain" /\ Retryable(r.attempts[i])
          /\ r.attempts[i].number < r.attempts[j].number
      BY <2>1 DEF Sound, Chained
    <2> QED BY <1>1, <2>1, <2>2, AlikeFields DEF Retryable
  <1> QED BY <1>2, <1>4, <1>5, <1>6 DEF Sound

\* The journal with other attempts, and no other change or what is retrieved.
Rewrites(r, u, s, n) ==
    /\ u.attempts = s /\ u.retrieved = n /\ u.pending = r.pending /\ u.limits = r.limits /\ u.asks = r.asks
    /\ u.state = r.state /\ u.resume = r.resume /\ u.unpublished = r.unpublished /\ u.tasks = r.tasks
    /\ u.stop = r.stop /\ u.step = r.step /\ u.final = r.final
LEMMA Rewritten ==
  ASSUME NEW r \in Runs, NEW s \in Seq(Attempt)
  PROVE  /\ [r EXCEPT !.attempts = s] \in Runs
         /\ Rewrites(r, [r EXCEPT !.attempts = s], s, r.retrieved)
  <1>1. [r EXCEPT !.attempts = s] \in Runs
    BY DEF Runs
  <1>2. Rewrites(r, [r EXCEPT !.attempts = s], s, r.retrieved)
    BY DEF Runs, Rewrites
  <1> QED BY <1>1, <1>2
LEMMA RewrittenToo ==
  ASSUME NEW r \in Runs, NEW s \in Seq(Attempt), NEW n \in Nat
  PROVE  /\ [r EXCEPT !.retrieved = n, !.attempts = s] \in Runs
         /\ Rewrites(r, [r EXCEPT !.retrieved = n, !.attempts = s], s, n)
  <1>1. [r EXCEPT !.retrieved = n, !.attempts = s] \in Runs
    BY DEF Runs
  <1>2. Rewrites(r, [r EXCEPT !.retrieved = n, !.attempts = s], s, n)
    BY DEF Runs, Rewrites
  <1> QED BY <1>1, <1>2

\* Steps that leave the attempts alone, or only mark one.
LEMMA AlikeSame ==
  ASSUME NEW r \in Runs, NEW s, s.attempts = r.attempts
  PROVE  Alike(r, s)
  <1>1. \A i \in Asked(r) : r.attempts[i] \in Attempt
    BY AttemptSets
  <1>2. \A i \in Asked(r) :
          r.attempts[i] = [r.attempts[i] EXCEPT !.code = r.attempts[i].code, !.cont = r.attempts[i].cont]
    BY <1>1 DEF Attempt
  <1> QED BY <1>2 DEF Alike

LEMMA RejectedAlike ==
  ASSUME NEW i, run \in Runs, i \in Asked(run) => run.attempts[i].kind = "model"
  PROVE  Rejected(i) \in Runs /\ Alike(run, Rejected(i))
  <1> DEFINE e == [run.attempts[i] EXCEPT !.code = "rejected"]
             s == [run.attempts EXCEPT ![i] = e]
  <1>1. run.attempts \in Seq(Attempt) /\ Len(run.attempts) \in Nat /\ \A k \in Asked(run) : run.attempts[k] \in Attempt
    BY AttemptSets
  <1>2. i \in 1 .. Len(run.attempts) => e \in Attempt
    BY <1>1 DEF Asked, Attempt, Codes
  <1>3. /\ s \in Seq(Attempt) /\ Len(s) = Len(run.attempts)
        /\ \A k \in 1 .. Len(run.attempts) : s[k] = IF k = i THEN e ELSE run.attempts[k]
    BY <1>1, <1>2, Replaced
  <1>4. Rejected(i) = [run EXCEPT !.attempts = s]
    BY DEF Rejected, Runs
  <1>5. Rejected(i) \in Runs /\ Rejected(i).attempts = s
    <2> HIDE DEF s
    <2>1. [run EXCEPT !.attempts = s] \in Runs
      BY <1>3, Rewritten
    <2>2. [run EXCEPT !.attempts = s].attempts = s
      BY DEF Runs
    <2> QED BY <1>4, <2>1, <2>2
  <1>6. ASSUME NEW k \in Asked(run)
        PROVE  /\ s[k] = [run.attempts[k] EXCEPT !.code = s[k].code, !.cont = s[k].cont]
               /\ run.attempts[k].kind # "model" => s[k].code = run.attempts[k].code
    <2>1. run.attempts[k] \in Attempt /\ s[k] = IF k = i THEN e ELSE run.attempts[k]
      BY <1>1, <1>3 DEF Asked
    <2>2. CASE k = i
      <3>1. /\ s[k] = e /\ e = [run.attempts[k] EXCEPT !.code = e.code, !.cont = e.cont]
            /\ run.attempts[k].kind # "model" => e.code = run.attempts[k].code
        BY <2>1, <2>2 DEF Attempt
      <3> QED BY <3>1
    <2>3. CASE k # i
      <3>1. s[k] = run.attempts[k]
        BY <2>1, <2>3
      <3>2. run.attempts[k] = [run.attempts[k] EXCEPT !.code = run.attempts[k].code, !.cont = run.attempts[k].cont]
        BY <2>1 DEF Attempt
      <3> QED BY <3>1, <3>2
    <2> QED BY <2>2, <2>3
  <1> QED BY <1>3, <1>5, <1>6 DEF Alike

LEMMA ContinuedAlike ==
  ASSUME NEW i, run \in Runs
  PROVE  LET s == [run EXCEPT !.attempts[i].cont = TRUE] IN s \in Runs /\ Alike(run, s)
  <1> DEFINE e == [run.attempts[i] EXCEPT !.cont = TRUE]
             s == [run.attempts EXCEPT ![i] = e]
             n == [run EXCEPT !.attempts[i].cont = TRUE]
  <1>1. run.attempts \in Seq(Attempt) /\ Len(run.attempts) \in Nat /\ \A k \in Asked(run) : run.attempts[k] \in Attempt
    BY AttemptSets
  <1>2. i \in 1 .. Len(run.attempts) => e \in Attempt
    BY <1>1 DEF Asked, Attempt
  <1>3. /\ s \in Seq(Attempt) /\ Len(s) = Len(run.attempts)
        /\ \A k \in 1 .. Len(run.attempts) : s[k] = IF k = i THEN e ELSE run.attempts[k]
    BY <1>1, <1>2, Replaced
  <1>4. n = [run EXCEPT !.attempts = s]
    BY DEF Runs
  <1>5. n \in Runs /\ n.attempts = s
    BY <1>3, <1>4 DEF Runs
  <1>6. ASSUME NEW k \in Asked(run)
        PROVE  /\ s[k] = [run.attempts[k] EXCEPT !.code = s[k].code, !.cont = s[k].cont]
               /\ run.attempts[k].kind # "model" => s[k].code = run.attempts[k].code
    <2>1. run.attempts[k] \in Attempt /\ s[k] = IF k = i THEN e ELSE run.attempts[k]
      BY <1>1, <1>3 DEF Asked
    <2>2. CASE k = i
      <3>1. /\ s[k] = e /\ e = [run.attempts[k] EXCEPT !.code = e.code, !.cont = e.cont]
            /\ run.attempts[k].kind # "model" => e.code = run.attempts[k].code
        BY <2>1, <2>2 DEF Attempt
      <3> QED BY <3>1
    <2>3. CASE k # i
      <3>1. s[k] = run.attempts[k]
        BY <2>1, <2>3
      <3>2. run.attempts[k] = [run.attempts[k] EXCEPT !.code = run.attempts[k].code, !.cont = run.attempts[k].cont]
        BY <2>1 DEF Attempt
      <3> QED BY <3>1, <3>2
    <2> QED BY <2>2, <2>3
  <1> QED BY <1>3, <1>5, <1>6 DEF Alike

LEMMA FitsAlike ==
  ASSUME NEW r \in Runs, NEW s \in Runs, Alike(r, s), NEW a \in Actor, NEW j
  PROVE  /\ Fits(a, j, r) => Fits(a, j, s)
         /\ LastIsTheAIs(j, r) => LastIsTheAIs(j, s)
  <1>1. Len(s.attempts) = Len(r.attempts) /\ Len(r.attempts) \in Nat
    BY AttemptSets DEF Alike
  <1>2. \A i \in 1 .. Len(r.attempts) :
          /\ s.attempts[i].kind = r.attempts[i].kind /\ s.attempts[i].req = r.attempts[i].req
          /\ s.attempts[i].by = r.attempts[i].by /\ s.attempts[i].st = r.attempts[i].st
          /\ s.attempts[i].held = r.attempts[i].held
    BY AlikeFields DEF Asked
  <1>3. ASSUME Fits(a, j, r) PROVE Fits(a, j, s)
    <2>1. j \in Jobs /\ {j.at, j.after} \subseteq 0 .. Len(r.attempts)
      BY <1>3 DEF Fits
    <2>2. j.at # 0 => j.at \in 1 .. Len(r.attempts)
      BY <1>1, <2>1
    <2>3. j.after # 0 => j.after \in 1 .. Len(r.attempts)
      BY <1>1, <2>1
    <2>4. j.pc \in AtWork => j.at # 0
      BY <1>3 DEF Fits
    <2> QED BY <1>1, <1>2, <1>3, <2>1, <2>2, <2>3, <2>4 DEF Fits, AtWork
  <1>4. ASSUME LastIsTheAIs(j, r) PROVE LastIsTheAIs(j, s)
    BY <1>1, <1>2, <1>4 DEF LastIsTheAIs
  <1> QED BY <1>3, <1>4

-------------------------------------------------------------------------------
(* Steps of an actor that has no request under way.                        *)

\* Its request is under way.
Flying == {"call", "queued", "send", "out", "answered"}
\* Only marks of attempts, the schedule of retries, and how far the run is.
Quiet(r, s) ==
    /\ s \in Runs /\ Alike(r, s) /\ s.pending \subseteq Asked(r)
    /\ s.retrieved = r.retrieved /\ s.limits = r.limits /\ s.asks = r.asks
    /\ s.state = r.state /\ s.resume = r.resume

LEMMA QuietSound ==
  ASSUME NEW r, NEW s, Sound(r), Quiet(r, s)
  PROVE  Sound(s)
  <1>1. \A k \in Kinds : r.limits[k] <= s.limits[k]
    BY DEF Sound, Quiet, Runs, Limits
  <1>2. s.asks # None => \A k \in Kinds : s.limits[k] <= s.asks[k]
    BY DEF Sound, Quiet, Bounded
  <1> QED BY <1>1, <1>2, SoundAlike DEF Quiet

\* The same attempts are waited for, and the same ones are owed for.
LEMMA OwedKept ==
  ASSUME IInv, NEW a \in Actor, NEW j \in Jobs, th' = [th EXCEPT ![a] = j],
         run' \in Runs, Alike(run, run'),
         th[a].pc \notin Flying, j.pc \notin Flying
  PROVE  Owed(run', th') = Owed(run, th)
  <1>1. run \in Runs /\ th \in [Actor -> Jobs]
    BY DEF IInv, Sound, AllFit
  <1>2. \A b \in Actor : b # a => th'[b] = th[b]
    BY <1>1
  <1>3. ~Waits(th[a]) /\ ~Waits(th'[a])
    BY <1>1 DEF Waits, Flying
  <1>4. Asked(run') = Asked(run) /\ \A i \in Asked(run) : run'.attempts[i].held = run.attempts[i].held
    BY <1>1, AlikeFields
  <1> QED BY <1>2, <1>3, <1>4 DEF Owed

LEMMA CalmStep ==
  ASSUME IInv, NEW a \in Actor, NEW j \in Jobs, th' = [th EXCEPT ![a] = j], Quiet(run, run'),
         th[a].pc \notin Flying, j.pc \notin Flying,
         Fits(a, j, run), a = Main => LastIsTheAIs(j, run), Blank(j),
         UNCHANGED <<lease, sent, kept, dead>>,
         fatal' \in BOOLEAN, late' \subseteq Task, faults' \in Nat, faults' >= faults,
         a = Main => /\ th[Main].pc \notin Ahead \cup {"recover"} /\ j.pc \notin Ahead \cup {"recover"}
                     /\ th[Main].pc = "batch" => \A t \in Task : th[t].pc = "idle",
         a \in Task => th[Main].pc = "batch",
         run'.unpublished => Broken' \/ Unpublishing',
         \A t \in Task : run'.tasks[t] = "running" => Broken' \/ th'[t].pc # "idle",
         a = Main /\ th[Main].pc = "dropping" /\ th[Main].res = "error" => Broken',
         Broken => Broken'
  PROVE  IInv'
  <1> DEFINE r == run'
  <1>1. run \in Runs /\ th \in [Actor -> Jobs] /\ run' \in Runs /\ Main \in Actor /\ Main \notin Task
    BY ResearchAssumption DEF IInv, Sound, AllFit, Quiet, Actor
  <1>2. th' \in [Actor -> Jobs] /\ th'[a] = j /\ \A b \in Actor : b # a => th'[b] = th[b]
    BY <1>1
  <1>3. Sound(run')
    BY QuietSound DEF IInv
  <1>4. AllFit'
    <2>1. \A b \in Actor : Fits(b, th'[b], run)
      BY <1>2 DEF IInv, AllFit
    <2>2. LastIsTheAIs(th'[Main], run)
      BY <1>1, <1>2 DEF IInv, AllFit
    <2>3. \A b \in Actor : Fits(b, th'[b], run')
      BY <1>1, <2>1, FitsAlike DEF Quiet
    <2>4. LastIsTheAIs(th'[Main], run')
      BY <1>1, <2>2, FitsAlike DEF Quiet
    <2> QED BY <1>2, <2>3, <2>4 DEF AllFit
  <1>5. run.state = "running"
    BY <1>1 DEF IInv, InOrder, Actor, Ahead
  <1>6. InOrder'
    <2>1. run'.state = "running"
      BY <1>5 DEF Quiet
    <2>2. \A b \in Actor : Blank(th'[b])
      BY <1>2 DEF IInv, InOrder
    <2>3. CASE a = Main
      BY <1>1, <1>2, <2>1, <2>2, <2>3 DEF IInv, InOrder, Ahead, Actor
    <2>4. CASE a \in Task
      BY <1>1, <1>2, <2>1, <2>2, <2>4 DEF IInv, InOrder, Ahead, Actor
    <2> QED BY <2>3, <2>4 DEF Actor
  <1>7. Asked(run') = Asked(run)
    BY <1>1, AlikeFields DEF Quiet
  <1>8. SentAreSaved'
    <2>1. \A i \in Asked(run) : run'.attempts[i].st = run.attempts[i].st
      BY <1>1, AlikeFields DEF Quiet
    <2>2. \A b \in Actor : th'[b].pc = "call" => th'[b].at \notin sent
      BY <1>2 DEF IInv, SentAreSaved, Flying
    <2> QED BY <1>7, <2>1, <2>2 DEF IInv, SentAreSaved
  <1>9. KeptCounted'
    <2>1. Owed(run', th') = Owed(run, th)
      BY <1>1, OwedKept DEF Quiet
    <2>2. Frozen' <=> Frozen
      BY DEF Frozen, Quiet
    <2> QED BY <2>1, <2>2 DEF IInv, KeptCounted, Quiet
  <1>10. Clean'
    <2>1. ASSUME NEW i \in Asked(run), run'.attempts[i].held, ~Broken'
          PROVE  HeldBy(i)'
      <3>1. run.attempts[i].held /\ run'.attempts[i].by = run.attempts[i].by
            /\ run'.attempts[i].st = run.attempts[i].st
        BY <1>1, <2>1, AlikeFields DEF Quiet
      <3>2. HeldBy(i)
        BY <2>1, <3>1 DEF IInv, Clean
      <3>3. ASSUME NEW b \in Actor, th[b].at = i, th[b].pc \in {"call", "out", "answered"}
            PROVE  HeldBy(i)'
        <4>1. b # a
          BY <3>3 DEF Flying
        <4> QED BY <1>2, <3>3, <4>1 DEF HeldBy
      <3>4. ASSUME LeftOfALateTask(i) PROVE HeldBy(i)'
        BY <3>1, <3>4 DEF HeldBy, LeftOfALateTask, IInv, InOrder
      <3>5. ASSUME run.attempts[i].by = Main, th[Main].pc = "dropping", th[Main].res = "error"
            PROVE  HeldBy(i)'
        <4>1. a # Main
          BY <2>1, <3>5
        <4> QED BY <1>1, <1>2, <3>1, <3>5, <4>1 DEF HeldBy
      <3> QED BY <3>2, <3>3, <3>4, <3>5 DEF HeldBy
    <2>2. /\ run'.pending # {} => run'.state = "running"
          /\ run'.asks # None => run'.state = "paused"
          /\ run'.resume # None => run'.state = "blocked" /\ run'.unpublished
      BY <1>5 DEF Quiet, IInv, Clean
    <2> QED BY <1>7, <2>1, <2>2 DEF Clean
  <1> QED BY <1>3, <1>4, <1>6, <1>8, <1>9, <1>10 DEF IInv

\* A job without a request to make: it is over, or it is the old one's.
Rests(old, j) ==
    /\ j \in Jobs /\ j.pc \notin AtWork \cup {"begin", "dropping"}
    /\ j.pc = "finish" => j.res \in Settled \ {"completed-with-gaps"}
    /\ j.pc = "batch" => j.res \in {"asking", "head"}
    /\ j.pc \in {"look", "failing"} => Sourcing(j)
    /\ \/ j.at = 0 /\ j.after = 0
       \/ j.at = old.at /\ j.after = old.after /\ j.kind = old.kind /\ j.req = old.req

LEMMA RestsFits ==
  ASSUME NEW a, NEW old, NEW j, NEW r, Fits(a, old, r), Rests(old, j), Len(r.attempts) \in Nat
  PROVE  Fits(a, j, r)
  BY DEF Fits, Rests, AtWork

\* The worker goes on, and nothing but its own job and the journal changes.
Same(r, s) ==
    /\ Quiet(r, s) /\ (s.unpublished => r.unpublished)
    /\ \A t \in Task : s.tasks[t] = "running" => r.tasks[t] = "running"
Beside ==
    /\ Same(run, run')
    /\ UNCHANGED <<lease, dead, fatal, late, sent, kept>> /\ faults' \in {faults, faults + 1}
Within(a, j) == th' = [th EXCEPT ![a] = j] /\ Beside
Outer == {"idle", "recover", "publish", "start", "last", "batch", "publishing", "finish", "end"}

LEMMA NeutralStep ==
  ASSUME IInv, NEW a \in Actor, NEW j \in Jobs, Within(a, j),
         th[a].pc \notin Flying \cup Outer, j.pc \notin Flying \cup Ahead \cup {"recover"},
         Fits(a, j, run), a = Main => LastIsTheAIs(j, run),
         th[a].pc = "dropping" /\ th[a].res = "error" /\ a = Main => j.pc = "finish" /\ j.res = "interrupted"
  PROVE  IInv'
  <1>1. /\ th \in [Actor -> Jobs] /\ Main \in Actor /\ Main \notin Task /\ (a = Main \/ a \in Task)
        /\ th'[a] = j /\ \A b \in Actor : b # a => th'[b] = th[b]
    BY ResearchAssumption DEF IInv, AllFit, Actor, Within, Beside, Same
  <1>2. a \in Task => th[Main].pc = "batch"
    BY DEF IInv, InOrder, Outer
  <1>3. /\ fatal' \in BOOLEAN /\ late' \subseteq Task /\ faults' \in Nat /\ faults' >= faults
        /\ run'.state = run.state /\ run'.resume = run.resume
    BY DEF IInv, InOrder, Within, Beside, Same, Quiet
  <1>4. run.state = "running"
    BY <1>1, <1>2 DEF IInv, InOrder, Ahead, Outer
  <1>5. Broken => Broken'
    <2>1. CASE a = Main
      BY <1>3, <1>4, <2>1 DEF Broken, Outer
    <2>2. CASE a \in Task
      <3>1. th'[Main] = th[Main]
        BY <1>1, <2>2
      <3> QED BY <1>3, <2>2, <3>1 DEF Broken, Within, Beside, Same
    <2> QED BY <1>1, <2>1, <2>2
  <1>6. run'.unpublished => Broken' \/ Unpublishing'
    <2>1. CASE a = Main
      BY <1>3, <1>4, <1>5, <2>1 DEF IInv, Clean, Unpublishing, Within, Beside, Same, Outer
    <2>2. CASE a \in Task
      <3>1. \A t \in Task : th[t].pc \in {"publishing", "end"} => th'[t] = th[t]
        BY <1>1 DEF Outer, Actor
      <3>2. Unpublishing => Unpublishing'
        <4>1. th'[Main] = th[Main]
          BY <1>1, <2>2
        <4> QED BY <1>2, <1>3, <2>2, <3>1, <4>1 DEF Unpublishing
      <3> QED BY <1>4, <1>5, <3>2 DEF IInv, Clean, Within, Beside, Same
    <2> QED BY <1>1, <2>1, <2>2
  <1>7. ASSUME NEW t \in Task, run'.tasks[t] = "running"
        PROVE  Broken' \/ th'[t].pc # "idle"
    <2>1. Broken \/ th[t].pc # "idle"
      BY <1>7 DEF IInv, Clean, Within, Beside, Same
    <2>2. th[t].pc # "idle" => th'[t].pc # "idle"
      BY <1>1 DEF Actor, Ahead
    <2> QED BY <1>5, <2>1, <2>2
  <1>8. a = Main /\ th[Main].pc = "dropping" /\ th[Main].res = "error" => Broken'
    BY <1>1, <1>3, <1>4 DEF Broken
  <1> QED BY <1>1, <1>2, <1>3, <1>5, <1>6, <1>7, <1>8, CalmStep DEF Within, Beside, Same, Outer, Ahead, Blank

\* The forms in which an actor's job changes.
Resting == Pcs \ (AtWork \cup {"begin", "dropping", "batch", "look", "failing"})
LEMMA EndsRests ==
  ASSUME NEW a \in Actor, NEW pc \in Resting, NEW res \in Results,
         pc = "finish" => res \in Settled \ {"completed-with-gaps"}
  PROVE  \E j : Ends(a, pc, res) = [th EXCEPT ![a] = j] /\ Rests(th[a], j) /\ j.pc = pc /\ j.res = res
  <1> DEFINE j == [Idle EXCEPT !.pc = pc, !.res = res]
  <1>1. Ends(a, pc, res) = [th EXCEPT ![a] = j]
    BY DEF Ends, As
  <1>2. j \in Jobs /\ j.pc = pc /\ j.res = res /\ j.at = 0 /\ j.after = 0
    BY DEF Idle, Jobs, Resting
  <1>3. Rests(th[a], j)
    BY <1>2 DEF Rests, Resting
  <1> QED BY <1>1, <1>2, <1>3

LEMMA GoesRests ==
  ASSUME NEW a \in Actor, NEW pc \in Resting \ {"finish"}
  PROVE  \E j : Goes(a, pc) = [th EXCEPT ![a] = j] /\ Rests(th[a], j) /\ j.pc = pc /\ j.res = None
  BY EndsRests DEF Goes, Results

LEMMA WithRests ==
  ASSUME NEW a \in Actor, th[a] \in Jobs, NEW pc \in Resting \ {"finish"}, NEW res \in Results
  PROVE  /\ \E j : With(a, pc, res) = [th EXCEPT ![a] = j] /\ Rests(th[a], j) /\ j.pc = pc /\ j.res = res
         /\ \E j : At(a, pc) = [th EXCEPT ![a] = j] /\ Rests(th[a], j) /\ j.pc = pc
  <1> DEFINE w == [th[a] EXCEPT !.pc = pc, !.res = res]
             p == [th[a] EXCEPT !.pc = pc]
  <1>1. /\ w \in Jobs /\ w.pc = pc /\ w.res = res
        /\ w.at = th[a].at /\ w.after = th[a].after /\ w.kind = th[a].kind /\ w.req = th[a].req
    BY DEF Jobs, Resting
  <1>2. /\ p \in Jobs /\ p.pc = pc
        /\ p.at = th[a].at /\ p.after = th[a].after /\ p.kind = th[a].kind /\ p.req = th[a].req
    BY DEF Jobs, Resting
  <1>3. Rests(th[a], w) /\ Rests(th[a], p)
    BY <1>1, <1>2 DEF Rests, Resting
  <1>4. With(a, pc, res) = [th EXCEPT ![a] = w] /\ At(a, pc) = [th EXCEPT ![a] = p]
    BY DEF With, At
  <1> QED BY <1>1, <1>2, <1>3, <1>4

\* Where an actor goes on when its attempt returned.
LEMMA ReturnedJob ==
  ASSUME th \in [Actor -> Jobs], NEW a \in Actor, NEW o \in Results,
         th[a].kind # "model" => Sourcing(th[a])
  PROVE  \E j : /\ Returned(a, o) = [th EXCEPT ![a] = j] /\ Rests(th[a], j)
                /\ j.pc \in {"stepping", "act", "finish", "end", "retaining", "failing", "continuing", "finalizing"}
                /\ j.pc = "stepping" => a = Main /\ o = "ok" /\ th[a].kind = "model"
                /\ a = Main => j.pc # "act"
                /\ a = Main /\ o \notin {"ok", "gap", "limit"} => j.pc = "finish" /\ j.res = "interrupted"
                /\ a \in Task => j.pc # "finish"
  <1> DEFINE Good(j) ==
        /\ Returned(a, o) = [th EXCEPT ![a] = j] /\ Rests(th[a], j)
        /\ j.pc \in {"stepping", "act", "finish", "end", "retaining", "failing", "continuing", "finalizing"}
        /\ j.pc = "stepping" => a = Main /\ o = "ok" /\ th[a].kind = "model"
        /\ a = Main => j.pc # "act"
        /\ a = Main /\ o \notin {"ok", "gap", "limit"} => j.pc = "finish" /\ j.res = "interrupted"
        /\ a \in Task => j.pc # "finish"
  <1>1. /\ {"stepping", "act", "end", "retaining", "continuing", "finalizing"} \subseteq Resting \ {"finish"}
        /\ "finish" \in Resting /\ {None, "interrupted"} \subseteq Results
        /\ "interrupted" \in Settled \ {"completed-with-gaps"} /\ Main \notin Task
        /\ (a = Main \/ a \in Task) /\ th[a] \in Jobs
    BY ResearchAssumption DEF Pcs, Resting, AtWork, Results, Settled, Actor
  <1>2. CASE th[a].kind = "model" /\ o = "ok"
    <2>1. Returned(a, o) = Goes(a, IF a = Main THEN "stepping" ELSE "act")
      BY <1>2 DEF Returned
    <2> DEFINE pc == IF a = Main THEN "stepping" ELSE "act"
    <2>2. pc \in Resting \ {"finish"} /\ Returned(a, o) = Goes(a, pc)
      BY <1>1, <2>1
    <2>3. (pc = "stepping" => a = Main) /\ (a = Main => pc # "act") /\ pc \in {"stepping", "act"}
      BY <1>1
    <2> HIDE DEF pc
    <2>4. PICK j : Returned(a, o) = [th EXCEPT ![a] = j] /\ Rests(th[a], j) /\ j.pc = pc
      BY <2>2, GoesRests
    <2> QED BY <1>1, <1>2, <2>3, <2>4
  <1>3. CASE th[a].kind = "model" /\ o # "ok" /\ a = Main
    <2>1. Returned(a, o) = Ends(a, "finish", "interrupted")
      BY <1>1, <1>3 DEF Returned
    <2>2. PICK j : Returned(a, o) = [th EXCEPT ![a] = j] /\ Rests(th[a], j) /\ j.pc = "finish" /\ j.res = "interrupted"
      BY <1>1, <2>1, EndsRests
    <2> QED BY <1>1, <1>3, <2>2
  <1>4. CASE th[a].kind = "model" /\ o # "ok" /\ a # Main
    <2>1. Returned(a, o) = Ends(a, "end", None)
      BY <1>1, <1>4 DEF Returned
    <2>2. PICK j : Returned(a, o) = [th EXCEPT ![a] = j] /\ Rests(th[a], j) /\ j.pc = "end"
      BY <1>1, <2>1, EndsRests
    <2> QED BY <1>1, <1>4, <2>2
  <1>5. CASE th[a].kind # "model" /\ o = "ok"
    <2>1. Returned(a, o) = Goes(a, "retaining")
      BY <1>1, <1>5 DEF Returned
    <2>2. PICK j : Returned(a, o) = [th EXCEPT ![a] = j] /\ Rests(th[a], j) /\ j.pc = "retaining"
      BY <1>1, <2>1, GoesRests
    <2> QED BY <1>1, <1>5, <2>2
  <1>6. CASE th[a].kind # "model" /\ o # "ok" /\ a \in Task
    <2>1. Returned(a, o) = With(a, "failing", o)
      BY <1>1, <1>6 DEF Returned
    <2>2. PICK j : Returned(a, o) = [th EXCEPT ![a] = j] /\ Rests(th[a], j) /\ j.pc = "failing"
      <3> DEFINE w == [th[a] EXCEPT !.pc = "failing", !.res = o]
      <3>1. Returned(a, o) = [th EXCEPT ![a] = w]
        BY <1>1, <2>1 DEF With
      <3>2. /\ w \in Jobs /\ w.pc = "failing" /\ w.at = th[a].at /\ w.after = th[a].after
            /\ w.kind = th[a].kind /\ w.req = th[a].req
        BY <1>1 DEF Jobs, Pcs
      <3> HIDE DEF w
      <3>3. Rests(th[a], w)
        BY <1>6, <3>2 DEF Rests, AtWork, Sourcing
      <3> QED BY <3>1, <3>2, <3>3
    <2> QED BY <1>1, <1>6, <2>2
  <1>7. CASE th[a].kind # "model" /\ o = "gap" /\ a = Main
    <2>1. Returned(a, o) = At(a, "continuing")
      BY <1>1, <1>7 DEF Returned
    <2>2. PICK j : Returned(a, o) = [th EXCEPT ![a] = j] /\ Rests(th[a], j) /\ j.pc = "continuing"
      BY <1>1, <2>1, WithRests
    <2> QED BY <1>1, <1>7, <2>2
  <1>8. CASE th[a].kind # "model" /\ o = "limit" /\ a = Main
    <2>1. Returned(a, o) = Goes(a, "finalizing")
      BY <1>1, <1>8 DEF Returned
    <2>2. PICK j : Returned(a, o) = [th EXCEPT ![a] = j] /\ Rests(th[a], j) /\ j.pc = "finalizing"
      BY <1>1, <2>1, GoesRests
    <2> QED BY <1>1, <1>8, <2>2
  <1>9. CASE th[a].kind # "model" /\ o \notin {"ok", "gap", "limit"} /\ a = Main
    <2>1. Returned(a, o) = Ends(a, "finish", "interrupted")
      BY <1>1, <1>9 DEF Returned
    <2>2. PICK j : Returned(a, o) = [th EXCEPT ![a] = j] /\ Rests(th[a], j) /\ j.pc = "finish" /\ j.res = "interrupted"
      BY <1>1, <2>1, EndsRests
    <2> QED BY <1>1, <1>9, <2>2
  <1> QED BY <1>1, <1>2, <1>3, <1>4, <1>5, <1>6, <1>7, <1>8, <1>9

LEMMA SameRun ==
  ASSUME IInv
  PROVE  /\ run \in Runs /\ Same(run, run)
         /\ \A s \in Runs : /\ s.attempts = run.attempts /\ s.pending \subseteq Asked(run)
                           /\ s.retrieved = run.retrieved /\ s.limits = run.limits /\ s.asks = run.asks
                           /\ s.state = run.state /\ s.resume = run.resume
                           => Quiet(run, s)
  BY AlikeSame DEF IInv, Sound, Same, Quiet

\* An Update of the journal that changes nothing the others rely on.
LEMMA Committed ==
  ASSUME IInv, NEW next, Same(run, next), NEW ok, NEW failed, Frame, Commit(next, ok, failed)
  PROVE  Beside /\ (th' = ok \/ th' = failed)
  <1>1. run' \in {run, next} /\ faults' \in {faults, faults + 1} /\ (th' = ok \/ th' = failed)
    BY DEF Commit, IInv, InOrder
  <1> QED BY <1>1, SameRun DEF Beside, Frame

LEMMA Moved ==
  ASSUME IInv, NEW next, Frame, Moves(next)
  PROVE  Beside /\ th' = next
  BY SameRun DEF Beside, Frame, Moves

LEMMA RestStep ==
  ASSUME IInv, NEW a \in Actor, NEW j, Beside, th' = [th EXCEPT ![a] = j], Rests(th[a], j),
         th[a].pc \notin Flying \cup Outer, j.pc \notin Ahead \cup {"recover"},
         a = Main /\ j.pc \in {"stepping", "act", "rejecting"} => th[a].pc \in {"stepping", "act", "rejecting"},
         th[a].pc = "dropping" /\ th[a].res = "error" /\ a = Main => j.pc = "finish" /\ j.res = "interrupted"
  PROVE  IInv'
  <1>1. j \in Jobs /\ j.pc \notin Flying
    BY DEF Rests, AtWork, Flying
  <1>2. Fits(a, j, run)
    BY RestsFits, AttemptSets DEF IInv, AllFit, Sound
  <1>3. a = Main => LastIsTheAIs(j, run)
    BY DEF IInv, AllFit, LastIsTheAIs, Rests
  <1> QED BY <1>1, <1>2, <1>3, NeutralStep DEF Within

\* An attempt returns without an answer that was not there before.
LEMMA ReturnStep ==
  ASSUME IInv, NEW a \in Actor, NEW o \in Results, Beside, th' = Returned(a, o),
         th[a].pc \in {"begin", "dropping", "deciding"}, o = "ok" => th[a].kind # "model",
         th[a].pc = "dropping" /\ th[a].res = "error" /\ a = Main => o = "error"
  PROVE  IInv'
  <1>1. /\ th \in [Actor -> Jobs] /\ th[a].pc \notin Flying \cup Outer
        /\ th[a].kind # "model" => Sourcing(th[a])
    BY DEF IInv, AllFit, Flying, Outer, Fits, AtWork, Sourcing, Kinds
  <1>2. PICK j : /\ Returned(a, o) = [th EXCEPT ![a] = j] /\ Rests(th[a], j)
                 /\ j.pc \in {"stepping", "act", "finish", "end", "retaining", "failing", "continuing", "finalizing"}
                 /\ j.pc = "stepping" => a = Main /\ o = "ok" /\ th[a].kind = "model"
                 /\ a = Main => j.pc # "act"
                 /\ a = Main /\ o \notin {"ok", "gap", "limit"} => j.pc = "finish" /\ j.res = "interrupted"
    BY <1>1, ReturnedJob
  <1>3. /\ th' = [th EXCEPT ![a] = j] /\ Rests(th[a], j) /\ j.pc \notin Ahead \cup {"recover"}
        /\ a = Main => j.pc \notin {"stepping", "act", "rejecting"}
    BY <1>2 DEF Ahead
  <1>4. th[a].pc = "dropping" /\ th[a].res = "error" /\ a = Main => j.pc = "finish" /\ j.res = "interrupted"
    BY <1>2
  <1> QED BY <1>1, <1>3, <1>4, RestStep

LEMMA DropsKeeps ==
  ASSUME IInv, NEW a \in Actor, Drops(a)
  PROVE  IInv'
  <1> DEFINE after == IF th[a].after # 0 THEN th[a].after ELSE th[a].at
             next == [run EXCEPT !.pending = @ \ {after}]
  <1>1. th[a].pc = "dropping" /\ Frame /\ Commit(next, Returned(a, th[a].res), Returned(a, "error"))
    BY DEF Drops
  <1>2. th[a] \in Jobs /\ th[a].kind # "model"
    BY <1>1 DEF IInv, AllFit, Fits
  <1>3. Same(run, next)
    BY SameRun DEF Runs, Same, IInv, Sound
  <1>4. Beside /\ (th' = Returned(a, th[a].res) \/ th' = Returned(a, "error"))
    BY <1>1, <1>3, Committed
  <1>5. th[a].res \in Results /\ "error" \in Results /\ th[a].pc \notin Flying \cup Outer
    BY <1>1, <1>2 DEF Jobs, Results, Flying, Outer
  <1> QED BY <1>1, <1>2, <1>4, <1>5, ReturnStep

LEMMA RetriesKeeps ==
  ASSUME IInv, NEW a \in Actor, Retries(a)
  PROVE  IInv'
  <1>1. /\ th[a].pc = "waiting" /\ Frame
        /\ Moves(IF Alive(a) THEN [th EXCEPT ![a].pc = "begin", ![a].after = th[a].at]
                 ELSE With(a, "dropping", "stopped"))
    BY DEF Retries
  <1>2. th \in [Actor -> Jobs] /\ th[a] \in Jobs /\ Fits(a, th[a], run)
    BY DEF IInv, AllFit
  <1>3. Beside /\ th[a].pc \notin Flying \cup Outer
    BY <1>1, Moved DEF Flying, Outer
  <1>4. CASE Alive(a)
    <2> DEFINE j == [th[a] EXCEPT !.pc = "begin", !.after = th[a].at]
    <2>1. th' = [th EXCEPT ![a] = j]
      BY <1>1, <1>2, <1>4 DEF Moves
    <2>2. /\ j \in Jobs /\ j.pc = "begin" /\ j.after = th[a].at /\ j.at = th[a].at /\ j.kind = th[a].kind
          /\ j.req = th[a].req /\ j.size = th[a].size
      BY <1>2 DEF Jobs, Pcs
    <2> HIDE DEF j
    <2>3. Fits(a, j, run)
      BY <1>1, <1>2, <2>2 DEF Fits, AtWork
    <2>4. LastIsTheAIs(j, run)
      BY <2>2 DEF LastIsTheAIs, AtWork
    <2> QED BY <1>1, <1>3, <2>1, <2>2, <2>3, <2>4, NeutralStep DEF Within, Flying, Ahead
  <1>5. CASE ~Alive(a)
    <2> DEFINE j == [th[a] EXCEPT !.pc = "dropping", !.res = "stopped"]
    <2>1. th' = [th EXCEPT ![a] = j]
      BY <1>1, <1>2, <1>5 DEF Moves, With
    <2>2. /\ j \in Jobs /\ j.pc = "dropping" /\ j.after = th[a].after /\ j.at = th[a].at /\ j.kind = th[a].kind
          /\ j.req = th[a].req /\ j.size = th[a].size
      BY <1>2 DEF Jobs, Pcs, Results
    <2> HIDE DEF j
    <2>3. Fits(a, j, run)
      BY <1>1, <1>2, <2>2 DEF Fits, AtWork, Sourcing, Kinds
    <2>4. LastIsTheAIs(j, run)
      BY <2>2 DEF LastIsTheAIs, AtWork
    <2> QED BY <1>1, <1>3, <2>1, <2>2, <2>3, <2>4, NeutralStep DEF Within, Flying, Ahead
  <1> QED BY <1>4, <1>5

\* Whoever has no request under way puts one down, or goes on to something else.
LEMMA ResetStep ==
  ASSUME IInv, NEW a \in Actor, NEW pc \in Resting, NEW res \in Results, Beside, th' = Ends(a, pc, res),
         pc = "finish" => res \in Settled \ {"completed-with-gaps"},
         th[a].pc \notin Flying \cup Outer \cup {"dropping"}, pc \notin Ahead \cup {"recover"},
         a = Main /\ pc \in {"stepping", "act", "rejecting"} => th[a].pc \in {"stepping", "act", "rejecting"}
  PROVE  IInv'
  <1>1. PICK j : Ends(a, pc, res) = [th EXCEPT ![a] = j] /\ Rests(th[a], j) /\ j.pc = pc /\ j.res = res
    BY EndsRests
  <1> QED BY <1>1, RestStep

LEMMA RetainsKeeps ==
  ASSUME IInv, NEW a \in Actor, Retains(a)
  PROVE  IInv'
  <1>1. /\ th[a].pc = "retaining" /\ Frame
        /\ Commit(run, Goes(a, IF a = Main THEN "head" ELSE "turn"),
                  IF a = Main THEN Ends(a, "finish", "blocked") ELSE Ends(a, "end", "unsaved"))
    BY DEF Retains
  <1>2. /\ Beside
        /\ \/ th' = Ends(a, IF a = Main THEN "head" ELSE "turn", None)
           \/ th' = IF a = Main THEN Ends(a, "finish", "blocked") ELSE Ends(a, "end", "unsaved")
    BY <1>1, SameRun, Committed DEF Goes
  <1>3. /\ {"head", "turn", "finish", "end"} \subseteq Resting /\ {None, "blocked", "unsaved"} \subseteq Results
        /\ "blocked" \in Settled \ {"completed-with-gaps"} /\ th[a].pc \notin Flying \cup Outer \cup {"dropping"}
        /\ {"head", "turn", "finish", "end"} \cap (Ahead \cup {"recover", "stepping", "act", "rejecting"}) = {}
    BY <1>1 DEF Resting, Pcs, AtWork, Results, Settled, Flying, Outer, Ahead
  <1>4. CASE a = Main
    BY <1>2, <1>3, <1>4, ResetStep
  <1>5. CASE a # Main
    BY <1>2, <1>3, <1>5, ResetStep
  <1> QED BY <1>4, <1>5

LEMMA ContinuesKeeps ==
  ASSUME IInv, NEW a \in Actor, Continues(a)
  PROVE  IInv'
  <1> DEFINE i == IF th[a].at # 0 THEN th[a].at ELSE Latest(Prior(run, th[a].req))
             on == IF a = Main THEN "head" ELSE "told"
             stops(why) == IF a = Main THEN Ends(a, "finish", "interrupted") ELSE Ends(a, "end", why)
             next == [run EXCEPT !.attempts[i].cont = TRUE]
  <1>1. /\ th[a].pc = "continuing" /\ Frame
        /\ Commit(next, Goes(a, on), stops("unsaved")) \/ Moves(stops("stopped"))
    BY DEF Continues
  <1>2. Same(run, next)
    BY SameRun, ContinuedAlike DEF Same, Quiet, Runs
  <1>3. Beside /\ (th' = Ends(a, on, None) \/ th' = stops("unsaved") \/ th' = stops("stopped"))
    BY <1>1, <1>2, Committed, Moved DEF Goes
  <1>4. /\ {"head", "told", "finish", "end"} \subseteq Resting
        /\ {None, "interrupted", "unsaved", "stopped"} \subseteq Results
        /\ "interrupted" \in Settled \ {"completed-with-gaps"} /\ th[a].pc \notin Flying \cup Outer \cup {"dropping"}
        /\ {"head", "told", "finish", "end"} \cap (Ahead \cup {"recover", "stepping", "act", "rejecting"}) = {}
    BY <1>1 DEF Resting, Pcs, AtWork, Results, Settled, Flying, Outer, Ahead
  <1>5. CASE a = Main
    BY <1>3, <1>4, <1>5, ResetStep
  <1>6. CASE a # Main
    BY <1>3, <1>4, <1>6, ResetStep
  <1> QED BY <1>5, <1>6

LEMMA DecidesKeeps ==
  ASSUME IInv, NEW a \in Actor, Decides(a)
  PROVE  IInv'
  <1> DEFINE at == th[a].at
             last == run.attempts[at]
             next == [run EXCEPT !.pending = @ \cup {at}]
             o == IF Alive(a) /\ Continuable(last) THEN "gap" ELSE "error"
  <1>1. th[a].pc = "deciding" /\ Frame
    BY DEF Decides
  <1>2. \/ Retryable(last) /\ Commit(next, At(a, "waiting"), Returned(a, "error"))
        \/ Commit(run, Returned(a, o), Returned(a, "error"))
    BY DEF Decides
  <1>3. /\ th \in [Actor -> Jobs] /\ th[a] \in Jobs /\ Fits(a, th[a], run) /\ at \in Asked(run)
        /\ run \in Runs /\ Len(run.attempts) \in Nat
    BY <1>1, AttemptSets DEF IInv, AllFit, Fits, AtWork, Sound, Asked
  <1>4. th[a].pc \notin Flying \cup Outer /\ {"gap", "error"} \subseteq Results /\ o \in {"gap", "error"}
    BY <1>1 DEF Flying, Outer, Results
  <1>5. CASE Beside /\ (th' = Returned(a, o) \/ th' = Returned(a, "error"))
    BY <1>1, <1>4, <1>5, ReturnStep
  <1>6. CASE Beside /\ th' = At(a, "waiting") /\ Retryable(last)
    <2> DEFINE j == [th[a] EXCEPT !.pc = "waiting"]
    <2>1. th' = [th EXCEPT ![a] = j]
      BY <1>3, <1>6 DEF At
    <2>2. /\ j \in Jobs /\ j.pc = "waiting" /\ j.after = th[a].after /\ j.at = th[a].at /\ j.kind = th[a].kind
          /\ j.req = th[a].req /\ j.size = th[a].size
      BY <1>3 DEF Jobs, Pcs
    <2>3. th[a].kind # "model"
      BY <1>1, <1>3, <1>6 DEF Fits, Retryable, Asked
    <2> HIDE DEF j
    <2>4. Fits(a, j, run)
      BY <1>1, <1>3, <2>2, <2>3 DEF Fits, AtWork
    <2>5. LastIsTheAIs(j, run)
      BY <2>2, <2>3 DEF LastIsTheAIs
    <2> QED BY <1>1, <1>4, <1>6, <2>1, <2>2, <2>4, <2>5, NeutralStep DEF Within, Flying, Ahead
  <1>7. CASE Retryable(last) /\ Commit(next, At(a, "waiting"), Returned(a, "error"))
    <2>1. Same(run, next)
      BY <1>3, SameRun DEF Runs, Same, IInv, Sound, Asked
    <2>2. Beside /\ (th' = At(a, "waiting") \/ th' = Returned(a, "error"))
      BY <1>1, <1>7, <2>1, Committed
    <2> QED BY <1>5, <1>6, <1>7, <2>2
  <1>8. CASE Commit(run, Returned(a, o), Returned(a, "error"))
    BY <1>1, <1>5, <1>8, SameRun, Committed
  <1> QED BY <1>2, <1>7, <1>8

\* What the journal answers to a request.
LEMMA VerdictType ==
  ASSUME NEW a
  PROVE  /\ Verdict(a) \in {"go", "stopped", "allowance", "limit", "ok", "gap", "duplicate", "error"}
         /\ Verdict(a) = "ok" => th[a].kind # "model"
  <1> DEFINE known == IF th[a].after = 0 THEN PriorVerdict(th[a]) ELSE RetryVerdict(th[a])
  <1>1. TaskVerdict(a, th[a].kind) \in {"go", "stopped", "allowance", "limit"}
    BY DEF TaskVerdict
  <1>2. PriorVerdict(th[a]) \in {"go", "ok", "gap", "duplicate"} /\ (PriorVerdict(th[a]) = "ok" => th[a].kind # "model")
    BY DEF PriorVerdict
  <1>3. RetryVerdict(th[a]) \in {"go", "error"}
    BY DEF RetryVerdict
  <1>4. known \in {"go", "ok", "gap", "duplicate", "error"} /\ (known = "ok" => th[a].kind # "model")
    BY <1>2, <1>3
  <1> HIDE DEF known
  <1>5. \/ Verdict(a) \in {"stopped", "limit", "go"}
        \/ Verdict(a) = TaskVerdict(a, th[a].kind)
        \/ Verdict(a) = known
    BY DEF Verdict, known
  <1> QED BY <1>1, <1>4, <1>5

LEMMA RefusedKeeps ==
  ASSUME IInv, NEW a \in Actor, th[a].pc = "begin", Beside, NEW why \in Results, why = "ok" => th[a].kind # "model",
         th' = IF th[a].after = 0 THEN Returned(a, why) ELSE With(a, "dropping", why)
  PROVE  IInv'
  <1>1. th \in [Actor -> Jobs] /\ th[a] \in Jobs /\ Fits(a, th[a], run)
    BY DEF IInv, AllFit
  <1>2. th[a].pc \notin Flying \cup Outer
    BY DEF Flying, Outer
  <1>3. CASE th[a].after = 0
    BY <1>2, <1>3, ReturnStep
  <1>4. CASE th[a].after # 0
    <2> DEFINE j == [th[a] EXCEPT !.pc = "dropping", !.res = why]
    <2>1. th' = [th EXCEPT ![a] = j]
      BY <1>1, <1>4 DEF With
    <2>2. /\ j \in Jobs /\ j.pc = "dropping" /\ j.after = th[a].after /\ j.at = th[a].at /\ j.kind = th[a].kind
          /\ j.req = th[a].req /\ j.size = th[a].size
      BY <1>1 DEF Jobs, Pcs
    <2> HIDE DEF j
    <2>3. Fits(a, j, run)
      BY <1>1, <1>4, <2>2 DEF Fits, AtWork, Sourcing, Kinds
    <2>4. LastIsTheAIs(j, run)
      BY <2>2 DEF LastIsTheAIs, AtWork
    <2> QED BY <1>2, <2>1, <2>2, <2>3, <2>4, NeutralStep DEF Within, Flying, Ahead
  <1> QED BY <1>3, <1>4

-------------------------------------------------------------------------------
(* Nobody is at work: before and after an execution, and where it begins.  *)

Standing == {"idle", "recover", "publish", "start", "head", "last"}
\* What has to be so of the journal then.
Stands ==
    /\ Sound(run') /\ Asked(run') = Asked(run)
    /\ \A i \in Asked(run) : run.attempts[i].st \notin {"waiting", "not-started"}
                               => run'.attempts[i].st \notin {"waiting", "not-started"}
    /\ \/ Frozen'
       \/ /\ ~Frozen /\ run'.retrieved = run.retrieved
          /\ \A i \in Asked(run) : run.attempts[i].held => run'.attempts[i].held
    /\ run'.pending # {} => run'.state = "running"
    /\ run'.asks # None => run'.state = "paused"
    /\ run'.resume # None => run'.state = "blocked" /\ run'.unpublished
Lasts ==
    /\ run'.unpublished => Broken' \/ run'.state = "blocked"
    /\ \A t \in Task : run'.tasks[t] = "running" => Broken'
    /\ \A i \in Asked(run) : run'.attempts[i].held => Broken' \/ LeftOfALateTask(i)'

LEMMA StandStep ==
  ASSUME IInv, Stands, Lasts, th' \in [Actor -> Jobs], UNCHANGED <<sent, kept>>, faults' \in {faults, faults + 1},
         \A a \in Actor : th'[a].at = 0 /\ th'[a].after = 0 /\ th'[a].pc \in Standing,
         \A t \in Task : th'[t].pc = "idle",
         lease' \in BOOLEAN, dead' \in BOOLEAN, fatal' \in BOOLEAN, late' \subseteq Task,
         ~lease' => th'[Main].pc = "idle",
         th'[Main].pc \notin Ahead => run'.state = "running",
         th'[Main].pc \in {"publish", "start", "last"} => run'.state # "running"
  PROVE  IInv'
  <1>1. Main \in Actor /\ Sound(run') /\ Asked(run') = Asked(run)
    BY DEF Actor, Stands
  <1>2. run' \in Runs /\ Len(run'.attempts) \in Nat /\ run \in Runs
    BY <1>1, AttemptSets DEF Sound, IInv
  <1>3. AllFit'
    <2>1. \A a \in Actor : Fits(a, th'[a], run')
      BY <1>2 DEF Fits, AtWork, Standing
    <2>2. LastIsTheAIs(th'[Main], run')
      BY <1>1 DEF LastIsTheAIs, AtWork, Standing
    <2> QED BY <1>1, <2>1, <2>2 DEF AllFit
  <1>4. InOrder'
    <2>1. faults' \in Nat /\ \A a \in Actor : Blank(th'[a])
      BY DEF IInv, InOrder, Blank
    <2> QED BY <2>1 DEF InOrder
  <1>5. SentAreSaved'
    BY <1>1 DEF IInv, SentAreSaved, Stands, Standing
  <1>6. KeptCounted'
    <2>1. CASE Frozen'
      BY <2>1 DEF IInv, KeptCounted
    <2>2. CASE /\ ~Frozen' /\ ~Frozen /\ run'.retrieved = run.retrieved
               /\ \A i \in Asked(run) : run.attempts[i].held => run'.attempts[i].held
      <3> DEFINE S == Owed(run, th)
                 T == Owed(run', th')
      <3>1. T = {i \in Asked(run') : run'.attempts[i].held}
        BY DEF Owed, Waits, Standing
      <3>2. S \subseteq T /\ T \subseteq Asked(run')
        BY <1>1, <2>2, <3>1 DEF Owed
      <3>3. /\ Cardinality(S) \in Nat /\ Cardinality(T) \in Nat /\ Cardinality(S) <= Cardinality(T)
        <4>1. IsFiniteSet(T)
          BY <1>2, <3>2, AttemptSets
        <4> HIDE DEF S, T
        <4> QED BY <3>2, <4>1, FS_Subset, FS_CardinalityType
      <3>4. Allowance * Cardinality(S) <= Allowance * Cardinality(T)
            /\ Allowance * Cardinality(S) \in Nat /\ Allowance * Cardinality(T) \in Nat
        BY <3>3, TimesMore, Times, ResearchAssumption
      <3>5. kept \in 0 .. Room /\ kept <= run.retrieved + Allowance * Cardinality(S) /\ run.retrieved \in Nat
        BY <1>2, <2>2 DEF IInv, KeptCounted, Runs
      <3> HIDE DEF S, T
      <3>6. kept' <= run'.retrieved + Allowance * Cardinality(T)
        BY <2>2, <3>4, <3>5, ResearchAssumption
      <3> QED BY <3>5, <3>6 DEF KeptCounted, T
    <2> QED BY <2>1, <2>2 DEF Stands
  <1>7. Clean'
    <2>1. \A i \in Asked(run') : run'.attempts[i].held => Broken' \/ HeldBy(i)'
      BY <1>1 DEF Lasts, HeldBy
    <2> QED BY <2>1 DEF Stands, Lasts, Clean
  <1> QED BY <1>1, <1>3, <1>4, <1>5, <1>6, <1>7 DEF IInv

\* The worker returns.
Over(s) ==
    \/ s.state \in {"interrupted", "stopped", "running"}
    \/ s.state = "blocked" /\ s.resume \in {"interrupted", "stopped"}
Ended ==
    /\ run'.unpublished => Over(run') \/ run'.state = "blocked"
    /\ \A t \in Task : run'.tasks[t] = "running" => Over(run')
    /\ \A i \in Asked(run) : run'.attempts[i].held => Over(run') \/ LeftOfALateTask(i)'

LEMMA QuitStep ==
  ASSUME IInv, Quits, faults' \in {faults, faults + 1}, Stands, Ended
  PROVE  IInv'
  <1>1. /\ lease' = FALSE /\ th' = [a \in Actor |-> Idle] /\ dead' = FALSE /\ fatal' = FALSE /\ late' = {}
        /\ UNCHANGED <<sent, kept>> /\ \A a \in Actor : th'[a] = Idle
    BY DEF Quits
  <1>2. Main \in Actor /\ Task \subseteq Actor
    BY DEF Actor
  <1>3. Idle \in Jobs /\ Idle.pc = "idle" /\ Idle.at = 0 /\ Idle.after = 0
    BY DEF Idle, Jobs, Pcs, Results
  <1>4. Broken' <=> Over(run')
    BY <1>1, <1>2, <1>3 DEF Broken, Over
  <1>5. Lasts
    BY <1>4 DEF Lasts, Ended
  <1>6. /\ \A a \in Actor : th'[a].at = 0 /\ th'[a].after = 0 /\ th'[a].pc \in Standing
        /\ \A t \in Task : th'[t].pc = "idle"
        /\ th' \in [Actor -> Jobs] /\ th'[Main].pc = "idle"
    BY <1>1, <1>2, <1>3 DEF Standing
  <1>7. lease' \in BOOLEAN /\ dead' \in BOOLEAN /\ fatal' \in BOOLEAN /\ late' \subseteq Task
    BY <1>1
  <1> QED BY <1>1, <1>5, <1>6, <1>7, StandStep DEF Ahead

\* Where nobody is at work, what is left is of an execution that was cut short.
LEMMA Stood ==
  ASSUME IInv, th[Main].pc \in Ahead \cup {"recover"}
  PROVE  /\ run.unpublished => Over(run) \/ run.state = "blocked"
         /\ \A t \in Task : run.tasks[t] = "running" => Over(run)
         /\ \A i \in Asked(run) : run.attempts[i].held => Over(run) \/ LeftOfALateTask(i)
  <1>1. \A a \in Actor : th[a].pc \in Ahead \cup {"recover"}
    BY DEF Actor, IInv, InOrder, Ahead
  <1>2. Broken => Over(run)
    BY DEF Broken, Over
  <1>3. run.unpublished => Over(run) \/ run.state = "blocked"
    BY <1>2 DEF IInv, Clean, Unpublishing, Ahead
  <1>4. ASSUME NEW t \in Task, run.tasks[t] = "running" PROVE Over(run)
    <2>1. th[t].pc = "idle"
      BY DEF IInv, InOrder, Ahead
    <2> QED BY <1>2, <1>4, <2>1 DEF IInv, Clean
  <1>5. ASSUME NEW i \in Asked(run), run.attempts[i].held PROVE Over(run) \/ LeftOfALateTask(i)
    <2>1. Broken \/ HeldBy(i)
      BY <1>5 DEF IInv, Clean
    <2> QED BY <1>1, <1>2, <2>1 DEF HeldBy, Ahead
  <1> QED BY <1>3, <1>4, <1>5

\* An Update that changes nothing the others rely on, or none, and the worker returns.
LEMMA QuitSame ==
  ASSUME IInv, Quits, faults' \in {faults, faults + 1}, Same(run, run'), run.state = "running"
  PROVE  IInv'
  <1>1. /\ run \in Runs /\ run' \in Runs /\ Alike(run, run') /\ run'.retrieved = run.retrieved
        /\ run'.asks = run.asks /\ run'.state = run.state /\ run'.resume = run.resume
    BY DEF Same, Quiet, IInv, Sound
  <1>2. Sound(run')
    BY QuietSound DEF Same, IInv
  <1>3. Asked(run') = Asked(run)
    BY <1>1, AlikeFields
  <1>4. \A i \in Asked(run) : run'.attempts[i].st = run.attempts[i].st /\ run'.attempts[i].held = run.attempts[i].held
    BY <1>1, AlikeFields
  <1>5. Over(run') /\ ~Frozen
    BY <1>1 DEF Over, Frozen
  <1>6. run'.resume = None /\ run'.asks = None
    BY <1>1 DEF IInv, Clean
  <1>7. Stands
    BY <1>1, <1>2, <1>3, <1>4, <1>5, <1>6 DEF Stands
  <1> QED BY <1>5, <1>7, QuitStep DEF Ended

\* Only what became of the run changes, where nobody is at work.
Turns ==
    /\ run' \in Runs /\ run'.attempts = run.attempts /\ run'.retrieved = run.retrieved
    /\ run'.limits = run.limits /\ run'.tasks = run.tasks
    /\ run'.asks = run.asks \/ \A k \in Kinds : run.limits[k] <= run'.asks[k]
    /\ run'.pending \in {run.pending, {}}
LEMMA TurnsStand ==
  ASSUME IInv, Turns, faults' \in {faults, faults + 1},
         Frozen' \/ ~Frozen,
         run'.pending # {} => run'.state = "running",
         run'.asks # None => run'.state = "paused",
         run'.resume # None => run'.state = "blocked" /\ run'.unpublished
  PROVE  /\ Stands
         /\ \A i \in Asked(run) : LeftOfALateTask(i) => LeftOfALateTask(i)'
  <1>1. run \in Runs /\ Alike(run, run') /\ Asked(run') = Asked(run)
    BY AlikeSame DEF IInv, Sound, Turns, Asked
  <1>2. \A k \in Kinds : run.limits[k] <= run'.limits[k]
    BY <1>1 DEF Turns, Runs, Limits
  <1>3. run'.asks # None => \A k \in Kinds : run'.limits[k] <= run'.asks[k]
    BY DEF Turns, IInv, Sound, Bounded
  <1>4. run'.pending \subseteq Asked(run)
    BY DEF Turns, IInv, Sound
  <1>5. Sound(run')
    BY <1>1, <1>2, <1>3, <1>4, SoundAlike DEF Turns, IInv
  <1>6. Stands
    BY <1>1, <1>5 DEF Stands, Turns
  <1>7. faults \in Nat
    BY DEF IInv, InOrder
  <1> QED BY <1>6, <1>7 DEF LeftOfALateTask, Turns

LEMMA TurnsEnd ==
  ASSUME IInv, th[Main].pc \in Ahead \cup {"recover"}, Turns, faults' \in {faults, faults + 1},
         Frozen' <=> Frozen, Over(run) => Over(run'),
         run'.unpublished => Over(run') \/ run'.state = "blocked",
         run'.pending # {} => run'.state = "running",
         run'.asks # None => run'.state = "paused",
         run'.resume # None => run'.state = "blocked" /\ run'.unpublished
  PROVE  Stands /\ Ended
  <1>1. Stands /\ \A i \in Asked(run) : LeftOfALateTask(i) => LeftOfALateTask(i)'
    BY TurnsStand
  <1> QED BY <1>1, Stood DEF Turns, Ended

\* The worker goes on to what comes before the run.
LEMMA AheadStep ==
  ASSUME IInv, Stands, Ended, UNCHANGED <<dead, fatal, late, sent, kept>>, faults' \in {faults, faults + 1},
         lease', th[Main].pc # "batch",
         NEW j \in Jobs, th' = [th EXCEPT ![Main] = j], j.pc \in {"recover", "publish", "start", "last"}, Blank(j),
         j.pc = "recover" <=> run'.state = "running"
  PROVE  IInv'
  <1>1. Main \in Actor /\ Main \notin Task /\ Task \subseteq Actor /\ th \in [Actor -> Jobs]
    BY ResearchAssumption DEF Actor, IInv, AllFit
  <1>2. th' \in [Actor -> Jobs] /\ th'[Main] = j /\ \A t \in Task : th'[t] = th[t]
    BY <1>1
  <1>3. \A t \in Task : th'[t].pc = "idle" /\ th'[t].at = 0 /\ th'[t].after = 0
    BY <1>1, <1>2 DEF IInv, InOrder, Ahead, Blank
  <1>4. \A a \in Actor : th'[a].at = 0 /\ th'[a].after = 0 /\ th'[a].pc \in Standing
    BY <1>2, <1>3 DEF Actor, Blank, Ahead, Standing
  <1>5. Broken' <=> Over(run')
    BY <1>2 DEF Broken, Over
  <1>6. Lasts
    BY <1>5 DEF Lasts, Ended
  <1>7. lease' \in BOOLEAN /\ dead' \in BOOLEAN /\ fatal' \in BOOLEAN /\ late' \subseteq Task
    BY DEF IInv, InOrder
  <1>8. /\ ~lease' => th'[Main].pc = "idle"
        /\ th'[Main].pc \notin Ahead => run'.state = "running"
        /\ th'[Main].pc \in {"publish", "start", "last"} => run'.state # "running"
    BY <1>2 DEF Ahead
  <1> QED BY <1>2, <1>3, <1>4, <1>6, <1>7, <1>8, StandStep

-------------------------------------------------------------------------------
(* The coordinator, between its requests.                                  *)

LEMMA FinalSame ==
  ASSUME IInv, NEW v \in BOOLEAN
  PROVE  Same(run, [run EXCEPT !.final = v])
  BY SameRun DEF Runs, Same, IInv, Sound

LEMMA OrQuitsKeeps ==
  ASSUME IInv, NEW next, Same(run, next), NEW pc \in Resting \ (Ahead \cup {"recover", "finish"}),
         OrQuits(next, pc), th[Main].pc \in {"head", "stepping", "finalizing", "act"},
         pc \in {"stepping", "act", "rejecting"} => th[Main].pc \in {"stepping", "act"}
  PROVE  IInv'
  <1>1. Main \in Actor /\ None \in Results /\ th[Main].pc \notin Flying \cup Outer \cup {"dropping"}
    BY DEF Actor, Results, Flying, Outer
  <1>2. run.state = "running" /\ Same(run, run)
    BY SameRun DEF IInv, InOrder, Ahead
  <1>3. CASE run' = next /\ th' = Goes(Main, pc) /\ UNCHANGED faults /\ Frame
    <2>1. Beside /\ th' = Ends(Main, pc, None)
      BY <1>3 DEF Beside, Frame, Goes
    <2> QED BY <1>1, <2>1, ResetStep
  <1>4. CASE faults' = faults + 1 /\ run' \in {run, next} /\ Quits
    BY <1>2, <1>4, QuitSame DEF Same
  <1> QED BY <1>3, <1>4 DEF OrQuits

\* An Update of the coordinator's, or a step without one.
LEMMA MainResets ==
  ASSUME IInv, Beside, th[Main].pc \in {"head", "claiming", "asking", "stepping", "act", "finalizing", "rejecting"},
         NEW pc \in Resting \ (Ahead \cup {"recover"}), NEW res \in Results, th' = Ends(Main, pc, res),
         pc = "finish" => res \in Settled \ {"completed-with-gaps"},
         pc \in {"stepping", "act", "rejecting"} => th[Main].pc \in {"stepping", "act", "rejecting"}
  PROVE  IInv'
  <1>1. Main \in Actor /\ th[Main].pc \notin Flying \cup Outer \cup {"dropping"}
    BY DEF Actor, Flying, Outer
  <1> QED BY <1>1, ResetStep

LEMMA FinishesKeeps ==
  ASSUME IInv, NEW st \in Settled \ {"completed-with-gaps"}, Finishes(st),
         th[Main].pc \in {"head", "claiming", "asking", "stepping", "act", "finalizing", "rejecting"}
  PROVE  IInv'
  <1>1. Beside /\ th' = Ends(Main, "finish", st)
    BY Moved DEF Finishes
  <1>2. "finish" \in Resting \ (Ahead \cup {"recover"}) /\ st \in Results
    BY DEF Resting, Pcs, AtWork, Ahead, Results
  <1> QED BY <1>1, <1>2, MainResets

LEMMA HeadsKeeps ==
  ASSUME IInv, Heads
  PROVE  IInv'
  <1> DEFINE next == [run EXCEPT !.final = Finalizes(run)]
  <1>1. th[Main].pc = "head"
    BY DEF Heads
  <1>2. CASE \E st \in {"interrupted", "partial", "completed"} : Finishes(st)
    BY <1>1, <1>2, FinishesKeeps DEF Settled
  <1>3. CASE OrQuits(next, "claiming")
    <2>1. Finalizes(run) \in BOOLEAN
      BY DEF Finalizes, IInv, Sound, Runs
    <2>2. Same(run, next)
      BY <2>1, FinalSame
    <2>3. "claiming" \in Resting \ (Ahead \cup {"recover", "finish"})
      BY DEF Resting, Pcs, AtWork, Ahead
    <2> QED BY <1>1, <1>3, <2>2, <2>3, OrQuitsKeeps
  <1> QED BY <1>2, <1>3 DEF Heads

LEMMA QueuedSame ==
  ASSUME IInv, NEW S
  PROVE  Same(run, Queued(S))
  <1>1. run \in Runs /\ run.pending \subseteq Asked(run)
    BY DEF IInv, Sound
  <1>2. [t \in Task |-> IF t \in S THEN "queued" ELSE run.tasks[t]] \in [Task -> {"none", "queued", "running", "settled"}]
    BY <1>1 DEF Runs
  <1>3. Queued(S) \in Runs
    BY <1>1, <1>2 DEF Queued, Runs
  <1>4. \A t \in Task : Queued(S).tasks[t] = IF t \in S THEN "queued" ELSE run.tasks[t]
    BY <1>1 DEF Queued, Runs
  <1>5. /\ Queued(S).attempts = run.attempts /\ Queued(S).pending = run.pending
        /\ Queued(S).retrieved = run.retrieved /\ Queued(S).limits = run.limits /\ Queued(S).asks = run.asks
        /\ Queued(S).state = run.state /\ Queued(S).resume = run.resume /\ Queued(S).unpublished = run.unpublished
    BY <1>1 DEF Queued, Runs
  <1> QED BY <1>1, <1>3, <1>4, <1>5, SameRun DEF Same

\* Main hands its tasks to the workers.
LEMMA BatchStep ==
  ASSUME IInv, Beside, th[Main].pc \in {"claiming", "act"}, NEW then \in {"asking", "head"}, th' = Batch(then)
  PROVE  IInv'
  <1> DEFINE j == [Idle EXCEPT !.pc = "batch", !.res = then]
  <1>1. th' = [th EXCEPT ![Main] = j] /\ Main \in Actor
    BY DEF Batch, Ends, As, Actor
  <1>2. j \in Jobs /\ j.pc = "batch" /\ j.res = then /\ j.at = 0 /\ j.after = 0
    BY DEF Idle, Jobs, Pcs, Results
  <1>3. Rests(th[Main], j)
    BY <1>2 DEF Rests, AtWork
  <1>4. th[Main].pc \notin Flying \cup Outer \cup {"dropping"} /\ j.pc \notin Ahead \cup {"recover"}
    BY <1>2 DEF Flying, Outer, Ahead
  <1> QED BY <1>1, <1>2, <1>3, <1>4, RestStep

LEMMA ClaimsKeeps ==
  ASSUME IInv, Claims
  PROVE  IInv'
  <1>1. th[Main].pc = "claiming" /\ Frame
    BY DEF Claims
  <1>2. /\ "finish" \in Resting \ (Ahead \cup {"recover"}) /\ {"blocked", "interrupted"} \subseteq Results
        /\ {"blocked", "interrupted"} \subseteq Settled \ {"completed-with-gaps"}
    BY DEF Resting, Pcs, AtWork, Ahead, Results, Settled
  <1>3. CASE \E st \in {"blocked", "interrupted"} : Moves(Ends(Main, "finish", st))
    BY <1>1, <1>2, <1>3, Moved, MainResets
  <1>4. ASSUME NEW S, Commit(Queued(S), Batch("asking"), Ends(Main, "finish", "interrupted"))
        PROVE  IInv'
    <2>1. Beside /\ (th' = Batch("asking") \/ th' = Ends(Main, "finish", "interrupted"))
      BY <1>1, <1>4, QueuedSame, Committed
    <2> QED BY <1>1, <1>2, <2>1, BatchStep, MainResets
  <1> QED BY <1>3, <1>4 DEF Claims

LEMMA AsksKeeps ==
  ASSUME IInv, Asks
  PROVE  IInv'
  <1> DEFINE next == [run EXCEPT !.final = @ \/ run.step + Saving >= run.limits["model"]]
             j == Job("model", None)
  <1>1. th[Main].pc = "asking" /\ Main \in Actor
    BY DEF Asks, Actor
  <1>2. CASE Finishes("partial")
    BY <1>1, <1>2, FinishesKeeps DEF Settled
  <1>3. CASE Commit(next, As(Main, j), Ends(Main, "finish", "blocked")) /\ Frame
    <2>1. Same(run, next)
      <3> DEFINE v == run.final \/ run.step + Saving >= run.limits["model"]
      <3>1. v \in BOOLEAN
        OBVIOUS
      <3> HIDE DEF v
      <3>2. Same(run, [run EXCEPT !.final = v])
        BY <3>1, FinalSame
      <3> QED BY <3>2 DEF v
    <2>2. Beside /\ (th' = As(Main, j) \/ th' = Ends(Main, "finish", "blocked"))
      BY <1>3, <2>1, Committed
    <2>3. CASE th' = Ends(Main, "finish", "blocked")
      <3>1. "finish" \in Resting \ (Ahead \cup {"recover"}) /\ "blocked" \in Results /\ "blocked" \in Settled \ {"completed-with-gaps"}
        BY DEF Resting, Pcs, AtWork, Ahead, Results, Settled
      <3> QED BY <1>1, <2>2, <2>3, <3>1, MainResets
    <2>4. CASE th' = As(Main, j)
      <3>1. th' = [th EXCEPT ![Main] = j]
        BY <2>4 DEF As
      <3>2. /\ j \in Jobs /\ j.pc = "begin" /\ j.at = 0 /\ j.after = 0 /\ j.kind = "model" /\ j.req = None /\ j.size = 0
        BY DEF Job, Idle, Jobs, Pcs, Results, Kinds
      <3> HIDE DEF j
      <3>3. Fits(Main, j, run) /\ LastIsTheAIs(j, run)
        BY <3>2, AttemptSets DEF Fits, LastIsTheAIs, AtWork, IInv, Sound
      <3>4. th[Main].pc \notin Flying \cup Outer \cup {"dropping"} /\ j.pc \notin Flying \cup Ahead \cup {"recover"}
        BY <1>1, <3>2 DEF Flying, Outer, Ahead
      <3> QED BY <1>1, <2>2, <3>1, <3>2, <3>3, <3>4, NeutralStep DEF Within
    <2> QED BY <2>2, <2>3, <2>4
  <1> QED BY <1>2, <1>3 DEF Asks

LEMMA StepsOnKeeps ==
  ASSUME IInv, StepsOn
  PROVE  IInv'
  <1> DEFINE next == [run EXCEPT !.step = @ + 1]
  <1>1. th[Main].pc = "stepping" /\ OrQuits(next, "act")
    BY DEF StepsOn
  <1>2. Same(run, next)
    <2>1. run \in Runs /\ run.pending \subseteq Asked(run)
      BY DEF IInv, Sound
    <2>2. run.step + 1 \in Nat
      BY <2>1 DEF Runs
    <2>3. /\ next \in Runs /\ next.attempts = run.attempts /\ next.pending = run.pending
          /\ next.retrieved = run.retrieved /\ next.limits = run.limits /\ next.asks = run.asks
          /\ next.state = run.state /\ next.resume = run.resume /\ next.unpublished = run.unpublished
          /\ next.tasks = run.tasks
      <3> DEFINE n == run.step + 1
      <3>1. n \in Nat /\ next = [run EXCEPT !.step = n]
        BY <2>1, <2>2 DEF Runs
      <3> HIDE DEF n, next
      <3> QED BY <2>1, <3>1 DEF Runs
    <2> HIDE DEF next
    <2> QED BY <2>1, <2>3, SameRun DEF Same
  <1>3. "act" \in Resting \ (Ahead \cup {"recover", "finish"})
    BY DEF Resting, Pcs, AtWork, Ahead
  <1> QED BY <1>1, <1>2, <1>3, OrQuitsKeeps

LEMMA FinalizesRunKeeps ==
  ASSUME IInv, FinalizesRun
  PROVE  IInv'
  <1>1. th[Main].pc = "finalizing" /\ OrQuits([run EXCEPT !.final = TRUE], "head")
    BY DEF FinalizesRun
  <1>2. "head" \in Resting \ (Ahead \cup {"recover", "finish"})
    BY DEF Resting, Pcs, AtWork, Ahead
  <1> QED BY <1>1, <1>2, FinalSame, OrQuitsKeeps

LEMMA ActsFinishKeeps ==
  ASSUME IInv, ActsFinish
  PROVE  IInv'
  BY FinishesKeeps DEF ActsFinish, Acting, Settled

LEMMA ActsNothingKeeps ==
  ASSUME IInv, ActsNothing
  PROVE  IInv'
  <1>1. PICK pc \in {"rejecting", "head"} : Moves(Goes(Main, pc)) /\ Frame
    BY DEF ActsNothing
  <1>2. th[Main].pc = "act" /\ Beside /\ th' = Ends(Main, pc, None)
    BY <1>1, Moved DEF ActsNothing, Acting, Goes
  <1>3. pc \in Resting \ (Ahead \cup {"recover", "finish"}) /\ None \in Results
    BY DEF Resting, Pcs, AtWork, Ahead, Results
  <1> QED BY <1>2, <1>3, MainResets

LEMMA RejectsKeeps ==
  ASSUME IInv, Rejects
  PROVE  IInv'
  <1> DEFINE i == Len(run.attempts)
  <1>1. th[Main].pc = "rejecting" /\ Frame
    BY DEF Rejects
  <1>2. \/ Moves(Ends(Main, "finish", "blocked"))
        \/ \E ok \in {Goes(Main, "head"), Ends(Main, "finish", "partial")} :
             Commit(Rejected(i), ok, Ends(Main, "finish", "blocked"))
    BY DEF Rejects
  <1>3. Rejected(i) \in Runs /\ Alike(run, Rejected(i))
    <2>1. run.attempts[i].kind = "model" /\ run \in Runs
      BY <1>1 DEF IInv, AllFit, LastIsTheAIs, Sound
    <2> QED BY <2>1, RejectedAlike
  <1>4. Same(run, Rejected(i))
    BY <1>3 DEF Same, Quiet, Rejected, Runs, IInv, Sound
  <1>5. Beside /\ (\/ th' = Ends(Main, "finish", "blocked") \/ th' = Ends(Main, "finish", "partial")
                   \/ th' = Ends(Main, "head", None))
    BY <1>1, <1>2, <1>4, Committed, Moved DEF Goes
  <1>6. /\ {"head", "finish"} \subseteq Resting \ (Ahead \cup {"recover"}) /\ {None, "blocked", "partial"} \subseteq Results
        /\ {"blocked", "partial"} \subseteq Settled \ {"completed-with-gaps"}
    BY DEF Resting, Pcs, AtWork, Ahead, Results, Settled
  <1> QED BY <1>1, <1>5, <1>6, MainResets

\* What is published or about to be: the journal says so, and nothing else changes.
LEMMA MarkedQuiet ==
  ASSUME IInv, NEW met \in {run.met, TRUE}, NEW s, s = [run EXCEPT !.unpublished = TRUE, !.met = met]
  PROVE  Quiet(run, s) /\ s.tasks = run.tasks
  <1>1. run \in Runs /\ run.pending \subseteq Asked(run)
    BY DEF IInv, Sound
  <1>2. /\ s \in Runs /\ s.attempts = run.attempts /\ s.pending = run.pending
        /\ s.retrieved = run.retrieved /\ s.limits = run.limits /\ s.asks = run.asks
        /\ s.state = run.state /\ s.resume = run.resume /\ s.tasks = run.tasks
    <2>1. met \in BOOLEAN
      BY <1>1 DEF Runs
    <2> QED BY <1>1, <2>1 DEF Runs
  <1> QED BY <1>1, <1>2, SameRun

LEMMA PublishedSame ==
  ASSUME IInv, run.state = "running"
  PROVE  Same(run, Published) /\ Published.unpublished = FALSE
  <1>1. run \in Runs /\ run.pending \subseteq Asked(run) /\ run.resume = None
    BY DEF IInv, Sound, Clean
  <1>2. /\ Published \in Runs /\ Published.attempts = run.attempts /\ Published.pending = run.pending
        /\ Published.retrieved = run.retrieved /\ Published.limits = run.limits /\ Published.asks = run.asks
        /\ Published.state = run.state /\ Published.resume = run.resume /\ Published.tasks = run.tasks
        /\ Published.unpublished = FALSE
    BY <1>1 DEF Published, Runs
  <1> QED BY <1>1, <1>2, SameRun DEF Same

\* The coordinator's own steps where something becomes unpublished, or is published.
LEMMA MainMarks ==
  ASSUME IInv, Frame, faults' \in {faults, faults + 1}, Quiet(run, run'), th[Main].pc \in {"act", "publishing"},
         NEW pc \in {"publishing", "finish", "head"}, NEW res \in Results, th' = Ends(Main, pc, res),
         pc = "finish" => res \in {"blocked", "partial"},
         \A t \in Task : run'.tasks[t] = "running" => run.tasks[t] = "running",
         run'.unpublished => pc = "publishing" \/ (pc = "finish" /\ res = "blocked")
  PROVE  IInv'
  <1>1. Main \in Actor /\ run.state = "running" /\ run'.state = "running" /\ run'.resume = run.resume
    BY DEF Actor, IInv, InOrder, Ahead, Quiet
  <1>2. PICK j : Ends(Main, pc, res) = [th EXCEPT ![Main] = j] /\ Rests(th[Main], j) /\ j.pc = pc /\ j.res = res
    <2>1. pc \in Resting /\ (pc = "finish" => res \in Settled \ {"completed-with-gaps"})
      BY DEF Resting, Pcs, AtWork, Settled
    <2> QED BY <1>1, <2>1, EndsRests
  <1>3. /\ j \in Jobs /\ th[Main].pc \notin Flying /\ j.pc \notin Flying
        /\ th[Main].pc \notin Ahead \cup {"recover"} /\ j.pc \notin Ahead \cup {"recover"} /\ th[Main].pc # "batch"
    BY <1>2 DEF Rests, Flying, Ahead
  <1>4. Fits(Main, j, run)
    BY <1>1, <1>2, RestsFits, AttemptSets DEF IInv, AllFit, Sound
  <1>5. LastIsTheAIs(j, run)
    BY <1>2 DEF LastIsTheAIs, AtWork
  <1>6. th'[Main] = j
    BY <1>1, <1>2 DEF IInv, AllFit
  <1>7. ~Broken
    BY <1>1 DEF Broken
  <1>8. run'.unpublished => Unpublishing'
    BY <1>1, <1>2, <1>6 DEF Unpublishing
  <1>9. ASSUME NEW t \in Task, run'.tasks[t] = "running" PROVE Broken'
    <2>1. Broken \/ th[t].pc # "idle"
      BY <1>9 DEF IInv, Clean
    <2>2. th[t].pc = "idle"
      BY <1>3 DEF IInv, InOrder
    <2> QED BY <1>7, <2>1, <2>2
  <1>10. UNCHANGED <<lease, sent, kept, dead>> /\ fatal' \in BOOLEAN /\ late' \subseteq Task
    BY DEF Frame, IInv, InOrder
  <1>11. faults' \in Nat /\ faults' >= faults
    BY DEF IInv, InOrder
  <1>12. Main \notin Task
    BY ResearchAssumption
  <1> QED BY <1>1, <1>2, <1>3, <1>4, <1>5, <1>7, <1>8, <1>9, <1>10, <1>11, <1>12, CalmStep DEF Blank

LEMMA ActsRecordsKeeps ==
  ASSUME IInv, ActsRecords
  PROVE  IInv'
  <1>1. th[Main].pc = "act" /\ run.state = "running"
    BY DEF ActsRecords, Acting, IInv, InOrder, Ahead
  <1>2. CASE Finishes("blocked")
    BY <1>1, <1>2, FinishesKeeps DEF Settled
  <1>3. ASSUME NEW met \in {run.met, TRUE}, Frame,
               Commit([run EXCEPT !.unpublished = TRUE, !.met = met],
                      Goes(Main, "publishing"), Ends(Main, "finish", "blocked"))
        PROVE  IInv'
    <2> DEFINE next == [run EXCEPT !.unpublished = TRUE, !.met = met]
    <2>2. /\ Quiet(run, next) /\ next.tasks = run.tasks /\ Same(run, run)
          /\ {None, "blocked"} \subseteq Results
      <3>1. {None, "blocked"} \subseteq Results
        BY DEF Results, Settled
      <3>2. ASSUME NEW s, s = next PROVE Quiet(run, s) /\ s.tasks = run.tasks
        BY <3>2, MarkedQuiet
      <3> HIDE DEF next
      <3> QED BY <3>1, <3>2, SameRun
    <2> HIDE DEF next
    <2>3. /\ run' \in {run, next} /\ faults' \in {faults, faults + 1}
          /\ th' = Ends(Main, "publishing", None) \/ th' = Ends(Main, "finish", "blocked")
      BY <1>3 DEF Commit, Goes, next
    <2>4. Quiet(run, run') /\ run'.tasks = run.tasks
      BY <2>2, <2>3 DEF Same
    <2> QED BY <1>1, <1>3, <2>2, <2>3, <2>4, MainMarks
  <1> QED BY <1>2, <1>3 DEF ActsRecords

LEMMA PublishesRecordsKeeps ==
  ASSUME IInv, PublishesRecords
  PROVE  IInv'
  <1>1. th[Main].pc = "publishing" /\ run.state = "running" /\ Frame
    BY DEF PublishesRecords, IInv, InOrder, Ahead
  <1>2. Same(run, Published) /\ Published.unpublished = FALSE /\ Same(run, run) /\ {None, "blocked", "partial"} \subseteq Results
    <2>1. {None, "blocked", "partial"} \subseteq Results
      BY DEF Results, Settled
    <2> QED BY <1>1, <2>1, PublishedSame, SameRun
  <1>3. CASE Moves(Ends(Main, "finish", "blocked"))
    BY <1>1, <1>2, <1>3, MainMarks DEF Moves, Same
  <1>4. ASSUME NEW ok \in {Goes(Main, "head"), Ends(Main, "finish", "partial")},
               Commit(Published, ok, Ends(Main, "finish", "blocked"))
        PROVE  IInv'
    <2>1. \/ run' = Published /\ (th' = Ends(Main, "head", None) \/ th' = Ends(Main, "finish", "partial")) /\ faults' = faults
          \/ run' \in {run, Published} /\ th' = Ends(Main, "finish", "blocked") /\ faults' = faults + 1
      BY <1>4 DEF Commit, Goes
    <2>2. Same(run, run')
      BY <1>2, <2>1
    <2> QED BY <1>1, <1>2, <2>1, <2>2, MainMarks DEF Same
  <1> QED BY <1>3, <1>4 DEF PublishesRecords

LEMMA ActsSourceKeeps ==
  ASSUME IInv, ActsSource
  PROVE  IInv'
  <1>1. th[Main].pc = "act" /\ Main \in Actor
    BY DEF ActsSource, Acting, Actor
  <1>2. PICK q \in Request :
          \/ Finishes("partial") \/ OrQuits([run EXCEPT !.final = TRUE], "rejecting")
          \/ Moves(As(Main, Job(KindOf(q), q))) /\ Frame
    BY DEF ActsSource
  <1>3. CASE Finishes("partial")
    BY <1>1, <1>3, FinishesKeeps DEF Settled
  <1>4. CASE OrQuits([run EXCEPT !.final = TRUE], "rejecting")
    <2>1. "rejecting" \in Resting \ (Ahead \cup {"recover", "finish"})
      BY DEF Resting, Pcs, AtWork, Ahead
    <2> QED BY <1>1, <1>4, <2>1, FinalSame, OrQuitsKeeps
  <1>5. CASE Moves(As(Main, Job(KindOf(q), q))) /\ Frame
    <2> DEFINE j == Job(KindOf(q), q)
    <2>1. th' = [th EXCEPT ![Main] = j] /\ Beside
      BY <1>5, Moved DEF As
    <2>2. /\ j \in Jobs /\ j.pc = "begin" /\ j.at = 0 /\ j.after = 0 /\ j.kind \in {"page", "search"}
          /\ j.req = q /\ j.size = 0
      BY DEF Job, Idle, Jobs, Pcs, Results, Kinds, KindOf
    <2> HIDE DEF j
    <2>3. Fits(Main, j, run) /\ LastIsTheAIs(j, run)
      BY <2>2, AttemptSets DEF Fits, LastIsTheAIs, AtWork, IInv, Sound, Kinds
    <2>4. th[Main].pc \notin Flying \cup Outer \cup {"dropping"} /\ j.pc \notin Flying \cup Ahead \cup {"recover"}
      BY <1>1, <2>2 DEF Flying, Outer, Ahead
    <2> QED BY <1>1, <2>1, <2>2, <2>3, <2>4, NeutralStep DEF Within
  <1> QED BY <1>2, <1>3, <1>4, <1>5

LEMMA ActsDelegateKeeps ==
  ASSUME IInv, ActsDelegate
  PROVE  IInv'
  <1>1. th[Main].pc = "act" /\ Main \in Actor /\ Frame
    BY DEF ActsDelegate, Acting, Actor
  <1>2. PICK S \in SUBSET Unclaimed : Commit(Queued(S), Batch("head"), At(Main, "rejecting"))
    BY DEF ActsDelegate
  <1>3. Beside /\ (th' = Batch("head") \/ th' = At(Main, "rejecting"))
    BY <1>1, <1>2, QueuedSame, Committed
  <1>4. CASE th' = Batch("head")
    BY <1>1, <1>3, <1>4, BatchStep
  <1>5. CASE th' = At(Main, "rejecting")
    <2>1. "rejecting" \in Resting \ {"finish"} /\ None \in Results /\ th[Main] \in Jobs
      BY <1>1 DEF Resting, Pcs, AtWork, Results, IInv, AllFit
    <2>2. PICK j : At(Main, "rejecting") = [th EXCEPT ![Main] = j] /\ Rests(th[Main], j) /\ j.pc = "rejecting"
      BY <1>1, <2>1, WithRests
    <2>3. th[Main].pc \notin Flying \cup Outer \cup {"dropping"} /\ j.pc \notin Ahead \cup {"recover"}
      BY <1>1, <2>2 DEF Flying, Outer, Ahead
    <2> QED BY <1>1, <1>3, <1>5, <2>2, <2>3, RestStep
  <1> QED BY <1>3, <1>4, <1>5

\* The batch is over: what was not begun is settled, and nobody is at work.
LEMMA BatchEndsKeeps ==
  ASSUME IInv, BatchEnds
  PROVE  IInv'
  <1> DEFINE left == [run EXCEPT !.tasks = [t \in Task |-> IF t \in QueuedTasks THEN "settled" ELSE @[t]]]
             failed == Ends(Main, "finish", "interrupted")
  <1>1. /\ th[Main].pc = "batch" /\ Working = {} /\ Frame
        /\ Commit(left, IF dead \/ fatal THEN failed ELSE Goes(Main, th[Main].res), failed)
    BY DEF BatchEnds
  <1>2. /\ run \in Runs /\ th \in [Actor -> Jobs] /\ run.state = "running" /\ Main \in Actor /\ Main \notin Task
        /\ \A t \in Task : th[t].pc = "idle"
    BY <1>1, ResearchAssumption DEF IInv, Sound, AllFit, InOrder, Ahead, Actor, Working
  <1>3. left.tasks \in [Task -> {"none", "queued", "running", "settled"}]
        /\ \A t \in Task : left.tasks[t] = "running" => run.tasks[t] = "running"
    BY <1>2 DEF Runs
  <1>4. Same(run, left)
    <2>1. /\ left \in Runs /\ left.attempts = run.attempts /\ left.pending = run.pending
          /\ left.retrieved = run.retrieved /\ left.limits = run.limits /\ left.asks = run.asks
          /\ left.state = run.state /\ left.resume = run.resume /\ left.unpublished = run.unpublished
      BY <1>2, <1>3 DEF Runs
    <2> QED BY <1>3, <2>1, SameRun DEF Same, IInv, Sound
  <1> HIDE DEF left
  <1>5. th[Main].res \in {"asking", "head"} /\ Fits(Main, th[Main], run)
    BY <1>1, <1>2 DEF IInv, AllFit, Fits
  <1>6. /\ Same(run, run') /\ faults' \in Nat /\ faults' >= faults
        /\ \/ th' = failed
           \/ ~(dead \/ fatal) /\ th' = Ends(Main, th[Main].res, None)
    BY <1>1, <1>4, SameRun DEF Commit, Goes, IInv, InOrder
  <1>7. PICK pc \in {"finish", "asking", "head"}, res \in {"interrupted", None} :
          /\ th' = Ends(Main, pc, res) /\ (pc = "finish" => res = "interrupted")
          /\ dead \/ fatal => pc = "finish"
    BY <1>5, <1>6
  <1>8. PICK j : Ends(Main, pc, res) = [th EXCEPT ![Main] = j] /\ Rests(th[Main], j) /\ j.pc = pc /\ j.res = res
    <2>1. pc \in Resting /\ res \in Results /\ (pc = "finish" => res \in Settled \ {"completed-with-gaps"})
      BY <1>7 DEF Resting, Pcs, AtWork, Settled, Results
    <2> QED BY <1>2, <2>1, EndsRests
  <1>9. /\ j \in Jobs /\ th[Main].pc \notin Flying /\ j.pc \notin Flying
        /\ th[Main].pc \notin Ahead \cup {"recover"} /\ j.pc \notin Ahead \cup {"recover"}
    BY <1>1, <1>8 DEF Rests, Flying, Ahead
  <1>10. Fits(Main, j, run) /\ LastIsTheAIs(j, run)
    <2>1. Fits(Main, j, run)
      BY <1>5, <1>8, RestsFits, AttemptSets DEF IInv, Sound
    <2> QED BY <1>8, <2>1 DEF LastIsTheAIs, AtWork
  <1>11. th'[Main] = j /\ run'.state = "running" /\ run'.resume = run.resume
    BY <1>2, <1>6, <1>7, <1>8 DEF Same, Quiet
  <1>12. Broken => Broken'
    BY <1>1, <1>2, <1>7, <1>8, <1>11 DEF Broken
  <1>13. run'.unpublished => Broken'
    <2>1. ~Unpublishing
      BY <1>1, <1>2 DEF Unpublishing
    <2> QED BY <1>2, <1>6, <1>12, <2>1 DEF IInv, Clean, Same
  <1>14. ASSUME NEW t \in Task, run'.tasks[t] = "running" PROVE Broken'
    BY <1>2, <1>6, <1>12, <1>14 DEF IInv, Clean, Same
  <1>15. UNCHANGED <<lease, sent, kept, dead>> /\ fatal' \in BOOLEAN /\ late' \subseteq Task
    BY <1>1 DEF Frame, IInv, InOrder
  <1>16. th' = [th EXCEPT ![Main] = j] /\ Quiet(run, run')
    BY <1>6, <1>7, <1>8 DEF Same
  <1> QED BY <1>1, <1>2, <1>6, <1>9, <1>10, <1>12, <1>13, <1>14, <1>15, <1>16, CalmStep DEF Blank

-------------------------------------------------------------------------------
(* The tasks.                                                              *)

LEMMA TaskResets ==
  ASSUME IInv, NEW t \in Task, Beside, th[t].pc \in {"first", "turn", "look", "failing", "told", "act"},
         NEW pc \in {"end", "told", "turn"}, NEW res \in Results, th' = Ends(t, pc, res)
  PROVE  IInv'
  <1>1. /\ t \in Actor /\ t # Main /\ pc \in Resting /\ th[t].pc \notin Flying \cup Outer \cup {"dropping"}
        /\ pc \notin Ahead \cup {"recover"} /\ pc # "finish"
    BY ResearchAssumption DEF Actor, Resting, Pcs, AtWork, Flying, Outer, Ahead
  <1> QED BY <1>1, ResetStep

LEMMA TaskStays ==
  ASSUME IInv, NEW t \in Task, Beside, th[t].pc \in {"first", "failing", "told"},
         NEW pc \in {"turn", "continuing"}, th' = At(t, pc)
  PROVE  IInv'
  <1>1. /\ t \in Actor /\ t # Main /\ pc \in Resting \ {"finish"} /\ th[t].pc \notin Flying \cup Outer \cup {"dropping"}
        /\ pc \notin Ahead \cup {"recover"} /\ th[t] \in Jobs /\ None \in Results
    BY ResearchAssumption DEF Actor, Resting, Pcs, AtWork, Flying, Outer, Ahead, IInv, AllFit, Results
  <1>2. PICK j : At(t, pc) = [th EXCEPT ![t] = j] /\ Rests(th[t], j) /\ j.pc = pc
    BY <1>1, WithRests
  <1> QED BY <1>1, <1>2, RestStep

LEMMA TaskLooks ==
  ASSUME IInv, NEW t \in Task, Beside, th[t].pc \in {"first", "failing", "act"},
         NEW q \in Request, th' = Sourced(t, q)
  PROVE  IInv'
  <1> DEFINE j == [Idle EXCEPT !.pc = "look", !.kind = KindOf(q), !.req = q]
  <1>1. /\ t \in Actor /\ t # Main /\ th[t].pc \notin Flying \cup Outer \cup {"dropping"}
    BY ResearchAssumption DEF Actor, Flying, Outer
  <1>2. th' = [th EXCEPT ![t] = j]
    BY DEF Sourced, As
  <1>3. /\ j \in Jobs /\ j.pc = "look" /\ j.at = 0 /\ j.after = 0 /\ Sourcing(j)
    BY DEF Idle, Jobs, Pcs, Results, Kinds, KindOf, Sourcing
  <1> HIDE DEF j
  <1>4. Rests(th[t], j) /\ j.pc \notin Ahead \cup {"recover"}
    BY <1>3 DEF Rests, AtWork, Ahead
  <1> QED BY <1>1, <1>2, <1>3, <1>4, RestStep

LEMMA TaskAsks ==
  ASSUME IInv, NEW t \in Task, Beside, th[t].pc \in {"turn", "look"}, NEW kind, NEW q,
         (kind = "model" /\ q = None) \/ (kind \in {"search", "page"} /\ q \in Request),
         th' = As(t, Job(kind, q))
  PROVE  IInv'
  <1> DEFINE j == Job(kind, q)
  <1>1. /\ t \in Actor /\ t # Main /\ th[t].pc \notin Flying \cup Outer \cup {"dropping"}
    BY ResearchAssumption DEF Actor, Flying, Outer
  <1>2. th' = [th EXCEPT ![t] = j]
    BY DEF As
  <1>3. /\ j \in Jobs /\ j.pc = "begin" /\ j.at = 0 /\ j.after = 0 /\ j.kind = kind /\ j.req = q /\ j.size = 0
    BY DEF Job, Idle, Jobs, Pcs, Results, Kinds
  <1> HIDE DEF j
  <1>4. Fits(t, j, run)
    BY <1>3, AttemptSets DEF Fits, AtWork, IInv, Sound, Kinds
  <1>5. j.pc \notin Flying \cup Ahead \cup {"recover"}
    BY <1>3 DEF Flying, Ahead
  <1> QED BY <1>1, <1>2, <1>3, <1>4, <1>5, NeutralStep DEF Within

LEMMA BeginsTaskKeeps ==
  ASSUME IInv, NEW t \in Task, BeginsTask(t)
  PROVE  IInv'
  <1>1. th[t].pc = "first" /\ Frame /\ None \in Results
    BY DEF BeginsTask, Results
  <1>2. CASE Moves(Ends(t, "end", None))
    BY <1>1, <1>2, Moved, TaskResets
  <1>3. CASE Moves(At(t, "turn"))
    BY <1>1, <1>3, Moved, TaskStays
  <1>4. ASSUME NEW q \in Page, Moves(Sourced(t, q)) PROVE IInv'
    BY <1>1, <1>4, Moved, TaskLooks, ResearchAssumption
  <1> QED BY <1>2, <1>3, <1>4 DEF BeginsTask

LEMMA TakesTurnKeeps ==
  ASSUME IInv, NEW t \in Task, TakesTurn(t)
  PROVE  IInv'
  <1>1. th[t].pc = "turn" /\ Frame /\ None \in Results
    BY DEF TakesTurn, Results
  <1>2. CASE Moves(Ends(t, "end", None))
    BY <1>1, <1>2, Moved, TaskResets
  <1>3. CASE Moves(As(t, Job("model", None)))
    BY <1>1, <1>3, Moved, TaskAsks
  <1> QED BY <1>2, <1>3 DEF TakesTurn

LEMMA LooksKeeps ==
  ASSUME IInv, NEW t \in Task, Looks(t)
  PROVE  IInv'
  <1>1. th[t].pc = "look" /\ Frame /\ None \in Results /\ t \in Actor
    BY DEF Looks, Results, Actor
  <1>2. th[t].kind \in {"search", "page"} /\ th[t].req \in Request
    BY <1>1 DEF IInv, AllFit, Fits, Sourcing
  <1>3. CASE Moves(Ends(t, "end", None))
    BY <1>1, <1>3, Moved, TaskResets
  <1>4. CASE Moves(Goes(t, "told"))
    BY <1>1, <1>4, Moved, TaskResets DEF Goes
  <1>5. CASE Moves(As(t, Job(th[t].kind, th[t].req)))
    BY <1>1, <1>2, <1>5, Moved, TaskAsks
  <1> QED BY <1>3, <1>4, <1>5 DEF Looks

LEMMA FailsKeeps ==
  ASSUME IInv, NEW t \in Task, Fails(t)
  PROVE  IInv'
  <1>1. th[t].pc = "failing" /\ Frame /\ None \in Results /\ t \in Actor
    BY DEF Fails, Results, Actor
  <1>2. th[t].req \in Request /\ th[t].res \in Results
    BY <1>1 DEF IInv, AllFit, Fits, Sourcing, Jobs
  <1>3. ASSUME NEW res \in Results, Moves(Ends(t, "end", res)) PROVE IInv'
    BY <1>1, <1>3, Moved, TaskResets
  <1>4. CASE Moves(Sourced(t, th[t].req))
    BY <1>1, <1>2, <1>4, Moved, TaskLooks
  <1>5. CASE Moves(At(t, "continuing"))
    BY <1>1, <1>5, Moved, TaskStays
  <1>6. CASE Moves(Goes(t, "told"))
    BY <1>1, <1>6, Moved, TaskResets DEF Goes
  <1>7. \/ Moves(Ends(t, "end", None)) \/ Moves(Sourced(t, th[t].req)) \/ Moves(At(t, "continuing"))
        \/ Moves(Goes(t, "told")) \/ Moves(Ends(t, "end", th[t].res))
    BY DEF Fails
  <1> QED BY <1>1, <1>2, <1>3, <1>4, <1>5, <1>6, <1>7

LEMMA ToldKeeps ==
  ASSUME IInv, NEW t \in Task, Told(t)
  PROVE  IInv'
  <1> DEFINE asked == {i \in OfTask(t) : run.attempts[i].kind = "model"}
             i == Latest(asked)
  <1>1. th[t].pc = "told" /\ Frame /\ {None, "unsaved"} \subseteq Results
    BY DEF Told, Results
  <1>2. CASE Moves(Ends(t, "end", None))
    BY <1>1, <1>2, Moved, TaskResets
  <1>3. CASE Moves(At(t, "turn"))
    BY <1>1, <1>3, Moved, TaskStays
  <1>4. ASSUME asked # {}, NEW ok \in {At(t, "turn"), Ends(t, "end", None)},
               Commit(Rejected(i), ok, Ends(t, "end", "unsaved"))
        PROVE  IInv'
    <2>1. run \in Runs /\ run.pending \subseteq Asked(run) /\ Len(run.attempts) \in Nat
          /\ asked \subseteq 1 .. Len(run.attempts)
      BY AttemptSets DEF IInv, Sound, OfTask, Asked
    <2>2. i \in asked
      <3> HIDE DEF asked
      <3> QED BY <1>4, <2>1, LatestIn
    <2>3. Rejected(i) \in Runs /\ Alike(run, Rejected(i))
      BY <2>1, <2>2, RejectedAlike
    <2> HIDE DEF i, asked
    <2>4. Same(run, Rejected(i))
      BY <2>1, <2>3 DEF Same, Quiet, Rejected, Runs
    <2>5. Beside /\ (th' = ok \/ th' = Ends(t, "end", "unsaved"))
      BY <1>1, <1>4, <2>4, Committed
    <2> QED BY <1>1, <1>4, <2>5, TaskResets, TaskStays
  <1> QED BY <1>2, <1>3, <1>4 DEF Told

\* A task's step where something becomes unpublished, is published, or where
\* the task begins or ends: whose that is afterwards.
MarksLeft(t, j) ==
    run'.unpublished =>
       \/ fatal' \/ j.pc = "publishing" \/ (j.pc = "end" /\ j.res # None)
       \/ run.unpublished /\ th[t].pc # "publishing" /\ ~(th[t].pc = "end" /\ th[t].res # None)
TasksLeft(t, j) ==
    \A u \in Task : run'.tasks[u] = "running" =>
       fatal' \/ (u = t /\ j.pc # "idle") \/ (u # t /\ run.tasks[u] = "running")
LEMMA TaskMarks ==
  ASSUME IInv, NEW t \in Task, NEW j \in Jobs, th' = [th EXCEPT ![t] = j], Quiet(run, run'),
         th[Main].pc = "batch", th[t].pc \notin Flying, j.pc \notin Flying, Fits(t, j, run), Blank(j),
         UNCHANGED <<lease, sent, kept, dead>>, fatal' \in BOOLEAN, late' \subseteq Task,
         faults' \in {faults, faults + 1}, fatal => fatal', MarksLeft(t, j), TasksLeft(t, j)
  PROVE  IInv'
  <1>1. /\ th \in [Actor -> Jobs] /\ Main \notin Task /\ t \in Actor /\ t # Main
        /\ th'[t] = j /\ th'[Main] = th[Main] /\ \A u \in Task : u # t => th'[u] = th[u]
    BY ResearchAssumption DEF IInv, AllFit, Actor
  <1>2. run.state = "running" /\ run'.state = "running"
    BY DEF IInv, InOrder, Ahead, Quiet
  <1>3. Broken <=> fatal
    BY <1>2 DEF Broken
  <1>4. Broken' <=> fatal'
    BY <1>1, <1>2 DEF Broken
  <1>5. run'.unpublished => Broken' \/ Unpublishing'
    <2>1. CASE fatal' \/ j.pc = "publishing" \/ (j.pc = "end" /\ j.res # None)
      BY <1>1, <1>2, <1>4, <2>1 DEF Unpublishing
    <2>2. CASE run.unpublished /\ th[t].pc # "publishing" /\ ~(th[t].pc = "end" /\ th[t].res # None)
      <3>1. Broken \/ Unpublishing
        BY <1>2, <2>2 DEF IInv, Clean
      <3>2. CASE Unpublishing
        <4>1. PICK u \in Task : th[u].pc = "publishing" \/ (th[u].pc = "end" /\ th[u].res # None)
          BY <3>2 DEF Unpublishing
        <4>2. th'[u] = th[u]
          BY <1>1, <2>2, <4>1
        <4> QED BY <1>1, <1>2, <4>1, <4>2 DEF Unpublishing
      <3> QED BY <1>3, <1>4, <3>1, <3>2
    <2> QED BY <2>1, <2>2 DEF MarksLeft
  <1>6. ASSUME NEW u \in Task, run'.tasks[u] = "running" PROVE Broken' \/ th'[u].pc # "idle"
    BY <1>1, <1>3, <1>4, <1>6 DEF IInv, Clean, TasksLeft
  <1>7. faults' \in Nat /\ faults' >= faults
    BY DEF IInv, InOrder
  <1> QED BY <1>1, <1>3, <1>4, <1>5, <1>6, <1>7, CalmStep

LEMMA StartsTaskKeeps ==
  ASSUME IInv, NEW t \in Task, StartsTask(t)
  PROVE  IInv'
  <1> DEFINE next == [run EXCEPT !.tasks[t] = "running"]
             g == [Idle EXCEPT !.pc = "first", !.res = None]
  <1>1. /\ th[Main].pc = "batch" /\ ~dead /\ ~fatal /\ th[t].pc = "idle"
        /\ Commit(next, Goes(t, "first"), th) \/ Moves(th)
        /\ fatal' = (th'[t].pc = "idle") /\ UNCHANGED late /\ TaskFrame
    BY DEF StartsTask
  <1>2. /\ run \in Runs /\ run.pending \subseteq Asked(run) /\ t \in Actor /\ th \in [Actor -> Jobs]
        /\ Fits(t, th[t], run) /\ late \subseteq Task /\ Len(run.attempts) \in Nat
    BY AttemptSets DEF IInv, Sound, Actor, AllFit, InOrder
  <1>3. Quiet(run, next) /\ next.unpublished = run.unpublished
        /\ \A u \in Task : u # t => next.tasks[u] = run.tasks[u]
    <2>1. /\ next \in Runs /\ next.attempts = run.attempts /\ next.pending = run.pending
          /\ next.retrieved = run.retrieved /\ next.limits = run.limits /\ next.asks = run.asks
          /\ next.state = run.state /\ next.resume = run.resume /\ next.unpublished = run.unpublished
          /\ \A u \in Task : u # t => next.tasks[u] = run.tasks[u]
      BY <1>2 DEF Runs
    <2> QED BY <1>2, <2>1, SameRun
  <1> HIDE DEF next
  <1>4. /\ run' \in {run, next} /\ faults' \in {faults, faults + 1}
        /\ th' = [th EXCEPT ![t] = g] \/ th' = th
    BY <1>1, <1>2 DEF Commit, Moves, Goes, Ends, As, IInv, InOrder
  <1>5. /\ Quiet(run, run') /\ run'.unpublished = run.unpublished
        /\ \A u \in Task : u # t => run'.tasks[u] = run.tasks[u]
    BY <1>3, <1>4, SameRun DEF Same
  <1>6. /\ UNCHANGED <<lease, sent, kept, dead>> /\ late' \subseteq Task /\ fatal' \in BOOLEAN /\ ~fatal
        /\ th[t].pc \notin Flying \cup {"publishing", "end"}
    BY <1>1, <1>2 DEF TaskFrame, Flying
  <1>7. CASE th' = [th EXCEPT ![t] = g]
    <2>1. g \in Jobs /\ g.pc = "first" /\ g.at = 0 /\ g.after = 0 /\ Blank(g)
      BY DEF Idle, Jobs, Pcs, Results, Blank
    <2> HIDE DEF g
    <2>2. Fits(t, g, run) /\ g.pc \notin Flying
      BY <1>2, <2>1 DEF Fits, AtWork, Flying
    <2>3. MarksLeft(t, g) /\ TasksLeft(t, g)
      BY <1>1, <1>5, <2>1 DEF MarksLeft, TasksLeft
    <2> QED BY <1>1, <1>4, <1>5, <1>6, <1>7, <2>1, <2>2, <2>3, TaskMarks
  <1>8. CASE th' = th
    <2>1. th' = [th EXCEPT ![t] = th[t]] /\ th[t] \in Jobs /\ fatal' /\ Blank(th[t])
      BY <1>1, <1>2, <1>8 DEF IInv, InOrder
    <2>2. MarksLeft(t, th[t]) /\ TasksLeft(t, th[t])
      BY <2>1 DEF MarksLeft, TasksLeft
    <2> QED BY <1>1, <1>2, <1>4, <1>5, <1>6, <2>1, <2>2, TaskMarks
  <1> QED BY <1>4, <1>7, <1>8

LEMMA EndsTaskKeeps ==
  ASSUME IInv, NEW t \in Task, EndsTask(t)
  PROVE  IInv'
  <1> DEFINE next == [run EXCEPT !.tasks[t] = "settled"]
  <1>1. /\ th[t].pc = "end" /\ TaskFrame /\ th' = [th EXCEPT ![t] = Idle] /\ late' = late \ {t}
        /\ \/ run' = next /\ faults' = faults /\ fatal' = (fatal \/ th[t].res # None)
           \/ run' = run /\ faults' = faults + 1 /\ fatal' = TRUE
    BY DEF EndsTask, As
  <1>2. /\ run \in Runs /\ run.pending \subseteq Asked(run) /\ t \in Actor /\ th \in [Actor -> Jobs]
        /\ late \subseteq Task /\ Len(run.attempts) \in Nat
    BY AttemptSets DEF IInv, Sound, Actor, AllFit, InOrder
  <1>3. th[Main].pc = "batch"
    BY <1>1 DEF IInv, InOrder
  <1>4. /\ Quiet(run, next) /\ next.unpublished = run.unpublished /\ next.tasks[t] = "settled"
        /\ \A u \in Task : u # t => next.tasks[u] = run.tasks[u]
    <2>1. /\ next \in Runs /\ next.attempts = run.attempts /\ next.pending = run.pending
          /\ next.retrieved = run.retrieved /\ next.limits = run.limits /\ next.asks = run.asks
          /\ next.state = run.state /\ next.resume = run.resume /\ next.unpublished = run.unpublished
          /\ next.tasks[t] = "settled" /\ \A u \in Task : u # t => next.tasks[u] = run.tasks[u]
      BY <1>2 DEF Runs
    <2> QED BY <1>2, <2>1, SameRun
  <1> HIDE DEF next
  <1>5. Idle \in Jobs /\ Idle.pc = "idle" /\ Idle.at = 0 /\ Idle.after = 0 /\ Blank(Idle)
    BY DEF Idle, Jobs, Pcs, Results, Blank
  <1>6. Fits(t, Idle, run) /\ Idle.pc \notin Flying /\ th[t].pc \notin Flying
    BY <1>1, <1>2, <1>5 DEF Fits, AtWork, Flying
  <1>7. UNCHANGED <<lease, sent, kept, dead>> /\ late' \subseteq Task
    BY <1>1, <1>2 DEF TaskFrame
  <1>8. fatal' \in BOOLEAN /\ (fatal => fatal') /\ (th[t].res # None => fatal')
    BY <1>1 DEF IInv, InOrder
  <1>9. CASE run' = next /\ faults' = faults
    <2>1. run'.unpublished => fatal' \/ (run.unpublished /\ th[t].pc # "publishing" /\ ~(th[t].pc = "end" /\ th[t].res # None))
      BY <1>1, <1>4, <1>8, <1>9
    <2>2. \A u \in Task : run'.tasks[u] = "running" => u # t /\ run.tasks[u] = "running"
      BY <1>4, <1>9
    <2>3. MarksLeft(t, Idle) /\ TasksLeft(t, Idle)
      BY <2>1, <2>2 DEF MarksLeft, TasksLeft
    <2>4. Quiet(run, run') /\ faults' \in {faults, faults + 1}
      BY <1>4, <1>9
    <2> QED BY <1>1, <1>3, <1>5, <1>6, <1>7, <1>8, <2>3, <2>4, TaskMarks
  <1>10. CASE run' = run /\ faults' = faults + 1 /\ fatal' = TRUE
    <2>1. Quiet(run, run')
      BY <1>10, SameRun DEF Same
    <2>2. MarksLeft(t, Idle) /\ TasksLeft(t, Idle) /\ faults' \in {faults, faults + 1}
      BY <1>10 DEF MarksLeft, TasksLeft
    <2> QED BY <1>1, <1>3, <1>5, <1>6, <1>7, <1>8, <2>1, <2>2, TaskMarks
  <1> QED BY <1>1, <1>9, <1>10

LEMMA ActsTaskKeeps ==
  ASSUME IInv, NEW t \in Task, ActsTask(t)
  PROVE  IInv'
  <1>1. th[t].pc = "act" /\ Frame /\ {None, "unsaved", "stopped"} \subseteq Results /\ t \in Actor
    BY DEF ActsTask, Results, Actor
  <1>2. CASE Commit(run, Ends(t, "end", None), Ends(t, "end", "unsaved"))
    BY <1>1, <1>2, SameRun, Committed, TaskResets
  <1>3. CASE Moves(Ends(t, "end", "stopped"))
    BY <1>1, <1>3, Moved, TaskResets
  <1>4. ASSUME NEW pc \in {"turn", "told"}, Moves(Goes(t, pc)) PROVE IInv'
    BY <1>1, <1>4, Moved, TaskResets DEF Goes
  <1>5. ASSUME NEW q \in Request, Moves(Sourced(t, q)) PROVE IInv'
    BY <1>1, <1>5, Moved, TaskLooks
  <1>6. ASSUME NEW met \in {run.met, TRUE},
               Commit([run EXCEPT !.unpublished = TRUE, !.met = met], At(t, "publishing"), Ends(t, "end", "unsaved"))
        PROVE  IInv'
    <2> DEFINE next == [run EXCEPT !.unpublished = TRUE, !.met = met]
    <2>1. ASSUME NEW s, s = next PROVE Quiet(run, s) /\ s.tasks = run.tasks
      BY <2>1, MarkedQuiet
    <2>2. Quiet(run, next) /\ next.tasks = run.tasks
      <3> HIDE DEF next
      <3> QED BY <2>1
    <2> HIDE DEF next
    <2>3. /\ run' \in {run, next} /\ faults' \in {faults, faults + 1}
          /\ th' = At(t, "publishing") \/ th' = Ends(t, "end", "unsaved")
      BY <1>6 DEF Commit, next
    <2>4. Quiet(run, run') /\ run'.tasks = run.tasks
      BY <2>2, <2>3, SameRun DEF Same
    <2>5. PICK j : th' = [th EXCEPT ![t] = j] /\ Rests(th[t], j)
                   /\ (j.pc = "publishing" \/ (j.pc = "end" /\ j.res = "unsaved"))
      <3>1. /\ "publishing" \in Resting \ {"finish"} /\ "end" \in Resting /\ th[t] \in Jobs
        BY <1>1 DEF Resting, Pcs, AtWork, IInv, AllFit
      <3> QED BY <1>1, <2>3, <3>1, WithRests, EndsRests
    <2>6. j \in Jobs /\ j.pc \notin Flying /\ th[t].pc \notin Flying /\ Fits(t, j, run)
      <3>1. Fits(t, th[t], run) /\ Len(run.attempts) \in Nat
        BY <1>1, AttemptSets DEF IInv, AllFit, Sound
      <3> QED BY <1>1, <2>5, <3>1, RestsFits DEF Rests, Flying
    <2>7. th[Main].pc = "batch" /\ fatal' \in BOOLEAN /\ fatal' = fatal /\ late' \subseteq Task
      BY <1>1 DEF IInv, InOrder, Frame
    <2>8. \A u \in Task : run'.tasks[u] = "running" => (u = t /\ j.pc # "idle") \/ (u # t /\ run.tasks[u] = "running")
      BY <2>4, <2>5
    <2>9. j.pc = "publishing" \/ (j.pc = "end" /\ j.res # None)
      BY <2>5, ResearchAssumption
    <2>10. MarksLeft(t, j) /\ TasksLeft(t, j)
      BY <2>8, <2>9 DEF MarksLeft, TasksLeft
    <2>11. UNCHANGED <<lease, sent, kept, dead>>
      BY <1>1 DEF Frame
    <2>12. Blank(j)
      BY <2>5 DEF Blank, Ahead
    <2> QED BY <2>3, <2>4, <2>5, <2>6, <2>7, <2>10, <2>11, <2>12, TaskMarks
  <1> QED BY <1>1, <1>2, <1>3, <1>4, <1>5, <1>6 DEF ActsTask

LEMMA PublishesTaskKeeps ==
  ASSUME IInv, NEW t \in Task, PublishesTask(t)
  PROVE  IInv'
  <1>1. /\ th[t].pc = "publishing" /\ Frame /\ {None, "unsaved", "unpublished"} \subseteq Results
        /\ t \in Actor /\ th[Main].pc = "batch" /\ run.state = "running"
    BY DEF PublishesTask, Results, Actor, IInv, InOrder, Ahead
  <1>2. Same(run, Published) /\ Published.unpublished = FALSE /\ Same(run, run)
    BY <1>1, PublishedSame, SameRun
  <1>3. PICK pc \in {"end", "told"}, res \in {None, "unsaved", "unpublished"} :
          /\ th' = Ends(t, pc, res) /\ Same(run, run') /\ faults' \in {faults, faults + 1}
          /\ run'.unpublished => pc = "end" /\ res # None
    <2>1. CASE Moves(Ends(t, "end", "unpublished"))
      BY <1>2, <2>1, ResearchAssumption DEF Moves
    <2>2. ASSUME NEW pc \in {"end", "told"}, Commit(Published, Ends(t, pc, None), Ends(t, "end", "unsaved"))
          PROVE  \/ run' = Published /\ th' = Ends(t, pc, None) /\ faults' = faults
                 \/ run' \in {run, Published} /\ th' = Ends(t, "end", "unsaved") /\ faults' = faults + 1
      BY <2>2 DEF Commit
    <2> QED BY <1>1, <1>2, <2>1, <2>2, ResearchAssumption DEF PublishesTask
  <1>4. PICK j : th' = [th EXCEPT ![t] = j] /\ Rests(th[t], j) /\ j.pc = pc /\ j.res = res
    <2>1. pc \in Resting /\ pc # "finish" /\ res \in Results
      BY <1>1 DEF Resting, Pcs, AtWork
    <2> QED BY <1>1, <1>3, <2>1, EndsRests
  <1>5. j \in Jobs /\ j.pc \notin Flying /\ th[t].pc \notin Flying /\ Fits(t, j, run)
    <2>1. Fits(t, th[t], run) /\ Len(run.attempts) \in Nat
      BY <1>1, AttemptSets DEF IInv, AllFit, Sound
    <2> QED BY <1>1, <1>3, <1>4, <2>1, RestsFits DEF Rests, Flying
  <1>6. fatal' \in BOOLEAN /\ fatal' = fatal /\ late' \subseteq Task
    BY <1>1 DEF IInv, InOrder, Frame
  <1>7. \A u \in Task : run'.tasks[u] = "running" => (u = t /\ j.pc # "idle") \/ (u # t /\ run.tasks[u] = "running")
    BY <1>3, <1>4 DEF Same
  <1>8. MarksLeft(t, j) /\ TasksLeft(t, j)
    BY <1>3, <1>4, <1>7 DEF MarksLeft, TasksLeft
  <1>9. UNCHANGED <<lease, sent, kept, dead>> /\ Quiet(run, run')
    BY <1>1, <1>3 DEF Frame, Same
  <1>10. Blank(j)
    BY <1>3, <1>4 DEF Blank, Ahead
  <1> QED BY <1>1, <1>3, <1>4, <1>5, <1>6, <1>8, <1>9, <1>10, TaskMarks

-------------------------------------------------------------------------------
(* Before and after an execution.                                          *)

LEMMA StillEnds ==
  ASSUME IInv, th[Main].pc \in Ahead \cup {"recover"}, run' = run, faults' \in {faults, faults + 1}
  PROVE  Stands /\ Ended
  <1>1. Turns
    BY DEF Turns, IInv, Sound
  <1>2. Frozen' <=> Frozen
    BY DEF Frozen
  <1> QED BY <1>1, <1>2, Stood, TurnsEnd DEF IInv, Clean

\* A goroutine that knows of no request.
LEMMA BlankJob ==
  ASSUME NEW pc \in {"recover", "publish", "start", "last", "head"}
  PROVE  LET j == [Idle EXCEPT !.pc = pc, !.res = None]
         IN  /\ j \in Jobs /\ j.pc = pc /\ j.at = 0 /\ j.after = 0 /\ Blank(j)
             /\ Goes(Main, pc) = [th EXCEPT ![Main] = j]
  BY DEF Idle, Jobs, Pcs, Results, Blank, Goes, Ends, As

LEMMA ScansKeeps ==
  ASSUME IInv, Scans
  PROVE  IInv'
  <1> DEFINE pc == IF run.state = "running" THEN "recover" ELSE "publish"
             j == [Idle EXCEPT !.pc = pc, !.res = None]
  <1>1. /\ ~lease /\ lease' /\ UNCHANGED <<dead, fatal, late, sent, kept>> /\ run' = run /\ faults' = faults
        /\ th' = Goes(Main, pc)
    BY DEF Scans, Moves
  <1>2. th[Main].pc \in Ahead \cup {"recover"}
    BY <1>1 DEF IInv, InOrder, Ahead
  <1>3. Stands /\ Ended
    BY <1>1, <1>2, StillEnds
  <1>4. j \in Jobs /\ j.pc = pc /\ Blank(j) /\ Goes(Main, pc) = [th EXCEPT ![Main] = j]
    BY BlankJob
  <1>5. j.pc \in {"recover", "publish", "start", "last"} /\ (j.pc = "recover" <=> run'.state = "running")
    BY <1>1, <1>4
  <1> HIDE DEF j
  <1> QED BY <1>1, <1>2, <1>3, <1>4, <1>5, AheadStep DEF Ahead

LEMMA CrashKeeps ==
  ASSUME IInv, Crash
  PROVE  IInv'
  <1>1. Quits /\ run' = run /\ faults' \in {faults, faults + 1}
    BY DEF Crash
  <1>2. CASE run.state = "running"
    BY <1>1, <1>2, SameRun, QuitSame
  <1>3. CASE run.state # "running"
    <2>1. th[Main].pc \in Ahead
      BY <1>3 DEF IInv, InOrder
    <2> QED BY <1>1, <2>1, StillEnds, QuitStep
  <1> QED BY <1>2, <1>3

\* What a process left running is interrupted.
LEMMA RecoveredSound ==
  ASSUME IInv
  PROVE  /\ Sound(Recovered) /\ Asked(Recovered) = Asked(run)
         /\ \A i \in Asked(run) :
              /\ ~Recovered.attempts[i].held
              /\ run.attempts[i].st \notin {"waiting", "not-started"}
                   => Recovered.attempts[i].st \notin {"waiting", "not-started"}
         /\ Recovered.state = "interrupted" /\ Recovered.pending = {}
         /\ Recovered.asks = run.asks /\ Recovered.resume = run.resume
  <1> DEFINE s == [i \in DOMAIN run.attempts |-> Left(run.attempts[i])]
             ts == [t \in Task |-> IF run.tasks[t] \in {"queued", "running"} THEN "settled" ELSE run.tasks[t]]
  <1>1. /\ run \in Runs /\ run.attempts \in Seq(Attempt) /\ DOMAIN run.attempts = 1 .. Len(run.attempts)
        /\ Len(run.attempts) \in Nat /\ \A i \in Asked(run) : run.attempts[i] \in Attempt
    BY AttemptSets DEF IInv, Sound, Asked
  <1>2. ASSUME NEW i \in Asked(run)
        PROVE  /\ s[i] \in Attempt /\ s[i].kind = run.attempts[i].kind /\ s[i].req = run.attempts[i].req
               /\ s[i].number = run.attempts[i].number /\ s[i].next = run.attempts[i].next
               /\ s[i].code = run.attempts[i].code /\ ~s[i].held
               /\ run.attempts[i].st \in {"uncertain", "not-started"} => s[i].st = run.attempts[i].st
               /\ run.attempts[i].st \notin {"waiting", "not-started"} => s[i].st \notin {"waiting", "not-started"}
    <2>1. s[i] = Left(run.attempts[i])
      BY <1>1 DEF Asked
    <2> HIDE DEF s
    <2> QED BY <1>1, <2>1 DEF Left, Attempt, AttemptStates
  <1>3. \A i \in Asked(run) : /\ s[i].kind = run.attempts[i].kind /\ s[i].req = run.attempts[i].req /\ ~s[i].held
                              /\ s[i].number = run.attempts[i].number /\ s[i].next = run.attempts[i].next
                              /\ s[i].code = run.attempts[i].code
    BY <1>2
  <1>4. s \in Seq(Attempt) /\ Len(s) = Len(run.attempts)
    <2>1. s \in [1 .. Len(run.attempts) -> Attempt]
      BY <1>1, <1>2 DEF Asked
    <2> HIDE DEF s
    <2> QED BY <1>1, <2>1
  <1>5. ts \in [Task -> {"none", "queued", "running", "settled"}]
    BY <1>1 DEF Runs
  <1>6. Recovered = [run EXCEPT !.state = "interrupted", !.pending = {}, !.tasks = ts, !.attempts = s]
    BY DEF Recovered
  <1> HIDE DEF s, ts
  <1>7. /\ Recovered \in Runs /\ Recovered.attempts = s /\ Recovered.pending = {} /\ Recovered.state = "interrupted"
        /\ Recovered.retrieved = run.retrieved /\ Recovered.limits = run.limits
        /\ Recovered.asks = run.asks /\ Recovered.resume = run.resume
    BY <1>1, <1>4, <1>5, <1>6 DEF Runs, States, Settled
  <1>8. Asked(Recovered) = Asked(run)
    BY <1>4, <1>7 DEF Asked
  <1>9. Kindly(Recovered)
    BY <1>3, <1>7, <1>8 DEF IInv, Sound, Kindly
  <1>10. Chained(Recovered)
    <2>1. Chained(run)
      BY DEF IInv, Sound
    <2>2. ASSUME NEW i \in Asked(run), NEW k \in Asked(run), i < k, s[i].req # None, s[i].req = s[k].req
          PROVE  s[i].next # 0 /\ s[i].st = "uncertain" /\ Retryable(s[i]) /\ s[i].number < s[k].number
      <3>1. /\ run.attempts[i].next # 0 /\ run.attempts[i].st = "uncertain" /\ Retryable(run.attempts[i])
            /\ run.attempts[i].number < run.attempts[k].number
        BY <1>3, <2>1, <2>2 DEF Chained
      <3> QED BY <1>2, <1>3, <3>1 DEF Retryable
    <2> QED BY <1>7, <1>8, <2>2 DEF Chained
  <1>11. Bounded(Recovered)
    <2>1. {i \in Asked(Recovered) : Recovered.attempts[i].held} = {}
      BY <1>3, <1>7, <1>8
    <2>2. Reserved(Recovered) = 0
      <3>1. Reserved(Recovered) = Allowance * Cardinality({i \in Asked(Recovered) : Recovered.attempts[i].held})
        BY <1>7, AttemptSets
      <3>2. Reserved(Recovered) = Allowance * 0
        BY <2>1, <3>1, FS_EmptySet
      <3> QED BY <3>2, ResearchAssumption
    <2>3. run.retrieved + Reserved(run) <= Room /\ run.retrieved \in Nat /\ Reserved(run) \in Nat
      <3> DEFINE H == {i \in Asked(run) : run.attempts[i].held}
      <3>1. Reserved(run) = Allowance * Cardinality(H) /\ Cardinality(H) \in Nat
        BY <1>1, AttemptSets
      <3> HIDE DEF H
      <3>2. Reserved(run) \in Nat
        BY <3>1, Times, ResearchAssumption
      <3> QED BY <1>1, <3>2 DEF IInv, Sound, Bounded, Runs
    <2>4. ASSUME NEW k \in Kinds PROVE Admitted(Recovered, k) <= run.limits[k]
      <3> DEFINE S == {i \in Asked(Recovered) : Recovered.attempts[i].kind = k /\ Recovered.attempts[i].st # "not-started"}
                 T == {i \in Asked(run) : run.attempts[i].kind = k /\ run.attempts[i].st # "not-started"}
      <3>1. S \subseteq T
        <4>1. ASSUME NEW i \in Asked(run), run.attempts[i].st = "not-started" PROVE s[i].st = "not-started"
          BY <1>2, <1>3, <4>1
        <4> QED BY <1>3, <1>7, <1>8, <4>1
      <3>2. Admitted(Recovered, k) = Cardinality(S) /\ Admitted(run, k) = Cardinality(T)
        BY <1>1, <1>7, AdmittedSet
      <3>3. T \subseteq Asked(run)
        OBVIOUS
      <3> HIDE DEF S, T
      <3>4. IsFiniteSet(T) /\ Cardinality(T) \in Nat
        BY <1>1, <3>3, AttemptSets
      <3>5. Cardinality(S) \in Nat /\ Cardinality(S) <= Cardinality(T)
        BY <3>1, <3>4, FS_Subset, FS_CardinalityType
      <3>6. Admitted(run, k) <= run.limits[k] /\ run.limits[k] \in Nat
        BY <1>1 DEF IInv, Sound, Bounded, Runs, Limits
      <3> QED BY <3>2, <3>4, <3>5, <3>6
    <2>5. run.asks # None => \A k \in Kinds : run.limits[k] <= run.asks[k]
      BY DEF IInv, Sound, Bounded
    <2>6. Recovered.retrieved + Reserved(Recovered) <= Room
      BY <1>7, <2>2, <2>3, ResearchAssumption
    <2> QED BY <1>7, <2>4, <2>5, <2>6 DEF Bounded
  <1>12. Sound(Recovered)
    BY <1>7, <1>9, <1>10, <1>11 DEF Sound
  <1> QED BY <1>2, <1>3, <1>7, <1>8, <1>12

LEMMA RecoversKeeps ==
  ASSUME IInv, Recovers
  PROVE  IInv'
  <1> DEFINE j == [Idle EXCEPT !.pc = "publish", !.res = None]
  <1>1. th[Main].pc = "recover" /\ th[Main].pc \in Ahead \cup {"recover"} /\ OrQuits(Recovered, "publish")
    BY DEF Recovers
  <1>2. run.state = "running" /\ lease
    BY <1>1 DEF IInv, InOrder, Ahead
  <1>3. run.asks = None /\ run.resume = None
    BY <1>2 DEF IInv, Clean
  <1>4. j \in Jobs /\ j.pc = "publish" /\ Blank(j) /\ Goes(Main, "publish") = [th EXCEPT ![Main] = j]
    BY BlankJob
  <1> HIDE DEF j
  <1>5. ASSUME run' = Recovered PROVE Stands /\ Ended
    <2>1. Frozen' /\ Over(run')
      BY <1>5, RecoveredSound DEF Frozen, Over
    <2>2. Stands
      BY <1>3, <1>5, <2>1, RecoveredSound DEF Stands
    <2> QED BY <2>1, <2>2 DEF Ended
  <1>6. CASE run' = Recovered /\ th' = Goes(Main, "publish") /\ UNCHANGED faults /\ Frame
    <2>1. run'.state = "interrupted"
      BY <1>6, RecoveredSound
    <2> QED BY <1>1, <1>2, <1>4, <1>5, <1>6, <2>1, AheadStep DEF Frame, Ahead
  <1>7. CASE faults' = faults + 1 /\ run' \in {run, Recovered} /\ Quits
    <2>1. CASE run' = run
      BY <1>1, <1>7, <2>1, StillEnds, QuitStep
    <2>2. CASE run' = Recovered
      BY <1>5, <1>7, <2>2, QuitStep
    <2> QED BY <1>7, <2>1, <2>2
  <1> QED BY <1>1, <1>6, <1>7 DEF OrQuits

\* What waited for the publication is what the run is then.
LEMMA PublishedEnds ==
  ASSUME IInv, th[Main].pc \in {"publish", "last"}, run' = Published, faults' \in {faults, faults + 1}
  PROVE  Stands /\ Ended /\ run'.state # "running"
  <1>1. run \in Runs /\ th[Main].pc \in Ahead \cup {"recover"} /\ run.state # "running"
    BY DEF IInv, Sound, Ahead, InOrder
  <1>2. /\ Turns /\ run'.pending = run.pending /\ run'.asks = run.asks /\ run'.resume = None
        /\ run'.unpublished = FALSE
        /\ run'.state = IF run.resume # None THEN run.resume ELSE run.state
    BY <1>1, ResearchAssumption DEF Published, Turns, Runs, States
  <1>3. run.resume \in Settled \cup {None}
    BY <1>1 DEF Runs
  <1>4. /\ run.pending # {} => run.state = "running"
        /\ run.asks # None => run.state = "paused"
        /\ run.resume # None => run.state = "blocked"
    BY DEF IInv, Clean
  <1>5. (Frozen' <=> Frozen) /\ (Over(run) => Over(run'))
    BY <1>1, <1>2, <1>3, <1>4, ResearchAssumption DEF Frozen, Over, Settled
  <1>6. run'.state # "running"
    BY <1>1, <1>2, <1>3 DEF Settled
  <1>7. run'.pending = {} /\ (run'.asks # None => run'.state = "paused") /\ ~run'.unpublished
    BY <1>1, <1>2, <1>4 DEF Turns
  <1> QED BY <1>1, <1>2, <1>5, <1>6, <1>7, TurnsEnd

LEMMA PublishesFirstKeeps ==
  ASSUME IInv, PublishesFirst
  PROVE  IInv'
  <1> DEFINE j == [Idle EXCEPT !.pc = "start", !.res = None]
             k == [th[Main] EXCEPT !.pc = "start"]
  <1>1. /\ th[Main].pc = "publish" /\ th[Main].pc \in Ahead \cup {"recover"} /\ run.state # "running" /\ lease
        /\ th \in [Actor -> Jobs] /\ Main \in Actor /\ Blank(th[Main])
    BY DEF PublishesFirst, IInv, InOrder, Ahead, AllFit, Actor
  <1>2. j \in Jobs /\ j.pc = "start" /\ Blank(j) /\ Goes(Main, "start") = [th EXCEPT ![Main] = j]
    BY BlankJob
  <1>3. k \in Jobs /\ k.pc = "start" /\ Blank(k) /\ At(Main, "start") = [th EXCEPT ![Main] = k]
    BY <1>1 DEF Jobs, Pcs, Blank, Ahead, At
  <1> HIDE DEF j, k
  <1>4. CASE run' = Published /\ th' = Goes(Main, "start") /\ UNCHANGED faults /\ Frame
    <2>1. Stands /\ Ended /\ run'.state # "running"
      BY <1>1, <1>4, PublishedEnds
    <2> QED BY <1>1, <1>2, <1>4, <2>1, AheadStep DEF Frame, Ahead
  <1>5. CASE faults' = faults + 1 /\ run' \in {run, Published} /\ Quits
    <2>1. CASE run' = run
      BY <1>1, <1>5, <2>1, StillEnds, QuitStep
    <2>2. CASE run' = Published
      BY <1>1, <1>5, <2>2, PublishedEnds, QuitStep
    <2> QED BY <1>5, <2>1, <2>2
  <1>6. CASE Quits /\ UNCHANGED <<run, faults>>
    BY <1>1, <1>6, StillEnds, QuitStep
  <1>7. CASE Moves(At(Main, "start")) /\ Frame
    <2>1. run' = run /\ faults' = faults /\ th' = At(Main, "start")
      BY <1>7 DEF Moves
    <2>2. Stands /\ Ended
      BY <1>1, <2>1, StillEnds
    <2> QED BY <1>1, <1>3, <1>7, <2>1, <2>2, AheadStep DEF Frame, Ahead
  <1> QED BY <1>4, <1>5, <1>6, <1>7 DEF PublishesFirst, OrQuits

LEMMA StartsKeeps ==
  ASSUME IInv, Starts
  PROVE  IInv'
  <1> DEFINE j == [Idle EXCEPT !.pc = "head", !.res = None]
             next == [run EXCEPT !.state = "running"]
  <1>1. /\ th[Main].pc = "start" /\ th[Main].pc \in Ahead \cup {"recover"} /\ lease /\ run \in Runs
        /\ th \in [Actor -> Jobs] /\ Main \in Actor /\ Main \notin Task /\ Task \subseteq Actor
    BY ResearchAssumption DEF Starts, IInv, InOrder, Ahead, AllFit, Actor, Sound
  <1>2. CASE Quits /\ UNCHANGED <<run, faults>>
    BY <1>1, <1>2, StillEnds, QuitStep
  <1>3. ASSUME run.state = "queued", run' = next, faults' \in {faults, faults + 1}
        PROVE  Stands /\ Ended /\ Lasts /\ run'.state = "running"
    <2>1. run.asks = None /\ run.resume = None /\ run.pending = {} /\ ~Over(run)
      BY <1>3 DEF IInv, Clean, Over
    <2>2. Turns /\ run'.state = "running" /\ run'.resume = None /\ run'.unpublished = run.unpublished
      BY <1>1, <1>3, <2>1 DEF Turns, Runs, States
    <2>3. ~Frozen' /\ ~Frozen /\ Over(run')
      BY <1>3, <2>2 DEF Frozen, Over
    <2>4. Stands /\ \A i \in Asked(run) : LeftOfALateTask(i) => LeftOfALateTask(i)'
      BY <1>3, <2>1, <2>2, <2>3, TurnsStand DEF Turns
    <2>5. Lasts
      BY <1>1, <1>3, <2>1, <2>2, <2>4, Stood DEF Lasts, Turns
    <2> QED BY <2>2, <2>3, <2>4, <2>5 DEF Ended
  <1>4. CASE run.state = "queued" /\ run' = next /\ th' = Goes(Main, "head") /\ UNCHANGED faults /\ Frame
    <2>1. Stands /\ Lasts /\ run'.state = "running"
      BY <1>3, <1>4
    <2>2. j \in Jobs /\ j.pc = "head" /\ j.at = 0 /\ j.after = 0 /\ th' = [th EXCEPT ![Main] = j]
      BY <1>4, BlankJob
    <2> HIDE DEF j
    <2>3. th' \in [Actor -> Jobs] /\ th'[Main] = j /\ \A t \in Task : th'[t] = th[t]
      BY <1>1, <2>2
    <2>4. \A t \in Task : th'[t].pc = "idle" /\ th'[t].at = 0 /\ th'[t].after = 0
      BY <1>1, <2>3 DEF IInv, InOrder, Ahead, Blank
    <2>5. \A a \in Actor : th'[a].at = 0 /\ th'[a].after = 0 /\ th'[a].pc \in Standing
      BY <2>2, <2>3, <2>4 DEF Actor, Standing
    <2>6. /\ lease' \in BOOLEAN /\ dead' \in BOOLEAN /\ fatal' \in BOOLEAN /\ late' \subseteq Task /\ lease'
          /\ UNCHANGED <<sent, kept>>
      BY <1>1, <1>4 DEF IInv, InOrder, Frame
    <2> QED BY <1>4, <2>1, <2>2, <2>3, <2>4, <2>5, <2>6, StandStep
  <1>5. CASE run.state = "queued" /\ faults' = faults + 1 /\ run' \in {run, next} /\ Quits
    <2>1. CASE run' = run
      BY <1>1, <1>5, <2>1, StillEnds, QuitStep
    <2>2. CASE run' = next
      BY <1>3, <1>5, <2>2, QuitStep
    <2> QED BY <1>5, <2>1, <2>2
  <1> QED BY <1>2, <1>4, <1>5 DEF Starts, OrQuits

\* An increase only ever adds to the limits.
LEMMA ProposedMore ==
  ASSUME NEW r \in Runs, Proposed(r) # None
  PROVE  Proposed(r) \in Limits /\ \A k \in Kinds : r.limits[k] <= Proposed(r)[k]
  <1> DEFINE Rest(k) == r.limits[k] - Used(r, k)
             more == [k \in Kinds |->
                 IF k = "model" THEN (IF Rest(k) <= Saving THEN r.limits[k] + Saving + 1 ELSE r.limits[k])
                 ELSE IF Rest(k) = 0 THEN r.limits[k] + 1 ELSE r.limits[k]]
  <1>1. Proposed(r) = more
    BY DEF Proposed
  <1>2. r.limits \in [Kinds -> Nat]
    BY DEF Runs, Limits
  <1>3. ASSUME NEW k \in Kinds PROVE more[k] \in Nat /\ r.limits[k] <= more[k]
    <2>1. r.limits[k] \in Nat /\ Saving \in Nat
      BY <1>2, ResearchAssumption
    <2> HIDE DEF Rest
    <2> QED BY <2>1
  <1> QED BY <1>1, <1>3 DEF Limits

LEMMA FinishedEnds ==
  ASSUME IInv, th[Main].pc = "finish", run' = Finished(th[Main].res), faults' \in {faults, faults + 1}
  PROVE  Stands /\ Ended /\ run'.state # "running"
  <1> DEFINE st == th[Main].res
             gaps == Of(run, LAMBDA a : a.cont /\ Continuable(a)) # {}
             state == CASE run.stop -> "stopped"
                        [] ~run.stop /\ dead -> "interrupted"
                        [] OTHER -> IF st = "completed" /\ (~run.met \/ gaps) THEN "completed-with-gaps" ELSE st
             next == [run EXCEPT !.state = state, !.pending = {}]
             good == ~run.stop /\ ~dead /\ st \in {"completed", "partial"}
  <1>1. /\ run \in Runs /\ run.state = "running" /\ Main \in Actor
        /\ \A t \in Task : th[t].pc = "idle"
    BY DEF IInv, Sound, InOrder, Ahead, Actor
  <1>2. st \in Settled \ {"completed-with-gaps"}
    BY <1>1 DEF IInv, AllFit, Fits
  <1>3. run.asks = None /\ run.resume = None
    BY <1>1 DEF IInv, Clean
  <1>4. state \in Settled /\ (st = "interrupted" => state \in {"interrupted", "stopped"})
        /\ (st = "blocked" => state \in {"interrupted", "stopped", "blocked"})
    BY <1>2 DEF Settled
  <1>5. run' = IF good THEN Paused(next) ELSE next
    BY DEF Finished
  <1> HIDE DEF gaps, state
  <1>6. /\ next \in Runs /\ next.attempts = run.attempts /\ next.retrieved = run.retrieved
        /\ next.limits = run.limits /\ next.tasks = run.tasks /\ next.pending = {} /\ next.state = state
        /\ next.asks = None /\ next.resume = None /\ next.unpublished = run.unpublished
    BY <1>1, <1>3, <1>4 DEF Runs, States
  <1> HIDE DEF next
  <1>7. CASE run' = next
    <2>1. Turns
      BY <1>3, <1>6, <1>7 DEF Turns
    <2>2. ~Frozen /\ run'.pending = {} /\ run'.asks = None /\ run'.resume = None /\ run'.state # "running"
      BY <1>1, <1>4, <1>6, <1>7 DEF Frozen, Settled
    <2>3. Stands /\ \A i \in Asked(run) : LeftOfALateTask(i) => LeftOfALateTask(i)'
      BY <2>1, <2>2, TurnsStand
    <2>4. Broken => Over(run')
      BY <1>1, <1>4, <1>6, <1>7 DEF Broken, Over
    <2>5. run'.unpublished => Over(run') \/ run'.state = "blocked"
      <3>1. run'.unpublished => Broken \/ Unpublishing
        BY <1>1, <1>6, <1>7 DEF IInv, Clean
      <3>2. Unpublishing => Over(run') \/ run'.state = "blocked"
        BY <1>4, <1>6, <1>7 DEF Unpublishing, Over
      <3> QED BY <2>4, <3>1, <3>2
    <2>6. Ended
      <3>1. ASSUME NEW t \in Task, run'.tasks[t] = "running" PROVE Over(run')
        BY <1>1, <2>1, <2>4, <3>1 DEF IInv, Clean, Turns
      <3>2. ASSUME NEW i \in Asked(run), run'.attempts[i].held PROVE Over(run') \/ LeftOfALateTask(i)'
        <4>1. Broken \/ HeldBy(i)
          BY <2>1, <3>2 DEF IInv, Clean, Turns
        <4>2. \A a \in Actor : th[a].pc \notin {"call", "out", "answered"}
          BY <1>1 DEF Actor
        <4> QED BY <2>3, <2>4, <4>1, <4>2 DEF HeldBy
      <3> QED BY <2>5, <3>1, <3>2 DEF Ended
    <2> QED BY <2>2, <2>3, <2>6
  <1>8. CASE good /\ Proposed(next) # None /\ run' = [next EXCEPT !.state = "paused", !.asks = Proposed(next)]
    <2>1. Proposed(next) \in Limits /\ \A k \in Kinds : run.limits[k] <= Proposed(next)[k]
      BY <1>6, <1>8, ProposedMore
    <2>2. /\ Turns /\ run'.pending = {} /\ run'.state = "paused" /\ run'.resume = None
          /\ run'.unpublished = run.unpublished
      BY <1>6, <1>8, <2>1 DEF Turns, Runs, States
    <2>3. ~Frozen /\ ~Broken /\ ~Unpublishing
      BY <1>1, <1>8 DEF Frozen, Broken, Unpublishing
    <2>4. Stands /\ \A i \in Asked(run) : LeftOfALateTask(i) => LeftOfALateTask(i)'
      BY <2>2, <2>3, TurnsStand
    <2>5. ~run.unpublished /\ \A t \in Task : run.tasks[t] # "running"
      BY <1>1, <2>3 DEF IInv, Clean
    <2>6. ASSUME NEW i \in Asked(run), run'.attempts[i].held PROVE LeftOfALateTask(i)'
      <3>1. HeldBy(i)
        BY <2>2, <2>3, <2>6 DEF IInv, Clean, Turns
      <3>2. \A a \in Actor : th[a].pc \notin {"call", "out", "answered"}
        BY <1>1 DEF Actor
      <3> QED BY <2>4, <3>1, <3>2 DEF HeldBy
    <2> QED BY <2>2, <2>4, <2>5, <2>6 DEF Ended, Turns
  <1> QED BY <1>5, <1>7, <1>8 DEF Paused

LEMMA FinishesRunKeeps ==
  ASSUME IInv, FinishesRun
  PROVE  IInv'
  <1> DEFINE j == [Idle EXCEPT !.pc = "last", !.res = None]
             next == Finished(th[Main].res)
  <1>1. th[Main].pc = "finish" /\ OrQuits(next, "last") /\ lease /\ run.state = "running"
    BY DEF FinishesRun, IInv, InOrder, Ahead
  <1>2. j \in Jobs /\ j.pc = "last" /\ Blank(j) /\ Goes(Main, "last") = [th EXCEPT ![Main] = j]
    BY BlankJob
  <1> HIDE DEF j
  <1>3. CASE run' = next /\ th' = Goes(Main, "last") /\ UNCHANGED faults /\ Frame
    <2>1. Stands /\ Ended /\ run'.state # "running"
      BY <1>1, <1>3, FinishedEnds
    <2> QED BY <1>1, <1>2, <1>3, <2>1, AheadStep DEF Frame
  <1>4. CASE faults' = faults + 1 /\ run' \in {run, next} /\ Quits
    <2>1. CASE run' = run
      BY <1>1, <1>4, <2>1, SameRun, QuitSame
    <2>2. CASE run' = next
      BY <1>1, <1>4, <2>2, FinishedEnds, QuitStep
    <2> QED BY <1>4, <2>1, <2>2
  <1> QED BY <1>1, <1>3, <1>4 DEF OrQuits

\* What could not be published blocks the run.
LEMMA BlockedEnds ==
  ASSUME IInv, th[Main].pc = "last", run.unpublished, run' = Blocked, faults' \in {faults, faults + 1}
  PROVE  Stands /\ Ended
  <1>1. run \in Runs /\ th[Main].pc \in Ahead \cup {"recover"} /\ run.state # "running"
    BY DEF IInv, Sound, Ahead, InOrder
  <1>2. run.state \in {"interrupted", "stopped", "blocked"}
    BY <1>1, Stood DEF Over
  <1>3. /\ run.pending = {} /\ run.asks = None /\ (run.resume # None => run.state = "blocked")
    BY <1>1, <1>2 DEF IInv, Clean
  <1>4. /\ Turns /\ run'.pending = run.pending /\ run'.unpublished = run.unpublished /\ run'.state = "blocked"
        /\ run'.asks = run.asks
        /\ run'.resume = IF run.resume # None THEN run.resume
                         ELSE IF run.state = "blocked" THEN "partial" ELSE run.state
    BY <1>1, <1>2 DEF Blocked, Turns, Runs, States, Settled
  <1>5. (Frozen' <=> Frozen) /\ (Over(run) => Over(run'))
    BY <1>2, <1>3, <1>4, ResearchAssumption DEF Frozen, Over
  <1> QED BY <1>1, <1>3, <1>4, <1>5, TurnsEnd

LEMMA PublishesLastKeeps ==
  ASSUME IInv, PublishesLast
  PROVE  IInv'
  <1>1. th[Main].pc = "last" /\ th[Main].pc \in Ahead \cup {"recover"} /\ Quits /\ faults' \in {faults, faults + 1}
    BY DEF PublishesLast, Ahead
  <1>2. run' = run \/ (run.unpublished /\ run' = Published) \/ (run.unpublished /\ run' = Blocked)
    BY DEF PublishesLast
  <1>3. CASE run' = run
    BY <1>1, <1>3, StillEnds, QuitStep
  <1>4. CASE run' = Published
    BY <1>1, <1>4, PublishedEnds, QuitStep
  <1>5. CASE run.unpublished /\ run' = Blocked
    BY <1>1, <1>5, BlockedEnds, QuitStep
  <1> QED BY <1>2, <1>3, <1>4, <1>5

-------------------------------------------------------------------------------
(* The owner, time and stops.                                              *)

Calm == {"review", "queued", "paused", "completed-with-gaps", "partial"}
LEMMA OwnerStep ==
  ASSUME IInv, Outside, Sound(run'),
         run'.attempts = run.attempts, run'.pending = run.pending, run'.retrieved = run.retrieved,
         run'.tasks = run.tasks, run'.unpublished = run.unpublished, run'.resume = run.resume,
         run'.state = run.state \/ (run.state \in Calm /\ run'.state \in Calm \cup {"stopped"}),
         run'.asks # None => run'.state = "paused"
  PROVE  IInv'
  <1>1. run \in Runs /\ run' \in Runs /\ Alike(run, run') /\ Main \in Actor
    BY AlikeSame DEF IInv, Sound, Actor
  <1>2. Asked(run') = Asked(run) /\ UNCHANGED <<lease, th, dead, fatal, late, sent, kept, faults>>
    BY DEF Asked, Outside
  <1>3. AllFit'
    BY <1>1, <1>2, FitsAlike DEF IInv, AllFit
  <1>4. InOrder'
    <2>1. run'.state = "running" <=> run.state = "running"
      BY DEF Calm
    <2> QED BY <1>2, <2>1 DEF IInv, InOrder
  <1>5. SentAreSaved'
    BY <1>2 DEF IInv, SentAreSaved
  <1>6. KeptCounted'
    <2>1. Owed(run', th') = Owed(run, th)
      BY <1>2 DEF Owed
    <2>2. Frozen' <=> Frozen
      BY DEF Frozen, Calm
    <2> QED BY <1>2, <2>1, <2>2 DEF IInv, KeptCounted
  <1>7. Clean'
    <2>1. Broken => Broken'
      BY <1>2 DEF Broken, Calm
    <2>2. Unpublishing => Unpublishing'
      BY <1>2 DEF Unpublishing, Calm
    <2>3. ASSUME NEW i \in Asked(run), HeldBy(i) PROVE HeldBy(i)'
      BY <1>2, <2>3 DEF HeldBy, LeftOfALateTask
    <2>4. run.state \in Calm => run.pending = {} /\ run.resume = None /\ ~run.unpublished
      BY DEF IInv, Clean, Calm, Broken, Unpublishing
    <2>5. /\ run'.pending # {} => run'.state = "running"
          /\ run'.resume # None => run'.state = "blocked" /\ run'.unpublished
          /\ run'.unpublished => Broken' \/ run'.state = "blocked" \/ Unpublishing'
      BY <2>1, <2>2, <2>4 DEF IInv, Clean
    <2>6. \A t \in Task : run'.tasks[t] = "running" => Broken' \/ th'[t].pc # "idle"
      BY <1>2, <2>1 DEF IInv, Clean
    <2>7. \A i \in Asked(run') : run'.attempts[i].held => Broken' \/ HeldBy(i)'
      BY <1>2, <2>1, <2>3 DEF IInv, Clean
    <2> QED BY <2>5, <2>6, <2>7 DEF Clean
  <1> QED BY <1>3, <1>4, <1>5, <1>6, <1>7 DEF IInv

\* What the owner changes of the run leaves its journal sound.
LEMMA OwnerSound ==
  ASSUME IInv, NEW s \in Runs, s.attempts = run.attempts, s.pending = run.pending, s.retrieved = run.retrieved,
         \A k \in Kinds : run.limits[k] <= s.limits[k],
         s.asks # None => \A k \in Kinds : s.limits[k] <= s.asks[k]
  PROVE  Sound(s)
  BY AlikeSame, SoundAlike DEF IInv, Sound

LEMMA ConfirmKeeps ==
  ASSUME IInv, Confirm
  PROVE  IInv'
  <1>1. run \in Runs /\ run.state = "review" /\ run' = [run EXCEPT !.state = "queued"] /\ Outside
    BY DEF Confirm, IInv, Sound
  <1>2. /\ run' \in Runs /\ run'.attempts = run.attempts /\ run'.pending = run.pending
        /\ run'.retrieved = run.retrieved /\ run'.tasks = run.tasks /\ run'.unpublished = run.unpublished
        /\ run'.resume = run.resume /\ run'.limits = run.limits /\ run'.asks = run.asks /\ run'.state = "queued"
    BY <1>1 DEF Runs, States
  <1>3. run'.asks = None
    BY <1>1, <1>2 DEF IInv, Clean
  <1>4. \A k \in Kinds : run.limits[k] <= run'.limits[k]
    BY <1>1, <1>2 DEF Runs, Limits
  <1>5. Sound(run')
    BY <1>2, <1>3, <1>4, OwnerSound
  <1> QED BY <1>1, <1>2, <1>3, <1>5, OwnerStep DEF Calm

LEMMA StopKeeps ==
  ASSUME IInv, Stop
  PROVE  IInv'
  <1> DEFINE state == IF run.asks # None \/ run.state \in {"review", "queued"} THEN "stopped" ELSE run.state
             declined == run.declined \/ run.asks # None
  <1>1. run \in Runs /\ Outside
    BY DEF Stop, IInv, Sound
  <1>2. run' = [run EXCEPT !.stop = TRUE, !.declined = declined, !.asks = None, !.state = state]
    BY <1>1 DEF Stop, Runs
  <1>3. state \in States /\ declined \in BOOLEAN
    BY <1>1 DEF Runs, States, Settled
  <1> HIDE DEF state, declined
  <1>4. /\ run' \in Runs /\ run'.attempts = run.attempts /\ run'.pending = run.pending
        /\ run'.retrieved = run.retrieved /\ run'.tasks = run.tasks /\ run'.unpublished = run.unpublished
        /\ run'.resume = run.resume /\ run'.limits = run.limits /\ run'.asks = None /\ run'.state = state
    BY <1>1, <1>2, <1>3 DEF Runs
  <1>5. \A k \in Kinds : run.limits[k] <= run'.limits[k]
    BY <1>1, <1>4 DEF Runs, Limits
  <1>6. Sound(run')
    BY <1>4, <1>5, OwnerSound
  <1>7. state = run.state \/ (run.state \in Calm /\ state \in Calm \cup {"stopped"})
    BY DEF state, IInv, Clean, Calm
  <1> QED BY <1>1, <1>4, <1>6, <1>7, OwnerStep

LEMMA ReviewBudgetKeeps ==
  ASSUME IInv, ReviewBudget
  PROVE  IInv'
  <1>1. /\ run \in Runs /\ run.state \in {"completed-with-gaps", "partial"} /\ Outside /\ Proposed(run) # None
        /\ run' = [run EXCEPT !.state = "paused", !.asks = Proposed(run)]
    BY DEF ReviewBudget, Paused, IInv, Sound
  <1>2. Proposed(run) \in Limits /\ \A k \in Kinds : run.limits[k] <= Proposed(run)[k]
    BY <1>1, ProposedMore
  <1>3. /\ run' \in Runs /\ run'.attempts = run.attempts /\ run'.pending = run.pending
        /\ run'.retrieved = run.retrieved /\ run'.tasks = run.tasks /\ run'.unpublished = run.unpublished
        /\ run'.resume = run.resume /\ run'.limits = run.limits /\ run'.asks = Proposed(run)
        /\ run'.state = "paused"
    BY <1>1, <1>2 DEF Runs, States
  <1>4. \A k \in Kinds : run.limits[k] <= run'.limits[k]
    BY <1>1, <1>3 DEF Runs, Limits
  <1>5. Sound(run')
    BY <1>2, <1>3, <1>4, OwnerSound
  <1> QED BY <1>1, <1>3, <1>5, OwnerStep DEF Calm

LEMMA ApproveKeeps ==
  ASSUME IInv, Approve
  PROVE  IInv'
  <1> DEFINE g == run.grants + 1
  <1>1. /\ run \in Runs /\ run.state = "paused" /\ Outside /\ run.asks # None /\ run.asks \in Limits
        /\ run' = [run EXCEPT !.limits = run.asks, !.asks = None, !.grants = g,
                              !.state = "queued", !.final = FALSE]
    BY DEF Approve, IInv, Sound, Runs
  <1>5. g \in Nat
    BY <1>1 DEF Runs
  <1> HIDE DEF g
  <1>2. /\ run' \in Runs /\ run'.attempts = run.attempts /\ run'.pending = run.pending
        /\ run'.retrieved = run.retrieved /\ run'.tasks = run.tasks /\ run'.unpublished = run.unpublished
        /\ run'.resume = run.resume /\ run'.limits = run.asks /\ run'.asks = None
        /\ run'.state = "queued"
    BY <1>1, <1>5 DEF Runs, States
  <1>3. \A k \in Kinds : run.limits[k] <= run'.limits[k]
    BY <1>1, <1>2 DEF IInv, Sound, Bounded
  <1>4. Sound(run')
    BY <1>2, <1>3, OwnerSound
  <1> QED BY <1>1, <1>2, <1>4, OwnerStep DEF Calm

LEMMA DeclineKeeps ==
  ASSUME IInv, Decline
  PROVE  IInv'
  <1>1. /\ run \in Runs /\ run.state = "paused" /\ Outside
        /\ run' = [run EXCEPT !.asks = None, !.declined = TRUE, !.state = "completed-with-gaps"]
    BY DEF Decline, IInv, Sound
  <1>2. /\ run' \in Runs /\ run'.attempts = run.attempts /\ run'.pending = run.pending
        /\ run'.retrieved = run.retrieved /\ run'.tasks = run.tasks /\ run'.unpublished = run.unpublished
        /\ run'.resume = run.resume /\ run'.limits = run.limits /\ run'.asks = None
        /\ run'.state = "completed-with-gaps"
    BY <1>1 DEF Runs, States, Settled
  <1>3. \A k \in Kinds : run.limits[k] <= run'.limits[k]
    BY <1>1, <1>2 DEF Runs, Limits
  <1>4. Sound(run')
    BY <1>2, <1>3, OwnerSound
  <1> QED BY <1>1, <1>2, <1>4, OwnerStep DEF Calm

\* Time runs out, for the run or for a task; or nothing happens at all.
LEMMA TimeKeeps ==
  ASSUME IInv, UNCHANGED <<run, lease, th, fatal, sent, kept, faults>>, dead' \in BOOLEAN, late' \subseteq Task
  PROVE  IInv'
  <1>1. Sound(run') /\ AllFit' /\ SentAreSaved' /\ InOrder'
    BY DEF IInv, AllFit, SentAreSaved, InOrder
  <1>2. KeptCounted'
    BY DEF IInv, KeptCounted, Frozen, Owed
  <1>3. Clean'
    <2>1. (Broken' <=> Broken) /\ (Unpublishing' <=> Unpublishing)
      BY DEF Broken, Unpublishing
    <2>2. \A i : HeldBy(i)' <=> HeldBy(i)
      BY DEF HeldBy, LeftOfALateTask
    <2> QED BY <2>1, <2>2 DEF IInv, Clean
  <1> QED BY <1>1, <1>2, <1>3 DEF IInv

-------------------------------------------------------------------------------
(* Steps of an actor whose request is under way.                           *)

LEMMA FitsBeside ==
  ASSUME NEW r \in Runs, NEW s \in Runs, Len(r.attempts) <= Len(s.attempts), NEW b \in Actor, NEW j,
         \A k \in Asked(r) : /\ s.attempts[k].kind = r.attempts[k].kind /\ s.attempts[k].req = r.attempts[k].req
                             /\ s.attempts[k].by = r.attempts[k].by,
         Fits(b, j, r),
         j.pc \in AtWork => /\ s.attempts[j.at].st = r.attempts[j.at].st
                            /\ s.attempts[j.at].held = r.attempts[j.at].held
  PROVE  Fits(b, j, s)
  <1>1. Len(r.attempts) \in Nat /\ Len(s.attempts) \in Nat
    BY AttemptSets
  <1>2. j \in Jobs /\ {j.at, j.after} \subseteq 0 .. Len(r.attempts) /\ (j.pc \in AtWork => j.at # 0)
    BY DEF Fits
  <1>3. {j.at, j.after} \subseteq 0 .. Len(s.attempts)
    BY <1>1, <1>2
  <1>4. j.at # 0 => j.at \in Asked(r)
    BY <1>1, <1>2 DEF Asked
  <1>5. j.after # 0 => j.after \in Asked(r)
    BY <1>1, <1>2 DEF Asked
  <1> QED BY <1>2, <1>3, <1>4, <1>5 DEF Fits, AtWork

\* The journal grows by the attempt i of the actor a, or only that one changes.
Grows(a, i) ==
    /\ Sound(run') /\ i \in Asked(run') /\ run'.attempts[i].by = a
    /\ Len(run.attempts) <= Len(run'.attempts) /\ Asked(run') \subseteq Asked(run) \cup {i}
    /\ \A k \in Asked(run) :
         /\ run'.attempts[k].kind = run.attempts[k].kind /\ run'.attempts[k].req = run.attempts[k].req
         /\ run'.attempts[k].by = run.attempts[k].by
         /\ k # i => run'.attempts[k].st = run.attempts[k].st /\ run'.attempts[k].held = run.attempts[k].held
    /\ run'.state = run.state /\ run'.resume = run.resume /\ run'.asks = run.asks
    /\ run'.unpublished = run.unpublished /\ run'.tasks = run.tasks

\* Nobody else is at work on it.
LEMMA Alone ==
  ASSUME IInv, NEW a \in Actor, NEW i, Grows(a, i), NEW b \in Actor, b # a, th[b].at # 0
  PROVE  th[b].at \in Asked(run) /\ th[b].at # i
  <1>1. run \in Runs /\ Len(run.attempts) \in Nat /\ Fits(b, th[b], run)
    BY AttemptSets DEF IInv, Sound, AllFit
  <1>2. th[b].at \in Asked(run) /\ run.attempts[th[b].at].by = b
    BY <1>1 DEF Fits, Asked
  <1> QED BY <1>2 DEF Grows

Steady == UNCHANGED <<lease, dead, fatal, late>> /\ faults' \in {faults, faults + 1}
FromFlight(a, i) == th[a].pc = "begin" \/ (th[a].pc \in Flying /\ th[a].at = i)
LEMMA FlyStep ==
  ASSUME IInv, NEW a \in Actor, NEW j \in Jobs, th' = [th EXCEPT ![a] = j], NEW i, Grows(a, i),
         FromFlight(a, i), j.pc \notin Ahead \cup {"recover"},
         Fits(a, j, run'), a = Main => LastIsTheAIs(j, run'),
         Steady, SentAreSaved', KeptCounted',
         run'.attempts[i].held => Broken' \/ HeldBy(i)'
  PROVE  IInv'
  <1> USE DEF Steady, FromFlight
  <1>1. /\ run \in Runs /\ run' \in Runs /\ th \in [Actor -> Jobs] /\ Main \in Actor /\ Main \notin Task
        /\ (a = Main \/ a \in Task) /\ th'[a] = j /\ \A b \in Actor : b # a => th'[b] = th[b]
    BY ResearchAssumption DEF IInv, Sound, AllFit, Actor, Grows
  <1>2. a \in Task => th[Main].pc = "batch"
    BY DEF IInv, InOrder, Flying
  <1>3. run.state = "running" /\ run'.state = "running"
    BY <1>1, <1>2 DEF IInv, InOrder, Ahead, Flying, Grows
  <1>4. AllFit'
    <2>1. ASSUME NEW b \in Actor, b # a PROVE Fits(b, th'[b], run')
      <3>1. Fits(b, th[b], run)
        BY DEF IInv, AllFit
      <3>2. th[b].pc \in AtWork => /\ run'.attempts[th[b].at].st = run.attempts[th[b].at].st
                                   /\ run'.attempts[th[b].at].held = run.attempts[th[b].at].held
        <4>1. th[b].pc \in AtWork => th[b].at # 0
          BY <3>1 DEF Fits
        <4> QED BY <2>1, <4>1, Alone DEF Grows
      <3>3. /\ Len(run.attempts) <= Len(run'.attempts)
            /\ \A k \in Asked(run) : /\ run'.attempts[k].kind = run.attempts[k].kind
                                     /\ run'.attempts[k].req = run.attempts[k].req
                                     /\ run'.attempts[k].by = run.attempts[k].by
        BY DEF Grows
      <3>4. Fits(b, th[b], run')
        BY <1>1, <3>1, <3>2, <3>3, FitsBeside
      <3> QED BY <1>1, <2>1, <3>4
    <2>2. LastIsTheAIs(th'[Main], run')
      <3>1. CASE a = Main
        BY <1>1, <3>1
      <3>2. CASE a \in Task
        BY <1>1, <1>2, <3>2 DEF LastIsTheAIs, AtWork
      <3> QED BY <1>1, <3>1, <3>2
    <2>3. th' \in [Actor -> Jobs]
      BY <1>1
    <2> QED BY <1>1, <2>1, <2>2, <2>3 DEF AllFit
  <1>5. InOrder'
    <2>1. \A b \in Actor : Blank(th'[b])
      BY <1>1 DEF IInv, InOrder, Blank
    <2>2. faults' \in Nat
      BY DEF IInv, InOrder
    <2>3. CASE a = Main
      BY <1>1, <1>3, <2>1, <2>2, <2>3 DEF IInv, InOrder, Ahead, Actor, Flying
    <2>4. CASE a \in Task
      BY <1>1, <1>2, <1>3, <2>1, <2>2, <2>4 DEF IInv, InOrder, Ahead, Actor
    <2> QED BY <1>1, <2>3, <2>4
  <1>6. Broken => Broken'
    <2>1. CASE a = Main
      BY <1>3, <2>1 DEF Broken, Flying
    <2>2. CASE a \in Task
      BY <1>1, <1>3, <2>2 DEF Broken
    <2> QED BY <1>1, <2>1, <2>2
  <1>7. Unpublishing => Unpublishing'
    <2>1. CASE a = Main
      BY <2>1 DEF Unpublishing, Flying
    <2>2. CASE a \in Task
      <3>1. \A t \in Task : th[t].pc \in {"publishing", "end"} => th'[t] = th[t]
        BY <1>1 DEF Flying, Actor
      <3> QED BY <1>1, <1>2, <1>3, <2>2, <3>1 DEF Unpublishing
    <2> QED BY <1>1, <2>1, <2>2
  <1>8. \A t \in Task : th[t].pc # "idle" => th'[t].pc # "idle"
    BY <1>1 DEF Ahead, Actor
  <1>9. ASSUME NEW k \in Asked(run), k # i, run'.attempts[k].held
        PROVE  Broken' \/ HeldBy(k)'
    <2>1. /\ run.attempts[k].held /\ run'.attempts[k].by = run.attempts[k].by
          /\ run'.attempts[k].st = run.attempts[k].st
      BY <1>9 DEF Grows
    <2>2. Broken \/ HeldBy(k)
      BY <2>1 DEF IInv, Clean
    <2>3. ASSUME NEW b \in Actor, th[b].at = k, th[b].pc \in {"call", "out", "answered"} PROVE HeldBy(k)'
      <3>1. b # a
        BY <1>9, <2>3 DEF Flying
      <3> QED BY <1>1, <2>3, <3>1 DEF HeldBy
    <2>4. ASSUME LeftOfALateTask(k) PROVE HeldBy(k)'
      BY <2>1, <2>4 DEF HeldBy, LeftOfALateTask, IInv, InOrder
    <2>5. ASSUME run.attempts[k].by = Main, th[Main].pc = "dropping", th[Main].res = "error" PROVE HeldBy(k)'
      BY <1>1, <2>1, <2>5 DEF HeldBy, Flying
    <2> QED BY <1>6, <2>2, <2>3, <2>4, <2>5 DEF HeldBy
  <1>10. Clean'
    <2>1. \A k \in Asked(run') : run'.attempts[k].held => Broken' \/ HeldBy(k)'
      BY <1>9 DEF Grows
    <2>2. /\ run'.pending # {} => run'.state = "running"
          /\ run'.asks # None => run'.state = "paused"
          /\ run'.resume # None => run'.state = "blocked" /\ run'.unpublished
          /\ run'.unpublished => Broken' \/ run'.state = "blocked" \/ Unpublishing'
      BY <1>3, <1>6, <1>7 DEF IInv, Clean, Grows
    <2>3. \A t \in Task : run'.tasks[t] = "running" => Broken' \/ th'[t].pc # "idle"
      BY <1>6, <1>8 DEF IInv, Clean, Grows
    <2> QED BY <2>1, <2>2, <2>3 DEF Clean
  <1> QED BY <1>4, <1>5, <1>10 DEF IInv, Grows

\* Whoever is at work, the run is running.
LEMMA WorkRuns ==
  ASSUME IInv, NEW a \in Actor, th[a].pc \notin Ahead \cup {"recover"}
  PROVE  /\ run.state = "running" /\ (a \in Task => th[Main].pc = "batch")
         /\ th \in [Actor -> Jobs] /\ th[a] \in Jobs /\ Fits(a, th[a], run) /\ (a = Main => LastIsTheAIs(th[a], run))
         /\ run \in Runs /\ Len(run.attempts) \in Nat /\ (th[a].at # 0 => th[a].at \in Asked(run))
         /\ (a = Main \/ a \in Task) /\ Main \notin Task
  <1>1. /\ run \in Runs /\ Len(run.attempts) \in Nat /\ th \in [Actor -> Jobs] /\ th[a] \in Jobs
        /\ Fits(a, th[a], run) /\ (a = Main => LastIsTheAIs(th[a], run))
        /\ (a = Main \/ a \in Task) /\ Main \notin Task
    BY AttemptSets, ResearchAssumption DEF IInv, Sound, AllFit, Actor
  <1>2. th[a].at # 0 => th[a].at \in Asked(run)
    BY <1>1 DEF Fits, Asked
  <1>3. a \in Task => th[Main].pc = "batch"
    BY DEF IInv, InOrder, Ahead
  <1>4. run.state = "running"
    BY <1>1, <1>3 DEF IInv, InOrder, Ahead
  <1> QED BY <1>1, <1>2, <1>3, <1>4

\* What is on disk of an attempt that nobody waits for any more.
Owes(r, jobs, i) == IF i \in Owed(r, jobs) THEN Allowance ELSE 0
LEMMA OwedSize ==
  ASSUME NEW r \in Runs, NEW jobs, NEW i
  PROVE  /\ Cardinality(Owed(r, jobs) \ {i}) \in Nat
         /\ Allowance * Cardinality(Owed(r, jobs)) = Allowance * Cardinality(Owed(r, jobs) \ {i}) + Owes(r, jobs, i)
         /\ Allowance * Cardinality(Owed(r, jobs)) <= Reserved(r)
         /\ Reserved(r) \in Nat
  <1> DEFINE O == Owed(r, jobs)
             H == {k \in Asked(r) : r.attempts[k].held}
  <1>1. O \subseteq H /\ H \subseteq Asked(r)
    BY DEF Owed
  <1>2. Reserved(r) = Allowance * Cardinality(H)
    BY AttemptSets
  <1> HIDE DEF O, H
  <1>3. IsFiniteSet(H) /\ Cardinality(H) \in Nat
    BY <1>1, AttemptSets
  <1>4. IsFiniteSet(O) /\ Cardinality(O) \in Nat /\ Cardinality(O) <= Cardinality(H)
    BY <1>1, <1>3, FS_Subset, FS_CardinalityType
  <1>5. IsFiniteSet(O \ {i}) /\ Cardinality(O \ {i}) = IF i \in O THEN Cardinality(O) - 1 ELSE Cardinality(O)
    BY <1>4, FS_RemoveElement
  <1>6. Cardinality(O \ {i}) \in Nat
    BY <1>5, FS_CardinalityType
  <1>7. Allowance * Cardinality(O) <= Allowance * Cardinality(H) /\ Allowance * Cardinality(H) \in Nat
    BY <1>3, <1>4, TimesMore, Times, ResearchAssumption
  <1>8. Allowance * Cardinality(O) = Allowance * Cardinality(O \ {i}) + Owes(r, jobs, i)
    <2>1. CASE i \in O
      <3> DEFINE n == Cardinality(O \ {i})
      <3>1. Cardinality(O) = n + 1 /\ n \in Nat
        BY <1>4, <1>5, <1>6, <2>1
      <3> HIDE DEF n
      <3>2. Allowance * (n + 1) = Allowance * n + Allowance
        BY <3>1, Times, ResearchAssumption
      <3> QED BY <2>1, <3>1, <3>2 DEF Owes, O, n
    <2>2. CASE i \notin O
      <3>1. Cardinality(O \ {i}) = Cardinality(O) /\ Allowance * Cardinality(O) \in Nat
        BY <1>4, <1>5, <2>2, Times, ResearchAssumption
      <3> QED BY <2>2, <3>1 DEF Owes, O
    <2> QED BY <2>1, <2>2
  <1> QED BY <1>2, <1>6, <1>7, <1>8 DEF O

LEMMA KeptStep ==
  ASSUME IInv, NEW a \in Actor, NEW j \in Jobs, th' = [th EXCEPT ![a] = j], NEW i, Grows(a, i),
         FromFlight(a, i), Waits(j) => j.at = i,
         kept' \in Nat,
         kept' + Owes(run, th, i) + run.retrieved <= kept + run'.retrieved + Owes(run', th', i)
  PROVE  KeptCounted'
  <1> USE DEF FromFlight
  <1>1. /\ run.state = "running" /\ run \in Runs /\ th \in [Actor -> Jobs] /\ run' \in Runs
        /\ th'[a] = j /\ \A b \in Actor : b # a => th'[b] = th[b]
    <2>1. th[a].pc \notin Ahead \cup {"recover"}
      BY DEF Ahead, Flying
    <2> QED BY <2>1, WorkRuns DEF Grows, Sound
  <1>2. ~Frozen
    BY <1>1 DEF Frozen
  <1>3. Owed(run', th') \ {i} = Owed(run, th) \ {i}
    <2>1. ASSUME NEW k, k # i
          PROVE  /\ Waits(th[a]) => th[a].at # k
                 /\ Waits(th'[a]) => th'[a].at # k
                 /\ k \in Asked(run') <=> k \in Asked(run)
                 /\ k \in Asked(run) => (run'.attempts[k].held <=> run.attempts[k].held)
      <3>1. Asked(run) \subseteq Asked(run')
        BY <1>1, AttemptSets DEF Asked, Grows
      <3> QED BY <1>1, <2>1, <3>1 DEF Waits, Flying, Grows
    <2>2. ASSUME NEW k, k # i
          PROVE  k \in Owed(run', th') <=> k \in Owed(run, th)
      BY <1>1, <2>1, <2>2 DEF Owed
    <2> QED BY <2>2
  <1> DEFINE n == Allowance * Cardinality(Owed(run, th) \ {i})
             m == Allowance * Cardinality(Owed(run, th))
             l == Allowance * Cardinality(Owed(run', th'))
  <1>4. n \in Nat /\ m = n + Owes(run, th, i) /\ l = n + Owes(run', th', i)
    <2>1. Cardinality(Owed(run, th) \ {i}) \in Nat /\ m = n + Owes(run, th, i)
      BY <1>1, OwedSize
    <2>2. l = Allowance * Cardinality(Owed(run', th') \ {i}) + Owes(run', th', i)
      BY <1>1, OwedSize
    <2>3. n \in Nat
      BY <2>1, Times, ResearchAssumption
    <2> QED BY <1>3, <2>1, <2>2, <2>3
  <1>5. l <= Reserved(run') /\ Reserved(run') \in Nat /\ run'.retrieved + Reserved(run') <= Room
    BY <1>1, OwedSize DEF Grows, Sound, Bounded
  <1>6. kept <= run.retrieved + m /\ kept \in Nat /\ run.retrieved \in Nat /\ run'.retrieved \in Nat
    BY <1>1, <1>2, ResearchAssumption DEF IInv, KeptCounted, Runs
  <1>7. Owes(run, th, i) \in Nat /\ Owes(run', th', i) \in Nat
    BY ResearchAssumption DEF Owes
  <1> HIDE DEF n, m, l
  <1>8. kept' <= run'.retrieved + l /\ kept' <= Room
    BY <1>4, <1>5, <1>6, <1>7, ResearchAssumption
  <1> QED BY <1>8, ResearchAssumption DEF KeptCounted, l

\* The request under way is given another outcome.
Changes(i, e, s) ==
    /\ s \in Runs /\ s.attempts = [run.attempts EXCEPT ![i] = e]
    /\ e \in Attempt /\ e.kind = run.attempts[i].kind /\ e.req = run.attempts[i].req /\ e.by = run.attempts[i].by
    /\ e.number = run.attempts[i].number /\ (e.held => run.attempts[i].held)
    /\ s.pending = run.pending /\ s.limits = run.limits /\ s.asks = run.asks
    /\ s.state = run.state /\ s.resume = run.resume /\ s.unpublished = run.unpublished /\ s.tasks = run.tasks
LEMMA Changed ==
  ASSUME run \in Runs, NEW i \in Asked(run), NEW e, NEW s, Changes(i, e, s)
  PROVE  /\ Asked(s) = Asked(run) /\ Len(s.attempts) = Len(run.attempts) /\ i \in Asked(s)
         /\ s.attempts[i] = e /\ \A k \in Asked(run) : k # i => s.attempts[k] = run.attempts[k]
         /\ Reserved(s) = IF run.attempts[i].held /\ ~e.held THEN Reserved(run) - Allowance ELSE Reserved(run)
  <1>1. run.attempts \in Seq(Attempt) /\ i \in 1 .. Len(run.attempts)
    BY AttemptSets DEF Asked
  <1>2. Len(s.attempts) = Len(run.attempts) /\ \A k \in Asked(run) : s.attempts[k] = IF k = i THEN e ELSE run.attempts[k]
    BY <1>1, Replaced DEF Changes, Asked
  <1>3. Asked(s) = Asked(run)
    BY <1>2 DEF Asked
  <1> DEFINE H == {k \in Asked(run) : run.attempts[k].held}
             G == {k \in Asked(s) : s.attempts[k].held}
  <1>4. Reserved(run) = Allowance * Cardinality(H) /\ Reserved(s) = Allowance * Cardinality(G)
    BY AttemptSets DEF Changes
  <1>5. IsFiniteSet(H) /\ Cardinality(H) \in Nat
    BY AttemptSets
  <1>6. CASE run.attempts[i].held /\ ~e.held
    <2>1. G = H \ {i} /\ i \in H
      BY <1>2, <1>3, <1>6
    <2> HIDE DEF G, H
    <2>2. Cardinality(G) = Cardinality(H) - 1 /\ Cardinality(G) \in Nat
      BY <1>5, <2>1, FS_RemoveElement, FS_CardinalityType
    <2> DEFINE n == Cardinality(G)
    <2>3. n \in Nat /\ Cardinality(H) = n + 1
      BY <1>5, <2>2
    <2>4. Reserved(s) = Allowance * n
      BY <1>4
    <2> HIDE DEF n
    <2>5. Allowance * (n + 1) = Allowance * n + Allowance /\ Allowance * n \in Nat
      BY <2>3, Times, ResearchAssumption
    <2>6. Reserved(run) = Allowance * n + Allowance
      BY <1>4, <2>3, <2>5
    <2>7. Reserved(s) = Reserved(run) - Allowance
      BY <2>4, <2>5, <2>6, ResearchAssumption
    <2> QED BY <1>1, <1>2, <1>3, <1>6, <2>7 DEF Asked
  <1>7. CASE ~(run.attempts[i].held /\ ~e.held)
    <2>1. G = H
      BY <1>2, <1>3, <1>7 DEF Changes
    <2>2. Reserved(s) = Reserved(run)
      BY <1>4, <2>1
    <2> QED BY <1>1, <1>2, <1>3, <1>7, <2>2 DEF Asked
  <1> QED BY <1>6, <1>7

LEMMA ChangedSound ==
  ASSUME IInv, NEW i \in Asked(run), NEW e, NEW s, Changes(i, e, s), run.attempts[i].st \in {"started", "waiting"},
         s.retrieved + Reserved(s) <= Room
  PROVE  Sound(s)
  <1>1. run \in Runs /\ s \in Runs /\ Sound(run)
    BY DEF IInv, Sound, Changes
  <1>2. /\ Asked(s) = Asked(run)
        /\ s.attempts[i] = e /\ \A k \in Asked(run) : k # i => s.attempts[k] = run.attempts[k]
    BY <1>1, Changed
  <1>3. Kindly(s)
    BY <1>1, <1>2 DEF Sound, Kindly, Changes
  <1>4. Chained(s)
    <2>1. ASSUME NEW k \in Asked(run), NEW l \in Asked(run), k < l, s.attempts[k].req # None,
                 s.attempts[k].req = s.attempts[l].req
          PROVE  /\ s.attempts[k].next # 0 /\ s.attempts[k].st = "uncertain"
                 /\ Retryable(s.attempts[k]) /\ s.attempts[k].number < s.attempts[l].number
      <3>1. run.attempts[k].req # None /\ run.attempts[k].req = run.attempts[l].req
        BY <1>2, <2>1 DEF Changes
      <3>2. /\ run.attempts[k].next # 0 /\ run.attempts[k].st = "uncertain" /\ Retryable(run.attempts[k])
            /\ run.attempts[k].number < run.attempts[l].number
        BY <1>1, <2>1, <3>1 DEF Sound, Chained
      <3>3. k # i
        BY <3>2
      <3>4. s.attempts[k] = run.attempts[k] /\ s.attempts[l].number = run.attempts[l].number
        BY <1>2, <3>3 DEF Changes
      <3> QED BY <3>2, <3>4
    <2> QED BY <1>2, <2>1 DEF Chained
  <1>5. Bounded(s)
    <2>1. ASSUME NEW k \in Kinds PROVE Admitted(s, k) <= run.limits[k]
      <3> DEFINE S == {l \in Asked(s) : s.attempts[l].kind = k /\ s.attempts[l].st # "not-started"}
                 T == {l \in Asked(run) : run.attempts[l].kind = k /\ run.attempts[l].st # "not-started"}
      <3>1. S \subseteq T
        BY <1>2 DEF Changes
      <3>2. Admitted(s, k) = Cardinality(S) /\ Admitted(run, k) = Cardinality(T)
        BY <1>1, AdmittedSet
      <3>3. T \subseteq Asked(run)
        OBVIOUS
      <3> HIDE DEF S, T
      <3>4. IsFiniteSet(T) /\ Cardinality(T) \in Nat
        BY <1>1, <3>3, AttemptSets
      <3>5. Cardinality(S) \in Nat /\ Cardinality(S) <= Cardinality(T)
        BY <3>1, <3>4, FS_Subset, FS_CardinalityType
      <3>6. Admitted(run, k) <= run.limits[k] /\ run.limits[k] \in Nat
        BY <1>1 DEF Sound, Bounded, Runs, Limits
      <3> QED BY <3>2, <3>4, <3>5, <3>6
    <2>2. run.asks # None => \A k \in Kinds : run.limits[k] <= run.asks[k]
      BY <1>1 DEF Sound, Bounded
    <2> QED BY <2>1, <2>2 DEF Bounded, Changes
  <1> QED BY <1>1, <1>2, <1>3, <1>4, <1>5 DEF Sound, Changes

LEMMA ChangedGrows ==
  ASSUME IInv, NEW a \in Actor, NEW i \in Asked(run), run.attempts[i].by = a, NEW e,
         run' = run \/ (Changes(i, e, run') /\ Sound(run'))
  PROVE  Grows(a, i)
  <1>1. run \in Runs /\ Len(run.attempts) \in Nat
    BY AttemptSets DEF IInv, Sound
  <1>2. CASE run' = run
    BY <1>1, <1>2 DEF Grows, IInv
  <1>3. CASE Changes(i, e, run') /\ Sound(run')
    <2>1. /\ Asked(run') = Asked(run) /\ Len(run'.attempts) = Len(run.attempts) /\ i \in Asked(run')
          /\ run'.attempts[i] = e /\ \A k \in Asked(run) : k # i => run'.attempts[k] = run.attempts[k]
      BY <1>1, <1>3, Changed
    <2> QED BY <1>1, <1>3, <2>1 DEF Grows, Changes
  <1> QED BY <1>2, <1>3

\* The AI's connection is waited for, or not.
LEMMA SetsSound ==
  ASSUME IInv, NEW a \in Actor, th[a].pc \in Flying, NEW st \in {"waiting", "started"}
  PROVE  \E e : Changes(th[a].at, e, Sets(a, st)) /\ Sound(Sets(a, st)) /\ e.st = st
                /\ Sets(a, st).retrieved = run.retrieved /\ (e.held <=> run.attempts[th[a].at].held)
  <1> DEFINE i == th[a].at
             e == [run.attempts[i] EXCEPT !.st = st]
             s == [run.attempts EXCEPT ![i] = e]
  <1>1. th[a].pc \notin Ahead \cup {"recover"}
    BY DEF Flying, Ahead
  <1>2. /\ run \in Runs /\ Fits(a, th[a], run) /\ i \in Asked(run) /\ run.attempts[i] \in Attempt
        /\ run.attempts \in Seq(Attempt) /\ i \in 1 .. Len(run.attempts)
    <2>1. th[a].at # 0
      BY <1>1, WorkRuns DEF Fits, AtWork, Flying
    <2> QED BY <1>1, <2>1, WorkRuns, AttemptSets DEF Asked
  <1>3. run.attempts[i].st \in {"started", "waiting"}
    BY <1>2 DEF Fits, Flying
  <1>4. /\ e \in Attempt /\ e.kind = run.attempts[i].kind /\ e.req = run.attempts[i].req
        /\ e.by = run.attempts[i].by /\ e.number = run.attempts[i].number
        /\ (e.held <=> run.attempts[i].held) /\ e.st = st
    BY <1>2 DEF Attempt, AttemptStates
  <1>5. Sets(a, st) = [run EXCEPT !.attempts = s]
    BY <1>2 DEF Sets, Runs
  <1> HIDE DEF e
  <1>6. s \in Seq(Attempt)
    BY <1>2, <1>4, Replaced
  <1>7. Changes(i, e, Sets(a, st)) /\ Sets(a, st).retrieved = run.retrieved
    <2>1. Sets(a, st) \in Runs /\ Rewrites(run, Sets(a, st), s, run.retrieved)
      <3> HIDE DEF s
      <3> QED BY <1>2, <1>5, <1>6, Rewritten
    <2> QED BY <1>4, <2>1 DEF Changes, Rewrites
  <1>8. Reserved(Sets(a, st)) = Reserved(run)
    BY <1>2, <1>4, <1>7, Changed
  <1>9. Sound(Sets(a, st))
    BY <1>2, <1>3, <1>7, <1>8, ChangedSound DEF IInv, Sound, Bounded
  <1> QED BY <1>4, <1>7, <1>9

LEMMA WireStep ==
  ASSUME IInv, NEW a \in Actor, th[a].pc \in {"call", "queued", "send"},
         NEW st \in {"waiting", "started"}, run' = run \/ (th[a].kind = "model" /\ run' = Sets(a, st)),
         th[a].at \in sent => run' = run \/ st = "started",
         NEW pc \in {"queued", "send", "out", "answered"}, NEW res \in Results,
         th' = [th EXCEPT ![a] = [th[a] EXCEPT !.pc = pc, !.res = res]],
         pc = "queued" => th[a].kind = "model" /\ run'.attempts[th[a].at].st = "waiting",
         pc = "send" => th[a].kind = "model" /\ run'.attempts[th[a].at].st = "started",
         pc = "out" => run'.attempts[th[a].at].st = "started",
         sent' = sent \/ (pc = "out" /\ sent' = sent \cup {th[a].at}),
         UNCHANGED <<lease, dead, fatal, late, kept>>, faults' \in {faults, faults + 1}
  PROVE  IInv'
  <1> DEFINE i == th[a].at
             j == [th[a] EXCEPT !.pc = pc, !.res = res]
  <1>1. th[a].pc \notin Ahead \cup {"recover"} /\ th[a].pc \in Flying
    BY DEF Flying, Ahead
  <1>2. /\ run.state = "running" /\ th \in [Actor -> Jobs] /\ th[a] \in Jobs /\ Fits(a, th[a], run)
        /\ (a = Main => LastIsTheAIs(th[a], run)) /\ run \in Runs /\ Len(run.attempts) \in Nat
        /\ i \in Asked(run) /\ i # 0 /\ run.attempts[i] \in Attempt
    <2>1. th[a].at # 0
      BY <1>1, WorkRuns DEF Fits, AtWork, Flying
    <2> QED BY <1>1, <2>1, WorkRuns, AttemptSets DEF Asked
  <1>3. /\ run.attempts[i].st \in {"started", "waiting"} /\ run.attempts[i].by = a
        /\ run.attempts[i].kind = th[a].kind /\ run.attempts[i].req = th[a].req
        /\ th[a].pc = "call" /\ th[a].kind # "model" => run.attempts[i].held
        /\ th[a].pc # "call" => th[a].kind = "model"
        /\ th[a].kind = "model" => ~run.attempts[i].held
    <2>1. run.attempts[i].held => run.attempts[i].kind # "model"
      BY <1>2 DEF IInv, Sound, Kindly
    <2> QED BY <1>2, <2>1 DEF Fits
  <1>4. PICK e : /\ Changes(i, e, Sets(a, st)) /\ Sound(Sets(a, st)) /\ e.st = st
                 /\ Sets(a, st).retrieved = run.retrieved /\ (e.held <=> run.attempts[i].held)
    BY <1>1, SetsSound
  <1>5. Grows(a, i)
    BY <1>2, <1>3, <1>4, ChangedGrows
  <1>6. /\ Asked(run') = Asked(run) /\ Len(run'.attempts) = Len(run.attempts) /\ run'.retrieved = run.retrieved
        /\ run'.attempts[i].st \in {"started", "waiting"}
        /\ run'.attempts[i].kind = th[a].kind /\ run'.attempts[i].req = th[a].req /\ run'.attempts[i].by = a
        /\ run'.attempts[i].held <=> run.attempts[i].held
        /\ th[a].kind # "model" => run' = run
        /\ run' # run => run'.attempts[i].st = st
        /\ \A k \in Asked(run) : k # i => run'.attempts[k] = run.attempts[k]
    <2>1. CASE run' = run
      BY <1>3, <2>1
    <2>2. CASE th[a].kind = "model" /\ run' = Sets(a, st)
      <3>1. /\ Asked(run') = Asked(run) /\ Len(run'.attempts) = Len(run.attempts) /\ run'.attempts[i] = e
            /\ \A k \in Asked(run) : k # i => run'.attempts[k] = run.attempts[k]
        BY <1>2, <1>4, <2>2, Changed
      <3> QED BY <1>3, <1>4, <2>2, <3>1 DEF Changes
    <2> QED BY <2>1, <2>2
  <1>7. /\ j \in Jobs /\ j.pc = pc /\ j.at = i /\ j.after = th[a].after /\ j.kind = th[a].kind
        /\ j.req = th[a].req /\ j.size = th[a].size /\ th' = [th EXCEPT ![a] = j]
    BY <1>2 DEF Jobs, Pcs
  <1> HIDE DEF j
  <1>8. j.size = 0
    BY <1>2, <1>7 DEF Fits, AtWork
  <1>9. Fits(a, j, run')
    <2>1. th[a].kind # "model" => run'.attempts[i].st = "started" /\ run'.attempts[i].held
      BY <1>2, <1>3, <1>6 DEF Fits
    <2>2. j.after # 0 => run'.attempts[j.after].kind = j.kind /\ run'.attempts[j.after].req = j.req
      <3>1. j.after # 0 => /\ j.after \in Asked(run) /\ run.attempts[j.after].kind = j.kind
                           /\ run.attempts[j.after].req = j.req
        BY <1>2, <1>7 DEF Fits, Asked
      <3> QED BY <1>5, <3>1 DEF Grows
    <2>3. {j.at, j.after} \subseteq 0 .. Len(run'.attempts)
      BY <1>2, <1>6, <1>7 DEF Fits
    <2>4. IF j.kind = "model" THEN j.req = None ELSE j.kind \in Kinds /\ j.req \in Request
      BY <1>1, <1>2, <1>7 DEF Fits, AtWork, Flying
    <2> QED BY <1>2, <1>6, <1>7, <1>8, <2>1, <2>2, <2>3, <2>4 DEF Fits, AtWork
  <1>10. a = Main => LastIsTheAIs(j, run')
    BY <1>1, <1>2, <1>6, <1>7 DEF LastIsTheAIs, AtWork, Flying
  <1>15. FromFlight(a, i)
    BY <1>1 DEF FromFlight
  <1>11. KeptCounted'
    <2>1. i \notin Owed(run, th)
      BY <1>2, <1>3 DEF Owed, Waits
    <2>2. kept \in Nat /\ Owes(run', th', i) \in Nat /\ Owes(run, th, i) = 0 /\ run.retrieved \in Nat
      BY <1>2, <2>1, ResearchAssumption DEF IInv, KeptCounted, Owes, Runs
    <2>3. kept' + Owes(run, th, i) + run.retrieved <= kept + run'.retrieved + Owes(run', th', i)
      BY <1>6, <2>2
    <2>4. kept' \in Nat /\ (Waits(j) => j.at = i)
      BY <1>7, <2>2
    <2> QED BY <1>5, <1>7, <1>15, <2>3, <2>4, KeptStep
  <1>12. SentAreSaved'
    <2>1. sent' \subseteq Asked(run')
      BY <1>2, <1>6 DEF IInv, SentAreSaved
    <2>2. ASSUME NEW k \in sent' PROVE run'.attempts[k].st \notin {"waiting", "not-started"}
      <3>1. CASE k # i
        BY <1>6, <2>2, <3>1 DEF IInv, SentAreSaved
      <3>2. CASE k = i /\ i \in sent
        BY <1>6, <3>2 DEF IInv, SentAreSaved
      <3>3. CASE k = i /\ i \notin sent
        BY <2>2, <3>3
      <3> QED BY <3>1, <3>2, <3>3
    <2>3. ASSUME NEW b \in Actor, th'[b].pc = "call" PROVE th'[b].at \notin sent'
      <3>1. b # a /\ th'[b] = th[b]
        BY <1>2, <1>7, <2>3
      <3>2. th[b].at \notin sent
        BY <2>3, <3>1 DEF IInv, SentAreSaved
      <3>3. th[b].at # i
        <4>1. th[b].at # 0
          BY <2>3, <3>1 DEF IInv, AllFit, Fits, AtWork
        <4> QED BY <1>5, <3>1, <4>1, Alone
      <3> QED BY <3>1, <3>2, <3>3
    <2> QED BY <2>1, <2>2, <2>3 DEF SentAreSaved
  <1>13. \A k : k = i => (run'.attempts[k].held => Broken' \/ HeldBy(k)')
    <2> SUFFICES ASSUME NEW k, k = i, run'.attempts[k].held PROVE HeldBy(k)'
      OBVIOUS
    <2> QED BY <1>2, <1>3, <1>6, <1>7 DEF HeldBy
  <1>14. j.pc \notin Ahead \cup {"recover"} /\ Steady
    BY <1>7 DEF Ahead, Steady
  <1> QED BY <1>5, <1>7, <1>9, <1>10, <1>11, <1>12, <1>13, <1>14, <1>15, FlyStep

LEMMA SetsIt ==
  ASSUME IInv, NEW a \in Actor, th[a].pc \in Flying, NEW st \in {"waiting", "started"}
  PROVE  Sets(a, st).attempts[th[a].at].st = st
  <1>1. run \in Runs /\ th[a].at \in Asked(run) /\ run.attempts \in Seq(Attempt)
    <2>1. th[a].pc \notin Ahead \cup {"recover"}
      BY DEF Flying, Ahead
    <2>2. th[a].at # 0
      BY <2>1, WorkRuns DEF Fits, AtWork, Flying
    <2> QED BY <2>1, <2>2, WorkRuns, AttemptSets
  <1>2. run.attempts[th[a].at] \in Attempt
    BY <1>1, AttemptSets
  <1> QED BY <1>1, <1>2 DEF Sets, Runs, Attempt, Asked

\* Its job, when only where it stands and what came of it change.
LEMMA WireJob ==
  ASSUME IInv, NEW a \in Actor, NEW pc
  PROVE  /\ At(a, pc) = [th EXCEPT ![a] = [th[a] EXCEPT !.pc = pc, !.res = th[a].res]]
         /\ With(a, pc, "failed") = [th EXCEPT ![a] = [th[a] EXCEPT !.pc = pc, !.res = "failed"]]
         /\ th[a].res \in Results /\ "failed" \in Results
  <1>1. th \in [Actor -> Jobs] /\ th[a] \in Jobs
    BY DEF IInv, AllFit
  <1>2. th[a].res \in Results /\ [th[a] EXCEPT !.pc = pc] = [th[a] EXCEPT !.pc = pc, !.res = th[a].res]
    BY <1>1 DEF Jobs
  <1> QED BY <1>1, <1>2 DEF At, With, Results

LEMMA WaitsForAIKeeps ==
  ASSUME IInv, NEW a \in Actor, WaitsForAI(a)
  PROVE  IInv'
  <1>1. /\ th[a].pc = "call" /\ th[a].kind = "model" /\ Frame
        /\ \/ Commit(Sets(a, "waiting"), At(a, "queued"), With(a, "answered", "failed"))
           \/ Moves(With(a, "answered", "failed"))
    BY DEF WaitsForAI
  <1>2. /\ th[a].at \notin sent /\ th[a].pc \in Flying
        /\ UNCHANGED <<lease, dead, fatal, late, kept>> /\ sent' = sent
    BY <1>1 DEF IInv, SentAreSaved, Frame, Flying
  <1>3. CASE run' = Sets(a, "waiting") /\ th' = At(a, "queued") /\ faults' = faults
    <2>1. run'.attempts[th[a].at].st = "waiting"
      BY <1>2, <1>3, SetsIt
    <2>2. th' = [th EXCEPT ![a] = [th[a] EXCEPT !.pc = "queued", !.res = th[a].res]] /\ th[a].res \in Results
      BY <1>3, WireJob, Zenon
    <2> QED BY <1>1, <1>2, <1>3, <2>1, <2>2, WireStep, Zenon
  <1>4. CASE /\ run' = run \/ run' = Sets(a, "waiting")
             /\ th' = With(a, "answered", "failed") /\ faults' \in {faults, faults + 1}
    <2>1. th' = [th EXCEPT ![a] = [th[a] EXCEPT !.pc = "answered", !.res = "failed"]] /\ "failed" \in Results
      BY <1>4, WireJob, Zenon
    <2> QED BY <1>1, <1>2, <1>4, <2>1, WireStep, Zenon
  <1> QED BY <1>1, <1>3, <1>4 DEF Commit, Moves

LEMMA TakesAIKeeps ==
  ASSUME IInv, NEW a \in Actor, TakesAI(a)
  PROVE  IInv'
  <1>1. /\ th[a].pc = "queued" /\ Frame
        /\ \/ Commit(Sets(a, "started"), At(a, "send"), With(a, "answered", "failed"))
           \/ Moves(With(a, "answered", "failed"))
    BY DEF TakesAI
  <1>2. /\ th[a].pc \in Flying /\ th[a].kind = "model"
        /\ UNCHANGED <<lease, dead, fatal, late, kept>> /\ sent' = sent
    BY <1>1 DEF IInv, AllFit, Fits, Frame, Flying
  <1>3. CASE run' = Sets(a, "started") /\ th' = At(a, "send") /\ faults' = faults
    <2>1. run'.attempts[th[a].at].st = "started"
      BY <1>2, <1>3, SetsIt
    <2>2. th' = [th EXCEPT ![a] = [th[a] EXCEPT !.pc = "send", !.res = th[a].res]] /\ th[a].res \in Results
      BY <1>3, WireJob, Zenon
    <2> QED BY <1>1, <1>2, <1>3, <2>1, <2>2, WireStep, Zenon
  <1>4. CASE /\ run' = run \/ run' = Sets(a, "started")
             /\ th' = With(a, "answered", "failed") /\ faults' \in {faults, faults + 1}
    <2>1. th' = [th EXCEPT ![a] = [th[a] EXCEPT !.pc = "answered", !.res = "failed"]] /\ "failed" \in Results
      BY <1>4, WireJob, Zenon
    <2> QED BY <1>1, <1>2, <1>4, <2>1, WireStep, Zenon
  <1> QED BY <1>1, <1>3, <1>4 DEF Commit, Moves

LEMMA DispatchesKeeps ==
  ASSUME IInv, NEW a \in Actor, Dispatches(a)
  PROVE  IInv'
  <1>1. /\ th[a].pc \in {"call", "send"} /\ UNCHANGED <<lease, dead, fatal, late, kept>>
        /\ run' = run /\ faults' = faults
        /\ \/ sent' = sent \cup {th[a].at} /\ th' = At(a, "out")
           \/ sent' = sent /\ th' = With(a, "answered", "failed")
    BY DEF Dispatches, Moves
  <1>2. run.attempts[th[a].at].st = "started" /\ "started" \in {"waiting", "started"}
    BY <1>1 DEF IInv, AllFit, Fits
  <1>3. CASE sent' = sent \cup {th[a].at} /\ th' = At(a, "out")
    <2>1. th' = [th EXCEPT ![a] = [th[a] EXCEPT !.pc = "out", !.res = th[a].res]] /\ th[a].res \in Results
      BY <1>3, WireJob, Zenon
    <2> QED BY <1>1, <1>2, <1>3, <2>1, WireStep, Zenon
  <1>4. CASE sent' = sent /\ th' = With(a, "answered", "failed")
    <2>1. th' = [th EXCEPT ![a] = [th[a] EXCEPT !.pc = "answered", !.res = "failed"]] /\ "failed" \in Results
      BY <1>4, WireJob, Zenon
    <2> QED BY <1>1, <1>2, <1>4, <2>1, WireStep, Zenon
  <1> QED BY <1>1, <1>3, <1>4

\* What an answer may bring.
LEMMA SizesOf ==
  ASSUME NEW kind \in Kinds, NEW res \in Outcomes(kind), NEW size \in Sizes(kind, res)
  PROVE  res \in Results /\ size \in (IF kind = "model" THEN {0, 1} ELSE {0, Allowance}) /\ size \in Nat
  <1>1. res \in Results
    BY DEF Outcomes, Results, Kinds
  <1>2. size \in (IF kind = "model" THEN {0, 1} ELSE {0, Allowance})
    BY DEF Sizes, Kinds, Outcomes
  <1> QED BY <1>1, <1>2, ResearchAssumption

\* An attempt nobody waits for is owed for, as long as it is held.
LEMMA OwesHeld ==
  ASSUME NEW r, NEW jobs, NEW i \in Asked(r), r.attempts[i].held, \A a \in Actor : jobs[a].at = i => ~Waits(jobs[a])
  PROVE  Owes(r, jobs, i) = Allowance
  BY DEF Owes, Owed

LEMMA OwesNone ==
  ASSUME NEW r, NEW jobs, NEW i, r.attempts[i].held => \E a \in Actor : jobs[a].at = i /\ Waits(jobs[a])
  PROVE  Owes(r, jobs, i) = 0
  BY DEF Owes, Owed

LEMMA AnswersKeeps ==
  ASSUME IInv, NEW a \in Actor, Answers(a)
  PROVE  IInv'
  <1> DEFINE i == th[a].at
  <1>1. /\ th[a].pc = "out" /\ UNCHANGED <<run, lease, dead, fatal, late, sent, faults>>
        /\ th[a].pc \in Flying /\ th[a].pc \notin Ahead \cup {"recover"}
    BY DEF Answers, Flying, Ahead
  <1>2. PICK res \in Outcomes(th[a].kind) : \E size \in Sizes(th[a].kind, res) :
          /\ th' = As(a, [th[a] EXCEPT !.pc = "answered", !.res = res, !.size = size])
          /\ kept' = IF th[a].kind = "model" THEN kept ELSE kept + size
    BY DEF Answers
  <1>3. PICK size \in Sizes(th[a].kind, res) :
          /\ th' = As(a, [th[a] EXCEPT !.pc = "answered", !.res = res, !.size = size])
          /\ kept' = IF th[a].kind = "model" THEN kept ELSE kept + size
    BY <1>2
  <1>4. /\ run.state = "running" /\ th \in [Actor -> Jobs] /\ th[a] \in Jobs /\ Fits(a, th[a], run)
        /\ (a = Main => LastIsTheAIs(th[a], run)) /\ run \in Runs /\ Len(run.attempts) \in Nat
        /\ i \in Asked(run) /\ i # 0 /\ run.attempts[i] \in Attempt
    <2>1. th[a].at # 0
      BY <1>1, WorkRuns DEF Fits, AtWork, Flying
    <2> QED BY <1>1, <2>1, WorkRuns, AttemptSets
  <1>5. th[a].kind \in Kinds /\ res \in Results /\ size \in (IF th[a].kind = "model" THEN {0, 1} ELSE {0, Allowance}) /\ size \in Nat
    <2>1. th[a].kind \in Kinds
      BY <1>4 DEF Fits, Attempt
    <2> QED BY <2>1, SizesOf
  <1> DEFINE j == [th[a] EXCEPT !.pc = "answered", !.res = res, !.size = size]
  <1>6. /\ j \in Jobs /\ j.pc = "answered" /\ j.at = i /\ j.after = th[a].after /\ j.kind = th[a].kind
        /\ j.req = th[a].req /\ j.size = size /\ th' = [th EXCEPT ![a] = j]
    BY <1>3, <1>4, <1>5 DEF Jobs, Pcs, As
  <1> HIDE DEF j
  <1>7. /\ run.attempts[i].by = a /\ run.attempts[i].st = "started"
        /\ th[a].kind = "model" <=> ~run.attempts[i].held
    <2>1. run.attempts[i].held => run.attempts[i].kind # "model"
      BY <1>4 DEF IInv, Sound, Kindly
    <2> QED BY <1>1, <1>4, <2>1 DEF Fits
  <1>8. Grows(a, i) /\ run' = run
    BY <1>1, <1>4, <1>7, ChangedGrows
  <1>9. Fits(a, j, run')
    BY <1>1, <1>4, <1>5, <1>6, <1>7, <1>8 DEF Fits, AtWork
  <1>10. a = Main => LastIsTheAIs(j, run')
    BY <1>1, <1>4, <1>6, <1>8 DEF LastIsTheAIs, AtWork
  <1>11. FromFlight(a, i) /\ Steady /\ j.pc \notin Ahead \cup {"recover"}
    BY <1>1, <1>6 DEF FromFlight, Steady, Ahead
  <1>12. th'[a] = j /\ \A b \in Actor : b # a => th'[b] = th[b] /\ th'[b].at # i
    <2>1. \A b \in Actor : b # a /\ th[b].at # 0 => th[b].at # i
      BY <1>8, Alone
    <2> QED BY <1>4, <1>6, <2>1
  <1>13. KeptCounted'
    <2>1. Owes(run, th, i) = 0
      BY <1>1, <1>7, OwesNone DEF Waits
    <2>2. th[a].kind # "model" /\ size # 0 => Owes(run', th', i) = Allowance
      <3>1. th[a].kind # "model" /\ size # 0 => run'.attempts[i].held /\ ~Waits(j)
        BY <1>6, <1>7, <1>8 DEF Waits
      <3> QED BY <1>4, <1>8, <1>12, <3>1, OwesHeld
    <2>3. kept \in Nat /\ Owes(run', th', i) \in Nat /\ run.retrieved \in Nat
      BY <1>4, ResearchAssumption DEF IInv, KeptCounted, Owes, Runs
    <2>4. kept' \in Nat /\ kept' + Owes(run, th, i) + run.retrieved <= kept + run'.retrieved + Owes(run', th', i)
      BY <1>3, <1>5, <1>8, <2>1, <2>2, <2>3
    <2>5. Waits(j) => j.at = i
      BY <1>6
    <2> QED BY <1>6, <1>8, <1>11, <2>4, <2>5, KeptStep
  <1>14. SentAreSaved'
    BY <1>1, <1>4, <1>6, <1>12 DEF IInv, SentAreSaved
  <1>15. \A k : k = i => (run'.attempts[k].held => Broken' \/ HeldBy(k)')
    <2> SUFFICES ASSUME NEW k, k = i PROVE HeldBy(k)'
      OBVIOUS
    <2> QED BY <1>6, <1>12 DEF HeldBy
  <1> QED BY <1>6, <1>8, <1>9, <1>10, <1>11, <1>13, <1>14, <1>15, FlyStep

\* What becomes of an attempt whose outcome is saved.
AnsweredAs(a, e) ==
    /\ Changes(th[a].at, e, Answered(a)) /\ Sound(Answered(a)) /\ ~e.held /\ e.st # "waiting"
    /\ run.attempts[th[a].at].st = "started" => e.st # "not-started"
    /\ Answered(a).retrieved = run.retrieved + th[a].size
LEMMA OutFacts ==
  ASSUME IInv, NEW a \in Actor, th[a].pc = "answered"
  PROVE  /\ run.state = "running" /\ th \in [Actor -> Jobs] /\ th[a] \in Jobs /\ Fits(a, th[a], run)
         /\ (a = Main => LastIsTheAIs(th[a], run)) /\ run \in Runs /\ Len(run.attempts) \in Nat
         /\ th[a].at \in Asked(run) /\ th[a].at # 0 /\ run.attempts[th[a].at] \in Attempt
         /\ run.attempts[th[a].at].by = a /\ run.attempts[th[a].at].st \in {"started", "waiting"}
         /\ th[a].kind # "model" => run.attempts[th[a].at].st = "started" /\ th[a].req \in Request
         /\ (th[a].kind = "model" <=> ~run.attempts[th[a].at].held)
         /\ th[a].size \in (IF th[a].kind = "model" THEN {0, 1} ELSE {0, Allowance}) /\ th[a].size \in Nat
         /\ th[a].kind \in Kinds /\ (a = Main \/ a \in Task)
  <1>1. th[a].pc \in AtWork /\ th[a].pc \notin Ahead \cup {"recover"}
    BY DEF Ahead, AtWork
  <1>2. /\ run.state = "running" /\ th \in [Actor -> Jobs] /\ th[a] \in Jobs /\ Fits(a, th[a], run)
        /\ (a = Main => LastIsTheAIs(th[a], run)) /\ run \in Runs /\ Len(run.attempts) \in Nat
        /\ th[a].at \in Asked(run) /\ th[a].at # 0 /\ run.attempts[th[a].at] \in Attempt
    <2>1. th[a].at # 0
      BY <1>1, WorkRuns DEF Fits
    <2> QED BY <1>1, <2>1, WorkRuns, AttemptSets
  <1>3. run.attempts[th[a].at].held => run.attempts[th[a].at].kind # "model"
    BY <1>2 DEF IInv, Sound, Kindly
  <1>4. th[a].kind \in Kinds
    BY <1>2 DEF Fits, Attempt
  <1>5. /\ run.attempts[th[a].at].by = a /\ run.attempts[th[a].at].st \in {"started", "waiting"}
        /\ th[a].kind # "model" => run.attempts[th[a].at].st = "started" /\ th[a].req \in Request
        /\ (th[a].kind = "model" <=> ~run.attempts[th[a].at].held)
    BY <1>1, <1>2, <1>3 DEF Fits
  <1>6. th[a].size \in (IF th[a].kind = "model" THEN {0, 1} ELSE {0, Allowance})
    BY <1>2 DEF Fits
  <1>7. th[a].size \in Nat
    BY <1>6, ResearchAssumption
  <1>8. a = Main \/ a \in Task
    BY DEF Actor
  <1> QED BY <1>2, <1>4, <1>5, <1>6, <1>7, <1>8

LEMMA AnsweredSound ==
  ASSUME IInv, NEW a \in Actor, th[a].pc = "answered",
         NEW own, own = IF run.attempts[th[a].at].held THEN Allowance ELSE 0,
         ~(run.retrieved + (Reserved(run) - own) + th[a].size > Room)
  PROVE  \E e : AnsweredAs(a, e)
  <1> DEFINE i == th[a].at
             old == run.attempts[i]
             st == CASE th[a].res = "ok" -> "completed"
                     [] th[a].res = "refused" -> "refused"
                     [] OTHER -> IF old.st = "waiting" THEN "not-started" ELSE "uncertain"
             code == IF th[a].res \in {"gap", "temporary", "limited"} THEN th[a].res ELSE old.code
             e == [old EXCEPT !.held = FALSE, !.st = st, !.code = code]
             s == [run.attempts EXCEPT ![i] = e]
             n == run.retrieved + th[a].size
  <1>1. /\ run \in Runs /\ i \in Asked(run) /\ old \in Attempt /\ run.attempts \in Seq(Attempt)
        /\ i \in 1 .. Len(run.attempts) /\ th[a].size \in Nat /\ old.st \in {"started", "waiting"}
    BY OutFacts, AttemptSets DEF Asked
  <1>2. /\ st \in AttemptStates /\ st # "waiting" /\ (old.st = "started" => st # "not-started")
        /\ code \in Codes
    BY <1>1 DEF AttemptStates, Codes, Attempt
  <1>3. Answered(a) = [run EXCEPT !.retrieved = n, !.attempts = s]
    BY <1>1 DEF Answered, Runs
  <1>4. n \in Nat
    BY <1>1 DEF Runs
  <1> HIDE DEF st, code, n
  <1>5. /\ e \in Attempt /\ e.kind = old.kind /\ e.req = old.req /\ e.by = old.by
        /\ e.number = old.number /\ e.held = FALSE /\ e.st = st
    BY <1>1, <1>2 DEF Attempt
  <1> HIDE DEF e
  <1>6. s \in Seq(Attempt)
    BY <1>1, <1>5, Replaced
  <1>7. Changes(i, e, Answered(a)) /\ Answered(a).retrieved = n
    <2>1. Answered(a) \in Runs /\ Rewrites(run, Answered(a), s, n)
      <3> HIDE DEF s
      <3>1. /\ [run EXCEPT !.retrieved = n, !.attempts = s] \in Runs
            /\ Rewrites(run, [run EXCEPT !.retrieved = n, !.attempts = s], s, n)
        BY ONLY <1>1, <1>4, <1>6, RewrittenToo
      <3> QED BY <1>3, <3>1
    <2> QED BY <1>5, <2>1 DEF Changes, Rewrites
  <1>8. Answered(a).retrieved + Reserved(Answered(a)) <= Room
    <2>1. Reserved(Answered(a)) = Reserved(run) - own
      <3>1. Reserved(run) \in Nat
        BY <1>1, OwedSize
      <3>2. Reserved(Answered(a)) = IF old.held THEN Reserved(run) - Allowance ELSE Reserved(run)
        BY <1>1, <1>5, <1>7, Changed
      <3> QED BY <3>1, <3>2
    <2>2. Reserved(run) \in Nat /\ run.retrieved \in Nat /\ own \in Nat
      BY <1>1, OwedSize, ResearchAssumption DEF Runs
    <2>3. Room \in Nat /\ n = run.retrieved + th[a].size
      BY ResearchAssumption DEF n
    <2>4. n + (Reserved(run) - own) <= Room
      BY <1>1, <2>2, <2>3
    <2> QED BY <1>7, <2>1, <2>4
  <1>9. Sound(Answered(a))
    BY <1>1, <1>7, <1>8, ChangedSound
  <1> QED BY <1>2, <1>5, <1>7, <1>9 DEF AnsweredAs, n

LEMMA SaveStep ==
  ASSUME IInv, NEW a \in Actor, th[a].pc = "answered", NEW j, th' = [th EXCEPT ![a] = j],
         run' = run \/ (run' = Answered(a) /\ \E e : AnsweredAs(a, e)),
         \/ Rests(th[a], j)
         \/ /\ run' = Answered(a) /\ j \in Jobs /\ j.pc = "deciding" /\ j.size = 0
            /\ j.at = th[a].at /\ j.after = th[a].after /\ j.kind = th[a].kind /\ j.req = th[a].req,
         j.pc \notin Ahead \cup {"recover", "act", "rejecting"} \/ (a \in Task /\ j.pc = "act"),
         j.pc = "stepping" => th[a].kind = "model",
         kept' = kept \/ (th[a].kind = "model" /\ run' # run /\ kept' = kept + th[a].size),
         Steady, sent' = sent,
         run' = run /\ th[a].kind # "model" =>
             IF a = Main THEN j.pc = "finish" /\ j.res = "interrupted" ELSE faults' = faults + 1
  PROVE  IInv'
  <1>0. PICK i : i = th[a].at
    OBVIOUS
  <1>1. /\ run.state = "running" /\ th \in [Actor -> Jobs] /\ th[a] \in Jobs /\ Fits(a, th[a], run)
        /\ (a = Main => LastIsTheAIs(th[a], run)) /\ run \in Runs /\ Len(run.attempts) \in Nat
        /\ i \in Asked(run) /\ i # 0 /\ run.attempts[i] \in Attempt
        /\ run.attempts[i].by = a /\ run.attempts[i].st \in {"started", "waiting"}
        /\ (th[a].kind # "model" => run.attempts[i].st = "started" /\ th[a].req \in Request)
        /\ (th[a].kind = "model" <=> ~run.attempts[i].held)
        /\ th[a].size \in (IF th[a].kind = "model" THEN {0, 1} ELSE {0, Allowance}) /\ th[a].size \in Nat
        /\ th[a].kind \in Kinds /\ (a = Main \/ a \in Task)
    BY <1>0, OutFacts
  <1>2. PICK e : run' = run \/ (run' = Answered(a) /\ AnsweredAs(a, e))
    OBVIOUS
  <1>3. run' = Answered(a) \/ run' = run
    OBVIOUS
  <1>4. Grows(a, i)
    BY <1>0, <1>1, <1>2, ChangedGrows DEF AnsweredAs
  <1>5. /\ Asked(run') = Asked(run) /\ Len(run'.attempts) = Len(run.attempts) /\ run' \in Runs
        /\ \A k \in Asked(run) : k # i => run'.attempts[k] = run.attempts[k]
        /\ run'.attempts[i].st # "waiting" \/ run' = run
        /\ run.attempts[i].st = "started" => run'.attempts[i].st # "not-started"
        /\ \/ run' = run
           \/ ~run'.attempts[i].held /\ run'.retrieved = run.retrieved + th[a].size
        /\ \A k \in Asked(run) : /\ run'.attempts[k].kind = run.attempts[k].kind
                                 /\ run'.attempts[k].req = run.attempts[k].req
                                 /\ run'.attempts[k].by = run.attempts[k].by
    <2>1. CASE run' = run
      BY <1>1, <2>1
    <2>2. CASE run' = Answered(a) /\ AnsweredAs(a, e)
      <3>1. /\ Asked(run') = Asked(run) /\ Len(run'.attempts) = Len(run.attempts) /\ run'.attempts[i] = e
            /\ \A k \in Asked(run) : k # i => run'.attempts[k] = run.attempts[k]
        BY <1>0, <1>1, <2>2, Changed DEF AnsweredAs
      <3> QED BY <1>0, <1>1, <1>4, <2>2, <3>1 DEF AnsweredAs, Grows, Sound
    <2> QED BY <1>2, <2>1, <2>2
  <1>6. j \in Jobs /\ (j.pc = "deciding" \/ (j.pc \notin AtWork \cup {"begin", "dropping"} /\ Rests(th[a], j)))
    BY DEF Rests
  <1>7. Fits(a, j, run')
    <2>1. CASE Rests(th[a], j)
      <3>1. Fits(a, j, run) /\ j.pc \notin AtWork
        BY <1>1, <2>1, RestsFits DEF Rests
      <3> QED BY <1>1, <1>4, <1>5, <3>1, FitsBeside DEF Grows
    <2>2. CASE j.pc = "deciding" /\ ~Rests(th[a], j)
      <3>1. /\ j.size = 0 /\ j.at = i /\ j.after = th[a].after /\ j.kind = th[a].kind /\ j.req = th[a].req
        BY <1>0, <2>2
      <3>2. j.after # 0 => /\ j.after \in Asked(run) /\ run.attempts[j.after].kind = j.kind
                           /\ run.attempts[j.after].req = j.req
        BY <1>1, <3>1 DEF Fits, Asked
      <3>3. {j.at, j.after} \subseteq 0 .. Len(run'.attempts)
        BY <1>0, <1>1, <1>5, <3>1 DEF Fits
      <3>4. /\ run'.attempts[i].by = a /\ run'.attempts[i].kind = j.kind /\ run'.attempts[i].req = j.req
            /\ (IF j.kind = "model" THEN j.req = None ELSE j.kind \in Kinds /\ j.req \in Request)
        BY <1>0, <1>1, <1>5, <3>1 DEF Fits, AtWork
      <3> QED BY <1>1, <1>5, <1>6, <2>2, <3>1, <3>2, <3>3, <3>4 DEF Fits, AtWork
    <2> QED BY <1>6, <2>1, <2>2
  <1>8. a = Main => LastIsTheAIs(j, run')
    <2> SUFFICES ASSUME a = Main PROVE LastIsTheAIs(j, run')
      OBVIOUS
    <2>1. th[a].kind = "model" => i = Len(run.attempts) /\ run'.attempts[i].kind = "model"
      BY <1>0, <1>1, <1>5 DEF LastIsTheAIs, AtWork, Fits
    <2>2. j.pc = "deciding" => (j.at = i /\ j.kind = th[a].kind) \/ Rests(th[a], j)
      BY <1>0
    <2>3. j.pc \notin {"act", "rejecting"}
      BY ResearchAssumption
    <2>4. i > 0
      BY <1>1 DEF Asked
    <2> QED BY <1>5, <1>6, <2>1, <2>2, <2>3, <2>4 DEF LastIsTheAIs, Rests, AtWork
  <1>9. th'[a] = j /\ \A b \in Actor : b # a => th'[b] = th[b] /\ th'[b].at # i
    <2>1. \A b \in Actor : b # a /\ th[b].at # 0 => th[b].at # i
      BY <1>4, Alone
    <2> QED BY <1>1, <2>1
  <1>10. ~Waits(j) /\ j.pc # "call" /\ FromFlight(a, i)
    BY <1>0, <1>6 DEF Waits, AtWork, FromFlight, Flying
  <1>11. KeptCounted'
    <2>1. kept \in Nat /\ run.retrieved \in Nat /\ Owes(run', th', i) \in Nat /\ Owes(run, th, i) \in {0, Allowance}
      BY <1>1, ResearchAssumption DEF IInv, KeptCounted, Runs, Owes
    <2>2. run' = run /\ th[a].kind # "model" => Owes(run', th', i) = Allowance
      <3>1. \A b \in Actor : th'[b].at = i => ~Waits(th'[b])
        BY <1>9, <1>10
      <3>2. run' = run /\ th[a].kind # "model" => i \in Asked(run') /\ run'.attempts[i].held
        BY <1>1
      <3> QED BY <3>1, <3>2, OwesHeld
    <2>3. th[a].kind = "model" => Owes(run, th, i) = 0
      BY <1>1, OwesNone
    <2>4. th[a].size = 0 => Owes(run, th, i) = 0
      BY <1>0, OwesNone DEF Waits
    <2>5. Allowance \in Nat
      BY ResearchAssumption
    <2>6. CASE th[a].kind = "model"
      <3>1. kept' = kept \/ (run'.retrieved = run.retrieved + th[a].size /\ kept' = kept + th[a].size)
        BY <1>5
      <3>2. run'.retrieved = run.retrieved \/ run'.retrieved = run.retrieved + th[a].size
        BY <1>5
      <3>3. kept' + Owes(run, th, i) + run.retrieved <= kept + run'.retrieved + Owes(run', th', i)
        BY <1>1, <2>1, <2>3, <2>6, <3>1, <3>2
      <3>4. kept' \in Nat
        BY <1>1, <2>1, <3>1
      <3> QED BY <1>4, <1>6, <1>10, <3>3, <3>4, KeptStep
    <2>7. CASE th[a].kind # "model"
      <3>1. kept' = kept
        BY <2>7
      <3>2. kept' + Owes(run, th, i) + run.retrieved <= kept + run'.retrieved + Owes(run', th', i)
        BY <1>1, <1>5, <2>1, <2>2, <2>4, <2>5, <2>7, <3>1
      <3> QED BY <1>4, <1>6, <1>10, <2>1, <3>1, <3>2, KeptStep
    <2> QED BY <2>6, <2>7
  <1>12. SentAreSaved'
    <2>1. sent' \subseteq Asked(run')
      BY <1>5 DEF IInv, SentAreSaved
    <2>2. ASSUME NEW k \in sent' PROVE run'.attempts[k].st \notin {"waiting", "not-started"}
      BY <1>1, <1>5, <2>2 DEF IInv, SentAreSaved
    <2>3. ASSUME NEW b \in Actor, th'[b].pc = "call" PROVE th'[b].at \notin sent'
      BY <1>9, <1>10, <2>3 DEF IInv, SentAreSaved
    <2> QED BY <2>1, <2>2, <2>3 DEF SentAreSaved
  <1>13. run'.attempts[i].held => Broken' \/ HeldBy(i)'
    <2> SUFFICES ASSUME run'.attempts[i].held PROVE Broken' \/ HeldBy(i)'
      OBVIOUS
    <2>1. run' = run /\ th[a].kind # "model"
      BY <1>1, <1>5
    <2>2. CASE a = Main
      BY <1>1, <1>9, <2>1, <2>2 DEF Broken
    <2>3. CASE a \in Task
      <3>1. a # Main /\ faults' = faults + 1 /\ faults \in Nat
        BY <2>1, <2>3, ResearchAssumption DEF IInv, InOrder
      <3>2. LeftOfALateTask(i)'
        BY <1>1, <2>1, <2>3, <3>1 DEF LeftOfALateTask
      <3> QED BY <3>2 DEF HeldBy
    <2> QED BY <1>1, <2>2, <2>3
  <1>14. j.pc \notin Ahead \cup {"recover"}
    BY DEF Ahead
  <1> QED BY <1>4, <1>6, <1>7, <1>8, <1>10, <1>11, <1>12, <1>13, <1>14, FlyStep

\* It goes on as its attempt returned.
LEMMA SavedReturn ==
  ASSUME IInv, NEW a \in Actor, th[a].pc = "answered", NEW o \in {"ok", "error"}, th' = Returned(a, o),
         run' = run \/ (run' = Answered(a) /\ \E e : AnsweredAs(a, e)),
         kept' = kept \/ (th[a].kind = "model" /\ run' # run /\ kept' = kept + th[a].size),
         Steady, sent' = sent,
         run' = run /\ th[a].kind # "model" => o = "error" /\ faults' = faults + 1
  PROVE  IInv'
  <1>1. /\ th \in [Actor -> Jobs] /\ (th[a].kind # "model" => Sourcing(th[a]))
        /\ o \in Results
    BY OutFacts DEF Sourcing, Kinds, Results
  <1>2. PICK j : /\ Returned(a, o) = [th EXCEPT ![a] = j] /\ Rests(th[a], j)
                 /\ j.pc \in {"stepping", "act", "finish", "end", "retaining", "failing", "continuing", "finalizing"}
                 /\ j.pc = "stepping" => a = Main /\ o = "ok" /\ th[a].kind = "model"
                 /\ a = Main => j.pc # "act"
                 /\ a = Main /\ o \notin {"ok", "gap", "limit"} => j.pc = "finish" /\ j.res = "interrupted"
                 /\ a \in Task => j.pc # "finish"
    BY <1>1, ReturnedJob
  <1>3. a = Main \/ a \in Task
    BY DEF Actor
  <1>4. j.pc \notin Ahead \cup {"recover", "act", "rejecting"} \/ (a \in Task /\ j.pc = "act")
    <2>1. a \in Task \/ j.pc # "act"
      BY <1>2, <1>3
    <2>2. j.pc = "act" \/ j.pc \notin Ahead \cup {"recover", "act", "rejecting"}
      BY <1>2 DEF Ahead
    <2> QED BY <2>1, <2>2
  <1>5. run' = run /\ th[a].kind # "model" =>
          IF a = Main THEN j.pc = "finish" /\ j.res = "interrupted" ELSE faults' = faults + 1
    BY <1>2
  <1>6. th' = [th EXCEPT ![a] = j] /\ Rests(th[a], j) /\ (j.pc = "stepping" => th[a].kind = "model")
    BY <1>2
  <1> QED BY <1>4, <1>5, <1>6, SaveStep

LEMMA SavesKeeps ==
  ASSUME IInv, NEW a \in Actor, Saves(a)
  PROVE  IInv'
  <1> DEFINE j == th[a]
             i == th[a].at
             own == IF run.attempts[i].held THEN Allowance ELSE 0
             decides == [th[a] EXCEPT !.pc = "deciding", !.res = None, !.size = 0]
             after == CASE j.res = "ok" -> Returned(a, "ok")
                        [] j.res = "refused" -> Returned(a, "error")
                        [] OTHER -> As(a, decides)
             full == run.retrieved + (Reserved(run) - own) + j.size > Room
  <1>1. /\ th[a].pc = "answered" /\ UNCHANGED <<lease, dead, fatal, late, sent>>
        /\ IF full THEN Moves(Returned(a, "error")) /\ UNCHANGED kept
           ELSE /\ Commit(Answered(a), after, Returned(a, "error"))
                /\ kept' = IF j.kind = "model" /\ run' # run THEN kept + j.size ELSE kept
    BY DEF Saves
  <1>2. /\ th \in [Actor -> Jobs] /\ th[a] \in Jobs /\ run \in Runs /\ i \in Asked(run)
        /\ j.kind = "model" <=> ~run.attempts[i].held
        /\ j.size \in (IF j.kind = "model" THEN {0, 1} ELSE {0, Allowance}) /\ j.size \in Nat
    BY <1>1, OutFacts
  <1>3. CASE full
    <2>1. j.kind = "model"
      <3> SUFFICES ASSUME j.kind # "model" PROVE FALSE
        OBVIOUS
      <3>1. own = Allowance /\ j.size \in {0, Allowance}
        BY <1>2
      <3>2. run.retrieved + Reserved(run) <= Room /\ Reserved(run) \in Nat /\ run.retrieved \in Nat
        BY <1>2, OwedSize DEF IInv, Sound, Bounded, Runs
      <3>3. run.retrieved + (Reserved(run) - Allowance) + j.size <= Room
        BY <3>1, <3>2, ResearchAssumption
      <3>4. Room \in Nat /\ Allowance \in Nat
        BY ResearchAssumption
      <3> HIDE DEF own
      <3>5. run.retrieved + (Reserved(run) - Allowance) + j.size > Room
        BY <1>3, <3>1
      <3> QED BY <1>2, <3>2, <3>3, <3>4, <3>5
    <2>2. run' = run /\ faults' = faults /\ th' = Returned(a, "error") /\ kept' = kept
      BY <1>1, <1>3 DEF Moves
    <2>3. Steady
      BY <1>1, <2>2 DEF Steady
    <2> QED BY <1>1, <2>1, <2>2, <2>3, SavedReturn
  <1>4. CASE ~full
    <2>1. PICK e : AnsweredAs(a, e)
      BY <1>1, <1>4, AnsweredSound
    <2>2. j.kind # "model" => Answered(a) # run
      <3>1. Answered(a).attempts[i] = e
        BY <1>2, <2>1, Changed DEF AnsweredAs
      <3> QED BY <1>2, <2>1, <3>1 DEF AnsweredAs
    <2>3. /\ Commit(Answered(a), after, Returned(a, "error"))
          /\ kept' = kept \/ (j.kind = "model" /\ run' # run /\ kept' = kept + j.size)
      BY <1>1, <1>4
    <2>4. CASE run' = Answered(a) /\ th' = after /\ faults' = faults
      <3>1. Steady
        BY <1>1, <2>4 DEF Steady
      <3>2. CASE j.res \in {"ok", "refused"}
        <4>1. th' = Returned(a, "ok") \/ th' = Returned(a, "error")
          BY <2>4, <3>2
        <4> HIDE DEF after
        <4> QED BY <1>1, <2>1, <2>2, <2>3, <2>4, <3>1, <4>1, SavedReturn
      <3>3. CASE j.res \notin {"ok", "refused"}
        <4>1. th' = [th EXCEPT ![a] = decides]
          BY <2>4, <3>3 DEF As
        <4>2. /\ decides \in Jobs /\ decides.pc = "deciding" /\ decides.size = 0 /\ decides.at = th[a].at
              /\ decides.after = th[a].after /\ decides.kind = th[a].kind /\ decides.req = th[a].req
          BY <1>2 DEF Jobs, Pcs, Results
        <4> HIDE DEF decides, after
        <4>3. /\ decides.pc \notin Ahead \cup {"recover", "act", "rejecting"}
              /\ decides.pc # "stepping"
          BY <4>2 DEF Ahead
        <4>4. ~(run' = run /\ th[a].kind # "model")
          BY <2>2, <2>4
        <4>5. /\ run' = Answered(a) /\ \E x : AnsweredAs(a, x)
              /\ kept' = kept \/ (th[a].kind = "model" /\ run' # run /\ kept' = kept + th[a].size)
          BY <2>1, <2>3, <2>4
        <4> QED BY <1>1, <3>1, <4>1, <4>2, <4>3, <4>4, <4>5, SaveStep
      <3> QED BY <3>2, <3>3
    <2>5. CASE run' \in {run, Answered(a)} /\ th' = Returned(a, "error") /\ faults' = faults + 1
      <3>1. Steady
        BY <1>1, <2>5 DEF Steady
      <3> QED BY <1>1, <2>1, <2>3, <2>5, <3>1, SavedReturn
    <2> HIDE DEF after
    <2> QED BY <2>3, <2>4, <2>5 DEF Commit
  <1> QED BY <1>3, <1>4

-------------------------------------------------------------------------------
(* A request is admitted: the journal grows by one attempt.                *)

\* What the journal was asked, when it said to go on.
LEMMA VerdictGo ==
  ASSUME NEW a, Verdict(a) = "go"
  PROVE  /\ HasBudget(run, th[a].kind) /\ (th[a].kind # "model" => HasRoom(run)) /\ run.state = "running" /\ ~run.stop
         /\ th[a].after = 0 => th[a].kind = "model" \/ Prior(run, th[a].req) = {}
         /\ th[a].after # 0 =>
              /\ run.attempts[th[a].after].st = "uncertain" /\ run.attempts[th[a].after].next = 0
              /\ Retryable(run.attempts[th[a].after]) /\ run.attempts[th[a].after].number <= MaxRetries
  <1> DEFINE known == IF th[a].after = 0 THEN PriorVerdict(th[a]) ELSE RetryVerdict(th[a])
  <1>1. HasBudget(run, th[a].kind) /\ (th[a].kind # "model" => HasRoom(run)) /\ run.state = "running" /\ ~run.stop /\ known = "go"
    <2> HIDE DEF known
    <2> SUFFICES /\ HasBudget(run, th[a].kind) /\ (th[a].kind # "model" => HasRoom(run)) /\ run.state = "running"
                 /\ ~run.stop /\ known = "go"
      OBVIOUS
    <2> QED BY DEF Verdict, known
  <1>2. th[a].after = 0 => th[a].kind = "model" \/ Prior(run, th[a].req) = {}
    BY <1>1 DEF PriorVerdict
  <1>3. th[a].after # 0 =>
          /\ run.attempts[th[a].after].st = "uncertain" /\ run.attempts[th[a].after].next = 0
          /\ Retryable(run.attempts[th[a].after]) /\ run.attempts[th[a].after].number <= MaxRetries
    BY <1>1 DEF RetryVerdict
  <1> QED BY <1>1, <1>2, <1>3

\* Its new attempt, and what the others keep.
Adds(a, s) ==
    LET n == Len(run.attempts) + 1
    IN  /\ s \in Runs /\ Len(s.attempts) = n
        /\ s.attempts[n].kind = th[a].kind /\ s.attempts[n].req = th[a].req /\ s.attempts[n].by = a
        /\ s.attempts[n].st = "started" /\ (s.attempts[n].held <=> th[a].kind # "model")
        /\ s.attempts[n].number = IF th[a].after = 0 THEN 1 ELSE run.attempts[th[a].after].number + 1
        /\ \A k \in Asked(run) :
             /\ s.attempts[k].kind = run.attempts[k].kind /\ s.attempts[k].req = run.attempts[k].req
             /\ s.attempts[k].by = run.attempts[k].by /\ s.attempts[k].st = run.attempts[k].st
             /\ s.attempts[k].number = run.attempts[k].number /\ s.attempts[k].code = run.attempts[k].code
             /\ (s.attempts[k].held <=> run.attempts[k].held)
             /\ s.attempts[k].next = IF k = th[a].after THEN n ELSE run.attempts[k].next
        /\ s.pending \subseteq run.pending /\ s.retrieved = run.retrieved /\ s.limits = run.limits /\ s.asks = run.asks
        /\ s.state = run.state /\ s.resume = run.resume /\ s.unpublished = run.unpublished /\ s.tasks = run.tasks

LEMMA BegunAdds ==
  ASSUME IInv, NEW a \in Actor, th[a].pc = "begin"
  PROVE  Adds(a, Begun(a))
  <1> DEFINE j == th[a]
             n == Len(run.attempts) + 1
             again == [New(j.kind, j.req, a) EXCEPT !.number = run.attempts[j.after].number + 1, !.of = j.after]
  <1>1. /\ run \in Runs /\ run.attempts \in Seq(Attempt) /\ Len(run.attempts) \in Nat /\ j \in Jobs
        /\ j.kind \in Kinds /\ j.req \in Request \cup {None} /\ (j.after # 0 => j.after \in 1 .. Len(run.attempts))
        /\ \A k \in Asked(run) : run.attempts[k] \in Attempt
    <2>1. Fits(a, j, run) /\ run \in Runs
      BY DEF IInv, AllFit, Sound
    <2>2. run.attempts \in Seq(Attempt) /\ Len(run.attempts) \in Nat /\ \A k \in Asked(run) : run.attempts[k] \in Attempt
      BY <2>1, AttemptSets
    <2>3. j \in Jobs /\ j.kind \in Kinds /\ j.req \in Request \cup {None}
      BY <2>1 DEF Fits, Kinds, Jobs
    <2> QED BY <2>1, <2>2, <2>3 DEF Fits
  <1>2. CASE j.after = 0
    <2> DEFINE e == New(j.kind, j.req, a)
               s == Append(run.attempts, e)
               step == IF a \in Task /\ j.kind = "model" THEN run.step + 1 ELSE run.step
    <2>1. /\ e \in Attempt /\ e.kind = j.kind /\ e.req = j.req /\ e.by = a /\ e.st = "started"
          /\ (e.held <=> j.kind # "model") /\ e.number = 1
      BY <1>1 DEF New, Attempt, AttemptStates, Codes
    <2>2. Begun(a) = [run EXCEPT !.attempts = s, !.step = step]
      BY <1>1, <1>2 DEF Begun, Runs
    <2>3. step \in Nat
      BY <1>1 DEF Runs
    <2> HIDE DEF e, step
    <2>4. /\ s \in Seq(Attempt) /\ Len(s) = n /\ s[n] = e
          /\ \A k \in 1 .. Len(run.attempts) : s[k] = run.attempts[k]
      BY <1>1, <2>1
    <2>5. /\ Begun(a) \in Runs /\ Begun(a).attempts = s /\ Begun(a).pending = run.pending
          /\ Begun(a).retrieved = run.retrieved /\ Begun(a).limits = run.limits /\ Begun(a).asks = run.asks
          /\ Begun(a).state = run.state /\ Begun(a).resume = run.resume
          /\ Begun(a).unpublished = run.unpublished /\ Begun(a).tasks = run.tasks
      <3> HIDE DEF s
      <3>1. run \in Runs
        BY <1>1
      <3>2. [run EXCEPT !.attempts = s, !.step = step] \in Runs
        BY ONLY <2>3, <2>4, <3>1 DEF Runs
      <3> QED BY ONLY <2>2, <3>1, <3>2 DEF Runs
    <2>6. \A k \in Asked(run) : k # j.after
      BY <1>1, <1>2 DEF Asked
    <2> HIDE DEF s
    <2> QED BY <1>1, <1>2, <2>1, <2>4, <2>5, <2>6 DEF Adds, Asked
  <1>3. CASE j.after # 0
    <2> DEFINE old == [run.attempts[j.after] EXCEPT !.next = n]
               t == [run.attempts EXCEPT ![j.after] = old]
               s == Append(t, again)
               p == run.pending \ {j.after}
    <2>1. run.attempts[j.after] \in Attempt /\ j.after \in Asked(run) /\ j.after \in Nat
      BY <1>1, <1>3 DEF Asked
    <2>2. /\ again \in Attempt /\ again.kind = j.kind /\ again.req = j.req /\ again.by = a /\ again.st = "started"
          /\ (again.held <=> j.kind # "model") /\ again.number = run.attempts[j.after].number + 1
      <3> DEFINE m == run.attempts[j.after].number + 1
      <3>1. m \in Nat
        BY <2>1 DEF Attempt
      <3> HIDE DEF m
      <3> QED BY <1>1, <2>1, <3>1 DEF New, Attempt, AttemptStates, Codes, m
    <2>3. n \in Nat /\ p \in SUBSET Nat /\ p \subseteq run.pending
      BY <1>1 DEF Runs
    <2>4. Begun(a) = [run EXCEPT !.attempts = s, !.pending = p]
      BY <1>1, <1>3, <2>1 DEF Begun, Runs
    <2> HIDE DEF again, n, p
    <2>9. /\ old \in Attempt /\ old.kind = run.attempts[j.after].kind /\ old.req = run.attempts[j.after].req
          /\ old.by = run.attempts[j.after].by /\ old.st = run.attempts[j.after].st
          /\ old.number = run.attempts[j.after].number /\ old.code = run.attempts[j.after].code
          /\ old.held = run.attempts[j.after].held /\ old.next = n
      BY <2>1, <2>3 DEF Attempt
    <2> HIDE DEF old
    <2>5. /\ t \in Seq(Attempt) /\ Len(t) = Len(run.attempts)
          /\ \A k \in 1 .. Len(run.attempts) : t[k] = IF k = j.after THEN old ELSE run.attempts[k]
      <3>1. run.attempts \in Seq(Attempt) /\ old \in Attempt
        BY <1>1, <2>9
      <3>2. ASSUME NEW l PROVE [run.attempts EXCEPT ![l] = old] \in Seq(Attempt)
        BY <3>1, Replaced
      <3>3. t \in Seq(Attempt)
        BY <3>2
      <3>4. Len(t) = Len(run.attempts)
        BY <3>1, Replaced
      <3>5. \A k \in 1 .. Len(run.attempts) : t[k] = IF k = j.after THEN old ELSE run.attempts[k]
        BY <3>1, Replaced
      <3> QED BY <3>3, <3>4, <3>5
    <2> HIDE DEF t
    <2>6. /\ s \in Seq(Attempt) /\ Len(s) = n /\ s[n] = again
          /\ \A k \in 1 .. Len(run.attempts) : s[k] = IF k = j.after THEN old ELSE run.attempts[k]
      BY <1>1, <2>2, <2>5 DEF n
    <2> HIDE DEF s
    <2>7. /\ Begun(a) \in Runs /\ Begun(a).attempts = s /\ Begun(a).pending = p
          /\ Begun(a).retrieved = run.retrieved /\ Begun(a).limits = run.limits /\ Begun(a).asks = run.asks
          /\ Begun(a).state = run.state /\ Begun(a).resume = run.resume
          /\ Begun(a).unpublished = run.unpublished /\ Begun(a).tasks = run.tasks
      <3>1. run \in Runs
        BY <1>1
      <3>2. [run EXCEPT !.attempts = s, !.pending = p] \in Runs
        BY ONLY <2>3, <2>6, <3>1 DEF Runs
      <3> QED BY ONLY <2>4, <3>1, <3>2 DEF Runs
    <2>8. \A k \in Asked(run) :
             /\ s[k].kind = run.attempts[k].kind /\ s[k].req = run.attempts[k].req
             /\ s[k].by = run.attempts[k].by /\ s[k].st = run.attempts[k].st
             /\ s[k].number = run.attempts[k].number /\ s[k].code = run.attempts[k].code
             /\ (s[k].held <=> run.attempts[k].held)
             /\ s[k].next = IF k = j.after THEN n ELSE run.attempts[k].next
      BY <2>6, <2>9 DEF Asked
    <2> QED BY <1>1, <1>3, <2>2, <2>3, <2>6, <2>7, <2>8 DEF Adds, n
  <1> QED BY <1>2, <1>3

LEMMA BegunSound ==
  ASSUME IInv, NEW a \in Actor, th[a].pc = "begin", Verdict(a) = "go"
  PROVE  Sound(Begun(a))
  <1>0. PICK s : s = Begun(a) /\ Adds(a, s)
    BY BegunAdds
  <1>0a. PICK n : n = Len(run.attempts) + 1
    OBVIOUS
  <1>1. /\ run \in Runs /\ s \in Runs /\ Len(run.attempts) \in Nat /\ Sound(run) /\ Fits(a, th[a], run)
        /\ Asked(run) = 1 .. Len(run.attempts) /\ Asked(s) = Asked(run) \cup {n} /\ n \notin Asked(run) /\ n \in Nat
        /\ \A k \in Asked(run) : run.attempts[k] \in Attempt
    <2>1. run \in Runs /\ Sound(run) /\ Fits(a, th[a], run) /\ s \in Runs /\ Len(s.attempts) = n
      BY <1>0, <1>0a DEF IInv, AllFit, Sound, Adds
    <2>2. Len(run.attempts) \in Nat /\ \A k \in Asked(run) : run.attempts[k] \in Attempt
      BY <2>1, AttemptSets
    <2> QED BY <1>0a, <2>1, <2>2 DEF Asked
  <1>2. /\ s.attempts[n].kind = th[a].kind /\ s.attempts[n].req = th[a].req /\ s.attempts[n].by = a
        /\ s.attempts[n].st = "started" /\ (s.attempts[n].held <=> th[a].kind # "model")
        /\ s.attempts[n].number = IF th[a].after = 0 THEN 1 ELSE run.attempts[th[a].after].number + 1
        /\ s.pending \subseteq run.pending /\ s.retrieved = run.retrieved /\ s.limits = run.limits /\ s.asks = run.asks
    BY <1>0, <1>0a DEF Adds
  <1>3. \A k \in Asked(run) :
             /\ s.attempts[k].kind = run.attempts[k].kind /\ s.attempts[k].req = run.attempts[k].req
             /\ s.attempts[k].st = run.attempts[k].st
             /\ s.attempts[k].number = run.attempts[k].number /\ s.attempts[k].code = run.attempts[k].code
             /\ (s.attempts[k].held <=> run.attempts[k].held)
             /\ s.attempts[k].next = IF k = th[a].after THEN n ELSE run.attempts[k].next
    BY <1>0, <1>0a DEF Adds
  <1>4. /\ th[a].kind \in Kinds /\ (IF th[a].kind = "model" THEN th[a].req = None ELSE th[a].req \in Request)
        /\ th[a].after # 0 => /\ th[a].after \in Asked(run) /\ run.attempts[th[a].after].req = th[a].req
                              /\ th[a].kind # "model"
    BY <1>1 DEF Fits, Kinds
  <1>5. Kindly(s)
    <2>1. ASSUME NEW k \in Asked(s)
          PROVE  /\ s.attempts[k].kind = "model" <=> s.attempts[k].req = None
                 /\ s.attempts[k].held => s.attempts[k].kind # "model"
                 /\ s.attempts[k].number <= MaxRetries + 1
      <3>1. CASE k \in Asked(run)
        BY <1>1, <1>3, <3>1 DEF Sound, Kindly
      <3>2. CASE k = n
        <4>1. /\ s.attempts[k].kind = "model" <=> s.attempts[k].req = None
              /\ s.attempts[k].held => s.attempts[k].kind # "model"
          BY <1>2, <1>4, <3>2, ResearchAssumption
        <4>2. CASE th[a].after = 0
          BY <1>2, <3>2, <4>2, <4>1, ResearchAssumption
        <4>3. CASE th[a].after # 0
          <5>1. run.attempts[th[a].after].number \in Nat
            BY <1>1, <1>4, <4>3 DEF Attempt
          <5>2. run.attempts[th[a].after].number <= MaxRetries
            BY <4>3, VerdictGo
          <5>3. s.attempts[k].number = run.attempts[th[a].after].number + 1 /\ MaxRetries \in Nat
            BY <1>2, <3>2, <4>3, ResearchAssumption
          <5>4. s.attempts[k].number <= MaxRetries + 1
            BY <5>1, <5>2, <5>3
          <5> QED BY <4>1, <5>4
        <4> QED BY <4>2, <4>3
      <3> QED BY <1>1, <3>1, <3>2
    <2> QED BY <2>1 DEF Kindly
  <1>6. Chained(s)
    <2>1. ASSUME NEW k \in Asked(s), NEW l \in Asked(s), k < l, s.attempts[k].req # None,
                 s.attempts[k].req = s.attempts[l].req
          PROVE  /\ s.attempts[k].next # 0 /\ s.attempts[k].st = "uncertain"
                 /\ Retryable(s.attempts[k]) /\ s.attempts[k].number < s.attempts[l].number
      <3>0. k \in Asked(run) /\ n # 0
        BY <1>0a, <1>1, <2>1
      <3>1. CASE l \in Asked(run)
        <4>1. /\ run.attempts[k].next # 0 /\ run.attempts[k].st = "uncertain"
              /\ Retryable(run.attempts[k]) /\ run.attempts[k].number < run.attempts[l].number
          BY <1>1, <1>3, <2>1, <3>0, <3>1 DEF Sound, Chained
        <4> QED BY <1>3, <3>0, <3>1, <4>1 DEF Retryable
      <3>2. CASE l = n
        <4>1. run.attempts[k].req = th[a].req /\ th[a].req # None
          BY <1>2, <1>3, <2>1, <3>0, <3>2
        <4>2. th[a].after # 0
          <5>1. k \in Prior(run, th[a].req)
            BY <1>1, <3>0, <4>1 DEF Prior, Of, Asked, Sound
          <5> QED BY <1>4, <4>1, <5>1, VerdictGo
        <4> DEFINE last == run.attempts[th[a].after]
        <4>3. /\ last.st = "uncertain" /\ last.next = 0 /\ Retryable(last) /\ last.number \in Nat
              /\ last.req = th[a].req /\ th[a].after \in Asked(run)
              /\ s.attempts[l].number = last.number + 1
          BY <1>1, <1>2, <1>4, <3>2, <4>2, VerdictGo DEF Attempt
        <4>4. CASE k = th[a].after
          BY <1>3, <3>0, <4>3, <4>4 DEF Retryable
        <4>5. CASE k # th[a].after
          <5>1. ~(th[a].after < k)
            BY <1>1, <3>0, <4>1, <4>3 DEF Sound, Chained
          <5>2. k < th[a].after
            BY <1>1, <3>0, <4>3, <4>5, <5>1
          <5>3. /\ run.attempts[k].next # 0 /\ run.attempts[k].st = "uncertain"
                /\ Retryable(run.attempts[k]) /\ run.attempts[k].number < last.number
            BY <1>1, <3>0, <4>1, <4>3, <5>2 DEF Sound, Chained
          <5>4. run.attempts[k].number \in Nat
            BY <1>1, <3>0 DEF Attempt
          <5>5. s.attempts[k].number < s.attempts[l].number
            BY <1>3, <3>0, <4>3, <5>3, <5>4
          <5> QED BY <1>3, <3>0, <4>5, <5>3, <5>5 DEF Retryable
        <4> QED BY <4>4, <4>5
      <3> QED BY <1>1, <3>1, <3>2
    <2> QED BY <2>1 DEF Chained
  <1>7. Bounded(s)
    <2>1. s.retrieved + Reserved(s) <= Room
      <3> DEFINE H == {k \in Asked(run) : run.attempts[k].held}
                 G == {k \in Asked(s) : s.attempts[k].held}
      <3>1. /\ Reserved(run) = Allowance * Cardinality(H) /\ Reserved(s) = Allowance * Cardinality(G)
            /\ IsFiniteSet(H) /\ Cardinality(H) \in Nat /\ Reserved(run) \in Nat
        BY <1>1, AttemptSets, OwedSize
      <3>2. CASE th[a].kind = "model"
        <4>1. G = H
          BY <1>1, <1>2, <1>3, <3>2
        <4>2. Reserved(s) = Reserved(run)
          BY <3>1, <4>1
        <4> QED BY <1>1, <1>2, <4>2 DEF Sound, Bounded
      <3>3. CASE th[a].kind # "model"
        <4>1. G = H \cup {n} /\ n \notin H
          BY <1>1, <1>2, <1>3, <3>3
        <4> HIDE DEF G, H
        <4>2. Cardinality(G) = Cardinality(H) + 1
          BY <3>1, <4>1, FS_AddElement
        <4> DEFINE c == Cardinality(H)
        <4>3. c \in Nat /\ Cardinality(G) = c + 1 /\ Reserved(run) = Allowance * c
          BY <3>1, <4>2
        <4> HIDE DEF c
        <4>4. Allowance * (c + 1) = Allowance * c + Allowance
          BY <4>3, Times, ResearchAssumption
        <4>5. Reserved(s) = Reserved(run) + Allowance
          BY <3>1, <4>3, <4>4
        <4>6. run.retrieved + Reserved(run) + Allowance <= Room
          BY <3>3, VerdictGo DEF HasRoom
        <4>7. run.retrieved \in Nat /\ Room \in Nat /\ Allowance \in Nat
          BY <1>1, ResearchAssumption DEF Runs
        <4> QED BY <1>2, <3>1, <4>5, <4>6, <4>7
      <3> QED BY <3>2, <3>3
    <2>2. ASSUME NEW kind \in Kinds PROVE Admitted(s, kind) <= s.limits[kind]
      <3> DEFINE T == {k \in Asked(run) : run.attempts[k].kind = kind /\ run.attempts[k].st # "not-started"}
                 S == {k \in Asked(s) : s.attempts[k].kind = kind /\ s.attempts[k].st # "not-started"}
      <3>1. Admitted(run, kind) = Cardinality(T) /\ Admitted(s, kind) = Cardinality(S) /\ T \subseteq Asked(run)
        BY <1>1, AdmittedSet
      <3>2. IF th[a].kind = kind THEN S = T \cup {n} /\ n \notin T ELSE S = T
        <4>1. \A k \in Asked(run) : k \in S <=> k \in T
          BY <1>1, <1>3
        <4>2. n \in S <=> th[a].kind = kind
          BY <1>1, <1>2
        <4>3. S \subseteq Asked(run) \cup {n} /\ T \subseteq Asked(run) /\ n \notin T
          BY <1>1
        <4> HIDE DEF S, T
        <4>4. CASE th[a].kind = kind
          <5>1. S = T \cup {n}
            BY <1>1, <4>1, <4>2, <4>3, <4>4
          <5> QED BY <4>3, <4>4, <5>1
        <4>5. CASE th[a].kind # kind
          <5>1. S = T
            BY <1>1, <4>1, <4>2, <4>3, <4>5
          <5> QED BY <4>5, <5>1
        <4> QED BY <4>4, <4>5
      <3> HIDE DEF S, T
      <3>3. IsFiniteSet(T) /\ Cardinality(T) \in Nat
        BY <1>1, <3>1, AttemptSets
      <3>4. run.limits[kind] \in Nat /\ Cardinality(T) <= run.limits[kind]
        BY <1>1, <3>1 DEF Sound, Bounded, Runs, Limits
      <3>5. CASE th[a].kind = kind
        <4>1. Cardinality(S) = Cardinality(T) + 1
          BY <3>2, <3>3, <3>5, FS_AddElement
        <4>2. Cardinality(T) < run.limits[kind]
          BY <3>1, <3>5, VerdictGo DEF HasBudget
        <4> QED BY <1>2, <3>1, <3>3, <3>4, <4>1, <4>2
      <3>6. CASE th[a].kind # kind
        BY <1>2, <3>1, <3>2, <3>4, <3>6
      <3> QED BY <3>5, <3>6
    <2>3. s.asks # None => \A k \in Kinds : s.limits[k] <= s.asks[k]
      BY <1>1, <1>2 DEF Sound, Bounded
    <2> QED BY <2>1, <2>2, <2>3 DEF Bounded
  <1> QED BY <1>0, <1>1, <1>2, <1>5, <1>6, <1>7 DEF Sound

\* The attempt is saved, and the actor goes on to make it or, where the write
\* failed after all, leaves it.
LEMMA AdmitStep ==
  ASSUME IInv, NEW a \in Actor, th[a].pc = "begin", Verdict(a) = "go", run' = Begun(a), Frame,
         faults' \in {faults, faults + 1}, NEW j \in Jobs, th' = [th EXCEPT ![a] = j],
         \/ /\ j.pc = "call" /\ j.at = Len(run.attempts) + 1 /\ j.after = th[a].after
            /\ j.kind = th[a].kind /\ j.req = th[a].req /\ j.size = th[a].size
         \/ /\ j.pc \notin AtWork \cup Ahead \cup {"recover"}
            /\ a = Main => j.pc \notin {"stepping", "act", "rejecting"}
            /\ Fits(a, j, run)
            /\ th[a].kind # "model" =>
                 IF a = Main THEN j.pc \in {"finish", "dropping"} /\ j.res = (IF j.pc = "finish" THEN "interrupted" ELSE "error")
                 ELSE faults' = faults + 1
  PROVE  IInv'
  <1>0. PICK i : i = Len(run.attempts) + 1
    OBVIOUS
  <1>1. /\ run \in Runs /\ run' \in Runs /\ Len(run.attempts) \in Nat /\ Sound(run') /\ Adds(a, run')
        /\ Fits(a, th[a], run) /\ th \in [Actor -> Jobs] /\ Len(run'.attempts) = i
        /\ Asked(run) = 1 .. Len(run.attempts) /\ Asked(run') = Asked(run) \cup {i} /\ i \notin Asked(run)
        /\ i \in Nat \ {0} /\ (a = Main \/ a \in Task) /\ Main \notin Task
    <2>1. run \in Runs /\ Sound(run') /\ Adds(a, run') /\ Fits(a, th[a], run) /\ th \in [Actor -> Jobs]
      BY BegunAdds, BegunSound DEF IInv, AllFit, Sound
    <2>2. run' \in Runs /\ Len(run.attempts) \in Nat /\ Len(run'.attempts) = i
      <3>1. run' \in Runs /\ Len(run'.attempts) = i
        BY <1>0, <2>1 DEF Adds, Sound
      <3> QED BY <2>1, <3>1, AttemptSets
    <2>3. /\ Asked(run) = 1 .. Len(run.attempts) /\ Asked(run') = Asked(run) \cup {i}
          /\ i \notin Asked(run) /\ i \in Nat \ {0}
      BY ONLY <1>0, <2>2 DEF Asked
    <2>4. (a = Main \/ a \in Task) /\ Main \notin Task
      BY ResearchAssumption DEF Actor
    <2> QED BY <2>1, <2>2, <2>3, <2>4
  <1>2. /\ run'.attempts[i].kind = th[a].kind /\ run'.attempts[i].req = th[a].req /\ run'.attempts[i].by = a
        /\ run'.attempts[i].st = "started" /\ (run'.attempts[i].held <=> th[a].kind # "model")
        /\ \A k \in Asked(run) :
             /\ run'.attempts[k].kind = run.attempts[k].kind /\ run'.attempts[k].req = run.attempts[k].req
             /\ run'.attempts[k].by = run.attempts[k].by /\ run'.attempts[k].st = run.attempts[k].st
             /\ (run'.attempts[k].held <=> run.attempts[k].held)
        /\ run'.retrieved = run.retrieved
    BY <1>0, <1>1 DEF Adds
  <1>3. Grows(a, i)
    <2>1. \A k \in Asked(run) : run'.attempts[k].held = run.attempts[k].held
      <3>1. \A k \in Asked(run) : run'.attempts[k] \in Attempt /\ run.attempts[k] \in Attempt
        BY <1>1, AttemptSets
      <3> QED BY <1>2, <3>1 DEF Attempt
    <2>2. Len(run.attempts) <= Len(run'.attempts)
      BY <1>0, <1>1
    <2> QED BY <1>1, <1>2, <2>1, <2>2 DEF Grows, Adds
  <1>4. FromFlight(a, i) /\ Steady
    BY DEF FromFlight, Steady, Frame
  <1>5. th'[a] = j /\ \A b \in Actor : b # a => th'[b] = th[b] /\ th[b].at # i
    <2>1. \A b \in Actor : b # a /\ th[b].at # 0 => th[b].at # i
      BY <1>3, Alone
    <2> QED BY <1>1, <2>1
  <1>6. j.pc \notin Ahead \cup {"recover"} /\ (Waits(j) => j.at = i)
    BY <1>0 DEF Ahead, Waits, AtWork
  <1>7. KeptCounted'
    <2>1. kept \in Nat /\ Owes(run', th', i) \in Nat /\ run.retrieved \in Nat /\ kept' = kept
      BY <1>1, ResearchAssumption DEF IInv, KeptCounted, Owes, Runs, Frame
    <2>2. Owes(run, th, i) = 0
      BY <1>1 DEF Owes, Owed
    <2>3. kept' + Owes(run, th, i) + run.retrieved <= kept + run'.retrieved + Owes(run', th', i)
      BY <1>2, <2>1, <2>2
    <2> QED BY <1>3, <1>4, <1>6, <2>1, <2>3, KeptStep
  <1>8. SentAreSaved'
    <2>1. sent' = sent /\ sent \subseteq Asked(run) /\ i \notin sent
      BY <1>1 DEF IInv, SentAreSaved, Frame
    <2>2. \A k \in sent' : k \in Asked(run') /\ run'.attempts[k].st \notin {"waiting", "not-started"}
      BY <1>1, <1>2, <2>1 DEF IInv, SentAreSaved
    <2>3. ASSUME NEW b \in Actor, th'[b].pc = "call" PROVE th'[b].at \notin sent'
      BY <1>0, <1>5, <2>1, <2>3 DEF IInv, SentAreSaved, AtWork
    <2> QED BY <2>2, <2>3 DEF SentAreSaved
  <1>9. CASE /\ j.pc = "call" /\ j.at = i /\ j.after = th[a].after
             /\ j.kind = th[a].kind /\ j.req = th[a].req /\ j.size = th[a].size
    <2>1. Fits(a, j, run')
      <3>1. th[a].after # 0 => th[a].after \in Asked(run) /\ run.attempts[th[a].after].kind = th[a].kind
                               /\ run.attempts[th[a].after].req = th[a].req
        BY <1>1 DEF Fits
      <3>2. {j.at, j.after} \subseteq 0 .. Len(run'.attempts)
        BY <1>1, <1>9, <3>1
      <3>3. /\ j.size = 0
            /\ IF j.kind = "model" THEN j.req = None ELSE j.kind \in Kinds /\ j.req \in Request
        BY <1>1, <1>9 DEF Fits
      <3> QED BY <1>1, <1>2, <1>9, <3>1, <3>2, <3>3 DEF Fits, AtWork
    <2>2. LastIsTheAIs(j, run')
      BY <1>1, <1>9 DEF LastIsTheAIs
    <2>3. run'.attempts[i].held => Broken' \/ HeldBy(i)'
      BY <1>5, <1>9 DEF HeldBy
    <2> QED BY <1>3, <1>4, <1>6, <1>7, <1>8, <2>1, <2>2, <2>3, FlyStep
  <1>10. CASE /\ j.pc \notin AtWork \cup Ahead \cup {"recover"}
              /\ a = Main => j.pc \notin {"stepping", "act", "rejecting"}
              /\ Fits(a, j, run)
              /\ th[a].kind # "model" =>
                   IF a = Main THEN j.pc \in {"finish", "dropping"} /\ j.res = (IF j.pc = "finish" THEN "interrupted" ELSE "error")
                   ELSE faults' = faults + 1
    <2>1. Fits(a, j, run')
      BY <1>1, <1>3, <1>10, FitsBeside DEF Grows
    <2>2. a = Main => LastIsTheAIs(j, run')
      BY <1>10 DEF LastIsTheAIs
    <2>3. run'.attempts[i].held => Broken' \/ HeldBy(i)'
      <3> SUFFICES ASSUME run'.attempts[i].held PROVE Broken' \/ HeldBy(i)'
        OBVIOUS
      <3>1. th[a].kind # "model"
        BY <1>2
      <3>2. CASE a = Main
        <4>1. run'.state = "running"
          <5>1. run.state = "running"
            BY VerdictGo
          <5> QED BY <1>3, <5>1 DEF Grows
        <4> QED BY <1>2, <1>5, <1>10, <3>1, <3>2, <4>1 DEF Broken, HeldBy
      <3>3. CASE a \in Task
        <4>1. faults' = faults + 1 /\ faults \in Nat
          BY <1>1, <1>10, <3>1, <3>3 DEF IInv, InOrder
        <4> QED BY <1>2, <3>3, <4>1 DEF HeldBy, LeftOfALateTask
      <3> QED BY <1>1, <3>2, <3>3
    <2> QED BY <1>3, <1>4, <1>6, <1>7, <1>8, <2>1, <2>2, <2>3, FlyStep
  <1> QED BY <1>0, <1>9, <1>10

LEMMA BeginsKeeps ==
  ASSUME IInv, NEW a \in Actor, Begins(a)
  PROVE  IInv'
  <1> DEFINE v == Verdict(a)
             refused(why) == IF th[a].after = 0 THEN Returned(a, why) ELSE With(a, "dropping", why)
             n == Len(run.attempts) + 1
             ok == [th EXCEPT ![a].pc = "call", ![a].at = n]
  <1>1. /\ th[a].pc = "begin" /\ Frame
        /\ IF v = "go" THEN Commit(Begun(a), ok, refused("error")) ELSE Moves(refused(v))
    BY DEF Begins
  <1>2. /\ th \in [Actor -> Jobs] /\ th[a] \in Jobs /\ Fits(a, th[a], run) /\ run \in Runs /\ Len(run.attempts) \in Nat
    BY AttemptSets DEF IInv, AllFit, Sound
  <1>3. (v \in Results /\ (v = "ok" => th[a].kind # "model")) \/ v = "go"
    <2>1. v \in {"go", "stopped", "allowance", "limit", "ok", "gap", "duplicate", "error"} /\ (v = "ok" => th[a].kind # "model")
      BY VerdictType
    <2> QED BY <2>1 DEF Results
  <1>4. CASE v # "go"
    <2>1. Beside /\ th' = refused(v)
      BY <1>1, <1>4, Moved
    <2> QED BY <1>1, <1>3, <1>4, <2>1, RefusedKeeps
  <1>5. CASE v = "go" /\ run' = run /\ th' = refused("error") /\ faults' = faults + 1
    <2>1. Beside
      BY <1>1, <1>5, SameRun DEF Beside, Frame
    <2>2. "error" \in Results
      BY DEF Results
    <2> QED BY <1>1, <1>5, <2>1, <2>2, RefusedKeeps
  <1>6. CASE v = "go" /\ run' = Begun(a) /\ th' = ok /\ faults' = faults
    <2> DEFINE j == [th[a] EXCEPT !.pc = "call", !.at = n]
    <2>0. n \in Nat
      BY <1>2
    <2> HIDE DEF n
    <2>1. n \in Nat /\ th' = [th EXCEPT ![a] = j]
      BY <1>2, <1>6, <2>0
    <2>2. /\ j \in Jobs /\ j.pc = "call" /\ j.at = n /\ j.after = th[a].after
          /\ j.kind = th[a].kind /\ j.req = th[a].req /\ j.size = th[a].size
      BY <1>2, <2>1 DEF Jobs, Pcs
    <2> HIDE DEF j, ok, refused
    <2> QED BY <1>1, <1>6, <2>1, <2>2, AdmitStep DEF n
  <1>7. CASE v = "go" /\ run' = Begun(a) /\ th' = refused("error") /\ faults' = faults + 1
    <2>1. CASE th[a].after = 0
      <3>1. th[a].kind # "model" => Sourcing(th[a])
        BY <1>1, <1>2 DEF Fits, Sourcing, Kinds
      <3>2. "error" \in Results
        BY DEF Results
      <3>3. PICK j : /\ Returned(a, "error") = [th EXCEPT ![a] = j] /\ Rests(th[a], j)
                     /\ j.pc \in {"stepping", "act", "finish", "end", "retaining", "failing", "continuing", "finalizing"}
                     /\ j.pc = "stepping" => a = Main /\ "error" = "ok" /\ th[a].kind = "model"
                     /\ a = Main => j.pc # "act"
                     /\ a = Main /\ "error" \notin {"ok", "gap", "limit"} => j.pc = "finish" /\ j.res = "interrupted"
                     /\ a \in Task => j.pc # "finish"
        BY <1>2, <3>1, <3>2, ReturnedJob
      <3>4. th' = [th EXCEPT ![a] = j] /\ j \in Jobs /\ Fits(a, j, run)
        BY <1>2, <1>7, <2>1, <3>3, RestsFits DEF Rests
      <3>5. /\ j.pc \notin AtWork \cup Ahead \cup {"recover"}
            /\ a = Main => j.pc \notin {"stepping", "act", "rejecting"} /\ j.pc = "finish" /\ j.res = "interrupted"
        BY <3>3 DEF AtWork, Ahead
      <3> QED BY <1>1, <1>7, <3>4, <3>5, AdmitStep
    <2>2. CASE th[a].after # 0
      <3> DEFINE j == [th[a] EXCEPT !.pc = "dropping", !.res = "error"]
      <3>1. th' = [th EXCEPT ![a] = j]
        BY <1>7, <2>2 DEF With
      <3>2. /\ j \in Jobs /\ j.pc = "dropping" /\ j.res = "error" /\ j.after = th[a].after /\ j.at = th[a].at
            /\ j.kind = th[a].kind /\ j.req = th[a].req /\ j.size = th[a].size
        BY <1>2 DEF Jobs, Pcs, Results
      <3> HIDE DEF j
      <3>3. Fits(a, j, run)
        BY <1>1, <1>2, <2>2, <3>2 DEF Fits, AtWork, Sourcing, Kinds
      <3>4. /\ j.pc \notin AtWork \cup Ahead \cup {"recover", "stepping", "act", "rejecting"}
            /\ j.pc \in {"finish", "dropping"} /\ j.res = (IF j.pc = "finish" THEN "interrupted" ELSE "error")
        BY <3>2 DEF AtWork, Ahead
      <3> QED BY <1>1, <1>7, <3>1, <3>2, <3>3, <3>4, AdmitStep
    <2> QED BY <2>1, <2>2
  <1> QED BY <1>1, <1>4, <1>5, <1>6, <1>7 DEF Commit

-------------------------------------------------------------------------------
(* The invariant, of every execution.                                      *)

LEMMA InitKeeps ==
  ASSUME Init
  PROVE  IInv
  <1>1. /\ run = NewRun /\ lease = FALSE /\ th = [a \in Actor |-> Idle] /\ dead = FALSE /\ fatal = FALSE
        /\ late = {} /\ sent = {} /\ kept = 0 /\ faults = 0
    BY DEF Init
  <1>2. /\ run \in Runs /\ run.attempts = <<>> /\ run.state = "review" /\ run.pending = {} /\ run.retrieved = 0
        /\ run.limits = Reviewed /\ run.asks = None /\ run.resume = None /\ run.unpublished = FALSE
        /\ run.tasks = [t \in Task |-> "none"]
    <2>1. <<>> \in Seq(Attempt) /\ Reviewed \in Limits /\ {} \in SUBSET Nat /\ 0 \in Nat
      BY ResearchAssumption DEF Limits
    <2>2. [t \in Task |-> "none"] \in [Task -> {"none", "queued", "running", "settled"}]
      OBVIOUS
    <2> QED BY <1>1, <2>1, <2>2 DEF NewRun, Runs, States
  <1>3. Asked(run) = {} /\ Len(run.attempts) = 0
    BY <1>2 DEF Asked
  <1>4. \A S : S \subseteq Asked(run) => S = {} /\ Cardinality(S) = 0
    BY <1>3, FS_EmptySet
  <1>5. Sound(run)
    <2>1. \A k \in Kinds : Admitted(run, k) = 0
      <3> SUFFICES ASSUME NEW k \in Kinds PROVE Admitted(run, k) = 0
        OBVIOUS
      <3> DEFINE S == {i \in Asked(run) : run.attempts[i].kind = k /\ run.attempts[i].st # "not-started"}
      <3>1. S \subseteq Asked(run)
        OBVIOUS
      <3>2. Admitted(run, k) = Cardinality(S)
        BY <1>2, AdmittedSet
      <3> HIDE DEF S
      <3> QED BY <1>4, <3>1, <3>2
    <2>2. Reserved(run) = Allowance * 0
      <3> DEFINE S == {i \in Asked(run) : run.attempts[i].held}
      <3>1. S \subseteq Asked(run) /\ Reserved(run) = Allowance * Cardinality(S)
        BY <1>2, AttemptSets
      <3> HIDE DEF S
      <3> QED BY <1>4, <3>1
    <2>3. Allowance * 0 = 0 /\ \A k \in Kinds : run.limits[k] \in Nat
      BY <1>2, ResearchAssumption
    <2>4. Bounded(run)
      BY <1>2, <2>1, <2>2, <2>3, ResearchAssumption DEF Bounded
    <2> QED BY <1>2, <1>3, <2>4 DEF Sound, Chained, Kindly
  <1>6. \A a \in Actor : th[a] = Idle
    BY <1>1
  <1>7. Idle \in Jobs /\ Idle.pc = "idle" /\ Idle.at = 0 /\ Idle.after = 0
    BY DEF Idle, Jobs, Pcs, Results
  <1>8. AllFit
    <2>1. \A a \in Actor : Fits(a, th[a], run)
      BY <1>3, <1>6, <1>7 DEF Fits, AtWork
    <2>2. LastIsTheAIs(th[Main], run)
      BY <1>6, <1>7 DEF LastIsTheAIs, AtWork, Actor
    <2>3. th \in [Actor -> Jobs]
      BY <1>1, <1>7
    <2> QED BY <2>1, <2>2, <2>3 DEF AllFit
  <1>9. InOrder
    BY <1>1, <1>6, <1>7 DEF InOrder, Blank, Ahead, Actor
  <1>10. SentAreSaved
    BY <1>1, <1>3 DEF SentAreSaved
  <1>11. KeptCounted
    <2>1. Owed(run, th) \subseteq Asked(run)
      BY DEF Owed
    <2>2. Cardinality(Owed(run, th)) = 0
      BY <1>4, <2>1
    <2> QED BY <1>1, <1>2, <2>2, ResearchAssumption DEF KeptCounted
  <1>12. Clean
    BY <1>2, <1>3 DEF Clean
  <1> QED BY <1>5, <1>8, <1>9, <1>10, <1>11, <1>12 DEF IInv

LEMMA AttemptsKeep ==
  ASSUME IInv, NEW a \in Actor, Attempts(a)
  PROVE  IInv'
  BY BeginsKeeps, DropsKeeps, WaitsForAIKeeps, TakesAIKeeps, DispatchesKeeps, AnswersKeeps, SavesKeeps,
     DecidesKeeps, RetriesKeeps, RetainsKeeps, ContinuesKeeps DEF Attempts

LEMMA CoordinatesKeeps ==
  ASSUME IInv, Coordinates
  PROVE  IInv'
  BY RecoversKeeps, PublishesFirstKeeps, StartsKeeps, HeadsKeeps, ClaimsKeeps, AsksKeeps, StepsOnKeeps,
     FinalizesRunKeeps, ActsFinishKeeps, ActsNothingKeeps, RejectsKeeps, ActsRecordsKeeps,
     PublishesRecordsKeeps, ActsSourceKeeps, ActsDelegateKeeps, BatchEndsKeeps, FinishesRunKeeps,
     PublishesLastKeeps DEF Coordinates

LEMMA WorksKeeps ==
  ASSUME IInv, NEW t \in Task, Works(t)
  PROVE  IInv'
  BY StartsTaskKeeps, BeginsTaskKeeps, TakesTurnKeeps, LooksKeeps, FailsKeeps, ToldKeeps, ActsTaskKeeps,
     PublishesTaskKeeps, EndsTaskKeeps DEF Works

LEMMA NextKeeps ==
  ASSUME IInv, [Next]_vars
  PROVE  IInv'
  <1>1. dead \in BOOLEAN /\ late \subseteq Task
    BY DEF IInv, InOrder
  <1>2. CASE UNCHANGED vars
    BY <1>1, <1>2, TimeKeeps DEF vars
  <1>3. CASE StopSeen \/ TimeUp
    BY <1>1, <1>3, TimeKeeps DEF StopSeen, TimeUp, Cancels
  <1>4. ASSUME NEW t \in Task, TaskTimeUp(t) PROVE IInv'
    BY <1>1, <1>4, TimeKeeps DEF TaskTimeUp
  <1>5. CASE Scans \/ Coordinates \/ Crash
    BY <1>5, ScansKeeps, CoordinatesKeeps, CrashKeeps
  <1>6. CASE \E a \in Actor : Attempts(a)
    BY <1>6, AttemptsKeep
  <1>7. CASE \E t \in Task : Works(t)
    BY <1>7, WorksKeeps
  <1>8. CASE Confirm \/ Stop \/ ReviewBudget \/ Approve \/ Decline
    BY <1>8, ConfirmKeeps, StopKeeps, ReviewBudgetKeeps, ApproveKeeps, DeclineKeeps
  <1> QED BY <1>2, <1>3, <1>4, <1>5, <1>6, <1>7, <1>8 DEF Next

\* The journal, the worker's goroutines, what was sent and what is on disk
\* agree, whatever fails or is interrupted: the invariant of every execution.
THEOREM Inductive == Spec => []IInv
  <1>1. Init => IInv
    BY InitKeeps
  <1>2. IInv /\ [Next]_vars => IInv'
    BY NextKeeps
  <1> QED BY <1>1, <1>2, PTL DEF Spec

-------------------------------------------------------------------------------
(* What the runs check, of every execution.                                *)

LEMMA InvAskedOnce ==
  ASSUME IInv
  PROVE  AskedOnce
  <1>1. sent \subseteq Asked(run) /\ Chained(run) /\ Kindly(run)
    BY DEF IInv, SentAreSaved, Sound
  <1> QED BY <1>1 DEF AskedOnce, Chained, Kindly

LEMMA InvWithinApproval ==
  ASSUME IInv
  PROVE  WithinApproval
  <1>1. run \in Runs /\ sent \subseteq Asked(run) /\ \A i \in sent : run.attempts[i].st # "not-started"
    BY DEF IInv, SentAreSaved, Sound
  <1>2. ASSUME NEW k \in Kinds
        PROVE  Cardinality({i \in sent : run.attempts[i].kind = k}) <= run.limits[k]
    <2> DEFINE S == {i \in sent : run.attempts[i].kind = k}
               T == {i \in Asked(run) : run.attempts[i].kind = k /\ run.attempts[i].st # "not-started"}
    <2>1. S \subseteq T /\ T \subseteq Asked(run) /\ Admitted(run, k) = Cardinality(T)
      BY <1>1, AdmittedSet
    <2>2. Admitted(run, k) <= run.limits[k] /\ run.limits[k] \in Nat
      BY <1>1 DEF IInv, Sound, Bounded, Runs, Limits
    <2> HIDE DEF S, T
    <2>3. IsFiniteSet(T) /\ Cardinality(T) \in Nat
      BY <1>1, <2>1, AttemptSets
    <2>4. Cardinality(S) \in Nat /\ Cardinality(S) <= Cardinality(T)
      BY <2>1, <2>3, FS_Subset, FS_CardinalityType
    <2>5. Cardinality(S) <= run.limits[k]
      BY <2>1, <2>2, <2>3, <2>4
    <2> QED BY <2>5 DEF S
  <1> QED BY <1>1, <1>2 DEF WithinApproval

LEMMA InvResumesClean ==
  ASSUME IInv
  PROVE  ResumesClean
  <1> SUFFICES ASSUME run.state \in {"review", "queued", "paused"}
               PROVE  /\ run.pending = {} /\ run.resume = None /\ ~run.unpublished
                      /\ \A i \in DOMAIN run.attempts : run.attempts[i].held => LeftOfALateTask(i)
                      /\ \A t \in Task : run.tasks[t] # "running"
    BY DEF ResumesClean
  <1>1. ~Broken /\ ~Unpublishing
    BY DEF Broken, Unpublishing
  <1>2. th[Main].pc \in Ahead /\ Main \in Actor
    BY DEF IInv, InOrder, Actor
  <1>3. \A t \in Task : th[t].pc = "idle"
    BY <1>2 DEF IInv, InOrder, Ahead
  <1>4. \A a \in Actor : th[a].pc \notin {"call", "out", "answered", "dropping"}
    BY <1>2, <1>3 DEF Ahead, Actor
  <1>5. ASSUME NEW i \in DOMAIN run.attempts, run.attempts[i].held
        PROVE  LeftOfALateTask(i)
    <2>1. i \in Asked(run)
      BY AttemptSets DEF IInv, Sound
    <2>2. HeldBy(i)
      BY <1>1, <1>5, <2>1 DEF IInv, Clean
    <2> QED BY <1>2, <1>4, <2>2 DEF HeldBy
  <1> QED BY <1>1, <1>3, <1>5 DEF IInv, Clean

LEMMA InvTypeOK ==
  ASSUME IInv
  PROVE  TypeOK
  <1>1. /\ run \in Runs /\ DOMAIN run.attempts = Asked(run) /\ \A i \in Asked(run) : run.attempts[i] \in Attempt
    BY AttemptSets DEF IInv, Sound
  <1>2. \A i \in DOMAIN run.attempts :
          /\ run.attempts[i].kind \in Kinds /\ run.attempts[i].by \in Actor
          /\ run.attempts[i].st \in {"started", "waiting", "completed", "refused", "uncertain", "not-started"}
    BY <1>1 DEF Attempt, AttemptStates
  <1>3. run.retrieved \in 0 .. Room
    <2>1. run.retrieved + Reserved(run) <= Room /\ Reserved(run) \in Nat /\ run.retrieved \in Nat /\ Room \in Nat
      BY <1>1, OwedSize, ResearchAssumption DEF IInv, Sound, Bounded, Runs
    <2> QED BY <2>1
  <1>4. run.state \in States /\ run.resume \in Settled \cup {None} /\ run.limits \in [Kinds -> Nat]
    BY <1>1 DEF Runs, Limits
  <1>5. run.pending \subseteq DOMAIN run.attempts /\ sent \subseteq DOMAIN run.attempts /\ {dead, fatal, lease} \subseteq BOOLEAN
    BY <1>1 DEF IInv, Sound, SentAreSaved, InOrder
  <1> QED BY <1>2, <1>3, <1>4, <1>5 DEF TypeOK

\* The journal is of its type, and a stored answer never takes a run past the
\* bytes it may retain.
THEOREM TypeCorrect == Spec => []TypeOK
  BY Inductive, InvTypeOK, PTL

\* No source is asked for twice (beginResearchAttempt), across tasks, crashes,
\* lost writes and increases: what was sent of one request is one request and
\* its saved retries, each after the one before it failed.
THEOREM NeverAskedTwice == Spec => []AskedOnce
  BY Inductive, InvAskedOnce, PTL

\* What reached the providers never exceeds what the owner approved
\* (researchRequestBudget), and an attempt that does not count because it was
\* never started reached none (recoverInputResearch).
THEOREM ApprovedOnly == Spec => []WithinApproval
  BY Inductive, InvWithinApproval, PTL

\* The answers on disk fit into the run's room (reserveResearchSource), those
\* the journal does not count because a write failed included.
THEOREM RoomIsEnough == Spec => []KeptWithinRoom
  <1>1. IInv => KeptWithinRoom
    BY ResearchAssumption DEF IInv, KeptCounted, KeptWithinRoom
  <1> QED BY <1>1, Inductive, PTL

\* A run that may go on takes nothing with it of an execution that is over
\* (recoverInputResearch, finish): no retry, task or publication, and of the
\* reservations only a late task's.
THEOREM NothingLeftOver == Spec => []ResumesClean
  BY Inductive, InvResumesClean, PTL

-------------------------------------------------------------------------------
(* A stop holds.                                                           *)

Halts(s) ==
    /\ Len(s.attempts) = Len(run.attempts) /\ s.stop
    /\ run.state \in Settled => s.state \in Settled
    /\ \A t \in Task : run.tasks[t] = "queued" => s.tasks[t] # "running"
\* Nothing of it that a stop is about changes.
Idles(s) == s.stop = run.stop /\ s.state = run.state /\ s.tasks = run.tasks /\ Len(s.attempts) = Len(run.attempts)

LEMMA HaltsSame ==
  ASSUME IInv, run.stop
  PROVE  /\ Halts(run) /\ \A s : Idles(s) => Halts(s)
         /\ \A s, ok, failed : Halts(s) /\ Commit(s, ok, failed) => Halts(run')
         /\ \A s, ok, failed : Idles(s) /\ Commit(s, ok, failed) => Halts(run')
         /\ \A s : Moves(s) => Halts(run')
         /\ \A s, pc : Halts(s) /\ OrQuits(s, pc) => Halts(run')
         /\ \A s, pc : Idles(s) /\ OrQuits(s, pc) => Halts(run')
  <1>1. Halts(run) /\ \A s : Idles(s) => Halts(s)
    BY DEF Halts, Idles
  <1>2. ASSUME NEW s, NEW ok, NEW failed, Commit(s, ok, failed) PROVE run' = run \/ run' = s
    BY <1>2 DEF Commit
  <1>3. ASSUME NEW s, NEW pc, OrQuits(s, pc) PROVE run' = run \/ run' = s
    BY <1>3 DEF OrQuits
  <1>4. ASSUME NEW s, Moves(s) PROVE run' = run
    BY <1>4 DEF Moves
  <1>5. ASSUME NEW s, Halts(s), run' = run \/ run' = s PROVE Halts(run')
    BY <1>1, <1>5
  <1> QED BY <1>1, <1>2, <1>3, <1>4, <1>5

LEMMA SameLength ==
  ASSUME run \in Runs, NEW i, NEW e
  PROVE  Len([run.attempts EXCEPT ![i] = e]) = Len(run.attempts)
  <1>1. run.attempts \in Seq(Attempt \cup {e}) /\ DOMAIN run.attempts = 1 .. Len(run.attempts)
    <2>1. run.attempts \in Seq(Attempt) /\ Len(run.attempts) \in Nat /\ DOMAIN run.attempts = 1 .. Len(run.attempts)
      BY AttemptSets DEF Asked
    <2> QED BY <2>1
  <1>2. CASE i \in 1 .. Len(run.attempts)
    BY <1>1, <1>2, ExceptSeq
  <1>3. CASE i \notin 1 .. Len(run.attempts)
    BY <1>1, <1>3
  <1> QED BY <1>2, <1>3

LEMMA RejectedIdles ==
  ASSUME IInv, NEW i
  PROVE  Idles(Rejected(i))
  <1> DEFINE e == [run.attempts[i] EXCEPT !.code = "rejected"]
             s == [run.attempts EXCEPT ![i] = e]
  <1>1. run \in Runs
    BY DEF IInv, Sound
  <1>2. Rejected(i) = [run EXCEPT !.attempts = s]
    BY <1>1 DEF Rejected, Runs
  <1> HIDE DEF e
  <1>3. Len(s) = Len(run.attempts)
    BY <1>1, SameLength
  <1> HIDE DEF s
  <1> QED BY <1>1, <1>2, <1>3 DEF Idles, Runs

LEMMA AttemptsHalt ==
  ASSUME IInv, run.stop, NEW a \in Actor, Attempts(a)
  PROVE  Halts(run')
  <1>1. run \in Runs
    BY DEF IInv, Sound
  <1>2. CASE Begins(a)
    <2>1. Verdict(a) # "go"
      BY VerdictGo
    <2> QED BY <1>2, <2>1, HaltsSame DEF Begins
  <1>3. CASE Drops(a)
    <2>1. \A S : Idles([run EXCEPT !.pending = S])
      BY <1>1 DEF Idles, Runs
    <2> QED BY <1>3, <2>1, HaltsSame DEF Drops
  <1>4. CASE WaitsForAI(a) \/ TakesAI(a)
    <2>1. ASSUME NEW st PROVE Idles(Sets(a, st))
      <3> DEFINE e == [run.attempts[th[a].at] EXCEPT !.st = st]
                 s == [run.attempts EXCEPT ![th[a].at] = e]
      <3>1. Sets(a, st) = [run EXCEPT !.attempts = s]
        BY <1>1 DEF Sets, Runs
      <3> HIDE DEF e
      <3>2. Len(s) = Len(run.attempts)
        BY <1>1, SameLength
      <3> HIDE DEF s
      <3> QED BY <1>1, <3>1, <3>2 DEF Idles, Runs
    <2> QED BY <1>4, <2>1, HaltsSame DEF WaitsForAI, TakesAI
  <1>5. CASE Dispatches(a) \/ Answers(a) \/ Retries(a)
    BY <1>5, HaltsSame DEF Dispatches, Answers, Retries
  <1>6. CASE Saves(a)
    <2> DEFINE old == run.attempts[th[a].at]
               st == CASE th[a].res = "ok" -> "completed"
                       [] th[a].res = "refused" -> "refused"
                       [] OTHER -> IF old.st = "waiting" THEN "not-started" ELSE "uncertain"
               code == IF th[a].res \in {"gap", "temporary", "limited"} THEN th[a].res ELSE old.code
               e == [old EXCEPT !.held = FALSE, !.st = st, !.code = code]
               n == run.retrieved + th[a].size
               w == [run.attempts EXCEPT ![th[a].at] = e]
    <2>0. Answered(a) = [run EXCEPT !.retrieved = n, !.attempts = w]
      BY <1>1 DEF Answered, Runs
    <2>2. Len(w) = Len(run.attempts)
      <3> HIDE DEF e
      <3> QED BY <1>1, SameLength
    <2> HIDE DEF w, n
    <2>1. Idles(Answered(a))
      BY <1>1, <2>0, <2>2 DEF Idles, Runs
    <2> QED BY <1>6, <2>1, HaltsSame DEF Saves
  <1>7. CASE Decides(a)
    <2>1. Idles([run EXCEPT !.pending = @ \cup {th[a].at}]) /\ Idles(run)
      BY <1>1 DEF Idles, Runs
    <2> QED BY <1>7, <2>1, HaltsSame DEF Decides
  <1>8. CASE Retains(a)
    <2>1. Idles(run)
      BY DEF Idles
    <2> QED BY <1>8, <2>1, HaltsSame DEF Retains
  <1>9. CASE Continues(a)
    <2>1. ASSUME NEW i PROVE Idles([run EXCEPT !.attempts[i].cont = TRUE])
      <3> DEFINE e == [run.attempts[i] EXCEPT !.cont = TRUE]
                 s == [run.attempts EXCEPT ![i] = e]
      <3>1. [run EXCEPT !.attempts[i].cont = TRUE] = [run EXCEPT !.attempts = s]
        BY <1>1 DEF Runs
      <3> HIDE DEF e
      <3>2. Len(s) = Len(run.attempts)
        BY <1>1, SameLength
      <3> HIDE DEF s
      <3> QED BY <1>1, <3>1, <3>2 DEF Idles, Runs
    <2> QED BY <1>9, <2>1, HaltsSame DEF Continues
  <1> QED BY <1>2, <1>3, <1>4, <1>5, <1>6, <1>7, <1>8, <1>9 DEF Attempts

LEMMA CoordinatesHalt ==
  ASSUME IInv, run.stop, Coordinates
  PROVE  Halts(run')
  <1>1. run \in Runs /\ Halts(run)
    BY HaltsSame DEF IInv, Sound
  <1>2. /\ \A x : Idles([run EXCEPT !.final = x])
        /\ \A x : Idles([run EXCEPT !.step = x])
        /\ \A i : Idles(Rejected(i))
        /\ \A x : Idles([run EXCEPT !.unpublished = TRUE, !.met = x])
    <2>1. \A i : Idles(Rejected(i))
      BY RejectedIdles
    <2> QED BY <1>1, <2>1 DEF Idles, Runs
  <1>3. Halts(Recovered) /\ Halts(Published) /\ Halts(Blocked)
    <2>1. Halts(Recovered)
      <3>1. Len(Recovered.attempts) = Len(run.attempts)
        BY <1>1, RecoveredSound, AttemptSets DEF Asked, Sound, IInv
      <3> QED BY <1>1, <3>1 DEF Halts, Recovered, Runs, Settled
    <2>2. Halts(Published)
      BY <1>1 DEF Halts, Published, Runs
    <2>3. Halts(Blocked)
      BY <1>1 DEF Halts, Blocked, Runs, Settled
    <2> QED BY <2>1, <2>2, <2>3
  <1>4. \A S : Halts(Queued(S))
    BY <1>1 DEF Halts, Queued, Runs
  <1>5. \A st \in Settled : Halts(Finished(st))
    BY <1>1 DEF Halts, Finished, Runs, Settled
  <1>6. CASE Recovers \/ PublishesFirst
    BY <1>3, <1>1, <1>6, HaltsSame DEF Recovers, PublishesFirst
  <1>7. CASE Starts \/ PublishesLast
    BY <1>1, <1>3, <1>7, HaltsSame DEF Starts, PublishesLast
  <1>8. CASE Heads \/ StepsOn \/ FinalizesRun \/ Asks
    BY <1>1, <1>2, <1>8, HaltsSame DEF Heads, StepsOn, FinalizesRun, Asks, Finishes
  <1>9. CASE Claims \/ ActsDelegate
    BY <1>1, <1>4, <1>9, HaltsSame DEF Claims, ActsDelegate
  <1>10. CASE ActsFinish \/ ActsNothing \/ ActsRecords \/ Rejects
    BY <1>1, <1>2, <1>10, HaltsSame DEF ActsFinish, ActsNothing, ActsRecords, Rejects, Finishes
  <1>11. CASE PublishesRecords
    BY <1>1, <1>3, <1>11, HaltsSame DEF PublishesRecords
  <1>12. CASE ActsSource
    BY <1>1, <1>2, <1>12, HaltsSame DEF ActsSource, Finishes
  <1>13. CASE BatchEnds
    <2> DEFINE left == [run EXCEPT !.tasks = [t \in Task |-> IF t \in QueuedTasks THEN "settled" ELSE @[t]]]
    <2>1. Halts(left)
      BY <1>1 DEF Halts, Runs, QueuedTasks
    <2>2. \E ok, failed : Commit(left, ok, failed)
      BY <1>13 DEF BatchEnds
    <2> HIDE DEF left
    <2> QED BY <2>1, <2>2, HaltsSame
  <1>14. CASE FinishesRun
    <2>1. th[Main].res \in Settled
      BY <1>14 DEF FinishesRun, IInv, AllFit, Fits, Actor
    <2> QED BY <1>5, <1>14, <2>1, HaltsSame DEF FinishesRun
  <1> QED BY <1>6, <1>7, <1>8, <1>9, <1>10, <1>11, <1>12, <1>13, <1>14 DEF Coordinates

LEMMA WorksHalt ==
  ASSUME IInv, run.stop, NEW t \in Task, Works(t)
  PROVE  Halts(run')
  <1>1. run \in Runs /\ Halts(run) /\ Idles(run)
    BY HaltsSame DEF IInv, Sound, Idles
  <1>2. CASE StartsTask(t) \/ BeginsTask(t) \/ TakesTurn(t) \/ Looks(t) \/ Fails(t)
    BY <1>2, HaltsSame DEF StartsTask, BeginsTask, TakesTurn, Looks, Fails
  <1>3. CASE Told(t)
    <2>1. \A i : Idles(Rejected(i))
      BY RejectedIdles
    <2> QED BY <1>3, <2>1, HaltsSame DEF Told
  <1>4. CASE ActsTask(t)
    <2>1. \A x : Idles([run EXCEPT !.unpublished = TRUE, !.met = x])
      BY <1>1 DEF Idles, Runs
    <2> QED BY <1>1, <1>4, <2>1, HaltsSame DEF ActsTask
  <1>5. CASE PublishesTask(t)
    <2>1. Halts(Published)
      BY <1>1 DEF Halts, Published, Runs
    <2> QED BY <1>5, <2>1, HaltsSame DEF PublishesTask
  <1>6. CASE EndsTask(t)
    <2>1. Halts([run EXCEPT !.tasks[t] = "settled"])
      BY <1>1 DEF Halts, Runs
    <2> QED BY <1>1, <1>6, <2>1 DEF EndsTask
  <1> QED BY <1>2, <1>3, <1>4, <1>5, <1>6 DEF Works

LEMMA OthersHalt ==
  ASSUME IInv, run.stop, \/ Scans \/ Confirm \/ Stop \/ ReviewBudget \/ Approve \/ Decline \/ StopSeen \/ TimeUp
                         \/ Crash \/ (\E t \in Task : TaskTimeUp(t)) \/ UNCHANGED vars
  PROVE  Halts(run')
  <1>1. run \in Runs /\ Halts(run) /\ (run.asks # None => run.state = "paused")
    BY HaltsSame DEF IInv, Sound, Clean
  <1>2. CASE Scans
    BY <1>2, HaltsSame DEF Scans
  <1>3. CASE StopSeen \/ TimeUp \/ Crash \/ (\E t \in Task : TaskTimeUp(t)) \/ UNCHANGED vars
    BY <1>1, <1>3 DEF StopSeen, TimeUp, Cancels, Crash, TaskTimeUp, vars
  <1>4. CASE Confirm
    BY <1>1, <1>4 DEF Confirm, Halts, Runs, Settled
  <1>5. CASE Stop
    BY <1>1, <1>5 DEF Stop, Halts, Runs, Settled
  <1>6. CASE ReviewBudget \/ Approve \/ Decline
    <2>1. Proposed(run) = None
      BY DEF Proposed
    <2> QED BY <1>6, <2>1 DEF ReviewBudget, Approve, Decline
  <1> QED BY <1>2, <1>3, <1>4, <1>5, <1>6

\* Once a stop is saved no request is admitted (beginResearchAttempt), no task
\* begins, and the run is never queued, paused or running again, whatever its
\* goroutines, a crash and the owner do.
THEOREM StopIsObeyed == Spec => StopHolds
  <1>1. IInv /\ [Next]_vars => [run.stop =>
          /\ Len(run'.attempts) = Len(run.attempts) /\ run'.stop
          /\ run.state \in Settled => run'.state \in Settled
          /\ \A t \in Task : run.tasks[t] = "queued" => run'.tasks[t] # "running"]_vars
    <2> SUFFICES ASSUME IInv, [Next]_vars, run.stop PROVE Halts(run')
      BY DEF Halts
    <2> QED BY AttemptsHalt, CoordinatesHalt, WorksHalt, OthersHalt DEF Next
  <1> QED BY <1>1, Inductive, PTL DEF Spec, StopHolds
===============================================================================
