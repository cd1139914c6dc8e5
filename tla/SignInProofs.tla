---------------------------- MODULE SignInProofs ----------------------------
(* Theorems about sessions, launch links and the sign-in policy, for every   *)
(* number of requests, sessions, links, attempts and owners.  Each part of   *)
(* the invariant says what one of the program's noted values is still worth  *)
(* when it is used.                                                          *)
EXTENDS SignIn, TLAPS

Changing(r) == pc[r] \in {"saving", "renewing", "enabling", "closing", "cancelling"}

\* policySourceMu has one holder.
OneChange == \A q, r \in Request : Changing(q) /\ Changing(r) => q = r

\* A process that is down has nothing but its record on the disk.
Down ==
    ~up => /\ active = None /\ problem = FALSE
           /\ \A r \in Request : pc[r] = "idle"
           /\ \A s \in Session : status[s] = "none"
           /\ \A t \in Attempt : attempt[t].at = "free"

\* What a request or an attempt noted of the counters is not ahead of them.
Behind ==
    /\ \A r \in Request : req[r].epoch <= epoch /\ req[r].generation <= generation
    /\ \A t \in Attempt : attempt[t].generation <= generation

\* A sign-in that was set is on the disk, and the process has read it.
Kept == (enforced => disk # None) /\ StaysRequired

\* An attempt of this generation is one under the policy in force, and one that
\* is finished has an owner.
Fitting ==
    \A t \in Attempt :
        /\ attempt[t].at # "free" /\ attempt[t].generation = generation =>
             attempt[t].rev = CurrentRev
        /\ attempt[t].at \in {"finished", "tested"} => attempt[t].owner # None

\* While no switch waits to close the sessions, the live ones are of the policy
\* in force, or plain ones of the setup, which no policy admits.
Minted ==
    (\A r \in Request : pc[r] # "closing") =>
        \A s \in Live : \/ session[s].rev = CurrentRev
                         \/ (session[s].kind = "plain" /\ session[s].issuer = None)

\* Who is changing the policy presented a session the policy admits.
Admins ==
    \A r \in Request : pc[r] \in {"saving", "renewing", "enabling"} =>
        /\ req[r].session # None
        /\ req[r].session \in Live => Allowed(session[req[r].session])

\* Who hashes a password does it for a record.
Hashing == \A r \in Request : pc[r] = "hashing" => req[r].policy # None

\* Work is bound to the session it presented, or that session is gone for good.
Bound ==
    \A r \in Request : pc[r] \in {"bound", "found", "working"} /\ req[r].session # None =>
        \/ req[r].bound = req[r].session
        \/ (pc[r] = "bound" /\ req[r].bound = None /\ req[r].session \notin Live)

\* Work was admitted under the policy that is in force as long as its epoch is.
AdmittedNow ==
    \A r \in Request : pc[r] = "working" /\ req[r].epoch = epoch =>
        IF req[r].session = None THEN ~SignInRequired ELSE Allowed(req[r].held)

IInv == /\ TypeOK /\ OneChange /\ Down /\ Behind /\ Kept /\ Fitting /\ Minted /\ Admins
        /\ Hashing /\ Bound /\ AdmittedNow /\ HandoffBuysOne

-----------------------------------------------------------------------------
(* The next-state relation by what its actions leave alone.                   *)

Asking ==
    \/ \E r \in Request : Launches(r)
    \/ \E r \in Request, links \in SUBSET Handoff : Exchanges(r, links)
    \/ \E r \in Request : Classifies(r)
    \/ \E r \in Request, a \in Session \cup {None} : Arrives(r, a)
    \/ \E r \in Request : Binds(r)
    \/ \E r \in Request : Finds(r)
    \/ \E r \in Request : Admitted(r)
    \/ \E r \in Request, s \in Session : SignsOut(r, s)
    \/ \E r \in Request : Ends(r)
    \/ \E r \in Request : LogsIn(r)
    \/ \E r \in Request, s \in Session : AsksToSave(r, s)
    \/ \E r \in Request, s \in Session : AsksToEnable(r, s)
    \/ \E r \in Request : Hashes(r)
    \/ \E r \in Request : AnswersChange(r)

Linking ==
    \/ \E r \in Request, h \in Handoff : IssuesHandoff(r, h)
    \/ \E h \in Handoff : Lapses(h)

Minting ==
    \/ \E r \in Request, s \in Session : Commits(r, s)
    \/ \E s \in Session : LocalBegins(s)
    \/ \E s \in Session : SetsUp(s)
    \/ \E r \in Request, s \in Session : LoggedIn(r, s)
    \/ \E t \in Attempt, s \in Session : CompletesSignIn(t, s)

Removing ==
    \/ \E r \in Request : Revokes(r)
    \/ \E s \in Session : Expires(s)
    \/ \E s \in Session : Cancels(s)
    \/ \E r \in Request : ClosesSessions(r)

Attempting ==
    \/ \E t \in Attempt, a \in Session \cup {None} : Starts(t, a)
    \/ \E t \in Attempt : Opens(t)
    \/ \E t \in Attempt : CallsBack(t)
    \/ \E t \in Attempt, o \in Owner : Answers(t, o)
    \/ \E t \in Attempt : CompletesTest(t)
    \/ \E t \in Attempt : AttemptEnds(t)

Switching ==
    \/ \E r \in Request : SavesPassword(r)
    \/ \E r \in Request, t \in Attempt : EnablesProvider(r, t)

Restarting ==
    \/ Stops
    \/ \E b \in BOOLEAN : StartsUp(b)
    \/ Resets

\* Every step is of one of these kinds.
LEMMA NextGroups ==
  ASSUME Next
  PROVE  Asking \/ Linking \/ Minting \/ Removing \/ Attempting \/ Switching \/ Restarting
  BY DEF Next, Asking, Linking, Minting, Removing, Attempting, Switching, Restarting

\* What the kinds leave alone.
LEMMA Frames ==
  /\ Asking => UNCHANGED <<policyVars, serverVars, storeVars, attempt>>
  /\ Linking => UNCHANGED <<policyVars, serverVars, bought, status, session, attempt>>
  /\ Minting => UNCHANGED <<policyVars, serverVars>>
  /\ Removing => UNCHANGED <<policyVars, serverVars, handoff, bought, attempt>>
  /\ Attempting => UNCHANGED <<policyVars, serverVars, storeVars, requestVars>>
  /\ Switching => UNCHANGED <<serverVars, storeVars, req>>
<1> USE DEF policyVars, serverVars, storeVars, requestVars
<1>1. Asking => UNCHANGED <<policyVars, serverVars, storeVars, attempt>>
  BY DEF Asking, Launches, Exchanges, Classifies, Arrives, Binds, Finds, Admitted,
    SignsOut, Ends, LogsIn, AsksToSave, AsksToEnable, Hashes, AnswersChange
<1>2. Linking => UNCHANGED <<policyVars, serverVars, bought, status, session, attempt>>
  BY DEF Linking, IssuesHandoff, Lapses
<1>3. Minting => UNCHANGED <<policyVars, serverVars>>
  BY DEF Minting, Commits, LocalBegins, SetsUp, LoggedIn, CompletesSignIn
<1>4. Removing => UNCHANGED <<policyVars, serverVars, handoff, bought, attempt>>
  BY DEF Removing, Revokes, Expires, Cancels, ClosesSessions
<1>5. Attempting => UNCHANGED <<policyVars, serverVars, storeVars, requestVars>>
  BY DEF Attempting, Starts, Opens, CallsBack, Answers, CompletesTest, AttemptEnds
<1>6. Switching => UNCHANGED <<serverVars, storeVars, req>>
  BY DEF Switching, SavesPassword, EnablesProvider, Switches
<1> QED
  BY <1>1, <1>2, <1>3, <1>4, <1>5, <1>6

\* Every step but a stop, a start and a reset is one of a running process.
LEMMA Running ==
  ASSUME Next, ~Restarting
  PROVE  up /\ up'
<1>1. Asking => up
  BY DEF Asking, Launches, Exchanges, Classifies, Arrives, Binds, Finds, Admitted, SignsOut, Ends,
         LogsIn, AsksToSave, AsksToEnable, Hashes, AnswersChange, At
<1>2. Minting => up
  BY DEF Minting, Commits, LocalBegins, SetsUp, LoggedIn, CompletesSignIn, At
<1>3. Linking \/ Removing => up
  BY DEF Linking, IssuesHandoff, Lapses, Removing, Revokes, Expires, Cancels, ClosesSessions, At
<1>4. Attempting => up
  BY DEF Attempting, Starts, Opens, CallsBack, Answers, CompletesTest, AttemptEnds
<1>5. Switching => up
  BY DEF Switching, SavesPassword, EnablesProvider, At
<1>6. ~Restarting => UNCHANGED up
  BY NextGroups, Frames DEF serverVars
<1> QED
  BY <1>1, <1>2, <1>3, <1>4, <1>5, <1>6, NextGroups

-----------------------------------------------------------------------------
(* Types.                                                                    *)

\* A request or an attempt of which a few fields are set.
LEMMA RequestFields ==
  ASSUME NEW x \in RequestState
  PROVE  /\ \A s \in Session \cup {None} : [x EXCEPT !.session = s] \in RequestState
         /\ \A s \in Session \cup {None} : [x EXCEPT !.bound = s] \in RequestState
         /\ \A held \in Record : [x EXCEPT !.held = held] \in RequestState
         /\ \A links \in SUBSET Handoff : [x EXCEPT !.links = links] \in RequestState
         /\ \A s \in Session \cup {None}, n \in Nat :
              [x EXCEPT !.session = s, !.epoch = n] \in RequestState
         /\ \A p \in Policy \cup {None}, n \in Nat :
              [x EXCEPT !.policy = p, !.generation = n] \in RequestState
         /\ \A p \in Policy \cup {None}, m, n \in Nat :
              [x EXCEPT !.policy = p, !.generation = m, !.epoch = n] \in RequestState
  BY DEF RequestState

LEMMA AttemptFields ==
  ASSUME NEW x \in AttemptState
  PROVE  /\ \A a \in {"open", "processing", "tested"} : [x EXCEPT !.at = a] \in AttemptState
         /\ \A o \in Owner : [x EXCEPT !.at = "finished", !.owner = o] \in AttemptState
  BY DEF AttemptState

LEMMA Defaults ==
  /\ NoRequest \in RequestState /\ NoAttempt \in AttemptState /\ Plain \in Record
  BY DEF NoRequest, NoAttempt, Plain, RequestState, AttemptState, Record, Kinds

\* What a change writes is a policy.
LEMMA NewPolicy ==
  ASSUME changes \in Nat, changes < MaxChanges
  PROVE  /\ [mode |-> "password", owner |-> None, rev |-> changes + 1] \in Policy
         /\ \A o \in Owner : [mode |-> "provider", owner |-> o, rev |-> changes + 1] \in Policy
  BY SignInAssumption DEF Policy, Revision

\* What a minted session says is a record.
LEMMA NewRecord ==
  ASSUME TypeOK
  PROVE  /\ [Plain EXCEPT !.kind = "local"] \in Record
         /\ \A p \in Policy : [kind |-> "password", issuer |-> None, rev |-> p.rev] \in Record
         /\ \A t \in Attempt :
              [kind |-> "provider", issuer |-> attempt[t].owner, rev |-> attempt[t].rev] \in Record
<1>1. \A p \in Policy : p.rev \in Revision
  BY DEF Policy
<1>2. \A t \in Attempt : attempt[t].owner \in Owner \cup {None} /\ attempt[t].rev \in Revision \cup {0}
  BY DEF TypeOK, AttemptState
<1> QED
  BY <1>1, <1>2 DEF Plain, Record, Kinds

\* The current revision is one, or none.
LEMMA RevisionType ==
  ASSUME TypeOK
  PROVE  CurrentRev \in Revision \cup {0}
  BY DEF TypeOK, Policy, CurrentRev

\* A step of a request that is only asking keeps the types.
LEMMA AskingTypes ==
  ASSUME TypeOK, Asking
  PROVE  TypeOK'
<1> USE DEF TypeOK
<1>1. pc' \in [Request -> Steps]
  BY DEF Asking, Launches, Exchanges, Classifies, Arrives, Binds, Finds, Admitted, SignsOut, Ends,
         LogsIn, AsksToSave, AsksToEnable, Hashes, AnswersChange, Leaves, Goto, Steps
<1>2. req' \in [Request -> RequestState]
  <2>1. ASSUME NEW r \in Request, NEW links \in SUBSET Handoff, Exchanges(r, links)
        PROVE  req' \in [Request -> RequestState]
    <3>1. [req[r] EXCEPT !.links = links] \in RequestState
      BY RequestFields
    <3> QED
      BY <2>1, <3>1 DEF Exchanges
  <2>2. ASSUME NEW r \in Request, NEW a \in Session \cup {None}, Arrives(r, a)
        PROVE  req' \in [Request -> RequestState]
    <3>1. [req[r] EXCEPT !.session = a, !.epoch = epoch] \in RequestState
      BY RequestFields
    <3> QED
      BY <2>2, <3>1 DEF Arrives
  <2>3. ASSUME NEW r \in Request, Binds(r)
        PROVE  req' \in [Request -> RequestState]
    <3> DEFINE to == IF req[r].session \in Live THEN req[r].session ELSE None
    <3>1. to \in Session \cup {None}
      BY DEF Live
    <3>2. [req[r] EXCEPT !.bound = to] \in RequestState
      BY <3>1, RequestFields
    <3> QED
      BY <2>3, <3>2 DEF Binds
  <2>4. ASSUME NEW r \in Request, Finds(r)
        PROVE  req' \in [Request -> RequestState]
    <3> DEFINE copy == IF req[r].session = None THEN Plain ELSE session[req[r].session]
    <3>1. copy \in Record
      BY <2>4, Defaults DEF Finds, Live
    <3>2. [req[r] EXCEPT !.held = copy] \in RequestState
      BY <3>1, RequestFields
    <3> QED
      BY <2>4, <3>2 DEF Finds
  <2>5. ASSUME NEW r \in Request, NEW s \in Session, Presents(r, s)
        PROVE  req' \in [Request -> RequestState]
    <3>1. [req[r] EXCEPT !.session = s] \in RequestState
      BY RequestFields
    <3> QED
      BY <2>5, <3>1 DEF Presents
  <2>6. ASSUME NEW r \in Request, LogsIn(r)
        PROVE  req' \in [Request -> RequestState]
    <3>1. [req[r] EXCEPT !.policy = active, !.generation = generation, !.epoch = epoch]
            \in RequestState
      BY RequestFields
    <3> QED
      BY <2>6, <3>1 DEF LogsIn
  <2>7. ASSUME NEW r \in Request, Hashes(r)
        PROVE  req' \in [Request -> RequestState]
    <3>1. [req[r] EXCEPT !.policy = active, !.generation = generation] \in RequestState
      BY RequestFields
    <3> QED
      BY <2>7, <3>1 DEF Hashes
  <2>8. ASSUME NEW r \in Request, Leaves(r)
        PROVE  req' \in [Request -> RequestState]
    BY <2>8, Defaults DEF Leaves
  <2>9. CASE UNCHANGED req
    BY <2>9
  <2> QED
    BY <2>1, <2>2, <2>3, <2>4, <2>5, <2>6, <2>7, <2>8, <2>9
    DEF Asking, Launches, Classifies, Admitted, SignsOut, Ends, AsksToSave, AsksToEnable, AnswersChange
<1> QED
  BY <1>1, <1>2, Frames DEF policyVars, serverVars, storeVars

\* Minting keeps the types.
LEMMA MintingTypes ==
  ASSUME TypeOK, Hashing, Minting
  PROVE  TypeOK'
<1> USE DEF TypeOK
<1>1. ASSUME NEW s \in Session, NEW record \in Record, Mint(s, record)
      PROVE  status' \in [Session -> {"none", "live", "ending"}] /\ session' \in [Session -> Record]
  BY <1>1 DEF Mint
<1>2. ASSUME NEW r \in Request, Leaves(r)
      PROVE  pc' \in [Request -> Steps] /\ req' \in [Request -> RequestState]
  BY <1>2, Defaults DEF Leaves, Goto, Steps
<1>3. ASSUME NEW r \in Request, NEW s \in Session, Commits(r, s) PROVE TypeOK'
  BY <1>3, <1>1, <1>2, Defaults DEF Commits, Spends, policyVars, serverVars
<1>4. ASSUME NEW s \in Session, LocalBegins(s) PROVE TypeOK'
  BY <1>4, <1>1, NewRecord DEF LocalBegins, policyVars, serverVars, requestVars
<1>5. ASSUME NEW s \in Session, SetsUp(s) PROVE TypeOK'
  BY <1>5, <1>1, Defaults DEF SetsUp, policyVars, serverVars, requestVars
<1>6. ASSUME NEW r \in Request, NEW s \in Session, LoggedIn(r, s) PROVE TypeOK'
  <2>1. req[r].policy \in Policy
    BY <1>6 DEF LoggedIn, Hashing, At, RequestState
  <2> QED
    BY <1>6, <1>1, <1>2, <2>1, NewRecord DEF LoggedIn, policyVars, serverVars
<1>7. ASSUME NEW t \in Attempt, NEW s \in Session, CompletesSignIn(t, s) PROVE TypeOK'
  BY <1>7, <1>1, NewRecord, Defaults DEF CompletesSignIn, policyVars, serverVars, requestVars
<1> QED
  BY <1>3, <1>4, <1>5, <1>6, <1>7 DEF Minting

\* Attempts keep the types.
LEMMA AttemptingTypes ==
  ASSUME TypeOK, Attempting
  PROVE  TypeOK'
<1> USE DEF TypeOK
<1>1. ASSUME NEW t \in Attempt, NEW a \in Session \cup {None}, Starts(t, a)
      PROVE  attempt' \in [Attempt -> AttemptState]
  <2>1. [NoAttempt EXCEPT !.at = "asked", !.admin = a, !.generation = generation, !.rev = CurrentRev]
          \in AttemptState
    BY RevisionType DEF NoAttempt, AttemptState
  <2> QED
    BY <1>1, <2>1 DEF Starts
<1>2. ASSUME NEW t \in Attempt, Opens(t)
      PROVE  attempt' \in [Attempt -> AttemptState]
  <2>1. \A u \in Attempt : [attempt[u] EXCEPT !.at = "open"] \in AttemptState
    BY AttemptFields
  <2> QED
    BY <1>2, <2>1, Defaults DEF Opens
<1>3. ASSUME NEW t \in Attempt, CallsBack(t)
      PROVE  attempt' \in [Attempt -> AttemptState]
  <2>1. [attempt[t] EXCEPT !.at = "processing"] \in AttemptState
    BY AttemptFields
  <2> QED
    BY <1>3, <2>1 DEF CallsBack
<1>4. ASSUME NEW t \in Attempt, NEW o \in Owner, Answers(t, o)
      PROVE  attempt' \in [Attempt -> AttemptState]
  <2>1. [attempt[t] EXCEPT !.at = "finished", !.owner = o] \in AttemptState
    BY AttemptFields
  <2> QED
    BY <1>4, <2>1 DEF Answers
<1>5. ASSUME NEW t \in Attempt, CompletesTest(t)
      PROVE  attempt' \in [Attempt -> AttemptState]
  <2>1. [attempt[t] EXCEPT !.at = "tested"] \in AttemptState
    BY AttemptFields
  <2> QED
    BY <1>5, <2>1 DEF CompletesTest
<1>6. ASSUME NEW t \in Attempt, AttemptEnds(t)
      PROVE  attempt' \in [Attempt -> AttemptState]
  BY <1>6, Defaults DEF AttemptEnds
<1>7. attempt' \in [Attempt -> AttemptState]
  BY <1>1, <1>2, <1>3, <1>4, <1>5, <1>6 DEF Attempting
<1> QED
  BY <1>7, Frames DEF policyVars, serverVars, storeVars, requestVars

\* A switch keeps the types.
LEMMA SwitchingTypes ==
  ASSUME TypeOK, Fitting, Switching
  PROVE  TypeOK'
<1> USE DEF TypeOK
<1>1. ASSUME NEW r \in Request, NEW policy \in Policy, Switches(r, policy)
      PROVE  TypeOK'
  <2>1. attempt' \in [Attempt -> AttemptState] /\ pc' \in [Request -> Steps]
    BY <1>1, Defaults DEF Switches, Goto, Steps
  <2> QED
    BY <1>1, <2>1, SignInAssumption DEF Switches, serverVars, storeVars
<1>2. ASSUME NEW t \in Attempt, attempt[t].at = "tested"
      PROVE  attempt[t].owner \in Owner
  BY <1>2 DEF Fitting, AttemptState
<1>3. ASSUME NEW r \in Request, SavesPassword(r) PROVE TypeOK'
  BY <1>1, <1>3, NewPolicy DEF SavesPassword, Switches
<1>4. ASSUME NEW r \in Request, NEW t \in Attempt, EnablesProvider(r, t) PROVE TypeOK'
  BY <1>1, <1>2, <1>4, NewPolicy DEF EnablesProvider, Switches, Tested
<1> QED
  BY <1>3, <1>4 DEF Switching

\* Every step keeps the types.
LEMMA TypeKept ==
  ASSUME TypeOK, Fitting, Hashing, Next
  PROVE  TypeOK'
<1>1. CASE Linking
  <2>1. handoff' \in [Handoff -> {"none", "given", "lapsed", "spent", "expired"}]
    BY <1>1 DEF TypeOK, Linking, IssuesHandoff, Lapses, Swept, Given
  <2>2. pc' \in [Request -> Steps] /\ req' \in [Request -> RequestState]
    BY <1>1, Defaults DEF TypeOK, Linking, IssuesHandoff, Lapses, Leaves, Goto, Steps, requestVars
  <2> QED
    BY <1>1, <2>1, <2>2, Frames DEF TypeOK, policyVars, serverVars
<1>2. CASE Removing
  BY <1>2, Defaults DEF TypeOK, Removing, Revokes, Expires, Cancels, ClosesSessions, Leaves, Goto, Steps, Live,
     policyVars, serverVars, requestVars
<1>3. CASE Stops
  BY <1>3, Defaults DEF TypeOK, Stops, Steps
<1>4. ASSUME NEW b \in BOOLEAN, StartsUp(b) PROVE TypeOK'
  BY <1>4 DEF TypeOK, StartsUp, storeVars, requestVars
<1>5. CASE Resets
  BY <1>5 DEF TypeOK, Resets, serverVars, storeVars, requestVars
<1> QED
  BY <1>1, <1>2, <1>3, <1>4, <1>5, NextGroups, AskingTypes, MintingTypes, AttemptingTypes,
     SwitchingTypes DEF Restarting

\* The lock on changes of the policy has one holder.
LEMMA OneChangeKept ==
  ASSUME OneChange, TypeOK, Next
  PROVE  OneChange'
<1> USE SignInAssumption DEF OneChange, Changing, TypeOK, Steps, At, Goto, Leaves,
    Presents, ChangeFree, PolicyFree, policyVars, serverVars, storeVars, requestVars
<1>1. ASSUME NEW r \in Request, Launches(r) PROVE OneChange'
  BY <1>1 DEF Launches, Goto
<1>2. ASSUME NEW r \in Request, NEW links \in SUBSET Handoff, Exchanges(r, links) PROVE OneChange'
  BY <1>2 DEF Exchanges, Goto
<1>3. ASSUME NEW r \in Request, Classifies(r) PROVE OneChange'
  BY <1>3 DEF Classifies, Goto
<1>4. ASSUME NEW r \in Request, NEW a \in Session \cup {None}, Arrives(r, a) PROVE OneChange'
  BY <1>4 DEF Arrives, Goto
<1>5. ASSUME NEW r \in Request, Binds(r) PROVE OneChange'
  BY <1>5 DEF Binds, Goto, Live
<1>6. ASSUME NEW r \in Request, Finds(r) PROVE OneChange'
  BY <1>6 DEF Finds, Goto, Live
<1>7. ASSUME NEW r \in Request, Admitted(r) PROVE OneChange'
  BY <1>7 DEF Admitted, Goto
<1>8. ASSUME NEW r \in Request, NEW s \in Session, SignsOut(r, s) PROVE OneChange'
  BY <1>8 DEF SignsOut, Goto, Presents
<1>9. ASSUME NEW r \in Request, Ends(r) PROVE OneChange'
  BY <1>9 DEF Ends, Leaves, Goto
<1>10. ASSUME NEW r \in Request, LogsIn(r) PROVE OneChange'
  BY <1>10 DEF LogsIn, Goto
<1>11. ASSUME NEW r \in Request, NEW s \in Session, AsksToSave(r, s) PROVE OneChange'
  BY <1>11 DEF AsksToSave, Goto, Presents
<1>12. ASSUME NEW r \in Request, NEW s \in Session, AsksToEnable(r, s) PROVE OneChange'
  BY <1>12 DEF AsksToEnable, Goto, Presents
<1>13. ASSUME NEW r \in Request, Hashes(r) PROVE OneChange'
  BY <1>13 DEF Hashes, Goto
<1>14. ASSUME NEW r \in Request, AnswersChange(r) PROVE OneChange'
  BY <1>14 DEF AnswersChange, Leaves, Goto
<1>15. ASSUME NEW r \in Request, NEW h \in Handoff, IssuesHandoff(r, h) PROVE OneChange'
  BY <1>15 DEF IssuesHandoff, Leaves, Goto, Swept, Given
<1>16. ASSUME NEW h \in Handoff, Lapses(h) PROVE OneChange'
  BY <1>16 DEF Lapses
<1>17. ASSUME NEW r \in Request, NEW s \in Session, Commits(r, s) PROVE OneChange'
  BY <1>17 DEF Commits, Leaves, Goto, Spends, Mint, Given, Fresh
<1>18. ASSUME NEW s \in Session, LocalBegins(s) PROVE OneChange'
  BY <1>18 DEF LocalBegins, Mint, Fresh
<1>19. ASSUME NEW s \in Session, SetsUp(s) PROVE OneChange'
  BY <1>19 DEF SetsUp, Mint, Fresh
<1>20. ASSUME NEW r \in Request, NEW s \in Session, LoggedIn(r, s) PROVE OneChange'
  BY <1>20 DEF LoggedIn, Leaves, Goto, Mint, Fresh, PolicyKept
<1>21. ASSUME NEW t \in Attempt, NEW s \in Session, CompletesSignIn(t, s) PROVE OneChange'
  BY <1>21 DEF CompletesSignIn, Mint, Fresh
<1>22. ASSUME NEW r \in Request, Revokes(r) PROVE OneChange'
  BY <1>22 DEF Revokes, Leaves, Goto, Live
<1>23. ASSUME NEW s \in Session, Expires(s) PROVE OneChange'
  BY <1>23 DEF Expires, Live
<1>24. ASSUME NEW s \in Session, Cancels(s) PROVE OneChange'
  BY <1>24 DEF Cancels
<1>25. ASSUME NEW r \in Request, ClosesSessions(r) PROVE OneChange'
  BY <1>25 DEF ClosesSessions, Goto, Live
<1>26. CASE Attempting
  BY <1>26, Frames
<1>27. ASSUME NEW r \in Request, SavesPassword(r) PROVE OneChange'
  BY <1>27 DEF SavesPassword, Switches, Goto
<1>28. ASSUME NEW r \in Request, NEW t \in Attempt, EnablesProvider(r, t) PROVE OneChange'
  BY <1>28 DEF EnablesProvider, Switches, Goto, Tested
<1>29. CASE Stops
  BY <1>29 DEF Stops
<1>30. ASSUME NEW b \in BOOLEAN, StartsUp(b) PROVE OneChange'
  BY <1>30 DEF StartsUp
<1>31. CASE Resets
  BY <1>31 DEF Resets
<1> QED
  BY NextGroups, <1>1, <1>2, <1>3, <1>4, <1>5, <1>6, <1>7, <1>8, <1>9, <1>10, <1>11,
    <1>12, <1>13, <1>14, <1>15, <1>16, <1>17, <1>18, <1>19, <1>20, <1>21, <1>22, <1>23,
    <1>24, <1>25, <1>26, <1>27, <1>28, <1>29, <1>30, <1>31 DEF Asking, Linking, Minting,
    Removing, Switching, Restarting

\* A stopped process leaves nothing.
LEMMA DownKept ==
  ASSUME Down, TypeOK, Next
  PROVE  Down'
<1>1. CASE ~Restarting
  BY <1>1, Running DEF Down
<1>2. CASE Stops
  BY <1>2 DEF Stops, Down, NoAttempt
<1>3. ASSUME NEW b \in BOOLEAN, StartsUp(b) PROVE Down'
  BY <1>3 DEF StartsUp, Down
<1>4. CASE Resets
  BY <1>4 DEF Resets, Down, serverVars, storeVars, requestVars
<1> QED
  BY <1>1, <1>2, <1>3, <1>4 DEF Restarting

\* The counters only grow while anybody has noted them.
LEMMA BehindKept ==
  ASSUME Behind, TypeOK, Next
  PROVE  Behind'
<1> USE SignInAssumption DEF Behind, TypeOK, NoAttempt, NoRequest, RequestState,
    AttemptState, At, Goto, Leaves, Presents, policyVars, serverVars, storeVars,
    requestVars
<1>1. ASSUME NEW r \in Request, Launches(r) PROVE Behind'
  BY <1>1 DEF Launches, Goto
<1>2. ASSUME NEW r \in Request, NEW links \in SUBSET Handoff, Exchanges(r, links) PROVE Behind'
  BY <1>2 DEF Exchanges, Goto
<1>3. ASSUME NEW r \in Request, Classifies(r) PROVE Behind'
  BY <1>3 DEF Classifies, Goto
<1>4. ASSUME NEW r \in Request, NEW a \in Session \cup {None}, Arrives(r, a) PROVE Behind'
  BY <1>4 DEF Arrives, Goto
<1>5. ASSUME NEW r \in Request, Binds(r) PROVE Behind'
  BY <1>5 DEF Binds, Goto, Live
<1>6. ASSUME NEW r \in Request, Finds(r) PROVE Behind'
  BY <1>6 DEF Finds, Goto, Live
<1>7. ASSUME NEW r \in Request, Admitted(r) PROVE Behind'
  BY <1>7 DEF Admitted, Goto
<1>8. ASSUME NEW r \in Request, NEW s \in Session, SignsOut(r, s) PROVE Behind'
  BY <1>8 DEF SignsOut, Goto, Presents
<1>9. ASSUME NEW r \in Request, Ends(r) PROVE Behind'
  BY <1>9 DEF Ends, Leaves, Goto
<1>10. ASSUME NEW r \in Request, LogsIn(r) PROVE Behind'
  BY <1>10 DEF LogsIn, Goto
<1>11. ASSUME NEW r \in Request, NEW s \in Session, AsksToSave(r, s) PROVE Behind'
  BY <1>11 DEF AsksToSave, Goto, Presents
<1>12. ASSUME NEW r \in Request, NEW s \in Session, AsksToEnable(r, s) PROVE Behind'
  BY <1>12 DEF AsksToEnable, Goto, Presents
<1>13. ASSUME NEW r \in Request, Hashes(r) PROVE Behind'
  BY <1>13 DEF Hashes, Goto
<1>14. ASSUME NEW r \in Request, AnswersChange(r) PROVE Behind'
  BY <1>14 DEF AnswersChange, Leaves, Goto
<1>15. ASSUME NEW r \in Request, NEW h \in Handoff, IssuesHandoff(r, h) PROVE Behind'
  BY <1>15 DEF IssuesHandoff, Leaves, Goto, Swept, Given
<1>16. ASSUME NEW h \in Handoff, Lapses(h) PROVE Behind'
  BY <1>16 DEF Lapses
<1>17. ASSUME NEW r \in Request, NEW s \in Session, Commits(r, s) PROVE Behind'
  BY <1>17 DEF Commits, Leaves, Goto, Spends, Mint, Given, Fresh
<1>18. ASSUME NEW s \in Session, LocalBegins(s) PROVE Behind'
  BY <1>18 DEF LocalBegins, Mint, Fresh
<1>19. ASSUME NEW s \in Session, SetsUp(s) PROVE Behind'
  BY <1>19 DEF SetsUp, Mint, Fresh
<1>20. ASSUME NEW r \in Request, NEW s \in Session, LoggedIn(r, s) PROVE Behind'
  BY <1>20 DEF LoggedIn, Leaves, Goto, Mint, Fresh, PolicyKept
<1>21. ASSUME NEW t \in Attempt, NEW s \in Session, CompletesSignIn(t, s) PROVE Behind'
  BY <1>21 DEF CompletesSignIn, Mint, Fresh
<1>22. ASSUME NEW r \in Request, Revokes(r) PROVE Behind'
  BY <1>22 DEF Revokes, Leaves, Goto, Live
<1>23. ASSUME NEW s \in Session, Expires(s) PROVE Behind'
  BY <1>23 DEF Expires, Live
<1>24. ASSUME NEW s \in Session, Cancels(s) PROVE Behind'
  BY <1>24 DEF Cancels
<1>25. ASSUME NEW r \in Request, ClosesSessions(r) PROVE Behind'
  BY <1>25 DEF ClosesSessions, Goto, Live
<1>26. ASSUME NEW t \in Attempt, NEW a \in Session \cup {None}, Starts(t, a) PROVE Behind'
  BY <1>26 DEF Starts, CurrentRev
<1>27. ASSUME NEW t \in Attempt, Opens(t) PROVE Behind'
  BY <1>27 DEF Opens
<1>28. ASSUME NEW t \in Attempt, CallsBack(t) PROVE Behind'
  BY <1>28 DEF CallsBack
<1>29. ASSUME NEW t \in Attempt, NEW o \in Owner, Answers(t, o) PROVE Behind'
  BY <1>29 DEF Answers
<1>30. ASSUME NEW t \in Attempt, CompletesTest(t) PROVE Behind'
  BY <1>30 DEF CompletesTest
<1>31. ASSUME NEW t \in Attempt, AttemptEnds(t) PROVE Behind'
  BY <1>31 DEF AttemptEnds
<1>32. ASSUME NEW r \in Request, SavesPassword(r) PROVE Behind'
  BY <1>32 DEF SavesPassword, Switches, Goto
<1>33. ASSUME NEW r \in Request, NEW t \in Attempt, EnablesProvider(r, t) PROVE Behind'
  BY <1>33 DEF EnablesProvider, Switches, Goto, Tested
<1>34. CASE Stops
  BY <1>34 DEF Stops
<1>35. ASSUME NEW b \in BOOLEAN, StartsUp(b) PROVE Behind'
  BY <1>35 DEF StartsUp
<1>36. CASE Resets
  BY <1>36 DEF Resets
<1> QED
  BY NextGroups, <1>1, <1>2, <1>3, <1>4, <1>5, <1>6, <1>7, <1>8, <1>9, <1>10, <1>11,
    <1>12, <1>13, <1>14, <1>15, <1>16, <1>17, <1>18, <1>19, <1>20, <1>21, <1>22, <1>23,
    <1>24, <1>25, <1>26, <1>27, <1>28, <1>29, <1>30, <1>31, <1>32, <1>33, <1>34, <1>35,
    <1>36 DEF Asking, Linking, Minting, Removing, Attempting, Switching, Restarting

\* A sign-in that was set is on the disk and in force.
LEMMA KeptKept ==
  ASSUME Kept, Fitting, Down, TypeOK, Next
  PROVE  Kept'
<1> USE SignInAssumption DEF Kept, Down, StaysRequired, SignInRequired, TypeOK, At,
    policyVars, serverVars, storeVars, requestVars
<1>1. CASE Asking
  BY <1>1, Frames
<1>2. CASE Linking
  BY <1>2, Frames
<1>3. CASE Minting
  BY <1>3, Frames
<1>4. CASE Removing
  BY <1>4, Frames
<1>5. CASE Attempting
  BY <1>5, Frames
<1>6. ASSUME NEW r \in Request, SavesPassword(r) PROVE Kept'
  BY <1>6, NewPolicy DEF SavesPassword, Switches
<1>7. ASSUME NEW r \in Request, NEW t \in Attempt, EnablesProvider(r, t) PROVE Kept'
  <2>1. attempt[t].owner \in Owner
    BY <1>7 DEF EnablesProvider, Tested, Fitting, AttemptState
  <2> QED
    BY <1>7, <2>1, NewPolicy DEF EnablesProvider, Switches
<1>8. CASE Stops
  BY <1>8 DEF Stops
<1>9. ASSUME NEW b \in BOOLEAN, StartsUp(b) PROVE Kept'
  BY <1>9 DEF StartsUp
<1>10. CASE Resets
  BY <1>10 DEF Resets
<1> QED
  BY NextGroups, <1>1, <1>2, <1>3, <1>4, <1>5, <1>6, <1>7, <1>8, <1>9, <1>10 DEF
    Switching, Restarting

\* An attempt of the current generation is one under the policy in force.
LEMMA FittingKept ==
  ASSUME Fitting, Behind, Down, TypeOK, Next
  PROVE  Fitting'
<1> USE SignInAssumption DEF Fitting, Behind, Down, TypeOK, NoAttempt, AttemptState,
    CurrentRev, At, policyVars, serverVars, storeVars, requestVars
<1>1. CASE Asking
  BY <1>1, Frames
<1>2. CASE Linking
  BY <1>2, Frames
<1>3. ASSUME NEW r \in Request, NEW s \in Session, Commits(r, s) PROVE Fitting'
  BY <1>3 DEF Commits, Leaves, Goto, Spends, Mint, Given, Fresh
<1>4. ASSUME NEW s \in Session, LocalBegins(s) PROVE Fitting'
  BY <1>4 DEF LocalBegins, Mint, Fresh
<1>5. ASSUME NEW s \in Session, SetsUp(s) PROVE Fitting'
  BY <1>5 DEF SetsUp, Mint, Fresh
<1>6. ASSUME NEW r \in Request, NEW s \in Session, LoggedIn(r, s) PROVE Fitting'
  BY <1>6 DEF LoggedIn, Leaves, Goto, Mint, Fresh, PolicyKept
<1>7. ASSUME NEW t \in Attempt, NEW s \in Session, CompletesSignIn(t, s) PROVE Fitting'
  BY <1>7 DEF CompletesSignIn, Mint, Fresh
<1>8. CASE Removing
  BY <1>8, Frames
<1>9. ASSUME NEW t \in Attempt, NEW a \in Session \cup {None}, Starts(t, a) PROVE Fitting'
  BY <1>9 DEF Starts, CurrentRev
<1>10. ASSUME NEW t \in Attempt, Opens(t) PROVE Fitting'
  BY <1>10 DEF Opens
<1>11. ASSUME NEW t \in Attempt, CallsBack(t) PROVE Fitting'
  BY <1>11 DEF CallsBack
<1>12. ASSUME NEW t \in Attempt, NEW o \in Owner, Answers(t, o) PROVE Fitting'
  BY <1>12 DEF Answers
<1>13. ASSUME NEW t \in Attempt, CompletesTest(t) PROVE Fitting'
  BY <1>13 DEF CompletesTest
<1>14. ASSUME NEW t \in Attempt, AttemptEnds(t) PROVE Fitting'
  BY <1>14 DEF AttemptEnds
<1>15. ASSUME NEW r \in Request, SavesPassword(r) PROVE Fitting'
  BY <1>15 DEF SavesPassword, Switches, Goto
<1>16. ASSUME NEW r \in Request, NEW t \in Attempt, EnablesProvider(r, t) PROVE Fitting'
  BY <1>16 DEF EnablesProvider, Switches, Goto, Tested
<1>17. CASE Stops
  BY <1>17 DEF Stops
<1>18. ASSUME NEW b \in BOOLEAN, StartsUp(b) PROVE Fitting'
  BY <1>18 DEF StartsUp
<1>19. CASE Resets
  BY <1>19 DEF Resets
<1> QED
  BY NextGroups, <1>1, <1>2, <1>3, <1>4, <1>5, <1>6, <1>7, <1>8, <1>9, <1>10, <1>11,
    <1>12, <1>13, <1>14, <1>15, <1>16, <1>17, <1>18, <1>19 DEF Minting, Attempting,
    Switching, Restarting

\* A password is hashed for a record.
LEMMA HashingKept ==
  ASSUME Hashing, TypeOK, Next
  PROVE  Hashing'
<1> USE SignInAssumption DEF Hashing, TypeOK, Steps, Mode, NoRequest, At, Goto, Leaves,
    Presents, policyVars, serverVars, storeVars, requestVars
<1>1. ASSUME NEW r \in Request, Launches(r) PROVE Hashing'
  BY <1>1 DEF Launches, Goto
<1>2. ASSUME NEW r \in Request, NEW links \in SUBSET Handoff, Exchanges(r, links) PROVE Hashing'
  BY <1>2 DEF Exchanges, Goto
<1>3. ASSUME NEW r \in Request, Classifies(r) PROVE Hashing'
  BY <1>3 DEF Classifies, Goto
<1>4. ASSUME NEW r \in Request, NEW a \in Session \cup {None}, Arrives(r, a) PROVE Hashing'
  BY <1>4 DEF Arrives, Goto
<1>5. ASSUME NEW r \in Request, Binds(r) PROVE Hashing'
  BY <1>5 DEF Binds, Goto, Live
<1>6. ASSUME NEW r \in Request, Finds(r) PROVE Hashing'
  BY <1>6 DEF Finds, Goto, Live
<1>7. ASSUME NEW r \in Request, Admitted(r) PROVE Hashing'
  BY <1>7 DEF Admitted, Goto
<1>8. ASSUME NEW r \in Request, NEW s \in Session, SignsOut(r, s) PROVE Hashing'
  BY <1>8 DEF SignsOut, Goto, Presents
<1>9. ASSUME NEW r \in Request, Ends(r) PROVE Hashing'
  BY <1>9 DEF Ends, Leaves, Goto
<1>10. ASSUME NEW r \in Request, LogsIn(r) PROVE Hashing'
  BY <1>10 DEF LogsIn, Goto
<1>11. ASSUME NEW r \in Request, NEW s \in Session, AsksToSave(r, s) PROVE Hashing'
  BY <1>11 DEF AsksToSave, Goto, Presents
<1>12. ASSUME NEW r \in Request, NEW s \in Session, AsksToEnable(r, s) PROVE Hashing'
  BY <1>12 DEF AsksToEnable, Goto, Presents
<1>13. ASSUME NEW r \in Request, Hashes(r) PROVE Hashing'
  BY <1>13 DEF Hashes, Goto
<1>14. ASSUME NEW r \in Request, AnswersChange(r) PROVE Hashing'
  BY <1>14 DEF AnswersChange, Leaves, Goto
<1>15. ASSUME NEW r \in Request, NEW h \in Handoff, IssuesHandoff(r, h) PROVE Hashing'
  BY <1>15 DEF IssuesHandoff, Leaves, Goto, Swept, Given
<1>16. ASSUME NEW h \in Handoff, Lapses(h) PROVE Hashing'
  BY <1>16 DEF Lapses
<1>17. ASSUME NEW r \in Request, NEW s \in Session, Commits(r, s) PROVE Hashing'
  BY <1>17 DEF Commits, Leaves, Goto, Spends, Mint, Given, Fresh
<1>18. ASSUME NEW s \in Session, LocalBegins(s) PROVE Hashing'
  BY <1>18 DEF LocalBegins, Mint, Fresh
<1>19. ASSUME NEW s \in Session, SetsUp(s) PROVE Hashing'
  BY <1>19 DEF SetsUp, Mint, Fresh
<1>20. ASSUME NEW r \in Request, NEW s \in Session, LoggedIn(r, s) PROVE Hashing'
  BY <1>20 DEF LoggedIn, Leaves, Goto, Mint, Fresh, PolicyKept
<1>21. ASSUME NEW t \in Attempt, NEW s \in Session, CompletesSignIn(t, s) PROVE Hashing'
  BY <1>21 DEF CompletesSignIn, Mint, Fresh
<1>22. ASSUME NEW r \in Request, Revokes(r) PROVE Hashing'
  BY <1>22 DEF Revokes, Leaves, Goto, Live
<1>23. ASSUME NEW s \in Session, Expires(s) PROVE Hashing'
  BY <1>23 DEF Expires, Live
<1>24. ASSUME NEW s \in Session, Cancels(s) PROVE Hashing'
  BY <1>24 DEF Cancels
<1>25. ASSUME NEW r \in Request, ClosesSessions(r) PROVE Hashing'
  BY <1>25 DEF ClosesSessions, Goto, Live
<1>26. CASE Attempting
  BY <1>26, Frames
<1>27. ASSUME NEW r \in Request, SavesPassword(r) PROVE Hashing'
  BY <1>27 DEF SavesPassword, Switches, Goto
<1>28. ASSUME NEW r \in Request, NEW t \in Attempt, EnablesProvider(r, t) PROVE Hashing'
  BY <1>28 DEF EnablesProvider, Switches, Goto, Tested
<1>29. CASE Stops
  BY <1>29 DEF Stops
<1>30. ASSUME NEW b \in BOOLEAN, StartsUp(b) PROVE Hashing'
  BY <1>30 DEF StartsUp
<1>31. CASE Resets
  BY <1>31 DEF Resets
<1> QED
  BY NextGroups, <1>1, <1>2, <1>3, <1>4, <1>5, <1>6, <1>7, <1>8, <1>9, <1>10, <1>11,
    <1>12, <1>13, <1>14, <1>15, <1>16, <1>17, <1>18, <1>19, <1>20, <1>21, <1>22, <1>23,
    <1>24, <1>25, <1>26, <1>27, <1>28, <1>29, <1>30, <1>31 DEF Asking, Linking, Minting,
    Removing, Switching, Restarting

\* A link is spent when it buys, and only then.
LEMMA BuysOneKept ==
  ASSUME HandoffBuysOne, TypeOK, Next
  PROVE  HandoffBuysOne'
<1> USE SignInAssumption DEF HandoffBuysOne, TypeOK, At, policyVars, serverVars,
    storeVars, requestVars
<1>1. CASE Asking
  BY <1>1, Frames
<1>2. ASSUME NEW r \in Request, NEW h \in Handoff, IssuesHandoff(r, h) PROVE HandoffBuysOne'
  BY <1>2 DEF IssuesHandoff, Leaves, Goto, Swept, Given
<1>3. ASSUME NEW h \in Handoff, Lapses(h) PROVE HandoffBuysOne'
  BY <1>3 DEF Lapses
<1>4. ASSUME NEW r \in Request, NEW s \in Session, Commits(r, s) PROVE HandoffBuysOne'
  BY <1>4 DEF Commits, Leaves, Goto, Spends, Mint, Given, Fresh
<1>5. ASSUME NEW s \in Session, LocalBegins(s) PROVE HandoffBuysOne'
  BY <1>5 DEF LocalBegins, Mint, Fresh
<1>6. ASSUME NEW s \in Session, SetsUp(s) PROVE HandoffBuysOne'
  BY <1>6 DEF SetsUp, Mint, Fresh
<1>7. ASSUME NEW r \in Request, NEW s \in Session, LoggedIn(r, s) PROVE HandoffBuysOne'
  BY <1>7 DEF LoggedIn, Leaves, Goto, Mint, Fresh, PolicyKept
<1>8. ASSUME NEW t \in Attempt, NEW s \in Session, CompletesSignIn(t, s) PROVE HandoffBuysOne'
  BY <1>8 DEF CompletesSignIn, Mint, Fresh
<1>9. CASE Removing
  BY <1>9, Frames
<1>10. CASE Attempting
  BY <1>10, Frames
<1>11. CASE Switching
  BY <1>11, Frames
<1>12. CASE Stops
  BY <1>12 DEF Stops
<1>13. ASSUME NEW b \in BOOLEAN, StartsUp(b) PROVE HandoffBuysOne'
  BY <1>13 DEF StartsUp
<1>14. CASE Resets
  BY <1>14 DEF Resets
<1> QED
  BY NextGroups, <1>1, <1>2, <1>3, <1>4, <1>5, <1>6, <1>7, <1>8, <1>9, <1>10, <1>11,
    <1>12, <1>13, <1>14 DEF Linking, Minting, Restarting

\* Work stays bound to the session it presented.
LEMMA BoundKept ==
  ASSUME Bound, Down, TypeOK, Next
  PROVE  Bound'
<1> USE SignInAssumption DEF Bound, Down, TypeOK, Steps, Live, NoRequest, RequestState,
    At, Goto, Leaves, Presents, policyVars, serverVars, storeVars, requestVars
<1>1. ASSUME NEW r \in Request, Launches(r) PROVE Bound'
  BY <1>1 DEF Launches, Goto
<1>2. ASSUME NEW r \in Request, NEW links \in SUBSET Handoff, Exchanges(r, links) PROVE Bound'
  BY <1>2 DEF Exchanges, Goto
<1>3. ASSUME NEW r \in Request, Classifies(r) PROVE Bound'
  BY <1>3 DEF Classifies, Goto
<1>4. ASSUME NEW r \in Request, NEW a \in Session \cup {None}, Arrives(r, a) PROVE Bound'
  BY <1>4 DEF Arrives, Goto
<1>5. ASSUME NEW r \in Request, Binds(r) PROVE Bound'
  BY <1>5 DEF Binds, Goto, Live
<1>6. ASSUME NEW r \in Request, Finds(r) PROVE Bound'
  BY <1>6 DEF Finds, Goto, Live
<1>7. ASSUME NEW r \in Request, Admitted(r) PROVE Bound'
  BY <1>7 DEF Admitted, Goto
<1>8. ASSUME NEW r \in Request, NEW s \in Session, SignsOut(r, s) PROVE Bound'
  BY <1>8 DEF SignsOut, Goto, Presents
<1>9. ASSUME NEW r \in Request, Ends(r) PROVE Bound'
  BY <1>9 DEF Ends, Leaves, Goto
<1>10. ASSUME NEW r \in Request, LogsIn(r) PROVE Bound'
  BY <1>10 DEF LogsIn, Goto
<1>11. ASSUME NEW r \in Request, NEW s \in Session, AsksToSave(r, s) PROVE Bound'
  BY <1>11 DEF AsksToSave, Goto, Presents
<1>12. ASSUME NEW r \in Request, NEW s \in Session, AsksToEnable(r, s) PROVE Bound'
  BY <1>12 DEF AsksToEnable, Goto, Presents
<1>13. ASSUME NEW r \in Request, Hashes(r) PROVE Bound'
  BY <1>13 DEF Hashes, Goto
<1>14. ASSUME NEW r \in Request, AnswersChange(r) PROVE Bound'
  BY <1>14 DEF AnswersChange, Leaves, Goto
<1>15. ASSUME NEW r \in Request, NEW h \in Handoff, IssuesHandoff(r, h) PROVE Bound'
  BY <1>15 DEF IssuesHandoff, Leaves, Goto, Swept, Given
<1>16. ASSUME NEW h \in Handoff, Lapses(h) PROVE Bound'
  BY <1>16 DEF Lapses
<1>17. ASSUME NEW r \in Request, NEW s \in Session, Commits(r, s) PROVE Bound'
  BY <1>17 DEF Commits, Leaves, Goto, Spends, Mint, Given, Fresh
<1>18. ASSUME NEW s \in Session, LocalBegins(s) PROVE Bound'
  BY <1>18 DEF LocalBegins, Mint, Fresh
<1>19. ASSUME NEW s \in Session, SetsUp(s) PROVE Bound'
  BY <1>19 DEF SetsUp, Mint, Fresh
<1>20. ASSUME NEW r \in Request, NEW s \in Session, LoggedIn(r, s) PROVE Bound'
  BY <1>20 DEF LoggedIn, Leaves, Goto, Mint, Fresh, PolicyKept
<1>21. ASSUME NEW t \in Attempt, NEW s \in Session, CompletesSignIn(t, s) PROVE Bound'
  BY <1>21 DEF CompletesSignIn, Mint, Fresh
<1>22. ASSUME NEW r \in Request, Revokes(r) PROVE Bound'
  BY <1>22 DEF Revokes, Leaves, Goto, Live
<1>23. ASSUME NEW s \in Session, Expires(s) PROVE Bound'
  BY <1>23 DEF Expires, Live
<1>24. ASSUME NEW s \in Session, Cancels(s) PROVE Bound'
  BY <1>24 DEF Cancels
<1>25. ASSUME NEW r \in Request, ClosesSessions(r) PROVE Bound'
  BY <1>25 DEF ClosesSessions, Goto, Live
<1>26. CASE Attempting
  BY <1>26, Frames
<1>27. ASSUME NEW r \in Request, SavesPassword(r) PROVE Bound'
  BY <1>27 DEF SavesPassword, Switches, Goto
<1>28. ASSUME NEW r \in Request, NEW t \in Attempt, EnablesProvider(r, t) PROVE Bound'
  BY <1>28 DEF EnablesProvider, Switches, Goto, Tested
<1>29. CASE Stops
  BY <1>29 DEF Stops
<1>30. ASSUME NEW b \in BOOLEAN, StartsUp(b) PROVE Bound'
  BY <1>30 DEF StartsUp
<1>31. CASE Resets
  BY <1>31 DEF Resets
<1> QED
  BY NextGroups, <1>1, <1>2, <1>3, <1>4, <1>5, <1>6, <1>7, <1>8, <1>9, <1>10, <1>11,
    <1>12, <1>13, <1>14, <1>15, <1>16, <1>17, <1>18, <1>19, <1>20, <1>21, <1>22, <1>23,
    <1>24, <1>25, <1>26, <1>27, <1>28, <1>29, <1>30, <1>31 DEF Asking, Linking, Minting,
    Removing, Switching, Restarting

\* The live sessions are of the policy in force, or plain.
LEMMA MintedKept ==
  ASSUME Minted, Hashing, Fitting, Down, TypeOK, Next
  PROVE  Minted'
<1> USE SignInAssumption DEF Minted, Hashing, Fitting, Down, TypeOK, Live, CurrentRev,
    Plain, PolicyFree, Policy, Record, SignInRequired, Steps, At, Goto, Leaves,
    Presents, policyVars, serverVars, storeVars, requestVars
<1>1. ASSUME NEW r \in Request, Launches(r) PROVE Minted'
  BY <1>1 DEF Launches, Goto
<1>2. ASSUME NEW r \in Request, NEW links \in SUBSET Handoff, Exchanges(r, links) PROVE Minted'
  BY <1>2 DEF Exchanges, Goto
<1>3. ASSUME NEW r \in Request, Classifies(r) PROVE Minted'
  BY <1>3 DEF Classifies, Goto
<1>4. ASSUME NEW r \in Request, NEW a \in Session \cup {None}, Arrives(r, a) PROVE Minted'
  BY <1>4 DEF Arrives, Goto
<1>5. ASSUME NEW r \in Request, Binds(r) PROVE Minted'
  BY <1>5 DEF Binds, Goto, Live
<1>6. ASSUME NEW r \in Request, Finds(r) PROVE Minted'
  BY <1>6 DEF Finds, Goto, Live
<1>7. ASSUME NEW r \in Request, Admitted(r) PROVE Minted'
  BY <1>7 DEF Admitted, Goto
<1>8. ASSUME NEW r \in Request, NEW s \in Session, SignsOut(r, s) PROVE Minted'
  BY <1>8 DEF SignsOut, Goto, Presents
<1>9. ASSUME NEW r \in Request, Ends(r) PROVE Minted'
  BY <1>9 DEF Ends, Leaves, Goto
<1>10. ASSUME NEW r \in Request, LogsIn(r) PROVE Minted'
  BY <1>10 DEF LogsIn, Goto
<1>11. ASSUME NEW r \in Request, NEW s \in Session, AsksToSave(r, s) PROVE Minted'
  BY <1>11 DEF AsksToSave, Goto, Presents
<1>12. ASSUME NEW r \in Request, NEW s \in Session, AsksToEnable(r, s) PROVE Minted'
  BY <1>12 DEF AsksToEnable, Goto, Presents
<1>13. ASSUME NEW r \in Request, Hashes(r) PROVE Minted'
  BY <1>13 DEF Hashes, Goto
<1>14. ASSUME NEW r \in Request, AnswersChange(r) PROVE Minted'
  BY <1>14 DEF AnswersChange, Leaves, Goto
<1>15. ASSUME NEW r \in Request, NEW h \in Handoff, IssuesHandoff(r, h) PROVE Minted'
  BY <1>15 DEF IssuesHandoff, Leaves, Goto, Swept, Given
<1>16. ASSUME NEW h \in Handoff, Lapses(h) PROVE Minted'
  BY <1>16 DEF Lapses
<1>17. ASSUME NEW r \in Request, NEW s \in Session, Commits(r, s) PROVE Minted'
  BY <1>17 DEF Commits, Leaves, Goto, Spends, Mint, Given, Fresh
<1>18. ASSUME NEW s \in Session, LocalBegins(s) PROVE Minted'
  BY <1>18 DEF LocalBegins, Mint, Fresh
<1>19. ASSUME NEW s \in Session, SetsUp(s) PROVE Minted'
  BY <1>19 DEF SetsUp, Mint, Fresh
<1>20. ASSUME NEW r \in Request, NEW s \in Session, LoggedIn(r, s) PROVE Minted'
  BY <1>20 DEF LoggedIn, Leaves, Goto, Mint, Fresh, PolicyKept
<1>21. ASSUME NEW t \in Attempt, NEW s \in Session, CompletesSignIn(t, s) PROVE Minted'
  BY <1>21 DEF CompletesSignIn, Mint, Fresh
<1>22. ASSUME NEW r \in Request, Revokes(r) PROVE Minted'
  BY <1>22 DEF Revokes, Leaves, Goto, Live
<1>23. ASSUME NEW s \in Session, Expires(s) PROVE Minted'
  BY <1>23 DEF Expires, Live
<1>24. ASSUME NEW s \in Session, Cancels(s) PROVE Minted'
  BY <1>24 DEF Cancels
<1>25. ASSUME NEW r \in Request, ClosesSessions(r) PROVE Minted'
  BY <1>25 DEF ClosesSessions, Goto, Live
<1>26. CASE Attempting
  BY <1>26, Frames
<1>27. ASSUME NEW r \in Request, SavesPassword(r) PROVE Minted'
  BY <1>27 DEF SavesPassword, Switches, Goto
<1>28. ASSUME NEW r \in Request, NEW t \in Attempt, EnablesProvider(r, t) PROVE Minted'
  BY <1>28 DEF EnablesProvider, Switches, Goto, Tested
<1>29. CASE Stops
  BY <1>29 DEF Stops
<1>30. ASSUME NEW b \in BOOLEAN, StartsUp(b) PROVE Minted'
  BY <1>30 DEF StartsUp
<1>31. CASE Resets
  BY <1>31 DEF Resets
<1> QED
  BY NextGroups, <1>1, <1>2, <1>3, <1>4, <1>5, <1>6, <1>7, <1>8, <1>9, <1>10, <1>11,
    <1>12, <1>13, <1>14, <1>15, <1>16, <1>17, <1>18, <1>19, <1>20, <1>21, <1>22, <1>23,
    <1>24, <1>25, <1>26, <1>27, <1>28, <1>29, <1>30, <1>31 DEF Asking, Linking, Minting,
    Removing, Switching, Restarting

\* Who changes the policy goes on being admitted by it.
LEMMA AdminsKept ==
  ASSUME Admins, OneChange, Down, TypeOK, Next
  PROVE  Admins'
<1> USE SignInAssumption DEF Admins, OneChange, Changing, Down, TypeOK, Steps, Live,
    Allowed, Mode, Admits, NoRequest, PolicyFree, At, Goto, Leaves, Presents,
    policyVars, serverVars, storeVars, requestVars
<1>1. ASSUME NEW r \in Request, Launches(r) PROVE Admins'
  BY <1>1 DEF Launches, Goto
<1>2. ASSUME NEW r \in Request, NEW links \in SUBSET Handoff, Exchanges(r, links) PROVE Admins'
  BY <1>2 DEF Exchanges, Goto
<1>3. ASSUME NEW r \in Request, Classifies(r) PROVE Admins'
  BY <1>3 DEF Classifies, Goto
<1>4. ASSUME NEW r \in Request, NEW a \in Session \cup {None}, Arrives(r, a) PROVE Admins'
  BY <1>4 DEF Arrives, Goto
<1>5. ASSUME NEW r \in Request, Binds(r) PROVE Admins'
  BY <1>5 DEF Binds, Goto, Live
<1>6. ASSUME NEW r \in Request, Finds(r) PROVE Admins'
  BY <1>6 DEF Finds, Goto, Live
<1>7. ASSUME NEW r \in Request, Admitted(r) PROVE Admins'
  BY <1>7 DEF Admitted, Goto
<1>8. ASSUME NEW r \in Request, NEW s \in Session, SignsOut(r, s) PROVE Admins'
  BY <1>8 DEF SignsOut, Goto, Presents
<1>9. ASSUME NEW r \in Request, Ends(r) PROVE Admins'
  BY <1>9 DEF Ends, Leaves, Goto
<1>10. ASSUME NEW r \in Request, LogsIn(r) PROVE Admins'
  BY <1>10 DEF LogsIn, Goto
<1>11. ASSUME NEW r \in Request, NEW s \in Session, AsksToSave(r, s) PROVE Admins'
  BY <1>11 DEF AsksToSave, Goto, Presents
<1>12. ASSUME NEW r \in Request, NEW s \in Session, AsksToEnable(r, s) PROVE Admins'
  BY <1>12 DEF AsksToEnable, Goto, Presents
<1>13. ASSUME NEW r \in Request, Hashes(r) PROVE Admins'
  BY <1>13 DEF Hashes, Goto
<1>14. ASSUME NEW r \in Request, AnswersChange(r) PROVE Admins'
  BY <1>14 DEF AnswersChange, Leaves, Goto
<1>15. ASSUME NEW r \in Request, NEW h \in Handoff, IssuesHandoff(r, h) PROVE Admins'
  BY <1>15 DEF IssuesHandoff, Leaves, Goto, Swept, Given
<1>16. ASSUME NEW h \in Handoff, Lapses(h) PROVE Admins'
  BY <1>16 DEF Lapses
<1>17. ASSUME NEW r \in Request, NEW s \in Session, Commits(r, s) PROVE Admins'
  BY <1>17 DEF Commits, Leaves, Goto, Spends, Mint, Given, Fresh
<1>18. ASSUME NEW s \in Session, LocalBegins(s) PROVE Admins'
  BY <1>18 DEF LocalBegins, Mint, Fresh
<1>19. ASSUME NEW s \in Session, SetsUp(s) PROVE Admins'
  BY <1>19 DEF SetsUp, Mint, Fresh
<1>20. ASSUME NEW r \in Request, NEW s \in Session, LoggedIn(r, s) PROVE Admins'
  BY <1>20 DEF LoggedIn, Leaves, Goto, Mint, Fresh, PolicyKept
<1>21. ASSUME NEW t \in Attempt, NEW s \in Session, CompletesSignIn(t, s) PROVE Admins'
  BY <1>21 DEF CompletesSignIn, Mint, Fresh
<1>22. ASSUME NEW r \in Request, Revokes(r) PROVE Admins'
  BY <1>22 DEF Revokes, Leaves, Goto, Live
<1>23. ASSUME NEW s \in Session, Expires(s) PROVE Admins'
  BY <1>23 DEF Expires, Live
<1>24. ASSUME NEW s \in Session, Cancels(s) PROVE Admins'
  BY <1>24 DEF Cancels
<1>25. ASSUME NEW r \in Request, ClosesSessions(r) PROVE Admins'
  BY <1>25 DEF ClosesSessions, Goto, Live
<1>26. CASE Attempting
  BY <1>26, Frames
<1>27. ASSUME NEW r \in Request, SavesPassword(r) PROVE Admins'
  BY <1>27 DEF SavesPassword, Switches, Goto
<1>28. ASSUME NEW r \in Request, NEW t \in Attempt, EnablesProvider(r, t) PROVE Admins'
  BY <1>28 DEF EnablesProvider, Switches, Goto, Tested
<1>29. CASE Stops
  BY <1>29 DEF Stops
<1>30. ASSUME NEW b \in BOOLEAN, StartsUp(b) PROVE Admins'
  BY <1>30 DEF StartsUp
<1>31. CASE Resets
  BY <1>31 DEF Resets
<1> QED
  BY NextGroups, <1>1, <1>2, <1>3, <1>4, <1>5, <1>6, <1>7, <1>8, <1>9, <1>10, <1>11,
    <1>12, <1>13, <1>14, <1>15, <1>16, <1>17, <1>18, <1>19, <1>20, <1>21, <1>22, <1>23,
    <1>24, <1>25, <1>26, <1>27, <1>28, <1>29, <1>30, <1>31 DEF Asking, Linking, Minting,
    Removing, Switching, Restarting

\* Admitted work is admitted by the policy of its epoch.
LEMMA AdmittedKept ==
  ASSUME AdmittedNow, Behind, Down, TypeOK, Next
  PROVE  AdmittedNow'
<1> USE SignInAssumption DEF AdmittedNow, Behind, Down, TypeOK, Steps, Allowed, Mode,
    SignInRequired, RequestState, NoRequest, At, Goto, Leaves, Presents, policyVars,
    serverVars, storeVars, requestVars
<1>1. ASSUME NEW r \in Request, Launches(r) PROVE AdmittedNow'
  BY <1>1 DEF Launches, Goto
<1>2. ASSUME NEW r \in Request, NEW links \in SUBSET Handoff, Exchanges(r, links) PROVE AdmittedNow'
  BY <1>2 DEF Exchanges, Goto
<1>3. ASSUME NEW r \in Request, Classifies(r) PROVE AdmittedNow'
  BY <1>3 DEF Classifies, Goto
<1>4. ASSUME NEW r \in Request, NEW a \in Session \cup {None}, Arrives(r, a) PROVE AdmittedNow'
  BY <1>4 DEF Arrives, Goto
<1>5. ASSUME NEW r \in Request, Binds(r) PROVE AdmittedNow'
  BY <1>5 DEF Binds, Goto, Live
<1>6. ASSUME NEW r \in Request, Finds(r) PROVE AdmittedNow'
  BY <1>6 DEF Finds, Goto, Live
<1>7. ASSUME NEW r \in Request, Admitted(r) PROVE AdmittedNow'
  BY <1>7 DEF Admitted, Goto
<1>8. ASSUME NEW r \in Request, NEW s \in Session, SignsOut(r, s) PROVE AdmittedNow'
  BY <1>8 DEF SignsOut, Goto, Presents
<1>9. ASSUME NEW r \in Request, Ends(r) PROVE AdmittedNow'
  BY <1>9 DEF Ends, Leaves, Goto
<1>10. ASSUME NEW r \in Request, LogsIn(r) PROVE AdmittedNow'
  BY <1>10 DEF LogsIn, Goto
<1>11. ASSUME NEW r \in Request, NEW s \in Session, AsksToSave(r, s) PROVE AdmittedNow'
  BY <1>11 DEF AsksToSave, Goto, Presents
<1>12. ASSUME NEW r \in Request, NEW s \in Session, AsksToEnable(r, s) PROVE AdmittedNow'
  BY <1>12 DEF AsksToEnable, Goto, Presents
<1>13. ASSUME NEW r \in Request, Hashes(r) PROVE AdmittedNow'
  BY <1>13 DEF Hashes, Goto
<1>14. ASSUME NEW r \in Request, AnswersChange(r) PROVE AdmittedNow'
  BY <1>14 DEF AnswersChange, Leaves, Goto
<1>15. ASSUME NEW r \in Request, NEW h \in Handoff, IssuesHandoff(r, h) PROVE AdmittedNow'
  BY <1>15 DEF IssuesHandoff, Leaves, Goto, Swept, Given
<1>16. ASSUME NEW h \in Handoff, Lapses(h) PROVE AdmittedNow'
  BY <1>16 DEF Lapses
<1>17. ASSUME NEW r \in Request, NEW s \in Session, Commits(r, s) PROVE AdmittedNow'
  BY <1>17 DEF Commits, Leaves, Goto, Spends, Mint, Given, Fresh
<1>18. ASSUME NEW s \in Session, LocalBegins(s) PROVE AdmittedNow'
  BY <1>18 DEF LocalBegins, Mint, Fresh
<1>19. ASSUME NEW s \in Session, SetsUp(s) PROVE AdmittedNow'
  BY <1>19 DEF SetsUp, Mint, Fresh
<1>20. ASSUME NEW r \in Request, NEW s \in Session, LoggedIn(r, s) PROVE AdmittedNow'
  BY <1>20 DEF LoggedIn, Leaves, Goto, Mint, Fresh, PolicyKept
<1>21. ASSUME NEW t \in Attempt, NEW s \in Session, CompletesSignIn(t, s) PROVE AdmittedNow'
  BY <1>21 DEF CompletesSignIn, Mint, Fresh
<1>22. ASSUME NEW r \in Request, Revokes(r) PROVE AdmittedNow'
  BY <1>22 DEF Revokes, Leaves, Goto, Live
<1>23. ASSUME NEW s \in Session, Expires(s) PROVE AdmittedNow'
  BY <1>23 DEF Expires, Live
<1>24. ASSUME NEW s \in Session, Cancels(s) PROVE AdmittedNow'
  BY <1>24 DEF Cancels
<1>25. ASSUME NEW r \in Request, ClosesSessions(r) PROVE AdmittedNow'
  BY <1>25 DEF ClosesSessions, Goto, Live
<1>26. CASE Attempting
  BY <1>26, Frames
<1>27. ASSUME NEW r \in Request, SavesPassword(r) PROVE AdmittedNow'
  BY <1>27 DEF SavesPassword, Switches, Goto
<1>28. ASSUME NEW r \in Request, NEW t \in Attempt, EnablesProvider(r, t) PROVE AdmittedNow'
  BY <1>28 DEF EnablesProvider, Switches, Goto, Tested
<1>29. CASE Stops
  BY <1>29 DEF Stops
<1>30. ASSUME NEW b \in BOOLEAN, StartsUp(b) PROVE AdmittedNow'
  BY <1>30 DEF StartsUp
<1>31. CASE Resets
  BY <1>31 DEF Resets
<1> QED
  BY NextGroups, <1>1, <1>2, <1>3, <1>4, <1>5, <1>6, <1>7, <1>8, <1>9, <1>10, <1>11,
    <1>12, <1>13, <1>14, <1>15, <1>16, <1>17, <1>18, <1>19, <1>20, <1>21, <1>22, <1>23,
    <1>24, <1>25, <1>26, <1>27, <1>28, <1>29, <1>30, <1>31 DEF Asking, Linking, Minting,
    Removing, Switching, Restarting

-----------------------------------------------------------------------------
(* The theorems.                                                             *)

LEMMA InitIInv ==
  ASSUME Init
  PROVE  IInv
<1> USE SignInAssumption, Defaults DEF Init
<1>1. disk \in Policy \cup {None} /\ active \in Policy \cup {None} /\ changes \in 0 .. MaxChanges
  BY DEF SignInAssumption
<1>2. /\ up \in BOOLEAN /\ local \in BOOLEAN /\ problem \in BOOLEAN /\ enforced \in BOOLEAN
      /\ generation \in Nat /\ epoch \in Nat
  OBVIOUS
<1>3. /\ handoff \in [Handoff -> {"none", "given", "lapsed", "spent", "expired"}]
      /\ bought \in [Handoff -> Nat]
      /\ status \in [Session -> {"none", "live", "ending"}]
      /\ session \in [Session -> Record]
  OBVIOUS
<1>4. attempt \in [Attempt -> AttemptState] /\ req \in [Request -> RequestState]
  OBVIOUS
<1>5. pc \in [Request -> Steps]
  BY DEF Steps
<1>6. TypeOK
  BY <1>1, <1>2, <1>3, <1>4, <1>5 DEF TypeOK
<1>7. OneChange /\ Down /\ Behind /\ Kept /\ Hashing /\ HandoffBuysOne
  BY DEF OneChange, Changing, Down, Behind, NoAttempt, NoRequest, Kept, StaysRequired, Hashing,
         HandoffBuysOne
<1>8. Fitting /\ Minted /\ Admins /\ Bound /\ AdmittedNow
  BY DEF Fitting, NoAttempt, Minted, Live, Admins, Bound, AdmittedNow
<1> QED
  BY <1>6, <1>7, <1>8 DEF IInv

LEMMA NextIInv ==
  ASSUME IInv, [Next]_vars
  PROVE  IInv'
<1>1. CASE Next
  BY <1>1, TypeKept, OneChangeKept, DownKept, BehindKept, KeptKept, FittingKept, MintedKept, AdminsKept,
     HashingKept, BoundKept, AdmittedKept, BuysOneKept DEF IInv
<1>2. CASE UNCHANGED vars
  <2> USE <1>2 DEF vars, policyVars, serverVars, storeVars, requestVars
  <2>1. TypeOK' /\ OneChange' /\ Down' /\ Behind' /\ Kept'
    BY DEF IInv, TypeOK, OneChange, Changing, Down, Behind, Kept, StaysRequired, SignInRequired
  <2>2. Fitting' /\ Minted' /\ Admins' /\ Hashing'
    BY DEF IInv, Fitting, CurrentRev, Minted, Live, Admins, Allowed, Mode, Hashing
  <2>3. Bound' /\ AdmittedNow' /\ HandoffBuysOne'
    BY DEF IInv, Bound, Live, AdmittedNow, SignInRequired, Allowed, Mode, HandoffBuysOne
  <2> QED
    BY <2>1, <2>2, <2>3 DEF IInv
<1> QED
  BY <1>1, <1>2

\* In every behaviour of the program's sessions and policy the invariant holds.
THEOREM Invariance == Spec => []IInv
  BY InitIInv, NextIInv, PTL DEF Spec

\* The types (session.go, auth_store.go) are kept.
THEOREM TypeCorrect == Spec => []TypeOK
<1>1. IInv => TypeOK
  BY DEF IInv
<1> QED
  BY <1>1, Invariance, PTL

\* A launch link is spent exactly when one session was bought with it, whatever
\* exchanges carry it at the same time (createCommitting).
THEOREM LinksBuyOne == Spec => []HandoffBuysOne
<1>1. IInv => HandoffBuysOne
  BY DEF IInv
<1> QED
  BY <1>1, Invariance, PTL

\* Sign-in that was set stays required by later starts (openSignIn).
THEOREM SignInStays == Spec => []StaysRequired
<1>1. IInv => StaysRequired
  BY DEF IInv, Kept
<1> QED
  BY <1>1, Invariance, PTL

\* The sessions a policy admits were minted under it (createVerified, createPassword).
THEOREM SessionsAreCurrent == Spec => []OnlyTheCurrent
<1>1. IInv => OnlyTheCurrent
  <2> SUFFICES ASSUME IInv, PolicyFree, SignInRequired, NEW s \in Live, Allowed(session[s])
               PROVE  session[s].rev = CurrentRev
    BY DEF OnlyTheCurrent
  <2>1. \/ session[s].rev = CurrentRev
        \/ (session[s].kind = "plain" /\ session[s].issuer = None)
    BY DEF IInv, Minted, PolicyFree
  <2>2. active \in Policy /\ ~problem
    BY DEF IInv, TypeOK, Allowed, SignInRequired
  <2>3. \/ Mode = "password"
        \/ Mode = "provider" /\ active.owner \in Owner
    BY <2>2, SignInAssumption DEF Policy, Mode
  <2>4. ~(session[s].kind = "plain" /\ session[s].issuer = None)
    BY <2>3, SignInAssumption DEF Allowed
  <2> QED
    BY <2>1, <2>4
<1> QED
  BY <1>1, Invariance, PTL

\* Work that is not canceled is admitted by the policy in force (ServeHTTP,
\* withSignInPolicy, authorized).
THEOREM WorkStaysCurrent == Spec => []WorkIsCurrent
<1>1. IInv => WorkIsCurrent
  <2> SUFFICES ASSUME IInv, NEW r \in Request, At(r, "working"), Uncanceled(r)
               PROVE  IF req[r].session = None THEN ~SignInRequired
                      ELSE status[req[r].session] # "none" /\ Allowed(req[r].held)
    BY DEF WorkIsCurrent
  <2>1. IF req[r].session = None THEN ~SignInRequired ELSE Allowed(req[r].held)
    BY DEF IInv, AdmittedNow, At, Uncanceled
  <2>2. ASSUME req[r].session # None
        PROVE  status[req[r].session] # "none"
    BY <2>2 DEF IInv, Bound, At, Uncanceled
  <2> QED
    BY <2>1, <2>2
<1> QED
  BY <1>1, Invariance, PTL

\* The policy changes by an admitted, live session, and a provider once it was
\* tested by that session under the same policy (handleSignInEnable).
THEOREM AdminsChangeIt == Spec => PolicyChangedByItsAdmin
<1> DEFINE ByItsAdmin ==
      up /\ up' /\ active' # active =>
        \E r \in Request : LET s == req[r].session IN
            /\ pc'[r] = "closing" /\ s \in Live /\ Allowed(session[s])
            /\ active'.mode = "provider" =>
                 \E t \in Attempt : /\ Tested(t, s) /\ attempt[t].owner = active'.owner
                                    /\ attempt[t].rev = CurrentRev
<1>1. ASSUME IInv, Next
      PROVE  ByItsAdmin
  <2> SUFFICES ASSUME up, up', active' # active
               PROVE  \E r \in Request : LET s == req[r].session IN
                        /\ pc'[r] = "closing" /\ s \in Live /\ Allowed(session[s])
                        /\ active'.mode = "provider" =>
                             \E t \in Attempt : /\ Tested(t, s) /\ attempt[t].owner = active'.owner
                                                /\ attempt[t].rev = CurrentRev
    OBVIOUS
  <2>1. Switching
    <3>1. ~Restarting
      BY DEF Restarting, Stops, StartsUp, Resets
    <3> QED
      BY <1>1, <3>1, NextGroups, Frames DEF policyVars
  <2>2. ASSUME NEW r \in Request, At(r, "renewing") \/ At(r, "enabling"), req[r].session \in Live
        PROVE  Allowed(session[req[r].session])
    BY <1>1, <2>2 DEF IInv, Admins, At
  <2>3. ASSUME NEW r \in Request, SavesPassword(r)
        PROVE  /\ pc'[r] = "closing" /\ req[r].session \in Live /\ Allowed(session[req[r].session])
               /\ active'.mode = "password"
    BY <1>1, <2>2, <2>3 DEF SavesPassword, Switches, Goto, IInv, TypeOK
  <2>4. ASSUME NEW r \in Request, NEW t \in Attempt, EnablesProvider(r, t)
        PROVE  /\ pc'[r] = "closing" /\ req[r].session \in Live /\ Allowed(session[req[r].session])
               /\ Tested(t, req[r].session) /\ attempt[t].owner = active'.owner
               /\ attempt[t].rev = CurrentRev
    BY <1>1, <2>2, <2>4 DEF EnablesProvider, Switches, Goto, IInv, TypeOK, Fitting, Tested
  <2> QED
    BY <2>1, <2>3, <2>4 DEF Switching
<1>2. ASSUME IInv, UNCHANGED vars
      PROVE  ByItsAdmin
  BY <1>2 DEF vars, policyVars
<1>3. IInv /\ [Next]_vars => [ByItsAdmin]_vars
  BY <1>1, <1>2
<1> QED
  BY <1>3, Invariance, PTL DEF Spec, PolicyChangedByItsAdmin
===============================================================================
