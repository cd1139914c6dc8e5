------------------------------- MODULE SignIn -------------------------------
(***************************************************************************)
(* Browser sessions, the launch links that buy them and the sign-in policy *)
(* that may end them all (internal/desk/session.go and auth_*.go).         *)
(*                                                                         *)
(* Three locks guard the state: signIn.mu the policy and the attempts at a *)
(* provider, sessionStore.mu the live sessions, and launchStore.mu the     *)
(* links.  An action is one critical section.  Only a change of policy     *)
(* holds signIn.mu through several of them ("closing", "cancelling"), and  *)
(* only it holds policySourceMu from its first check to its answer.        *)
(*                                                                         *)
(* Rate limits, the four slots of discovery and the ring of finished links *)
(* only choose the words of a refusal and are left out, as are time (a     *)
(* link lapses and an expiring session ends at any instant) and secrecy:   *)
(* ids, links and codes are values nobody guesses.                         *)
(***************************************************************************)
EXTENDS Naturals, FiniteSets

CONSTANTS
    Request,       \* the requests in flight at a time
    Session,       \* the session ids the model can mint
    Handoff,       \* the launch links it can issue
    Attempt,       \* attempts at the provider that may be open at a time
    Owner,         \* the identities a provider may answer with
    MaxSessions,   \* maxSessions
    MaxLaunches,   \* maxLaunches
    MaxChanges,    \* bound on changes of the policy
    None

Revision == 1 .. MaxChanges
Policy ==
    [mode : {"password"}, owner : {None}, rev : Revision]
    \cup [mode : {"provider"}, owner : Owner, rev : Revision]

ASSUME SignInAssumption ==
    /\ {MaxSessions, MaxLaunches} \subseteq Nat \ {0}
    /\ MaxChanges \in Nat
    /\ None \notin Owner \cup Session \cup Policy

VARIABLES
    disk,        \* sign-in.json
    up,          \* the server runs
    local,       \* LocalAccess, chosen on its command line
    problem,     \* the record is there and cannot be read
    active,      \* the policy in force
    generation,  \* signIn.generation
    epoch,       \* the number of the context that work under the policy shares
    changes,     \* policies there have been
    enforced,    \* a sign-in was set and no operator has reset it since
    handoff,     \* what the launch store knows of each link
    status,      \* of each session: "none", "live", "ending" (removed, not yet canceled)
    session,     \* what its record says
    bought,      \* how many sessions each link has bought
    attempt,     \* signIn.attempts
    pc, req      \* where each request is, and what it holds

policyVars == <<active, generation, epoch, changes, enforced, disk>>
serverVars == <<up, local, problem>>
storeVars  == <<handoff, bought, status, session>>
requestVars == <<pc, req>>
vars == <<policyVars, serverVars, storeVars, attempt, requestVars>>

\* The program's record does not hold `rev`, the policy the session was minted
\* under (0 for the setup's); its `kind` stands for the flag `password` and for the
\* timer, which only the plain ones lack.
Kinds == {"plain", "local", "password", "provider"}
Record == [kind : Kinds, issuer : Owner \cup {None}, rev : Revision \cup {0}]
Plain == [kind |-> "plain", issuer |-> None, rev |-> 0]

AttemptState ==
    [at : {"free", "asked", "open", "processing", "finished", "tested"},
     admin : Session \cup {None}, generation : Nat, rev : Revision \cup {0},
     owner : Owner \cup {None}]
RequestState ==
    [session : Session \cup {None}, bound : Session \cup {None}, held : Record,
     links : SUBSET Handoff, epoch : Nat, generation : Nat, policy : Policy \cup {None}]

NoAttempt == [at |-> "free", admin |-> None, generation |-> 0, rev |-> 0, owner |-> None]
NoRequest == [session |-> None, bound |-> None, held |-> Plain, links |-> {}, epoch |-> 0,
              generation |-> 0, policy |-> None]

Live == {s \in Session : status[s] = "live"}
Room == Cardinality(Live) < MaxSessions
Mode == IF active = None THEN "setup" ELSE active.mode
CurrentRev == IF active = None THEN 0 ELSE active.rev

\* signIn.mu, policySourceMu and passwordSlots are not held by another.
PolicyFree == \A r \in Request : pc[r] \notin {"closing", "cancelling"}
ChangeFree == \A r \in Request : pc[r] \notin {"saving", "renewing", "enabling", "closing", "cancelling"}
HashFree   == \A r \in Request : pc[r] \notin {"hashing", "renewing"}

Init ==
    /\ disk = None /\ up = TRUE /\ local \in BOOLEAN /\ problem = FALSE
    /\ active = None /\ generation = 0 /\ epoch = 0 /\ changes = 0 /\ enforced = FALSE
    /\ handoff = [h \in Handoff |-> "none"] /\ bought = [h \in Handoff |-> 0]
    /\ status = [s \in Session |-> "none"]
    /\ session = [s \in Session |-> Plain]
    /\ attempt = [t \in Attempt |-> NoAttempt]
    /\ pc = [r \in Request |-> "idle"] /\ req = [r \in Request |-> NoRequest]

Steps == {"idle", "launching", "asked", "classified", "arrived", "bound", "found", "working",
          "leaving", "hashing", "saving", "renewing", "enabling", "closing", "cancelling"}

TypeOK ==
    /\ disk \in Policy \cup {None} /\ active \in Policy \cup {None}
    /\ up \in BOOLEAN /\ local \in BOOLEAN /\ problem \in BOOLEAN /\ enforced \in BOOLEAN
    /\ generation \in Nat /\ epoch \in Nat /\ changes \in 0 .. MaxChanges
    /\ handoff \in [Handoff -> {"none", "given", "lapsed", "spent", "expired"}]
    /\ bought \in [Handoff -> Nat]
    /\ status \in [Session -> {"none", "live", "ending"}]
    /\ session \in [Session -> Record]
    /\ attempt \in [Attempt -> AttemptState]
    /\ pc \in [Request -> Steps]
    /\ req \in [Request -> RequestState]

At(r, step) == up /\ pc[r] = step
Goto(r, step) == pc' = [pc EXCEPT ![r] = step]
Presents(r, s) == req' = [req EXCEPT ![r].session = s]
Leaves(r) == Goto(r, "idle") /\ req' = [req EXCEPT ![r] = NoRequest]

SignInRequired == active # None \/ problem

\* signInSessionAllowed
Allowed(held) ==
    /\ ~problem
    /\ Mode = "setup"    => held.issuer = None
    /\ Mode = "password" => held.kind = "password" /\ held.issuer = None
    /\ Mode = "provider" => held.issuer = active.owner

\* Ids are never used again, and there is no end of them: one that no session,
\* no request and no test has stands for a new one.
Fresh(s) ==
    /\ status[s] = "none"
    /\ \A r \in Request : req[r].session # s
    /\ \A t \in Attempt : attempt[t].admin # s

\* createCommitting once the commitment holds: the id is new, and there is room.
Mint(s, record) ==
    /\ Room /\ Fresh(s)
    /\ status' = [status EXCEPT ![s] = "live"]
    /\ session' = [session EXCEPT ![s] = record]

\* What guard and signInAdmin ask of a bearer.
Admits(s) == s \in Live /\ PolicyFree /\ Allowed(session[s])

-----------------------------------------------------------------------------
(* Launch links and the exchange.                                          *)

Launches(r) ==
    /\ At(r, "idle") /\ PolicyFree /\ ~SignInRequired
    /\ Goto(r, "launching")
    /\ UNCHANGED <<policyVars, serverVars, storeVars, attempt, req>>

Given == {h \in Handoff : handoff[h] = "given"}
Swept == [h \in Handoff |-> IF handoff[h] = "lapsed" THEN "expired" ELSE handoff[h]]

\* sweepLocked ends the lapsed ones and, at the bound, the oldest; which of
\* the given ones that is, the model leaves open.
IssuesHandoff(r, h) ==
    /\ At(r, "launching") /\ handoff[h] = "none"
    /\ \/ /\ Cardinality(Given) < MaxLaunches
          /\ handoff' = [Swept EXCEPT ![h] = "given"]
       \/ /\ Cardinality(Given) >= MaxLaunches
          /\ \E old \in Given : handoff' = [Swept EXCEPT ![old] = "expired", ![h] = "given"]
    /\ Leaves(r)
    /\ UNCHANGED <<policyVars, serverVars, bought, status, session, attempt>>

\* launchWindow passes.
Lapses(h) ==
    /\ up /\ handoff[h] = "given"
    /\ handoff' = [handoff EXCEPT ![h] = "lapsed"]
    /\ UNCHANGED <<policyVars, serverVars, bought, status, session, attempt, requestVars>>

\* POST /api/session with the cookies it carries, or with none and the launch
\* secret in their stead.
Exchanges(r, links) ==
    /\ At(r, "idle") /\ ~local /\ PolicyFree /\ ~SignInRequired
    /\ Goto(r, "asked")
    /\ req' = [req EXCEPT ![r].links = links]
    /\ UNCHANGED <<policyVars, serverVars, storeVars, attempt>>

\* handoffPresented or launchSecretPresented, and the early look at the room.
Classifies(r) ==
    /\ At(r, "asked") /\ Room
    /\ IF req[r].links = {} THEN PolicyFree /\ ~SignInRequired
                            ELSE req[r].links \cap Given # {}
    /\ Goto(r, "classified")
    /\ UNCHANGED <<policyVars, serverVars, storeVars, attempt, req>>

\* spendPresented: every link presented is finished with.
Spends(links) ==
    handoff' = [h \in Handoff |->
        CASE h \in links /\ handoff[h] = "given"  -> "spent"
          [] h \in links /\ handoff[h] = "lapsed" -> "expired"
          [] OTHER -> handoff[h]]

\* Mutant: the link is spent before the room is asked for.
CommitsSpendingFirst(r, s) ==
    LET links == req[r].links
        price == links \cap Given
    IN  /\ At(r, "classified") /\ Spends(links)
        /\ IF Room /\ (links = {} \/ price # {})
           THEN /\ Mint(s, Plain)
                /\ bought' = [h \in Handoff |-> IF h \in price THEN bought[h] + 1 ELSE bought[h]]
           ELSE UNCHANGED <<bought, status, session>>
        /\ Leaves(r)
        /\ UNCHANGED <<policyVars, serverVars, attempt>>

\* mintSession: the bound is read again under the lock that spends and writes.
Commits(r, s) ==
    LET links == req[r].links
        price == links \cap Given
    IN  /\ At(r, "classified") /\ Room
        /\ Spends(links)
        /\ IF links = {} \/ price # {}
           THEN /\ Mint(s, Plain)
                /\ bought' = [h \in Handoff |-> IF h \in price THEN bought[h] + 1 ELSE bought[h]]
           ELSE UNCHANGED <<bought, status, session>>
        /\ Leaves(r)
        /\ UNCHANGED <<policyVars, serverVars, attempt>>

\* beginLocalSession; a live bearer is answered with itself instead.
LocalBegins(s) ==
    /\ up /\ local /\ PolicyFree /\ ~SignInRequired
    /\ Mint(s, [Plain EXCEPT !.kind = "local"])
    /\ UNCHANGED <<policyVars, serverVars, handoff, bought, attempt, requestVars>>

\* handleSignInSetup with the right code
SetsUp(s) ==
    /\ up /\ PolicyFree /\ ~SignInRequired
    /\ Mint(s, Plain)
    /\ UNCHANGED <<policyVars, serverVars, handoff, bought, attempt, requestVars>>

-----------------------------------------------------------------------------
(* Work under a session, its end, and the ends of sessions.                *)

\* withSignInPolicy: the request takes the epoch before anything is looked up.
\* A request without a session presents the launch secret.
Arrives(r, s) ==
    /\ At(r, "idle") /\ PolicyFree
    /\ Goto(r, "arrived")
    /\ req' = [req EXCEPT ![r].session = s, ![r].epoch = epoch]
    /\ UNCHANGED <<policyVars, serverVars, storeVars, attempt>>

\* ServeHTTP: the work is bound to its session, if that is live.
Binds(r) ==
    /\ At(r, "arrived")
    /\ req' = [req EXCEPT ![r].bound = IF req[r].session \in Live THEN req[r].session ELSE None]
    /\ Goto(r, "bound")
    /\ UNCHANGED <<policyVars, serverVars, storeVars, attempt>>

\* authorized: the session is looked up again, and then asked about.
Finds(r) ==
    /\ At(r, "bound") /\ req[r].session \in Live \cup {None}
    /\ req' = [req EXCEPT ![r].held = IF req[r].session = None THEN Plain ELSE session[req[r].session]]
    /\ Goto(r, "found")
    /\ UNCHANGED <<policyVars, serverVars, storeVars, attempt>>

Admitted(r) ==
    /\ At(r, "found") /\ PolicyFree
    /\ IF req[r].session = None THEN ~SignInRequired ELSE Allowed(req[r].held)
    /\ Goto(r, "working")
    /\ UNCHANGED <<policyVars, serverVars, storeVars, attempt, req>>

\* The context of admitted work, until its epoch or its session cancels it.
Uncanceled(r) ==
    /\ req[r].epoch = epoch
    /\ req[r].bound # None => status[req[r].bound] # "none"

\* endSession: guard, then revoke.
SignsOut(r, s) ==
    /\ At(r, "idle") /\ Admits(s)
    /\ Goto(r, "leaving") /\ Presents(r, s)
    /\ UNCHANGED <<policyVars, serverVars, storeVars, attempt>>

Revokes(r) ==
    /\ At(r, "leaving") /\ req[r].session \in Live
    /\ status' = [status EXCEPT ![req[r].session] = "ending"]
    /\ Leaves(r)
    /\ UNCHANGED <<policyVars, serverVars, handoff, bought, session, attempt>>

\* expireVerified, and a lookup that finds the session past its time
Expires(s) ==
    /\ up /\ s \in Live /\ session[s].kind # "plain"
    /\ status' = [status EXCEPT ![s] = "ending"]
    /\ UNCHANGED <<policyVars, serverVars, handoff, bought, session, attempt, requestVars>>

\* held.cancel(), always after the record is gone
Cancels(s) ==
    /\ up /\ status[s] = "ending"
    /\ status' = [status EXCEPT ![s] = "none"]
    /\ session' = [session EXCEPT ![s] = Plain]
    /\ UNCHANGED <<policyVars, serverVars, handoff, bought, attempt, requestVars>>

\* The request is over: its work is done, its context is canceled, or any of
\* the refusals that change nothing.
Ends(r) ==
    /\ up /\ pc[r] \notin {"idle", "closing", "cancelling"}
    /\ Leaves(r)
    /\ UNCHANGED <<policyVars, serverVars, storeVars, attempt>>

-----------------------------------------------------------------------------
(* Passwords.                                                              *)

\* handlePasswordLogin up to the hash; one is computed at a time.
LogsIn(r) ==
    /\ At(r, "idle") /\ PolicyFree /\ HashFree /\ ~problem /\ Mode = "password"
    /\ Goto(r, "hashing")
    /\ req' = [req EXCEPT ![r].policy = active, ![r].generation = generation, ![r].epoch = epoch]
    /\ UNCHANGED <<policyVars, serverVars, storeVars, attempt>>

\* What is read again once the hash is there.
PolicyKept(r) == ~problem /\ generation = req[r].generation /\ active = req[r].policy

\* The password was that of the record the hash was computed for.
LoggedIn(r, s) ==
    /\ At(r, "hashing") /\ PolicyFree /\ PolicyKept(r) /\ epoch = req[r].epoch
    /\ Mint(s, [kind |-> "password", issuer |-> None, rev |-> req[r].policy.rev])
    /\ Leaves(r)
    /\ UNCHANGED <<policyVars, serverVars, handoff, bought, attempt>>

-----------------------------------------------------------------------------
(* Changes of the policy: a password set or changed, a provider enabled.   *)

\* policySourceMu is taken and the administrator's session is asked about.
AsksToSave(r, s) ==
    /\ At(r, "idle") /\ ChangeFree /\ Admits(s)
    /\ Goto(r, "saving") /\ Presents(r, s)
    /\ UNCHANGED <<policyVars, serverVars, storeVars, attempt>>

AsksToEnable(r, s) ==
    /\ At(r, "idle") /\ ChangeFree /\ Admits(s)
    /\ Goto(r, "enabling") /\ Presents(r, s)
    /\ UNCHANGED <<policyVars, serverVars, storeVars, attempt>>

\* The first password is set, or the current one (which is then checked) changed.
Hashes(r) ==
    /\ At(r, "saving") /\ PolicyFree /\ HashFree /\ ~problem /\ Mode # "provider"
    /\ Goto(r, "renewing")
    /\ req' = [req EXCEPT ![r].policy = active, ![r].generation = generation]
    /\ UNCHANGED <<policyVars, serverVars, storeVars, attempt>>

\* Mutant: the epoch of work without a session goes on.
SwitchesQuietly(r, policy) ==
    /\ changes < MaxChanges
    /\ changes' = changes + 1
    /\ disk' = policy /\ active' = policy /\ enforced' = TRUE
    /\ generation' = generation + 1
    /\ attempt' = [t \in Attempt |-> IF attempt[t].at = "asked" THEN attempt[t] ELSE NoAttempt]
    /\ Goto(r, "closing")
    /\ UNCHANGED <<serverVars, storeVars, req, epoch>>

\* writeSignIn and the switch.  A write that fails is a refusal like another.
\* Attempts go; one whose discovery is not over finds another generation.
Switches(r, policy) ==
    /\ changes < MaxChanges
    /\ changes' = changes + 1
    /\ disk' = policy /\ active' = policy /\ enforced' = TRUE
    /\ generation' = generation + 1 /\ epoch' = epoch + 1
    /\ attempt' = [t \in Attempt |-> IF attempt[t].at = "asked" THEN attempt[t] ELSE NoAttempt]
    /\ Goto(r, "closing")
    /\ UNCHANGED <<serverVars, storeVars, req>>

\* Mutant: the session is not looked up again after the hash.
SavesUnseen(r) ==
    /\ At(r, "renewing") /\ PolicyFree /\ PolicyKept(r)
    /\ Switches(r, [mode |-> "password", owner |-> None, rev |-> changes + 1])

SavesPassword(r) ==
    /\ At(r, "renewing") /\ PolicyFree /\ PolicyKept(r)
    /\ req[r].session \in Live
    /\ Switches(r, [mode |-> "password", owner |-> None, rev |-> changes + 1])

\* The session that asks tested this provider under the policy it replaces.
Tested(t, s) == attempt[t].at = "tested" /\ attempt[t].admin = s

EnablesProvider(r, t) ==
    /\ At(r, "enabling") /\ PolicyFree /\ ~problem /\ Mode # "password"
    /\ Tested(t, req[r].session) /\ attempt[t].generation = generation
    /\ req[r].session \in Live
    /\ Switches(r, [mode |-> "provider", owner |-> attempt[t].owner, rev |-> changes + 1])

\* Mutant: only the sessions the new policy refuses are ended.
ClosesTheRefused(r) ==
    /\ At(r, "closing")
    /\ status' = [s \in Session |-> IF s \in Live /\ ~Allowed(session[s]) THEN "ending" ELSE status[s]]
    /\ Goto(r, "cancelling")
    /\ UNCHANGED <<policyVars, serverVars, handoff, bought, session, attempt, req>>

\* sessions.close(): all are removed at once and then canceled.
ClosesSessions(r) ==
    /\ At(r, "closing")
    /\ status' = [s \in Session |-> IF s \in Live THEN "ending" ELSE status[s]]
    /\ Goto(r, "cancelling")
    /\ UNCHANGED <<policyVars, serverVars, handoff, bought, session, attempt, req>>

AnswersChange(r) ==
    /\ At(r, "cancelling") /\ \A s \in Session : status[s] # "ending"
    /\ Leaves(r)
    /\ UNCHANGED <<policyVars, serverVars, storeVars, attempt>>

-----------------------------------------------------------------------------
(* Attempts at a provider: a sign-in (no admin) or an administrator's test.*)

\* handleSignInStart up to discovery
Starts(t, admin) ==
    /\ up /\ PolicyFree /\ ~problem /\ Mode # "password" /\ attempt[t].at = "free"
    /\ IF admin = None THEN active # None ELSE Admits(admin)
    /\ attempt' = [attempt EXCEPT ![t] = [NoAttempt EXCEPT !.at = "asked", !.admin = admin,
                                          !.generation = generation, !.rev = CurrentRev]]
    /\ UNCHANGED <<policyVars, serverVars, storeVars, requestVars>>

\* ... and after it: a test takes the place of the administrator's last one.
Opens(t) ==
    /\ up /\ PolicyFree /\ attempt[t].at = "asked"
    /\ attempt' = [u \in Attempt |->
         IF attempt[t].generation # generation
         THEN IF u = t THEN NoAttempt ELSE attempt[u]
         ELSE CASE u = t -> [attempt[u] EXCEPT !.at = "open"]
                [] u # t /\ attempt[t].admin # None /\ attempt[u].admin = attempt[t].admin
                         /\ attempt[u].at # "asked" -> NoAttempt
                [] OTHER -> attempt[u]]
    /\ UNCHANGED <<policyVars, serverVars, storeVars, requestVars>>

CallsBack(t) ==
    /\ up /\ PolicyFree /\ attempt[t].at = "open" /\ attempt[t].generation = generation
    /\ attempt' = [attempt EXCEPT ![t].at = "processing"]
    /\ UNCHANGED <<policyVars, serverVars, storeVars, requestVars>>

\* The provider has answered with an identity.  A problem of any kind is kept
\* as the answer too; the attempt is then as good as gone.
Answers(t, owner) ==
    /\ up /\ PolicyFree /\ attempt[t].at = "processing" /\ attempt[t].generation = generation
    /\ attempt[t].admin = None => active # None /\ active.owner = owner
    /\ attempt' = [attempt EXCEPT ![t].at = "finished", ![t].owner = owner]
    /\ UNCHANGED <<policyVars, serverVars, storeVars, requestVars>>

\* handleSignInComplete: the attempt is used up before room is asked for.
CompletesTest(t) ==
    /\ up /\ PolicyFree /\ attempt[t].at = "finished" /\ attempt[t].generation = generation
    /\ attempt[t].admin \in Live
    /\ attempt' = [attempt EXCEPT ![t].at = "tested"]
    /\ UNCHANGED <<policyVars, serverVars, storeVars, requestVars>>

CompletesSignIn(t, s) ==
    /\ up /\ PolicyFree /\ attempt[t].at = "finished" /\ attempt[t].generation = generation
    /\ attempt[t].admin = None /\ active # None /\ active.owner = attempt[t].owner
    /\ Mint(s, [kind |-> "provider", issuer |-> attempt[t].owner, rev |-> attempt[t].rev])
    /\ attempt' = [attempt EXCEPT ![t] = NoAttempt]
    /\ UNCHANGED <<policyVars, serverVars, handoff, bought, requestVars>>

\* Its five minutes are over, it ended in a problem, or it was used up for nothing.
AttemptEnds(t) ==
    /\ up /\ attempt[t].at # "free"
    /\ attempt' = [attempt EXCEPT ![t] = NoAttempt]
    /\ UNCHANGED <<policyVars, serverVars, storeVars, requestVars>>

-----------------------------------------------------------------------------
(* The server's stops and starts, and the operator's reset between them.   *)

\* Everything but the record on the disk is the process's own.
Stops ==
    /\ up /\ up' = FALSE /\ problem' = FALSE
    /\ active' = None /\ generation' = 0 /\ epoch' = 0
    /\ handoff' = [h \in Handoff |-> "none"] /\ bought' = [h \in Handoff |-> 0]
    /\ status' = [s \in Session |-> "none"] /\ session' = [s \in Session |-> Plain]
    /\ attempt' = [t \in Attempt |-> NoAttempt]
    /\ pc' = [r \in Request |-> "idle"] /\ req' = [r \in Request |-> NoRequest]
    /\ UNCHANGED <<disk, local, changes, enforced>>

\* openSignIn: an existing record that cannot be read locks, it does not open.
StartsUp(readable) ==
    /\ ~up /\ up' = TRUE
    /\ problem' = (disk # None /\ ~readable)
    /\ active' = IF readable THEN disk ELSE None
    /\ UNCHANGED <<changes, enforced, disk, generation, epoch, local, storeVars, attempt, requestVars>>

\* resetSignInStore
Resets ==
    /\ ~up /\ disk # None
    /\ disk' = None /\ enforced' = FALSE
    /\ UNCHANGED <<active, generation, epoch, changes, serverVars, storeVars, attempt, requestVars>>

-----------------------------------------------------------------------------
Next ==
    \/ \E r \in Request :
         \/ Launches(r) \/ Classifies(r)
         \/ Binds(r) \/ Finds(r) \/ Admitted(r) \/ Revokes(r) \/ Ends(r)
         \/ LogsIn(r) \/ Hashes(r) \/ SavesPassword(r) \/ ClosesSessions(r) \/ AnswersChange(r)
         \/ \E h \in Handoff : IssuesHandoff(r, h)
         \/ \E links \in SUBSET {h \in Handoff : handoff[h] # "none"} : Exchanges(r, links)
         \/ \E s \in Session \cup {None} : Arrives(r, s)
         \/ \E s \in Session :
              \/ Commits(r, s) \/ SignsOut(r, s) \/ LoggedIn(r, s)
              \/ AsksToSave(r, s) \/ AsksToEnable(r, s)
         \/ \E t \in Attempt : EnablesProvider(r, t)
    \/ \E h \in Handoff : Lapses(h)
    \/ \E s \in Session : LocalBegins(s) \/ SetsUp(s) \/ Expires(s) \/ Cancels(s)
    \/ \E t \in Attempt :
         \/ Opens(t) \/ CallsBack(t) \/ CompletesTest(t) \/ AttemptEnds(t)
         \/ \E admin \in Session \cup {None} : Starts(t, admin)
         \/ \E owner \in Owner : Answers(t, owner)
         \/ \E s \in Session : CompletesSignIn(t, s)
    \/ Stops \/ Resets \/ \E readable \in BOOLEAN : StartsUp(readable)

Spec == Init /\ [][Next]_vars

-----------------------------------------------------------------------------
(* Properties.                                                             *)

\* A launch link buys at most one session, whatever other exchange carries it,
\* and one refused for want of room has bought nothing: it is spent exactly
\* when a session was minted with it (createCommitting).
HandoffBuysOne ==
    \A h \in Handoff : bought[h] = IF handoff[h] = "spent" THEN 1 ELSE 0

\* Work whose context is not canceled is work the policy in force admits, under
\* a session that has not ended, although both were looked up at other instants
\* than the context was taken and bound (ServeHTTP, authorized).
WorkIsCurrent ==
    \A r \in Request : At(r, "working") /\ Uncanceled(r) =>
        IF req[r].session = None THEN ~SignInRequired
        ELSE status[req[r].session] # "none" /\ Allowed(req[r].held)

\* Once a change of the policy is through, the live sessions it admits were
\* minted under it and for no earlier password or owner, whose records look the
\* same, also where somebody proved himself while it changed (signInSessionAllowed,
\* handleSignInComplete).
OnlyTheCurrent ==
    PolicyFree /\ SignInRequired =>
        \A s \in Live : Allowed(session[s]) => session[s].rev = CurrentRev

\* The policy changes only by a session that is live and that the policy it
\* replaces admits, and a provider only once that session tested it under this
\* policy (handleSignInEnable, handlePasswordSave).
PolicyChangedByItsAdmin ==
    [][up /\ up' /\ active' # active =>
        \E r \in Request : LET s == req[r].session IN
            /\ pc'[r] = "closing" /\ s \in Live /\ Allowed(session[s])
            /\ active'.mode = "provider" =>
                 \E t \in Attempt : /\ Tested(t, s) /\ attempt[t].owner = active'.owner
                                    /\ attempt[t].rev = CurrentRev]_vars

\* Sign-in that was answered as set stays required by every later start, also
\* one that cannot read its record, until an operator resets it (openSignIn).
StaysRequired == up /\ enforced => SignInRequired
===============================================================================
