-------------------------------- MODULE Witness --------------------------------
(***************************************************************************)
(* The witness of one desk (src/internal/desk/witness.go): the settings    *)
(* and token its owner confirms, one submission at a time of the trail's   *)
(* head, the statements the witness answers, the runtime's reading that    *)
(* confirms one, and the decision record's own reading beside it, for one  *)
(* trail and one pinned key.                                               *)
(*                                                                         *)
(* witnessMu is not a variable: `Readers` is who holds it for reading, and *)
(* a pc other than "idle" of the owner's holds it for writing. Nor is      *)
(* witnessReadMu: `Chain is read` by whoever is in a pc of `ReadingPcs`.   *)
(* handoverMu covers one step each. Indexes of statements start at 1 here, *)
(* at 0 in the code, so that 0 is "none".                                  *)
(***************************************************************************)
EXTENDS Naturals, Sequences, FiniteSets

CONSTANTS
    Holder,         \* the ids a holder may be given
    Origin,         \* the origins of the URLs the owner may choose
    None,
    MaxHead,        \* bound: the trail's records
    MaxChain,       \* bound: the statements the witness signs
    MaxSets,        \* bound: the tokens put into custody
    MaxOffers,      \* bound: the confirmations open at once
    MaxTroubles,    \* bound: crashes, failed writes and readings, and what others
                    \* and a second chain bring to the witness
    StatementBound  \* the runtime's bound on one reading

Kinds == {"checkpoint", "conflict", "retirement"}
\* ours: the record digest is this trail's; fork: not of the chain served.
Statement == [index : 1 .. MaxChain, kind : Kinds, seq : 1 .. MaxHead,
              ours : BOOLEAN, fork : BOOLEAN]
Settings == [origin : Origin, n : 1 .. MaxSets]

ASSUME WitnessAssumption ==
    /\ {MaxHead, MaxChain, MaxSets, MaxOffers, StatementBound} \subseteq Nat \ {0}
    /\ MaxTroubles \in Nat
    /\ None \notin Holder \cup Origin \cup Settings \cup Statement
    /\ None \notin [index : Nat, kind : Kinds, seq : Nat, ours : BOOLEAN, fork : BOOLEAN]

VARIABLES
    listed,   \* the witness holder of holders.json, or None          [disk]
    folder,   \* each holder's folder                                 [disk]
    token,    \* each holder's token in custody, or None              [disk]
    agreed,   \* how many tokens the owner confirmed that were put into custody,
              \* and the origin confirmed with the last
    trail,    \* the sequence of the trail's head
    chain,    \* the statements the witness signed, by index
    att,      \* the submission that has the turn
    panel,    \* the decision record's reading
    owner,    \* the owner's change, under witnessMu for writing
    offers,   \* the confirmations the pages hold
    due,      \* the interval has passed since the last attempt
    held,     \* notBefore is still ahead
    asked,    \* the time the witness's last Retry-After names is ahead
    faults,
    strays

disk == <<listed, folder, token, agreed>>
world == <<trail, chain, strays>>
clock == <<due, held, asked>>
vars == <<listed, folder, token, agreed, trail, chain, att, panel, owner, offers,
          due, held, asked, faults, strays>>

Reply == [status : {"200", "below-head", "retired", "conflict", "refused", "unreached"},
          says : SUBSET Statement, later : BOOLEAN]

NoCursor == [through |-> 0, index |-> 0, below |-> 0, retired |-> FALSE]
NewFolder == [settings |-> None, cursor |-> NoCursor, kept |-> {}, aside |-> {},
              head |-> None, cont |-> None]
Idle == [pc |-> "idle", holder |-> None, settings |-> None, token |-> None,
         sent |-> 0, reply |-> None]
Closed == [pc |-> "idle", holder |-> None, head |-> None]
NothingAgreed == [n |-> 0, origin |-> None]
Nobody == [pc |-> "idle", holder |-> None, origin |-> None]

Init ==
    /\ listed = None /\ folder = [h \in Holder |-> NewFolder]
    /\ token = [h \in Holder |-> None] /\ agreed = NothingAgreed
    /\ trail = 0 /\ chain = <<>>
    /\ att = Idle /\ panel = Closed /\ owner = Nobody /\ offers = {}
    /\ due = TRUE /\ held = FALSE /\ asked = FALSE /\ faults = 0 /\ strays = 0

(* ---- the locks --------------------------------------------------------- *)
Readers == {att.pc, panel.pc} \ {"idle", "begun"}
MayRead == owner.pc \in {"idle", "changed"}
\* Mutant of MayWrite: a change does not wait for a submission on its way.
MayWriteAtOnce == MayRead
MayWrite == MayRead /\ Readers = {}
ReadingPcs == {"kept", "fetched", "confirmed", "marking", "reading"}
ChainFree == {att.pc, panel.pc} \cap ReadingPcs = {}

(* ---- one reading of the chain, by the runtime -------------------------- *)
LastOf(S) == CHOOSE s \in S : \A t \in S : t.index <= s.index
IndexOf(c) == IF c = None THEN 0 ELSE c.index
Given(x) == IF x = None THEN {} ELSE {x}

\* The statements kept after the continuation, and the first of them where
\* they are more than one reading takes.
Selected(f) == {s \in f.kept : s.index > IndexOf(f.cont)}
InSteps(f) == Cardinality(Selected(f)) > StatementBound
Steps(f) ==
    {S \in SUBSET Selected(f) :
        IF ~InSteps(f) THEN S = Selected(f)
        ELSE /\ Cardinality(S) = StatementBound
             /\ \A s \in S : \A t \in Selected(f) \ S : s.index <= t.index}

Joined(cont, S, head) == S \cup Given(cont) \cup Given(head)
Equivocation(S) == \E s, t \in S : s.index = t.index /\ s # t
\* A chain with no finding: from the continuation or the first statement, no
\* index missing or signed twice, each on the one before it, up to the head.
Unbroken(cont, S, head) ==
    LET all == Joined(cont, S, head)
    IN  /\ ~Equivocation(all)
        /\ \A s, t \in all : t.index = s.index + 1 => ~s.fork
        /\ \E last \in all :
              /\ \A s \in all : s.index <= last.index
              /\ \A i \in IndexOf(cont) + 1 .. last.index : \E s \in all : s.index = i
              /\ head # None => last = head

\* The head is left to a later reading where the statements come in steps.
ReadHead(f, head) == IF InSteps(f) THEN None ELSE head

\* Mutant of AfterReading: what a reading cannot join is dropped.
AfterReadingNotAside(f, S, head, save) ==
    LET read == ReadHead(f, head)
        all == Joined(f.cont, S, read)
    IN  IF Unbroken(f.cont, S, read) THEN [f EXCEPT !.cont = IF save THEN LastOf(all) ELSE @]
        ELSE [f EXCEPT !.kept = {}]
\* What a reading leaves of the folder: the continuation saved where there is
\* no finding, the statements moved aside where two chains were signed.
AfterReading(f, S, head, save) ==
    LET read == ReadHead(f, head)
        all == Joined(f.cont, S, read)
    IN  IF Unbroken(f.cont, S, read) THEN [f EXCEPT !.cont = IF save THEN LastOf(all) ELSE @]
        ELSE IF Equivocation(all) THEN [f EXCEPT !.aside = @ \cup f.kept, !.kept = {}]
        ELSE f

(* ---- the submission ---------------------------------------------------- *)
\* The turn is given back; the answer's Retry-After is recorded.
End(later) ==
    /\ att' = Idle
    /\ held' = (held \/ later) /\ asked' = (asked \/ later)
    /\ UNCHANGED due

\* The loop's wake, or Send now, takes the one turn.
TakesTurn ==
    /\ att.pc = "idle" /\ MayRead /\ listed # None /\ ~held
    /\ att' = [Idle EXCEPT !.pc = "begun"] /\ due' = FALSE
    /\ UNCHANGED <<disk, world, panel, owner, offers, held, asked, faults>>
Wake == due /\ TakesTurn
SendNow == TakesTurn

\* Mutant of Sends: the last record of the trail is never sent.
SendsLate(c) == ~c.retired /\ trail > c.below /\ trail > c.through + 1
Sends(c) == ~c.retired /\ trail > c.below /\ trail > c.through
AttemptReads ==
    /\ att.pc = "begun" /\ MayRead
    /\ IF listed # None /\ folder[listed].settings # None /\ Sends(folder[listed].cursor)
       THEN /\ att' = [att EXCEPT !.pc = "ready", !.holder = listed,
                                  !.settings = folder[listed].settings, !.sent = trail]
            /\ UNCHANGED clock
       ELSE End(FALSE)
    /\ UNCHANGED <<disk, world, panel, owner, offers, faults>>

\* The token is read last, and only for the origin it was confirmed for.
TokenFor(h, s) == token[h] # None /\ token[h].origin = s.origin
AttemptSends ==
    /\ att.pc = "ready"
    /\ IF TokenFor(att.holder, att.settings)
       THEN /\ att' = [att EXCEPT !.pc = "sent", !.token = token[att.holder]]
            /\ UNCHANGED clock
       ELSE End(FALSE)
    /\ UNCHANGED <<disk, world, panel, owner, offers, faults>>

(* ---- the witness and its network --------------------------------------- *)
Signed(kind, n, ours) ==
    [index |-> Len(chain) + 1, kind |-> kind, seq |-> n, ours |-> ours, fork |-> FALSE]
Checkpoints == {s \in {chain[i] : i \in 1 .. Len(chain)} : s.kind = "checkpoint"}
Retired == chain # <<>> /\ chain[Len(chain)].kind = "retirement"
Answers(status, S) == [status |-> status, says |-> S, later |-> FALSE]

\* The reply to the checkpoint n, and the statement signed for it, if any.
Served(n) ==
    LET same == {s \in Checkpoints : s.seq = n}
        mine == Signed("checkpoint", n, TRUE)
        clash == Signed("conflict", n, TRUE)
    IN  CASE Retired -> <<Answers("retired", {chain[Len(chain)]}), None>>
          [] ~Retired /\ \E s \in same : s.ours -> <<Answers("200", same), None>>
          [] ~Retired /\ same # {} /\ (\A s \in same : ~s.ours) -> <<Answers("conflict", same \cup {clash}), clash>>
          [] ~Retired /\ same = {} /\ (\E s \in Checkpoints : s.seq > n) ->
                <<Answers("below-head", {chain[Len(chain)]}), None>>
          [] OTHER -> <<Answers("200", {mine}), mine>>

Strays == faults + strays < MaxTroubles /\ strays' = strays + 1
Arrives(reply) == att' = [att EXCEPT !.pc = "answered", !.reply = reply]
Lost == [status |-> "unreached", says |-> {}, later |-> FALSE]

WitnessServes ==
    LET r == Served(att.sent)
    IN  /\ r[2] # None => Len(chain) < MaxChain
        /\ chain' = IF r[2] = None THEN chain ELSE Append(chain, r[2])
        /\ Arrives(r[1])
AnswerIsLost ==
    /\ \E r \in {Served(att.sent)[2], None} :
          /\ r # None => Len(chain) < MaxChain
          /\ chain' = IF r = None THEN chain ELSE Append(chain, r)
    /\ Arrives(Lost)
WitnessRefuses ==
    /\ UNCHANGED chain
    /\ \E later \in BOOLEAN : Arrives([status |-> "refused", says |-> {}, later |-> later])
\* A 200 for something else: another statement of the chain, or one of a
\* second chain.
Forged(n) == [Signed("checkpoint", n, TRUE) EXCEPT !.fork = TRUE]
WitnessErrs ==
    /\ Strays /\ UNCHANGED chain
    /\ \E s \in {chain[i] : i \in 1 .. Len(chain)} \cup {t \in {Forged(att.sent)} : t.index <= MaxChain} :
          Arrives(Answers("200", {s}))

Replies(reply) ==
    /\ att.pc = "sent" /\ reply
    /\ UNCHANGED <<disk, trail, panel, owner, offers, clock, faults>>
Serve == Replies(WitnessServes) /\ UNCHANGED strays
NotServed == Replies(AnswerIsLost \/ WitnessRefuses) /\ UNCHANGED strays
Err == Replies(WitnessErrs)

(* ---- what Desk does with an answer ------------------------------------- *)
Fails == faults + strays < MaxTroubles /\ faults' = faults + 1
Works == UNCHANGED faults
InFolder(h, f) == folder' = [folder EXCEPT ![h] = f]
AttemptFrame == UNCHANGED <<listed, token, agreed, world, panel, owner, offers>>
GoesTo(pc) == att' = [att EXCEPT !.pc = pc] /\ UNCHANGED clock
The(S) == CHOOSE s \in S : TRUE
Mine == folder[att.holder]
Says == The(att.reply.says)
\* A statement that is this trail's checkpoint of record n.
Confirms(s, n) == s.kind = "checkpoint" /\ s.seq = n /\ s.ours

\* No answer, or a refusal with nothing to keep.
AnswerEnds ==
    /\ att.pc = "answered" /\ att.reply.says = {}
    /\ End(att.reply.later)
    /\ UNCHANGED folder /\ Works /\ AttemptFrame

\* Mutant of KeepsAnswer: a statement to be confirmed is not kept first.
KeepsAnswerLate ==
    /\ att.pc = "answered" /\ att.reply.status = "200" /\ ChainFree /\ Works
    /\ IF Confirms(Says, att.sent)
       THEN UNCHANGED folder /\ GoesTo("kept")
       ELSE InFolder(att.holder, [Mine EXCEPT !.kept = @ \cup att.reply.says]) /\ End(FALSE)
    /\ AttemptFrame

\* A 200: the statement is kept first, whatever it is for.
KeepsAnswer ==
    /\ att.pc = "answered" /\ att.reply.status = "200" /\ ChainFree
    /\ \/ /\ Works
          /\ InFolder(att.holder, [Mine EXCEPT !.kept = @ \cup att.reply.says])
          /\ IF Confirms(Says, att.sent)
             THEN GoesTo("kept") ELSE End(FALSE)
       \/ Fails /\ UNCHANGED folder /\ End(FALSE)
    /\ AttemptFrame

\* The statements from index `from` on that the witness serves, as far as
\* its pages come.
Page(from, upto) == {chain[i] : i \in from .. upto}
Contiguous(f) ==
    {n \in IndexOf(f.cont) .. MaxChain :
        /\ \A i \in IndexOf(f.cont) + 1 .. n : \E s \in f.kept : s.index = i
        /\ ~\E s \in f.kept : s.index = n + 1}

\* The statements between Desk's last and this one are fetched and kept.
FetchesMissing ==
    /\ att.pc = "kept"
    /\ \E last \in Contiguous(Mine) : \E upto \in {last} \cup last .. Says.index - 1 :
          InFolder(att.holder, [Mine EXCEPT !.kept = @ \cup Page(last + 1, upto)])
    /\ GoesTo("fetched") /\ Works /\ AttemptFrame

\* The reading with the statement as the head; none where the statements
\* kept are more than one reading takes.
ReadsAnswer ==
    /\ att.pc = "fetched"
    /\ \/ /\ Works /\ ~InSteps(Mine)
          /\ InFolder(att.holder, AfterReading(Mine, Selected(Mine), Says, TRUE))
          /\ IF Unbroken(Mine.cont, Selected(Mine), Says) THEN GoesTo("confirmed") ELSE End(FALSE)
       \/ InSteps(Mine) /\ Works /\ UNCHANGED folder /\ End(FALSE)
       \/ Fails /\ UNCHANGED folder /\ End(FALSE)
    /\ AttemptFrame

UpdatesCursor(c) ==
    /\ \/ Works /\ InFolder(att.holder, [Mine EXCEPT !.cursor = c])
       \/ Fails /\ UNCHANGED folder
    /\ End(att.reply.later) /\ AttemptFrame
MovesCursor ==
    /\ att.pc = "confirmed"
    /\ UpdatesCursor([Mine.cursor EXCEPT !.through = att.sent, !.index = Says.index])

\* A 409: its statements are kept, or could not be, and what it says of the
\* trail is recorded.
KeepsRefusal ==
    /\ att.pc = "answered" /\ att.reply.status \in {"conflict", "below-head", "retired"} /\ ChainFree
    /\ \/ Works /\ InFolder(att.holder, [Mine EXCEPT !.kept = @ \cup att.reply.says])
       \/ Fails /\ UNCHANGED folder
    /\ GoesTo("marking") /\ AttemptFrame
MarksCursor ==
    /\ att.pc = "marking"
    /\ UpdatesCursor([Mine.cursor EXCEPT
          !.below = IF att.reply.status = "below-head" THEN Says.seq ELSE @,
          !.retired = @ \/ (att.reply.status = "retired" /\ Says.kind = "retirement")])

Attempt ==
    \/ AttemptReads \/ AttemptSends \/ AnswerEnds \/ KeepsAnswer \/ FetchesMissing
    \/ ReadsAnswer \/ MovesCursor \/ KeepsRefusal \/ MarksCursor

(* ---- the decision record ----------------------------------------------- *)
PanelFrame == UNCHANGED <<listed, token, agreed, world, att, owner, offers, clock>>
PanelOpens ==
    /\ panel.pc = "idle" /\ MayRead /\ listed # None /\ trail > 0
    /\ folder[listed].settings # None
    /\ panel' = [Closed EXCEPT !.pc = "open", !.holder = listed]
    /\ UNCHANGED folder /\ Works /\ PanelFrame

\* The head is fetched and the statements after the continuation; the head
\* file is replaced once every statement before it has come.
GoesOn(head) == panel' = [panel EXCEPT !.pc = "reading", !.head = head]
PanelFetches ==
    /\ panel.pc = "open" /\ ChainFree
    /\ LET f == folder[panel.holder]
           after == IndexOf(f.cont)
       IN  \/ UNCHANGED folder /\ GoesOn(None)
           \/ /\ chain # <<>>
              /\ \E upto \in {after} \cup after .. Len(chain) - 1 :
                    LET head == chain[Len(chain)]
                        whole == upto >= Len(chain) - 1
                    IN  /\ InFolder(panel.holder,
                              [f EXCEPT !.kept = @ \cup Page(after + 1, upto) \cup {head},
                                        !.head = IF whole THEN head ELSE @])
                        /\ GoesOn(IF whole THEN head ELSE None)
    /\ Works /\ PanelFrame

\* The check of a coverage the owner requires saves nothing.
PanelReads ==
    /\ panel.pc = "reading" /\ panel' = Closed
    /\ \/ Works /\ \E S \in Steps(folder[panel.holder]), save \in BOOLEAN :
             InFolder(panel.holder, AfterReading(folder[panel.holder], S, panel.head, save))
       \/ Fails /\ UNCHANGED folder
    /\ PanelFrame

(* ---- the owner --------------------------------------------------------- *)
Shown == IF listed = None THEN None ELSE folder[listed].settings
OwnerFrame == UNCHANGED <<world, att, panel, clock>>
Opens(offer) ==
    /\ MayRead /\ (listed # None => Shown # None)
    /\ Cardinality(offers) < MaxOffers
    /\ offers' = offers \cup {offer}
    /\ UNCHANGED <<disk, owner>> /\ Works /\ OwnerFrame

\* A check of the owner's proposal, or the decision record, shows the
\* witness as it is now, and gives a token over it.
Checks == \E o \in Origin : Opens([origin |-> o, over |-> Shown])
OffersRemoval == listed # None /\ Opens([origin |-> None, over |-> Shown])

OwnerGoes(pc, h, o) == owner' = [pc |-> pc, holder |-> h, origin |-> o]
\* What the owner confirmed last; its number tells one setting from another.
Agrees(o) == agreed' = [n |-> agreed.n + 1, origin |-> o]
Gives(h, t) == token' = [token EXCEPT ![h] = t]

\* Mutant of SetsToken: the new token is bound to the URL there was.
SetsTokenForTheOld ==
    /\ MayWrite /\ agreed.n < MaxSets
    /\ \E offer \in offers, h \in Holder :
          /\ offer.origin # None /\ offer.over = Shown
          /\ IF listed = None THEN folder[h] = NewFolder /\ token[h] = None ELSE h = listed
          /\ offers' = offers \ {offer} /\ Agrees(offer.origin)
          /\ Gives(h, [n |-> agreed.n + 1,
                       origin |-> IF Shown = None THEN offer.origin ELSE Shown.origin])
          /\ OwnerGoes("token", h, offer.origin)
    /\ Works /\ UNCHANGED <<listed, folder>> /\ OwnerFrame

\* A confirmation is spent where the witness is still as it was shown. The
\* token goes first into custody, under the holder listed or a new one.
SetsToken ==
    /\ MayWrite /\ agreed.n < MaxSets
    /\ \E offer \in offers, h \in Holder :
          /\ offer.origin # None /\ offer.over = Shown
          /\ IF listed = None THEN folder[h] = NewFolder /\ token[h] = None ELSE h = listed
          /\ offers' = offers \ {offer}
          /\ \/ /\ Works /\ Gives(h, [n |-> agreed.n + 1, origin |-> offer.origin])
                /\ Agrees(offer.origin) /\ OwnerGoes("token", h, offer.origin)
             \/ Fails /\ UNCHANGED <<token, agreed, owner>>
    /\ UNCHANGED <<listed, folder>> /\ OwnerFrame

\* A new witness not kept whole leaves no token behind.
GivesUpSetting ==
    /\ token' = IF listed = None THEN [token EXCEPT ![owner.holder] = None] ELSE token
    /\ owner' = Nobody /\ UNCHANGED <<listed, folder>>
SetsSettings ==
    /\ owner.pc = "token"
    /\ \/ /\ Works
          /\ InFolder(owner.holder, [folder[owner.holder] EXCEPT
                 !.settings = [origin |-> owner.origin, n |-> agreed.n]])
          /\ OwnerGoes(IF listed = None THEN "unlisted" ELSE "changed", owner.holder, None)
          /\ UNCHANGED <<listed, token>>
       \/ Fails /\ GivesUpSetting
    /\ UNCHANGED <<agreed, offers>> /\ OwnerFrame
SetsList ==
    /\ owner.pc = "unlisted"
    /\ \/ /\ Works /\ listed' = owner.holder /\ OwnerGoes("changed", owner.holder, None)
          /\ UNCHANGED <<folder, token>>
       \/ Fails /\ GivesUpSetting
    /\ UNCHANGED <<agreed, offers>> /\ OwnerFrame

\* A removal: the token first, so that nothing more is sent under it, then
\* the list of holders, then the settings.
RemovesToken ==
    /\ MayWrite /\ listed # None /\ Shown # None
    /\ \E offer \in offers :
          /\ offer.origin = None /\ offer.over = Shown
          /\ offers' = offers \ {offer}
    /\ \/ Works /\ Gives(listed, None) /\ OwnerGoes("unkeyed", listed, None)
       \/ Fails /\ UNCHANGED <<token, owner>>
    /\ UNCHANGED <<listed, folder, agreed>> /\ OwnerFrame
RemovesFromList ==
    /\ owner.pc = "unkeyed"
    /\ \/ Works /\ listed' = None /\ owner' = [owner EXCEPT !.pc = "delisted"]
       \/ Fails /\ UNCHANGED listed /\ owner' = Nobody
    /\ UNCHANGED <<folder, token, agreed, offers>> /\ OwnerFrame
RemovesSettings ==
    /\ owner.pc = "delisted"
    /\ \/ Works /\ InFolder(owner.holder, [folder[owner.holder] EXCEPT !.settings = None])
       \/ Fails /\ UNCHANGED folder
    /\ owner' = [owner EXCEPT !.pc = "changed"]
    /\ UNCHANGED <<listed, token, agreed, offers>> /\ OwnerFrame

\* The lock is given back; the next wake is then an attempt.
SettingsChanged ==
    /\ owner.pc = "changed" /\ owner' = Nobody
    /\ due' = TRUE /\ held' = FALSE
    /\ UNCHANGED <<disk, world, att, panel, offers, asked, faults>>

Change == \/ SetsSettings \/ SetsList \/ RemovesFromList \/ RemovesSettings \/ SettingsChanged

(* ---- time, the trail, others and stops --------------------------------- *)
Outside == UNCHANGED <<disk, att, panel, owner, offers, faults>>
IntervalPasses == ~due /\ due' = TRUE /\ UNCHANGED <<held, asked, world>> /\ Outside
\* Ten years at most: Desk's own copy of that time is never later.
RetryPasses == asked /\ asked' = FALSE /\ held' = FALSE /\ UNCHANGED <<due, world>> /\ Outside
TrailGrows == trail < MaxHead /\ trail' = trail + 1 /\ UNCHANGED <<chain, strays, clock>> /\ Outside
\* Another who holds a token of the witness's, or its operator.
OthersSign ==
    /\ Strays /\ ~Retired /\ Len(chain) < MaxChain
    /\ \E n \in 1 .. MaxHead, ours \in BOOLEAN :
          /\ \A s \in Checkpoints : s.seq < n
          /\ chain' = Append(chain, Signed("checkpoint", n, ours))
    /\ UNCHANGED <<trail, clock>> /\ Outside
Retires ==
    /\ Strays /\ ~Retired /\ chain # <<>> /\ Len(chain) < MaxChain
    /\ chain' = Append(chain, Signed("retirement", chain[Len(chain)].seq, TRUE))
    /\ UNCHANGED <<trail, clock>> /\ Outside

\* Desk dies, and is started again: what it kept in memory is forgotten.
Crash ==
    /\ faults + strays < MaxTroubles /\ faults' = faults + 1
    /\ att' = Idle /\ panel' = Closed /\ owner' = Nobody /\ offers' = {}
    /\ due' = TRUE /\ held' = FALSE
    /\ UNCHANGED <<disk, world, asked>>

Next ==
    \/ Wake \/ SendNow \/ Attempt \/ Serve \/ NotServed \/ Err
    \/ PanelOpens \/ PanelFetches \/ PanelReads
    \/ Checks \/ OffersRemoval \/ SetsToken \/ RemovesToken \/ Change
    \/ IntervalPasses \/ RetryPasses \/ TrailGrows \/ OthersSign \/ Retires \/ Crash

Spec == Init /\ [][Next]_vars

\* The loop goes on, the pages' requests end, time passes, and the witness
\* answers again and again, with its pages whole. A mutex of Go's is not
\* kept for ever from one who waits (its starvation mode), however often the
\* decision record is opened.
Fetched == FetchesMissing /\ \A n \in Contiguous(folder'[att.holder]) : n >= Says.index
Fair ==
    /\ WF_vars(Wake) /\ WF_vars(Attempt) /\ WF_vars(Change)
    /\ WF_vars(PanelFetches) /\ WF_vars(PanelReads)
    /\ WF_vars(IntervalPasses) /\ WF_vars(RetryPasses)
    /\ WF_vars(Serve \/ NotServed \/ Err) /\ SF_vars(Serve) /\ SF_vars(Fetched)
    /\ SF_vars(KeepsAnswer) /\ SF_vars(KeepsRefusal)
FairSpec == Spec /\ Fair

(* ---- properties -------------------------------------------------------- *)
TypeOK ==
    /\ listed \in Holder \cup {None}
    /\ \A h \in Holder :
          /\ folder[h].settings \in Settings \cup {None}
          /\ folder[h].cursor.through \in 0 .. MaxHead /\ folder[h].cursor.index \in 0 .. MaxChain
          /\ folder[h].kept \cup folder[h].aside \subseteq Statement
          /\ {folder[h].head, folder[h].cont} \subseteq Statement \cup {None}
          /\ token[h] \in [n : 1 .. MaxSets, origin : Origin] \cup {None}
    /\ att.pc \in {"idle", "begun", "ready", "sent", "answered", "kept", "fetched", "confirmed", "marking"}
    /\ att.reply \in Reply \cup {None}
    /\ panel.pc \in {"idle", "open", "reading"} /\ panel.head \in Statement \cup {None}
    /\ owner.pc \in {"idle", "token", "unlisted", "unkeyed", "delisted", "changed"}

Held(f) == f.kept \cup f.aside
Shows(f) ==
    /\ f.cursor.through > 0 => \E s \in Held(f) : Confirms(s, f.cursor.through) /\ s.index = f.cursor.index
    /\ f.cursor.index <= IndexOf(f.cont)
    /\ \A i \in 1 .. IndexOf(f.cont) : \E s \in Held(f) : s.index = i
    /\ f.head # None => f.head \in Held(f)

\* What Desk says was countersigned it can show: the statement the cursor
\* names, every statement before it and before the continuation, and the
\* head, are on the holder's disk, through every crash between the answer,
\* the reading and the cursor.
EvidenceKept == \A h \in Holder : Shows(folder[h])

\* A statement Desk kept stays kept, whatever replaces or removes the witness,
\* and a proof of two chains least of all: the reading that finds one moves the
\* statements aside and drops none. (One received and not yet kept can be lost, to
\* a write that fails or a crash.)
KeptStatementsStay ==
    [][\A h \in Holder : Held(folder[h]) \subseteq Held(folder[h])']_vars

\* Once a change or a removal is made, nothing is on its way under what it
\* replaced.
SentUnderTheCurrent ==
    att.pc = "sent" => /\ listed = att.holder /\ token[listed] = att.token
                       /\ folder[listed].settings = att.settings

\* witness.go:570-573: what is on its way carries the token its owner gave last,
\* to the origin confirmed with it, whatever changes and removals went before and
\* wherever one stopped: between the token and the settings of a change of URL,
\* before a new witness was listed, or after a removed one's token was gone. An
\* older token never goes out again, nor a new one to the origin it replaced.
SentAsConfirmed ==
    att.pc = "sent" =>
        att.token.n = agreed.n /\ att.settings.origin = agreed.origin

\* A witness that is listed can be read, and so removed, wherever a change
\* of it stopped.
ListedIsWhole == listed # None => folder[listed].settings # None

\* A witness that countersigns for this desk alone comes to the trail's head,
\* and the cursor with it, however many answers are lost on the way.
Undisturbed ==
    /\ listed # None /\ TokenFor(listed, Shown) /\ folder[listed].settings # None
    /\ folder[listed].cursor.below < trail
    /\ \A i \in 1 .. Len(chain) : chain[i].kind = "checkpoint" /\ chain[i].ours /\ chain[i].seq <= trail
    /\ Len(chain) < MaxChain \/ \E s \in Checkpoints : s.seq = trail
    /\ \A s \in folder[listed].kept \cup Given(folder[listed].cont) : ~s.fork
CursorReachesHead ==
    <>[]Undisturbed => <>[](listed # None /\ folder[listed].cursor.through = trail)
================================================================================
