----------------------------- MODULE WitnessProofs -----------------------------
(***************************************************************************)
(* Proofs about the witness of one desk, for every number of holders,      *)
(* origins, records and statements. Two facts carry them. A folder only    *)
(* grows (`Grown`): no step drops a statement or takes the continuation    *)
(* back, and one that shows what its cursor claims goes on showing it;     *)
(* what a reading of the chain does to it is GrownRead. And a change keeps *)
(* apart from submissions and readings (`Apart`), so that what one of them *)
(* read under the lock is still so when it uses it (`Submitted`,           *)
(* `Answered`, `Opened`).                                                  *)
(***************************************************************************)
EXTENDS Witness, TLAPS

Cursor == [through : 0 .. MaxHead, index : 0 .. MaxChain, below : 0 .. MaxHead, retired : BOOLEAN]
Folder == [settings : Settings \cup {None}, cursor : Cursor, kept : SUBSET Statement,
           aside : SUBSET Statement, head : Statement \cup {None}, cont : Statement \cup {None}]

Grown(f, g) ==
    /\ Held(f) \subseteq Held(g) /\ IndexOf(f.cont) <= IndexOf(g.cont)
    /\ Shows(f) => Shows(g)

\* The index of a continuation is a number, 0 where there is none.
LEMMA Indexes ==
  ASSUME NEW c \in Statement \cup {None}
  PROVE  /\ IndexOf(c) \in 0 .. MaxChain
         /\ c # None => IndexOf(c) = c.index /\ Given(c) = {c}
         /\ c = None => IndexOf(c) = 0 /\ Given(c) = {}
  BY WitnessAssumption DEF IndexOf, Given, Statement

\* Keeping statements (keepWitnessStatement) grows a folder.
LEMMA GrownKept ==
  ASSUME NEW f \in Folder, NEW S \in SUBSET Statement
  PROVE  LET g == [f EXCEPT !.kept = @ \cup S]
         IN  g \in Folder /\ Grown(f, g) /\ g.settings = f.settings /\ S \subseteq Held(g) /\ g.cont = f.cont
<1> DEFINE g == [f EXCEPT !.kept = @ \cup S]
<1>1. g \in Folder
  BY DEF Folder
<1>2. /\ g.kept = f.kept \cup S /\ g.aside = f.aside /\ g.cont = f.cont /\ g.head = f.head
      /\ g.cursor = f.cursor /\ g.settings = f.settings
  BY DEF Folder
<1>3. Held(f) \subseteq Held(g) /\ S \subseteq Held(g)
  BY <1>2 DEF Held
<1>4. Shows(f) => Shows(g)
  BY <1>2, <1>3 DEF Shows
<1>5. IndexOf(f.cont) <= IndexOf(g.cont)
  BY <1>2, Indexes DEF Folder
<1> QED
  BY <1>1, <1>2, <1>3, <1>4, <1>5 DEF Grown

\* So does keeping pages with the head, and the head file with them.
LEMMA GrownHead ==
  ASSUME NEW f \in Folder, NEW S \in SUBSET Statement, NEW head \in Statement
  PROVE  LET g == [f EXCEPT !.kept = @ \cup S \cup {head}, !.head = head]
         IN  g \in Folder /\ Grown(f, g) /\ g.settings = f.settings /\ head \in Held(g)
<1> DEFINE g == [f EXCEPT !.kept = @ \cup S \cup {head}, !.head = head]
<1>1. g \in Folder
  BY DEF Folder
<1>2. /\ g.kept = f.kept \cup S \cup {head} /\ g.aside = f.aside /\ g.cont = f.cont /\ g.head = head
      /\ g.cursor = f.cursor /\ g.settings = f.settings
  BY DEF Folder
<1>3. Held(f) \subseteq Held(g) /\ head \in Held(g)
  BY <1>2 DEF Held
<1>4. Shows(f) => Shows(g)
  BY <1>2, <1>3 DEF Shows
<1>5. IndexOf(f.cont) <= IndexOf(g.cont)
  BY <1>2, Indexes DEF Folder
<1> QED
  BY <1>1, <1>2, <1>3, <1>4, <1>5 DEF Grown

\* A reading with no finding comes to a last statement, with every index from
\* the continuation to it among those read.
LEMMA Continues ==
  ASSUME NEW cont \in Statement \cup {None}, NEW S \in SUBSET Statement,
         NEW head \in Statement \cup {None}, Unbroken(cont, S, head)
  PROVE  \E l \in Joined(cont, S, head) :
         /\ l = LastOf(Joined(cont, S, head)) /\ l \in Statement
         /\ IndexOf(cont) <= l.index
         /\ head # None => head.index <= l.index
         /\ \A i \in IndexOf(cont) + 1 .. l.index : \E s \in Joined(cont, S, head) : s.index = i
<1> DEFINE all == Joined(cont, S, head)
<1>1. PICK last \in all : /\ \A s \in all : s.index <= last.index
                          /\ \A i \in IndexOf(cont) + 1 .. last.index : \E s \in all : s.index = i
                          /\ head # None => last = head
  BY DEF Unbroken
<1>2. LastOf(all) \in all /\ \A s \in all : s.index <= LastOf(all).index
  BY <1>1 DEF LastOf
<1>3. all \in SUBSET Statement
  BY Indexes DEF Joined
<1>4. \A s \in all : s.index \in Nat
  BY <1>3, WitnessAssumption DEF Statement
<1>5. LastOf(all).index = last.index
  <2> DEFINE l == LastOf(all)
  <2>1. l \in all /\ l.index <= last.index /\ last.index <= l.index /\ l.index \in Nat /\ last.index \in Nat
    BY <1>1, <1>2, <1>4
  <2> HIDE DEF l
  <2>2. l.index = last.index
    BY <2>1
  <2> QED
    BY <2>2 DEF l
<1>6. IndexOf(cont) <= LastOf(all).index
  <2>1. CASE cont = None
    BY <2>1, <1>2, <1>4, Indexes
  <2>2. CASE cont # None
    BY <2>2, <1>2, Indexes DEF Joined
  <2> QED
    BY <2>1, <2>2
<1>7. head # None => head.index <= LastOf(all).index
  BY <1>2, Indexes DEF Joined
<1> QED
  BY <1>1, <1>2, <1>3, <1>5, <1>6, <1>7

\* What a reading does to a folder of which the head is kept.
LEMMA GrownRead ==
  ASSUME NEW f \in Folder, NEW S \in SUBSET f.kept, NEW head \in Statement \cup {None},
         head # None => head \in Held(f), NEW save \in BOOLEAN
  PROVE  LET g == AfterReading(f, S, head, save)
         IN  /\ g \in Folder /\ Grown(f, g) /\ g.settings = f.settings
             /\ ~InSteps(f) /\ save /\ Unbroken(f.cont, S, head) /\ head # None =>
                  head.index <= IndexOf(g.cont)
<1> DEFINE read == ReadHead(f, head)
           all == Joined(f.cont, S, read)
           g == AfterReading(f, S, head, save)
<1>a. InSteps(f) => read = None
  BY DEF ReadHead
<1>b. ~InSteps(f) => read = head
  BY DEF ReadHead
<1>0. f.kept \in SUBSET Statement /\ f.cont \in Statement \cup {None} /\ read \in Statement \cup {None}
  BY <1>a, <1>b DEF Folder
<1> HIDE DEF read
<1>c. ~Unbroken(f.cont, S, read) => InSteps(f) \/ ~Unbroken(f.cont, S, head)
  BY <1>b
<1>1. CASE Unbroken(f.cont, S, read) /\ save
  <2>1. PICK l \in all :
        /\ l = LastOf(all) /\ l \in Statement /\ IndexOf(f.cont) <= l.index
        /\ read # None => read.index <= l.index
        /\ \A i \in IndexOf(f.cont) + 1 .. l.index : \E s \in all : s.index = i
    BY <1>0, <1>1, Continues
  <2>2. g = [f EXCEPT !.cont = l]
    BY <1>1, <2>1 DEF AfterReading, read
  <2> HIDE DEF g
  <2>3. g \in Folder
    BY <2>1, <2>2 DEF Folder
  <2>4. /\ g.kept = f.kept /\ g.aside = f.aside /\ g.cont = l /\ g.head = f.head
        /\ g.cursor = f.cursor /\ g.settings = f.settings
    BY <2>2 DEF Folder
  <2>5. Held(g) = Held(f)
    BY <2>4 DEF Held
  <2>6. IndexOf(g.cont) = l.index /\ l.index \in 0 .. MaxChain
    BY <2>1, <2>4, Indexes, WitnessAssumption
  <2>7. IndexOf(f.cont) \in 0 .. MaxChain /\ f.cursor.index \in 0 .. MaxChain
    BY <1>0, Indexes DEF Folder, Cursor
  <2>8. ASSUME Shows(f) PROVE Shows(g)
    <3>1. g.cursor.index <= IndexOf(g.cont)
      BY <2>1, <2>4, <2>6, <2>7, <2>8, WitnessAssumption DEF Shows
    <3>2. \A i \in 1 .. IndexOf(g.cont) : \E s \in Held(g) : s.index = i
      <4> SUFFICES ASSUME NEW i \in 1 .. l.index PROVE \E s \in Held(f) : s.index = i
        BY <2>5, <2>6
      <4>1. CASE i <= IndexOf(f.cont)
        BY <4>1, <2>7, <2>8, WitnessAssumption DEF Shows
      <4>2. CASE ~(i <= IndexOf(f.cont))
        <5>1. i \in IndexOf(f.cont) + 1 .. l.index
          BY <4>2, <2>6, <2>7, WitnessAssumption
        <5>2. PICK s \in all : s.index = i
          BY <5>1, <2>1
        <5>3. CASE s \in S \/ s \in Given(read)
          BY <5>2, <5>3, <1>a, <1>b DEF Held, Given
        <5>4. CASE s \in Given(f.cont)
          <6>1. f.cont # None /\ s = f.cont
            BY <5>4 DEF Given
          <6>2. s.index = IndexOf(f.cont)
            BY <6>1 DEF IndexOf
          <6> QED
            BY <6>2, <5>2, <4>2, <2>7, WitnessAssumption
        <5> QED
          BY <5>2, <5>3, <5>4 DEF Joined
      <4> QED
        BY <4>1, <4>2
    <3> QED
      BY <3>1, <3>2, <2>4, <2>5, <2>8 DEF Shows
  <2>9. ~InSteps(f) /\ head # None => head.index <= IndexOf(g.cont)
    BY <2>1, <2>6, <1>b
  <2> QED
    BY <2>1, <2>3, <2>4, <2>5, <2>6, <2>8, <2>9 DEF g, Grown
<1>2. CASE Unbroken(f.cont, S, read) /\ ~save
  <2>1. g = [f EXCEPT !.cont = f.cont]
    BY <1>2 DEF AfterReading, read
  <2>2. g = f
    BY <2>1 DEF Folder
  <2> HIDE DEF g
  <2> QED
    BY <2>2, <1>2, <1>0, Indexes, WitnessAssumption DEF Grown, g
<1>3. CASE ~Unbroken(f.cont, S, read) /\ Equivocation(all)
  <2>1. g = [f EXCEPT !.aside = f.aside \cup f.kept, !.kept = {}]
    BY <1>3 DEF AfterReading, read
  <2> HIDE DEF g
  <2>2. g \in Folder
    BY <2>1 DEF Folder
  <2>3. /\ g.kept = {} /\ g.aside = f.aside \cup f.kept /\ g.cont = f.cont /\ g.head = f.head
        /\ g.cursor = f.cursor /\ g.settings = f.settings
    BY <2>1 DEF Folder
  <2>4. Held(g) = Held(f)
    BY <2>3 DEF Held
  <2>5. Grown(f, g)
    BY <2>3, <2>4, <1>0, Indexes, WitnessAssumption DEF Grown, Shows
  <2> QED
    BY <2>2, <2>3, <2>5, <1>3, <1>c DEF g
<1>4. CASE ~Unbroken(f.cont, S, read) /\ ~Equivocation(all)
  <2>1. g = f
    BY <1>4 DEF AfterReading, read
  <2> HIDE DEF g
  <2> QED
    BY <2>1, <1>4, <1>c, <1>0, Indexes, WitnessAssumption DEF Grown, g
<1> QED
  BY <1>1, <1>2, <1>3, <1>4

-----------------------------------------------------------------------------
(* The invariant.                                                            *)

Token == [n : 1 .. MaxSets, origin : Origin]
Agreed == [n : 0 .. MaxSets, origin : Origin \cup {None}]
AttPcs == {"idle", "begun", "ready", "sent", "answered", "kept", "fetched", "confirmed", "marking"}
AttState == [pc : AttPcs, holder : Holder \cup {None}, settings : Settings \cup {None},
             token : Token \cup {None}, sent : 0 .. MaxHead, reply : Reply \cup {None}]
PanelState == [pc : {"idle", "open", "reading"}, holder : Holder \cup {None},
               head : Statement \cup {None}]
OwnerState == [pc : {"idle", "token", "unlisted", "unkeyed", "delisted", "changed"},
               holder : Holder \cup {None}, origin : Origin \cup {None}]
Offer == [origin : Origin \cup {None}, over : Settings \cup {None}]

Types ==
    /\ listed \in Holder \cup {None} /\ folder \in [Holder -> Folder]
    /\ token \in [Holder -> Token \cup {None}] /\ agreed \in Agreed
    /\ trail \in 0 .. MaxHead /\ chain \in Seq(Statement)
    /\ att \in AttState /\ panel \in PanelState /\ owner \in OwnerState /\ offers \in SUBSET Offer

\* The witness signs one statement after another.
Chained == Len(chain) <= MaxChain /\ \A i \in 1 .. Len(chain) : chain[i].index = i

\* What a submission read is still so until its answer is there.
Submitted ==
    /\ att.pc \notin {"idle", "begun"} =>
         att.holder \in Holder /\ att.settings \in Settings /\ att.sent \in 1 .. MaxHead
    /\ att.pc \in {"ready", "sent"} =>
         listed = att.holder /\ folder[att.holder].settings = att.settings
    /\ att.pc = "sent" =>
         /\ att.token \in Token /\ token[att.holder] = att.token /\ att.token # None
         /\ att.token.origin = att.settings.origin

\* No change is under way beside a submission or a reading.
Apart == owner.pc \notin {"idle", "changed"} => att.pc \in {"idle", "begun"} /\ panel.pc = "idle"

\* What an answer says is kept before it is believed.
Answered ==
    /\ att.pc \in {"answered", "kept", "fetched", "confirmed", "marking"} =>
         att.reply \in Reply /\ \A s \in att.reply.says : s.index <= Len(chain) + 1
    /\ att.pc = "answered" /\ att.reply.status \in {"200", "conflict", "below-head", "retired"} =>
         att.reply.says # {}
    /\ att.pc \in {"kept", "fetched", "confirmed", "marking"} => att.reply.says # {}
    /\ att.pc \in {"kept", "fetched", "confirmed"} =>
         Says \in Held(Mine) /\ Confirms(Says, att.sent)
    /\ att.pc = "confirmed" => Says.index <= IndexOf(Mine.cont)

\* The decision record reads a head that is kept.
Opened ==
    /\ panel.pc # "idle" => panel.holder \in Holder
    /\ panel.pc = "reading" /\ panel.head # None => panel.head \in Held(folder[panel.holder])

\* Where a change is, and what it has still to do.
Changing ==
    /\ owner.pc # "idle" => owner.holder \in Holder
    /\ owner.pc = "token" =>
         agreed.n \in 1 .. MaxSets /\ owner.origin \in Origin /\ listed \in {None, owner.holder}
    /\ owner.pc = "unlisted" => folder[owner.holder].settings # None
    /\ owner.pc = "delisted" => listed = None

\* The token of the witness listed, where it has one, is the last confirmed, and
\* so is that of the one a change is about to list.
Latest ==
    /\ listed # None /\ token[listed] # None => token[listed] = agreed
    /\ owner.pc \in {"token", "unlisted"} => token[owner.holder] = agreed

IInv == /\ Types /\ Chained /\ Submitted /\ Apart /\ Answered /\ Opened /\ Changing /\ Latest
        /\ ListedIsWhole /\ EvidenceKept

-----------------------------------------------------------------------------
(* The next-state relation by what its actions leave alone.                  *)

Asking == TakesTurn \/ AttemptReads \/ AttemptSends \/ AnswerEnds
Keeping == KeepsAnswer \/ FetchesMissing \/ ReadsAnswer \/ MovesCursor \/ KeepsRefusal \/ MarksCursor
Replying == Serve \/ NotServed \/ Err
Reading == PanelOpens \/ PanelFetches \/ PanelReads
Owning == Checks \/ OffersRemoval \/ SetsToken \/ RemovesToken \/ Change
Moving == IntervalPasses \/ RetryPasses \/ TrailGrows \/ OthersSign \/ Retires

\* Every step is of one of these groups.
LEMMA NextGroups ==
  ASSUME Next
  PROVE  Asking \/ Keeping \/ Replying \/ Reading \/ Owning \/ Moving \/ Crash
  BY DEF Next, Asking, Keeping, Replying, Reading, Owning, Moving, Wake, SendNow, Attempt

\* And leaves alone what its group does.
LEMMA Frames ==
  /\ Asking => UNCHANGED <<listed, folder, token, agreed, trail, chain, panel, owner, offers>>
  /\ Keeping => UNCHANGED <<listed, token, agreed, trail, chain, panel, owner, offers>>
  /\ Replying => UNCHANGED <<listed, folder, token, agreed, trail, panel, owner, offers>>
  /\ Reading => UNCHANGED <<listed, token, agreed, trail, chain, att, owner, offers>>
  /\ Owning => UNCHANGED <<trail, chain, att, panel>>
  /\ Moving => UNCHANGED <<listed, folder, token, agreed, att, panel, owner, offers>>
<1> USE DEF disk, world
<1>1. Asking => UNCHANGED <<listed, folder, token, agreed, trail, chain, panel, owner, offers>>
  BY DEF Asking, TakesTurn, AttemptReads, AttemptSends, AnswerEnds, AttemptFrame
<1>2. Keeping => UNCHANGED <<listed, token, agreed, trail, chain, panel, owner, offers>>
  BY DEF Keeping, KeepsAnswer, FetchesMissing, ReadsAnswer, MovesCursor, KeepsRefusal, MarksCursor,
         UpdatesCursor, AttemptFrame
<1>3. Replying => UNCHANGED <<listed, folder, token, agreed, trail, panel, owner, offers>>
  BY DEF Replying, Serve, NotServed, Err, Replies
<1>4. Reading => UNCHANGED <<listed, token, agreed, trail, chain, att, owner, offers>>
  BY DEF Reading, PanelOpens, PanelFetches, PanelReads, PanelFrame
<1>5. Owning => UNCHANGED <<trail, chain, att, panel>>
  BY DEF Owning, Checks, OffersRemoval, Opens, SetsToken, RemovesToken, Change, SetsSettings, SetsList,
         RemovesFromList, RemovesSettings, SettingsChanged, OwnerFrame
<1>6. Moving => UNCHANGED <<listed, folder, token, agreed, att, panel, owner, offers>>
  BY DEF Moving, IntervalPasses, RetryPasses, TrailGrows, OthersSign, Retires, Outside
<1> QED
  BY <1>1, <1>2, <1>3, <1>4, <1>5, <1>6

-----------------------------------------------------------------------------
(* Folders.                                                                  *)

\* What every step does to the folders.
Folders ==
    /\ folder' \in [Holder -> Folder]
    /\ \A h \in Holder :
         /\ Grown(folder[h], folder'[h])
         /\ folder'[h].settings = folder[h].settings
              \/ (owner.pc \in {"token", "delisted"} /\ h = owner.holder)

\* A folder grows from itself.
LEMMA Same ==
  ASSUME NEW f \in Folder
  PROVE  Grown(f, f)
  BY Indexes, WitnessAssumption DEF Grown, Folder

\* Putting a grown folder in its place is such a step.
LEMMA PutFolder ==
  ASSUME Types, NEW h \in Holder, NEW g \in Folder, InFolder(h, g), Grown(folder[h], g),
         g.settings = folder[h].settings \/ (owner.pc \in {"token", "delisted"} /\ h = owner.holder)
  PROVE  Folders
<1>1. folder \in [Holder -> Folder] /\ folder' = [folder EXCEPT ![h] = g]
  BY DEF Types, InFolder
<1>2. folder' \in [Holder -> Folder]
  BY <1>1
<1>3. folder'[h] = g /\ \A k \in Holder \ {h} : folder'[k] = folder[k]
  BY <1>1
<1>4. \A k \in Holder \ {h} : Grown(folder[k], folder'[k])
  <2> SUFFICES ASSUME NEW k \in Holder \ {h} PROVE Grown(folder[k], folder'[k])
    OBVIOUS
  <2>1. folder[k] \in Folder /\ folder'[k] = folder[k]
    BY <1>1, <1>3
  <2> QED
    BY <2>1, Same
<1>5. Grown(folder[h], folder'[h])
  BY <1>3
<1> QED
  BY <1>2, <1>3, <1>4, <1>5 DEF Folders

\* And so is a step that leaves the folders.
LEMMA Unmoved ==
  ASSUME Types, UNCHANGED folder
  PROVE  Folders
<1>1. folder \in [Holder -> Folder]
  BY DEF Types
<1>2. folder' = folder
  OBVIOUS
<1>3. ASSUME NEW h \in Holder PROVE Grown(folder[h], folder'[h])
  <2>1. folder[h] \in Folder /\ folder'[h] = folder[h]
    BY <1>1, <1>2
  <2> QED
    BY <2>1, Same
<1> QED
  BY <1>1, <1>2, <1>3 DEF Folders

\* Statements the witness serves.
LEMMA Pages ==
  ASSUME Types, NEW from \in Nat \ {0}, NEW upto \in 0 .. Len(chain)
  PROVE  Page(from, upto) \in SUBSET Statement
  BY DEF Types, Page

\* A step that keeps statements touches folders as such a step may.
LEMMA KeepingFolders ==
  ASSUME IInv, Keeping
  PROVE  Folders
<1>0. Types /\ Chained /\ Submitted /\ Answered
  BY DEF IInv
<1>1. ASSUME UNCHANGED folder PROVE Folders
  BY <1>0, <1>1, Unmoved
<1>2. ASSUME att.pc \in {"answered", "kept", "fetched", "confirmed", "marking"}
      PROVE  /\ att.holder \in Holder /\ Mine \in Folder /\ att.reply \in Reply
             /\ att.reply.says \in SUBSET Statement /\ att.sent \in 1 .. MaxHead
  BY <1>0, <1>2 DEF Types, Submitted, Answered, Mine, Reply
<1>3. ASSUME att.holder \in Holder, Mine \in Folder, NEW g \in Folder, InFolder(att.holder, g),
             Grown(Mine, g), g.settings = Mine.settings
      PROVE  Folders
  BY <1>0, <1>3, PutFolder DEF Mine
<1>4. ASSUME att.holder \in Holder, Mine \in Folder, NEW S \in SUBSET Statement,
             InFolder(att.holder, [Mine EXCEPT !.kept = @ \cup S])
      PROVE  Folders
  BY <1>3, <1>4, GrownKept
<1>5. CASE KeepsAnswer
  BY <1>1, <1>2, <1>4, <1>5 DEF KeepsAnswer
<1>6. CASE KeepsRefusal
  BY <1>1, <1>2, <1>4, <1>6 DEF KeepsRefusal
<1>7. CASE FetchesMissing
  <2>1. att.pc = "kept"
    BY <1>7 DEF FetchesMissing
  <2>a. PICK last \in Contiguous(Mine) : \E upto \in {last} \cup last .. Says.index - 1 :
          InFolder(att.holder, [Mine EXCEPT !.kept = @ \cup Page(last + 1, upto)])
    BY <1>7 DEF FetchesMissing
  <2>2. PICK upto \in {last} \cup last .. Says.index - 1 :
          InFolder(att.holder, [Mine EXCEPT !.kept = @ \cup Page(last + 1, upto)])
    BY <2>a
  <2>3. last \in Nat
    BY <2>1, <1>2, Indexes, WitnessAssumption DEF Contiguous, Folder
  <2>4. Says \in att.reply.says /\ Says.index <= Len(chain) + 1 /\ Says.index \in Nat /\ Len(chain) \in Nat
    BY <2>1, <1>0, <1>2, WitnessAssumption DEF Answered, Says, The, Types, Statement
  <2>5. Page(last + 1, upto) \in SUBSET Statement
    <3>1. CASE upto = last
      BY <3>1, <2>3 DEF Page
    <3>2. CASE upto \in last .. Says.index - 1
      BY <3>2, <2>3, <2>4, <1>0, Pages
    <3> QED
      BY <3>1, <3>2
  <2> QED
    BY <1>2, <1>4, <2>1, <2>2, <2>5
<1>8. CASE ReadsAnswer
  <2>1. att.pc = "fetched"
    BY <1>8 DEF ReadsAnswer
  <2>2. Says \in Held(Mine) /\ Says \in Statement
    BY <2>1, <1>0, <1>2 DEF Answered, Says, The
  <2>3. CASE InFolder(att.holder, AfterReading(Mine, Selected(Mine), Says, TRUE))
    <3> DEFINE g == AfterReading(Mine, Selected(Mine), Says, TRUE)
    <3>1. Selected(Mine) \in SUBSET Mine.kept
      BY DEF Selected
    <3>2. g \in Folder /\ Grown(Mine, g) /\ g.settings = Mine.settings
      BY <3>1, <2>1, <2>2, <1>2, GrownRead
    <3> HIDE DEF g
    <3> QED
      BY <3>2, <2>1, <2>3, <1>2, <1>3 DEF g
  <2> QED
    BY <1>1, <1>8, <2>3 DEF ReadsAnswer
<1>9. ASSUME NEW c \in Cursor, att.holder \in Holder, Mine \in Folder,
             Shows(Mine) => Shows([Mine EXCEPT !.cursor = c]), UpdatesCursor(c)
      PROVE  Folders
  <2> DEFINE g == [Mine EXCEPT !.cursor = c]
  <2>1. g \in Folder /\ g.settings = Mine.settings /\ g.cont = Mine.cont /\ g.kept = Mine.kept /\ g.aside = Mine.aside
    BY <1>9 DEF Folder
  <2>2. Grown(Mine, g)
    BY <1>9, <2>1, Indexes, WitnessAssumption DEF Grown, Held, Folder
  <2>3. CASE InFolder(att.holder, g)
    BY <1>3, <1>9, <2>1, <2>2, <2>3
  <2> QED
    BY <1>1, <1>9, <2>3 DEF UpdatesCursor
<1>10. ASSUME NEW c \in Cursor, NEW f \in Folder
       PROVE  LET g == [f EXCEPT !.cursor = c]
              IN  g.cursor = c /\ g.cont = f.cont /\ Held(g) = Held(f) /\ g.head = f.head
  BY DEF Folder, Held
<1>11. CASE MovesCursor
  <2> DEFINE c == [Mine.cursor EXCEPT !.through = att.sent, !.index = Says.index]
  <2>1. att.pc = "confirmed" /\ UpdatesCursor(c)
    BY <1>11 DEF MovesCursor
  <2>2. Says \in Held(Mine) /\ Says \in Statement /\ Confirms(Says, att.sent) /\ Says.index <= IndexOf(Mine.cont)
    BY <2>1, <1>0, <1>2 DEF Answered, Says, The
  <2>a. Mine.cursor \in Cursor
    BY <2>1, <1>2 DEF Folder
  <2>b. Says.index \in 0 .. MaxChain /\ att.sent \in 0 .. MaxHead
    BY <2>1, <2>2, <1>2, WitnessAssumption DEF Statement
  <2>3. c \in Cursor /\ c.through = att.sent /\ c.index = Says.index
    BY <2>a, <2>b DEF Cursor
  <2> HIDE DEF c
  <2>4. Shows(Mine) => Shows([Mine EXCEPT !.cursor = c])
    BY <2>1, <2>2, <2>3, <1>2, <1>10 DEF Shows
  <2> QED
    BY <1>2, <1>9, <2>1, <2>3, <2>4
<1>12. CASE MarksCursor
  <2> DEFINE c == [Mine.cursor EXCEPT
                     !.below = IF att.reply.status = "below-head" THEN Says.seq ELSE @,
                     !.retired = @ \/ (att.reply.status = "retired" /\ Says.kind = "retirement")]
  <2>1. att.pc = "marking" /\ UpdatesCursor(c)
    BY <1>12 DEF MarksCursor
  <2>2. Says \in Statement
    BY <2>1, <1>0, <1>2 DEF Answered, Says, The
  <2>a. Mine.cursor \in Cursor
    BY <2>1, <1>2 DEF Folder
  <2>b. Says.seq \in 0 .. MaxHead
    BY <2>2, WitnessAssumption DEF Statement
  <2>c. (Mine.cursor.retired \/ (att.reply.status = "retired" /\ Says.kind = "retirement")) \in BOOLEAN
    OBVIOUS
  <2>3. c \in Cursor /\ c.through = Mine.cursor.through /\ c.index = Mine.cursor.index
    BY <2>a, <2>b, <2>c DEF Cursor
  <2> HIDE DEF c
  <2>4. Shows(Mine) => Shows([Mine EXCEPT !.cursor = c])
    BY <2>1, <2>3, <1>2, <1>10 DEF Shows
  <2> QED
    BY <1>2, <1>9, <2>1, <2>3, <2>4
<1> QED
  BY <1>5, <1>6, <1>7, <1>8, <1>11, <1>12 DEF Keeping

\* So does one of the decision record.
LEMMA ReadingFolders ==
  ASSUME IInv, Reading
  PROVE  Folders
<1>0. Types /\ Chained /\ Opened
  BY DEF IInv
<1>1. ASSUME UNCHANGED folder PROVE Folders
  BY <1>0, <1>1, Unmoved
<1>2. ASSUME panel.pc # "idle"
      PROVE  panel.holder \in Holder /\ folder[panel.holder] \in Folder
  BY <1>0, <1>2 DEF Types, Opened
<1>3. CASE PanelOpens
  BY <1>1, <1>3 DEF PanelOpens
<1>4. CASE PanelFetches
  <2> DEFINE f == folder[panel.holder]
             n == Len(chain)
  <2>1. panel.pc = "open" /\ f \in Folder /\ panel.holder \in Holder
    BY <1>2, <1>4 DEF PanelFetches
  <2>2. CASE UNCHANGED folder
    BY <1>1, <2>2
  <2>3. CASE ~UNCHANGED folder
    <3>1. chain # <<>>
      BY <1>4, <2>3 DEF PanelFetches
    <3>2. PICK upto \in {IndexOf(f.cont)} \cup IndexOf(f.cont) .. n - 1 :
            InFolder(panel.holder,
              [f EXCEPT !.kept = @ \cup Page(IndexOf(f.cont) + 1, upto) \cup {chain[n]},
                        !.head = IF upto >= n - 1 THEN chain[n] ELSE @])
      BY <1>4, <2>3 DEF PanelFetches
    <3>3. chain[n] \in Statement /\ n \in Nat \ {0}
      BY <3>1, <1>0 DEF Types
    <3>4. IndexOf(f.cont) \in Nat
      BY <2>1, Indexes, WitnessAssumption DEF Folder
    <3>5. Page(IndexOf(f.cont) + 1, upto) \in SUBSET Statement
      <4>1. CASE upto = IndexOf(f.cont)
        BY <4>1, <3>4 DEF Page
      <4>2. CASE upto \in IndexOf(f.cont) .. n - 1
        BY <4>2, <3>3, <3>4, <1>0, Pages
      <4> QED
        BY <4>1, <4>2, <3>2
    <3> DEFINE S == Page(IndexOf(f.cont) + 1, upto)
               g == [f EXCEPT !.kept = @ \cup S \cup {chain[n]}, !.head = chain[n]]
               k == [f EXCEPT !.kept = @ \cup (S \cup {chain[n]})]
    <3>6. CASE upto >= n - 1
      <4>1. InFolder(panel.holder, g)
        BY <3>2, <3>6
      <4>2. g \in Folder /\ Grown(f, g) /\ g.settings = f.settings
        <5>1. f \in Folder /\ S \in SUBSET Statement /\ chain[n] \in Statement
          BY <3>3, <3>5, <2>1
        <5> HIDE DEF S
        <5> QED BY <5>1, GrownHead
      <4> HIDE DEF g, S
      <4> QED
        BY <4>1, <4>2, <2>1, <1>0, PutFolder
    <3>7. CASE ~(upto >= n - 1)
      <4>1. [f EXCEPT !.kept = @ \cup S \cup {chain[n]}, !.head = @] = k
        BY <2>1 DEF Folder
      <4>2. InFolder(panel.holder, k)
        BY <3>2, <3>7, <4>1
      <4>3. S \cup {chain[n]} \in SUBSET Statement
        BY <3>3, <3>5
      <4>4. k \in Folder /\ Grown(f, k) /\ k.settings = f.settings
        BY <4>3, <2>1, GrownKept
      <4> HIDE DEF k, S
      <4> QED
        BY <4>2, <4>4, <2>1, <1>0, PutFolder
    <3> QED
      BY <3>6, <3>7
  <2> QED
    BY <2>2, <2>3
<1>5. CASE PanelReads
  <2> DEFINE f == folder[panel.holder]
  <2>1. panel.pc = "reading" /\ f \in Folder /\ panel.holder \in Holder
    BY <1>2, <1>5 DEF PanelReads
  <2>2. panel.head \in Statement \cup {None} /\ (panel.head # None => panel.head \in Held(f))
    BY <2>1, <1>0 DEF Types, PanelState, Opened
  <2>3. ASSUME NEW S \in Steps(f), NEW save \in BOOLEAN,
               InFolder(panel.holder, AfterReading(f, S, panel.head, save))
        PROVE  Folders
    <3> DEFINE g == AfterReading(f, S, panel.head, save)
    <3>1. S \in SUBSET f.kept
      BY DEF Steps, Selected
    <3>2. g \in Folder /\ Grown(f, g) /\ g.settings = f.settings
      BY <3>1, <2>1, <2>2, GrownRead
    <3> HIDE DEF g
    <3> QED
      BY <3>2, <2>1, <2>3, <1>0, PutFolder DEF g
  <2> QED
    BY <1>1, <1>5, <2>3 DEF PanelReads
<1> QED
  BY <1>3, <1>4, <1>5 DEF Reading

\* And one of the owner: the settings change, nothing else.
LEMMA OwningFolders ==
  ASSUME IInv, Owning
  PROVE  Folders
<1>0. Types /\ Changing
  BY DEF IInv
<1>1. ASSUME UNCHANGED folder PROVE Folders
  BY <1>0, <1>1, Unmoved
<1>2. ASSUME NEW h \in Holder, NEW s \in Settings \cup {None}, h = owner.holder,
             owner.pc \in {"token", "delisted"}, InFolder(h, [folder[h] EXCEPT !.settings = s])
      PROVE  Folders
  <2> DEFINE f == folder[h]
             g == [f EXCEPT !.settings = s]
  <2>1. f \in Folder
    BY <1>0 DEF Types
  <2>2. /\ g \in Folder /\ g.kept = f.kept /\ g.aside = f.aside /\ g.cont = f.cont /\ g.head = f.head
        /\ g.cursor = f.cursor
    BY <2>1 DEF Folder
  <2>3. Held(g) = Held(f)
    BY <2>2 DEF Held
  <2>4. Grown(f, g)
    BY <2>1, <2>2, <2>3, Indexes, WitnessAssumption DEF Grown, Shows, Folder
  <2> QED
    BY <1>0, <1>2, <2>2, <2>4, PutFolder
<1>3. CASE SetsSettings
  <2>1. owner.pc = "token" /\ owner.holder \in Holder /\ owner.origin \in Origin /\ agreed.n \in 1 .. MaxSets
    BY <1>0, <1>3 DEF SetsSettings, Changing
  <2>2. [origin |-> owner.origin, n |-> agreed.n] \in Settings
    BY <2>1 DEF Settings
  <2> QED
    BY <1>1, <1>2, <1>3, <2>1, <2>2 DEF SetsSettings, GivesUpSetting
<1>4. CASE RemovesSettings
  <2>1. owner.pc = "delisted" /\ owner.holder \in Holder
    BY <1>0, <1>4 DEF RemovesSettings, Changing
  <2> QED
    BY <1>1, <1>2, <1>4, <2>1 DEF RemovesSettings
<1>5. CASE Owning /\ ~SetsSettings /\ ~RemovesSettings
  <2>1. UNCHANGED folder
    BY <1>5 DEF Owning, Change, Checks, OffersRemoval, Opens, disk, SetsToken, RemovesToken, SetsList,
       GivesUpSetting, RemovesFromList, SettingsChanged
  <2> QED
    BY <2>1, <1>1
<1> QED
  BY <1>3, <1>4, <1>5

\* Every step does to folders what a step may.
LEMMA FoldersKept ==
  ASSUME IInv, Next
  PROVE  Folders
<1>1. CASE Keeping
  BY <1>1, KeepingFolders
<1>2. CASE Reading
  BY <1>2, ReadingFolders
<1>3. CASE Owning
  BY <1>3, OwningFolders
<1>4. CASE Asking \/ Replying \/ Moving \/ Crash
  <2>1. UNCHANGED folder
    BY <1>4, Frames DEF Crash, disk
  <2> QED
    BY <2>1, Unmoved DEF IInv
<1> QED
  BY <1>1, <1>2, <1>3, <1>4, NextGroups

-----------------------------------------------------------------------------
(* The witness's chain and its answers.                                      *)

\* What the witness signs is the next statement of its chain.
LEMMA Signing ==
  ASSUME Types, Chained, NEW kind \in Kinds, NEW n \in 1 .. MaxHead, NEW ours \in BOOLEAN
  PROVE  LET s == Signed(kind, n, ours)
         IN  /\ s # None /\ s.index = Len(chain) + 1 /\ s.seq = n /\ s.kind = kind /\ s.ours = ours
             /\ Len(chain) < MaxChain => s \in Statement
<1> DEFINE s == Signed(kind, n, ours)
<1>1. Len(chain) \in Nat /\ MaxHead \in Nat /\ MaxChain \in Nat
  BY WitnessAssumption DEF Types
<1>2. s = [index |-> Len(chain) + 1, kind |-> kind, seq |-> n, ours |-> ours, fork |-> FALSE]
  BY DEF Signed
<1> HIDE DEF s
<1>3. s \in [index : Nat, kind : Kinds, seq : Nat, ours : BOOLEAN, fork : BOOLEAN]
  BY <1>1, <1>2
<1>4. s # None
  BY <1>3, WitnessAssumption
<1>5. Len(chain) < MaxChain => s \in Statement
  BY <1>1, <1>2 DEF Statement
<1>6. s.index = Len(chain) + 1 /\ s.seq = n /\ s.kind = kind /\ s.ours = ours
  BY <1>2
<1> QED
  BY <1>4, <1>5, <1>6 DEF s

\* What it signed is of its chain.
LEMMA OfTheChain ==
  ASSUME Types, Chained, NEW i \in 1 .. Len(chain)
  PROVE  chain[i] \in Statement /\ chain[i].index <= Len(chain)
BY DEF Types, Chained

\* What it answers to a checkpoint, and the statement it signs for it.
LEMMA Serving ==
  ASSUME Types, Chained, NEW n \in 1 .. MaxHead, NEW r, r = Served(n)
  PROVE  /\ r[2] = None \/ (r[2].index = Len(chain) + 1 /\ (Len(chain) < MaxChain => r[2] \in Statement))
         /\ (r[2] # None => Len(chain) < MaxChain) =>
              /\ r[1] \in Reply /\ r[1].says # {}
              /\ \A s \in r[1].says : s.index <= Len(chain) + 1
<1> DEFINE same == {s \in Checkpoints : s.seq = n}
           mine == Signed("checkpoint", n, TRUE)
           clash == Signed("conflict", n, TRUE)
           Fine(a) == a \in Reply /\ a.says # {} /\ \A s \in a.says : s.index <= Len(chain) + 1
<1>1. Len(chain) \in Nat /\ chain \in Seq(Statement)
  BY DEF Types
<1>2. \A s \in Checkpoints : s \in Statement /\ s.index <= Len(chain) + 1
  BY <1>1, OfTheChain, WitnessAssumption DEF Checkpoints, Statement
<1>3. chain # <<>> => chain[Len(chain)] \in Statement /\ chain[Len(chain)].index <= Len(chain) + 1
  BY <1>1, OfTheChain, WitnessAssumption DEF Statement
<1>a. "checkpoint" \in Kinds /\ "conflict" \in Kinds /\ TRUE \in BOOLEAN
  BY DEF Kinds
<1>b. mine # None /\ mine.index = Len(chain) + 1 /\ (Len(chain) < MaxChain => mine \in Statement)
  BY <1>a, Signing
<1>c. clash # None /\ clash.index = Len(chain) + 1 /\ (Len(chain) < MaxChain => clash \in Statement)
  BY <1>a, Signing
<1>5. ASSUME NEW status \in {"200", "below-head", "retired", "conflict"}, NEW S \in SUBSET Statement,
             S # {}, \A s \in S : s.index <= Len(chain) + 1
      PROVE  Fine(Answers(status, S))
  BY <1>5 DEF Answers, Reply
<1>6. same \in SUBSET Statement /\ \A s \in same : s.index <= Len(chain) + 1
  BY <1>2
<1> HIDE DEF Fine, same, mine, clash
<1>7. CASE Retired
  <2>0. r = <<Answers("retired", {chain[Len(chain)]}), None>>
    BY <1>7 DEF Served
  <2>1. r[1] = Answers("retired", {chain[Len(chain)]}) /\ r[2] = None
    BY <2>0
  <2>2. Fine(Answers("retired", {chain[Len(chain)]}))
    BY <1>3, <1>5, <1>7 DEF Retired
  <2> QED
    BY <2>1, <2>2 DEF Fine
<1>8. CASE ~Retired /\ \E s \in same : s.ours
  <2>0. r = <<Answers("200", same), None>>
    BY <1>8 DEF Served, same
  <2>1. r[1] = Answers("200", same) /\ r[2] = None
    BY <2>0
  <2>2. Fine(Answers("200", same))
    BY <1>5, <1>6, <1>8
  <2> QED
    BY <2>1, <2>2 DEF Fine
<1>9. CASE ~Retired /\ same # {} /\ \A s \in same : ~s.ours
  <2>0. r = <<Answers("conflict", same \cup {clash}), clash>>
    BY <1>9 DEF Served, same, clash
  <2>1. r[1] = Answers("conflict", same \cup {clash}) /\ r[2] = clash
    BY <2>0
  <2>2. Len(chain) < MaxChain => Fine(Answers("conflict", same \cup {clash}))
    BY <1>1, <1>c, <1>5, <1>6
  <2> QED
    BY <2>1, <2>2, <1>b, <1>c DEF Fine
<1>10. CASE ~Retired /\ same = {} /\ \E s \in Checkpoints : s.seq > n
  <2>0. r = <<Answers("below-head", {chain[Len(chain)]}), None>>
    BY <1>10 DEF Served, same
  <2>1. r[1] = Answers("below-head", {chain[Len(chain)]}) /\ r[2] = None
    BY <2>0
  <2>2. chain # <<>>
    BY <1>10, <1>1 DEF Checkpoints
  <2>3. Fine(Answers("below-head", {chain[Len(chain)]}))
    BY <1>3, <1>5, <2>2
  <2> QED
    BY <2>1, <2>3 DEF Fine
<1>11. CASE ~Retired /\ same = {} /\ ~\E s \in Checkpoints : s.seq > n
  <2>0. r = <<Answers("200", {mine}), mine>>
    BY <1>11 DEF Served, same, mine
  <2>1. r[1] = Answers("200", {mine}) /\ r[2] = mine
    BY <2>0
  <2>2. ASSUME Len(chain) < MaxChain PROVE Fine(Answers("200", {mine}))
    <3>1. {mine} \in SUBSET Statement /\ {mine} # {} /\ \A s \in {mine} : s.index <= Len(chain) + 1
      BY <2>2, <1>1, <1>b
    <3> QED
      BY <3>1, <1>5
  <2> QED
    BY <2>1, <2>2, <1>b, <1>c DEF Fine
<1> QED
  BY <1>7, <1>8, <1>9, <1>10, <1>11

\* The chain is added to, and stays one.
LEMMA ChainKept ==
  ASSUME IInv, Next
  PROVE  chain' \in Seq(Statement) /\ Chained' /\ trail' \in 0 .. MaxHead /\ Len(chain) <= Len(chain')
<1>0. Types /\ Chained /\ Submitted
  BY DEF IInv
<1>1. chain \in Seq(Statement) /\ Len(chain) \in Nat /\ Len(chain) <= MaxChain /\ trail \in 0 .. MaxHead
  BY <1>0 DEF Types, Chained
<1>2. ASSUME UNCHANGED chain PROVE chain' \in Seq(Statement) /\ Chained' /\ Len(chain) <= Len(chain')
  BY <1>0, <1>1, <1>2 DEF Chained
<1>3. ASSUME NEW s \in Statement, s.index = Len(chain) + 1, Len(chain) < MaxChain, chain' = Append(chain, s)
      PROVE  chain' \in Seq(Statement) /\ Chained' /\ Len(chain) <= Len(chain')
  <2>1. chain' \in Seq(Statement) /\ Len(chain') = Len(chain) + 1
    BY <1>1, <1>3
  <2>2. ASSUME NEW i \in 1 .. Len(chain') PROVE chain'[i].index = i
    <3>1. CASE i = Len(chain) + 1
      BY <3>1, <1>1, <1>3
    <3>2. CASE i \in 1 .. Len(chain)
      BY <3>2, <1>0, <1>1, <1>3 DEF Chained
    <3> QED
      BY <3>1, <3>2, <2>1, <1>1
  <2> QED
    BY <2>1, <2>2, <1>1, <1>3, WitnessAssumption DEF Chained
<1>4. trail' \in 0 .. MaxHead
  <2>1. CASE TrailGrows
    BY <2>1, <1>1, WitnessAssumption DEF TrailGrows
  <2>2. CASE ~TrailGrows
    <3>1. trail' = trail
      BY <2>2, NextGroups, Frames DEF Moving, IntervalPasses, RetryPasses, OthersSign, Retires, world, Crash
    <3> QED
      BY <3>1, <1>1
  <2> QED
    BY <2>1, <2>2
<1>5. CASE Replying
  <2>1. att.pc = "sent" /\ att.sent \in 1 .. MaxHead
    BY <1>0, <1>5 DEF Replying, Serve, NotServed, Err, Replies, Submitted
  <2> DEFINE r == Served(att.sent)
  <2>2. r[2] = None \/ (r[2].index = Len(chain) + 1 /\ (Len(chain) < MaxChain => r[2] \in Statement))
    BY <2>1, <1>0, Serving
  <2>3. \/ UNCHANGED chain
        \/ r[2] # None /\ Len(chain) < MaxChain /\ chain' = Append(chain, r[2])
    BY <1>5 DEF Replying, Serve, NotServed, Err, Replies, WitnessServes, AnswerIsLost, WitnessRefuses, WitnessErrs
  <2> HIDE DEF r
  <2> QED
    BY <1>2, <1>3, <1>4, <2>2, <2>3
<1>6. CASE Moving
  <2>1. CASE OthersSign
    <3>1. PICK n \in 1 .. MaxHead, ours \in BOOLEAN :
            chain' = Append(chain, Signed("checkpoint", n, ours)) /\ Len(chain) < MaxChain
      BY <2>1 DEF OthersSign
    <3>2. Signed("checkpoint", n, ours) \in Statement /\ Signed("checkpoint", n, ours).index = Len(chain) + 1
      BY <3>1, <1>0, Signing DEF Kinds
    <3> QED
      BY <3>1, <3>2, <1>3, <1>4
  <2>2. CASE Retires
    <3> DEFINE n == chain[Len(chain)].seq
    <3>1. chain' = Append(chain, Signed("retirement", n, TRUE)) /\ Len(chain) < MaxChain /\ chain # <<>>
      BY <2>2 DEF Retires
    <3>2. n \in 1 .. MaxHead
      <4>1. Len(chain) \in 1 .. Len(chain)
        BY <3>1, <1>1
      <4>2. chain[Len(chain)] \in Statement
        BY <4>1, <1>0, OfTheChain
      <4> QED
        BY <4>2 DEF Statement
    <3> HIDE DEF n
    <3>3. Signed("retirement", n, TRUE) \in Statement /\ Signed("retirement", n, TRUE).index = Len(chain) + 1
      BY <3>1, <3>2, <1>0, Signing DEF Kinds
    <3> QED
      BY <3>1, <3>3, <1>3, <1>4
  <2>3. CASE IntervalPasses \/ RetryPasses \/ TrailGrows
    BY <2>3, <1>2, <1>4 DEF IntervalPasses, RetryPasses, TrailGrows, world
  <2> QED
    BY <1>6, <2>1, <2>2, <2>3 DEF Moving
<1>7. CASE Asking \/ Keeping \/ Reading \/ Owning \/ Crash
  <2>1. UNCHANGED chain
    BY <1>7, Frames DEF Crash, world
  <2> QED
    BY <2>1, <1>2, <1>4
<1> QED
  BY <1>5, <1>6, <1>7, NextGroups

-----------------------------------------------------------------------------
(* The parts of the invariant, one by one.                                   *)

\* What a submission's own part of the state becomes.
LEMMA AskingAtt ==
  ASSUME IInv, Asking
  PROVE  /\ att' \in AttState /\ Submitted' /\ Apart' /\ att'.pc \in {"idle", "begun", "ready", "sent"}
<1>0. Types /\ Submitted /\ Apart
  BY DEF IInv
<1>1. UNCHANGED <<listed, folder, token, panel, owner>>
  BY Frames
<1>2. att \in AttState /\ owner.pc \in {"idle", "token", "unlisted", "unkeyed", "delisted", "changed"}
  BY <1>0 DEF Types, OwnerState
<1>a. ASSUME NEW pc \in {"idle", "begun"}, att' = [Idle EXCEPT !.pc = pc]
      PROVE  att' \in AttState /\ Submitted' /\ Apart' /\ att'.pc \in {"idle", "begun", "ready", "sent"}
  <2>1. att' = [pc |-> pc, holder |-> None, settings |-> None, token |-> None, sent |-> 0, reply |-> None]
    BY <1>a DEF Idle
  <2>2. 0 \in 0 .. MaxHead
    BY WitnessAssumption
  <2>3. att' \in AttState /\ att'.pc = pc
    BY <2>1, <2>2 DEF AttState, AttPcs
  <2>4. Submitted'
    BY <2>3 DEF Submitted
  <2>5. Apart'
    BY <2>3, <1>0, <1>1 DEF Apart
  <2> QED
    BY <2>3, <2>4, <2>5
<1>3. ASSUME att' = Idle
      PROVE  att' \in AttState /\ Submitted' /\ Apart' /\ att'.pc \in {"idle", "begun", "ready", "sent"}
  <2>1. Idle = [Idle EXCEPT !.pc = "idle"]
    BY DEF Idle
  <2> QED
    BY <2>1, <1>1, <1>3, <1>a
<1>4. CASE TakesTurn
  BY <1>4, <1>1, <1>a DEF TakesTurn
<1>5. CASE AttemptReads
  <2>1. CASE End(FALSE)
    BY <2>1, <1>3 DEF End
  <2>2. CASE /\ listed # None /\ folder[listed].settings # None /\ Sends(folder[listed].cursor)
             /\ att' = [att EXCEPT !.pc = "ready", !.holder = listed,
                                   !.settings = folder[listed].settings, !.sent = trail]
    <3>1. listed \in Holder /\ folder[listed] \in Folder /\ trail \in 0 .. MaxHead
      BY <2>2, <1>0 DEF Types
    <3>2. folder[listed].settings \in Settings /\ folder[listed].cursor.through \in Nat
      BY <2>2, <3>1 DEF Folder, Cursor
    <3>3. trail \in 1 .. MaxHead
      BY <2>2, <3>1, <3>2, WitnessAssumption DEF Sends
    <3>4. /\ att'.pc = "ready" /\ att'.holder = listed /\ att'.settings = folder[listed].settings
          /\ att'.sent = trail /\ att' \in AttState
      BY <2>2, <3>1, <3>2, <1>2 DEF AttState, AttPcs
    <3>5. owner.pc \in {"idle", "changed"}
      BY <1>5 DEF AttemptReads, MayRead
    <3>6. Submitted'
      BY <3>1, <3>2, <3>3, <3>4, <1>1 DEF Submitted
    <3>7. Apart'
      BY <3>5, <1>1 DEF Apart
    <3> QED
      BY <3>4, <3>6, <3>7
  <2> QED
    BY <1>5, <2>1, <2>2 DEF AttemptReads
<1>6. CASE AttemptSends
  <2>1. CASE End(FALSE)
    BY <2>1, <1>3 DEF End
  <2>2. CASE TokenFor(att.holder, att.settings) /\ att' = [att EXCEPT !.pc = "sent", !.token = token[att.holder]]
    <3>1. att.pc = "ready" /\ att.holder \in Holder /\ att.settings \in Settings /\ att.sent \in 1 .. MaxHead
          /\ listed = att.holder /\ folder[att.holder].settings = att.settings
      BY <1>0, <1>6 DEF AttemptSends, Submitted
    <3>2. token[att.holder] \in Token /\ token[att.holder] # None /\ token[att.holder].origin = att.settings.origin
      BY <2>2, <3>1, <1>0 DEF Types, TokenFor
    <3>3. /\ att'.pc = "sent" /\ att'.holder = att.holder /\ att'.settings = att.settings
          /\ att'.sent = att.sent /\ att'.token = token[att.holder] /\ att' \in AttState
      BY <2>2, <3>2, <1>2 DEF AttState, AttPcs
    <3>4. Submitted'
      BY <3>1, <3>2, <3>3, <1>1 DEF Submitted
    <3>5. Apart'
      BY <3>1, <1>0, <1>1 DEF Apart
    <3> QED
      BY <3>3, <3>4, <3>5
  <2> QED
    BY <1>6, <2>1, <2>2 DEF AttemptSends
<1>7. CASE AnswerEnds
  BY <1>7, <1>3 DEF AnswerEnds, End
<1> QED
  BY <1>4, <1>5, <1>6, <1>7 DEF Asking

\* An answer comes with what it has to say, of statements signed by then.
LEMMA ReplyingAtt ==
  ASSUME IInv, Replying
  PROVE  /\ att' \in AttState /\ Submitted' /\ Apart' /\ Answered'
<1>0. Types /\ Submitted /\ Apart /\ Chained
  BY DEF IInv
<1>1. UNCHANGED <<listed, folder, token, panel, owner>>
  BY Frames
<1>2. att.pc = "sent" /\ att \in AttState
  BY <1>0 DEF Types, Replying, Serve, NotServed, Err, Replies
<1>3. att.holder \in Holder /\ att.settings \in Settings /\ att.sent \in 1 .. MaxHead
  BY <1>0, <1>2 DEF Submitted
<1>4. Len(chain) \in Nat /\ Len(chain') \in Nat /\ Len(chain) <= Len(chain')
  <2>1. Next
    BY DEF Replying, Next
  <2> QED
    BY <2>1, <1>0, ChainKept DEF Types
<1>5. ASSUME NEW reply \in Reply, Arrives(reply), \A s \in reply.says : s.index <= Len(chain) + 1,
             reply.status \in {"200", "conflict", "below-head", "retired"} => reply.says # {}
      PROVE  /\ att' \in AttState /\ Submitted' /\ Apart' /\ Answered'
  <2>1. /\ att' \in AttState /\ att'.pc = "answered" /\ att'.holder = att.holder /\ att'.sent = att.sent
        /\ att'.settings = att.settings /\ att'.reply = reply
    BY <1>2, <1>5 DEF Arrives, AttState, AttPcs
  <2>2. \A s \in reply.says : s.index \in Nat
    BY WitnessAssumption DEF Reply, Statement
  <2>3. \A s \in reply.says : s.index <= Len(chain') + 1
    BY <2>2, <1>4, <1>5
  <2>4. Answered'
    BY <2>1, <2>3, <1>5 DEF Answered
  <2>5. Submitted' /\ Apart'
    BY <2>1, <1>0, <1>1, <1>2, <1>3 DEF Submitted, Apart
  <2> QED
    BY <2>1, <2>4, <2>5
<1>6. ASSUME NEW status \in {"unreached", "refused"}, NEW later \in BOOLEAN,
             Arrives([status |-> status, says |-> {}, later |-> later])
      PROVE  /\ att' \in AttState /\ Submitted' /\ Apart' /\ Answered'
  BY <1>5, <1>6 DEF Reply
<1>7. CASE Serve
  <2> DEFINE r == Served(att.sent)
  <2>1. /\ r[2] # None => Len(chain) < MaxChain
        /\ Arrives(r[1])
    BY <1>7 DEF Serve, Replies, WitnessServes
  <2>2. r[1] \in Reply /\ r[1].says # {} /\ \A s \in r[1].says : s.index <= Len(chain) + 1
    BY <2>1, <1>0, <1>3, Serving
  <2> HIDE DEF r
  <2> QED
    BY <2>1, <2>2, <1>5
<1>8. CASE NotServed
  BY <1>6, <1>8 DEF NotServed, Replies, AnswerIsLost, WitnessRefuses, Lost
<1>9. CASE Err
  <2>1. PICK s \in {chain[i] : i \in 1 .. Len(chain)} \cup {t \in {Forged(att.sent)} : t.index <= MaxChain} :
          Arrives(Answers("200", {s}))
    BY <1>9 DEF Err, Replies, WitnessErrs
  <2>2. s \in Statement /\ s.index <= Len(chain) + 1
    <3>1. CASE s \in {chain[i] : i \in 1 .. Len(chain)}
      BY <3>1, <1>0, <1>4, OfTheChain, WitnessAssumption DEF Statement
    <3>2. CASE s = Forged(att.sent) /\ s.index <= MaxChain
      <4>1. s = [index |-> Len(chain) + 1, kind |-> "checkpoint", seq |-> att.sent, ours |-> TRUE, fork |-> TRUE]
        BY <3>2 DEF Forged, Signed
      <4>2. MaxChain \in Nat
        BY WitnessAssumption
      <4> QED
        BY <3>2, <4>1, <4>2, <1>3, <1>4 DEF Statement, Kinds
    <3> QED
      BY <2>1, <3>1, <3>2
  <2>3. Answers("200", {s}) \in Reply /\ Answers("200", {s}).says = {s} /\ FALSE \in BOOLEAN
    BY <2>2 DEF Answers, Reply
  <2> QED
    BY <2>1, <2>2, <2>3, <1>5
<1> QED
  BY <1>7, <1>8, <1>9 DEF Replying

\* What a submission keeps, and how far it comes.
LEMMA KeepingAtt ==
  ASSUME IInv, Keeping
  PROVE  /\ att' \in AttState /\ Submitted' /\ Apart' /\ Answered'
<1>0. Types /\ Submitted /\ Apart /\ Answered
  BY DEF IInv
<1>1. UNCHANGED <<listed, token, chain, panel, owner>>
  BY Frames
<1>2. att \in AttState /\ att.pc \in {"answered", "kept", "fetched", "confirmed", "marking"}
  BY <1>0 DEF Types, Keeping, KeepsAnswer, FetchesMissing, ReadsAnswer, MovesCursor, KeepsRefusal, MarksCursor
<1>3. /\ att.holder \in Holder /\ att.settings \in Settings /\ att.sent \in 1 .. MaxHead /\ Mine \in Folder
      /\ att.reply \in Reply /\ att.reply.says \in SUBSET Statement
      /\ \A s \in att.reply.says : s.index <= Len(chain) + 1
  BY <1>0, <1>2 DEF Submitted, Answered, Types, Mine, Reply
<1>4. Grown(Mine, folder'[att.holder]) /\ folder' \in [Holder -> Folder]
  BY <1>3, KeepingFolders DEF Folders, Mine
<1>5. ASSUME att' = Idle
      PROVE  att' \in AttState /\ Submitted' /\ Apart' /\ Answered'
  <2>1. att'.pc = "idle"
    BY <1>5 DEF Idle
  <2>2. 0 \in 0 .. MaxHead
    BY WitnessAssumption
  <2>3. att' \in AttState
    BY <1>5, <2>2 DEF Idle, AttState, AttPcs
  <2>4. Submitted' /\ Answered'
    BY <2>1 DEF Submitted, Answered
  <2>5. Apart'
    BY <2>1, <1>0, <1>1, <1>2 DEF Apart
  <2> QED
    BY <2>3, <2>4, <2>5
<1>6. ASSUME NEW pc \in {"kept", "fetched", "confirmed", "marking"}, GoesTo(pc), att.reply.says # {},
             pc # "marking" => Says \in Held(folder'[att.holder]) /\ Confirms(Says, att.sent),
             pc = "confirmed" => Says.index <= IndexOf(folder'[att.holder].cont)
      PROVE  att' \in AttState /\ Submitted' /\ Apart' /\ Answered'
  <2>1. /\ att' \in AttState /\ att'.pc = pc /\ att'.holder = att.holder /\ att'.sent = att.sent
        /\ att'.settings = att.settings /\ att'.reply = att.reply
    BY <1>2, <1>6 DEF GoesTo, AttState, AttPcs
  <2>2. Submitted'
    BY <2>1, <1>3 DEF Submitted
  <2>3. Apart'
    BY <2>1, <1>0, <1>1, <1>2 DEF Apart
  <2>4. Says' = Says /\ Mine' = folder'[att.holder]
    BY <2>1 DEF Says, Mine
  <2>5. Answered'
    BY <2>1, <2>4, <1>1, <1>3, <1>6 DEF Answered
  <2> QED
    BY <2>1, <2>2, <2>3, <2>5
<1>7. CASE KeepsAnswer
  <2>1. att.pc = "answered" /\ att.reply.status = "200" /\ att.reply.says # {}
    BY <1>0, <1>7 DEF KeepsAnswer, Answered
  <2>2. CASE End(FALSE)
    BY <2>2, <1>5 DEF End
  <2>3. CASE /\ InFolder(att.holder, [Mine EXCEPT !.kept = @ \cup att.reply.says])
             /\ Confirms(Says, att.sent) /\ GoesTo("kept")
    <3>1. folder'[att.holder] = [Mine EXCEPT !.kept = @ \cup att.reply.says]
      BY <2>3, <1>0, <1>3 DEF InFolder, Types
    <3>2. att.reply.says \subseteq Held(folder'[att.holder])
      BY <3>1, <1>3, GrownKept
    <3>3. Says \in att.reply.says
      BY <2>1 DEF Says, The
    <3> QED
      BY <2>1, <2>3, <3>2, <3>3, <1>6
  <2> QED
    BY <1>7, <2>2, <2>3 DEF KeepsAnswer
<1>8. ASSUME att.pc \in {"kept", "fetched", "confirmed"}
      PROVE  att.reply.says # {} /\ Says \in Held(folder'[att.holder]) /\ Confirms(Says, att.sent)
  BY <1>8, <1>0, <1>4 DEF Answered, Grown
<1>9. CASE FetchesMissing
  <2>1. att.pc = "kept" /\ GoesTo("fetched")
    BY <1>9 DEF FetchesMissing
  <2> QED
    BY <2>1, <1>6, <1>8
<1>10. CASE ReadsAnswer
  <2>1. att.pc = "fetched"
    BY <1>10 DEF ReadsAnswer
  <2>2. CASE End(FALSE)
    BY <2>2, <1>5 DEF End
  <2>3. CASE /\ ~InSteps(Mine) /\ InFolder(att.holder, AfterReading(Mine, Selected(Mine), Says, TRUE))
             /\ Unbroken(Mine.cont, Selected(Mine), Says) /\ GoesTo("confirmed")
    <3> DEFINE g == AfterReading(Mine, Selected(Mine), Says, TRUE)
    <3>1. Says \in Held(Mine) /\ Says \in Statement
      BY <2>1, <1>0, <1>3 DEF Answered, Says, The
    <3>2. Selected(Mine) \in SUBSET Mine.kept
      BY DEF Selected
    <3>3. Says # None
      BY <3>1, WitnessAssumption
    <3>4. Says.index <= IndexOf(g.cont)
      BY <2>3, <3>1, <3>2, <3>3, <1>3, GrownRead
    <3>5. folder'[att.holder] = g
      BY <2>3, <1>0, <1>3 DEF InFolder, Types
    <3> HIDE DEF g
    <3> QED
      BY <2>1, <2>3, <3>4, <3>5, <1>6, <1>8
  <2> QED
    BY <1>10, <2>2, <2>3 DEF ReadsAnswer
<1>11. CASE MovesCursor \/ MarksCursor
  BY <1>11, <1>5 DEF MovesCursor, MarksCursor, UpdatesCursor, End
<1>12. CASE KeepsRefusal
  <2>1. GoesTo("marking") /\ att.reply.says # {}
    BY <1>0, <1>12 DEF KeepsRefusal, Answered
  <2> QED
    BY <2>1, <1>6
<1> QED
  BY <1>7, <1>9, <1>10, <1>11, <1>12 DEF Keeping

\* The owner's part of the state.
Owned ==
    /\ listed \in Holder \cup {None} /\ token \in [Holder -> Token \cup {None}] /\ agreed \in Agreed
    /\ owner \in OwnerState /\ offers \in SUBSET Offer

\* A change takes its steps from where it is, with nothing on its way beside it.
LEMMA OwningKept ==
  ASSUME IInv, Owning
  PROVE  Owned' /\ Submitted' /\ Apart' /\ Changing' /\ ListedIsWhole'
<1> DEFINE Goal == Owned' /\ Submitted' /\ Apart' /\ Changing' /\ ListedIsWhole'
<1>0. Types /\ Submitted /\ Apart /\ Changing /\ ListedIsWhole
  BY DEF IInv
<1>1. att' = att /\ panel' = panel
  BY Frames
<1>2. /\ Owned /\ folder \in [Holder -> Folder] /\ att \in AttState /\ panel \in PanelState
      /\ MaxSets \in Nat
  BY <1>0, WitnessAssumption DEF Types, Owned
<1>3. ASSUME att.pc \in {"idle", "begun"} PROVE Submitted'
  BY <1>1, <1>3 DEF Submitted
<1>4. ASSUME att.pc \in {"idle", "begun"} /\ panel.pc = "idle" PROVE Submitted' /\ Apart'
  BY <1>1, <1>3, <1>4 DEF Apart
<1>5. ASSUME owner.pc \notin {"idle", "changed"} PROVE Submitted' /\ Apart'
  BY <1>0, <1>4, <1>5 DEF Apart
<1>6. ASSUME MayWrite PROVE Submitted' /\ Apart'
  <2>1. att.pc \in {"idle", "begun"} /\ panel.pc \in {"idle", "begun"}
    BY <1>6 DEF MayWrite, Readers
  <2>2. panel.pc = "idle"
    BY <2>1, <1>2 DEF PanelState
  <2> QED
    BY <2>1, <2>2, <1>4
<1>7. ASSUME UNCHANGED <<listed, folder, token, agreed>>, offers' \in SUBSET Offer, UNCHANGED owner
      PROVE  Goal
  <2>1. Owned'
    BY <1>2, <1>7 DEF Owned
  <2>2. Submitted' /\ Apart' /\ Changing' /\ ListedIsWhole'
    BY <1>0, <1>1, <1>7 DEF Submitted, Apart, Changing, ListedIsWhole
  <2> QED
    BY <2>1, <2>2
<1>8. Shown \in Settings \cup {None}
  <2>1. listed # None => folder[listed] \in Folder
    BY <1>2 DEF Owned
  <2> QED
    BY <2>1 DEF Shown, Folder
<1>9. ASSUME NEW pc \in {"idle", "token", "unlisted", "unkeyed", "delisted", "changed"},
             NEW h \in Holder, NEW o \in Origin \cup {None}
      PROVE  LET w == [pc |-> pc, holder |-> h, origin |-> o]
             IN  w \in OwnerState /\ w.pc = pc /\ w.holder = h /\ w.origin = o
  BY DEF OwnerState
<1>10. Nobody \in OwnerState /\ Nobody.pc = "idle"
  BY DEF Nobody, OwnerState
<1>11. CASE Checks \/ OffersRemoval
  <2>1. PICK o \in Origin \cup {None} : Opens([origin |-> o, over |-> Shown])
    BY <1>11 DEF Checks, OffersRemoval
  <2>2. [origin |-> o, over |-> Shown] \in Offer
    BY <1>8 DEF Offer
  <2>3. offers' \in SUBSET Offer
    BY <2>1, <2>2, <1>2 DEF Opens, Owned
  <2> QED
    BY <2>1, <2>3, <1>7 DEF Opens, disk
<1>12. CASE SetsToken
  <2>1. MayWrite /\ agreed.n < MaxSets /\ UNCHANGED <<listed, folder>>
    BY <1>12 DEF SetsToken
  <2>2. PICK offer \in offers, h \in Holder :
          /\ offer.origin # None /\ offer.over = Shown
          /\ IF listed = None THEN folder[h] = NewFolder /\ token[h] = None ELSE h = listed
          /\ offers' = offers \ {offer}
          /\ \/ /\ Works /\ Gives(h, [n |-> agreed.n + 1, origin |-> offer.origin])
                /\ Agrees(offer.origin) /\ OwnerGoes("token", h, offer.origin)
             \/ Fails /\ UNCHANGED <<token, agreed, owner>>
    BY <1>12 DEF SetsToken
  <2>3. offers' \in SUBSET Offer /\ offer \in Offer
    BY <2>2, <1>2 DEF Owned
  <2>4. offer.origin \in Origin
    BY <2>2, <2>3 DEF Offer
  <2>5. CASE UNCHANGED <<token, agreed, owner>>
    BY <2>1, <2>3, <2>5, <1>7
  <2>6. CASE /\ Gives(h, [n |-> agreed.n + 1, origin |-> offer.origin])
             /\ Agrees(offer.origin) /\ OwnerGoes("token", h, offer.origin)
    <3>1. /\ agreed' \in Agreed /\ agreed'.n \in 1 .. MaxSets
          /\ [n |-> agreed.n + 1, origin |-> offer.origin] \in Token
      <4>1. agreed.n \in 0 .. MaxSets
        BY <1>2 DEF Owned, Agreed
      <4>2. agreed.n + 1 \in 1 .. MaxSets
        BY <4>1, <2>1, <1>2
      <4> QED
        BY <4>2, <2>4, <2>6 DEF Agrees, Agreed, Token
    <3>2. token' \in [Holder -> Token \cup {None}]
      BY <2>6, <3>1, <1>2 DEF Gives, Owned
    <3>3. owner' \in OwnerState /\ owner'.pc = "token" /\ owner'.holder = h /\ owner'.origin = offer.origin
      BY <2>4, <2>6, <1>9 DEF OwnerGoes
    <3>4. Owned'
      BY <2>1, <2>3, <3>1, <3>2, <3>3, <1>2 DEF Owned
    <3>5. listed' \in {None, owner'.holder}
      BY <2>1, <2>2, <3>3
    <3>6. Changing'
      BY <2>4, <3>1, <3>3, <3>5 DEF Changing
    <3>7. ListedIsWhole'
      BY <2>1, <1>0 DEF ListedIsWhole
    <3> QED
      BY <3>4, <3>6, <3>7, <2>1, <1>6
  <2> QED
    BY <2>2, <2>5, <2>6
<1>13. CASE RemovesToken
  <2>1. MayWrite /\ listed # None /\ UNCHANGED <<listed, folder, agreed>>
    BY <1>13 DEF RemovesToken
  <2>2. offers' \in SUBSET Offer
    BY <1>13, <1>2 DEF RemovesToken, Owned
  <2>3. CASE UNCHANGED <<token, owner>>
    BY <2>1, <2>2, <2>3, <1>7
  <2>4. CASE Gives(listed, None) /\ OwnerGoes("unkeyed", listed, None)
    <3>1. listed \in Holder
      BY <2>1, <1>2 DEF Owned
    <3>2. token' \in [Holder -> Token \cup {None}]
      BY <2>4, <3>1, <1>2 DEF Gives, Owned
    <3>3. owner' \in OwnerState /\ owner'.pc = "unkeyed" /\ owner'.holder = listed
      BY <2>4, <3>1, <1>9 DEF OwnerGoes
    <3>4. Owned'
      BY <2>1, <2>2, <3>2, <3>3, <1>2 DEF Owned
    <3>5. Changing' /\ ListedIsWhole'
      BY <2>1, <3>1, <3>3, <1>0 DEF Changing, ListedIsWhole
    <3> QED
      BY <3>4, <3>5, <2>1, <1>6
  <2> QED
    BY <1>13, <2>3, <2>4 DEF RemovesToken
<1>14. ASSUME owner.pc \in {"token", "unlisted"}, GivesUpSetting, UNCHANGED <<agreed, offers>>
       PROVE  Goal
  <2>1. owner.holder \in Holder /\ UNCHANGED <<listed, folder>> /\ owner' = Nobody
    BY <1>14, <1>0 DEF Changing, GivesUpSetting
  <2>2. token' \in [Holder -> Token \cup {None}]
    BY <2>1, <1>14, <1>2 DEF GivesUpSetting, Owned
  <2>3. Owned'
    BY <2>1, <2>2, <1>14, <1>2, <1>10 DEF Owned
  <2>4. Changing' /\ ListedIsWhole'
    BY <2>1, <1>0, <1>10 DEF Changing, ListedIsWhole
  <2> QED
    BY <2>3, <2>4, <1>5, <1>14
<1>15. CASE SetsSettings
  <2>1. owner.pc = "token" /\ owner.holder \in Holder /\ owner.origin \in Origin /\ agreed.n \in 1 .. MaxSets
        /\ UNCHANGED <<agreed, offers>> /\ listed \in {None, owner.holder}
    BY <1>0, <1>15 DEF SetsSettings, Changing
  <2>2. CASE GivesUpSetting
    BY <2>1, <2>2, <1>14
  <2>3. CASE /\ InFolder(owner.holder, [folder[owner.holder] EXCEPT
                   !.settings = [origin |-> owner.origin, n |-> agreed.n]])
             /\ OwnerGoes(IF listed = None THEN "unlisted" ELSE "changed", owner.holder, None)
             /\ UNCHANGED <<listed, token>>
    <3>1. [origin |-> owner.origin, n |-> agreed.n] \in Settings
      BY <2>1 DEF Settings
    <3>2. folder[owner.holder] \in Folder
      BY <2>1, <1>2
    <3>3. folder'[owner.holder].settings # None
      BY <2>1, <2>3, <3>1, <3>2, <1>2, WitnessAssumption DEF InFolder, Folder
    <3>4. owner' \in OwnerState /\ owner'.pc \in {"unlisted", "changed"} /\ owner'.holder = owner.holder
      BY <2>1, <2>3, <1>9 DEF OwnerGoes
    <3>5. Owned'
      BY <2>1, <2>3, <3>4, <1>2 DEF Owned
    <3>6. Changing' /\ ListedIsWhole'
      BY <2>1, <2>3, <3>3, <3>4 DEF Changing, ListedIsWhole
    <3> QED
      BY <3>5, <3>6, <2>1, <1>5
  <2> QED
    BY <1>15, <2>2, <2>3 DEF SetsSettings
<1>16. CASE SetsList
  <2>1. owner.pc = "unlisted" /\ owner.holder \in Holder /\ folder[owner.holder].settings # None
        /\ UNCHANGED <<agreed, offers>>
    BY <1>0, <1>16 DEF SetsList, Changing
  <2>2. CASE GivesUpSetting
    BY <2>1, <2>2, <1>14
  <2>3. CASE listed' = owner.holder /\ OwnerGoes("changed", owner.holder, None) /\ UNCHANGED <<folder, token>>
    <3>1. owner' \in OwnerState /\ owner'.pc = "changed" /\ owner'.holder = owner.holder
      BY <2>1, <2>3, <1>9 DEF OwnerGoes
    <3>2. Owned'
      BY <2>1, <2>3, <3>1, <1>2 DEF Owned
    <3>3. Changing' /\ ListedIsWhole'
      BY <2>1, <2>3, <3>1 DEF Changing, ListedIsWhole
    <3> QED
      BY <3>2, <3>3, <2>1, <1>5
  <2> QED
    BY <1>16, <2>2, <2>3 DEF SetsList
<1>17. CASE RemovesFromList
  <2>1. owner.pc = "unkeyed" /\ owner.holder \in Holder /\ owner \in OwnerState
        /\ UNCHANGED <<folder, token, agreed, offers>>
    BY <1>0, <1>2, <1>17 DEF RemovesFromList, Changing, Owned
  <2>2. CASE UNCHANGED listed /\ owner' = Nobody
    BY <2>1, <2>2, <1>0, <1>2, <1>5, <1>10 DEF Owned, Changing, ListedIsWhole
  <2>3. CASE listed' = None /\ owner' = [owner EXCEPT !.pc = "delisted"]
    <3>1. owner' \in OwnerState /\ owner'.pc = "delisted" /\ owner'.holder = owner.holder
      BY <2>1, <2>3 DEF OwnerState
    <3>2. Owned'
      BY <2>1, <2>3, <3>1, <1>2 DEF Owned
    <3>3. Changing' /\ ListedIsWhole'
      BY <2>1, <2>3, <3>1 DEF Changing, ListedIsWhole
    <3> QED
      BY <3>2, <3>3, <2>1, <1>5
  <2> QED
    BY <1>17, <2>2, <2>3 DEF RemovesFromList
<1>18. CASE RemovesSettings
  <2>1. owner.pc = "delisted" /\ owner.holder \in Holder /\ owner \in OwnerState /\ listed = None
        /\ UNCHANGED <<listed, token, agreed, offers>> /\ owner' = [owner EXCEPT !.pc = "changed"]
    BY <1>0, <1>2, <1>18 DEF RemovesSettings, Changing, Owned
  <2>2. owner' \in OwnerState /\ owner'.pc = "changed" /\ owner'.holder = owner.holder
    BY <2>1 DEF OwnerState
  <2>3. Owned'
    BY <2>1, <2>2, <1>2 DEF Owned
  <2>4. Changing' /\ ListedIsWhole'
    BY <2>1, <2>2 DEF Changing, ListedIsWhole
  <2> QED
    BY <2>1, <2>3, <2>4, <1>5
<1>19. CASE SettingsChanged
  <2>1. UNCHANGED <<listed, folder, token, agreed, offers>> /\ owner' = Nobody
    BY <1>19 DEF SettingsChanged, disk
  <2>2. Owned'
    BY <2>1, <1>2, <1>10 DEF Owned
  <2>3. Submitted' /\ Apart' /\ Changing' /\ ListedIsWhole'
    BY <2>1, <1>0, <1>1, <1>10 DEF Submitted, Apart, Changing, ListedIsWhole
  <2> QED
    BY <2>2, <2>3
<1> QED
  BY <1>11, <1>12, <1>13, <1>15, <1>16, <1>17, <1>18, <1>19 DEF Owning, Change

\* The decision record's part of the state.
LEMMA ReadingPanel ==
  ASSUME IInv, Reading
  PROVE  panel' \in PanelState /\ Opened' /\ Apart'
<1>0. Types /\ Opened /\ Apart
  BY DEF IInv
<1>1. att' = att /\ owner' = owner /\ listed' = listed /\ chain' = chain
  BY Frames
<1>2. panel \in PanelState /\ folder \in [Holder -> Folder] /\ owner \in OwnerState
  BY <1>0 DEF Types
<1>3. CASE PanelOpens
  <2>1. panel' = [Closed EXCEPT !.pc = "open", !.holder = listed] /\ listed \in Holder /\ MayRead
    BY <1>0, <1>3 DEF PanelOpens, Types
  <2>2. panel' \in PanelState /\ panel'.pc = "open" /\ panel'.holder \in Holder
    BY <2>1 DEF Closed, PanelState
  <2>3. Apart'
    BY <2>1, <1>1 DEF Apart, MayRead
  <2> QED
    BY <2>2, <2>3 DEF Opened
<1>4. CASE PanelFetches
  <2> DEFINE f == folder[panel.holder]
             n == Len(chain)
  <2>a. panel.pc = "open"
    BY <1>4, Zenon DEF PanelFetches
  <2>1. panel.pc = "open" /\ panel.holder \in Holder /\ f \in Folder
    BY <2>a, <1>0, <1>2 DEF Opened
  <2>b. \/ GoesOn(None)
        \/ /\ chain # <<>>
           /\ \E upto \in {IndexOf(f.cont)} \cup IndexOf(f.cont) .. n - 1 :
                /\ InFolder(panel.holder,
                     [f EXCEPT !.kept = @ \cup Page(IndexOf(f.cont) + 1, upto) \cup {chain[n]},
                               !.head = IF upto >= n - 1 THEN chain[n] ELSE @])
                /\ GoesOn(IF upto >= n - 1 THEN chain[n] ELSE None)
    BY <1>4, Zenon DEF PanelFetches
  <2>2. Apart'
    BY <2>1, <1>0, <1>1 DEF Apart
  <2>3. ASSUME NEW head \in Statement \cup {None}, GoesOn(head),
               head # None => head \in Held(folder'[panel.holder])
        PROVE  panel' \in PanelState /\ Opened' /\ Apart'
    <3>1. panel' \in PanelState /\ panel'.pc = "reading" /\ panel'.holder = panel.holder /\ panel'.head = head
      BY <2>3, <1>2 DEF PanelState, GoesOn
    <3> QED
      BY <3>1, <2>1, <2>2, <2>3 DEF Opened
  <2>4. CASE GoesOn(None)
    BY <2>3, <2>4, Zenon
  <2>5. CASE ~GoesOn(None)
    <3>1. chain # <<>>
      BY <2>b, <2>5, Zenon
    <3>2. PICK upto \in {IndexOf(f.cont)} \cup IndexOf(f.cont) .. n - 1 :
            /\ InFolder(panel.holder,
                 [f EXCEPT !.kept = @ \cup Page(IndexOf(f.cont) + 1, upto) \cup {chain[n]},
                           !.head = IF upto >= n - 1 THEN chain[n] ELSE @])
            /\ GoesOn(IF upto >= n - 1 THEN chain[n] ELSE None)
      BY <2>b, <2>5, Zenon
    <3>3. chain[n] \in Statement
      BY <3>1, <1>0 DEF Types
    <3>4. chain[n] \in Held(folder'[panel.holder])
      BY <3>2, <2>1, <1>2 DEF InFolder, Held, Folder
    <3>5. GoesOn(chain[n])
      BY <3>2, <2>5
    <3> QED
      BY <3>3, <3>4, <3>5, <2>3, Zenon
  <2> QED
    BY <2>4, <2>5
<1>5. CASE PanelReads
  <2>1. panel' = Closed
    BY <1>5 DEF PanelReads
  <2>2. panel' \in PanelState /\ panel'.pc = "idle"
    BY <2>1 DEF Closed, PanelState
  <2>3. Opened'
    BY <2>2 DEF Opened
  <2>4. Apart'
    BY <2>2, <1>0, <1>1 DEF Apart
  <2> QED
    BY <2>2, <2>3, <2>4
<1> QED
  BY <1>3, <1>4, <1>5 DEF Reading

\* What no other step than the decision record's or the owner's disturbs.
LEMMA PanelKept ==
  ASSUME IInv, Next
  PROVE  panel' \in PanelState /\ Opened'
<1>0. Types /\ Opened
  BY DEF IInv
<1>1. CASE Reading
  BY <1>1, ReadingPanel
<1>2. CASE UNCHANGED panel
  <2>1. panel \in PanelState
    BY <1>0 DEF Types
  <2>2. ASSUME panel.pc # "idle" PROVE Held(folder[panel.holder]) \subseteq Held(folder'[panel.holder])
    BY <2>2, <1>0, FoldersKept DEF Opened, Folders, Grown
  <2>3. Opened'
    BY <1>0, <1>2, <2>2 DEF Opened
  <2> QED
    BY <1>2, <2>1, <2>3
<1>3. CASE Crash
  BY <1>3 DEF Crash, Closed, PanelState, Opened
<1> QED
  BY <1>1, <1>2, <1>3, NextGroups, Frames

\* No submission keeps and no decision record reads while a change is made.
LEMMA AtRest ==
  ASSUME IInv, Keeping \/ Reading
  PROVE  owner.pc \in {"idle", "changed"}
<1>0. Apart
  BY DEF IInv
<1>1. CASE Keeping
  BY <1>0, <1>1 DEF Apart, Keeping, KeepsAnswer, FetchesMissing, ReadsAnswer, MovesCursor, KeepsRefusal, MarksCursor
<1>2. CASE PanelOpens
  BY <1>2 DEF PanelOpens, MayRead
<1>3. CASE PanelFetches
  <2>1. panel.pc = "open"
    BY <1>3, Zenon DEF PanelFetches
  <2> QED
    BY <2>1, <1>0 DEF Apart
<1>4. CASE PanelReads
  BY <1>0, <1>4 DEF Apart, PanelReads
<1> QED
  BY <1>1, <1>2, <1>3, <1>4 DEF Reading

\* So nobody but the owner touches settings.
LEMMA SettingsKept ==
  ASSUME IInv, Asking \/ Keeping \/ Replying \/ Reading \/ Moving, NEW h \in Holder
  PROVE  folder'[h].settings = folder[h].settings
<1>1. CASE Keeping \/ Reading
  <2>1. Folders
    BY <1>1, KeepingFolders, ReadingFolders
  <2> QED
    BY <1>1, <2>1, AtRest DEF Folders
<1>2. CASE Asking \/ Replying \/ Moving
  BY <1>2, Frames
<1> QED
  BY <1>1, <1>2

\* The owner's part of the state holds through every step.
LEMMA OwnerKept ==
  ASSUME IInv, Next
  PROVE  Owned' /\ Changing' /\ ListedIsWhole'
<1>0. Types /\ Changing /\ ListedIsWhole
  BY DEF IInv
<1>1. Owned
  BY <1>0 DEF Types, Owned
<1>2. CASE Owning
  BY <1>2, OwningKept
<1>3. CASE Asking \/ Keeping \/ Replying \/ Reading \/ Moving
  <2>1. UNCHANGED <<listed, token, agreed, owner, offers>>
    BY <1>3, Frames
  <2>3. \A h \in Holder : folder'[h].settings = folder[h].settings
    BY <1>3, SettingsKept
  <2>4. Owned'
    BY <2>1, <1>1 DEF Owned
  <2>5. Changing'
    BY <2>1, <2>3, <1>0 DEF Changing
  <2>6. ListedIsWhole'
    BY <2>1, <2>3, <1>0, <1>1 DEF ListedIsWhole, Owned
  <2> QED
    BY <2>4, <2>5, <2>6
<1>4. CASE Crash
  <2>1. UNCHANGED <<listed, folder, token, agreed>> /\ owner' = Nobody /\ offers' = {}
    BY <1>4 DEF Crash, disk
  <2>2. owner' \in OwnerState /\ owner'.pc = "idle"
    BY <2>1 DEF Nobody, OwnerState
  <2>3. Owned'
    BY <2>1, <2>2, <1>1 DEF Owned
  <2>4. Changing' /\ ListedIsWhole'
    BY <2>1, <2>2, <1>0 DEF Changing, ListedIsWhole
  <2> QED
    BY <2>3, <2>4
<1> QED
  BY <1>2, <1>3, <1>4, NextGroups

\* A change puts its token first, and a witness is listed with its last token.
LEMMA LatestKept ==
  ASSUME IInv, Next
  PROVE  Latest'
<1>0. Types /\ Changing /\ Latest
  BY DEF IInv
<1>1. /\ token \in [Holder -> Token \cup {None}] /\ listed \in Holder \cup {None}
      /\ owner.pc # "idle" => owner.holder \in Holder
  BY <1>0 DEF Types, Changing
<1>2. ASSUME UNCHANGED <<token, agreed>>, listed' \in {listed, None},
             owner' = owner \/ owner'.pc \in {"idle", "unkeyed", "delisted", "changed"}
      PROVE  Latest'
  BY <1>0, <1>2 DEF Latest
<1>3. ASSUME GivesUpSetting, UNCHANGED agreed PROVE Latest'
  <2>1. listed' = listed /\ (listed # None => token' = token) /\ owner'.pc = "idle"
    BY <1>3 DEF GivesUpSetting, Nobody
  <2> QED
    BY <1>0, <1>3, <2>1 DEF Latest
<1>4. CASE Asking \/ Keeping \/ Replying \/ Reading \/ Moving \/ Crash
  <2>1. UNCHANGED <<listed, token, agreed>> /\ (owner' = owner \/ owner'.pc = "idle")
    BY <1>4, Frames DEF Crash, disk, Nobody
  <2> QED
    BY <1>2, <2>1
<1>5. CASE Checks \/ OffersRemoval \/ RemovesSettings \/ SettingsChanged
  <2>1. owner \in OwnerState
    BY <1>0 DEF Types
  <2>2. UNCHANGED <<listed, token, agreed>>
        /\ (owner' = owner \/ owner' = Nobody \/ owner' = [owner EXCEPT !.pc = "changed"])
    BY <1>5 DEF Checks, OffersRemoval, Opens, RemovesSettings, SettingsChanged, disk
  <2>3. owner' = owner \/ owner'.pc \in {"idle", "changed"}
    BY <2>1, <2>2 DEF Nobody, OwnerState
  <2> QED
    BY <1>2, <2>2, <2>3
<1>6. CASE SetsToken
  <2>1. UNCHANGED listed
    BY <1>6 DEF SetsToken
  <2>2. PICK offer \in offers, h \in Holder :
          /\ listed = None \/ h = listed
          /\ \/ /\ Gives(h, [n |-> agreed.n + 1, origin |-> offer.origin])
                /\ Agrees(offer.origin) /\ OwnerGoes("token", h, offer.origin)
             \/ UNCHANGED <<token, agreed, owner>>
    BY <1>6 DEF SetsToken
  <2>3. CASE UNCHANGED <<token, agreed, owner>>
    BY <2>1, <2>3, <1>2
  <2>4. CASE /\ Gives(h, [n |-> agreed.n + 1, origin |-> offer.origin])
             /\ Agrees(offer.origin) /\ OwnerGoes("token", h, offer.origin)
    <3>1. token'[h] = agreed' /\ owner'.holder = h
      BY <2>4, <1>1 DEF Gives, Agrees, OwnerGoes
    <3> QED
      BY <2>1, <2>2, <3>1 DEF Latest
  <2> QED
    BY <2>2, <2>3, <2>4
<1>7. CASE RemovesToken
  <2>1. listed # None /\ listed \in Holder /\ UNCHANGED <<listed, agreed>>
    BY <1>1, <1>7 DEF RemovesToken
  <2>2. CASE UNCHANGED <<token, owner>>
    BY <2>1, <2>2, <1>2
  <2>3. CASE Gives(listed, None) /\ OwnerGoes("unkeyed", listed, None)
    <3>1. token'[listed] = None /\ owner'.pc = "unkeyed"
      BY <2>1, <2>3, <1>1 DEF Gives, OwnerGoes
    <3> QED
      BY <2>1, <3>1 DEF Latest
  <2> QED
    BY <1>7, <2>2, <2>3 DEF RemovesToken
<1>8. CASE SetsSettings
  <2>1. owner.pc = "token" /\ UNCHANGED agreed
    BY <1>8 DEF SetsSettings
  <2>2. CASE GivesUpSetting
    BY <2>1, <2>2, <1>3
  <2>3. CASE /\ OwnerGoes(IF listed = None THEN "unlisted" ELSE "changed", owner.holder, None)
             /\ UNCHANGED <<listed, token>>
    <3>1. owner'.holder = owner.holder
      BY <2>3 DEF OwnerGoes
    <3> QED
      BY <2>1, <2>3, <3>1, <1>0 DEF Latest
  <2> QED
    BY <1>8, <2>2, <2>3 DEF SetsSettings
<1>9. CASE SetsList
  <2>1. owner.pc = "unlisted" /\ UNCHANGED agreed
    BY <1>9 DEF SetsList
  <2>2. CASE GivesUpSetting
    BY <2>1, <2>2, <1>3
  <2>3. CASE listed' = owner.holder /\ OwnerGoes("changed", owner.holder, None) /\ UNCHANGED token
    <3>1. owner'.pc = "changed"
      BY <2>3 DEF OwnerGoes
    <3> QED
      BY <2>1, <2>3, <3>1, <1>0 DEF Latest
  <2> QED
    BY <1>9, <2>2, <2>3 DEF SetsList
<1>10. CASE RemovesFromList
  <2>1. owner \in OwnerState
    BY <1>0 DEF Types
  <2>2. UNCHANGED <<token, agreed>> /\ listed' \in {listed, None}
        /\ (owner' = Nobody \/ owner' = [owner EXCEPT !.pc = "delisted"])
    BY <1>10 DEF RemovesFromList
  <2>3. owner'.pc \in {"idle", "delisted"}
    BY <2>1, <2>2 DEF Nobody, OwnerState
  <2> QED
    BY <1>2, <2>2, <2>3
<1> QED
  BY <1>4, <1>5, <1>6, <1>7, <1>8, <1>9, <1>10, NextGroups DEF Owning, Change

\* What a submission was told stays kept while others take their steps.
LEMMA AnsweredKept ==
  ASSUME IInv, Next, UNCHANGED att
  PROVE  Answered'
<1>0. Types /\ Submitted /\ Answered
  BY DEF IInv
<1>1. Len(chain) <= Len(chain') /\ Len(chain) \in Nat /\ Len(chain') \in Nat
  BY <1>0, ChainKept DEF Types
<1>2. ASSUME att.pc \in {"kept", "fetched", "confirmed"}
      PROVE  /\ Held(Mine) \subseteq Held(folder'[att.holder]) /\ IndexOf(Mine.cont) <= IndexOf(folder'[att.holder].cont)
             /\ IndexOf(Mine.cont) \in Nat /\ IndexOf(folder'[att.holder].cont) \in Nat /\ Says.index \in Nat
  <2>1. att.holder \in Holder /\ att.reply \in Reply /\ Says \in att.reply.says
    BY <1>0, <1>2 DEF Submitted, Answered, Says, The
  <2>2. Folders
    BY FoldersKept
  <2>3. Mine \in Folder /\ folder'[att.holder] \in Folder /\ Grown(Mine, folder'[att.holder])
    BY <2>1, <2>2, <1>0 DEF Folders, Types, Mine
  <2>4. Says.index \in Nat
    BY <2>1, WitnessAssumption DEF Reply, Statement
  <2> QED
    BY <2>3, <2>4, Indexes, WitnessAssumption DEF Grown, Folder
<1>3. Says' = Says /\ Mine' = folder'[att.holder]
  BY DEF Says, Mine
<1>4. ASSUME att.pc \in {"answered", "kept", "fetched", "confirmed", "marking"}
      PROVE  att.reply \in Reply /\ \A s \in att.reply.says : s.index <= Len(chain') + 1
  <2>1. att.reply \in Reply /\ \A s \in att.reply.says : s.index \in Nat /\ s.index <= Len(chain) + 1
    BY <1>0, <1>4, WitnessAssumption DEF Answered, Reply, Statement
  <2> QED
    BY <2>1, <1>1
<1>5. att.pc = "confirmed" => Says.index <= IndexOf(folder'[att.holder].cont)
  BY <1>0, <1>2 DEF Answered
<1> QED
  BY <1>0, <1>2, <1>3, <1>4, <1>5 DEF Answered

\* The submission's part of the state holds through every step.
LEMMA AttKept ==
  ASSUME IInv, Next
  PROVE  att' \in AttState /\ Submitted' /\ Apart' /\ Answered'
<1>0. Types /\ Submitted /\ Apart
  BY DEF IInv
<1>1. att \in AttState
  BY <1>0 DEF Types
<1>2. CASE Asking
  BY <1>2, AskingAtt DEF Answered
<1>3. CASE Replying
  BY <1>3, ReplyingAtt
<1>4. CASE Keeping
  BY <1>4, KeepingAtt
<1>5. CASE Reading
  <2>1. att' = att /\ listed' = listed /\ token' = token
    BY <1>5, Frames
  <2>2. \A h \in Holder : folder'[h].settings = folder[h].settings
    BY <1>5, SettingsKept
  <2>3. Submitted'
    BY <2>1, <2>2, <1>0 DEF Submitted
  <2> QED
    BY <1>1, <1>5, <2>1, <2>3, AnsweredKept, ReadingPanel
<1>6. CASE Owning
  <2>1. att' = att
    BY <1>6, Frames
  <2> QED
    BY <1>1, <1>6, <2>1, AnsweredKept, OwningKept
<1>7. CASE Moving
  <2>1. UNCHANGED <<listed, folder, token, att, panel, owner>>
    BY <1>7, Frames
  <2>2. Submitted' /\ Apart'
    BY <2>1, <1>0 DEF Submitted, Apart
  <2> QED
    BY <1>1, <2>1, <2>2, AnsweredKept
<1>8. CASE Crash
  <2>1. att' = Idle /\ panel' = Closed
    BY <1>8 DEF Crash
  <2>2. att'.pc = "idle" /\ panel'.pc = "idle" /\ 0 \in 0 .. MaxHead
    BY <2>1, WitnessAssumption DEF Idle, Closed
  <2>3. att' \in AttState
    BY <2>1, <2>2 DEF Idle, AttState, AttPcs
  <2> QED
    BY <2>2, <2>3 DEF Submitted, Apart, Answered
<1> QED
  BY <1>2, <1>3, <1>4, <1>5, <1>6, <1>7, <1>8, NextGroups

-----------------------------------------------------------------------------
\* The invariant holds of the first state.
LEMMA InitIInv ==
  ASSUME Init
  PROVE  IInv
<1>1. NewFolder \in Folder /\ IndexOf(NewFolder.cont) = 0 /\ NewFolder.cursor.through = 0
      /\ NewFolder.cursor.index = 0 /\ NewFolder.head = None
  <2>1. 0 \in 0 .. MaxHead /\ 0 \in 0 .. MaxChain
    BY WitnessAssumption
  <2>2. NoCursor \in Cursor
    BY <2>1 DEF NoCursor, Cursor
  <2> QED
    BY <2>2 DEF NewFolder, Folder, IndexOf, NoCursor
<1>2. Shows(NewFolder)
  BY <1>1 DEF Shows
<1>3. folder \in [Holder -> Folder] /\ \A h \in Holder : folder[h] = NewFolder
  BY <1>1 DEF Init
<1>4. EvidenceKept
  BY <1>2, <1>3 DEF EvidenceKept
<1>5. 0 \in 0 .. MaxHead /\ 0 \in 0 .. MaxSets /\ 0 <= MaxChain
  BY WitnessAssumption
<1>6. att \in AttState /\ panel \in PanelState /\ owner \in OwnerState
      /\ att.pc = "idle" /\ panel.pc = "idle" /\ owner.pc = "idle"
  BY <1>5 DEF Init, Idle, Closed, Nobody, AttState, AttPcs, PanelState, OwnerState
<1>7. chain = <<>> /\ chain \in Seq(Statement) /\ Len(chain) = 0
  BY DEF Init
<1>8. Types
  BY <1>3, <1>5, <1>6, <1>7 DEF Types, Init, NothingAgreed, Agreed
<1>9. Chained
  BY <1>5, <1>7 DEF Chained
<1>10. Submitted /\ Apart /\ Answered /\ Opened /\ Changing
  BY <1>6 DEF Submitted, Apart, Answered, Opened, Changing
<1>11. ListedIsWhole /\ Latest
  BY <1>6 DEF Init, ListedIsWhole, Latest
<1> QED
  BY <1>4, <1>8, <1>9, <1>10, <1>11 DEF IInv

\* And through every step.
LEMMA NextIInv ==
  ASSUME IInv, [Next]_vars
  PROVE  IInv'
<1>1. CASE Next
  <2>1. folder' \in [Holder -> Folder] /\ \A h \in Holder : Grown(folder[h], folder'[h])
    BY <1>1, FoldersKept DEF Folders
  <2>2. EvidenceKept'
    BY <2>1 DEF IInv, EvidenceKept, Grown
  <2>3. Types'
    BY <1>1, <2>1, ChainKept, AttKept, PanelKept, OwnerKept DEF Types, Owned
  <2> QED
    BY <1>1, <2>2, <2>3, ChainKept, AttKept, PanelKept, OwnerKept, LatestKept DEF IInv
<1>2. CASE UNCHANGED vars
  BY <1>2 DEF vars, IInv, Types, Chained, Submitted, Apart, Answered, Mine, Says, Opened, Changing,
     Latest, ListedIsWhole, EvidenceKept
<1> QED
  BY <1>1, <1>2

\* The inductive invariant: types, the order of the locks, and what each party
\* under way may count on.
THEOREM Invariance == Spec => []IInv
<1>1. Init => IInv
  BY InitIInv
<1>2. IInv /\ [Next]_vars => IInv'
  BY NextIInv
<1> QED
  BY <1>1, <1>2, PTL DEF Spec

\* Every variable keeps its type: settings, cursors, statements and tokens are
\* always well formed.
THEOREM TypeCorrect == Spec => []TypeOK
<1>1. IInv => TypeOK
  <2> SUFFICES ASSUME IInv PROVE TypeOK
    OBVIOUS
  <2>0. Types
    BY DEF IInv
  <2>1. ASSUME NEW h \in Holder
        PROVE  /\ folder[h].settings \in Settings \cup {None}
               /\ folder[h].cursor.through \in 0 .. MaxHead /\ folder[h].cursor.index \in 0 .. MaxChain
               /\ folder[h].kept \cup folder[h].aside \subseteq Statement
               /\ {folder[h].head, folder[h].cont} \subseteq Statement \cup {None}
               /\ token[h] \in [n : 1 .. MaxSets, origin : Origin] \cup {None}
    <3>1. folder[h] \in Folder /\ token[h] \in Token \cup {None}
      BY <2>0 DEF Types
    <3> QED
      BY <3>1 DEF Folder, Cursor, Token
  <2>2. att.pc \in AttPcs /\ att.reply \in Reply \cup {None}
    BY <2>0 DEF Types, AttState
  <2>3. /\ panel.pc \in {"idle", "open", "reading"} /\ panel.head \in Statement \cup {None}
        /\ owner.pc \in {"idle", "token", "unlisted", "unkeyed", "delisted", "changed"}
    BY <2>0 DEF Types, PanelState, OwnerState
  <2> QED
    BY <2>0, <2>1, <2>2, <2>3 DEF TypeOK, Types, AttPcs
<1> QED
  BY <1>1, Invariance, PTL

\* What the cursor says was countersigned can be shown from the disk, whatever
\* failed or crashed between the answer, the reading and the cursor.
THEOREM EvidenceIsKept == Spec => []EvidenceKept
<1>1. IInv => EvidenceKept
  BY DEF IInv
<1> QED
  BY <1>1, Invariance, PTL

\* A request on its way was sent under the witness, the settings and the token
\* that are current still: a change waits for it, or comes before it is read.
THEOREM OnlyUnderTheCurrent == Spec => []SentUnderTheCurrent
<1>1. IInv => SentUnderTheCurrent
  BY DEF IInv, Submitted, SentUnderTheCurrent
<1> QED
  BY <1>1, Invariance, PTL

\* What is on its way carries the token confirmed last, to the origin confirmed
\* with it (readWitnessToken, setWitness): a change puts its token first and waits
\* for what is on its way, a witness is listed with the last token or none, and
\* the origin kept with a token is asked for before it is sent.
THEOREM SentWasConfirmed == Spec => []SentAsConfirmed
<1>1. IInv => SentAsConfirmed
  <2> SUFFICES ASSUME IInv, att.pc = "sent"
               PROVE  att.token.n = agreed.n /\ att.settings.origin = agreed.origin
    BY DEF SentAsConfirmed
  <2>1. /\ att.holder \in Holder /\ listed = att.holder /\ token[att.holder] = att.token
        /\ att.token # None /\ att.token.origin = att.settings.origin
    BY DEF IInv, Submitted
  <2>2. att.token = agreed
    BY <2>1, WitnessAssumption DEF IInv, Latest
  <2> QED
    BY <2>1, <2>2
<1> QED
  BY <1>1, Invariance, PTL

\* A witness in the list of holders has settings, so that the owner can see and
\* remove it, wherever the setting or the removal of it stopped.
THEOREM ListedCanBeRemoved == Spec => []ListedIsWhole
<1>1. IInv => ListedIsWhole
  BY DEF IInv
<1> QED
  BY <1>1, Invariance, PTL

\* No step loses a statement that was kept (keepStatements, keepUnusable): not a
\* reading that finds two chains, a change, a removal, nor a crash. One that was
\* received and is not kept yet can be lost.
THEOREM NothingKeptIsLost == Spec => KeptStatementsStay
<1>1. IInv /\ [Next]_vars => [\A h \in Holder : Held(folder[h]) \subseteq Held(folder[h])']_vars
  <2> SUFFICES ASSUME IInv, Next PROVE \A h \in Holder : Held(folder[h]) \subseteq Held(folder[h])'
    OBVIOUS
  <2>1. \A h \in Holder : Grown(folder[h], folder'[h])
    BY FoldersKept DEF Folders
  <2> QED
    BY <2>1 DEF Grown, Held
<1> QED
  BY <1>1, Invariance, PTL DEF Spec, KeptStatementsStay
================================================================================
