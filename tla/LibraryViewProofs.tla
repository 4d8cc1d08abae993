------------------------- MODULE LibraryViewProofs -------------------------
(***************************************************************************)
(* The library's view for any accounts, parts, values and choices.         *)
(*                                                                         *)
(* SearchInv follows the view from account to account: what the tab and    *)
(* the session storage keep is of the account that is signed in, or was    *)
(* cleared with the session.  SavesInv says why the save chain ends in the *)
(* last choice: each queued save is followed by one whose value is still   *)
(* shown, so skipping never drops the one that counts.  ReadInv relates    *)
(* what the page remembers to what the server holds, as long as nobody     *)
(* else wrote it; AddressInv adds that a page whose preferences were read  *)
(* keeps its address up to date.                                           *)
(***************************************************************************)
EXTENDS LibraryView, SequenceTheorems, WellFoundedInduction, TLAPS

Save == [part : Parts, value : Values]

OpenPage ==
  [of : Accounts, query : Accounts \cup {None}, shown : [Parts -> Values],
   remembered : [Parts -> Values], chosen : SUBSET Parts, saved : SUBSET Parts,
   addressed : SUBSET Parts, read : {"sent", "served", "read", "failed"},
   answer : [Parts -> Kept \cup {None}], failed : BOOLEAN, saves : Saves]

\* The chain of a page that was left goes on with what that page last showed.
LeftChain == [saves : Saves, shown : [Parts -> Values]]

Shells == {"opening", "offline", "gate", "library", "reader", "direct", "closing"}

ViewTypes ==
  /\ signedIn \in Accounts \cup {None} /\ viewer \in Accounts \cup {None}
  /\ stored \in [Accounts -> [Parts -> Kept]] /\ foreign \subseteq Parts
  /\ shell \in Shells
  /\ address \in Addresses /\ memory \in Addresses
  /\ page \in OpenPage \cup {NoPage}
  /\ left = NoLeft \/ left \in LeftChain

\* Which shells have a page, whose it is, and who is signed in behind it.
ShellInv ==
  /\ page # NoPage <=> shell \in {"library", "closing"}
  /\ page # NoPage => page.of = viewer
  /\ viewer # None <=> shell \in {"library", "closing", "reader", "direct"}
  /\ shell \in {"library", "reader", "direct"} => signedIn \in {None, viewer}
  /\ shell \in {"gate", "closing"} => signedIn = None

\* Until it is known who is signed in, the tab keeps the view of nobody else.
SearchInv ==
  /\ shell \in {"library", "reader", "direct"} => {address.by, memory.by} \subseteq {None, viewer}
  /\ shell \in {"opening", "offline"} /\ signedIn # None =>
       {address.by, memory.by} \subseteq {None, signedIn}
  /\ shell = "gate" => memory.by = None

Queued(pg, p) == \E i \in DOMAIN pg.saves.queue : pg.saves.queue[i].part = p

\* The chain of a page: each save is of a part chosen here, and is followed by one that is
\* still shown.
QueueOK(pg) ==
  LET q == pg.saves.queue
  IN /\ pg.saves.phase = "idle" <=> q = <<>>
     /\ \A i \in DOMAIN q : q[i].part \in pg.chosen
     /\ \A i \in DOMAIN q : \E j \in DOMAIN q :
          i <= j /\ q[j].part = q[i].part /\ q[j].value = pg.shown[q[i].part]

\* What the server holds in prefs of the parts chosen here, unless others wrote them.
ChoicesOK(pg, prefs, others) ==
  /\ pg.saves.phase = "kept" =>
       LET head == pg.saves.queue[1] IN head.part \in others \/ prefs[head.part] = head.value
  /\ \A p \in pg.chosen :
       Queued(pg, p) \/ pg.failed \/ p \in others \/ prefs[p] = pg.shown[p]

\* A chain that is under way has a save to send, on the page or left behind by one.
LeftInv == left # NoLeft => left.saves.queue # <<>>

SavesInv == page # NoPage => QueueOK(page) /\ ChoicesOK(page, stored[page.of], foreign)

\* What a page without preferences of its own shows.
Effective(kept) == IF kept \in Values THEN kept ELSE Default

\* The parts not chosen here, before and after the preferences are read.
PartOK(pg, p, prefs, others) ==
  /\ pg.read \in {"sent", "served"} => pg.remembered[p] = Default
  /\ pg.read = "served" /\ p \notin others => pg.answer[p] = prefs[p]
  /\ pg.read = "read" /\ p \notin others => pg.remembered[p] = Effective(prefs[p])
  /\ p \notin pg.addressed => pg.shown[p] = pg.remembered[p]

ReadInv ==
  page # NoPage => \A p \in Parts \ page.chosen : PartOK(page, p, stored[page.of], foreign)

AddressInv ==
  shell = "library" /\ Settled(page) =>
    address = ParamsOfView(page) /\ memory = ParamsOfView(page)

ViewInv == ViewTypes /\ ShellInv /\ SearchInv /\ SavesInv /\ LeftInv /\ ReadInv /\ AddressInv

----------------------------------------------------------------------------
(***************************************************************************)
(* The save chain.                                                         *)
(***************************************************************************)

LEMMA Least == ASSUME NEW T \in SUBSET Nat, T # {} PROVE \E x \in T : \A y \in T : x <= y
<1> DEFINE R == OpToRel(<, Nat)
<1>1. IsWellFoundedOn(R, Nat)
  BY NatLessThanWellFounded
<1>2. \A a, b \in Nat : a < b => <<a, b>> \in R
  BY DEF OpToRel
<1> HIDE DEF R
<1>3. PICK x \in T : \A y \in T : ~ (<<y, x>> \in R)
  BY <1>1, WFMin
<1>4. \A a, b \in Nat : ~(a < b) => b <= a
  OBVIOUS
<1> QED
  BY <1>2, <1>3, <1>4

\* The rest of a queue after its first d saves.
LEMMA RestOfQueue ==
  ASSUME NEW q \in Seq(Save), NEW d \in Nat, d <= Len(q)
  PROVE  LET rest == SubSeq(q, d + 1, Len(q))
         IN /\ rest \in Seq(Save) /\ Len(rest) = Len(q) - d
            /\ \A i \in 1..(Len(q) - d) : rest[i] = q[i + d]
<1>1. \A i \in (d + 1)..Len(q) : q[i] \in Save
  OBVIOUS
<1>2. d + 1 \in Int /\ Len(q) \in Int /\ d + 1 <= Len(q) + 1
  OBVIOUS
<1>3. /\ SubSeq(q, d + 1, Len(q)) \in Seq(Save)
      /\ Len(SubSeq(q, d + 1, Len(q))) = Len(q) - d
      /\ \A i \in 1..(Len(q) - d) : SubSeq(q, d + 1, Len(q))[i] = q[i + d]
  BY <1>1, <1>2, SubSeqProperties
<1> QED
  BY <1>3

\* next is what is left of the queue q once its first d saves are skipped.
Sends(next, q, shown, d) ==
  /\ next \in Saves
  /\ Len(next.queue) = Len(q) - d
  /\ next.phase = IF d = Len(q) THEN "idle" ELSE "sent"
  /\ \A i \in 1..d : q[i].value # shown[q[i].part]
  /\ \A i \in 1..(Len(q) - d) : next.queue[i] = q[i + d]

LEMMA SendsFrom ==
  ASSUME NEW q \in Seq(Save), NEW shown, NEW f \in 1..Len(q), NEW rest, NEW d, d = f - 1,
         rest = SubSeq(q, f, Len(q)), \A i \in 1..d : q[i].value # shown[q[i].part]
  PROVE  Sends([queue |-> rest, phase |-> "sent"], q, shown, d)
<1>1. d \in Nat /\ d <= Len(q) /\ d # Len(q) /\ rest = SubSeq(q, d + 1, Len(q))
  OBVIOUS
<1>2. rest \in Seq(Save) /\ Len(rest) = Len(q) - d /\ \A i \in 1..(Len(q) - d) : rest[i] = q[i + d]
  BY <1>1, RestOfQueue
<1>3. [queue |-> rest, phase |-> "sent"] \in Saves
  BY <1>2 DEF Saves, Save
<1> QED
  BY <1>1, <1>2, <1>3 DEF Sends

\* SendNext skips the saves that are no longer shown, and sends the first one that is.
LEMMA NextSave ==
  ASSUME NEW q \in Seq(Save), NEW shown \in [Parts -> Values]
  PROVE  \E d \in 0..Len(q) : Sends(SendNext(q, shown), q, shown, d)
<1> DEFINE due == Due(q, shown)
<1>1. \A i \in DOMAIN q : i \in 1..Len(q) /\ (i \notin due => q[i].value # shown[q[i].part])
  BY DEF Due
<1>2. due \in SUBSET Nat /\ \A i \in due : i \in 1..Len(q)
  BY DEF Due
<1>3. CASE due = {}
  <2>1. SendNext(q, shown) = [queue |-> <<>>, phase |-> "idle"]
    BY <1>3 DEF SendNext, NoSaves
  <2>2. <<>> \in Seq(Save) /\ Len(<<>>) = 0
    OBVIOUS
  <2>3. [queue |-> <<>>, phase |-> "idle"] \in Saves
    BY <2>2 DEF Saves, Save
  <2> HIDE DEF due
  <2>4. Sends(SendNext(q, shown), q, shown, Len(q))
    BY <1>1, <1>3, <2>1, <2>2, <2>3 DEF Sends
  <2> QED
    BY <2>4
<1>4. CASE due # {}
  <2> DEFINE f == First(q, shown)
             rest == SubSeq(q, f, Len(q))
  <2>1. f \in due /\ \A j \in due : f <= j
    BY <1>2, <1>4, Least DEF First
  <2>2. SendNext(q, shown) = [queue |-> rest, phase |-> "sent"]
    BY <1>4 DEF SendNext
  <2> HIDE DEF due
  <2>3. f \in 1..Len(q)
    BY <1>2, <2>1
  <2> HIDE DEF f
  <2>4. \A i \in 1..(f - 1) : q[i].value # shown[q[i].part]
    BY <1>1, <1>2, <2>1, <2>3
  <2>5. Sends([queue |-> rest, phase |-> "sent"], q, shown, f - 1)
    BY <2>3, <2>4, SendsFrom
  <2>6. f - 1 \in 0..Len(q)
    BY <2>3
  <2> QED
    BY <2>2, <2>5, <2>6
<1> QED
  BY <1>3, <1>4

----------------------------------------------------------------------------
(***************************************************************************)
(* The pages: a new one, and what each handler makes of one.               *)
(***************************************************************************)

LEMMA NoPageIsNone == NoPage \notin OpenPage /\ NoPage.read = "none" /\ NoPage.saves = NoSaves
BY DEF NoPage, OpenPage

LEMMA NoSavesType == NoSaves \in Saves /\ NoSaves.queue = <<>> /\ NoSaves.phase = "idle"
BY DEF NoSaves, Saves

LEMMA BareType == Bare \in Addresses /\ Bare.by = None
BY DEF Bare, Addresses, Nothing, Kept

LEMMA OpenedPage ==
  ASSUME NEW who \in Accounts, NEW addr \in Addresses
  PROVE  /\ Opened(who, addr) \in OpenPage
         /\ Opened(who, addr).of = who /\ Opened(who, addr).read = "sent"
         /\ Opened(who, addr).chosen = {} /\ Opened(who, addr).saves = NoSaves
         /\ \A p \in Parts : /\ Opened(who, addr).remembered[p] = Default
                             /\ p \notin Opened(who, addr).addressed =>
                                  Opened(who, addr).shown[p] = Default
<1> DEFINE shown == [p \in Parts |-> IF Named(addr, p) THEN addr.named[p] ELSE Default]
           named == {p \in Parts : Named(addr, p)}
           all == [p \in Parts |-> Default]
<1>1. shown \in [Parts -> Values] /\ \A p \in Parts : p \notin named => shown[p] = Default
  BY ViewAssumption DEF Named
<1>2. all \in [Parts -> Values] /\ named \in SUBSET Parts /\ \A p \in Parts : all[p] = Default
  BY ViewAssumption
<1>3. Nothing \in [Parts -> Kept \cup {None}] /\ addr.query \in Accounts \cup {None}
  BY DEF Nothing, Addresses
<1> DEFINE new == [NoPage EXCEPT !.of = who, !.query = addr.query, !.shown = shown,
                               !.remembered = all, !.addressed = named, !.read = "sent"]
<1>4. Opened(who, addr) = new
  BY DEF Opened
<1>5. NoPage \in [of : {None}, query : {None}, shown : {Nothing}, remembered : {Nothing},
                  chosen : {{}}, saved : {{}}, addressed : {{}}, read : {"none"},
                  answer : {Nothing}, failed : {FALSE}, saves : {NoSaves}]
  BY DEF NoPage
<1> HIDE DEF shown, named, all
<1>6. new \in [of : {who}, query : {addr.query}, shown : {shown}, remembered : {all},
               chosen : {{}}, saved : {{}}, addressed : {named}, read : {"sent"},
               answer : {Nothing}, failed : {FALSE}, saves : {NoSaves}]
  BY <1>5
<1> HIDE DEF new
<1> QED
  BY <1>1, <1>2, <1>3, <1>4, <1>6, NoSavesType DEF OpenPage

LEMMA ViewParams ==
  ASSUME NEW pg \in OpenPage
  PROVE  /\ ParamsOfView(pg) \in Addresses /\ ParamsOfView(pg).by \in {None, pg.of}
         /\ ParamsOfView(pg).query = pg.query
         /\ \A p \in Parts :
              ParamsOfView(pg).named[p] = IF Names(pg, p) THEN pg.shown[p] ELSE None
<1> DEFINE named == [p \in Parts |-> IF Names(pg, p) THEN pg.shown[p] ELSE None]
<1>1. pg.of \in Accounts /\ pg.query \in Accounts \cup {None} /\ pg.shown \in [Parts -> Values]
  BY DEF OpenPage
<1>2. named \in [Parts -> Kept \cup {None}]
  BY <1>1 DEF Kept
<1>3. \A p \in Parts : named[p] = IF Names(pg, p) THEN pg.shown[p] ELSE None
  OBVIOUS
<1>4. ParamsOfView(pg) = IF pg.query = None /\ named = Nothing THEN Bare
                         ELSE [query |-> pg.query, named |-> named, by |-> pg.of]
  BY DEF ParamsOfView
<1> HIDE DEF named
<1>5. CASE pg.query = None /\ named = Nothing
  BY <1>3, <1>4, <1>5, BareType DEF Bare
<1>6. CASE ~(pg.query = None /\ named = Nothing)
  BY <1>1, <1>2, <1>3, <1>4, <1>6 DEF Addresses
<1> QED
  BY <1>5, <1>6

\* A page with another phase of its saves.
LEMMA PhasePage ==
  ASSUME NEW pg \in OpenPage, NEW phase \in {"kept", "refused"}, NEW new,
         new = [pg EXCEPT !.saves.phase = phase]
  PROVE  /\ new \in OpenPage
         /\ new.of = pg.of /\ new.query = pg.query /\ new.shown = pg.shown
         /\ new.remembered = pg.remembered /\ new.chosen = pg.chosen
         /\ new.addressed = pg.addressed /\ new.read = pg.read /\ new.answer = pg.answer
         /\ new.failed = pg.failed /\ new.saves.queue = pg.saves.queue
         /\ new.saves.phase = phase
<1> DEFINE saves == [pg.saves EXCEPT !.phase = phase]
<1>1. saves \in Saves /\ saves.queue = pg.saves.queue /\ saves.phase = phase
  BY DEF OpenPage, Saves
<1>2. new = [pg EXCEPT !.saves = saves]
  BY DEF OpenPage
<1> HIDE DEF saves
<1> QED
  BY <1>1, <1>2 DEF OpenPage

Served(pg, prefs) == [pg EXCEPT !.read = "served", !.answer = prefs]

LEMMA ServedPage ==
  ASSUME NEW pg \in OpenPage, NEW prefs \in [Parts -> Kept], NEW new, new = Served(pg, prefs)
  PROVE  /\ new \in OpenPage
         /\ new.of = pg.of /\ new.query = pg.query /\ new.shown = pg.shown
         /\ new.remembered = pg.remembered /\ new.chosen = pg.chosen
         /\ new.addressed = pg.addressed /\ new.failed = pg.failed /\ new.saves = pg.saves
         /\ new.read = "served" /\ new.answer = prefs
<1>1. prefs \in [Parts -> Kept \cup {None}]
  OBVIOUS
<1> QED
  BY <1>1 DEF OpenPage, Served

LEMMA FailedPage ==
  ASSUME NEW pg \in OpenPage, NEW new, new = [pg EXCEPT !.read = "failed", !.answer = Nothing]
  PROVE  /\ new \in OpenPage
         /\ new.of = pg.of /\ new.query = pg.query /\ new.shown = pg.shown
         /\ new.remembered = pg.remembered /\ new.chosen = pg.chosen
         /\ new.addressed = pg.addressed /\ new.failed = pg.failed /\ new.saves = pg.saves
         /\ new.read = "failed"
<1>1. Nothing \in [Parts -> Kept \cup {None}]
  BY DEF Nothing
<1> QED
  BY <1>1 DEF OpenPage

LEMMA SearchedPage ==
  ASSUME NEW pg \in OpenPage, NEW new,
         new = [pg EXCEPT !.query = IF @ = None THEN pg.of ELSE None]
  PROVE  /\ new \in OpenPage
         /\ new.of = pg.of /\ new.shown = pg.shown
         /\ new.remembered = pg.remembered /\ new.chosen = pg.chosen
         /\ new.addressed = pg.addressed /\ new.failed = pg.failed /\ new.saves = pg.saves
         /\ new.read = pg.read /\ new.answer = pg.answer
BY DEF OpenPage

LEMMA PreferencesPage ==
  ASSUME NEW pg \in OpenPage, NEW new,
         new = [pg EXCEPT
           !.read = "read", !.answer = Nothing,
           !.remembered = [p \in Parts |-> IF Learned(pg, p) THEN pg.answer[p] ELSE @[p]],
           !.shown = [p \in Parts |-> IF Follows(pg, p) THEN pg.answer[p] ELSE @[p]]]
  PROVE  /\ new \in OpenPage
         /\ new.of = pg.of /\ new.query = pg.query /\ new.chosen = pg.chosen
         /\ new.addressed = pg.addressed /\ new.failed = pg.failed /\ new.saves = pg.saves
         /\ new.read = "read"
         /\ \A p \in Parts :
              /\ new.remembered[p] = IF Learned(pg, p) THEN pg.answer[p] ELSE pg.remembered[p]
              /\ new.shown[p] = IF Follows(pg, p) THEN pg.answer[p] ELSE pg.shown[p]
<1> DEFINE remembered == [p \in Parts |-> IF Learned(pg, p) THEN pg.answer[p] ELSE pg.remembered[p]]
           shown == [p \in Parts |-> IF Follows(pg, p) THEN pg.answer[p] ELSE pg.shown[p]]
<1>1. pg.remembered \in [Parts -> Values] /\ pg.shown \in [Parts -> Values]
  BY DEF OpenPage
<1>2. remembered \in [Parts -> Values] /\ shown \in [Parts -> Values]
  BY <1>1 DEF Learned, Follows
<1>3. \A p \in Parts :
        /\ remembered[p] = IF Learned(pg, p) THEN pg.answer[p] ELSE pg.remembered[p]
        /\ shown[p] = IF Follows(pg, p) THEN pg.answer[p] ELSE pg.shown[p]
  OBVIOUS
<1>4. new = [pg EXCEPT !.read = "read", !.answer = Nothing, !.remembered = remembered,
                      !.shown = shown]
  BY DEF OpenPage
<1>5. Nothing \in [Parts -> Kept \cup {None}]
  BY DEF Nothing
<1> HIDE DEF remembered, shown
<1>6. new \in OpenPage
  <2> DEFINE mid == [pg EXCEPT !.read = "read", !.answer = Nothing]
  <2>1. mid \in OpenPage
    BY <1>5 DEF OpenPage
  <2>2. new = [mid EXCEPT !.remembered = remembered, !.shown = shown]
    BY <1>4
  <2> HIDE DEF mid
  <2>3. [mid EXCEPT !.remembered = remembered] \in OpenPage
    BY <1>2, <2>1 DEF OpenPage
  <2>4. [[mid EXCEPT !.remembered = remembered] EXCEPT !.shown = shown] \in OpenPage
    BY <1>2, <2>3 DEF OpenPage
  <2> QED
    BY <2>2, <2>4
<1>7. /\ new.of = pg.of /\ new.query = pg.query /\ new.chosen = pg.chosen
      /\ new.addressed = pg.addressed /\ new.failed = pg.failed /\ new.saves = pg.saves
      /\ new.read = "read" /\ new.remembered = remembered /\ new.shown = shown
  BY <1>4 DEF OpenPage
<1> QED
  BY <1>3, <1>6, <1>7

Chosen(pg, p, v, saves) ==
  [pg EXCEPT !.chosen = @ \cup {p}, !.shown = [pg.shown EXCEPT ![p] = v], !.saves = saves]

LEMMA ChosenPage ==
  ASSUME NEW pg \in OpenPage, NEW p \in Parts, NEW v \in Values, NEW saves \in Saves,
         NEW new, new = Chosen(pg, p, v, saves)
  PROVE  /\ new \in OpenPage
         /\ new.of = pg.of /\ new.query = pg.query /\ new.remembered = pg.remembered
         /\ new.addressed = pg.addressed /\ new.failed = pg.failed
         /\ new.read = pg.read /\ new.answer = pg.answer
         /\ new.chosen = pg.chosen \cup {p} /\ new.saves = saves
         /\ \A q \in Parts : new.shown[q] = IF q = p THEN v ELSE pg.shown[q]
<1> DEFINE shown == [pg.shown EXCEPT ![p] = v]
           mid == [pg EXCEPT !.chosen = @ \cup {p}, !.saves = saves]
<1>1. shown \in [Parts -> Values] /\ \A q \in Parts : shown[q] = IF q = p THEN v ELSE pg.shown[q]
  BY DEF OpenPage
<1>2. new = [mid EXCEPT !.shown = shown]
  BY DEF Chosen, OpenPage
<1>3. /\ mid \in OpenPage /\ mid.chosen = pg.chosen \cup {p} /\ mid.saves = saves
      /\ mid.of = pg.of /\ mid.query = pg.query /\ mid.remembered = pg.remembered
      /\ mid.addressed = pg.addressed /\ mid.failed = pg.failed
      /\ mid.read = pg.read /\ mid.answer = pg.answer
  BY DEF OpenPage
<1> HIDE DEF shown, mid
<1>4. new \in OpenPage /\ new.shown = shown
  BY <1>1, <1>2, <1>3 DEF OpenPage
<1>5. /\ new.chosen = mid.chosen /\ new.saves = mid.saves
      /\ new.of = mid.of /\ new.query = mid.query /\ new.remembered = mid.remembered
      /\ new.addressed = mid.addressed /\ new.failed = mid.failed
      /\ new.read = mid.read /\ new.answer = mid.answer
  BY <1>2, <1>3 DEF OpenPage
<1> QED
  BY <1>1, <1>3, <1>4, <1>5

\* The answer of a save: which save it was, and whether it was kept.
Answered(pg, saves, save, kept) ==
  [pg EXCEPT
     !.saves = saves, !.failed = @ \/ pg.saves.phase = "refused",
     !.saved = IF kept THEN @ \cup {save.part} ELSE @,
     !.remembered = IF kept THEN [@ EXCEPT ![save.part] = save.value] ELSE @]

LEMMA AnsweredPage ==
  ASSUME NEW pg \in OpenPage, NEW saves \in Saves, NEW save \in Save, NEW kept,
         NEW new, new = Answered(pg, saves, save, kept)
  PROVE  /\ new \in OpenPage
         /\ new.of = pg.of /\ new.query = pg.query /\ new.shown = pg.shown
         /\ new.chosen = pg.chosen /\ new.addressed = pg.addressed
         /\ new.read = pg.read /\ new.answer = pg.answer /\ new.saves = saves
         /\ pg.failed \/ pg.saves.phase = "refused" => new.failed
         /\ \A p \in Parts : p # save.part => new.remembered[p] = pg.remembered[p]
<1> DEFINE failed == pg.failed \/ pg.saves.phase = "refused"
           saved == IF kept THEN pg.saved \cup {save.part} ELSE pg.saved
           remembered == IF kept THEN [pg.remembered EXCEPT ![save.part] = save.value]
                                 ELSE pg.remembered
<1>1. failed \in BOOLEAN
  BY Zenon
<1>2. pg.saved \in SUBSET Parts /\ pg.remembered \in [Parts -> Values]
      /\ save.part \in Parts /\ save.value \in Values
  BY DEF OpenPage, Save
<1>3. saved \in SUBSET Parts /\ remembered \in [Parts -> Values]
      /\ \A p \in Parts : p # save.part => remembered[p] = pg.remembered[p]
  BY <1>2
<1>4. new = [pg EXCEPT !.saves = saves, !.failed = failed, !.saved = saved,
                      !.remembered = remembered]
  BY DEF OpenPage, Answered
<1>5. failed => new.failed
  <2>1. new.failed = failed
    <3> HIDE DEF failed, saved, remembered
    <3> QED
      BY <1>4 DEF OpenPage
  <2> QED
    BY <2>1
<1> HIDE DEF failed, saved, remembered
<1>6. new \in OpenPage
  BY <1>1, <1>3, <1>4 DEF OpenPage
<1>7. /\ new.of = pg.of /\ new.query = pg.query /\ new.shown = pg.shown
      /\ new.chosen = pg.chosen /\ new.addressed = pg.addressed
      /\ new.read = pg.read /\ new.answer = pg.answer /\ new.saves = saves
      /\ new.remembered = remembered
  BY <1>4 DEF OpenPage
<1>8. pg.failed \/ pg.saves.phase = "refused" => new.failed
  BY <1>5 DEF failed
<1> QED
  BY <1>3, <1>6, <1>7, <1>8

----------------------------------------------------------------------------
(***************************************************************************)
(* What the actions of an open page have in common.                        *)
(***************************************************************************)

LEMMA ShowTypes ==
  ASSUME address \in Addresses, memory \in Addresses, NEW pg \in OpenPage, Show(pg)
  PROVE  /\ page' = pg
         /\ address' \in Addresses /\ address'.by \in {address.by, None, pg.of}
         /\ memory' \in Addresses /\ memory'.by \in {memory.by, None, pg.of}
         /\ Settled(pg) => address' = ParamsOfView(pg) /\ memory' = ParamsOfView(pg)
BY ViewParams DEF Show

\* The head and the rest of a chain that is under way.
LEMMA ChainUnderWay ==
  ASSUME NEW saves \in Saves, saves.queue # <<>>
  PROVE  /\ Len(saves.queue) >= 1 /\ Take(saves) = saves.queue[1] /\ Take(saves) \in Save
         /\ Tail(saves.queue) \in Seq(Save) /\ Len(Tail(saves.queue)) = Len(saves.queue) - 1
         /\ \A i \in 1..(Len(saves.queue) - 1) : Tail(saves.queue)[i] = saves.queue[i + 1]
<1>1. saves.queue \in Seq(Save)
  BY DEF Saves, Save
<1> QED
  BY <1>1 DEF Take

LEMMA StoreTypes ==
  ASSUME stored \in [Accounts -> [Parts -> Kept]], NEW saves, NEW save \in Save, Take(saves) = save,
         viewer \in Accounts, Store(saves)
  PROVE  /\ stored' \in [Accounts -> [Parts -> Kept]]
         /\ \A a \in Accounts, p \in Parts :
              stored'[a][p] = IF a = viewer /\ p = save.part THEN save.value ELSE stored[a][p]
<1>1. save.part \in Parts /\ save.value \in Kept
  BY DEF Save, Kept
<1> QED
  BY <1>1 DEF Store

PageActs ==
  \/ ServeRead \/ PreferencesRead \/ ReadFails \/ Search \/ ServeSave \/ LoseSave \/ SaveAnswered
  \/ \E p \in Parts, v \in Values : Choose(p, v)

\* What an open page knows of itself.
LEMMA OpenFacts ==
  ASSUME ViewInv, PageActs
  PROVE  /\ page \in OpenPage /\ page # NoPage
         /\ viewer = page.of /\ viewer \in Accounts /\ page.saves \in Saves
         /\ page.shown \in [Parts -> Values] /\ page.chosen \subseteq Parts
         /\ address \in Addresses /\ memory \in Addresses /\ foreign \subseteq Parts
         /\ stored \in [Accounts -> [Parts -> Kept]]
         /\ QueueOK(page) /\ ChoicesOK(page, stored[page.of], foreign)
         /\ \A p \in Parts \ page.chosen : PartOK(page, p, stored[page.of], foreign)
<1>1. page # NoPage
  BY NoPageIsNone, NoSavesType
  DEF PageActs, ServeRead, PreferencesRead, ReadFails, Search, ServeSave, LoseSave, SaveAnswered, Choose
<1>2. page \in OpenPage
  BY <1>1 DEF ViewInv, ViewTypes
<1>3. /\ address \in Addresses /\ memory \in Addresses /\ foreign \subseteq Parts
      /\ stored \in [Accounts -> [Parts -> Kept]]
  BY DEF ViewInv, ViewTypes
<1>4. viewer = page.of
  BY <1>1 DEF ViewInv, ShellInv
<1>5. /\ QueueOK(page) /\ ChoicesOK(page, stored[page.of], foreign)
      /\ \A p \in Parts \ page.chosen : PartOK(page, p, stored[page.of], foreign)
  BY <1>1 DEF ViewInv, SavesInv, ReadInv
<1>6. /\ page.of \in Accounts /\ page.saves \in Saves
      /\ page.shown \in [Parts -> Values] /\ page.chosen \subseteq Parts
  BY <1>2 DEF OpenPage
<1> QED
  BY <1>1, <1>2, <1>3, <1>4, <1>5, <1>6

LEMMA QueueTypes ==
  ASSUME NEW saves \in Saves, NEW save \in Save, NEW shown \in [Parts -> Values],
         saves.phase = "idle" <=> saves.queue = <<>>, save.value = shown[save.part]
  PROVE  /\ Queue(saves, save, shown) \in Saves
         /\ Queue(saves, save, shown).phase = IF saves.phase = "idle" THEN "sent" ELSE saves.phase
         /\ Queue(saves, save, shown).queue = Append(saves.queue, save)
<1>1. CASE saves.phase = "idle"
  <2>1. <<save>> \in Seq(Save) /\ Len(<<save>>) = 1 /\ <<save>>[1] = save
    OBVIOUS
  <2> DEFINE next == SendNext(<<save>>, shown)
  <2>2. PICK d \in 0..1 : Sends(next, <<save>>, shown, d)
    BY <2>1, NextSave
  <2> HIDE DEF next
  <2>3. d = 0
    BY <2>1, <2>2 DEF Sends
  <2>4. next \in Saves /\ next.phase = "sent" /\ Len(next.queue) = 1 /\ next.queue[1] = save
    BY <2>1, <2>2, <2>3 DEF Sends
  <2>5. next.queue = <<save>> /\ Append(<<>>, save) = <<save>>
    BY <2>4 DEF Saves, Save
  <2>6. Queue(saves, save, shown) = next
    BY <1>1 DEF Queue, next
  <2> QED
    BY <1>1, <2>4, <2>5, <2>6
<1>2. CASE saves.phase # "idle"
  <2>1. saves.queue \in Seq(Save)
    BY DEF Saves, Save
  <2>2. Append(saves.queue, save) \in Seq(Save)
    BY <2>1, AppendProperties
  <2>3. Queue(saves, save, shown) = [saves EXCEPT !.queue = Append(saves.queue, save)]
    BY <1>2 DEF Queue
  <2>4. Saves = [queue : Seq(Save), phase : {"idle", "sent", "kept", "refused"}]
    BY DEF Saves, Save
  <2> QED
    BY <1>2, <2>2, <2>3, <2>4
<1> QED
  BY <1>1, <1>2

\* A page whose chain and choices stay as they are.
StillShown(pg, new) == \A p \in pg.chosen : new.shown[p] = pg.shown[p]
StillHeld(pg, prefs, prefs2, others, others2) ==
  \A p \in pg.chosen : p \in others2 \/ (p \notin others /\ prefs2[p] = prefs[p])

LEMMA SavesKept ==
  ASSUME NEW pg \in OpenPage, NEW new \in OpenPage, NEW prefs, NEW prefs2, NEW others, NEW others2,
         QueueOK(pg), ChoicesOK(pg, prefs, others),
         new.saves = pg.saves, new.chosen = pg.chosen, pg.failed => new.failed,
         StillShown(pg, new), StillHeld(pg, prefs, prefs2, others, others2)
  PROVE  QueueOK(new) /\ ChoicesOK(new, prefs2, others2)
<1> DEFINE q == pg.saves.queue
<1>1. \A i \in DOMAIN q : q[i].part \in pg.chosen
  BY DEF QueueOK
<1>2. QueueOK(new)
  BY <1>1 DEF QueueOK, StillShown
<1>3. pg.saves.phase = "kept" => 1 \in DOMAIN q
  BY DEF QueueOK, OpenPage, Saves
<1>4. \A p \in pg.chosen : Queued(new, p) <=> Queued(pg, p)
  BY DEF Queued
<1>5. ChoicesOK(new, prefs2, others2)
  BY <1>1, <1>3, <1>4 DEF ChoicesOK, StillShown, StillHeld
<1> QED
  BY <1>2, <1>5

\* A page that learns nothing about the parts not chosen here.
LEMMA ReadKept ==
  ASSUME NEW pg, NEW new, NEW p, NEW prefs, NEW prefs2, NEW others, NEW others2,
         PartOK(pg, p, prefs, others), new.read = pg.read, new.addressed = pg.addressed,
         new.answer = pg.answer, new.remembered[p] = pg.remembered[p], new.shown[p] = pg.shown[p],
         p \in others2 \/ (p \notin others /\ prefs2[p] = prefs[p])
  PROVE  PartOK(new, p, prefs2, others2)
BY DEF PartOK

LEMMA SameParams ==
  ASSUME NEW pg, NEW new, new.of = pg.of, new.query = pg.query, new.shown = pg.shown,
         new.remembered = pg.remembered, new.chosen = pg.chosen, new.addressed = pg.addressed,
         new.read = pg.read
  PROVE  ParamsOfView(new) = ParamsOfView(pg) /\ (Settled(new) <=> Settled(pg))
BY DEF ParamsOfView, Names, Explicit, Settled

\* What no action of a page changes, and what it keeps of the view.
Within ==
  /\ page' \in OpenPage /\ page'.of = page.of
  /\ stored' \in [Accounts -> [Parts -> Kept]] /\ foreign' \subseteq Parts
  /\ address' \in Addresses /\ address'.by \in {address.by, None, page.of}
  /\ memory' \in Addresses /\ memory'.by \in {memory.by, None, page.of}
  /\ UNCHANGED <<signedIn, shell, viewer, left>>

PageStays ==
  /\ Within /\ AddressInv'
  /\ QueueOK(page') /\ ChoicesOK(page', stored'[page.of], foreign')
  /\ \A p \in Parts \ page'.chosen : PartOK(page', p, stored'[page.of], foreign')

LEMMA ShowStays ==
  ASSUME ViewInv, NEW pg \in OpenPage, Show(pg), pg.of = page.of,
         UNCHANGED <<signedIn, stored, foreign, shell, viewer, left>>,
         QueueOK(pg), ChoicesOK(pg, stored[page.of], foreign),
         \A p \in Parts \ pg.chosen : PartOK(pg, p, stored[page.of], foreign)
  PROVE  PageStays
<1>1. /\ address \in Addresses /\ memory \in Addresses /\ foreign \subseteq Parts
      /\ stored \in [Accounts -> [Parts -> Kept]]
  BY DEF ViewInv, ViewTypes
<1>2. /\ page' = pg
      /\ address' \in Addresses /\ address'.by \in {address.by, None, pg.of}
      /\ memory' \in Addresses /\ memory'.by \in {memory.by, None, pg.of}
      /\ Settled(pg) => address' = ParamsOfView(pg) /\ memory' = ParamsOfView(pg)
  BY <1>1, ShowTypes
<1>3. Within
  BY <1>1, <1>2 DEF Within
<1>4. AddressInv'
  BY <1>2 DEF AddressInv
<1> QED
  BY <1>2, <1>3, <1>4 DEF PageStays

LEMMA ServeReadStep == ASSUME ViewInv, ServeRead PROVE PageStays
<1> PageActs
  BY DEF PageActs
<1> DEFINE prefs == stored[page.of]
<1>1. /\ page' = Served(page, prefs) /\ foreign' = foreign \cap page.chosen /\ page.read = "sent"
      /\ UNCHANGED <<signedIn, stored, shell, viewer, address, memory, left>>
  BY DEF ServeRead, Served
<1>2. prefs \in [Parts -> Kept]
  BY OpenFacts
<1>3. /\ page' \in OpenPage
      /\ page'.of = page.of /\ page'.query = page.query /\ page'.shown = page.shown
      /\ page'.remembered = page.remembered /\ page'.chosen = page.chosen
      /\ page'.addressed = page.addressed /\ page'.failed = page.failed /\ page'.saves = page.saves
      /\ page'.read = "served" /\ page'.answer = prefs
  <2> HIDE DEF prefs
  <2> QED
    BY <1>1, <1>2, OpenFacts, ServedPage
<1>4. QueueOK(page') /\ ChoicesOK(page', prefs, foreign')
  <2>1. StillHeld(page, prefs, prefs, foreign, foreign')
    BY <1>1 DEF StillHeld
  <2>2. StillShown(page, page')
    BY <1>3 DEF StillShown
  <2>3. page \in OpenPage /\ QueueOK(page) /\ ChoicesOK(page, prefs, foreign)
    BY OpenFacts
  <2> HIDE DEF prefs
  <2> QED
    BY <1>3, <2>1, <2>2, <2>3, SavesKept
<1>5. \A p \in Parts \ page'.chosen : PartOK(page', p, prefs, foreign')
  BY <1>1, <1>3, OpenFacts DEF PartOK
<1>6. AddressInv'
  BY <1>3 DEF AddressInv, Settled
<1>7. Within
  BY <1>1, <1>3, OpenFacts DEF Within
<1> QED
  BY <1>1, <1>4, <1>5, <1>6, <1>7 DEF PageStays

LEMMA PreferencesReadStep == ASSUME ViewInv, PreferencesRead PROVE PageStays
<1> PageActs
  BY DEF PageActs
<1> DEFINE new == [page EXCEPT
         !.read = "read", !.answer = Nothing,
         !.remembered = [p \in Parts |-> IF Learned(page, p) THEN page.answer[p] ELSE @[p]],
         !.shown = [p \in Parts |-> IF Follows(page, p) THEN page.answer[p] ELSE @[p]]]
<1>1. Show(new) /\ page.read = "served" /\ UNCHANGED <<signedIn, stored, foreign, shell, viewer, left>>
  BY DEF PreferencesRead
<1>2. /\ new \in OpenPage
      /\ new.of = page.of /\ new.query = page.query /\ new.chosen = page.chosen
      /\ new.addressed = page.addressed /\ new.failed = page.failed /\ new.saves = page.saves
      /\ new.read = "read"
      /\ \A p \in Parts :
           /\ new.remembered[p] = IF Learned(page, p) THEN page.answer[p] ELSE page.remembered[p]
           /\ new.shown[p] = IF Follows(page, p) THEN page.answer[p] ELSE page.shown[p]
  BY OpenFacts, PreferencesPage
<1> HIDE DEF new
<1>3. StillShown(page, new) /\ StillHeld(page, stored[page.of], stored[page.of], foreign, foreign)
  BY <1>2, OpenFacts DEF Follows, StillShown, StillHeld
<1>4. QueueOK(new) /\ ChoicesOK(new, stored[page.of], foreign)
  BY <1>2, <1>3, OpenFacts, SavesKept
<1>5. \A p \in Parts \ new.chosen : PartOK(new, p, stored[page.of], foreign)
  BY <1>1, <1>2, OpenFacts DEF PartOK, Learned, Follows, Effective
<1> QED
  BY <1>1, <1>2, <1>4, <1>5, ShowStays

LEMMA ReadFailsStep == ASSUME ViewInv, ReadFails PROVE PageStays
<1> PageActs
  BY DEF PageActs
<1> DEFINE new == [page EXCEPT !.read = "failed", !.answer = Nothing]
<1>1. Show(new) /\ UNCHANGED <<signedIn, stored, foreign, shell, viewer, left>>
  BY DEF ReadFails
<1>2. /\ new \in OpenPage
      /\ new.of = page.of /\ new.query = page.query /\ new.shown = page.shown
      /\ new.remembered = page.remembered /\ new.chosen = page.chosen
      /\ new.addressed = page.addressed /\ new.failed = page.failed /\ new.saves = page.saves
      /\ new.read = "failed"
  BY OpenFacts, FailedPage
<1> HIDE DEF new
<1>3. QueueOK(new) /\ ChoicesOK(new, stored[page.of], foreign)
  <2>1. StillShown(page, new) /\ StillHeld(page, stored[page.of], stored[page.of], foreign, foreign)
    BY <1>2 DEF StillShown, StillHeld
  <2> QED
    BY <1>2, <2>1, OpenFacts, SavesKept
<1>4. \A p \in Parts \ new.chosen : PartOK(new, p, stored[page.of], foreign)
  BY <1>2, OpenFacts DEF PartOK
<1> QED
  BY <1>1, <1>2, <1>3, <1>4, ShowStays

LEMMA SearchStep == ASSUME ViewInv, Search PROVE PageStays
<1> PageActs
  BY DEF PageActs
<1> DEFINE new == [page EXCEPT !.query = IF @ = None THEN page.of ELSE None]
<1>1. Show(new) /\ UNCHANGED <<signedIn, stored, foreign, shell, viewer, left>>
  BY DEF Search
<1>2. /\ new \in OpenPage
      /\ new.of = page.of /\ new.shown = page.shown
      /\ new.remembered = page.remembered /\ new.chosen = page.chosen
      /\ new.addressed = page.addressed /\ new.failed = page.failed /\ new.saves = page.saves
      /\ new.read = page.read /\ new.answer = page.answer
  BY OpenFacts, SearchedPage
<1> HIDE DEF new
<1>3. QueueOK(new) /\ ChoicesOK(new, stored[page.of], foreign)
  <2>1. StillShown(page, new) /\ StillHeld(page, stored[page.of], stored[page.of], foreign, foreign)
    BY <1>2 DEF StillShown, StillHeld
  <2> QED
    BY <1>2, <2>1, OpenFacts, SavesKept
<1>4. \A p \in Parts \ new.chosen : PartOK(new, p, stored[page.of], foreign)
  BY <1>2, OpenFacts DEF PartOK
<1> QED
  BY <1>1, <1>2, <1>3, <1>4, ShowStays

\* The head of the chain of an open page, when that is under way.
LEMMA PageChain ==
  ASSUME ViewInv, PageActs, page.saves.phase # "idle"
  PROVE  /\ page.saves.queue # <<>> /\ page.saves.queue \in Seq(Save)
         /\ Len(page.saves.queue) >= 1
         /\ Take(page.saves) = page.saves.queue[1] /\ Take(page.saves) \in Save
         /\ Take(page.saves).part \in page.chosen /\ Queued(page, Take(page.saves).part)
<1>1. page.saves \in Saves /\ QueueOK(page)
  BY OpenFacts
<1>2. page.saves.queue # <<>> /\ page.saves.queue \in Seq(Save)
  BY <1>1 DEF QueueOK, Saves, Save
<1>3. /\ Len(page.saves.queue) >= 1 /\ Take(page.saves) = page.saves.queue[1]
      /\ Take(page.saves) \in Save
  BY <1>1, <1>2, ChainUnderWay
<1>4. 1 \in DOMAIN page.saves.queue
  BY <1>2, <1>3
<1> QED
  BY <1>1, <1>2, <1>3, <1>4 DEF QueueOK, Queued

LEMMA ServeSaveStep == ASSUME ViewInv, ServeSave PROVE PageStays
<1> PageActs
  BY DEF PageActs
<1> DEFINE head == Take(page.saves)
           prefs == stored[page.of]
           prefs2 == stored'[page.of]
<1>1. /\ Store(page.saves) /\ page' = [page EXCEPT !.saves.phase = "kept"]
      /\ foreign' = foreign \ {head.part} /\ page.saves.phase = "sent"
      /\ UNCHANGED <<signedIn, shell, viewer, address, memory, left>>
  BY DEF ServeSave
<1>2. /\ head = page.saves.queue[1] /\ head \in Save /\ head.part \in page.chosen
      /\ Queued(page, head.part)
  BY <1>1, PageChain
<1>3. /\ stored' \in [Accounts -> [Parts -> Kept]]
      /\ \A a \in Accounts, p \in Parts :
           stored'[a][p] = IF a = viewer /\ p = head.part THEN head.value ELSE stored[a][p]
  <2>1. /\ stored \in [Accounts -> [Parts -> Kept]] /\ viewer \in Accounts
    BY OpenFacts
  <2> QED
    BY <1>1, <1>2, <2>1, StoreTypes
<1>4. /\ page' \in OpenPage
      /\ page'.of = page.of /\ page'.query = page.query /\ page'.shown = page.shown
      /\ page'.remembered = page.remembered /\ page'.chosen = page.chosen
      /\ page'.addressed = page.addressed /\ page'.read = page.read /\ page'.answer = page.answer
      /\ page'.failed = page.failed /\ page'.saves.queue = page.saves.queue
      /\ page'.saves.phase = "kept"
  BY <1>1, OpenFacts, PhasePage
<1>5. \A p \in Parts : prefs2[p] = IF p = head.part THEN head.value ELSE prefs[p]
  BY <1>3, OpenFacts
<1>6. head.part \in Parts
  BY <1>2 DEF Save
<1> HIDE DEF head, prefs, prefs2
<1>7. QueueOK(page')
  BY <1>1, <1>4, OpenFacts DEF QueueOK
<1>8. \A p \in Parts : Queued(page', p) <=> Queued(page, p)
  BY <1>4 DEF Queued
<1>9. ChoicesOK(page', prefs2, foreign')
  <2>1. page'.saves.queue[1].part \in foreign' \/ prefs2[page'.saves.queue[1].part] = page'.saves.queue[1].value
    BY <1>2, <1>4, <1>5, <1>6
  <2>2. ASSUME NEW p \in page.chosen
        PROVE  Queued(page', p) \/ page'.failed \/ p \in foreign' \/ prefs2[p] = page'.shown[p]
    <3>1. Queued(page, p) \/ page.failed \/ p \in foreign \/ prefs[p] = page.shown[p]
      BY OpenFacts DEF ChoicesOK, prefs
    <3>2. p \in Parts
      BY OpenFacts
    <3> QED
      BY <1>1, <1>2, <1>4, <1>5, <1>8, <3>1, <3>2
  <2> QED
    BY <1>4, <2>1, <2>2 DEF ChoicesOK
<1>10. ASSUME NEW p \in Parts \ page'.chosen PROVE PartOK(page', p, prefs2, foreign')
  <2>1. PartOK(page, p, prefs, foreign)
    BY <1>4, OpenFacts DEF prefs
  <2>2. p \in foreign' \/ (p \notin foreign /\ prefs2[p] = prefs[p])
    BY <1>1, <1>2, <1>4, <1>5
  <2> QED
    BY <1>4, <2>1, <2>2 DEF PartOK
<1>11. ParamsOfView(page') = ParamsOfView(page) /\ (Settled(page') <=> Settled(page))
  BY <1>4, SameParams
<1>12. AddressInv'
  BY <1>1, <1>11 DEF ViewInv, AddressInv
<1>13. Within
  BY <1>1, <1>3, <1>4, OpenFacts DEF Within
<1> QED
  BY <1>7, <1>9, <1>10, <1>12, <1>13 DEF PageStays, prefs2

LEMMA LoseSaveStep == ASSUME ViewInv, LoseSave PROVE PageStays
<1> PageActs
  BY DEF PageActs
<1>1. /\ page' = [page EXCEPT !.saves.phase = "refused"] /\ page.saves.phase = "sent"
      /\ UNCHANGED <<signedIn, stored, foreign, shell, viewer, address, memory, left>>
  BY DEF LoseSave
<1>2. /\ page' \in OpenPage
      /\ page'.of = page.of /\ page'.query = page.query /\ page'.shown = page.shown
      /\ page'.remembered = page.remembered /\ page'.chosen = page.chosen
      /\ page'.addressed = page.addressed /\ page'.read = page.read /\ page'.answer = page.answer
      /\ page'.failed = page.failed /\ page'.saves.queue = page.saves.queue
      /\ page'.saves.phase = "refused"
  BY <1>1, OpenFacts, PhasePage
<1>3. QueueOK(page')
  BY <1>1, <1>2, OpenFacts DEF QueueOK
<1>4. ChoicesOK(page', stored'[page.of], foreign')
  BY <1>1, <1>2, OpenFacts DEF ChoicesOK, Queued
<1>5. \A p \in Parts \ page'.chosen : PartOK(page', p, stored'[page.of], foreign')
  BY <1>1, <1>2, OpenFacts DEF PartOK
<1>6. ParamsOfView(page') = ParamsOfView(page) /\ (Settled(page') <=> Settled(page))
  BY <1>2, SameParams
<1>7. AddressInv'
  BY <1>1, <1>6 DEF ViewInv, AddressInv
<1>8. Within
  BY <1>1, <1>2, OpenFacts DEF Within
<1> QED
  BY <1>3, <1>4, <1>5, <1>7, <1>8 DEF PageStays

\* The chain after an answer: what is skipped was not shown, so what counts stays.
LEMMA SaveAnsweredStep == ASSUME ViewInv, SaveAnswered PROVE PageStays
<1> PageActs
  BY DEF PageActs
<1> DEFINE save == Take(page.saves)
           q == page.saves.queue
           kept == page.saves.phase = "kept" /\ page.shown[save.part] = save.value
           next == SendNext(Tail(q), page.shown)
           new == Answered(page, next, save, kept)
<1>1. /\ Show(new) /\ page.saves.phase \in {"kept", "refused"}
      /\ UNCHANGED <<signedIn, stored, foreign, shell, viewer, left>>
  BY DEF SaveAnswered, Answered
<1>2. /\ q # <<>> /\ q \in Seq(Save) /\ Len(q) >= 1 /\ save = q[1] /\ save \in Save
      /\ save.part \in page.chosen
  BY <1>1, PageChain
<1>3. /\ Tail(q) \in Seq(Save) /\ Len(Tail(q)) = Len(q) - 1
      /\ \A i \in 1..(Len(q) - 1) : Tail(q)[i] = q[i + 1]
  BY <1>2, OpenFacts, ChainUnderWay
<1>4. PICK d \in 0..(Len(q) - 1) : Sends(next, Tail(q), page.shown, d)
  BY <1>3, OpenFacts, NextSave
<1>5. next \in Saves /\ Len(next.queue) = Len(q) - 1 - d
  BY <1>3, <1>4 DEF Sends
<1>6. next.phase = IF d = Len(q) - 1 THEN "idle" ELSE "sent"
  BY <1>3, <1>4 DEF Sends
<1>7. \A i \in 2..(d + 1) : q[i].value # page.shown[q[i].part]
  <2> TAKE i \in 2..(d + 1)
  <2>1. i - 1 \in 1..d /\ i - 1 \in 1..(Len(q) - 1) /\ (i - 1) + 1 = i
    BY <1>2, <1>4
  <2>2. Tail(q)[i - 1] = q[i]
    BY <1>3, <2>1
  <2> QED
    BY <1>4, <2>1, <2>2 DEF Sends
<1>8. \A i \in 1..(Len(q) - 1 - d) : next.queue[i] = q[i + d + 1]
  <2> TAKE i \in 1..(Len(q) - 1 - d)
  <2>1. i + d \in 1..(Len(q) - 1)
    BY <1>2, <1>4
  <2>2. next.queue[i] = Tail(q)[i + d]
    BY <1>3, <1>4 DEF Sends
  <2> QED
    BY <1>3, <2>1, <2>2
<1>9. /\ new \in OpenPage
      /\ new.of = page.of /\ new.query = page.query /\ new.shown = page.shown
      /\ new.chosen = page.chosen /\ new.addressed = page.addressed
      /\ new.read = page.read /\ new.answer = page.answer /\ new.saves = next
      /\ page.failed \/ page.saves.phase = "refused" => new.failed
      /\ \A p \in Parts : p # save.part => new.remembered[p] = page.remembered[p]
  <2> HIDE DEF kept, next, save
  <2> QED
    BY <1>2, <1>5, OpenFacts, AnsweredPage
<1> HIDE DEF kept, next, save, new, q
<1>10. DOMAIN q = 1..Len(q) /\ DOMAIN next.queue = 1..(Len(q) - 1 - d) /\ Len(q) \in Nat
  BY <1>2, <1>5 DEF Saves
<1>11. \A i \in DOMAIN q : \E j \in DOMAIN q :
         i <= j /\ q[j].part = q[i].part /\ q[j].value = page.shown[q[i].part]
  BY OpenFacts DEF QueueOK, q
<1>12. QueueOK(new)
  <2>1. next.phase = "idle" <=> next.queue = <<>>
    BY <1>2, <1>4, <1>5, <1>6 DEF Saves
  <2>2. ASSUME NEW i \in DOMAIN next.queue PROVE next.queue[i].part \in page.chosen
    <3>1. i + d + 1 \in DOMAIN q /\ next.queue[i] = q[i + d + 1]
      BY <1>4, <1>8, <1>10
    <3>2. \A j \in DOMAIN q : q[j].part \in page.chosen
      BY OpenFacts DEF QueueOK, q
    <3> QED
      BY <3>1, <3>2
  <2>3. ASSUME NEW i \in DOMAIN next.queue
        PROVE  \E j \in DOMAIN next.queue : /\ i <= j /\ next.queue[j].part = next.queue[i].part
                                             /\ next.queue[j].value = page.shown[next.queue[i].part]
    <3>1. i + d + 1 \in DOMAIN q /\ next.queue[i] = q[i + d + 1]
      BY <1>4, <1>8, <1>10
    <3>2. PICK j \in DOMAIN q : /\ i + d + 1 <= j /\ q[j].part = q[i + d + 1].part
                                /\ q[j].value = page.shown[q[i + d + 1].part]
      BY <1>11, <3>1
    <3>3. j - d - 1 \in DOMAIN next.queue /\ i <= j - d - 1 /\ (j - d - 1) + d + 1 = j
      <4>1. d \in Nat /\ i \in Nat /\ j \in Nat /\ 1 <= i /\ j <= Len(q) /\ i + d + 1 <= j
        BY <1>4, <1>10, <3>1, <3>2
      <4>2. j - d - 1 \in 1..(Len(q) - 1 - d)
        BY <1>10, <4>1
      <4>3. i <= j - d - 1 /\ (j - d - 1) + d + 1 = j
        BY <4>1
      <4>4. DOMAIN next.queue = 1..(Len(q) - 1 - d)
        BY <1>10
      <4> QED
        BY <4>2, <4>3, <4>4
    <3>4. next.queue[j - d - 1] = q[j]
      BY <1>8, <1>10, <3>3
    <3> QED
      BY <3>1, <3>2, <3>3, <3>4
  <2> QED
    BY <1>9, <2>1, <2>2, <2>3 DEF QueueOK
<1>13. ChoicesOK(new, stored[page.of], foreign)
  <2>1. new.saves.phase # "kept"
    BY <1>6, <1>9
  <2>2. ASSUME NEW p \in page.chosen
        PROVE  Queued(new, p) \/ new.failed \/ p \in foreign \/ stored[page.of][p] = new.shown[p]
    <3>1. CASE ~Queued(page, p)
      <4>1. page.failed \/ p \in foreign \/ stored[page.of][p] = page.shown[p]
        BY <3>1, OpenFacts DEF ChoicesOK
      <4> QED
        BY <1>9, <4>1
    <3>2. CASE Queued(page, p)
      <4>1. PICK i \in DOMAIN q : q[i].part = p
        BY <3>2 DEF Queued, q
      <4>2. PICK j \in DOMAIN q : q[j].part = p /\ q[j].value = page.shown[p]
        BY <1>11, <4>1
      <4>3. CASE j > d + 1
        <5>1. j - d - 1 \in DOMAIN next.queue /\ (j - d - 1) + d + 1 = j
          BY <1>4, <1>10, <4>3
        <5>2. next.queue[j - d - 1] = q[j]
          BY <1>8, <1>10, <5>1
        <5> QED
          BY <1>9, <4>2, <5>1, <5>2 DEF Queued
      <4>4. CASE j <= d + 1
        <5>1. j = 1
          BY <1>4, <1>7, <1>10, <4>2, <4>4
        <5>2. save.part = p /\ save.value = page.shown[p]
          BY <1>2, <4>2, <5>1
        <5>3. page.saves.phase = "kept" => p \in foreign \/ stored[page.of][p] = page.shown[p]
          BY <1>2, <5>2, OpenFacts DEF ChoicesOK, q
        <5> QED
          BY <1>1, <1>9, <5>3
      <4> QED
        BY <1>4, <1>10, <4>3, <4>4
    <3> QED
      BY <3>1, <3>2
  <2> QED
    BY <1>9, <2>1, <2>2 DEF ChoicesOK
<1>14. \A p \in Parts \ new.chosen : PartOK(new, p, stored[page.of], foreign)
  BY <1>2, <1>9, OpenFacts DEF PartOK
<1> QED
  BY <1>1, <1>9, <1>12, <1>13, <1>14, ShowStays

\* A choice joins the chain, or starts it; it is the one shown.
LEMMA ChooseStep == ASSUME ViewInv, NEW p \in Parts, NEW v \in Values, Choose(p, v) PROVE PageStays
<1> PageActs
  BY DEF PageActs
<1> DEFINE save == [part |-> p, value |-> v]
           shown == [page.shown EXCEPT ![p] = v]
           q == page.saves.queue
           saves == Queue(page.saves, save, shown)
           new == Chosen(page, p, v, saves)
<1>1. Show(new) /\ UNCHANGED <<signedIn, stored, foreign, shell, viewer, left>>
  BY OpenFacts DEF Choose, Chosen, OpenPage
<1>2. /\ save \in Save /\ shown \in [Parts -> Values] /\ save.value = shown[save.part]
      /\ save.part = p /\ save.value = v
  BY OpenFacts DEF Save
<1>3. page.saves.phase = "idle" <=> q = <<>>
  BY OpenFacts DEF QueueOK
<1>4. q \in Seq(Save)
  BY OpenFacts DEF Saves, Save
<1> HIDE DEF save, shown
<1>5. /\ saves \in Saves /\ saves.queue = Append(q, save)
      /\ saves.phase = IF page.saves.phase = "idle" THEN "sent" ELSE page.saves.phase
  BY <1>2, <1>3, OpenFacts, QueueTypes
<1> HIDE DEF saves
<1>6. /\ new \in OpenPage
      /\ new.of = page.of /\ new.query = page.query /\ new.remembered = page.remembered
      /\ new.addressed = page.addressed /\ new.failed = page.failed
      /\ new.read = page.read /\ new.answer = page.answer
      /\ new.chosen = page.chosen \cup {p} /\ new.saves = saves
      /\ \A r \in Parts : new.shown[r] = IF r = p THEN v ELSE page.shown[r]
  BY <1>5, OpenFacts, ChosenPage
<1> HIDE DEF new, q
<1> DEFINE n == Len(q) + 1
           q2 == saves.queue
<1>7. /\ DOMAIN q = 1..Len(q) /\ Len(q) \in Nat /\ DOMAIN q2 = 1..n /\ q2[n] = save
      /\ \A i \in DOMAIN q : i \in DOMAIN q2 /\ q2[i] = q[i]
      /\ n \in DOMAIN q2
  BY <1>2, <1>4, <1>5
<1>8. \A i \in DOMAIN q : q[i].part \in page.chosen /\ q[i].part \in Parts
  BY OpenFacts DEF QueueOK, q
<1>9. \A i \in DOMAIN q : \E j \in DOMAIN q :
         i <= j /\ q[j].part = q[i].part /\ q[j].value = page.shown[q[i].part]
  BY OpenFacts DEF QueueOK, q
<1> HIDE DEF q2
<1>10. \A i \in DOMAIN q2 : i = n \/ i \in DOMAIN q
  BY <1>7
<1>11. QueueOK(new)
  <2>1. saves.phase = "idle" <=> q2 = <<>>
    BY <1>5, <1>7
  <2>2. ASSUME NEW i \in DOMAIN q2 PROVE q2[i].part \in new.chosen
    BY <1>2, <1>6, <1>7, <1>8, <1>10
  <2>3. ASSUME NEW i \in DOMAIN q2
        PROVE  \E j \in DOMAIN q2 : /\ i <= j /\ q2[j].part = q2[i].part
                                     /\ q2[j].value = new.shown[q2[i].part]
    <3>1. CASE q2[i].part = p
      <4>1. i <= n
        BY <1>7
      <4> QED
        BY <1>2, <1>6, <1>7, <3>1, <4>1
    <3>2. CASE q2[i].part # p
      <4>1. i \in DOMAIN q /\ q2[i] = q[i]
        BY <1>2, <1>7, <1>10, <3>2
      <4>2. PICK j \in DOMAIN q : i <= j /\ q[j].part = q[i].part /\ q[j].value = page.shown[q[i].part]
        BY <1>9, <4>1
      <4> QED
        BY <1>6, <1>7, <1>8, <3>2, <4>1, <4>2
    <3> QED
      BY <3>1, <3>2
  <2> QED
    BY <1>6, <2>1, <2>2, <2>3 DEF QueueOK, q2
<1>12. ChoicesOK(new, stored[page.of], foreign)
  <2>1. ASSUME saves.phase = "kept"
        PROVE  q2[1].part \in foreign \/ stored[page.of][q2[1].part] = q2[1].value
    <3>1. page.saves.phase = "kept"
      BY <1>5, <2>1
    <3>2. 1 \in DOMAIN q
      BY <1>3, <1>4, <1>7, <3>1
    <3>3. q[1].part \in foreign \/ stored[page.of][q[1].part] = q[1].value
      BY <3>1, OpenFacts DEF ChoicesOK, q
    <3> QED
      BY <1>7, <3>2, <3>3
  <2>2. ASSUME NEW r \in new.chosen
        PROVE  Queued(new, r) \/ new.failed \/ r \in foreign \/ stored[page.of][r] = new.shown[r]
    <3>1. CASE r = p
      BY <1>2, <1>6, <1>7, <3>1 DEF Queued, q2
    <3>2. CASE r # p
      <4>1. r \in page.chosen /\ r \in Parts
        BY <1>6, <3>2, OpenFacts
      <4>2. Queued(page, r) \/ page.failed \/ r \in foreign \/ stored[page.of][r] = page.shown[r]
        BY <4>1, OpenFacts DEF ChoicesOK
      <4>3. Queued(page, r) => Queued(new, r)
        BY <1>6, <1>7 DEF Queued, q, q2
      <4> QED
        BY <1>6, <3>2, <4>1, <4>2, <4>3
    <3> QED
      BY <3>1, <3>2
  <2> QED
    BY <1>6, <2>1, <2>2 DEF ChoicesOK, q2
<1>13. \A r \in Parts \ new.chosen : PartOK(new, r, stored[page.of], foreign)
  BY <1>6, OpenFacts DEF PartOK
<1> QED
  BY <1>1, <1>6, <1>11, <1>12, <1>13, ShowStays

LEMMA PageStep == ASSUME ViewInv, PageActs PROVE PageStays
BY ServeReadStep, PreferencesReadStep, ReadFailsStep, SearchStep, ServeSaveStep, LoseSaveStep,
   SaveAnsweredStep, ChooseStep
DEF PageActs

----------------------------------------------------------------------------
(***************************************************************************)
(* The invariant.                                                          *)
(***************************************************************************)

LEMMA PageKeeps == ASSUME ViewInv, PageActs PROVE ViewInv'
<1>1. /\ page' \in OpenPage /\ page' # NoPage /\ page'.of = page.of
      /\ stored' \in [Accounts -> [Parts -> Kept]] /\ foreign' \subseteq Parts
      /\ address' \in Addresses /\ address'.by \in {address.by, None, page.of}
      /\ memory' \in Addresses /\ memory'.by \in {memory.by, None, page.of}
      /\ UNCHANGED <<signedIn, shell, viewer, left>>
  BY PageStep, NoPageIsNone DEF PageStays, Within
<1>2. page # NoPage /\ page.of = viewer /\ shell \in {"library", "closing"}
  BY OpenFacts DEF ViewInv, ShellInv
<1>3. ViewTypes'
  BY <1>1 DEF ViewInv, ViewTypes
<1>4. ShellInv'
  BY <1>1, <1>2 DEF ViewInv, ShellInv
<1>5. SearchInv'
  BY <1>1, <1>2 DEF ViewInv, SearchInv
<1>6. SavesInv' /\ ReadInv' /\ AddressInv'
  BY <1>1, PageStep DEF PageStays, SavesInv, ReadInv
<1>7. LeftInv'
  BY <1>1 DEF ViewInv, LeftInv
<1> QED
  BY <1>3, <1>4, <1>5, <1>6, <1>7 DEF ViewInv

\* Without a page nothing is promised of one.
LEMMA PageGone == ASSUME page' = NoPage PROVE SavesInv' /\ ReadInv' /\ AddressInv'
BY NoPageIsNone DEF SavesInv, ReadInv, AddressInv, Settled

LEMMA PageOpened ==
  ASSUME NEW who \in Accounts, NEW addr \in Addresses, page' = Opened(who, addr)
  PROVE  /\ page' \in OpenPage /\ page' # NoPage /\ page'.of = who
         /\ SavesInv' /\ ReadInv' /\ AddressInv'
<1>1. /\ page' \in OpenPage /\ page'.of = who /\ page'.read = "sent"
      /\ page'.chosen = {} /\ page'.saves = NoSaves
      /\ \A p \in Parts : /\ page'.remembered[p] = Default
                          /\ p \notin page'.addressed => page'.shown[p] = Default
  BY OpenedPage
<1>2. QueueOK(page') /\ ChoicesOK(page', stored'[page'.of], foreign')
  BY <1>1, NoSavesType DEF QueueOK, ChoicesOK
<1>3. \A p \in Parts \ page'.chosen : PartOK(page', p, stored'[page'.of], foreign')
  BY <1>1 DEF PartOK
<1> QED
  BY <1>1, <1>2, <1>3, NoPageIsNone DEF SavesInv, ReadInv, AddressInv, Settled

LEMMA SessionReadKeeps == ASSUME ViewInv, SessionRead PROVE ViewInv'
<1>1. shell = "opening" /\ viewer' = signedIn /\ UNCHANGED <<signedIn, stored, foreign, left>>
  BY DEF SessionRead
<1>2. CASE signedIn = None
  <2>1. shell' = "gate" /\ memory' = Bare /\ address' \in {Bare, address} /\ page' = NoPage
    BY <1>2 DEF SessionRead, ForgetLibrarySearch
  <2>2. ViewTypes'
    BY <1>1, <1>2, <2>1, BareType DEF ViewInv, ViewTypes, Shells
  <2>3. ShellInv' /\ SearchInv' /\ LeftInv'
    BY <1>1, <1>2, <2>1, BareType DEF ViewInv, ShellInv, SearchInv, LeftInv
  <2> QED
    BY <2>1, <2>2, <2>3, PageGone DEF ViewInv
<1>3. CASE signedIn # None
  <2>1. shell' = "library" /\ UNCHANGED <<address, memory>> /\ page' = Opened(signedIn, address)
    BY <1>3 DEF SessionRead, KeepLibrarySearch
  <2>2. signedIn \in Accounts /\ address \in Addresses
    BY <1>3 DEF ViewInv, ViewTypes
  <2>3. /\ page' \in OpenPage /\ page' # NoPage /\ page'.of = signedIn
        /\ SavesInv' /\ ReadInv' /\ AddressInv'
    BY <2>1, <2>2, PageOpened
  <2>4. ViewTypes'
    BY <1>1, <2>1, <2>2, <2>3 DEF ViewInv, ViewTypes, Shells
  <2>5. ShellInv' /\ SearchInv' /\ LeftInv'
    BY <1>1, <1>3, <2>1, <2>3 DEF ViewInv, ShellInv, SearchInv, LeftInv
  <2> QED
    BY <2>3, <2>4, <2>5 DEF ViewInv
<1> QED
  BY <1>2, <1>3

LEMMA BackKeeps == ASSUME ViewInv, Back PROVE ViewInv'
<1> DEFINE addr == IF shell = "reader" THEN address ELSE memory
<1>1. /\ shell \in {"reader", "direct"} /\ address' = addr /\ page' = Opened(viewer, addr)
      /\ shell' = "library" /\ foreign' = {} /\ UNCHANGED <<signedIn, stored, viewer, memory, left>>
  BY DEF Back
<1>2. addr \in Addresses /\ viewer # None /\ viewer \in Accounts
  BY <1>1 DEF ViewInv, ViewTypes, ShellInv
<1>3. shell \in {"library", "reader", "direct"} => addr.by \in {None, viewer}
  BY DEF ViewInv, SearchInv
<1> HIDE DEF addr
<1>4. /\ page' \in OpenPage /\ page' # NoPage /\ page'.of = viewer
      /\ SavesInv' /\ ReadInv' /\ AddressInv'
  BY <1>1, <1>2, PageOpened
<1>5. ViewTypes'
  BY <1>1, <1>2, <1>4 DEF ViewInv, ViewTypes, Shells
<1>6. ShellInv'
  BY <1>1, <1>2, <1>4 DEF ViewInv, ShellInv
<1>7. SearchInv'
  BY <1>1, <1>3 DEF ViewInv, SearchInv
<1>8. LeftInv'
  BY <1>1 DEF ViewInv, LeftInv
<1> QED
  BY <1>4, <1>5, <1>6, <1>7, <1>8 DEF ViewInv

\* The steps that take the page away.
Leaves ==
  \/ Reload \/ Replaced \/ ReaderReload \/ ReadRefused \/ SaveRefused
  \/ \E a \in Accounts : SignIn(a)

LEMMA LeavesKeeps == ASSUME ViewInv, Leaves PROVE ViewInv'
<1> USE DEF Unload, ShowSignInGate, ForgetLibrarySearch
<1>1. /\ page' = NoPage /\ foreign' = {} /\ (left' = NoLeft \/ left' = left)
      /\ address' \in {Bare, address} /\ memory' \in {Bare, memory} /\ stored' = stored
  BY DEF Leaves, Reload, Replaced, ReaderReload, ReadRefused, SaveRefused, SignIn
<1>2. /\ signedIn' \in Accounts \cup {signedIn} /\ viewer' \in {None, viewer} /\ shell' \in Shells
  BY DEF Leaves, Reload, Replaced, ReaderReload, ReadRefused, SaveRefused, SignIn, Shells
<1>3. ViewTypes'
  BY <1>1, <1>2, BareType DEF ViewInv, ViewTypes
<1>4. LeftInv'
  BY <1>1 DEF ViewInv, LeftInv
<1>5. ShellInv'
  <2>1. \A a \in Accounts : a # None
    BY ViewAssumption
  <2>2. page.read = "sent" \/ page.saves.phase = "sent" => page # NoPage
    BY NoPageIsNone, NoSavesType
  <2> QED
    BY <1>1, <2>1, <2>2
    DEF ViewInv, ShellInv, Leaves, Reload, Replaced, ReaderReload, ReadRefused, SaveRefused, SignIn
<1>6. SearchInv'
  <2>1. CASE Reload
    BY <2>1 DEF ViewInv, SearchInv, ShellInv, Reload
  <2>2. CASE Replaced
    BY <2>2 DEF ViewInv, SearchInv, ShellInv, Replaced
  <2>3. CASE ReaderReload
    BY <2>3 DEF ViewInv, SearchInv, ShellInv, ReaderReload
  <2>4. CASE ReadRefused \/ SaveRefused
    BY <2>4, BareType DEF SearchInv, ReadRefused, SaveRefused
  <2>5. CASE \E a \in Accounts : SignIn(a)
    BY <2>5, BareType DEF ViewInv, SearchInv, SignIn
  <2> QED
    BY <2>1, <2>2, <2>3, <2>4, <2>5 DEF Leaves
<1> QED
  BY <1>1, <1>3, <1>4, <1>5, <1>6, PageGone DEF ViewInv

\* The steps of the session alone.
Sessions == SessionUnreachable \/ Logout \/ Expire

LEMMA SessionsKeep == ASSUME ViewInv, Sessions PROVE ViewInv'
<1>1. /\ UNCHANGED <<stored, foreign, viewer, address, page, left>>
      /\ memory' \in {Bare, memory} /\ signedIn' \in {None, signedIn}
  BY DEF Sessions, SessionUnreachable, Logout, Expire
<1>2. /\ shell' \in Shells
      /\ \/ shell = "opening" /\ shell' = "offline" /\ signedIn' = signedIn /\ memory' = memory
         \/ shell = "library" /\ shell' = "closing" /\ signedIn' = None /\ memory' = Bare
         \/ shell' = shell /\ signedIn' = None /\ memory' = memory
  BY DEF Sessions, SessionUnreachable, Logout, Expire, ViewInv, ViewTypes, Shells
<1>3. ViewTypes'
  BY <1>1, <1>2, BareType DEF ViewInv, ViewTypes
<1>4. ShellInv'
  BY <1>1, <1>2 DEF ViewInv, ShellInv
<1>5. SearchInv'
  BY <1>1, <1>2 DEF ViewInv, SearchInv
<1>6. SavesInv' /\ ReadInv' /\ LeftInv'
  BY <1>1 DEF ViewInv, SavesInv, ReadInv, LeftInv
<1>7. AddressInv'
  BY <1>1, <1>2 DEF ViewInv, AddressInv
<1> QED
  BY <1>3, <1>4, <1>5, <1>6, <1>7 DEF ViewInv

LEMMA OpenReaderKeeps == ASSUME ViewInv, OpenReader PROVE ViewInv'
<1>1. /\ shell = "library" /\ left = NoLeft /\ shell' = "reader" /\ page' = NoPage
      /\ left' = IF page.saves = NoSaves THEN NoLeft
                 ELSE [saves |-> page.saves, shown |-> page.shown]
      /\ UNCHANGED <<signedIn, stored, foreign, viewer, address, memory>>
  BY DEF OpenReader
<1>2. page # NoPage /\ page \in OpenPage /\ QueueOK(page)
  BY <1>1 DEF ViewInv, ViewTypes, ShellInv, SavesInv
<1>3. page.saves \in Saves /\ page.shown \in [Parts -> Values]
  BY <1>2 DEF OpenPage
<1>4. page.saves = NoSaves \/ page.saves.queue # <<>>
  BY <1>2, <1>3 DEF QueueOK, NoSaves, Saves
<1>5. left' = NoLeft \/ (left' \in LeftChain /\ left'.saves.queue # <<>>)
  BY <1>1, <1>3, <1>4 DEF LeftChain
<1>6. ViewTypes'
  BY <1>1, <1>5 DEF ViewInv, ViewTypes, Shells
<1>7. ShellInv' /\ SearchInv' /\ LeftInv'
  BY <1>1, <1>2, <1>5 DEF ViewInv, ShellInv, SearchInv, LeftInv
<1> QED
  BY <1>1, <1>6, <1>7, PageGone DEF ViewInv

LEMMA LeftSaveAnsweredKeeps == ASSUME ViewInv, LeftSaveAnswered PROVE ViewInv'
<1> DEFINE next == SendNext(Tail(left.saves.queue), left.shown)
<1>1. /\ left' = IF next = NoSaves THEN NoLeft ELSE [left EXCEPT !.saves = next]
      /\ left.saves.phase # "idle"
      /\ UNCHANGED <<signedIn, stored, foreign, shell, viewer, address, memory, page>>
  BY DEF LeftSaveAnswered
<1>2. left \in LeftChain /\ left.saves.queue # <<>>
  BY <1>1, NoSavesType DEF ViewInv, ViewTypes, LeftInv, NoLeft
<1>3. left.saves \in Saves /\ left.shown \in [Parts -> Values]
  BY <1>2 DEF LeftChain
<1>4. Tail(left.saves.queue) \in Seq(Save)
  BY <1>2, <1>3, ChainUnderWay
<1>5. PICK d \in 0..Len(Tail(left.saves.queue)) :
        Sends(next, Tail(left.saves.queue), left.shown, d)
  BY <1>3, <1>4, NextSave
<1>6. next \in Saves /\ (next.queue = <<>> => next = NoSaves)
  <2>1. /\ next \in Saves
        /\ Len(next.queue) = Len(Tail(left.saves.queue)) - d
        /\ next.phase = IF d = Len(Tail(left.saves.queue)) THEN "idle" ELSE "sent"
    BY <1>5 DEF Sends
  <2>2. Len(Tail(left.saves.queue)) \in Nat
    BY <1>4
  <2> HIDE DEF next
  <2>3. next.queue = <<>> => next.phase = "idle"
    BY <1>5, <2>1, <2>2
  <2> QED
    BY <2>1, <2>3 DEF Saves, NoSaves
<1> HIDE DEF next
<1>7. left' = NoLeft \/ (left' \in LeftChain /\ left'.saves.queue # <<>>)
  BY <1>1, <1>2, <1>6 DEF LeftChain
<1>8. ViewTypes' /\ LeftInv'
  BY <1>1, <1>7 DEF ViewInv, ViewTypes, LeftInv
<1>9. ShellInv' /\ SearchInv' /\ AddressInv' /\ SavesInv' /\ ReadInv'
  BY <1>1 DEF ViewInv, ShellInv, SearchInv, AddressInv, SavesInv, ReadInv
<1> QED
  BY <1>8, <1>9 DEF ViewInv

\* A preference that is stored from elsewhere.
LEMMA StoredElsewhere ==
  ASSUME ViewInv, NEW part \in Parts, NEW value \in Kept, viewer \in Accounts,
         stored' = [stored EXCEPT ![viewer][part] = value], foreign' = foreign \cup {part},
         left' = NoLeft \/ (left' \in LeftChain /\ left'.saves.queue # <<>>),
         UNCHANGED <<signedIn, shell, viewer, address, memory, page>>
  PROVE  ViewInv'
<1>1. stored \in [Accounts -> [Parts -> Kept]] /\ page \in OpenPage \cup {NoPage}
  BY DEF ViewInv, ViewTypes
<1>2. /\ stored' \in [Accounts -> [Parts -> Kept]]
      /\ \A p \in Parts : p # part => stored'[viewer][p] = stored[viewer][p]
  BY <1>1
<1>3. ViewTypes' /\ LeftInv'
  BY <1>2 DEF ViewInv, ViewTypes, LeftInv
<1>4. ShellInv' /\ SearchInv' /\ AddressInv'
  BY DEF ViewInv, ShellInv, SearchInv, AddressInv
<1>5. SavesInv'
  <2> SUFFICES ASSUME page # NoPage
               PROVE  QueueOK(page) /\ ChoicesOK(page, stored'[page.of], foreign')
    BY DEF SavesInv
  <2>1. /\ page \in OpenPage /\ page.of = viewer
        /\ QueueOK(page) /\ ChoicesOK(page, stored[page.of], foreign)
    BY <1>1 DEF ViewInv, ShellInv, SavesInv
  <2>2. page.chosen \subseteq Parts
    BY <2>1 DEF OpenPage
  <2>3. StillHeld(page, stored[page.of], stored'[page.of], foreign, foreign')
    BY <1>2, <2>1, <2>2 DEF StillHeld
  <2>4. StillShown(page, page)
    BY DEF StillShown
  <2> QED
    BY <2>1, <2>3, <2>4, SavesKept
<1>6. ReadInv'
  <2> SUFFICES ASSUME page # NoPage, NEW p \in Parts \ page.chosen
               PROVE  PartOK(page, p, stored'[page.of], foreign')
    BY DEF ReadInv
  <2>1. page.of = viewer /\ PartOK(page, p, stored[page.of], foreign)
    BY DEF ViewInv, ShellInv, ReadInv
  <2> QED
    BY <1>2, <2>1 DEF PartOK
<1> QED
  BY <1>3, <1>4, <1>5, <1>6 DEF ViewInv

LEMMA ServeLeftSaveKeeps == ASSUME ViewInv, ServeLeftSave PROVE ViewInv'
<1> DEFINE save == Take(left.saves)
<1>1. /\ left.saves.phase = "sent" /\ signedIn # None /\ signedIn = viewer
      /\ left' = [left EXCEPT !.saves.phase = "kept"] /\ foreign' = foreign \cup {save.part}
      /\ stored' = [stored EXCEPT ![viewer][save.part] = save.value]
      /\ UNCHANGED <<signedIn, shell, viewer, address, memory, page>>
  BY DEF ServeLeftSave, Store
<1>2. left \in LeftChain /\ left.saves.queue # <<>>
  BY <1>1, NoSavesType DEF ViewInv, ViewTypes, LeftInv, NoLeft
<1>3. left.saves \in Saves
  BY <1>2 DEF LeftChain
<1>4. save \in Save
  BY <1>2, <1>3, ChainUnderWay
<1>5. save.part \in Parts /\ save.value \in Kept /\ viewer \in Accounts
  BY <1>1, <1>4 DEF ViewInv, ViewTypes, Save, Kept
<1>6. left' \in LeftChain /\ left'.saves.queue # <<>>
  <2> DEFINE saves == [left.saves EXCEPT !.phase = "kept"]
  <2>1. saves \in Saves /\ saves.queue = left.saves.queue
    BY <1>3 DEF Saves
  <2>2. left' = [left EXCEPT !.saves = saves]
    BY <1>1
  <2> HIDE DEF saves
  <2> QED
    BY <1>2, <2>1, <2>2 DEF LeftChain
<1> HIDE DEF save
<1> QED
  BY <1>1, <1>5, <1>6, StoredElsewhere

LEMMA OtherDeviceKeeps ==
  ASSUME ViewInv, NEW p \in Parts, NEW v \in Kept, OtherDevice(p, v) PROVE ViewInv'
<1>1. /\ viewer # None /\ stored' = [stored EXCEPT ![viewer][p] = v] /\ foreign' = foreign \cup {p}
      /\ UNCHANGED <<signedIn, shell, viewer, address, memory, page, left>>
  BY DEF OtherDevice
<1>2. viewer \in Accounts /\ (left' = NoLeft \/ (left' \in LeftChain /\ left'.saves.queue # <<>>))
  BY <1>1 DEF ViewInv, ViewTypes, LeftInv
<1> QED
  BY <1>1, <1>2, StoredElsewhere

LEMMA InitView == Init => ViewInv
<1> SUFFICES ASSUME Init PROVE ViewInv
  OBVIOUS
<1>1. /\ signedIn \in Accounts /\ shell = "opening" /\ viewer = None /\ memory = Bare
      /\ page = NoPage /\ left = NoLeft /\ foreign = {}
  BY DEF Init
<1>2. stored \in [Accounts -> [Parts -> Kept]]
  BY ViewAssumption DEF Init, Kept
<1>3. address \in Addresses /\ address.by = None
  BY BareType DEF Init, Addresses, Bare
<1>4. ViewTypes
  BY <1>1, <1>2, <1>3, BareType DEF ViewTypes, Shells
<1>5. ShellInv /\ SearchInv
  BY <1>1, <1>3, BareType DEF ShellInv, SearchInv
<1>6. SavesInv /\ ReadInv /\ LeftInv /\ AddressInv
  BY <1>1 DEF SavesInv, ReadInv, LeftInv, AddressInv
<1> QED
  BY <1>4, <1>5, <1>6 DEF ViewInv

LEMMA ViewStep == ViewInv /\ [Next]_vars => ViewInv'
<1> SUFFICES ASSUME ViewInv, [Next]_vars PROVE ViewInv'
  OBVIOUS
<1>1. CASE UNCHANGED vars
  BY <1>1 DEF vars, ViewInv, ViewTypes, ShellInv, SearchInv, SavesInv, LeftInv, ReadInv, AddressInv
<1>2. CASE Next
  <2>1. \/ SessionRead \/ Back \/ Leaves \/ Sessions \/ OpenReader \/ LeftSaveAnswered
        \/ ServeLeftSave \/ PageActs \/ \E p \in Parts, v \in Kept : OtherDevice(p, v)
    BY <1>2 DEF Next, Leaves, Sessions, PageActs
  <2> QED
    BY <2>1, SessionReadKeeps, BackKeeps, LeavesKeeps, SessionsKeep, OpenReaderKeeps,
       LeftSaveAnsweredKeeps, ServeLeftSaveKeeps, PageKeeps, OtherDeviceKeeps
<1> QED
  BY <1>1, <1>2

----------------------------------------------------------------------------
(***************************************************************************)
(* The theorems.                                                           *)
(***************************************************************************)

\* What the page, its save chain and the two copies of its address keep to, for any
\* accounts, parts and values: the invariant the theorems below rest on.
THEOREM ViewInvariant == Spec => []ViewInv
BY InitView, ViewStep, PTL DEF Spec

LEMMA CountsStep ==
  inputs \in 0..MaxInputs /\ faults \in 0..MaxFaults /\ [Next]_vars =>
    (inputs \in 0..MaxInputs /\ faults \in 0..MaxFaults)'
<1> SUFFICES ASSUME inputs \in 0..MaxInputs, faults \in 0..MaxFaults, [Next]_vars
             PROVE  inputs' \in 0..MaxInputs /\ faults' \in 0..MaxFaults
  OBVIOUS
<1>1. Input \/ Fault \/ NoBudget
  BY DEF vars, NoBudget, Next, SessionRead, SessionUnreachable, Reload, Logout, Replaced, Expire,
         SignIn, OpenReader, ReaderReload, Back, ServeRead, PreferencesRead, ReadFails, ReadRefused,
         Choose, Search, ServeSave, ServeLeftSave, LoseSave, SaveAnswered, LeftSaveAnswered,
         SaveRefused, OtherDevice
<1> QED
  BY <1>1, ViewAssumption DEF Input, Fault, NoBudget

\* Every state of the library's page, of its save chain and of the chain a left page goes
\* on with has its shape, and the counters stay within their bounds.
THEOREM ViewTypeCorrect == Spec => []TypeOK
<1> DEFINE Counts == inputs \in 0..MaxInputs /\ faults \in 0..MaxFaults
<1>1. Init => Counts
  BY ViewAssumption DEF Init
<1>2. Counts /\ [Next]_vars => Counts'
  BY CountsStep
<1>3. ViewInv /\ Counts => TypeOK
  <2> SUFFICES ASSUME ViewInv, Counts PROVE TypeOK
    OBVIOUS
  <2>1. ViewTypes
    BY DEF ViewInv
  <2>2. page = NoPage \/ (/\ page.of \in Accounts /\ page.query \in Accounts \cup {None}
                          /\ page.shown \in [Parts -> Values]
                          /\ page.remembered \in [Parts -> Values]
                          /\ page.read \in {"sent", "served", "read", "failed"}
                          /\ page.answer \in [Parts -> Kept \cup {None}]
                          /\ page.chosen \cup page.saved \cup page.addressed \subseteq Parts
                          /\ page.saves \in Saves)
    BY <2>1 DEF ViewTypes, OpenPage
  <2>3. left = NoLeft \/ (left.saves \in Saves /\ left.shown \in [Parts -> Values])
    BY <2>1 DEF ViewTypes, LeftChain
  <2> QED
    BY <2>1, <2>2, <2>3 DEF ViewTypes, Shells, TypeOK
<1> HIDE DEF Counts
<1> QED
  BY <1>1, <1>2, <1>3, ViewInvariant, PTL DEF Spec

\* No account meets the search, filter or order of another one, whatever was under way
\* when the session ended (forgetLibrarySearch, clearLibraryParams, googleSignInURL).
THEOREM SearchNeverChangesHands == Spec => []SearchStaysWithAccount
<1>1. ViewInv => SearchStaysWithAccount
  BY DEF ViewInv, SearchInv, SearchStaysWithAccount
<1> QED
  BY <1>1, ViewInvariant, PTL

\* A page at rest: it is open, read and has no save left.
LEMMA RestFacts ==
  ASSUME ViewInv, AtRest
  PROVE  /\ page # NoPage /\ page \in OpenPage /\ page.read = "read"
         /\ \A p \in Parts : ~Queued(page, p)
         /\ page.shown \in [Parts -> Values] /\ page.chosen \subseteq Parts
         /\ address = ParamsOfView(page) /\ memory = ParamsOfView(page)
<1>1. page # NoPage /\ page \in OpenPage /\ page.read = "read" /\ page.saves = NoSaves
  BY DEF AtRest, ViewInv, ShellInv, ViewTypes
<1>2. DOMAIN page.saves.queue = {}
  BY <1>1, NoSavesType
<1>3. \A p \in Parts : ~Queued(page, p)
  BY <1>2 DEF Queued
<1>4. address = ParamsOfView(page) /\ memory = ParamsOfView(page)
  BY <1>1 DEF AtRest, ViewInv, AddressInv, Settled
<1> QED
  BY <1>1, <1>3, <1>4 DEF OpenPage

LEMMA StoredAtRest == ViewInv => LastChoiceIsStored
<1> SUFFICES ASSUME ViewInv, AtRest, ~page.failed, NEW p \in page.chosen \ foreign
             PROVE  stored[page.of][p] = page.shown[p]
  BY DEF LastChoiceIsStored
<1>1. page # NoPage /\ p \in Parts /\ ~Queued(page, p)
  BY RestFacts
<1>2. ChoicesOK(page, stored[page.of], foreign)
  BY <1>1 DEF ViewInv, SavesInv
<1> QED
  BY <1>1, <1>2 DEF ChoicesOK

\* Once the saves of a page are through, the server holds its last choice: no older choice
\* lands after a newer one, and skipping those no longer shown never skips the one that
\* counts (savePreference, remember).
THEOREM LastChoiceWins == Spec => []LastChoiceIsStored
BY StoredAtRest, ViewInvariant, PTL

\* The address that page writes opens on the view it shows.
LEMMA ParamsKeepView ==
  ASSUME ViewInv, AtRest, ~page.failed
  PROVE  SameView(page, ParamsOfView(page))
<1> DEFINE addr == ParamsOfView(page)
<1>1. /\ page # NoPage /\ page \in OpenPage /\ page.read = "read"
      /\ page.shown \in [Parts -> Values] /\ page.chosen \subseteq Parts
  BY RestFacts
<1>2. /\ addr.query = page.query
      /\ \A p \in Parts : addr.named[p] = IF Names(page, p) THEN page.shown[p] ELSE None
  BY <1>1, ViewParams
<1> HIDE DEF addr
<1>3. ASSUME NEW p \in Parts \ foreign
      PROVE  page.shown[p] = IF Named(addr, p) THEN addr.named[p] ELSE Effective(stored[page.of][p])
  <2>1. CASE Names(page, p)
    BY <1>1, <1>2, <2>1 DEF Named
  <2>2. CASE ~Names(page, p)
    <3>1. ~Named(addr, p)
      BY <1>2, <2>2, ViewAssumption DEF Named
    <3>2. CASE p \in page.chosen
      <4>1. stored[page.of][p] = page.shown[p]
        BY <3>2, StoredAtRest DEF LastChoiceIsStored
      <4> QED
        BY <1>1, <3>1, <4>1 DEF Effective
    <3>3. CASE p \notin page.chosen
      <4>1. PartOK(page, p, stored[page.of], foreign)
        BY <1>1, <3>3 DEF ViewInv, ReadInv
      <4>2. page.remembered[p] = Effective(stored[page.of][p])
        BY <1>1, <4>1 DEF PartOK
      <4>3. page.shown[p] = page.remembered[p]
        BY <2>2, <4>1 DEF PartOK, Names, Explicit
      <4> QED
        BY <3>1, <4>2, <4>3
    <3> QED
      BY <3>2, <3>3
  <2> QED
    BY <2>1, <2>2
<1> QED
  BY <1>2, <1>3 DEF SameView, Effective, addr

\* A page opened at the address this page wrote, or at its copy in sessionStorage, shows the
\* same view ("The address follows the view, so a reload keeps it", the store's effect): a part
\* the address leaves out is one the preferences bring back.
THEOREM ReloadKeepsTheView == Spec => []ReloadKeepsView
<1>1. ViewInv => ReloadKeepsView
  BY ParamsKeepView, RestFacts DEF ReloadKeepsView
<1> QED
  BY <1>1, ViewInvariant, PTL

=============================================================================
