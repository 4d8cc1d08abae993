------------------------- MODULE LibraryPageProofs --------------------------
(***************************************************************************)
(* Proofs about the library page.  The rows and the dialog share the page, *)
(* the server and the user and nothing else, so each half of the invariant *)
(* is kept by its own steps and untouched by the other's.                  *)
(*                                                                         *)
(* For the rows the induction rests on numbers and marks: a request is     *)
(* known by its number, one load and one details read count, a row has at  *)
(* most one status save under way, and a row two requests showed at once   *)
(* is marked.  An unmarked row therefore has one request that will show    *)
(* it, and its answer is what the server still holds.                      *)
(***************************************************************************)
EXTENDS LibraryPage, TLAPS, FiniteSetTheorems, SequenceTheorems, WellFoundedInduction

Answered(r) == r.answer \notin {None, Failed}

\* What each kind of request carries, and how the page knows the ones that count.
Carried ==
    \A r \in net :
        /\ r.kind = "favorite" => r.patch \in [favorite : BOOLEAN]
        /\ r.kind = "status" => r.patch \in [status : Statuses]
        /\ r.kind \in {"create", "details"} => r.patch \in Rows
        /\ r.n = load => r.kind = "load"
        /\ r.n = request => r.kind = "open" /\ r.id = asked
ClosedPage == ~open => load = 0

\* The form that shows, and the row asked for.
FormShown ==
    editor.shown => request = 0 /\ editor.id = asked /\ editor.form \in Forms

\* An id no piece has had, or whose piece the server has not made yet.
Unborn(q) ==
    \/ q \in unused
    \/ \E r \in net : r.kind = "create" /\ r.id = q /\ r.answer = None
NothingKnown ==
    \A q \in Pieces : Unborn(q) =>
        /\ q # Continued /\ pieces[q] = None /\ rows[q] = None /\ saves[q] = NoSave /\ chosen[q] = None
        /\ editor.id # q
        /\ \A r \in net : /\ r.id = q => r.kind = "create" /\ q \notin unused
                          /\ r.kind = "load" /\ Answered(r) => r.answer[q] = None
OneCreate == \A r, s \in net : r.kind = "create" /\ s.kind = "create" /\ r.id = s.id => r = s

\* A row's saves go out one at a time, and the last one queued is the latest choice.
SavesInOrder ==
    /\ \A r, s \in net : r.kind = "status" /\ s.kind = "status" /\ r.id = s.id => r = s
    /\ \A r \in net : r.kind = "status" =>
         LET pending == saves[r.id]
         IN /\ pending # NoSave
            /\ pending.latest = IF pending.queue = <<>> THEN r.patch.status
                                ELSE pending.queue[Len(pending.queue)]
    /\ \A p \in Pieces : saves[p] # NoSave => \E r \in net : r.kind = "status" /\ r.id = p

\* Two requests that show the same row mark it.
AloneOrCrossed == \A p \in Pieces \ crossed : \A r, s \in Touching(p) : r = s

ChoiceIsKept ==
    \A p \in Pieces \ crossed :
        /\ saves[p] # NoSave => chosen[p] = saves[p].latest
        /\ chosen[p] # None => \A r \in net : r.kind = "details" => r.id # p
        /\ chosen[p] # None /\ pieces[p] # None /\ ~failed =>
             IF saves[p] = NoSave THEN pieces[p].status = chosen[p]
             ELSE \A r \in net : r.kind = "status" /\ r.id = p /\ Answered(r)
                                   => pieces[p].status = r.patch.status

\* A row the details form is changing: the page loads again, or tells a failure.
Changing(p) == \E r \in net : r.kind \in {"create", "details", "delete"} /\ r.id = p

\* Where the server's row is: in the load that counts, or else on the page and in the
\* answer that will show it.
RowIsServers(p) ==
    IF load # 0
    THEN \A r \in net : r.n = load =>
           /\ Answered(r) => r.answer[p] = pieces[p]
           /\ p = Continued /\ r.more # None => r.more[1] \in {None, pieces[p]}
    ELSE /\ rows[p] = None <=> pieces[p] = None
         /\ p = Continued /\ pieces[p] = None => offered = None
         /\ Touching(p) = {} => rows[p] = pieces[p] /\ (p = Continued => offered \in {None, pieces[p]})
         /\ \A r \in Touching(p) : Answered(r) => r.answer = pieces[p]
RowsFollow ==
    open /\ ~failed /\ ~(\E r \in net : r.kind = "import") =>
        \A p \in Pieces \ crossed : ~Changing(p) => RowIsServers(p)

LibraryInv ==
    /\ TypeOK
    /\ Carried /\ ClosedPage /\ FormShown
    /\ NothingKnown /\ OneCreate
    /\ SavesInOrder
    /\ AloneOrCrossed
    /\ ChoiceIsKept
    /\ RowsFollow

----------------------------------------------------------------------------
(***************************************************************************)
(* The requests under way.                                                 *)
(***************************************************************************)

LEMMA FreshNumber == ASSUME TypeOK PROVE Fresh \in Nat \ {0} /\ \A r \in net : r.n # Fresh
<1> DEFINE N == 1..(Cardinality(net) + 1)
<1>1. IsFiniteSet(net) /\ Cardinality(net) \in Nat
  BY FS_CardinalityType DEF TypeOK
<1>2. IsFiniteSet(N) /\ Cardinality(net) < Cardinality(N)
  BY <1>1, FS_Interval
<1>3. \E n \in N : \A r \in net : r.n # n
  <2> SUFFICES ASSUME \A n \in N : \E r \in net : r.n = n PROVE FALSE
    OBVIOUS
  <2> DEFINE f == [n \in N |-> CHOOSE r \in net : r.n = n]
  <2>1. f \in [N -> net] /\ \A n \in N : f[n].n = n
    OBVIOUS
  <2> HIDE DEF f, N
  <2>2. \E m, n \in N : m # n /\ f[m] = f[n]
    BY <1>1, <1>2, <2>1, FS_PigeonHole
  <2> QED
    BY <2>1, <2>2
<1>4. Fresh \in N /\ \A r \in net : r.n # Fresh
  BY <1>3 DEF Fresh
<1> QED
  BY <1>1, <1>4

RowKinds == {"favorite", "status", "open", "create", "details", "delete", "import"}

LEMMA RequestTypes ==
  ASSUME TypeOK, NEW r \in net
  PROVE  /\ r.n \in Nat \ {0} /\ r.kind \in RowKinds \cup {"load"}
         /\ r.kind = "load" => /\ r.id = None /\ r.answer \in Lists \cup {None, Failed}
                               /\ r.more # None => \E row \in Rows \cup {None} : r.more = <<row>>
         /\ r.kind # "load" => r.id \in Pieces /\ r.answer \in Rows \cup {None, Failed} /\ r.more = None
         /\ r.then \in {"close", "import"}
<1>1. Wellformed(r)
  BY DEF TypeOK
<1>2. CASE r.kind = "load"
  BY <1>1, <1>2 DEF Wellformed, Loads, RowKinds
<1>3. CASE r.kind # "load"
  BY <1>1, <1>3 DEF Wellformed, RowRequests, RowKinds
<1> QED
  BY <1>2, <1>3

LEMMA RowRequest ==
  ASSUME NEW n \in Nat \ {0}, NEW kind \in RowKinds, NEW id \in Pieces, NEW patch \in Patches,
         NEW then \in {"close", "import"}, NEW q,
         q = [n |-> n, kind |-> kind, id |-> id, patch |-> patch, answer |-> None, more |-> None, then |-> then]
  PROVE  Wellformed(q)
BY DEF Wellformed, RowRequests, RowKinds

LEMMA NewRequest ==
  ASSUME TypeOK, NEW kind \in RowKinds, NEW id \in Pieces, NEW patch \in Patches,
         NEW then \in {"close", "import"}, NEW q,
         \/ q = [Req(kind, id, patch) EXCEPT !.then = then]
         \/ then = "close" /\ q = Req(kind, id, patch)
  PROVE  /\ Wellformed(q) /\ q.n = Fresh /\ q.kind = kind /\ q.id = id /\ q.patch = patch
         /\ q.then = then /\ q.answer = None /\ q.more = None
<1>1. q = [n |-> Fresh, kind |-> kind, id |-> id, patch |-> patch, answer |-> None, more |-> None, then |-> then]
  BY DEF Req
<1>2. Wellformed(q)
  BY <1>1, FreshNumber, RowRequest
<1> QED
  BY <1>1, <1>2

LEMMA NewLoad ==
  ASSUME TypeOK, NEW q, q = Req("load", None, None)
  PROVE  /\ Wellformed(q) /\ q.n = Fresh /\ q.kind = "load" /\ q.id = None /\ q.patch = None
         /\ q.then = "close" /\ q.answer = None /\ q.more = None
<1>1. q = [n |-> Fresh, kind |-> "load", id |-> None, patch |-> None, answer |-> None, more |-> None, then |-> "close"]
  BY DEF Req
<1>2. q \in Loads
  BY <1>1, FreshNumber DEF Loads
<1> QED
  BY <1>1, <1>2 DEF Wellformed

\* A request goes, stays with its number, or makes room for one with a new number.
Numbered(set) ==
  /\ IsFiniteSet(set) /\ \A r, s \in set : r.n = s.n => r = s
  /\ \A r \in set : Wellformed(r)

LEMMA NetGrows ==
  ASSUME TypeOK, NEW gone, NEW q, Wellformed(q), q.n = Fresh, net' = (net \ gone) \cup {q}
  PROVE  Numbered(net')
<1>1. IsFiniteSet(net \ gone)
  BY FS_Subset DEF TypeOK
<1>2. IsFiniteSet(net')
  BY <1>1, FS_AddElement
<1> QED
  BY <1>2, FreshNumber DEF TypeOK, Numbered

LEMMA NetShrinks == ASSUME TypeOK, net' \subseteq net PROVE Numbered(net')
BY FS_Subset DEF TypeOK, Numbered

LEMMA NetRewritten ==
  ASSUME TypeOK, NEW r \in net, NEW q, Wellformed(q), q.n = r.n, net' = (net \ {r}) \cup {q}
  PROVE  Numbered(net')
<1>1. IsFiniteSet(net')
  BY FS_RemoveElement, FS_AddElement DEF TypeOK
<1> QED
  BY <1>1 DEF TypeOK, Numbered

LEMMA Budget == ASSUME TypeOK, Input \/ Fault \/ NoBudget
                PROVE  inputs' \in 0..MaxInputs /\ faults' \in 0..MaxFaults
BY RowsAssumption DEF TypeOK, Input, Fault, NoBudget

Same(r, q) == q.n = r.n /\ q.kind = r.kind /\ q.id = r.id /\ q.patch = r.patch /\ q.then = r.then

\* A request that was served or lost: what the page goes by is as before.
LEMMA Rewritten ==
  ASSUME LibraryInv, NEW r \in net, NEW q, Wellformed(q), Same(r, q), r.answer # None => q.answer # None,
         net' = (net \ {r}) \cup {q}, pieces' \in Lists, inputs' \in 0..MaxInputs, faults' \in 0..MaxFaults,
         UNCHANGED <<rows, offered, load, saves, editor, request, saving, failed, open,
                     asked, chosen, crossed, unused>>
  PROVE  /\ TypeOK' /\ Carried' /\ ClosedPage' /\ FormShown' /\ OneCreate' /\ SavesInOrder' /\ AloneOrCrossed'
         /\ \A p \in Pieces : (Unborn(p)' => Unborn(p)) /\ (Changing(p)' <=> Changing(p))
<1> USE DEF LibraryInv, Same
<1>1. TypeOK'
  <2>1. Numbered(net')
    BY NetRewritten
  <2>2. \A n \in {load', request'} \ {0} : \E s \in net' : s.n = n
    BY DEF TypeOK
  <2> QED
    BY <2>1, <2>2 DEF TypeOK, Numbered
<1>2. Carried'
  BY DEF Carried
<1>3. ClosedPage' /\ FormShown'
  BY DEF ClosedPage, FormShown
<1>4. OneCreate'
  BY DEF OneCreate
<1>5. SavesInOrder'
  <2>1. \A s \in net', t \in net' : s.kind = "status" /\ t.kind = "status" /\ s.id = t.id => s = t
    BY DEF SavesInOrder
  <2>2. \A s \in net' : s.kind = "status" =>
          LET pending == saves[s.id]
          IN /\ pending # NoSave
             /\ pending.latest = IF pending.queue = <<>> THEN s.patch.status
                                 ELSE pending.queue[Len(pending.queue)]
    BY DEF SavesInOrder
  <2>3. \A p \in Pieces : saves[p] # NoSave => \E s \in net' : s.kind = "status" /\ s.id = p
    BY DEF SavesInOrder
  <2> QED
    BY <2>1, <2>2, <2>3 DEF SavesInOrder
<1>6. AloneOrCrossed'
  BY DEF AloneOrCrossed, Touching
<1>7. \A p \in Pieces : (Unborn(p)' => Unborn(p)) /\ (Changing(p)' <=> Changing(p))
  BY DEF Unborn, Changing
<1> QED
  BY <1>1, <1>2, <1>3, <1>4, <1>5, <1>6, <1>7

\* What a served patch makes of a row.
LEMMA PatchedRow ==
  ASSUME NEW p, pieces[p] \in Rows, NEW patch \in [favorite : BOOLEAN] \cup [status : Statuses] \cup Rows
  PROVE  /\ Patched(p, patch) \in Rows
         /\ patch \in [favorite : BOOLEAN] => Patched(p, patch).status = pieces[p].status
         /\ patch \in [status : Statuses] => Patched(p, patch).status = patch.status
<1> PICK row \in Rows : row = pieces[p]
  OBVIOUS
<1>1. /\ DOMAIN row = {"status", "favorite", "title"} /\ row.status \in Statuses
      /\ row.favorite \in BOOLEAN /\ row.title \in Titles
  BY DEF Rows
<1>2. Patched(p, patch) = [f \in {"status", "favorite", "title"} |->
                             IF f \in DOMAIN patch THEN patch[f] ELSE row[f]]
  BY <1>1 DEF Patched
<1>3. CASE patch \in [favorite : BOOLEAN]
  <2>1. Patched(p, patch) = [status |-> row.status, favorite |-> patch.favorite, title |-> row.title]
    BY <1>2, <1>3
  <2> QED
    BY <1>1, <1>3, <2>1 DEF Rows
<1>4. CASE patch \in [status : Statuses]
  <2>1. Patched(p, patch) = [status |-> patch.status, favorite |-> row.favorite, title |-> row.title]
    BY <1>2, <1>4
  <2> QED
    BY <1>1, <1>4, <2>1 DEF Rows
<1>5. CASE patch \in Rows
  <2>1. patch \in [status : Statuses, favorite : BOOLEAN, title : Titles]
    BY <1>5 DEF Rows
  <2>2. Patched(p, patch) = [status |-> patch.status, favorite |-> patch.favorite, title |-> patch.title]
    BY <1>2, <2>1
  <2> QED
    BY <2>1, <2>2 DEF Rows
<1> QED
  BY <1>3, <1>4, <1>5

\* The server's answer, and its rows afterwards.
Served(r, q) ==
  /\ Wellformed(q) /\ Same(r, q) /\ q.more = r.more /\ r.answer = None /\ q.answer # None
  /\ net' = (net \ {r}) \cup {q} /\ pieces' \in Lists
  /\ CASE r.kind = "load" -> pieces' = pieces /\ q.answer = pieces
       [] r.kind \in {"open", "import"} -> pieces' = pieces
       [] r.kind \in {"favorite", "status", "details"} ->
            \/ pieces' = pieces /\ q.answer = Failed
            \/ /\ pieces[r.id] # None /\ pieces' = [pieces EXCEPT ![r.id] = q.answer] /\ q.answer \in Rows
               /\ r.kind = "favorite" => q.answer.status = pieces[r.id].status
               /\ r.kind = "status" => q.answer.status = r.patch.status
       [] r.kind = "create" -> pieces' = [pieces EXCEPT ![r.id] = r.patch]
       [] r.kind = "delete" -> pieces' = [pieces EXCEPT ![r.id] = None]

LEMMA ServeFacts == ASSUME TypeOK, Carried, NEW r \in net, Serve(r) PROVE \E q : Served(r, q)
<1>0. /\ r.answer = None
      /\ pieces' = IF Missing(r) THEN pieces ELSE
           CASE r.kind \in {"favorite", "status", "details"} ->
                  [pieces EXCEPT ![r.id] = Patched(r.id, r.patch)]
             [] r.kind = "create" -> [pieces EXCEPT ![r.id] = r.patch]
             [] r.kind = "delete" -> [pieces EXCEPT ![r.id] = None]
             [] OTHER -> pieces
  BY DEF Serve
<1> PICK q : q = [r EXCEPT !.answer =
         IF Missing(r) THEN Failed ELSE
         CASE r.kind = "load" -> pieces
           [] r.kind = "delete" -> pieces[r.id]
           [] OTHER -> pieces'[r.id]]
  OBVIOUS
<1>1. net' = (net \ {r}) \cup {q}
  BY DEF Serve
<1>2. r.kind = "load" => r \in Loads
  BY DEF TypeOK, Wellformed
<1>3. r.kind # "load" => r \in RowRequests /\ r.id \in Pieces /\ r.kind \in RowKinds
  BY RequestTypes DEF TypeOK, Wellformed
<1>4. pieces \in Lists /\ \A p \in Pieces : pieces[p] \in Rows \cup {None}
  BY DEF TypeOK, Lists
<1>5. Same(r, q) /\ q.more = r.more
  BY <1>2, <1>3 DEF Same, Loads, RowRequests
<1>6. \A a \in Rows : a # None /\ a # Failed
  BY RowsAssumption
<1>7. \A p \in Pieces, row \in Rows \cup {None} : [pieces EXCEPT ![p] = row] \in Lists
  BY <1>4 DEF Lists
<1>a. CASE r.kind = "load"
  <2>1. pieces' = pieces
    BY <1>0, <1>a DEF Missing
  <2>2. q = [r EXCEPT !.answer = pieces]
    BY <1>a DEF Missing
  <2>3. q \in Loads /\ q.answer = pieces
    BY <1>2, <1>4, <1>a, <2>2 DEF Loads
  <2>4. pieces # None
    BY <1>4, RowsAssumption
  <2> QED
    BY <1>0, <1>1, <1>4, <1>5, <1>a, <2>1, <2>3, <2>4 DEF Served, Wellformed, Same
<1>b. CASE r.kind \in RowKinds /\ (IF r.kind = "create" THEN FALSE ELSE pieces[r.id] = None)
  <2>1. Missing(r)
    BY <1>b DEF Missing, RowKinds
  <2>2. pieces' = pieces /\ q = [r EXCEPT !.answer = Failed]
    BY <1>0, <2>1
  <2>3. q \in RowRequests /\ q.answer = Failed
    BY <1>3, <1>b, <2>2 DEF RowRequests, RowKinds
  <2>4. r.kind = "delete" => pieces' = [pieces EXCEPT ![r.id] = None]
    BY <1>3, <1>4, <1>b, <2>2 DEF Lists
  <2>5. Wellformed(q)
    BY <1>5, <1>b, <2>3 DEF Wellformed, Same, RowKinds
  <2> QED
    BY <1>0, <1>1, <1>4, <1>5, <1>b, <2>2, <2>3, <2>4, <2>5, RowsAssumption DEF Served, RowKinds
<1>c. CASE r.kind \in RowKinds /\ (r.kind # "create" => pieces[r.id] # None)
  <2>1. ~Missing(r) /\ r.kind # "load"
    BY <1>c DEF Missing, RowKinds
  <2>2. r.kind # "create" => pieces[r.id] \in Rows
    BY <1>3, <1>4, <1>c, <2>1
  <2>3. ASSUME NEW a \in Rows, q = [r EXCEPT !.answer = a] PROVE Wellformed(q) /\ q.answer = a /\ q.answer # None
    <3>1. q \in RowRequests /\ q.answer = a
      BY <1>3, <2>1, <2>3 DEF RowRequests
    <3> QED
      BY <1>5, <1>6, <2>1, <3>1 DEF Wellformed, Same
  <2>4. CASE r.kind \in {"favorite", "status", "details"}
    <3>1. PICK row : row = Patched(r.id, r.patch)
      OBVIOUS
    <3>2. r.patch \in [favorite : BOOLEAN] \cup [status : Statuses] \cup Rows
      BY <2>4 DEF Carried
    <3>3. /\ row \in Rows
          /\ r.kind = "favorite" => row.status = pieces[r.id].status
          /\ r.kind = "status" => row.status = r.patch.status
      BY <2>2, <2>4, <3>1, <3>2, PatchedRow DEF Carried
    <3>4. pieces' = [pieces EXCEPT ![r.id] = row]
      BY <1>0, <2>1, <2>4, <3>1
    <3>5. pieces'[r.id] = row
      BY <1>3, <1>4, <2>1, <3>4 DEF Lists
    <3>6. q = [r EXCEPT !.answer = row]
      BY <2>1, <2>4, <3>5
    <3>7. Wellformed(q) /\ q.answer = row /\ q.answer # None /\ pieces' \in Lists
      BY <1>3, <1>7, <2>1, <2>3, <3>3, <3>4, <3>6
    <3> QED
      BY ZenonT(60), <1>0, <1>1, <1>5, <1>c, <2>1, <2>4, <3>3, <3>4, <3>7 DEF Served
  <2>5. CASE r.kind = "create"
    <3>1. r.patch \in Rows
      BY <2>5 DEF Carried
    <3>2. pieces' = [pieces EXCEPT ![r.id] = r.patch] /\ pieces'[r.id] = r.patch /\ pieces' \in Lists
      <4>1. pieces' = [pieces EXCEPT ![r.id] = r.patch]
        BY <1>0, <2>1, <2>5
      <4> QED
        BY <1>3, <1>4, <1>7, <2>1, <3>1, <4>1 DEF Lists
    <3>3. q = [r EXCEPT !.answer = r.patch]
      BY <2>1, <2>5, <3>2
    <3>4. Wellformed(q) /\ q.answer # None
      BY <2>3, <3>1, <3>3
    <3> QED
      BY <1>0, <1>1, <1>5, <2>5, <3>2, <3>4 DEF Served
  <2>6. CASE r.kind = "delete"
    <3>1. pieces' = [pieces EXCEPT ![r.id] = None] /\ pieces' \in Lists
      <4>1. pieces' = [pieces EXCEPT ![r.id] = None]
        BY <1>0, <2>1, <2>6
      <4> QED
        BY <1>3, <1>7, <2>1, <4>1
    <3>2. q = [r EXCEPT !.answer = pieces[r.id]]
      BY <2>1, <2>6
    <3>3. Wellformed(q) /\ q.answer # None
      BY <2>2, <2>3, <2>6, <3>2
    <3> QED
      BY <1>0, <1>1, <1>5, <2>6, <3>1, <3>3 DEF Served
  <2>7. CASE r.kind \in {"open", "import"}
    <3>1. pieces' = pieces
      BY <1>0, <2>1, <2>7
    <3>2. q = [r EXCEPT !.answer = pieces[r.id]]
      BY <2>1, <2>7, <3>1
    <3>3. Wellformed(q) /\ q.answer # None
      BY <2>2, <2>3, <2>7, <3>2
    <3> QED
      BY <1>0, <1>1, <1>4, <1>5, <2>7, <3>1, <3>3 DEF Served
  <2> QED
    BY <1>c, <2>4, <2>5, <2>6, <2>7 DEF RowKinds
<1> QED
  BY <1>3, <1>a, <1>b, <1>c

LEMMA ServeKeeps == ASSUME LibraryInv, NEW r \in net, Serve(r) PROVE LibraryInv'
<1> USE DEF LibraryInv
<1>1. PICK q : Served(r, q)
  BY ServeFacts
<1>2. /\ UNCHANGED <<rows, offered, load, saves, editor, request, saving, failed, open,
                     asked, chosen, crossed, unused>>
      /\ inputs' \in 0..MaxInputs /\ faults' \in 0..MaxFaults
  BY Budget DEF Serve
<1>3. /\ Wellformed(q) /\ Same(r, q) /\ r.answer = None /\ q.answer # None /\ q.more = r.more
      /\ net' = (net \ {r}) \cup {q} /\ pieces' \in Lists
  BY <1>1 DEF Served
<1>4. /\ TypeOK' /\ Carried' /\ ClosedPage' /\ FormShown' /\ OneCreate' /\ SavesInOrder' /\ AloneOrCrossed'
      /\ \A p \in Pieces : (Unborn(p)' => Unborn(p)) /\ (Changing(p)' <=> Changing(p))
  BY <1>2, <1>3, Rewritten
<1>5. /\ r.kind \in RowKinds \cup {"load"} /\ (r.kind # "load" => r.id \in Pieces)
      /\ r.kind = "load" => r.id = None
  BY RequestTypes
<1>6. /\ \A p \in Pieces : pieces'[p] # pieces[p] => r.id = p /\ r.kind \notin {"load", "open", "import"}
      /\ pieces \in Lists
  BY <1>1, <1>5 DEF Served, Lists, RowKinds, TypeOK
<1>7. NothingKnown'
  <2> SUFFICES ASSUME NEW p \in Pieces, Unborn(p)'
               PROVE  /\ p # Continued /\ pieces'[p] = None /\ rows[p] = None /\ saves[p] = NoSave
                      /\ chosen[p] = None /\ editor.id # p
                      /\ \A s \in net' : /\ s.id = p => s.kind = "create" /\ p \notin unused
                                         /\ s.kind = "load" /\ Answered(s) => s.answer[p] = None
    BY <1>2 DEF NothingKnown, NoSave, Answered
  <2>1. /\ p # Continued /\ pieces[p] = None /\ rows[p] = None /\ saves[p] = NoSave
        /\ chosen[p] = None /\ editor.id # p
        /\ \A s \in net : /\ s.id = p => s.kind = "create" /\ p \notin unused
                          /\ s.kind = "load" /\ Answered(s) => s.answer[p] = None
    BY <1>4 DEF NothingKnown
  <2>2. r.id # p
    <3> SUFFICES ASSUME r.id = p PROVE FALSE
      OBVIOUS
    <3>1. r.kind = "create" /\ p \notin unused
      BY <2>1
    <3>2. PICK s \in net' : s.kind = "create" /\ s.id = p /\ s.answer = None
      BY <1>2, <3>1 DEF Unborn
    <3>3. q \in net' /\ q.kind = "create" /\ q.id = p
      BY <1>3, <3>1 DEF Same
    <3>4. s = q
      BY <1>4, <3>2, <3>3 DEF OneCreate
    <3> QED
      BY <1>3, <3>2, <3>4
  <2>3. pieces'[p] = None
    BY <1>6, <2>1, <2>2
  <2>4. q.kind = "load" => q.answer[p] = None
    BY <1>1, <1>3, <2>1 DEF Served, Same
  <2> QED
    BY <1>3, <2>1, <2>2, <2>3, <2>4 DEF Same
<1>8. ChoiceIsKept'
  <2> SUFFICES ASSUME NEW p \in Pieces, p \notin crossed
               PROVE  /\ saves[p] # NoSave => chosen[p] = saves[p].latest
                      /\ chosen[p] # None => \A s \in net' : s.kind = "details" => s.id # p
                      /\ chosen[p] # None /\ pieces'[p] # None /\ ~failed =>
                           IF saves[p] = NoSave THEN pieces'[p].status = chosen[p]
                           ELSE \A s \in net' : s.kind = "status" /\ s.id = p /\ Answered(s)
                                                 => pieces'[p].status = s.patch.status
    BY <1>2 DEF ChoiceIsKept, NoSave, Answered
  <2>1. /\ saves[p] # NoSave => chosen[p] = saves[p].latest
        /\ chosen[p] # None => \A s \in net' : s.kind = "details" => s.id # p
    BY <1>3 DEF ChoiceIsKept, Same
  <2> SUFFICES ASSUME chosen[p] # None, pieces'[p] # None, ~failed
               PROVE  IF saves[p] = NoSave THEN pieces'[p].status = chosen[p]
                      ELSE \A s \in net' : s.kind = "status" /\ s.id = p /\ Answered(s)
                                            => pieces'[p].status = s.patch.status
    BY <2>1
  <2>2. ~(r.kind \in {"create", "details"} /\ r.id = p)
    <3>1. r.kind = "create" /\ r.id = p => Unborn(p)
      BY <1>3 DEF Unborn
    <3> QED
      BY <3>1 DEF NothingKnown, ChoiceIsKept
  <2>3. ~(r.kind = "delete" /\ r.id = p)
    BY <1>1, <1>6 DEF Served, Lists
  <2>4. CASE r.kind = "status" /\ r.id = p
    <3>1. saves[p] # NoSave
      BY <2>4 DEF SavesInOrder
    <3>2. \A s \in net' : s.kind = "status" /\ s.id = p => s = q
      BY <1>3, <1>4, <2>4 DEF SavesInOrder, Same
    <3>3. q.answer = Failed \/ (pieces'[p] = q.answer /\ q.answer.status = q.patch.status)
      BY <1>1, <1>3, <1>6, <2>4 DEF Served, Lists, Same
    <3> QED
      BY <3>1, <3>2, <3>3 DEF Answered
  <2>5. CASE r.kind = "favorite" /\ r.id = p
    <3>1. pieces[p] # None /\ pieces'[p].status = pieces[p].status
      BY <1>1, <1>6, <2>5 DEF Served, Lists
    <3> QED
      BY <1>3, <2>5, <3>1 DEF ChoiceIsKept, Same
  <2>6. CASE ~(r.kind \in {"status", "favorite"} /\ r.id = p)
    <3>1. pieces'[p] = pieces[p]
      BY <1>5, <1>6, <2>2, <2>3, <2>6 DEF RowKinds
    <3> QED
      BY <1>3, <2>6, <3>1 DEF ChoiceIsKept, Same
  <2> QED
    BY <2>4, <2>5, <2>6
<1>9. RowsFollow'
  <2> SUFFICES ASSUME open, ~failed, ~(\E s \in net' : s.kind = "import"),
                      NEW p \in Pieces, p \notin crossed, ~Changing(p)'
               PROVE  RowIsServers(p)'
    BY <1>2 DEF RowsFollow
  <2>1. ~Changing(p) /\ RowIsServers(p)
    BY <1>3, <1>4 DEF RowsFollow, Same
  <2>2. pieces'[p] # pieces[p] => r.kind \in {"favorite", "status"} /\ r.id = p
    BY <1>5, <1>6, <2>1 DEF Changing, RowKinds
  <2>3. CASE load # 0
    <3>1. PICK l \in net : l.n = load
      BY <2>3 DEF TypeOK
    <3>2. l.kind = "load" /\ l \in Touching(p)
      BY <3>1 DEF Carried, Touching
    <3>3. pieces'[p] = pieces[p]
      <4> SUFFICES ASSUME r.kind \in {"favorite", "status"}, r.id = p PROVE FALSE
        BY <2>2
      <4>1. r \in Touching(p)
        BY DEF Touching
      <4> QED
        BY <3>2, <4>1 DEF AloneOrCrossed
    <3>4. q.n = load => q.kind = "load" /\ q.answer = pieces
      BY <1>1, <1>3 DEF Served, Same, Carried
    <3>5. ASSUME NEW s \in net', s.n = load
          PROVE  /\ Answered(s) => s.answer[p] = pieces'[p]
                 /\ p = Continued /\ s.more # None => s.more[1] \in {None, pieces'[p]}
      <4>1. CASE s \in net
        BY <2>1, <2>3, <3>3, <3>5, <4>1 DEF RowIsServers
      <4>2. CASE s = q
        BY <1>3, <2>1, <2>3, <3>3, <3>4, <3>5, <4>2 DEF RowIsServers, Same
      <4> QED
        BY <1>3, <4>1, <4>2
    <3> QED
      BY <1>2, <2>3, <3>5 DEF RowIsServers, Answered
  <2>4. CASE load = 0
    <3>1. \A s \in Touching(p)' : s = q \/ s \in Touching(p)
      BY <1>2, <1>3 DEF Touching
    <3>2. r \in Touching(p) <=> q \in Touching(p)'
      BY <1>2, <1>3 DEF Touching, Same
    <3>3. \A s \in Touching(p) : s = r \/ s \in Touching(p)'
      BY <1>2, <1>3 DEF Touching
    <3>4. q \in Touching(p)' /\ Answered(q) => q.answer = pieces'[p]
      <4> SUFFICES ASSUME q \in Touching(p)', Answered(q) PROVE q.answer = pieces'[p]
        OBVIOUS
      <4>1. r.kind \in {"favorite", "status", "details"} /\ r.id = p
        BY <1>2, <1>3, <1>4, <2>4 DEF Touching, Same, TypeOK, Wellformed, Loads, RowRequests
      <4> QED
        BY <1>1, <1>6, <4>1 DEF Served, Answered, Lists
    <3>5. CASE pieces'[p] = pieces[p]
      <4>1. \A s \in Touching(p)' : Answered(s) => s.answer = pieces[p]
        BY <2>1, <2>4, <3>1, <3>4, <3>5 DEF RowIsServers
      <4>2. Touching(p)' = {} => Touching(p) = {}
        BY <3>2, <3>3
      <4> QED
        BY <1>2, <2>1, <2>4, <3>5, <4>1, <4>2 DEF RowIsServers, Answered
    <3>6. CASE pieces'[p] # pieces[p]
      <4>1. r.kind \in {"favorite", "status"} /\ r.id = p /\ r \in Touching(p)
        BY <2>2, <3>6 DEF Touching
      <4>2. pieces[p] # None /\ pieces'[p] # None
        BY <1>1, <1>6, <3>6, <4>1, RowsAssumption DEF Served, Lists
      <4>3. q \in Touching(p)' /\ \A s \in Touching(p)' : s = q
        BY <1>2, <1>4, <3>2, <4>1 DEF AloneOrCrossed
      <4> QED
        BY <1>2, <2>1, <2>4, <3>4, <4>2, <4>3 DEF RowIsServers, Answered
    <3> QED
      BY <3>5, <3>6
  <2> QED
    BY <2>3, <2>4
<1> QED
  BY <1>4, <1>7, <1>8, <1>9

(***************************************************************************)
(* What most steps leave as it was.                                        *)
(***************************************************************************)

\* A row whose requests and copies a step leaves alone stays the server's.
LEMMA RowStays ==
  ASSUME NEW p \in Pieces, Carried, Carried', RowIsServers(p), Touching(p)' = Touching(p),
         rows'[p] = rows[p], p = Continued => offered' = offered, UNCHANGED <<pieces, load>>
  PROVE  RowIsServers(p)'
<1>1. CASE load = 0
  BY <1>1 DEF RowIsServers, Answered
<1>2. CASE load # 0
  <2>1. \A r \in net' : r.n = load => r \in net
    BY DEF Carried, Touching
  <2> QED
    BY <1>2, <2>1 DEF RowIsServers, Answered
<1> QED
  BY <1>1, <1>2

LEMMA SavesKept ==
  ASSUME SavesInOrder, UNCHANGED saves, \A r : r.kind = "status" => (r \in net <=> r \in net')
  PROVE  SavesInOrder'
<1>1. \A s \in net', t \in net' : s.kind = "status" /\ t.kind = "status" /\ s.id = t.id => s = t
  BY DEF SavesInOrder
<1>2. \A s \in net' : s.kind = "status" =>
        LET pending == saves[s.id]
        IN /\ pending # NoSave
           /\ pending.latest = IF pending.queue = <<>> THEN s.patch.status
                               ELSE pending.queue[Len(pending.queue)]
  BY DEF SavesInOrder
<1>3. \A p \in Pieces : saves[p] # NoSave => \E s \in net' : s.kind = "status" /\ s.id = p
  BY DEF SavesInOrder
<1> QED
  BY <1>1, <1>2, <1>3 DEF SavesInOrder

LEMMA ChoiceKept ==
  ASSUME ChoiceIsKept, UNCHANGED <<pieces, saves, chosen>>, crossed \subseteq crossed', failed => failed',
         \A r \in net' : r.kind \in {"status", "details"} => r \in net
  PROVE  ChoiceIsKept'
BY DEF ChoiceIsKept, Answered, NoSave

\* Requests go, and none comes: no two of the others came closer.
LEMMA Fewer ==
  ASSUME LibraryInv, net' \subseteq net, UNCHANGED <<pieces, chosen, unused>>, crossed \subseteq crossed',
         load' \in {load, 0}, request' = 0 \/ UNCHANGED <<request, asked>>,
         \A p \in Pieces : Unborn(p) => rows'[p] = None /\ saves'[p] = NoSave /\ editor'.id # p
  PROVE  /\ Numbered(net') /\ Carried' /\ OneCreate' /\ NothingKnown' /\ AloneOrCrossed'
<1> USE DEF LibraryInv
<1>1. Numbered(net')
  BY NetShrinks
<1>2. \A r \in net : r.n # 0
  BY RequestTypes
<1>3. Carried'
  BY <1>2 DEF Carried
<1>4. OneCreate'
  BY DEF OneCreate
<1>5. NothingKnown'
  <2>1. \A p \in Pieces : Unborn(p)' => Unborn(p)
    BY DEF Unborn
  <2> QED
    BY <2>1 DEF NothingKnown, Answered, NoSave
<1>6. AloneOrCrossed'
  <2>1. \A p \in Pieces : Touching(p)' \subseteq Touching(p)
    BY <1>2 DEF Touching
  <2> QED
    BY <2>1 DEF AloneOrCrossed
<1> QED
  BY <1>1, <1>3, <1>4, <1>5, <1>6

\* One request more, about a row the page knows.  It marks the row it shows.
LEMMA OneMore ==
  ASSUME LibraryInv, NEW q, Wellformed(q), q.n = Fresh, q.kind \in RowKinds \ {"create"}, q.answer = None,
         NEW gone, net' = (net \ gone) \cup {q}, UNCHANGED <<pieces, unused, load>>,
         crossed \subseteq crossed', rows' = rows \/ (\A p \in Pieces : Unborn(p) => rows'[p] = None),
         q.kind = "favorite" => q.patch \in [favorite : BOOLEAN],
         q.kind = "status" => q.patch \in [status : Statuses],
         q.kind = "details" => q.patch \in Rows,
         q.kind = "open" => request' = Fresh /\ asked' = q.id,
         q.kind # "open" => UNCHANGED <<request, asked>>,
         q.kind \in {"favorite", "status", "details"} /\ Touching(q.id) \ gone # {} => q.id \in crossed',
         \A p \in Pieces : Unborn(p) =>
             q.id # p /\ saves'[p] = NoSave /\ chosen'[p] = None /\ editor'.id # p
  PROVE  /\ Numbered(net') /\ Carried' /\ OneCreate' /\ NothingKnown' /\ AloneOrCrossed'
<1> USE DEF LibraryInv
<1>1. Numbered(net')
  BY NetGrows
<1>2. Fresh \in Nat \ {0} /\ \A r \in net : r.n # Fresh
  BY FreshNumber
<1>3. load # Fresh /\ request # Fresh
  BY <1>2 DEF TypeOK
<1>4. Carried'
  BY <1>2, <1>3 DEF Carried, RowKinds
<1>5. OneCreate'
  BY DEF OneCreate
<1>6. NothingKnown'
  <2>1. \A p \in Pieces : Unborn(p)' => Unborn(p)
    BY DEF Unborn
  <2>2. \A p \in Pieces : Unborn(p) => rows'[p] = None
    BY DEF NothingKnown
  <2> QED
    BY <2>1, <2>2 DEF NothingKnown, Answered, NoSave, RowKinds
<1>7. AloneOrCrossed'
  <2>1. q.kind # "load"
    BY DEF RowKinds
  <2> SUFFICES ASSUME NEW p \in Pieces, p \notin crossed', NEW r \in Touching(p)', NEW s \in Touching(p)'
               PROVE  r = s
    BY DEF AloneOrCrossed
  <2>2. \A t \in Touching(p)' : t = q \/ t \in Touching(p) \ gone
    BY DEF Touching
  <2>3. q \in Touching(p)' => Touching(p) \ gone = {}
    BY <2>1 DEF Touching
  <2>4. \A t \in Touching(p), u \in Touching(p) : t = u
    BY DEF AloneOrCrossed
  <2> QED
    BY <2>2, <2>3, <2>4
<1> QED
  BY <1>1, <1>4, <1>5, <1>6, <1>7

LEMMA RewrittenQuietly ==
  ASSUME LibraryInv, NEW r \in net, NEW q, Wellformed(q), Same(r, q), q.answer \in {r.answer, Failed},
         q.more = r.more \/ q.more[1] \in {None, pieces[Continued]},
         net' = (net \ {r}) \cup {q}, UNCHANGED pieces, inputs' \in 0..MaxInputs, faults' \in 0..MaxFaults,
         UNCHANGED <<rows, offered, load, saves, editor, request, saving, failed, open,
                     asked, chosen, crossed, unused>>
  PROVE  LibraryInv'
<1> USE DEF LibraryInv, Same
<1>1. /\ TypeOK' /\ Carried' /\ ClosedPage' /\ FormShown' /\ OneCreate' /\ SavesInOrder' /\ AloneOrCrossed'
      /\ \A p \in Pieces : (Unborn(p)' => Unborn(p)) /\ (Changing(p)' <=> Changing(p))
  <2>1. (r.answer # None => q.answer # None) /\ pieces' \in Lists
    BY RowsAssumption DEF TypeOK
  <2> QED
    BY <2>1, Rewritten
<1>2. Answered(q) => Answered(r) /\ q.answer = r.answer
  BY DEF Answered
<1>3. NothingKnown'
  <2>1. \A s \in net' : Answered(s)' <=> Answered(s)
    BY DEF Answered
  <2> SUFFICES ASSUME NEW p \in Pieces, Unborn(p)
               PROVE  \A s \in net' : /\ s.id = p => s.kind = "create" /\ p \notin unused
                                      /\ s.kind = "load" /\ Answered(s) => s.answer[p] = None
    BY <1>1, <2>1 DEF NothingKnown, NoSave, Answered
  <2> QED
    BY <1>2 DEF NothingKnown
<1>4. ChoiceIsKept'
  BY <1>2 DEF ChoiceIsKept, Answered, NoSave
<1>5. RowsFollow'
  <2> SUFFICES ASSUME open, ~failed, ~(\E s \in net' : s.kind = "import"),
                      NEW p \in Pieces, p \notin crossed, ~Changing(p)'
               PROVE  RowIsServers(p)'
    BY DEF RowsFollow
  <2>1. RowIsServers(p)
    BY <1>1 DEF RowsFollow
  <2>2. CASE load # 0
    <3> SUFFICES ASSUME NEW s \in net', s.n = load
                 PROVE  /\ Answered(s) => s.answer[p] = pieces[p]
                        /\ p = Continued /\ s.more # None => s.more[1] \in {None, pieces[p]}
      BY <2>2 DEF RowIsServers, Answered
    <3>1. CASE s # q
      BY <2>1, <2>2, <3>1 DEF RowIsServers
    <3>2. CASE s = q
      BY <1>2, <2>1, <2>2, <3>2 DEF RowIsServers
    <3> QED
      BY <3>1, <3>2
  <2>3. CASE load = 0
    <3>1. Touching(p)' = {} => Touching(p) = {}
      BY DEF Touching
    <3>2. \A s \in Touching(p)' : Answered(s) => s.answer = pieces[p]
      <4>1. \A s \in Touching(p)' : s # q => s \in Touching(p)
        BY DEF Touching
      <4>2. q \in Touching(p)' => r \in Touching(p)
        BY DEF Touching
      <4> QED
        BY <1>2, <2>1, <2>3, <4>1, <4>2 DEF RowIsServers
    <3> QED
      BY <2>1, <2>3, <3>1, <3>2 DEF RowIsServers, Answered
  <2> QED
    BY <2>2, <2>3
<1> QED
  BY <1>1, <1>3, <1>4, <1>5

LEMMA ServeContinueKeeps == ASSUME LibraryInv, NEW r \in net, ServeContinue(r) PROVE LibraryInv'
<1> USE DEF LibraryInv
<1>1. PICK row \in {pieces[Continued], None} :
         /\ NoBudget \/ Fault
         /\ net' = (net \ {r}) \cup {[r EXCEPT !.more = <<row>>]}
  BY DEF ServeContinue
<1>2. r \in Loads /\ Continued \in Pieces
  BY RowsAssumption DEF ServeContinue, TypeOK, Wellformed
<1>3. row \in Rows \cup {None}
  BY <1>2 DEF TypeOK, Lists
<1> PICK q : q = [r EXCEPT !.more = <<row>>]
  OBVIOUS
<1>4. /\ q.n = r.n /\ q.kind = r.kind /\ q.id = r.id /\ q.patch = r.patch /\ q.then = r.then
      /\ q.answer = r.answer /\ q.more = <<row>> /\ q \in Loads
  BY <1>2, <1>3 DEF Loads
<1>5. Wellformed(q) /\ Same(r, q) /\ q.more[1] \in {None, pieces[Continued]}
  BY <1>2, <1>4 DEF Wellformed, Same, Loads
<1> QED
  BY <1>1, <1>4, <1>5, Budget, RewrittenQuietly DEF ServeContinue

LEMMA LoseKeeps == ASSUME LibraryInv, NEW r \in net, Lose(r) PROVE LibraryInv'
<1> USE DEF LibraryInv
<1> PICK q : q = [r EXCEPT !.answer = Failed]
  OBVIOUS
<1>1. Wellformed(r)
  BY DEF TypeOK
<1>2. CASE r.kind = "load"
  <2>1. r \in Loads
    BY <1>1, <1>2 DEF Wellformed
  <2>2. /\ q.n = r.n /\ q.kind = r.kind /\ q.id = r.id /\ q.patch = r.patch /\ q.then = r.then
        /\ q.answer = Failed /\ q.more = r.more /\ q \in Loads
    BY <2>1 DEF Loads
  <2> QED
    BY <1>2, <2>2, Budget, RewrittenQuietly DEF Lose, Wellformed, Same
<1>3. CASE r.kind # "load"
  <2>1. r \in RowRequests
    BY <1>1, <1>3 DEF Wellformed
  <2>2. /\ q.n = r.n /\ q.kind = r.kind /\ q.id = r.id /\ q.patch = r.patch /\ q.then = r.then
        /\ q.answer = Failed /\ q.more = r.more /\ q \in RowRequests
    BY <2>1 DEF RowRequests
  <2> QED
    BY <1>3, <2>2, Budget, RewrittenQuietly DEF Lose, Wellformed, Same
<1> QED
  BY <1>2, <1>3

(***************************************************************************)
(* Answers.                                                                *)
(***************************************************************************)

LEMMA LoadAnsweredKeeps == ASSUME LibraryInv, NEW r \in net, LoadAnswered(r) PROVE LibraryInv'
<1> USE DEF LibraryInv
<1>1. /\ r.kind = "load" /\ r.answer # None /\ net' = net \ {r}
      /\ r.n # load \/ r.answer = Failed \/ Continued = None \/ r.more # None
      /\ UNCHANGED <<pieces, saves, editor, request, saving, open, asked, chosen, crossed, unused>>
      /\ NoBudget
  BY DEF LoadAnswered, Done
<1>2. \/ (r.n # load \/ ~open) /\ UNCHANGED <<rows, offered, load, failed>>
      \/ r.n = load /\ open /\ load' = 0 /\ failed' = TRUE /\ UNCHANGED <<rows, offered>>
      \/ /\ r.n = load /\ open /\ load' = 0 /\ failed' = failed /\ r.answer # Failed
         /\ rows' = r.answer /\ offered' = IF Continued = None THEN None ELSE r.more[1]
  BY DEF LoadAnswered, TypeOK
<1>3. /\ r.n # 0 /\ r.answer \in Lists \cup {None, Failed}
      /\ r.more # None => r.more[1] \in Rows \cup {None}
  BY <1>1, RequestTypes
<1>4. \A p \in Pieces : Unborn(p) => rows'[p] = None /\ saves'[p] = NoSave /\ editor'.id # p
  BY <1>1, <1>2 DEF NothingKnown, Answered
<1>5. Numbered(net') /\ Carried' /\ OneCreate' /\ NothingKnown' /\ AloneOrCrossed'
  <2>1. load' \in {load, 0} /\ crossed' = crossed /\ net' \subseteq net
    BY <1>1, <1>2
  <2> QED
    BY <1>1, <1>4, <2>1, Fewer
<1>6. TypeOK'
  <2>1. rows' \in Lists /\ offered' \in Rows \cup {None} /\ failed' \in BOOLEAN
    BY <1>1, <1>2, <1>3 DEF TypeOK
  <2>2. inputs' \in 0..MaxInputs /\ faults' \in 0..MaxFaults
    BY <1>1, Budget
  <2>3. \A n \in {load', request'} \ {0} : \E s \in net' : s.n = n
    <3>1. request # r.n
      BY <1>1 DEF Carried
    <3>2. load' # 0 => open /\ load' = load /\ r.n # load
      BY <1>2 DEF ClosedPage
    <3> QED
      BY <1>1, <3>1, <3>2 DEF TypeOK
  <2> QED
    BY <1>1, <1>5, <2>1, <2>2, <2>3 DEF TypeOK, Numbered
<1>7. ClosedPage' /\ FormShown'
  BY <1>1, <1>2 DEF ClosedPage, FormShown
<1>8. SavesInOrder' /\ ChoiceIsKept'
  BY <1>1, <1>2, SavesKept, ChoiceKept
<1>9. RowsFollow'
  <2> SUFFICES ASSUME open, ~failed', ~(\E s \in net' : s.kind = "import"),
                      NEW p \in Pieces, p \notin crossed, ~Changing(p)'
               PROVE  RowIsServers(p)'
    BY <1>1 DEF RowsFollow
  <2>1. RowIsServers(p)
    BY <1>1, <1>2 DEF RowsFollow, Changing
  <2>2. CASE r.n # load
    <3>1. UNCHANGED <<rows, offered, load>>
      BY <1>2, <2>2
    <3>2. Touching(p)' = Touching(p)
      BY <1>1, <2>2, <3>1 DEF Touching
    <3> QED
      BY <1>1, <1>5, <2>1, <3>1, <3>2, RowStays
  <2>3. CASE r.n = load
    <3>1. /\ load' = 0 /\ rows' = r.answer /\ Answered(r)
          /\ offered' = IF Continued = None THEN None ELSE r.more[1]
      BY <1>1, <1>2, <2>3 DEF Answered
    <3>2. r.answer[p] = pieces[p] /\ (p = Continued => r.more[1] \in {None, pieces[p]} /\ offered' = r.more[1])
      <4>1. load # 0
        BY <1>3, <2>3
      <4>2. /\ r.answer[p] = pieces[p]
            /\ p = Continued /\ r.more # None => r.more[1] \in {None, pieces[p]}
        BY <2>1, <2>3, <3>1, <4>1 DEF RowIsServers
      <4>3. p = Continued => r.more # None /\ Continued # None
        BY <1>1, <2>3, <3>1, RowsAssumption DEF Answered
      <4> QED
        BY <3>1, <4>2, <4>3
    <3>3. Touching(p)' = {}
      <4>1. \A s \in Touching(p) : s = r
        BY <1>1, <2>3 DEF AloneOrCrossed, Touching
      <4>2. \A s \in net : s.n # 0
        BY RequestTypes
      <4> QED
        BY <1>1, <3>1, <4>1, <4>2 DEF Touching
    <3> QED
      BY <1>1, <3>1, <3>2, <3>3 DEF RowIsServers
  <2> QED
    BY <2>2, <2>3
<1> QED
  BY <1>5, <1>6, <1>7, <1>8, <1>9

LEMMA Replaced ==
  ASSUME TypeOK, NEW p \in Pieces, NEW row \in Rows, ReplaceRow(p, row)
  PROVE  /\ rows' \in Lists /\ offered' \in Rows \cup {None}
         /\ \A x \in Pieces \ {p} : rows'[x] = rows[x] /\ (x = Continued => offered' = offered)
         /\ rows'[p] = IF rows[p] = None THEN None ELSE row
         /\ rows[p] = None => rows' = rows
         /\ p = Continued => offered' = IF offered # None THEN row ELSE offered
<1>1. rows \in Lists
  BY DEF TypeOK
<1>2. rows' = [rows EXCEPT ![p] = IF @ = None THEN None ELSE row]
  BY DEF ReplaceRow
<1>3. rows' \in Lists /\ \A x \in Pieces : rows'[x] = IF x = p THEN IF rows[p] = None THEN None ELSE row ELSE rows[x]
  BY <1>1, <1>2 DEF Lists
<1>4. rows[p] = None => rows' = rows
  BY <1>1, <1>2 DEF Lists
<1> QED
  BY <1>1, <1>3, <1>4 DEF ReplaceRow, TypeOK

LEMMA FavoriteAnsweredKeeps == ASSUME LibraryInv, NEW r \in net, FavoriteAnswered(r) PROVE LibraryInv'
<1> USE DEF LibraryInv
<1>1. /\ r.kind = "favorite" /\ r.answer # None /\ net' = net \ {r}
      /\ UNCHANGED <<pieces, load, saves, editor, request, saving, open, asked, chosen, crossed, unused>>
      /\ NoBudget
  BY DEF FavoriteAnswered, Done
<1>2. r.id \in Pieces /\ r.answer \in Rows \cup {Failed} /\ Answered(r) \in BOOLEAN
  BY <1>1, RequestTypes DEF Answered
<1>3. \/ r.answer = Failed /\ failed' = TRUE /\ UNCHANGED <<rows, offered>>
      \/ r.answer \in Rows /\ Answered(r) /\ failed' = failed /\ ReplaceRow(r.id, r.answer)
  BY <1>1, <1>2 DEF FavoriteAnswered, Answered
<1>4. \A p \in Pieces : Unborn(p) => p # r.id
  BY <1>1 DEF NothingKnown
<1>5. \A p \in Pieces : Unborn(p) => rows'[p] = None /\ saves'[p] = NoSave /\ editor'.id # p
  BY <1>1, <1>2, <1>3, <1>4, Replaced DEF NothingKnown
<1>6. Numbered(net') /\ Carried' /\ OneCreate' /\ NothingKnown' /\ AloneOrCrossed'
  <2>1. crossed' = crossed /\ net' \subseteq net /\ load' = load
    BY <1>1
  <2> QED
    BY <1>1, <1>5, <2>1, Fewer
<1>7. TypeOK'
  <2>1. rows' \in Lists /\ offered' \in Rows \cup {None} /\ failed' \in BOOLEAN
    BY <1>2, <1>3, Replaced DEF TypeOK
  <2>2. inputs' \in 0..MaxInputs /\ faults' \in 0..MaxFaults
    BY <1>1, Budget
  <2>3. \A n \in {load', request'} \ {0} : \E s \in net' : s.n = n
    BY <1>1 DEF TypeOK, Carried
  <2> QED
    BY <1>1, <1>6, <2>1, <2>2, <2>3 DEF TypeOK, Numbered
<1>8. ClosedPage' /\ FormShown'
  BY <1>1 DEF ClosedPage, FormShown
<1>9. SavesInOrder' /\ ChoiceIsKept'
  BY <1>1, <1>3, SavesKept, ChoiceKept
<1>10. RowsFollow'
  <2> SUFFICES ASSUME open, ~failed', ~(\E s \in net' : s.kind = "import"),
                      NEW p \in Pieces, p \notin crossed, ~Changing(p)'
               PROVE  RowIsServers(p)'
    BY <1>1 DEF RowsFollow
  <2>1. RowIsServers(p) /\ Answered(r) /\ r.answer \in Rows /\ ReplaceRow(r.id, r.answer)
    BY <1>1, <1>3 DEF RowsFollow, Changing
  <2>2. CASE p # r.id
    <3>1. Touching(p)' = Touching(p)
      BY <1>1, <2>2 DEF Touching
    <3> QED
      BY <1>1, <1>2, <1>6, <2>1, <2>2, <3>1, RowStays, Replaced
  <2>3. CASE p = r.id
    <3>1. r \in Touching(p) /\ \A s \in Touching(p) : s = r
      BY <1>1, <2>3 DEF Touching, AloneOrCrossed
    <3>2. load = 0
      BY <1>1, <3>1 DEF TypeOK, Touching, Carried
    <3>3. r.answer = pieces[p] /\ rows[p] # None
      BY <1>2, <2>1, <3>1, <3>2, RowsAssumption DEF RowIsServers
    <3>4. Touching(p)' = {}
      BY <1>1, <3>1 DEF Touching
    <3>5. rows'[p] = pieces[p] /\ (p = Continued => offered' \in {None, pieces[p]})
      BY <1>2, <2>1, <2>3, <3>3, Replaced
    <3> QED
      BY <1>1, <2>1, <3>2, <3>3, <3>4, <3>5, RowsAssumption DEF RowIsServers
  <2> QED
    BY <2>2, <2>3
<1> QED
  BY <1>6, <1>7, <1>8, <1>9, <1>10

LEMMA RowsAreForms == Rows \subseteq Forms
BY DEF Rows, Forms

LEMMA EditReadKeeps == ASSUME LibraryInv, NEW r \in net, EditRead(r) PROVE LibraryInv'
<1> USE DEF LibraryInv
<1>1. /\ r.kind = "open" /\ r.answer # None /\ net' = net \ {r} /\ NoBudget
      /\ request' = IF r.n = request THEN 0 ELSE request
      /\ UNCHANGED <<pieces, rows, offered, load, saves, saving, open, asked, chosen, crossed, unused>>
  BY DEF EditRead, Done, Current
<1>2. \/ UNCHANGED <<editor, failed>>
      \/ failed' = TRUE /\ UNCHANGED editor
      \/ /\ r.n = request /\ r.answer # Failed /\ failed' = failed
         /\ editor' = [shown |-> open, id |-> r.id, piece |-> r.answer, form |-> r.answer]
  BY DEF EditRead, Current
<1>3. r.id \in Pieces /\ (r.answer # Failed => r.answer \in Rows) /\ r.n # 0
  BY <1>1, RequestTypes
<1>4. \A p \in Pieces : Unborn(p) => rows'[p] = None /\ saves'[p] = NoSave /\ editor'.id # p
  BY <1>1, <1>2 DEF NothingKnown
<1>5. Numbered(net') /\ Carried' /\ OneCreate' /\ NothingKnown' /\ AloneOrCrossed'
  <2>1. crossed' = crossed /\ net' \subseteq net /\ load' = load /\ (request' = 0 \/ request' = request)
    BY <1>1
  <2> QED
    BY <1>1, <1>4, <2>1, Fewer
<1>6. TypeOK'
  <2>1. failed' \in BOOLEAN
    BY <1>2 DEF TypeOK
  <2>2. editor' \in [shown : BOOLEAN, id : Pieces \cup {None}, piece : Rows \cup {None}, form : Forms \cup {None}]
    BY <1>2, <1>3, RowsAreForms DEF TypeOK
  <2>3. inputs' \in 0..MaxInputs /\ faults' \in 0..MaxFaults
    BY <1>1, Budget
  <2>4. \A n \in {load', request'} \ {0} : \E s \in net' : s.n = n
    BY <1>1 DEF TypeOK, Carried
  <2> QED
    BY <1>1, <1>5, <2>1, <2>2, <2>3, <2>4 DEF TypeOK, Numbered
<1>7. ClosedPage' /\ FormShown'
  <2>1. ClosedPage'
    BY <1>1 DEF ClosedPage
  <2>2. CASE editor' = editor
    BY <1>1, <2>1, <2>2 DEF FormShown
  <2>3. CASE r.n = request /\ editor' = [shown |-> open, id |-> r.id, piece |-> r.answer, form |-> r.answer]
                           /\ r.answer # Failed
    BY <1>1, <1>3, <2>1, <2>3, RowsAreForms DEF FormShown, Carried
  <2> QED
    BY <1>2, <2>1, <2>2, <2>3
<1>8. SavesInOrder' /\ ChoiceIsKept'
  BY <1>1, <1>2, SavesKept, ChoiceKept
<1>9. RowsFollow'
  <2> SUFFICES ASSUME open, ~failed', ~(\E s \in net' : s.kind = "import"),
                      NEW p \in Pieces, p \notin crossed, ~Changing(p)'
               PROVE  RowIsServers(p)'
    BY <1>1 DEF RowsFollow
  <2>1. RowIsServers(p)
    BY <1>1, <1>2 DEF RowsFollow, Changing
  <2>2. Touching(p)' = Touching(p)
    BY <1>1 DEF Touching
  <2> QED
    BY <1>1, <1>5, <2>1, <2>2, RowStays
<1> QED
  BY <1>5, <1>6, <1>7, <1>8, <1>9

LEMMA ImportAnsweredKeeps == ASSUME LibraryInv, NEW r \in net, ImportAnswered(r) PROVE LibraryInv'
<1> USE DEF LibraryInv
<1>1. /\ r.kind = "import" /\ net' = net \ {r} /\ NoBudget
      /\ UNCHANGED <<pieces, rows, offered, saves, request, saving, asked, chosen, crossed, unused>>
  BY DEF ImportAnswered, Done
<1>2. \/ failed' = TRUE /\ UNCHANGED <<open, editor, load>>
      \/ open' = FALSE /\ editor' = [editor EXCEPT !.shown = FALSE] /\ load' = 0 /\ failed' = failed
  BY DEF ImportAnswered
<1>3. /\ editor' \in [shown : BOOLEAN, id : Pieces \cup {None}, piece : Rows \cup {None}, form : Forms \cup {None}]
      /\ editor'.id = editor.id /\ editor'.form = editor.form /\ (editor'.shown => editor.shown)
  BY <1>2 DEF TypeOK
<1>4. \A p \in Pieces : Unborn(p) => rows'[p] = None /\ saves'[p] = NoSave /\ editor'.id # p
  BY <1>1, <1>3 DEF NothingKnown
<1>5. Numbered(net') /\ Carried' /\ OneCreate' /\ NothingKnown' /\ AloneOrCrossed'
  <2>1. crossed' = crossed /\ net' \subseteq net /\ load' \in {load, 0}
    BY <1>1, <1>2
  <2> QED
    BY <1>1, <1>4, <2>1, Fewer
<1>6. TypeOK'
  <2>1. failed' \in BOOLEAN /\ open' \in BOOLEAN
    BY <1>2 DEF TypeOK
  <2>2. inputs' \in 0..MaxInputs /\ faults' \in 0..MaxFaults
    BY <1>1, Budget
  <2>3. \A n \in {load', request'} \ {0} : \E s \in net' : s.n = n
    BY <1>1, <1>2 DEF TypeOK, Carried
  <2> QED
    BY <1>1, <1>3, <1>5, <2>1, <2>2, <2>3 DEF TypeOK, Numbered
<1>7. ClosedPage' /\ FormShown'
  BY <1>1, <1>2, <1>3 DEF ClosedPage, FormShown
<1>8. SavesInOrder' /\ ChoiceIsKept'
  BY <1>1, <1>2, SavesKept, ChoiceKept
<1>9. RowsFollow'
  <2>1. CASE failed'
    BY <2>1 DEF RowsFollow
  <2>2. CASE ~open'
    BY <2>2 DEF RowsFollow
  <2> QED
    BY <1>2, <2>1, <2>2
<1> QED
  BY <1>5, <1>6, <1>7, <1>8, <1>9

\* Steps that only move the form.
LEMMA FormMoves ==
  ASSUME LibraryInv, inputs' \in 0..MaxInputs, faults' \in 0..MaxFaults,
         editor' \in [shown : BOOLEAN, id : Pieces \cup {None}, piece : Rows \cup {None}, form : Forms \cup {None}],
         editor'.id \in {editor.id, None}, request' = 0 \/ UNCHANGED <<request, asked>>,
         asked' \in Pieces \cup {None}, FormShown',
         UNCHANGED <<pieces, rows, offered, net, load, saves, saving, failed, open, chosen, crossed, unused>>
  PROVE  LibraryInv'
<1> USE DEF LibraryInv
<1>1. \A p \in Pieces : Unborn(p) => rows'[p] = None /\ saves'[p] = NoSave /\ editor'.id # p
  BY RowsAssumption DEF NothingKnown
<1>2. Numbered(net') /\ Carried' /\ OneCreate' /\ NothingKnown' /\ AloneOrCrossed'
  BY <1>1, Fewer
<1>3. TypeOK'
  BY <1>2 DEF TypeOK, Numbered
<1>4. ClosedPage'
  BY DEF ClosedPage
<1>5. SavesInOrder' /\ ChoiceIsKept'
  BY SavesKept, ChoiceKept
<1>6. RowsFollow'
  <2> SUFFICES ASSUME open, ~failed, ~(\E s \in net : s.kind = "import"),
                      NEW p \in Pieces, p \notin crossed, ~Changing(p)'
               PROVE  RowIsServers(p)'
    BY DEF RowsFollow
  <2>1. RowIsServers(p)
    BY DEF RowsFollow, Changing
  <2>2. Touching(p)' = Touching(p)
    BY DEF Touching
  <2> QED
    BY <1>2, <2>1, <2>2, RowStays
<1> QED
  BY <1>2, <1>3, <1>4, <1>5, <1>6

LEMMA OpenCreateKeeps == ASSUME LibraryInv, OpenCreate PROVE LibraryInv'
<1>1. /\ request' = 0 /\ asked' = None
      /\ editor' = [shown |-> TRUE, id |-> None, piece |-> None,
                    form |-> [status |-> FirstStatus, favorite |-> FALSE, title |-> Blank]]
      /\ UNCHANGED <<pieces, rows, offered, net, load, saves, saving, failed, open, chosen, crossed, unused>>
  BY DEF OpenCreate
<1>2. [status |-> FirstStatus, favorite |-> FALSE, title |-> Blank] \in Forms
  BY RowsAssumption DEF Forms, FirstStatus
<1>3. FormShown'
  BY <1>1, <1>2 DEF FormShown
<1>4. inputs' \in 0..MaxInputs /\ faults' \in 0..MaxFaults
  BY Budget DEF OpenCreate, LibraryInv
<1> QED
  BY <1>1, <1>2, <1>3, <1>4, FormMoves

LEMMA EditFormKeeps == ASSUME LibraryInv, NEW form \in Forms, EditForm(form) PROVE LibraryInv'
<1>1. /\ editor' = [editor EXCEPT !.form = form] /\ UNCHANGED <<request, asked>>
      /\ UNCHANGED <<pieces, rows, offered, net, load, saves, saving, failed, open, chosen, crossed, unused>>
  BY DEF EditForm
<1>2. /\ editor' \in [shown : BOOLEAN, id : Pieces \cup {None}, piece : Rows \cup {None}, form : Forms \cup {None}]
      /\ editor'.id = editor.id /\ editor'.shown = editor.shown /\ editor'.form = form
  BY <1>1 DEF LibraryInv, TypeOK
<1>3. FormShown' /\ asked' \in Pieces \cup {None}
  BY <1>1, <1>2 DEF FormShown, LibraryInv, TypeOK
<1>4. inputs' \in 0..MaxInputs /\ faults' \in 0..MaxFaults
  BY Budget DEF EditForm, LibraryInv
<1> QED
  BY <1>1, <1>2, <1>3, <1>4, FormMoves

LEMMA CloseEditorKeeps == ASSUME LibraryInv, CloseEditor PROVE LibraryInv'
<1>1. /\ editor' = [editor EXCEPT !.shown = FALSE] /\ UNCHANGED <<request, asked>>
      /\ UNCHANGED <<pieces, rows, offered, net, load, saves, saving, failed, open, chosen, crossed, unused>>
  BY DEF CloseEditor
<1>2. /\ editor' \in [shown : BOOLEAN, id : Pieces \cup {None}, piece : Rows \cup {None}, form : Forms \cup {None}]
      /\ editor'.id = editor.id /\ ~editor'.shown
  BY <1>1 DEF LibraryInv, TypeOK
<1>3. FormShown' /\ asked' \in Pieces \cup {None}
  BY <1>1, <1>2 DEF FormShown, LibraryInv, TypeOK
<1>4. inputs' \in 0..MaxInputs /\ faults' \in 0..MaxFaults
  BY Budget DEF CloseEditor, LibraryInv
<1> QED
  BY <1>1, <1>2, <1>3, <1>4, FormMoves

(***************************************************************************)
(* Requests the page sends.                                                *)
(***************************************************************************)

LEMMA KnownRow ==
  ASSUME LibraryInv, NEW p \in Pieces, Copies(p) # {}
  PROVE  ~Unborn(p) /\ Copies(p) \subseteq Rows
BY DEF LibraryInv, Copies, NothingKnown, TypeOK, Lists

\* A request about a row the page knows, sent next to those under way.
LEMMA Sent ==
  ASSUME LibraryInv, NEW q, Wellformed(q), q.n = Fresh, q.answer = None,
         q.kind \in {"favorite", "open", "delete", "import", "details"}, q.id \in Pieces, ~Unborn(q.id),
         net' = net \cup {q},
         UNCHANGED <<pieces, rows, offered, load, saves, failed, open, unused>>,
         crossed' = crossed \/ crossed' = Crossing(q.id),
         q.kind \in {"favorite", "details"} => crossed' = Crossing(q.id),
         q.kind = "favorite" => q.patch \in [favorite : BOOLEAN],
         q.kind = "details" => q.patch \in Rows,
         chosen' = IF q.kind = "details" THEN [chosen EXCEPT ![q.id] = None] ELSE chosen,
         q.kind = "open" => request' = Fresh /\ asked' = q.id,
         q.kind # "open" => UNCHANGED <<request, asked>>,
         editor' \in [shown : BOOLEAN, id : Pieces \cup {None}, piece : Rows \cup {None}, form : Forms \cup {None}],
         editor'.id = editor.id, FormShown', saving' \in BOOLEAN,
         inputs' \in 0..MaxInputs, faults' \in 0..MaxFaults
  PROVE  LibraryInv'
<1> USE DEF LibraryInv
<1>1. /\ crossed \subseteq crossed' /\ crossed' \subseteq Pieces
      /\ q.kind \in {"favorite", "details"} /\ Touching(q.id) # {} => q.id \in crossed'
  BY DEF Crossing, TypeOK
<1>2. \A p \in Pieces : Unborn(p) =>
         q.id # p /\ saves'[p] = NoSave /\ chosen'[p] = None /\ editor'.id # p
  BY DEF NothingKnown, TypeOK
<1>3. Numbered(net') /\ Carried' /\ OneCreate' /\ NothingKnown' /\ AloneOrCrossed'
  <2> PICK gone : gone = {}
    OBVIOUS
  <2>1. /\ q.kind \in RowKinds \ {"create"} /\ q.kind # "status"
        /\ net' = (net \ gone) \cup {q} /\ rows' = rows
    BY DEF RowKinds
  <2>2. q.kind \in {"favorite", "status", "details"} /\ Touching(q.id) \ gone # {} => q.id \in crossed'
    BY <1>1
  <2> HIDE DEF LibraryInv
  <2> QED
    BY <1>1, <1>2, <2>1, <2>2, OneMore, SMTT(60)
<1>4. TypeOK'
  <2>1. chosen' \in [Pieces -> Statuses \cup {None}]
    BY DEF TypeOK
  <2>2. /\ request' \in {request, Fresh} /\ asked' \in Pieces \cup {None}
        /\ \A n \in {load', request'} \ {0} : \E s \in net' : s.n = n
    BY DEF TypeOK
  <2> QED
    BY <1>1, <1>3, <2>1, <2>2 DEF TypeOK, Numbered
<1>5. ClosedPage'
  BY DEF ClosedPage
<1>6. SavesInOrder'
  BY SavesKept
<1>7. ChoiceIsKept'
  <2>1. CASE q.kind # "details"
    <3>1. chosen' = chosen /\ \A s \in net' : s.kind \in {"status", "details"} => s \in net
      BY <2>1
    <3> QED
      BY <1>1, <3>1, ChoiceKept
  <2>2. CASE q.kind = "details"
    <3>1. q.id \notin crossed' => saves[q.id] = NoSave
      <4> SUFFICES ASSUME saves[q.id] # NoSave PROVE q.id \in crossed'
        OBVIOUS
      <4>1. PICK s \in net : s.kind = "status" /\ s.id = q.id
        BY DEF SavesInOrder
      <4>2. s \in Touching(q.id)
        BY <4>1 DEF Touching
      <4> QED
        BY <1>1, <2>2, <4>2
    <3> SUFFICES ASSUME NEW p \in Pieces, p \notin crossed'
                 PROVE  /\ saves[p] # NoSave => chosen'[p] = saves[p].latest
                        /\ chosen'[p] # None => \A s \in net' : s.kind = "details" => s.id # p
                        /\ chosen'[p] # None /\ pieces[p] # None /\ ~failed =>
                             IF saves[p] = NoSave THEN pieces[p].status = chosen'[p]
                             ELSE \A s \in net' : s.kind = "status" /\ s.id = p /\ Answered(s)
                                                   => pieces[p].status = s.patch.status
      BY DEF ChoiceIsKept, NoSave, Answered
    <3>2. CASE p = q.id
      BY <2>2, <3>1, <3>2 DEF TypeOK
    <3>3. CASE p # q.id
      <4>1. chosen'[p] = chosen[p] /\ p \notin crossed
        BY <1>1, <2>2, <3>3 DEF TypeOK
      <4> QED
        BY <2>2, <3>3, <4>1 DEF ChoiceIsKept
    <3> QED
      BY <3>2, <3>3
  <2> QED
    BY <2>1, <2>2
<1>8. RowsFollow'
  <2> SUFFICES ASSUME open, ~failed, ~(\E s \in net' : s.kind = "import"),
                      NEW p \in Pieces, p \notin crossed', ~Changing(p)'
               PROVE  RowIsServers(p)'
    BY DEF RowsFollow
  <2>1. RowIsServers(p) /\ p \notin crossed /\ ~(q.kind \in {"details", "delete"} /\ q.id = p) /\ q.kind # "import"
    BY <1>1 DEF RowsFollow, Changing
  <2>2. CASE q.kind = "favorite" /\ q.id = p
    <3>1. Touching(p) = {}
      BY <1>1, <2>2
    <3>2. load = 0
      BY ZenonT(60), <3>1 DEF TypeOK, Touching, Carried
    <3>3. Touching(p)' = {q}
      BY <2>2, <3>1 DEF Touching
    <3> QED
      BY <2>1, <3>1, <3>2, <3>3 DEF RowIsServers, Answered
  <2>3. CASE ~(q.kind = "favorite" /\ q.id = p)
    <3>1. Touching(p)' = Touching(p)
      BY <2>1, <2>3 DEF Touching
    <3> QED
      BY <1>3, <2>1, <3>1, RowStays
  <2> QED
    BY <2>2, <2>3
<1> QED
  BY <1>3, <1>4, <1>5, <1>6, <1>7, <1>8

LEMMA EditorStays ==
  ASSUME LibraryInv, UNCHANGED <<editor, request, asked>>
  PROVE  /\ editor' \in [shown : BOOLEAN, id : Pieces \cup {None}, piece : Rows \cup {None}, form : Forms \cup {None}]
         /\ editor'.id = editor.id /\ FormShown'
BY DEF LibraryInv, TypeOK, FormShown

LEMMA ToggleFavoriteKeeps == ASSUME LibraryInv, NEW p \in Pieces, ToggleFavorite(p) PROVE LibraryInv'
<1> USE DEF LibraryInv
<1>1. PICK row \in Copies(p) : net' = net \cup {Req("favorite", p, [favorite |-> ~row.favorite])}
  BY DEF ToggleFavorite, Send
<1>2. ~Unborn(p)
  BY KnownRow
<1>3. [favorite |-> ~row.favorite] \in [favorite : BOOLEAN]
  <2>1. (~row.favorite) \in BOOLEAN
    OBVIOUS
  <2> QED
    BY <2>1
<1> PICK q : q = Req("favorite", p, [favorite |-> ~row.favorite])
  OBVIOUS
<1>4. /\ Wellformed(q) /\ q.n = Fresh /\ q.kind = "favorite" /\ q.id = p
      /\ q.patch = [favorite |-> ~row.favorite] /\ q.answer = None
  <2> PICK patch : patch = [favorite |-> ~row.favorite]
    OBVIOUS
  <2>1. patch \in Patches /\ q = Req("favorite", p, patch) /\ "favorite" \in RowKinds
    BY <1>3 DEF Patches, RowKinds
  <2> QED
    BY <2>1, NewRequest
<1>5. inputs' \in 0..MaxInputs /\ faults' \in 0..MaxFaults
  BY Budget DEF ToggleFavorite
<1>6. /\ crossed' = Crossing(p)
      /\ UNCHANGED <<pieces, rows, offered, load, saves, editor, request, saving, failed, open,
                     asked, chosen, unused>>
  BY DEF ToggleFavorite
<1> QED
  BY <1>1, <1>2, <1>3, <1>4, <1>5, <1>6, EditorStays, Sent DEF TypeOK

LEMMA OpenEditKeeps == ASSUME LibraryInv, NEW p \in Pieces, OpenEdit(p) PROVE LibraryInv'
<1> USE DEF LibraryInv
<1>1. /\ net' = net \cup {Req("open", p, None)} /\ request' = Fresh /\ asked' = p /\ ~editor.shown
      /\ UNCHANGED <<pieces, rows, offered, load, saves, editor, saving, failed, open, chosen, crossed, unused>>
  BY DEF OpenEdit, Send
<1>2. ~Unborn(p)
  BY KnownRow DEF OpenEdit
<1> PICK q : q = Req("open", p, None)
  OBVIOUS
<1>3. Wellformed(q) /\ q.n = Fresh /\ q.kind = "open" /\ q.id = p /\ q.answer = None
  BY NewRequest DEF RowKinds, Patches
<1>4. inputs' \in 0..MaxInputs /\ faults' \in 0..MaxFaults
  BY Budget DEF OpenEdit
<1>5. /\ editor' \in [shown : BOOLEAN, id : Pieces \cup {None}, piece : Rows \cup {None}, form : Forms \cup {None}]
      /\ editor'.id = editor.id /\ FormShown'
  BY <1>1 DEF FormShown, TypeOK
<1> QED
  BY <1>1, <1>2, <1>3, <1>4, <1>5, Sent DEF TypeOK

LEMMA DeletePieceKeeps == ASSUME LibraryInv, DeletePiece PROVE LibraryInv'
<1> USE DEF LibraryInv
<1>1. /\ net' = net \cup {Req("delete", editor.id, None)} /\ saving' = TRUE /\ editor.id # None
      /\ crossed' = Crossing(editor.id)
      /\ UNCHANGED <<pieces, rows, offered, load, saves, editor, request, failed, open, asked, chosen, unused>>
  BY DEF DeletePiece, Send
<1>2. editor.id \in Pieces /\ ~Unborn(editor.id)
  BY <1>1 DEF TypeOK, NothingKnown
<1> PICK q : q = Req("delete", editor.id, None)
  OBVIOUS
<1>3. Wellformed(q) /\ q.n = Fresh /\ q.kind = "delete" /\ q.id = editor.id /\ q.answer = None
  BY <1>2, NewRequest DEF RowKinds, Patches
<1>4. inputs' \in 0..MaxInputs /\ faults' \in 0..MaxFaults
  BY Budget DEF DeletePiece
<1> QED
  BY <1>1, <1>2, <1>3, <1>4, EditorStays, Sent

\* A piece is made: its id is one no piece has had.
LEMMA CreateSent ==
  ASSUME LibraryInv, NEW p \in unused, NEW q, Wellformed(q), q.n = Fresh, q.kind = "create", q.id = p,
         q.patch \in Rows, q.answer = None, net' = net \cup {q}, unused' = unused \ {p},
         chosen' = [chosen EXCEPT ![p] = None], crossed' = Crossing(p),
         UNCHANGED <<pieces, rows, offered, load, saves, request, asked, failed, open>>,
         editor' \in [shown : BOOLEAN, id : Pieces \cup {None}, piece : Rows \cup {None}, form : Forms \cup {None}],
         editor'.id = editor.id, FormShown', saving' \in BOOLEAN,
         inputs' \in 0..MaxInputs, faults' \in 0..MaxFaults
  PROVE  LibraryInv'
<1> USE DEF LibraryInv
<1>0. /\ Fresh \in Nat \ {0} /\ \A s \in net : s.n # Fresh
      /\ load # Fresh /\ request # Fresh
  BY FreshNumber DEF TypeOK
<1>1. Numbered(net')
  <2> PICK gone : gone = {}
    OBVIOUS
  <2>1. net' = (net \ gone) \cup {q}
    OBVIOUS
  <2> QED
    BY <2>1, NetGrows
<1>2. /\ p \in Pieces /\ Unborn(p) /\ \A s \in net : s.id # p
      /\ pieces[p] = None /\ rows[p] = None /\ saves[p] = NoSave /\ chosen[p] = None /\ p # Continued
      /\ editor.id # p
  <2>1. p \in Pieces /\ Unborn(p)
    BY DEF TypeOK, Unborn
  <2> QED
    BY <2>1 DEF NothingKnown
<1>3. chosen' = chosen
  BY <1>2 DEF TypeOK
<1>4. TypeOK'
  <2>1. crossed' \subseteq Pieces /\ unused' \subseteq Pieces
    BY <1>2 DEF TypeOK, Crossing
  <2>2. \A n \in {load', request'} \ {0} : \E s \in net' : s.n = n
    BY DEF TypeOK
  <2> QED
    BY <1>1, <1>3, <2>1, <2>2 DEF TypeOK, Numbered
<1>5. Carried' /\ ClosedPage'
  BY <1>0 DEF Carried, ClosedPage
<1>6. OneCreate'
  BY <1>2 DEF OneCreate
<1>7. NothingKnown'
  <2>1. \A x \in Pieces : Unborn(x)' => Unborn(x)
    BY <1>2 DEF Unborn
  <2> SUFFICES ASSUME NEW x \in Pieces, Unborn(x)
               PROVE  \A s \in net' : /\ s.id = x => s.kind = "create" /\ x \notin unused'
                                      /\ s.kind = "load" /\ Answered(s) => s.answer[x] = None
    BY <1>3, <2>1 DEF NothingKnown, NoSave, Answered
  <2> QED
    BY DEF NothingKnown
<1>8. AloneOrCrossed'
  <2>1. \A x \in Pieces : Touching(x)' = Touching(x)
    BY DEF Touching
  <2> QED
    BY <2>1 DEF AloneOrCrossed, Crossing
<1>9. SavesInOrder' /\ ChoiceIsKept'
  <2>1. crossed \subseteq crossed'
    BY DEF Crossing
  <2> QED
    BY <1>3, <2>1, SavesKept, ChoiceKept
<1>10. RowsFollow'
  <2> SUFFICES ASSUME open, ~failed, ~(\E s \in net' : s.kind = "import"),
                      NEW x \in Pieces, x \notin crossed', ~Changing(x)'
               PROVE  RowIsServers(x)'
    BY DEF RowsFollow
  <2>1. RowIsServers(x)
    BY DEF RowsFollow, Changing, Crossing
  <2>2. Touching(x)' = Touching(x)
    BY DEF Touching
  <2> QED
    BY <1>5, <2>1, <2>2, RowStays
<1> QED
  BY <1>4, <1>5, <1>6, <1>7, <1>8, <1>9, <1>10

LEMMA Persisted ==
  ASSUME LibraryInv, editor.shown, NEW then \in {"close", "import"}, Persist(then), Input,
         UNCHANGED <<pieces, rows, offered, load, saves, editor, request, failed, open, asked>>
  PROVE  LibraryInv'
<1> USE DEF LibraryInv
<1>1. inputs' \in 0..MaxInputs /\ faults' \in 0..MaxFaults
  BY Budget
<1>2. /\ editor' \in [shown : BOOLEAN, id : Pieces \cup {None}, piece : Rows \cup {None}, form : Forms \cup {None}]
      /\ editor'.id = editor.id /\ FormShown' /\ asked' \in Pieces \cup {None}
  BY EditorStays DEF TypeOK
<1>3. CASE editor.form.title = Blank
  <2>1. UNCHANGED <<net, saving, chosen, crossed, unused>>
    BY <1>3 DEF Persist
  <2> QED
    BY <1>1, <1>2, <2>1, FormMoves
<1>4. CASE editor.form.title # Blank
  <2>1. editor.form \in Rows
    <3>1. PICK form \in Forms : form = editor.form
      BY DEF FormShown
    <3> QED
      BY <1>4, <3>1 DEF Forms, Rows
  <2> PICK kind : kind = IF editor.id = None THEN "create" ELSE "details"
    OBVIOUS
  <2>2. saving' = TRUE
    BY <1>4 DEF Persist
  <2>3. PICK p \in IF editor.id = None THEN unused ELSE {editor.id} :
           /\ net' = net \cup {[Req(kind, p, editor.form) EXCEPT !.then = then]}
           /\ chosen' = [chosen EXCEPT ![p] = None] /\ crossed' = Crossing(p)
           /\ unused' = unused \ {p}
    BY <1>4 DEF Persist, Send
  <2>4. p \in Pieces /\ kind \in RowKinds /\ editor.form \in Patches
    BY <2>1 DEF TypeOK, RowKinds, Patches
  <2> PICK q : q = [Req(kind, p, editor.form) EXCEPT !.then = then]
    OBVIOUS
  <2>5. Wellformed(q) /\ q.n = Fresh /\ q.kind = kind /\ q.id = p /\ q.patch = editor.form /\ q.answer = None
    BY <2>4, NewRequest
  <2>6. CASE editor.id = None
    BY <1>1, <1>2, <2>1, <2>2, <2>3, <2>5, <2>6, CreateSent
  <2>7. CASE editor.id # None
    <3>1. p = editor.id /\ ~Unborn(p)
      BY <2>3, <2>4, <2>7 DEF NothingKnown
    <3>2. unused' = unused
      BY <2>3, <3>1 DEF Unborn
    <3>3. /\ q.kind = "details" /\ q.id \in Pieces /\ ~Unborn(q.id) /\ q.patch \in Rows
          /\ net' = net \cup {q} /\ crossed' = Crossing(q.id) /\ chosen' = [chosen EXCEPT ![q.id] = None]
          /\ saving' \in BOOLEAN
      BY <2>1, <2>2, <2>3, <2>4, <2>5, <2>7, <3>1
    <3>4. /\ q.kind \in {"favorite", "open", "delete", "import", "details"}
          /\ crossed' = crossed \/ crossed' = Crossing(q.id)
          /\ q.kind \in {"favorite", "details"} => crossed' = Crossing(q.id)
          /\ q.kind = "favorite" => q.patch \in [favorite : BOOLEAN]
          /\ q.kind = "details" => q.patch \in Rows
          /\ chosen' = IF q.kind = "details" THEN [chosen EXCEPT ![q.id] = None] ELSE chosen
          /\ q.kind = "open" => request' = Fresh /\ asked' = q.id
          /\ q.kind # "open" => UNCHANGED <<request, asked>>
          /\ UNCHANGED <<pieces, rows, offered, load, saves, failed, open, unused>>
      BY <3>2, <3>3
    <3> HIDE DEF LibraryInv
    <3> QED
      BY <1>1, <1>2, <2>5, <3>3, <3>4, Sent
  <2> QED
    BY <2>6, <2>7
<1> QED
  BY <1>3, <1>4

LEMMA SaveKeeps == ASSUME LibraryInv, Save PROVE LibraryInv'
<1>1. "close" \in {"close", "import"}
  OBVIOUS
<1> QED
  BY <1>1, Persisted DEF Save

LEMMA EditPagesKeeps == ASSUME LibraryInv, EditPages PROVE LibraryInv'
<1> USE DEF LibraryInv
<1>1. CASE editor.form # editor.piece
  <2>1. "import" \in {"close", "import"}
    OBVIOUS
  <2> QED
    BY <1>1, <2>1, Persisted DEF EditPages
<1>2. CASE editor.form = editor.piece
  <2>1. /\ net' = net \cup {Req("import", editor.id, None)} /\ editor.id # None
        /\ editor' = [editor EXCEPT !.shown = FALSE]
        /\ UNCHANGED <<pieces, rows, offered, load, saves, request, saving, failed, open, asked, chosen, crossed, unused>>
    BY <1>2 DEF EditPages, Import, Send
  <2>2. editor.id \in Pieces /\ ~Unborn(editor.id)
    BY <2>1 DEF TypeOK, NothingKnown
  <2> PICK q : q = Req("import", editor.id, None)
    OBVIOUS
  <2>3. Wellformed(q) /\ q.n = Fresh /\ q.kind = "import" /\ q.id = editor.id /\ q.answer = None
    BY <2>2, NewRequest DEF RowKinds, Patches
  <2>4. inputs' \in 0..MaxInputs /\ faults' \in 0..MaxFaults
    BY Budget DEF EditPages
  <2>5. /\ editor' \in [shown : BOOLEAN, id : Pieces \cup {None}, piece : Rows \cup {None}, form : Forms \cup {None}]
        /\ editor'.id = editor.id /\ ~editor'.shown
    BY <2>1 DEF TypeOK
  <2>6. FormShown' /\ saving' \in BOOLEAN
    BY <2>1, <2>5 DEF FormShown, TypeOK
  <2> QED
    BY <2>1, <2>2, <2>3, <2>4, <2>5, <2>6, Sent
<1> QED
  BY <1>1, <1>2

(***************************************************************************)
(* The details form saved or deleted: the library loads again.             *)
(***************************************************************************)

EditorTypes(new) ==
  new \in [shown : BOOLEAN, id : Pieces \cup {None}, piece : Rows \cup {None}, form : Forms \cup {None}]

LEMMA NotUnborn ==
  ASSUME LibraryInv, NEW r \in net, r.kind \in {"create", "details", "delete"}, r.answer # None
  PROVE  r.id \in Pieces /\ ~Unborn(r.id)
<1> USE DEF LibraryInv
<1>1. r.id \in Pieces
  BY RequestTypes
<1>2. CASE Unborn(r.id)
  <2>1. r.kind = "create" /\ r.id \notin unused
    BY <1>1, <1>2 DEF NothingKnown
  <2>2. PICK s \in net : s.kind = "create" /\ s.id = r.id /\ s.answer = None
    BY <1>2, <2>1 DEF Unborn
  <2> QED
    BY <2>1, <2>2 DEF OneCreate
<1> QED
  BY <1>1, <1>2

LEMMA Failing ==
  ASSUME LibraryInv, NEW r \in net, r.kind \in {"create", "details", "delete"}, net' = net \ {r},
         failed' = TRUE, saving' = FALSE, NoBudget,
         UNCHANGED <<pieces, rows, offered, load, saves, editor, request, open, asked, chosen, crossed, unused>>
  PROVE  LibraryInv'
<1> USE DEF LibraryInv
<1>1. \A p \in Pieces : Unborn(p) => rows'[p] = None /\ saves'[p] = NoSave /\ editor'.id # p
  BY DEF NothingKnown
<1>2. Numbered(net') /\ Carried' /\ OneCreate' /\ NothingKnown' /\ AloneOrCrossed'
  <2>1. crossed \subseteq crossed' /\ net' \subseteq net /\ load' \in {load, 0}
    OBVIOUS
  <2> QED
    BY <1>1, <2>1, Fewer
<1>3. TypeOK'
  <2>1. inputs' \in 0..MaxInputs /\ faults' \in 0..MaxFaults
    BY Budget
  <2>2. \A n \in {load', request'} \ {0} : \E s \in net' : s.n = n
    BY DEF TypeOK, Carried
  <2> QED
    BY <1>2, <2>1, <2>2 DEF TypeOK, Numbered
<1>4. ClosedPage' /\ FormShown' /\ RowsFollow'
  BY DEF ClosedPage, FormShown, RowsFollow
<1>5. SavesInOrder' /\ ChoiceIsKept'
  BY SavesKept, ChoiceKept
<1> QED
  BY <1>2, <1>3, <1>4, <1>5

LEMMA LoadSent ==
  ASSUME LibraryInv, NEW r \in net, r.kind \in {"create", "details", "delete"}, r.answer # None,
         net' = (net \ {r}) \cup Load, load' = IF open THEN Fresh ELSE load,
         crossed \subseteq crossed', crossed' \subseteq Pieces,
         \A p \in Pieces \ crossed' : Touching(p) \subseteq {r},
         EditorTypes(editor'), ~editor'.shown, editor'.id \in {editor.id, r.id},
         saving' = FALSE, NoBudget,
         UNCHANGED <<pieces, rows, offered, saves, request, failed, open, asked, chosen, unused>>
  PROVE  LibraryInv'
<1> USE DEF LibraryInv
<1>0. /\ inputs' \in 0..MaxInputs /\ faults' \in 0..MaxFaults
      /\ r.id \in Pieces /\ ~Unborn(r.id)
  BY Budget, NotUnborn
<1>1. \A p \in Pieces : Unborn(p) => rows'[p] = None /\ saves'[p] = NoSave /\ editor'.id # p
  BY <1>0 DEF NothingKnown
<1>2. ClosedPage' /\ FormShown'
  BY DEF ClosedPage, FormShown
<1>3. CASE ~open
  <2>1. net' = net \ {r} /\ load' = load
    BY <1>3 DEF Load
  <2>2. Numbered(net') /\ Carried' /\ OneCreate' /\ NothingKnown' /\ AloneOrCrossed'
    <3>1. net' \subseteq net /\ load' \in {load, 0}
      BY <2>1
    <3> QED
      BY <1>1, <3>1, Fewer
  <2>3. TypeOK'
    <3>1. \A n \in {load', request'} \ {0} : \E s \in net' : s.n = n
      BY <2>1 DEF TypeOK, Carried
    <3> QED
      BY <1>0, <2>2, <3>1 DEF TypeOK, Numbered, EditorTypes
  <2>4. SavesInOrder' /\ ChoiceIsKept'
    BY <2>1, SavesKept, ChoiceKept
  <2>5. RowsFollow'
    BY <1>3 DEF RowsFollow
  <2> QED
    BY <1>2, <2>2, <2>3, <2>4, <2>5
<1>4. CASE open
  <2> PICK q : q = Req("load", None, None)
    OBVIOUS
  <2>1. net' = (net \ {r}) \cup {q} /\ load' = Fresh
    BY <1>4 DEF Load
  <2>2. /\ Wellformed(q) /\ q.n = Fresh /\ q.kind = "load" /\ q.id = None /\ q.answer = None /\ q.more = None
        /\ Fresh \in Nat \ {0} /\ \A s \in net : s.n # Fresh
    BY NewLoad, FreshNumber
  <2>3. Numbered(net')
    <3> PICK gone : gone = {r}
      OBVIOUS
    <3>1. net' = (net \ gone) \cup {q}
      BY <2>1
    <3> QED
      BY <2>2, <3>1, NetGrows
  <2>4. request # Fresh
    BY <2>2 DEF TypeOK
  <2>5. TypeOK'
    <3>1. \A n \in {load', request'} \ {0} : \E s \in net' : s.n = n
      <4>1. request # 0 => \E s \in net' : s.n = request
        BY <2>1 DEF TypeOK, Carried
      <4> QED
        BY <2>1, <2>2, <4>1
    <3>2. load' \in Nat
      BY <2>1, <2>2
    <3> QED
      BY <1>0, <2>3, <3>1, <3>2 DEF TypeOK, Numbered, EditorTypes
  <2>6. Carried'
    BY <2>1, <2>2, <2>4 DEF Carried
  <2>7. OneCreate'
    BY <2>1, <2>2 DEF OneCreate
  <2>8. NothingKnown'
    <3>1. \A p \in Pieces : Unborn(p)' => Unborn(p)
      BY <2>1, <2>2 DEF Unborn
    <3> SUFFICES ASSUME NEW p \in Pieces, Unborn(p)
                 PROVE  \A s \in net' : /\ s.id = p => s.kind = "create" /\ p \notin unused
                                        /\ s.kind = "load" /\ Answered(s) => s.answer[p] = None
      BY <1>1, <3>1 DEF NothingKnown, NoSave, Answered
    <3> QED
      BY <2>1, <2>2, RowsAssumption DEF NothingKnown, Answered
  <2>9. \A p \in Pieces \ crossed' : Touching(p)' = {q}
    BY <2>1, <2>2 DEF Touching
  <2>10. AloneOrCrossed'
    BY <2>9 DEF AloneOrCrossed
  <2>11. SavesInOrder' /\ ChoiceIsKept'
    <3>1. \A s : s.kind \in {"status", "details"} /\ s \in net' => s \in net
      BY <2>1, <2>2
    <3>2. \A s : s.kind = "status" => (s \in net <=> s \in net')
      BY <2>1, <2>2
    <3> QED
      BY <3>1, <3>2, SavesKept, ChoiceKept
  <2>12. RowsFollow'
    <3>1. load' # 0 /\ \A s \in net' : s.n = load' => s = q
      BY <2>1, <2>2
    <3>2. \A p \in Pieces : RowIsServers(p)'
      BY <2>2, <3>1 DEF RowIsServers, Answered
    <3> QED
      BY <3>2 DEF RowsFollow
  <2> QED
    BY <1>2, <2>5, <2>6, <2>7, <2>8, <2>10, <2>11, <2>12
<1> QED
  BY <1>3, <1>4 DEF TypeOK

LEMMA DeleteAnsweredKeeps == ASSUME LibraryInv, NEW r \in net, DeleteAnswered(r) PROVE LibraryInv'
<1> USE DEF LibraryInv
<1>1. /\ r.kind = "delete" /\ r.answer # None /\ saving' = FALSE /\ NoBudget
      /\ UNCHANGED <<pieces, rows, offered, saves, request, open, asked, chosen, unused>>
  BY DEF DeleteAnswered
<1>2. CASE r.answer = Failed
  <2>1. failed' = TRUE /\ net' = net \ {r} /\ UNCHANGED <<editor, load, crossed>>
    BY <1>2 DEF DeleteAnswered, Done
  <2> QED
    BY <1>1, <2>1, Failing
<1>3. CASE r.answer # Failed
  <2>1. /\ editor' = [editor EXCEPT !.shown = FALSE] /\ failed' = failed
        /\ net' = (net \ {r}) \cup Load /\ load' = IF open THEN Fresh ELSE load
        /\ crossed' = {p \in Pieces : Touching(p) # {}} \cup crossed
    BY <1>3 DEF DeleteAnswered
  <2>2. EditorTypes(editor') /\ ~editor'.shown /\ editor'.id = editor.id
    BY <2>1 DEF TypeOK, EditorTypes
  <2>3. /\ crossed \subseteq crossed' /\ crossed' \subseteq Pieces
        /\ \A p \in Pieces \ crossed' : Touching(p) \subseteq {r}
    BY <2>1 DEF TypeOK
  <2> QED
    BY <1>1, <2>1, <2>2, <2>3, LoadSent
<1> QED
  BY <1>2, <1>3

LEMMA DetailsAnsweredKeeps == ASSUME LibraryInv, NEW r \in net, DetailsAnswered(r) PROVE LibraryInv'
<1> USE DEF LibraryInv
<1>1. /\ r.kind \in {"details", "create"} /\ r.answer # None /\ saving' = FALSE /\ NoBudget
      /\ UNCHANGED <<pieces, rows, offered, saves, request, open, asked, chosen, unused>>
  BY DEF DetailsAnswered
<1>2. CASE r.answer = Failed
  <2>1. failed' = TRUE /\ net' = net \ {r} /\ UNCHANGED <<editor, load, crossed>>
    BY <1>2 DEF DetailsAnswered, Done
  <2> QED
    BY <1>1, <2>1, Failing
<1>3. CASE r.answer # Failed
  <2>0. /\ r.id \in Pieces /\ ~Unborn(r.id) /\ r.answer \in Rows /\ r.then \in {"close", "import"}
    BY <1>1, <1>3, NotUnborn, RequestTypes
  <2>1. editor' = [editor EXCEPT !.id = r.id, !.piece = r.answer, !.shown = FALSE] /\ failed' = failed
    BY <1>3 DEF DetailsAnswered
  <2>2. EditorTypes(editor') /\ ~editor'.shown /\ editor'.id = r.id
    BY <2>0, <2>1 DEF TypeOK, EditorTypes
  <2>3. CASE r.then = "close"
    <3>1. /\ net' = (net \ {r}) \cup Load /\ load' = IF open THEN Fresh ELSE load
          /\ crossed' = {p \in Pieces : Touching(p) \ {r} # {}} \cup crossed
      BY <1>3, <2>3 DEF DetailsAnswered
    <3>2. /\ crossed \subseteq crossed' /\ crossed' \subseteq Pieces
          /\ \A p \in Pieces \ crossed' : Touching(p) \subseteq {r}
      BY <3>1 DEF TypeOK
    <3> QED
      BY <1>1, <2>1, <2>2, <3>1, <3>2, LoadSent
  <2>4. CASE r.then = "import"
    <3> PICK q : q = Req("import", r.id, None)
      OBVIOUS
    <3>1. net' = (net \ {r}) \cup {q} /\ load' = load /\ crossed' = crossed
      BY <1>3, <2>4 DEF DetailsAnswered
    <3>2. Wellformed(q) /\ q.n = Fresh /\ q.kind = "import" /\ q.id = r.id /\ q.answer = None
      BY <2>0, NewRequest DEF RowKinds, Patches
    <3>3. Numbered(net') /\ Carried' /\ OneCreate' /\ NothingKnown' /\ AloneOrCrossed'
      <4> PICK gone : gone = {r}
        OBVIOUS
      <4>1. /\ q.kind \in RowKinds \ {"create"} /\ q.kind \notin {"favorite", "status", "details", "open"}
            /\ net' = (net \ gone) \cup {q} /\ rows' = rows /\ crossed \subseteq crossed'
            /\ UNCHANGED <<pieces, unused, load>> /\ UNCHANGED <<request, asked>>
        BY <1>1, <3>1, <3>2 DEF RowKinds
      <4>2. \A p \in Pieces : Unborn(p) =>
               q.id # p /\ saves'[p] = NoSave /\ chosen'[p] = None /\ editor'.id # p
        BY <1>1, <2>0, <2>2, <3>2 DEF NothingKnown
      <4> HIDE DEF LibraryInv
      <4> QED
        BY <3>2, <4>1, <4>2, OneMore
    <3>4. TypeOK'
      <4>1. inputs' \in 0..MaxInputs /\ faults' \in 0..MaxFaults
        BY <1>1, Budget
      <4>2. \A n \in {load', request'} \ {0} : \E s \in net' : s.n = n
        BY <1>1, <3>1 DEF TypeOK, Carried
      <4> QED
        BY <1>1, <2>1, <2>2, <3>1, <3>3, <4>1, <4>2 DEF TypeOK, Numbered, EditorTypes
    <3>5. ClosedPage' /\ FormShown'
      BY <1>1, <2>2, <3>1 DEF ClosedPage, FormShown
    <3>6. SavesInOrder' /\ ChoiceIsKept'
      <4>1. \A s \in net' : s.kind \in {"status", "details"} => s \in net
        BY <3>1, <3>2
      <4>2. \A s : s.kind = "status" => (s \in net <=> s \in net')
        BY <1>1, <3>1, <3>2
      <4>3. crossed \subseteq crossed' /\ (failed => failed')
        BY <2>1, <3>1
      <4> QED
        BY <1>1, <4>1, <4>2, <4>3, SavesKept, ChoiceKept
    <3>7. RowsFollow'
      BY <3>1, <3>2 DEF RowsFollow
    <3> QED
      BY <3>3, <3>4, <3>5, <3>6, <3>7
  <2> QED
    BY <2>0, <2>3, <2>4
<1> QED
  BY <1>2, <1>3

(***************************************************************************)
(* Status saves.                                                           *)
(***************************************************************************)

LEMMA Least == ASSUME NEW T \in SUBSET Nat, T # {} PROVE \E x \in T : \A y \in T : x <= y
<1> DEFINE R == OpToRel(<, Nat)
<1>1. IsWellFoundedOn(R, Nat)
  BY NatLessThanWellFounded
<1>2. \A a, b \in Nat : a < b => <<a, b>> \in R
  BY DEF OpToRel
<1> HIDE DEF R
<1>3. PICK x \in T : \A y \in T : ~ (<<y, x>> \in R)
  BY <1>1, WFMin
<1>4. \A a \in Nat : \A b \in Nat : ~(a < b) => b <= a
  OBVIOUS
<1>5. T \subseteq Nat
  OBVIOUS
<1> QED
  BY <1>2, <1>3, <1>4, <1>5

\* What a part of a queue, and the rest of it, hold.
LEMMA RestOfQueue ==
  ASSUME NEW S, NEW queue \in Seq(S), NEW first \in Nat, NEW long \in Nat, long = Len(queue),
         1 <= first, first <= long, NEW due, due = SubSeq(queue, first, long)
  PROVE  /\ due \in Seq(S) /\ Len(due) = long - first + 1
         /\ \A i \in 1..(long - first + 1) : due[i] = queue[first + i - 1]
<1>1. \A i \in first..long : queue[i] \in S
  OBVIOUS
<1>2. first \in Int /\ long \in Int
  OBVIOUS
<1>3. /\ SubSeq(queue, first, long) \in Seq(S) /\ Len(SubSeq(queue, first, long)) = long - first + 1
      /\ \A i \in 1..(long - first + 1) : SubSeq(queue, first, long)[i] = queue[first + i - 1]
  BY <1>1, <1>2, SubSeqProperties
<1> QED
  BY <1>3

LEMMA HeadAndTail ==
  ASSUME NEW S, NEW due \in Seq(S), NEW size \in Nat, size = Len(due), size >= 1
  PROVE  /\ due # <<>> /\ Head(due) = due[1] /\ Tail(due) \in Seq(S) /\ Len(Tail(due)) = size - 1
         /\ \A i \in 1..(size - 1) : Tail(due)[i] = due[i + 1]
<1>1. due # <<>>
  BY EmptySeq
<1> QED
  BY <1>1, HeadTailProperties

Pendings == [latest : Statuses, saved : Rows, queue : Seq(Statuses)]

\* What is left of a queue begins with its latest choice, and nothing is left only of none.
LEMMA DueFacts ==
  ASSUME NEW pending \in Pendings, NEW due, due = StillDue(pending),
         pending.queue # <<>> => pending.latest = pending.queue[Len(pending.queue)]
  PROVE  /\ due = <<>> => pending.queue = <<>>
         /\ due # <<>> =>
              /\ Head(due) = pending.latest /\ Tail(due) \in Seq(Statuses)
              /\ Tail(due) # <<>> => Tail(due)[Len(Tail(due))] = pending.latest
<1> PICK queue \in Seq(Statuses) : queue = pending.queue
  BY DEF Pendings
<1>0. DOMAIN queue = 1..Len(queue) /\ Len(queue) \in Nat /\ pending.latest \in Statuses
  BY DEF Pendings
<1>1. CASE queue = <<>>
  <2>1. Due(pending) = {}
    BY <1>1, EmptySeq DEF Due
  <2>2. due = <<>>
    BY <2>1 DEF StillDue
  <2> QED
    BY <1>1, <2>2
<1>2. CASE queue # <<>>
  <2>1. Len(queue) \in Due(pending) /\ Due(pending) \in SUBSET Nat
    <3>1. Len(queue) # 0
      BY <1>2, EmptySeq
    <3>2. Len(queue) \in DOMAIN queue
      BY <1>0, <3>1
    <3> QED
      BY <1>0, <1>2, <3>2 DEF Due
  <2>b. PICK first : first = CHOOSE i \in Due(pending) : \A j \in Due(pending) : i <= j
    OBVIOUS
  <2>2. first \in Due(pending)
    <3>1. \E i \in Due(pending) : \A j \in Due(pending) : i <= j
      BY <2>1, Least
    <3> QED
      BY <2>b, <3>1
  <2>3. due = SubSeq(queue, first, Len(queue))
    BY <2>1, <2>b DEF StillDue
  <2>4. first \in 1..Len(queue) /\ queue[first] = pending.latest
    BY <1>0, <2>2 DEF Due
  <2> HIDE DEF Due
  <2>c. PICK long : long = Len(queue)
    OBVIOUS
  <2>a. long \in Nat /\ first \in Nat /\ 1 <= first /\ first <= long
    BY <1>0, <2>4, <2>c
  <2>d. long - first + 1 \in Nat
    BY <2>a
  <2>e. PICK size \in Nat : size = long - first + 1
    BY <2>d
  <2>5. /\ due \in Seq(Statuses) /\ Len(due) = size
        /\ \A i \in 1..size : due[i] = queue[first + i - 1]
    BY <2>3, <2>a, <2>c, <2>e, RestOfQueue
  <2>6. size >= 1 /\ due[1] = queue[first] /\ due[size] = queue[long]
    <3>1. size >= 1 /\ first + size - 1 = long /\ first + 1 - 1 = first
      BY <2>a, <2>e
    <3>2. due[1] = queue[first + 1 - 1] /\ due[size] = queue[first + size - 1]
      BY <2>5, <3>1
    <3> QED
      BY <3>1, <3>2
  <2>7. /\ due # <<>> /\ Head(due) = due[1] /\ Tail(due) \in Seq(Statuses) /\ Len(Tail(due)) = size - 1
        /\ \A i \in 1..(size - 1) : Tail(due)[i] = due[i + 1]
    BY <2>5, <2>6, HeadAndTail
  <2>8. ASSUME Tail(due) # <<>> PROVE Tail(due)[Len(Tail(due))] = pending.latest
    <3>1. size - 1 # 0
      BY <2>7, <2>8, EmptySeq
    <3>2. size - 1 \in 1..(size - 1) /\ (size - 1) + 1 = size
      BY <2>6, <3>1
    <3>3. Tail(due)[size - 1] = due[size]
      BY <2>7, <3>2
    <3> QED
      BY <1>2, <2>6, <2>7, <2>c, <3>3
  <2> QED
    BY <2>4, <2>6, <2>7, <2>8
<1> QED
  BY <1>1, <1>2

LEMMA ChosenKeeps ==
  ASSUME LibraryInv, NEW p \in Pieces, NEW status \in Statuses, ChangeStatus(p, status)
  PROVE  LibraryInv'
<1> USE DEF LibraryInv
<1>1. PICK row \in Copies(p) :
         /\ ReplaceRow(p, [row EXCEPT !.status = status])
         /\ IF saves[p] = NoSave
            THEN /\ saves' = [saves EXCEPT ![p] = FirstSave(row, status)]
                 /\ Send(Req("status", p, [status |-> status]))
            ELSE /\ saves' = [saves EXCEPT ![p].latest = status, ![p].queue = Append(@, status)]
                 /\ UNCHANGED net
  BY DEF ChangeStatus
<1>2. /\ chosen' = [chosen EXCEPT ![p] = status]
      /\ crossed' = IF saves[p] = NoSave THEN Crossing(p) ELSE crossed
      /\ UNCHANGED <<pieces, load, editor, request, saving, failed, open, asked, unused>>
      /\ inputs' \in 0..MaxInputs /\ faults' \in 0..MaxFaults
  BY Budget DEF ChangeStatus
<1>3. ~Unborn(p) /\ row \in Rows /\ [row EXCEPT !.status = status] \in Rows /\ status # None
  <2>1. ~Unborn(p) /\ row \in Rows
    BY <1>1, KnownRow
  <2> QED
    BY <2>1, RowsAssumption DEF Rows
<1>4. /\ rows' \in Lists /\ offered' \in Rows \cup {None}
      /\ \A x \in Pieces \ {p} : rows'[x] = rows[x] /\ (x = Continued => offered' = offered)
      /\ (rows'[p] = None <=> rows[p] = None) /\ (p = Continued /\ offered = None => offered' = None)
  BY <1>1, <1>3, Replaced, RowsAssumption
<1>5. /\ saves[p] # NoSave => saves[p] \in [latest : Statuses, saved : Rows, queue : Seq(Statuses)]
      /\ DOMAIN saves = Pieces
  BY DEF TypeOK
<1>6. PICK pending : pending = saves'[p]
  OBVIOUS
<1>7. /\ pending \in [latest : Statuses, saved : Rows, queue : Seq(Statuses)]
      /\ pending.latest = status
      /\ saves[p] = NoSave => pending.queue = <<>>
      /\ saves[p] # NoSave => pending.queue # <<>> /\ pending.queue[Len(pending.queue)] = status
  <2>1. CASE saves[p] = NoSave
    <3>1. pending = [latest |-> status, saved |-> row, queue |-> <<>>]
      BY <1>1, <1>5, <1>6, <2>1 DEF FirstSave
    <3> QED
      BY <1>3, <2>1, <3>1
  <2>2. CASE saves[p] # NoSave
    <3> PICK old \in [latest : Statuses, saved : Rows, queue : Seq(Statuses)] : old = saves[p]
      BY <1>5, <2>2
    <3>1. pending = [latest |-> status, saved |-> old.saved, queue |-> Append(old.queue, status)]
      BY <1>1, <1>5, <1>6, <2>2
    <3>2. /\ Append(old.queue, status) \in Seq(Statuses) /\ Append(old.queue, status) # <<>>
          /\ Len(Append(old.queue, status)) = Len(old.queue) + 1
          /\ Append(old.queue, status)[Len(old.queue) + 1] = status
      BY AppendProperties
    <3> QED
      BY <2>2, <3>1, <3>2
  <2> QED
    BY <2>1, <2>2
<1>8. pending # NoSave /\ saves' \in [Pieces -> [latest : Statuses, saved : Rows, queue : Seq(Statuses)] \cup {NoSave}]
      /\ \A x \in Pieces \ {p} : saves'[x] = saves[x] /\ chosen'[x] = chosen[x]
  <2>1. pending # NoSave
    BY <1>3, <1>7 DEF NoSave
  <2>2. CASE saves[p] = NoSave
    <3>1. saves' = [saves EXCEPT ![p] = pending]
      BY <1>1, <1>5, <1>6, <2>2
    <3> QED
      BY <1>2, <1>7, <2>1, <3>1 DEF TypeOK
  <2>3. CASE saves[p] # NoSave
    <3>1. saves' = [saves EXCEPT ![p] = pending]
      BY <1>1, <1>5, <1>6, <2>3
    <3> QED
      BY <1>2, <1>7, <2>1, <3>1 DEF TypeOK
  <2> QED
    BY <2>2, <2>3
<1>9. /\ chosen' \in [Pieces -> Statuses \cup {None}] /\ chosen'[p] = status
      /\ crossed \subseteq crossed' /\ crossed' \subseteq Pieces
  BY <1>2 DEF TypeOK, Crossing
<1>10. \A x \in Pieces : Unborn(x) =>
          x # p /\ rows'[x] = None /\ saves'[x] = NoSave /\ chosen'[x] = None /\ editor'.id # x
  BY <1>2, <1>3, <1>4, <1>8 DEF NothingKnown
<1>11. ClosedPage' /\ FormShown'
  BY <1>2 DEF ClosedPage, FormShown
<1> DEFINE Choice(x, set) ==
      /\ saves'[x] # NoSave => chosen'[x] = saves'[x].latest
      /\ chosen'[x] # None => \A r \in set : r.kind = "details" => r.id # x
      /\ chosen'[x] # None /\ pieces[x] # None /\ ~failed =>
           IF saves'[x] = NoSave THEN pieces[x].status = chosen'[x]
           ELSE \A r \in set : r.kind = "status" /\ r.id = x /\ Answered(r)
                                 => pieces[x].status = r.patch.status
<1>12. (\A x \in Pieces \ crossed' : Choice(x, net')) => ChoiceIsKept'
  BY <1>2 DEF ChoiceIsKept, Answered, NoSave
<1>a. CASE saves[p] = NoSave
  <2> PICK patch : patch = [status |-> status]
    OBVIOUS
  <2> PICK q : q = Req("status", p, patch)
    OBVIOUS
  <2>1. net' = net \cup {q} /\ patch \in [status : Statuses] /\ patch.status = status
    BY <1>1, <1>a DEF Send
  <2>2. /\ Wellformed(q) /\ q.n = Fresh /\ q.kind = "status" /\ q.id = p /\ q.patch = patch
        /\ q.answer = None
    BY <2>1, NewRequest DEF Patches, RowKinds
  <2>3. /\ crossed' = Crossing(p)
        /\ p \notin crossed' => Touching(p) = {}
        /\ \A s \in net : s.kind = "status" => s.id # p
    BY <1>2, <1>a DEF Crossing, SavesInOrder
  <2>4. Numbered(net') /\ Carried' /\ OneCreate' /\ NothingKnown' /\ AloneOrCrossed'
    <3> PICK gone : gone = {}
      OBVIOUS
    <3>1. /\ q.kind \in RowKinds \ {"create"} /\ q.kind \notin {"favorite", "details", "open"}
          /\ net' = (net \ gone) \cup {q} /\ crossed \subseteq crossed'
          /\ UNCHANGED <<pieces, unused, load>> /\ UNCHANGED <<request, asked>>
          /\ q.patch \in [status : Statuses]
      BY <1>2, <1>9, <2>1, <2>2 DEF RowKinds
    <3>2. \A x \in Pieces : Unborn(x) =>
             q.id # x /\ saves'[x] = NoSave /\ chosen'[x] = None /\ editor'.id # x
      BY <1>10, <2>2
    <3>3. Touching(q.id) \ gone # {} => q.id \in crossed'
      BY <2>2, <2>3
    <3>4. \A x \in Pieces : Unborn(x) => rows'[x] = None
      BY <1>10
    <3> HIDE DEF LibraryInv
    <3> QED
      BY ZenonT(60), <2>2, <3>1, <3>2, <3>3, <3>4, OneMore
  <2>5. TypeOK'
    <3>1. \A n \in {load', request'} \ {0} : \E s \in net' : s.n = n
      BY <1>2, <2>1 DEF TypeOK
    <3> QED
      BY <1>2, <1>4, <1>8, <1>9, <2>4, <3>1 DEF TypeOK, Numbered
  <2>6. SavesInOrder'
    <3>1. \A s \in net', t \in net' : s.kind = "status" /\ t.kind = "status" /\ s.id = t.id => s = t
      BY <2>1, <2>2, <2>3 DEF SavesInOrder
    <3>2. ASSUME NEW s \in net', s.kind = "status"
          PROVE  /\ saves'[s.id] # NoSave
                 /\ saves'[s.id].latest = IF saves'[s.id].queue = <<>> THEN s.patch.status
                                          ELSE saves'[s.id].queue[Len(saves'[s.id].queue)]
      <4>1. CASE s = q
        BY <1>6, <1>7, <1>8, <1>a, <2>1, <2>2, <4>1
      <4>2. CASE s # q
        <5>1. s \in net /\ s.id # p /\ s.id \in Pieces
          BY <2>1, <2>3, <3>2, <4>2, RequestTypes
        <5>2. saves'[s.id] = saves[s.id]
          BY <1>8, <5>1
        <5> QED
          BY <3>2, <5>1, <5>2 DEF SavesInOrder
      <4> QED
        BY <4>1, <4>2
    <3>3. \A x \in Pieces : saves'[x] # NoSave => \E s \in net' : s.kind = "status" /\ s.id = x
      BY <1>8, <2>1, <2>2 DEF SavesInOrder
    <3> QED
      BY <3>1, <3>2, <3>3 DEF SavesInOrder, NoSave
  <2>7. ChoiceIsKept'
    <3> SUFFICES ASSUME NEW x \in Pieces, x \notin crossed' PROVE Choice(x, net')
      BY <1>12
    <3>1. CASE x = p
      <4>1. \A s \in net' : s.kind = "details" => s.id # p
        BY <2>1, <2>2, <2>3, <3>1 DEF Touching
      <4>2. \A s \in net' : s.kind = "status" /\ s.id = p => ~Answered(s)
        BY <2>1, <2>2, <2>3 DEF Answered
      <4> QED
        BY <1>6, <1>7, <1>8, <1>9, <3>1, <4>1, <4>2
    <3>2. CASE x # p
      <4>1. x \notin crossed /\ saves'[x] = saves[x] /\ chosen'[x] = chosen[x]
        BY <1>8, <1>9, <3>2
      <4> QED
        BY <2>1, <2>2, <3>2, <4>1 DEF ChoiceIsKept
    <3> QED
      BY <3>1, <3>2
  <2>8. RowsFollow'
    <3> SUFFICES ASSUME open, ~failed, ~(\E s \in net' : s.kind = "import"),
                        NEW x \in Pieces, x \notin crossed', ~Changing(x)'
                 PROVE  RowIsServers(x)'
      BY <1>2 DEF RowsFollow
    <3>1. RowIsServers(x)
      BY <1>9, <2>1, <2>2 DEF RowsFollow, Changing
    <3>2. CASE x = p
      <4>1. Touching(p) = {} /\ load = 0
        <5>1. Touching(p) = {}
          BY <2>3, <3>2
        <5> QED
          BY <5>1 DEF TypeOK, Touching, Carried
      <4>2. Touching(p)' = {q}
        BY <1>2, <2>1, <2>2, <4>1 DEF Touching
      <4> QED
        BY <1>2, <1>4, <2>2, <3>1, <3>2, <4>1, <4>2 DEF RowIsServers, Answered
    <3>3. CASE x # p
      <4>1. Touching(x)' = Touching(x)
        BY <1>2, <2>1, <2>2, <3>3 DEF Touching
      <4> QED
        BY <1>2, <1>4, <2>4, <3>1, <3>3, <4>1, RowStays
    <3> QED
      BY <3>2, <3>3
  <2> QED
    BY <1>11, <2>4, <2>5, <2>6, <2>7, <2>8
<1>b. CASE saves[p] # NoSave
  <2>1. net' = net /\ crossed' = crossed
    BY <1>1, <1>2, <1>b
  <2>2. Numbered(net') /\ Carried' /\ OneCreate' /\ AloneOrCrossed'
    <3>1. Numbered(net')
      BY <2>1, NetShrinks
    <3> QED
      BY <1>2, <2>1, <3>1 DEF Carried, OneCreate, AloneOrCrossed, Touching
  <2>3. NothingKnown'
    BY <1>2, <1>10, <2>1 DEF NothingKnown, Unborn, Answered, NoSave
  <2>4. TypeOK'
    BY <1>2, <1>4, <1>8, <1>9, <2>1 DEF TypeOK
  <2>5. PICK r \in net : r.kind = "status" /\ r.id = p
    BY <1>b DEF SavesInOrder
  <2>6. r \in Touching(p) /\ (p \notin crossed => \A s \in Touching(p) : s = r)
    BY <2>5 DEF Touching, AloneOrCrossed
  <2>7. SavesInOrder'
    <3>1. \A s \in net', t \in net' : s.kind = "status" /\ t.kind = "status" /\ s.id = t.id => s = t
      BY <2>1 DEF SavesInOrder
    <3>2. ASSUME NEW s \in net', s.kind = "status"
          PROVE  /\ saves'[s.id] # NoSave
                 /\ saves'[s.id].latest = IF saves'[s.id].queue = <<>> THEN s.patch.status
                                          ELSE saves'[s.id].queue[Len(saves'[s.id].queue)]
      <4>1. CASE s.id = p
        BY <1>6, <1>7, <1>8, <1>b, <4>1
      <4>2. CASE s.id # p
        <5>1. saves'[s.id] = saves[s.id]
          BY <1>8, <2>1, <3>2, <4>2, RequestTypes
        <5> QED
          BY <2>1, <3>2, <5>1 DEF SavesInOrder
      <4> QED
        BY <4>1, <4>2
    <3>3. \A x \in Pieces : saves'[x] # NoSave => \E s \in net' : s.kind = "status" /\ s.id = x
      BY <1>8, <2>1, <2>5 DEF SavesInOrder
    <3> QED
      BY <3>1, <3>2, <3>3 DEF SavesInOrder, NoSave
  <2>8. ChoiceIsKept'
    <3> SUFFICES ASSUME NEW x \in Pieces, x \notin crossed' PROVE Choice(x, net')
      BY <1>12
    <3>1. CASE x = p
      <4>1. \A s \in net' : s.kind = "details" => s.id # p
        BY <2>1, <2>5, <2>6, <3>1 DEF Touching
      <4>2. chosen[p] # None
        BY <1>5, <1>b, <2>1, <3>1, RowsAssumption DEF ChoiceIsKept
      <4>3. pieces[p] # None /\ ~failed => \A s \in net' : s.kind = "status" /\ s.id = p /\ Answered(s)
                                                            => pieces[p].status = s.patch.status
        BY <1>b, <2>1, <3>1, <4>2 DEF ChoiceIsKept
      <4> QED
        BY <1>6, <1>7, <1>8, <1>9, <3>1, <4>1, <4>3
    <3>2. CASE x # p
      <4>1. x \notin crossed /\ saves'[x] = saves[x] /\ chosen'[x] = chosen[x]
        BY <1>8, <1>9, <3>2
      <4> QED
        BY <2>1, <3>2, <4>1 DEF ChoiceIsKept
    <3> QED
      BY <3>1, <3>2
  <2>9. RowsFollow'
    <3> SUFFICES ASSUME open, ~failed, ~(\E s \in net : s.kind = "import"),
                        NEW x \in Pieces, x \notin crossed, ~Changing(x)'
                 PROVE  RowIsServers(x)'
      BY <1>2, <2>1 DEF RowsFollow
    <3>1. RowIsServers(x) /\ Touching(x)' = Touching(x)
      BY <1>2, <2>1 DEF RowsFollow, Changing, Touching
    <3>2. CASE x = p
      <4>1. load = 0 /\ Touching(p) # {}
        BY <2>5, <2>6, <3>2 DEF TypeOK, Touching, Carried
      <4> QED
        BY <1>2, <1>4, <3>1, <3>2, <4>1 DEF RowIsServers, Answered
    <3>3. CASE x # p
      BY <1>2, <1>4, <2>2, <3>1, <3>3, RowStays
    <3> QED
      BY <3>2, <3>3
  <2> QED
    BY <1>11, <2>2, <2>3, <2>4, <2>7, <2>8, <2>9
<1> QED
  BY <1>a, <1>b

LEMMA StatusAnsweredKeeps == ASSUME LibraryInv, NEW r \in net, StatusAnswered(r) PROVE LibraryInv'
<1> USE DEF LibraryInv
<1> PICK p : p = r.id
  OBVIOUS
<1> PICK pending : pending = saves[p]
  OBVIOUS
<1> PICK due : due = StillDue(pending)
  OBVIOUS
<1> PICK row : row = Saved(r)
  OBVIOUS
<1>1. /\ r.kind = "status" /\ r.answer # None
      /\ UNCHANGED <<pieces, load, editor, request, saving, open, asked, chosen, crossed, unused>>
      /\ IF pending.latest = r.patch.status THEN ReplaceRow(p, row) ELSE UNCHANGED <<rows, offered>>
      /\ failed' = (failed \/ (pending.latest = r.patch.status /\ r.answer = Failed))
      /\ inputs' \in 0..MaxInputs /\ faults' \in 0..MaxFaults
  BY Budget DEF StatusAnswered
<1>2. \/ due = <<>> /\ saves' = [saves EXCEPT ![p] = NoSave] /\ net' = net \ {r}
      \/ /\ due # <<>>
         /\ saves' = [saves EXCEPT ![p].saved = row, ![p].queue = Tail(due)]
         /\ net' = (net \ {r}) \cup {Req("status", p, [status |-> Head(due)])}
  BY DEF StatusAnswered, Done
<1>3. p \in Pieces /\ ~Unborn(p) /\ r.answer \in Rows \cup {Failed}
  <2>1. p \in Pieces /\ r.answer \in Rows \cup {Failed}
    BY <1>1, RequestTypes
  <2> QED
    BY <1>1, <2>1 DEF NothingKnown
<1>4. /\ pending # NoSave /\ pending \in Pendings
      /\ pending.latest = IF pending.queue = <<>> THEN r.patch.status
                          ELSE pending.queue[Len(pending.queue)]
      /\ \A s \in net : s.kind = "status" /\ s.id = p => s = r
  BY <1>1, <1>3 DEF SavesInOrder, TypeOK, Pendings
<1>5. row \in Rows /\ (r.answer # Failed => row = r.answer)
  BY <1>3, <1>4 DEF Saved, Pendings
<1>6. /\ due = <<>> => pending.queue = <<>> /\ pending.latest = r.patch.status
      /\ due # <<>> =>
           /\ Head(due) = pending.latest /\ Tail(due) \in Seq(Statuses)
           /\ Tail(due) # <<>> => Tail(due)[Len(Tail(due))] = pending.latest
      /\ pending.latest \in Statuses
  <2>1. pending.queue # <<>> => pending.latest = pending.queue[Len(pending.queue)]
    BY <1>4
  <2>2. /\ due = <<>> => pending.queue = <<>>
        /\ due # <<>> =>
             /\ Head(due) = pending.latest /\ Tail(due) \in Seq(Statuses)
             /\ Tail(due) # <<>> => Tail(due)[Len(Tail(due))] = pending.latest
    BY <1>4, <2>1, DueFacts
  <2> QED
    BY <1>4, <2>2 DEF Pendings
<1>7. /\ rows' \in Lists /\ offered' \in Rows \cup {None} /\ failed' \in BOOLEAN
      /\ \A x \in Pieces \ {p} : rows'[x] = rows[x] /\ (x = Continued => offered' = offered)
      /\ (rows'[p] = None <=> rows[p] = None) /\ (p = Continued /\ offered = None => offered' = None)
  <2>1. CASE pending.latest = r.patch.status
    <3>1. ReplaceRow(p, row) /\ row # None
      BY <1>1, <1>5, <2>1, RowsAssumption
    <3>2. failed' \in BOOLEAN
      BY <1>1
    <3> QED
      BY <1>3, <1>5, <3>1, <3>2, Replaced
  <2>2. CASE pending.latest # r.patch.status
    BY <1>1, <2>2 DEF TypeOK
  <2> QED
    BY <2>1, <2>2
<1>8. /\ saves' \in [Pieces -> [latest : Statuses, saved : Rows, queue : Seq(Statuses)] \cup {NoSave}]
      /\ \A x \in Pieces \ {p} : saves'[x] = saves[x]
      /\ due = <<>> => saves'[p] = NoSave
      /\ due # <<>> => /\ saves'[p] \in Pendings /\ saves'[p].latest = pending.latest
                       /\ saves'[p].queue = Tail(due)
  <2>1. CASE due = <<>>
    BY <1>2, <1>3, <2>1 DEF TypeOK
  <2>2. CASE due # <<>>
    <3> PICK new : new = [latest |-> pending.latest, saved |-> row, queue |-> Tail(due)]
      OBVIOUS
    <3>1. new \in Pendings /\ new.latest = pending.latest /\ new.queue = Tail(due)
      BY <1>5, <1>6, <2>2 DEF Pendings
    <3>2. saves' = [saves EXCEPT ![p] = new]
      <4> PICK old \in [latest : Statuses, saved : Rows, queue : Seq(Statuses)] : old = saves[p]
        BY <1>4 DEF Pendings
      <4>0. DOMAIN saves = Pieces /\ pending = old
        BY DEF TypeOK
      <4>1. saves'[p] = [latest |-> old.latest, saved |-> row, queue |-> Tail(due)]
        <5> HIDE DEF LibraryInv
        <5> QED
          BY <1>2, <1>3, <2>2, <4>0
      <4>2. saves' = [saves EXCEPT ![p] = saves'[p]]
        BY <1>2, <1>3, <2>2 DEF TypeOK
      <4> QED
        BY <4>0, <4>1, <4>2
    <3> QED
      BY <1>3, <2>2, <3>1, <3>2 DEF TypeOK, Pendings
  <2> QED
    BY <2>1, <2>2
<1>9. due # <<>> => saves'[p] # NoSave
  BY <1>6, <1>8, RowsAssumption DEF NoSave
<1>10. \A x \in Pieces : Unborn(x) =>
          x # p /\ rows'[x] = None /\ saves'[x] = NoSave /\ chosen'[x] = None /\ editor'.id # x
  BY <1>1, <1>3, <1>7, <1>8 DEF NothingKnown
<1>11. ClosedPage' /\ FormShown'
  BY <1>1 DEF ClosedPage, FormShown
<1>12. p \notin crossed => /\ \A s \in Touching(p) : s = r
                           /\ r \in Touching(p) /\ load = 0
  <2> SUFFICES ASSUME p \notin crossed
               PROVE  (\A s \in Touching(p) : s = r) /\ r \in Touching(p) /\ load = 0
    OBVIOUS
  <2>1. r \in Touching(p) /\ \A s \in Touching(p) : s = r
    BY <1>1, <1>3 DEF Touching, AloneOrCrossed
  <2> QED
    BY <1>1, <2>1 DEF TypeOK, Touching, Carried
\* The answer of an alone, latest save is what the server holds.
<1>13. p \notin crossed /\ ~failed' /\ due = <<>> =>
          /\ Answered(r) /\ ~failed /\ row = r.answer
          /\ pieces[p] # None /\ chosen[p] # None => pieces[p].status = chosen[p]
  <2> SUFFICES ASSUME p \notin crossed, ~failed', due = <<>>
               PROVE  /\ Answered(r) /\ ~failed /\ row = r.answer
                      /\ pieces[p] # None /\ chosen[p] # None => pieces[p].status = chosen[p]
    OBVIOUS
  <2>1. r.answer # Failed /\ ~failed
    BY <1>1, <1>6
  <2>2. Answered(r) /\ row = r.answer
    BY <1>1, <1>5, <2>1 DEF Answered
  <2>3. chosen[p] = r.patch.status
    BY <1>3, <1>4, <1>6 DEF ChoiceIsKept
  <2>4. pieces[p] # None /\ chosen[p] # None => pieces[p].status = r.patch.status
    BY <1>1, <1>3, <1>4, <2>1, <2>2 DEF ChoiceIsKept
  <2> QED
    BY <2>1, <2>2, <2>3, <2>4
<1> DEFINE Choice(x, set) ==
      /\ saves'[x] # NoSave => chosen'[x] = saves'[x].latest
      /\ chosen'[x] # None => \A s \in set : s.kind = "details" => s.id # x
      /\ chosen'[x] # None /\ pieces[x] # None /\ ~failed' =>
           IF saves'[x] = NoSave THEN pieces[x].status = chosen'[x]
           ELSE \A s \in set : s.kind = "status" /\ s.id = x /\ Answered(s)
                                 => pieces[x].status = s.patch.status
<1>14. (\A x \in Pieces \ crossed : Choice(x, net')) => ChoiceIsKept'
  BY <1>1 DEF ChoiceIsKept, Answered, NoSave
<1>15. ~failed' => ~failed
  BY <1>1
<1>a. CASE due = <<>>
  <2>1. net' = net \ {r} /\ r \notin net'
    BY <1>2, <1>a
  <2>2. Numbered(net') /\ Carried' /\ OneCreate' /\ NothingKnown' /\ AloneOrCrossed'
    <3>1. crossed \subseteq crossed' /\ net' \subseteq net /\ load' \in {load, 0}
      BY <1>1, <2>1
    <3> QED
      BY <1>1, <1>10, <3>1, Fewer
  <2>3. TypeOK'
    <3>1. \A n \in {load', request'} \ {0} : \E s \in net' : s.n = n
      BY <1>1, <2>1 DEF TypeOK, Carried
    <3> QED
      BY <1>1, <1>7, <1>8, <2>2, <3>1 DEF TypeOK, Numbered
  <2>4. SavesInOrder'
    <3>1. \A s \in net', t \in net' : s.kind = "status" /\ t.kind = "status" /\ s.id = t.id => s = t
      BY <2>1 DEF SavesInOrder
    <3>2. ASSUME NEW s \in net', s.kind = "status"
          PROVE  /\ saves'[s.id] # NoSave
                 /\ saves'[s.id].latest = IF saves'[s.id].queue = <<>> THEN s.patch.status
                                          ELSE saves'[s.id].queue[Len(saves'[s.id].queue)]
      <4>1. s \in net /\ s.id # p /\ s.id \in Pieces
        BY <1>4, <2>1, <3>2, RequestTypes
      <4>2. saves'[s.id] = saves[s.id]
        BY <1>8, <4>1
      <4> QED
        BY <3>2, <4>1, <4>2 DEF SavesInOrder
    <3>3. \A x \in Pieces : saves'[x] # NoSave => \E s \in net' : s.kind = "status" /\ s.id = x
      BY <1>8, <1>a, <2>1 DEF SavesInOrder
    <3> QED
      BY <3>1, <3>2, <3>3 DEF SavesInOrder, NoSave
  <2>5. ChoiceIsKept'
    <3> SUFFICES ASSUME NEW x \in Pieces, x \notin crossed PROVE Choice(x, net')
      BY <1>14
    <3>1. CASE x = p
      BY <1>1, <1>8, <1>13, <1>a, <2>1, <3>1 DEF ChoiceIsKept
    <3>2. CASE x # p
      <4>1. saves'[x] = saves[x] /\ chosen'[x] = chosen[x]
        BY <1>1, <1>8, <3>2
      <4> QED
        BY <1>15, <2>1, <3>2, <4>1 DEF ChoiceIsKept
    <3> QED
      BY <3>1, <3>2
  <2>6. RowsFollow'
    <3> SUFFICES ASSUME open, ~failed', ~(\E s \in net' : s.kind = "import"),
                        NEW x \in Pieces, x \notin crossed, ~Changing(x)'
                 PROVE  RowIsServers(x)'
      BY <1>1 DEF RowsFollow
    <3>1. RowIsServers(x)
      BY <1>1, <1>15, <2>1 DEF RowsFollow, Changing
    <3>2. CASE x = p
      <4>1. Touching(p)' = {}
        BY <1>1, <1>12, <2>1, <3>2 DEF Touching
      <4>2. r.answer = pieces[p] /\ rows[p] # None /\ row = pieces[p] /\ load = 0
        BY <1>3, <1>5, <1>12, <1>13, <1>a, <3>1, <3>2, RowsAssumption DEF RowIsServers, Answered
      <4>3. rows'[p] = pieces[p] /\ (p = Continued => offered' \in {None, pieces[p]})
        <5>1. ReplaceRow(p, row)
          BY <1>1, <1>6, <1>a
        <5> QED
          BY <1>3, <1>5, <4>2, <5>1, Replaced
      <4> QED
        BY <1>1, <1>5, <3>2, <4>1, <4>2, <4>3, RowsAssumption DEF RowIsServers
    <3>3. CASE x # p
      <4>1. Touching(x)' = Touching(x)
        BY <1>1, <2>1, <3>3 DEF Touching
      <4> QED
        BY <1>1, <1>7, <2>2, <3>1, <3>3, <4>1, RowStays
    <3> QED
      BY <3>2, <3>3
  <2> QED
    BY <1>11, <2>2, <2>3, <2>4, <2>5, <2>6
<1>b. CASE due # <<>>
  <2> PICK patch : patch = [status |-> Head(due)]
    OBVIOUS
  <2> PICK q : q = Req("status", p, patch)
    OBVIOUS
  <2>1. net' = (net \ {r}) \cup {q}
    BY <1>2, <1>b
  <2>2. patch \in [status : Statuses] /\ patch.status = pending.latest
    BY <1>6, <1>b
  <2>3. /\ Wellformed(q) /\ q.n = Fresh /\ q.kind = "status" /\ q.id = p /\ q.patch = patch
        /\ q.answer = None /\ q # r
    BY <1>1, <1>3, <2>2, NewRequest DEF Patches, RowKinds
  <2>4. Numbered(net') /\ Carried' /\ OneCreate' /\ NothingKnown' /\ AloneOrCrossed'
    <3> PICK gone : gone = {r}
      OBVIOUS
    <3>1. /\ q.kind \in RowKinds \ {"create"} /\ q.kind \notin {"favorite", "details", "open"}
          /\ net' = (net \ gone) \cup {q} /\ crossed \subseteq crossed'
          /\ UNCHANGED <<pieces, unused, load>> /\ UNCHANGED <<request, asked>>
          /\ q.patch \in [status : Statuses]
      BY <1>1, <2>1, <2>2, <2>3 DEF RowKinds
    <3>2. \A x \in Pieces : Unborn(x) =>
             q.id # x /\ saves'[x] = NoSave /\ chosen'[x] = None /\ editor'.id # x
      BY <1>10, <2>3
    <3>3. Touching(q.id) \ gone # {} => q.id \in crossed'
      BY <1>1, <1>12, <2>3
    <3>4. \A x \in Pieces : Unborn(x) => rows'[x] = None
      BY <1>10
    <3> HIDE DEF LibraryInv
    <3> QED
      BY SMTT(20), <2>3, <3>1, <3>2, <3>3, <3>4, OneMore
  <2>5. TypeOK'
    <3>1. \A n \in {load', request'} \ {0} : \E s \in net' : s.n = n
      BY <1>1, <2>1 DEF TypeOK, Carried
    <3> QED
      BY <1>1, <1>7, <1>8, <2>4, <3>1 DEF TypeOK, Numbered
  <2>6. SavesInOrder'
    <3>1. \A s \in net', t \in net' : s.kind = "status" /\ t.kind = "status" /\ s.id = t.id => s = t
      BY <1>4, <2>1, <2>3 DEF SavesInOrder
    <3>2. ASSUME NEW s \in net', s.kind = "status"
          PROVE  /\ saves'[s.id] # NoSave
                 /\ saves'[s.id].latest = IF saves'[s.id].queue = <<>> THEN s.patch.status
                                          ELSE saves'[s.id].queue[Len(saves'[s.id].queue)]
      <4>1. CASE s = q
        BY ZenonT(60), <1>6, <1>8, <1>9, <1>b, <2>2, <2>3, <4>1
      <4>2. CASE s # q
        <5>1. s \in net /\ s.id # p /\ s.id \in Pieces
          BY <1>4, <2>1, <3>2, <4>2, RequestTypes
        <5>2. saves'[s.id] = saves[s.id]
          BY <1>8, <5>1
        <5> QED
          BY <3>2, <5>1, <5>2 DEF SavesInOrder
      <4> QED
        BY <4>1, <4>2
    <3>3. \A x \in Pieces : saves'[x] # NoSave => \E s \in net' : s.kind = "status" /\ s.id = x
      BY <1>8, <2>1, <2>3 DEF SavesInOrder
    <3> QED
      BY <3>1, <3>2, <3>3 DEF SavesInOrder, NoSave
  <2>7. ChoiceIsKept'
    <3> SUFFICES ASSUME NEW x \in Pieces, x \notin crossed PROVE Choice(x, net')
      BY <1>14
    <3>1. CASE x = p
      <4>1. chosen'[p] = saves'[p].latest
        BY <1>1, <1>3, <1>4, <1>8, <1>b, <3>1 DEF ChoiceIsKept
      <4>2. \A s \in net' : s.kind = "details" => s.id # p
        BY <1>1, <1>12, <2>1, <2>3, <3>1 DEF Touching
      <4>3. \A s \in net' : s.kind = "status" /\ s.id = p => ~Answered(s)
        BY <1>4, <2>1, <2>3 DEF Answered
      <4> QED
        BY <1>9, <1>b, <3>1, <4>1, <4>2, <4>3
    <3>2. CASE x # p
      <4>1. saves'[x] = saves[x] /\ chosen'[x] = chosen[x]
        BY <1>1, <1>8, <3>2
      <4> QED
        BY <1>15, <2>1, <2>3, <3>2, <4>1 DEF ChoiceIsKept
    <3> QED
      BY <3>1, <3>2
  <2>8. RowsFollow'
    <3> SUFFICES ASSUME open, ~failed', ~(\E s \in net' : s.kind = "import"),
                        NEW x \in Pieces, x \notin crossed, ~Changing(x)'
                 PROVE  RowIsServers(x)'
      BY <1>1 DEF RowsFollow
    <3>1. RowIsServers(x)
      BY <1>1, <1>15, <2>1, <2>3 DEF RowsFollow, Changing
    <3>2. CASE x = p
      <4>1. Touching(p)' = {q} /\ load = 0
        BY <1>1, <1>12, <2>1, <2>3, <3>2 DEF Touching
      <4> QED
        BY <1>1, <1>7, <2>3, <3>1, <3>2, <4>1 DEF RowIsServers, Answered
    <3>3. CASE x # p
      <4>1. Touching(x)' = Touching(x)
        BY <1>1, <2>1, <2>3, <3>3 DEF Touching
      <4> QED
        BY <1>1, <1>7, <2>4, <3>1, <3>3, <4>1, RowStays
    <3> QED
      BY <3>2, <3>3
  <2> QED
    BY <1>11, <2>4, <2>5, <2>6, <2>7, <2>8
<1> QED
  BY <1>a, <1>b
----------------------------------------------------------------------------
(***************************************************************************)
(* The account dialog.  A read or a write belongs to one visit of the      *)
(* dialog, so that the answers of the others are told apart.               *)
(***************************************************************************)

\* A status read that still counts says what the server holds, and until the dialog
\* shows that, such a read is under way.
DialogInv ==
    /\ Account!TypeOK
    /\ \A r, s \in reads : r.visit = s.visit => r = s
    /\ busy /\ write.visit = visit => dialog.open /\ write.opening = dialog.opening
    /\ write.answer = "done" /\ ~elsewhere => write.number = token
    /\ ~busy /\ ~elsewhere /\ ~told =>
         \A r \in reads : Account!Counts(r) /\ r.answer # "awaited"
                           => r.answer = Account!Status(token)
    /\ dialog.open /\ ~busy /\ ~told /\ ~elsewhere =>
         shortcut = Account!Status(token) \/ \E r \in reads : Account!Counts(r)
    /\ TokenShownOnce


LEMMA InitDialog == ASSUME Account!Init PROVE DialogInv
<1>1. Account!TypeOK
  <2>1. /\ issued = Issued /\ token = Issued /\ Issued \in Nat /\ dialog = [open |-> FALSE, opening |-> 0]
        /\ shortcut = "loading" /\ confirming = "none" /\ ~busy /\ ~told /\ ~elsewhere
        /\ visit = 0 /\ writes = 0 /\ reads = {}
    BY PageAssumption DEF Account!Init
  <2>2. busy \in BOOLEAN /\ told \in BOOLEAN /\ elsewhere \in BOOLEAN /\ (busy <=> write # Account!NoWrite)
    BY DEF Account!Init
  <2>3. created = [number |-> 0, opening |-> 0]
    BY DEF Account!Init, Account!NoToken
  <2>4. write = [kind |-> "none", visit |-> 0, opening |-> 0, answer |-> "none", number |-> 0]
    BY DEF Account!Init, Account!NoWrite
  <2> QED
    BY <2>1, <2>2, <2>3, <2>4 DEF Account!TypeOK
<1> QED
  BY <1>1 DEF Account!Init, DialogInv, Account!NoWrite, TokenShownOnce, Account!TokenShownOnce

LEMMA OpenKeeps == ASSUME DialogInv, Account!Open PROVE DialogInv'
<1> USE DEF DialogInv, TokenShownOnce, Account!TokenShownOnce
<1> DEFINE q == [visit |-> visit + 1, writes |-> writes, answer |-> "awaited"]
<1>0. /\ ~dialog.open /\ dialog' = [open |-> TRUE, opening |-> dialog.opening + 1]
      /\ visit' = visit + 1 /\ confirming' = "none" /\ told' = FALSE /\ reads' = reads \cup {q}
      /\ UNCHANGED <<token, issued, shortcut, created, busy, writes, write, elsewhere>>
  BY DEF Account!Open
<1>1. visit \in Nat /\ writes \in Nat /\ visit < visit' /\ visit' \in Nat /\ dialog.opening \in Nat
  BY <1>0 DEF Account!TypeOK
<1>2. /\ q \in [visit : Nat, writes : Nat, answer : {"awaited", "none", "active"}]
      /\ q.visit = visit' /\ q.writes = writes' /\ q.answer = "awaited"
  BY <1>0, <1>1
<1> HIDE DEF q
<1>3. \A r \in reads : r.visit \in Nat /\ r.visit < visit'
  BY <1>1 DEF Account!TypeOK
<1>4. Account!TypeOK'
  <2>1. \A r \in reads' : r.visit <= visit' /\ r.writes <= writes'
    BY <1>0, <1>1, <1>2, <1>3 DEF Account!TypeOK
  <2>2. created.opening <= dialog'.opening /\ write.opening <= dialog'.opening /\ write.visit <= visit'
    BY <1>0, <1>1 DEF Account!TypeOK
  <2>3. busy' \in BOOLEAN /\ told' \in BOOLEAN /\ (busy' <=> write' # Account!NoWrite')
    BY <1>0 DEF Account!TypeOK, Account!NoWrite
  <2>4. reads' \subseteq [visit : Nat, writes : Nat, answer : {"awaited", "none", "active"}]
    BY <1>0, <1>2 DEF Account!TypeOK
  <2> QED
    BY <1>0, <1>1, <2>1, <2>2, <2>3, <2>4 DEF Account!TypeOK
<1>5. \A r, s \in reads' : r.visit = s.visit => r = s
  BY <1>0, <1>2, <1>3
<1>6. write'.visit # visit'
  BY <1>0, <1>1 DEF Account!TypeOK
<1>7. \A r \in reads' : r.visit = visit' => r = q
  BY <1>0, <1>3
<1> QED
  BY <1>0, <1>2, <1>4, <1>5, <1>6, <1>7 DEF Account!Counts, Account!NoToken

LEMMA ClosedKeeps == ASSUME DialogInv, Account!Closed PROVE DialogInv'
<1> USE DEF DialogInv, TokenShownOnce, Account!TokenShownOnce
<1>0. /\ dialog.open /\ dialog' = [dialog EXCEPT !.open = FALSE]
      /\ visit' = visit + 1 /\ confirming' = "none" /\ created' = Account!NoToken
      /\ UNCHANGED <<token, issued, shortcut, busy, told, writes, reads, write, elsewhere>>
  BY DEF Account!Closed, Account!DropToken
<1>1. /\ visit \in Nat /\ visit < visit' /\ visit' \in Nat /\ dialog' \in [open : BOOLEAN, opening : Nat]
      /\ ~dialog'.open /\ dialog'.opening = dialog.opening
  <2>1. visit \in Nat /\ dialog \in [open : BOOLEAN, opening : Nat]
    BY DEF Account!TypeOK
  <2>2. dialog' \in [open : BOOLEAN, opening : Nat] /\ dialog'.open = FALSE /\ dialog'.opening = dialog.opening
    BY <1>0, <2>1
  <2> QED
    BY <1>0, <2>1, <2>2
<1>2. /\ created' \in [number : Nat, opening : Nat] /\ created'.number <= issued
      /\ created'.opening <= dialog.opening
  BY <1>0 DEF Account!TypeOK, Account!NoToken
<1>3. \A r \in reads : r.visit < visit'
  BY <1>1 DEF Account!TypeOK
<1>4. Account!TypeOK'
  <2>1. (busy' <=> write' # Account!NoWrite') /\ write.visit <= visit'
    BY <1>0, <1>1 DEF Account!TypeOK, Account!NoWrite
  <2> QED
    BY <1>0, <1>1, <1>2, <1>3, <2>1 DEF Account!TypeOK
<1>5. write'.visit # visit'
  BY <1>0, <1>1 DEF Account!TypeOK
<1> QED
  BY <1>0, <1>1, <1>3, <1>4, <1>5 DEF Account!Counts, Account!NoToken

LEMMA ConfirmKeeps ==
  ASSUME DialogInv, NEW what \in {"replace", "off"}, Account!Confirm(what) PROVE DialogInv'
<1> USE DEF DialogInv, TokenShownOnce, Account!TokenShownOnce
<1>0. /\ confirming' = what
      /\ UNCHANGED <<token, issued, dialog, shortcut, created, busy, told, visit, writes, reads, write, elsewhere>>
  BY DEF Account!Confirm
<1>1. Account!TypeOK'
  BY <1>0 DEF Account!TypeOK, Account!NoWrite
<1> QED
  BY <1>0, <1>1 DEF Account!Counts, Account!Status, Account!NoToken

LEMMA WriteKeeps ==
  ASSUME DialogInv, NEW kind \in {"create", "off"}, Account!Write(kind) PROVE DialogInv'
<1> USE DEF DialogInv, TokenShownOnce, Account!TokenShownOnce
<1>0. /\ dialog.open /\ ~busy /\ busy' /\ busy' \in BOOLEAN /\ ~told' /\ told' \in BOOLEAN /\ visit' = visit + 1
      /\ write' = [Account!NoWrite EXCEPT !.kind = kind, !.visit = visit + 1, !.opening = dialog.opening]
      /\ UNCHANGED <<token, issued, dialog, shortcut, created, confirming, writes, reads, elsewhere>>
  BY DEF Account!Write
<1>1. visit \in Nat /\ visit < visit' /\ visit' \in Nat /\ dialog.opening \in Nat
  BY <1>0 DEF Account!TypeOK
<1>2. write' = [kind |-> kind, visit |-> visit', opening |-> dialog.opening, answer |-> "none", number |-> 0]
  BY <1>0 DEF Account!NoWrite
<1>3. \A r \in reads : r.visit < visit' /\ r.visit <= visit'
  BY <1>1 DEF Account!TypeOK
<1>4. write' # Account!NoWrite'
  BY <1>2 DEF Account!NoWrite
<1>5. Account!TypeOK'
  <2>1. write' \in [kind : {"none", "create", "off"}, visit : Nat, opening : Nat,
                    answer : {"none", "done"}, number : Nat]
    BY <1>1, <1>2
  <2>2. write'.number <= issued /\ write'.visit <= visit' /\ write'.opening <= dialog.opening
    BY <1>1, <1>2 DEF Account!TypeOK
  <2> QED
    BY <1>0, <1>1, <1>3, <1>4, <2>1, <2>2 DEF Account!TypeOK
<1>6. write'.answer = "none" /\ write'.opening = dialog'.opening
  <2>1. write'.answer = "none" /\ write'.opening = dialog.opening
    BY <1>2
  <2> QED
    BY <1>0, <2>1
<1> QED
  BY <1>0, <1>5, <1>6 DEF Account!NoToken

\* A read is told apart from the others by its visit.
LEMMA OneReadCounts ==
  ASSUME DialogInv, NEW r \in reads, NEW s \in reads, Account!Counts(r), Account!Counts(s) PROVE r = s
BY DEF DialogInv, Account!Counts

LEMMA ServeReadKeeps ==
  ASSUME DialogInv, NEW r \in reads, Account!ServeRead(r) PROVE DialogInv'
<1> USE DEF DialogInv, TokenShownOnce, Account!TokenShownOnce
<1> PICK q : q = [r EXCEPT !.answer = Account!Status(token)]
  OBVIOUS
<1>0. /\ r.answer = "awaited" /\ reads' = (reads \ {r}) \cup {q}
      /\ elsewhere' = (elsewhere /\ ~(Account!Counts(r) /\ ~busy))
      /\ UNCHANGED <<token, issued, dialog, shortcut, created, confirming, busy, told, visit, writes, write>>
  BY DEF Account!ServeRead
<1>1. /\ q \in [visit : Nat, writes : Nat, answer : {"awaited", "none", "active"}]
      /\ q.visit = r.visit /\ q.writes = r.writes /\ q.answer = Account!Status(token)
  BY DEF Account!TypeOK, Account!Status
<1>2. Account!TypeOK'
  <2>1. \A s \in reads' : s.visit <= visit' /\ s.writes <= writes'
    BY <1>0, <1>1 DEF Account!TypeOK
  <2>2. /\ reads' \subseteq [visit : Nat, writes : Nat, answer : {"awaited", "none", "active"}]
        /\ (busy' <=> write' # Account!NoWrite') /\ elsewhere' \in BOOLEAN
    BY <1>0, <1>1 DEF Account!TypeOK, Account!NoWrite
  <2> QED
    BY <1>0, <2>1, <2>2 DEF Account!TypeOK
<1>3. \A s, v \in reads' : s.visit = v.visit => s = v
  BY <1>0, <1>1
<1>4. /\ \A s \in reads : Account!Counts(s)' <=> Account!Counts(s)
      /\ Account!Counts(q)' <=> Account!Counts(r)
      /\ Account!Status(token)' = Account!Status(token)
  BY <1>0, <1>1 DEF Account!Counts, Account!Status
<1>5. \A s \in reads : Account!Counts(r) /\ Account!Counts(s) => s = r
  BY OneReadCounts
<1>6. ~busy' /\ ~elsewhere' /\ ~told' =>
         \A s \in reads' : Account!Counts(s)' /\ s.answer # "awaited" => s.answer = Account!Status(token)'
  BY <1>0, <1>1, <1>4, <1>5
<1>7. dialog'.open /\ ~busy' /\ ~told' /\ ~elsewhere' =>
         shortcut' = Account!Status(token)' \/ \E s \in reads' : Account!Counts(s)'
  BY <1>0, <1>4, <1>5
<1>8. /\ write'.answer = "done" /\ ~elsewhere' => write'.number = token'
      /\ busy' /\ write'.visit = visit' => dialog'.open /\ write'.opening = dialog'.opening
  <2>1. write.answer = "done" => busy
    BY DEF Account!TypeOK, Account!NoWrite
  <2> QED
    BY <1>0, <2>1
<1> QED
  BY <1>0, <1>2, <1>3, <1>6, <1>7, <1>8 DEF Account!NoToken

\* A read's answer, or its failure, which is told if the read still counts.
LEMMA ReadEnds ==
  ASSUME DialogInv, NEW r \in reads, Account!ReadAnswered(r) \/ Account!ReadFails(r) PROVE DialogInv'
<1> USE DEF DialogInv, TokenShownOnce, Account!TokenShownOnce
<1>0. /\ reads' = reads \ {r}
      /\ UNCHANGED <<token, issued, dialog, created, confirming, busy, visit, writes, write, elsewhere>>
  BY DEF Account!ReadAnswered, Account!ReadFails
<1>a. \/ /\ r.answer # "awaited" /\ told' = told
         /\ shortcut' = IF Account!Counts(r) THEN r.answer ELSE shortcut
      \/ /\ told' = (told \/ Account!Counts(r)) /\ shortcut' = shortcut
  BY DEF Account!ReadAnswered, Account!ReadFails
<1>1. /\ \A s \in reads : Account!Counts(s)' <=> Account!Counts(s)
      /\ Account!Status(token)' = Account!Status(token) /\ Account!NoWrite' = Account!NoWrite
      /\ Account!NoToken' = Account!NoToken
  BY <1>0 DEF Account!Counts, Account!Status, Account!NoWrite, Account!NoToken
<1>2. r.answer \in {"awaited", "none", "active"}
  BY DEF Account!TypeOK
<1>3. told' \in BOOLEAN /\ shortcut' \in {"loading", "active", "none"}
  <2>1. told \in BOOLEAN /\ shortcut \in {"loading", "active", "none"}
    BY DEF Account!TypeOK
  <2> QED
    BY <1>a, <1>2, <2>1
<1>4. Account!TypeOK'
  BY <1>0, <1>1, <1>3 DEF Account!TypeOK
<1>5. dialog.open /\ ~busy /\ ~told' /\ ~elsewhere =>
         shortcut' = Account!Status(token) \/ \E s \in reads' : Account!Counts(s)
  <2> SUFFICES ASSUME dialog.open /\ ~busy /\ ~told' /\ ~elsewhere
               PROVE  shortcut' = Account!Status(token) \/ \E s \in reads' : Account!Counts(s)
    OBVIOUS
  <2>1. ~told
    BY <1>a
  <2>2. CASE Account!Counts(r)
    <3>1. r.answer # "awaited" /\ shortcut' = r.answer
      BY <1>a, <2>2
    <3> QED
      BY <2>1, <2>2, <3>1
  <2>3. CASE ~Account!Counts(r)
    BY <1>0, <1>a, <2>1, <2>3
  <2> QED
    BY <2>2, <2>3
<1>6. ~busy /\ ~elsewhere /\ ~told' =>
         \A s \in reads' : Account!Counts(s) /\ s.answer # "awaited" => s.answer = Account!Status(token)
  BY <1>0, <1>a
<1> QED
  BY <1>0, <1>1, <1>4, <1>5, <1>6

LEMMA ServeWriteKeeps == ASSUME DialogInv, Account!ServeWrite PROVE DialogInv'
<1> USE DEF DialogInv, TokenShownOnce, Account!TokenShownOnce
<1>0. /\ write.kind # "none" /\ write.answer = "none" /\ ~elsewhere' /\ elsewhere' \in BOOLEAN
      /\ issued' = (IF write.kind = "create" THEN issued + 1 ELSE issued)
      /\ token' = (IF write.kind = "create" THEN issued' ELSE 0)
      /\ write' = [write EXCEPT !.answer = "done", !.number = token']
      /\ UNCHANGED <<dialog, shortcut, created, confirming, busy, told, visit, writes, reads>>
  BY DEF Account!ServeWrite
<1>1. busy
  BY <1>0 DEF Account!TypeOK, Account!NoWrite
<1>2. issued \in Nat /\ issued' \in Nat /\ issued <= issued' /\ token' \in Nat /\ token' <= issued'
  <2>1. issued \in Nat
    BY DEF Account!TypeOK
  <2> QED
    BY <1>0, <2>1
<1>3. /\ write' \in [kind : {"none", "create", "off"}, visit : Nat, opening : Nat,
                     answer : {"none", "done"}, number : Nat]
      /\ write'.kind = write.kind /\ write'.visit = write.visit /\ write'.opening = write.opening
      /\ write'.number = token'
  <2>1. write \in [kind : {"none", "create", "off"}, visit : Nat, opening : Nat,
                   answer : {"none", "done"}, number : Nat]
    BY DEF Account!TypeOK
  <2> QED
    BY <1>0, <1>2, <2>1
<1>4. write' # Account!NoWrite'
  BY <1>0, <1>3 DEF Account!NoWrite
<1>5. Account!TypeOK'
  <2>1. created.number <= issued'
    BY <1>2 DEF Account!TypeOK
  <2> QED
    BY <1>0, <1>1, <1>2, <1>3, <1>4, <2>1 DEF Account!TypeOK
<1> QED
  BY <1>0, <1>1, <1>3, <1>5 DEF Account!NoToken

LEMMA WriteAnsweredKeeps == ASSUME DialogInv, Account!WriteAnswered PROVE DialogInv'
<1> USE DEF DialogInv, TokenShownOnce, Account!TokenShownOnce
<1>0. /\ write.answer = "done" /\ shortcut' = Account!Status(write.number) /\ writes' = writes + 1
      /\ created' = IF Account!ShowsToken THEN [number |-> write.number, opening |-> write.opening] ELSE created
      /\ ~busy' /\ busy' \in BOOLEAN /\ write' = Account!NoWrite
      /\ confirming' = IF write.visit = visit THEN "none" ELSE confirming
      /\ UNCHANGED <<token, issued, dialog, told, visit, reads, elsewhere>>
  BY DEF Account!WriteAnswered
<1>1. busy /\ writes \in Nat /\ writes' \in Nat /\ writes < writes'
  <2>1. writes \in Nat
    BY DEF Account!TypeOK
  <2>2. busy
    BY <1>0 DEF Account!TypeOK, Account!NoWrite
  <2> QED
    BY <1>0, <2>1, <2>2
<1>2. \A r \in reads : ~Account!Counts(r)' /\ r.writes <= writes'
  BY <1>0, <1>1 DEF Account!TypeOK, Account!Counts
<1>3. created' # Account!NoToken' => dialog'.open /\ created'.opening = dialog'.opening
  <2>1. CASE Account!ShowsToken
    BY <1>0, <1>1, <2>1 DEF Account!ShowsToken
  <2>2. CASE ~Account!ShowsToken
    BY <1>0, <2>2 DEF Account!NoToken
  <2> QED
    BY <2>1, <2>2
<1>4. Account!TypeOK'
  <2>1. /\ created' \in [number : Nat, opening : Nat] /\ created'.number <= issued
        /\ created'.opening <= dialog.opening
    BY <1>0 DEF Account!TypeOK
  <2>2. /\ write' \in [kind : {"none", "create", "off"}, visit : Nat, opening : Nat,
                       answer : {"none", "done"}, number : Nat]
        /\ write'.visit = 0 /\ write'.opening = 0 /\ write'.number = 0 /\ write' = Account!NoWrite'
    BY <1>0 DEF Account!NoWrite
  <2>3. shortcut' \in {"loading", "active", "none"} /\ confirming' \in {"replace", "off", "none"}
    BY <1>0 DEF Account!TypeOK, Account!Status
  <2> QED
    BY <1>0, <1>1, <1>2, <2>1, <2>2, <2>3 DEF Account!TypeOK
<1>5. write'.answer = "none"
  BY <1>0 DEF Account!NoWrite
<1>6. ~elsewhere' => shortcut' = Account!Status(token)'
  BY <1>0 DEF Account!Status
<1>7. \A r, s \in reads' : r.visit = s.visit => r = s
  BY <1>0
<1> QED
  BY <1>0, <1>2, <1>3, <1>4, <1>5, <1>6, <1>7

LEMMA WriteFailsKeeps == ASSUME DialogInv, Account!WriteFails PROVE DialogInv'
<1> USE DEF DialogInv, TokenShownOnce, Account!TokenShownOnce
<1>0. /\ told' /\ told' \in BOOLEAN /\ ~busy' /\ busy' \in BOOLEAN /\ write' = Account!NoWrite
      /\ UNCHANGED <<token, issued, dialog, shortcut, created, confirming, visit, writes, reads, elsewhere>>
  BY DEF Account!WriteFails
<1>1. /\ write' \in [kind : {"none", "create", "off"}, visit : Nat, opening : Nat,
                     answer : {"none", "done"}, number : Nat]
      /\ write'.visit = 0 /\ write'.opening = 0 /\ write'.number = 0 /\ write'.answer = "none"
      /\ write' = Account!NoWrite'
  BY <1>0 DEF Account!NoWrite
<1>2. Account!TypeOK'
  BY <1>0, <1>1 DEF Account!TypeOK
<1> QED
  BY <1>0, <1>1, <1>2 DEF Account!NoToken

LEMMA OtherDeviceKeeps == ASSUME DialogInv, Account!OtherDevice PROVE DialogInv'
<1> USE DEF DialogInv, TokenShownOnce, Account!TokenShownOnce
<1>0. /\ token' = 0 /\ elsewhere' /\ elsewhere' \in BOOLEAN
      /\ UNCHANGED <<issued, dialog, shortcut, created, confirming, busy, told, visit, writes, reads, write>>
  BY DEF Account!OtherDevice
<1>1. Account!TypeOK'
  BY <1>0 DEF Account!TypeOK, Account!NoWrite
<1> QED
  BY <1>0, <1>1 DEF Account!NoToken

LEMMA DialogStays == ASSUME DialogInv, UNCHANGED accountVars PROVE DialogInv'
BY DEF accountVars, DialogInv, Account!TypeOK, Account!NoWrite, Account!Counts, Account!Status,
   TokenShownOnce, Account!TokenShownOnce, Account!NoToken

LEMMA DialogStep ==
  ASSUME DialogInv, [RowsStep \/ AccountInput \/ AccountAnswer]_vars PROVE DialogInv'
<1>1. CASE RowsStep
  BY <1>1, DialogStays DEF RowsStep
<1>2. CASE AccountInput
  BY <1>2, OpenKeeps, ClosedKeeps, ConfirmKeeps, WriteKeeps DEF AccountInput, Account!UserNext
<1>3. CASE AccountAnswer
  BY <1>3, ServeReadKeeps, ReadEnds, ServeWriteKeeps, WriteAnsweredKeeps, WriteFailsKeeps, OtherDeviceKeeps
     DEF AccountAnswer, Account!AnswerNext
<1>4. CASE UNCHANGED vars
  BY <1>4, DialogStays DEF vars
<1> QED
  BY <1>1, <1>2, <1>3, <1>4

LEMMA DialogDefinesAnswer == DialogInv => DialogShowsTheToken
BY DEF DialogInv, DialogShowsTheToken, Account!DialogShowsTheToken

(***************************************************************************)
(* The page.                                                               *)
(***************************************************************************)

LEMMA InitRows == ASSUME Init PROVE LibraryInv
<1> PICK first : first = [n |-> 1, kind |-> "load", id |-> None, patch |-> None,
                          answer |-> None, more |-> None, then |-> "close"]
  OBVIOUS
<1>1. /\ first \in Loads /\ first.n = 1 /\ first.kind = "load" /\ first.id = None
      /\ first.answer = None /\ first.more = None
  BY DEF Loads
<1>2. /\ net = {first} /\ load = 1 /\ request = 0 /\ ~editor.shown /\ editor.id = None /\ open /\ ~failed
      /\ saving = FALSE /\ failed = FALSE /\ open = TRUE
      /\ rows = [p \in Pieces |-> None] /\ saves = [p \in Pieces |-> NoSave]
      /\ chosen = [p \in Pieces |-> None] /\ offered = None /\ crossed = {} /\ asked = None
      /\ unused = {p \in Pieces : pieces[p] = None} /\ inputs = 0 /\ faults = 0
      /\ Continued # None => pieces[Continued] # None
  BY DEF Init, NoEditor
<1>3. pieces \in Lists /\ rows \in Lists
  <2>1. [status |-> FirstStatus, favorite |-> FALSE, title |-> FirstTitle] \in Rows
    BY RowsAssumption DEF Rows, FirstStatus, FirstTitle
  <2>2. pieces \in [Pieces -> {[status |-> FirstStatus, favorite |-> FALSE, title |-> FirstTitle], None}]
    BY DEF Init
  <2> QED
    BY <1>2, <2>1, <2>2 DEF Lists
<1>4. TypeOK
  <2>1. IsFiniteSet(net)
    BY <1>2, FS_Singleton
  <2>2. editor \in [shown : BOOLEAN, id : Pieces \cup {None}, piece : Rows \cup {None}, form : Forms \cup {None}]
    BY DEF Init, NoEditor
  <2>3. \A r \in net : Wellformed(r)
    BY <1>1, <1>2 DEF Wellformed
  <2>4. inputs \in 0..MaxInputs /\ faults \in 0..MaxFaults
    BY <1>2, RowsAssumption
  <2>5. saves \in [Pieces -> [latest : Statuses, saved : Rows, queue : Seq(Statuses)] \cup {NoSave}]
    BY <1>2
  <2>6. \A n \in {load, request} \ {0} : \E r \in net : r.n = n
    BY <1>1, <1>2
  <2>7. /\ chosen \in [Pieces -> Statuses \cup {None}] /\ crossed \subseteq Pieces /\ unused \subseteq Pieces
        /\ saving \in BOOLEAN /\ failed \in BOOLEAN /\ open \in BOOLEAN
    BY <1>2
  <2> QED
    BY <1>2, <1>3, <2>1, <2>2, <2>3, <2>4, <2>5, <2>6, <2>7 DEF TypeOK
<1>5. Carried /\ ClosedPage /\ FormShown
  BY <1>1, <1>2 DEF Carried, ClosedPage, FormShown
<1>6. NothingKnown
  <2> SUFFICES ASSUME NEW q \in Pieces, Unborn(q)
               PROVE  /\ q # Continued /\ pieces[q] = None /\ rows[q] = None /\ saves[q] = NoSave
                      /\ chosen[q] = None /\ editor.id # q
                      /\ \A r \in net : /\ r.id = q => r.kind = "create" /\ q \notin unused
                                        /\ r.kind = "load" /\ Answered(r) => r.answer[q] = None
    BY DEF NothingKnown
  <2>1. q \in unused /\ q # None
    BY <1>1, <1>2, RowsAssumption DEF Unborn
  <2>2. pieces[q] = None /\ q # Continued
    BY <1>2, <2>1
  <2> QED
    BY <1>1, <1>2, <2>1, <2>2 DEF Answered
<1>7. OneCreate /\ AloneOrCrossed
  BY <1>1, <1>2 DEF OneCreate, AloneOrCrossed, Touching
<1>8. SavesInOrder
  <2>1. \A r \in net : r.kind # "status"
    BY <1>1, <1>2
  <2>2. \A p \in Pieces : saves[p] = NoSave
    BY <1>2
  <2> QED
    BY <2>1, <2>2 DEF SavesInOrder
<1>9. ChoiceIsKept
  <2>1. \A p \in Pieces : saves[p] = NoSave /\ chosen[p] = None
    BY <1>2
  <2> QED
    BY <2>1 DEF ChoiceIsKept
<1>10. RowsFollow
  <2>1. \A p \in Pieces : RowIsServers(p)
    BY <1>1, <1>2 DEF RowIsServers, Answered
  <2> QED
    BY <2>1 DEF RowsFollow
<1> QED
  BY <1>4, <1>5, <1>6, <1>7, <1>8, <1>9, <1>10 DEF LibraryInv

LEMMA RowsStay ==
  ASSUME LibraryInv, UNCHANGED rowVars, inputs' \in 0..MaxInputs, faults' \in 0..MaxFaults
  PROVE  LibraryInv'
<1>1. /\ UNCHANGED <<pieces, rows, offered, net, load, saves, saving, failed, open, chosen, crossed, unused>>
      /\ UNCHANGED <<editor, request, asked>>
  BY DEF rowVars
<1>2. asked' \in Pieces \cup {None}
  BY <1>1 DEF LibraryInv, TypeOK
<1> QED
  BY <1>1, <1>2, EditorStays, FormMoves

LEMMA RowsNextKeeps == ASSUME LibraryInv, RowsNext PROVE LibraryInv'
<1>1. ASSUME NEW r \in net, Serve(r) \/ ServeContinue(r) \/ Lose(r) PROVE LibraryInv'
  BY <1>1, ServeKeeps, ServeContinueKeeps, LoseKeeps
<1>2. ASSUME NEW r \in net, LoadAnswered(r) \/ FavoriteAnswered(r) \/ StatusAnswered(r) PROVE LibraryInv'
  BY <1>2, LoadAnsweredKeeps, FavoriteAnsweredKeeps, StatusAnsweredKeeps
<1>3. ASSUME NEW r \in net, EditRead(r) \/ DetailsAnswered(r) \/ DeleteAnswered(r) \/ ImportAnswered(r)
      PROVE  LibraryInv'
  BY <1>3, EditReadKeeps, DetailsAnsweredKeeps, DeleteAnsweredKeeps, ImportAnsweredKeeps
<1>4. ASSUME NEW p \in Pieces, ToggleFavorite(p) \/ OpenEdit(p) \/ \E s \in Statuses : ChangeStatus(p, s)
      PROVE  LibraryInv'
  BY <1>4, ToggleFavoriteKeeps, OpenEditKeeps, ChosenKeeps
<1>5. ASSUME OpenCreate \/ CloseEditor \/ Save \/ EditPages \/ DeletePiece PROVE LibraryInv'
  BY <1>5, OpenCreateKeeps, CloseEditorKeeps, SaveKeeps, EditPagesKeeps, DeletePieceKeeps
<1>6. ASSUME NEW form \in Forms, EditForm(form) PROVE LibraryInv'
  BY <1>6, EditFormKeeps
<1> QED
  BY <1>1, <1>2, <1>3, <1>4, <1>5, <1>6 DEF RowsNext

LEMMA PageBudget ==
  ASSUME TypeOK, Account!UserNext \/ Account!AnswerNext
  PROVE  inputs' \in 0..MaxInputs /\ faults' \in 0..MaxFaults
<1>1. Account!Input \/ Account!Fault \/ Account!NoBudget
  <2>1. CASE Account!UserNext
    BY <2>1 DEF Account!UserNext, Account!Open, Account!Closed, Account!Confirm, Account!Write
  <2>2. CASE Account!AnswerNext
    BY <2>2 DEF Account!AnswerNext, Account!ServeRead, Account!ReadAnswered, Account!ReadFails,
                Account!ServeWrite, Account!WriteAnswered, Account!WriteFails, Account!OtherDevice
  <2> QED
    BY <2>1, <2>2
<1> QED
  BY <1>1, RowsAssumption DEF TypeOK, Account!Input, Account!Fault, Account!NoBudget

LEMMA RowsKept ==
  ASSUME LibraryInv, [RowsStep \/ AccountInput \/ AccountAnswer]_vars PROVE LibraryInv'
<1>1. CASE RowsStep
  BY <1>1, RowsNextKeeps DEF RowsStep
<1>2. CASE AccountInput \/ AccountAnswer
  BY <1>2, PageBudget, RowsStay DEF AccountInput, AccountAnswer, LibraryInv
<1>3. CASE UNCHANGED vars
  BY <1>3, RowsStay DEF vars, LibraryInv, TypeOK
<1> QED
  BY <1>1, <1>2, <1>3

\* The invariant of the whole page: what the rows, the requests under way and the details
\* form know of one another, and what the account dialog knows of its token.
PageInv == LibraryInv /\ DialogInv

THEOREM PageInvariant == Spec => []PageInv
<1>1. PageInit => PageInv
  BY InitRows, InitDialog DEF PageInit, PageInv
<1>2. PageInv /\ [RowsStep \/ AccountInput \/ AccountAnswer]_vars => PageInv'
  BY RowsKept, DialogStep DEF PageInv
<1> QED
  BY <1>1, <1>2, PTL DEF Spec

\* Every variable of the page keeps to its kind, the requests and their answers included.
THEOREM PageTypeCorrect == Spec => []PageTypeOK
<1>1. PageInv => PageTypeOK
  BY DEF PageInv, LibraryInv, DialogInv, PageTypeOK
<1> QED
  BY <1>1, PageInvariant, PTL

\* changeStatus, saveStatus: once a row's saves are through, the server holds the status
\* chosen last in that row, however many choices were skipped on the way.
THEOREM NewestStatusIsStored == Spec => []LatestStatusIsStored
<1>1. PageInv => LatestStatusIsStored
  BY DEF PageInv, LibraryInv, ChoiceIsKept, LatestStatusIsStored
<1> QED
  BY <1>1, PageInvariant, PTL

\* replaceRow, load: at rest the list and Continue show exactly the server's rows.
THEOREM RestingRowsMatchServer == Spec => []RowsMatchServer
<1>1. PageInv => RowsMatchServer
  <2> SUFFICES ASSUME PageInv, open, net = {}, ~failed, NEW p \in Pieces, p \notin crossed
               PROVE  rows[p] = pieces[p] /\ (p = Continued => offered \in {None, pieces[p]})
    BY DEF RowsMatchServer
  <2>1. RowIsServers(p)
    BY DEF PageInv, LibraryInv, RowsFollow, Changing
  <2>2. load = 0 /\ Touching(p) = {}
    BY DEF PageInv, LibraryInv, TypeOK, Touching
  <2> QED
    BY <2>1, <2>2 DEF RowIsServers
<1> QED
  BY <1>1, PageInvariant, PTL

\* editRequest: the details form is that of the row asked for last.
THEOREM DetailsOfTheRowAskedFor == Spec => []DetailsAreTheRowAskedFor
<1>1. PageInv => DetailsAreTheRowAskedFor
  BY DEF PageInv, LibraryInv, FormShown, DetailsAreTheRowAskedFor
<1> QED
  BY <1>1, PageInvariant, PTL

\* createdToken: a plaintext is on display only in the opening that asked for it.
THEOREM PlaintextInItsOpening == Spec => []TokenShownOnce
<1>1. PageInv => TokenShownOnce
  BY DEF PageInv, DialogInv
<1> QED
  BY <1>1, PageInvariant, PTL

\* accountVisit, shortcutWrites: a settled dialog shows whether the server accepts a token.
THEOREM SettledDialogIsTrue == Spec => []DialogShowsTheToken
<1>1. PageInv => DialogShowsTheToken
  BY DialogDefinesAnswer DEF PageInv
<1> QED
  BY <1>1, PageInvariant, PTL

=============================================================================
