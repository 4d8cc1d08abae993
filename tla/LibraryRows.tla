---------------------------- MODULE LibraryRows ----------------------------
(***************************************************************************)
(* The rows of the library page and the details form over them.  The page  *)
(* shows a copy of the server's pieces, changes it at once for a status,   *)
(* with the answer for a favourite, and by a whole load after the details  *)
(* form saved or deleted.  Requests are served and answered in any order;  *)
(* only a row's status saves and the loads are put in order by the page.   *)
(*                                                                         *)
(* A row is its status, favourite mark and title; the rest of a piece is   *)
(* handled as the title is.  Continue shows a second copy of one row.      *)
(***************************************************************************)
EXTENDS Naturals, FiniteSets, Sequences

CONSTANTS
    Pieces, Statuses, Titles, Blank, None, Failed,
    Continued,   \* the piece the server offers to continue, or None
    MaxInputs, MaxFaults

VARIABLES
    pieces,     \* the server's row of each piece; None if there is none
    rows,       \* the page's copy (allPieces)
    offered,    \* the page's second copy of Continued, or None
    net,        \* requests under way, with their answers once served
    load,       \* the load whose answer counts; 0 if none is running
    saves,      \* statusSaves: per row the latest choice, the last saved row, the queue
    editor,     \* the details form
    request,    \* editRequest: the details read that counts; 0 if none is running
    saving, open,
    failed,     \* whether a failed request was told on this page
    asked,      \* the row whose details were asked for last
    chosen,     \* the status last chosen in each row
    crossed,    \* rows two requests touched at the same time
    unused,     \* ids no piece has had
    inputs, faults

rowVars == <<pieces, rows, offered, net, load, saves, editor, request, saving,
             failed, open, asked, chosen, crossed, unused>>

FirstStatus == CHOOSE s \in Statuses : TRUE
FirstTitle == CHOOSE t \in Titles : TRUE

Rows == [status : Statuses, favorite : BOOLEAN, title : Titles]
Forms == [status : Statuses, favorite : BOOLEAN, title : Titles \cup {Blank}]
Lists == [Pieces -> Rows \cup {None}]

NoSave == [latest |-> None, saved |-> None, queue |-> <<>>]
NoEditor == [shown |-> FALSE, id |-> None, piece |-> None, form |-> None]

ASSUME RowsAssumption ==
    /\ Statuses # {} /\ Titles # {} /\ Blank \notin Titles
    /\ Continued \in Pieces \cup {None} /\ None \notin Pieces \cup Statuses
    /\ None # Failed /\ {None, Failed} \cap (Rows \cup Lists) = {}
    /\ \A row \in Rows \cup {None} : <<row>> # None
    /\ MaxInputs \in Nat /\ MaxFaults \in Nat

Patches == [favorite : BOOLEAN] \cup [status : Statuses] \cup Rows \cup {None}
Loads ==
    [n : Nat \ {0}, kind : {"load"}, id : {None}, then : {"close"}, patch : {None},
     answer : Lists \cup {None, Failed}, more : {<<row>> : row \in Rows \cup {None}} \cup {None}]
RowRequests ==
    [n : Nat \ {0}, id : Pieces, then : {"close", "import"},
     kind : {"favorite", "status", "open", "create", "details", "delete", "import"},
     patch : Patches, answer : Rows \cup {None, Failed}, more : {None}]

Wellformed(r) == r \in IF r.kind = "load" THEN Loads ELSE RowRequests

TypeOK ==
    /\ pieces \in Lists /\ rows \in Lists /\ offered \in Rows \cup {None}
    /\ IsFiniteSet(net) /\ \A r, s \in net : r.n = s.n => r = s
    /\ \A r \in net : Wellformed(r)
    /\ \A n \in {load, request} \ {0} : \E r \in net : r.n = n
    /\ saves \in [Pieces -> [latest : Statuses, saved : Rows, queue : Seq(Statuses)] \cup {NoSave}]
    /\ editor \in [shown : BOOLEAN, id : Pieces \cup {None}, piece : Rows \cup {None},
                   form : Forms \cup {None}]
    /\ saving \in BOOLEAN /\ failed \in BOOLEAN /\ open \in BOOLEAN
    /\ asked \in Pieces \cup {None} /\ chosen \in [Pieces -> Statuses \cup {None}]
    /\ crossed \subseteq Pieces /\ unused \subseteq Pieces
    /\ inputs \in 0..MaxInputs /\ faults \in 0..MaxFaults

-----------------------------------------------------------------------------
Input == inputs < MaxInputs /\ inputs' = inputs + 1 /\ UNCHANGED faults
Fault == faults < MaxFaults /\ faults' = faults + 1 /\ UNCHANGED inputs
NoBudget == UNCHANGED <<inputs, faults>>

\* Requests are told apart by a number, which is free again once they are answered.
Fresh == CHOOSE n \in 1..(Cardinality(net) + 1) : \A r \in net : r.n # n
Req(kind, id, patch) ==
    [n |-> Fresh, kind |-> kind, id |-> id, patch |-> patch,
     answer |-> None, more |-> None, then |-> "close"]

\* Requests that show a row when they are answered.
Touching(p) == {r \in net : \/ r.kind \in {"favorite", "status", "details"} /\ r.id = p
                            \/ r.kind = "load" /\ r.n = load}
Crossing(p) == IF Touching(p) = {} THEN crossed ELSE crossed \cup {p}

Send(r) == net' = net \cup {r}
Done(r) == net' = net \ {r}
\* load() of a page that was left asks for nothing.
Load == IF open THEN {Req("load", None, None)} ELSE {}

\* replaceRow: a row that is not listed stays out.
ReplaceListed(p, row) ==
    rows' = [rows EXCEPT ![p] = IF @ = None THEN None ELSE row] /\ UNCHANGED offered
ReplaceRow(p, row) ==
    /\ rows' = [rows EXCEPT ![p] = IF @ = None THEN None ELSE row]
    /\ offered' = IF p = Continued /\ offered # None THEN row ELSE offered
Copies(p) == ({rows[p]} \cup IF p = Continued THEN {offered} ELSE {}) \ {None}

Init ==
    /\ pieces \in [Pieces -> {[status |-> FirstStatus, favorite |-> FALSE, title |-> FirstTitle],
                             None}]
    /\ Continued # None => pieces[Continued] # None
    /\ rows = [p \in Pieces |-> None] /\ offered = None
    /\ net = {[n |-> 1, kind |-> "load", id |-> None, patch |-> None,
               answer |-> None, more |-> None, then |-> "close"]}
    /\ load = 1
    /\ saves = [p \in Pieces |-> NoSave]
    /\ editor = NoEditor /\ request = 0 /\ saving = FALSE /\ failed = FALSE /\ open = TRUE
    /\ asked = None /\ chosen = [p \in Pieces |-> None] /\ crossed = {}
    /\ unused = {p \in Pieces : pieces[p] = None}
    /\ inputs = 0 /\ faults = 0

-----------------------------------------------------------------------------
\* The server: a patch changes the fields it names and answers with the row; the
\* library and the piece to continue are read by two requests of one load.
Patched(p, patch) == [f \in DOMAIN pieces[p] |-> IF f \in DOMAIN patch THEN patch[f]
                                                 ELSE pieces[p][f]]
Missing(r) == r.kind # "load" /\ r.kind # "create" /\ pieces[r.id] = None

Serve(r) ==
    /\ r.answer = None /\ NoBudget
    /\ pieces' = IF Missing(r) THEN pieces ELSE
         CASE r.kind \in {"favorite", "status", "details"} ->
                [pieces EXCEPT ![r.id] = Patched(r.id, r.patch)]
           [] r.kind = "create" -> [pieces EXCEPT ![r.id] = r.patch]
           [] r.kind = "delete" -> [pieces EXCEPT ![r.id] = None]
           [] OTHER -> pieces
    /\ net' = (net \ {r}) \cup {[r EXCEPT !.answer =
         IF Missing(r) THEN Failed ELSE
         CASE r.kind = "load" -> pieces
           [] r.kind = "delete" -> pieces[r.id]
           [] OTHER -> pieces'[r.id]]}
    /\ UNCHANGED <<rows, offered, load, saves, editor, request, saving, failed, open,
                   asked, chosen, crossed, unused>>

\* "The library stays usable if Continue is unavailable": it offers nothing then.
ServeContinue(r) ==
    /\ r.kind = "load" /\ r.more = None /\ Continued # None
    /\ \/ NoBudget /\ net' = (net \ {r}) \cup {[r EXCEPT !.more = <<pieces[Continued]>>]}
       \/ Fault /\ net' = (net \ {r}) \cup {[r EXCEPT !.more = <<None>>]}
    /\ UNCHANGED <<pieces, rows, offered, load, saves, editor, request, saving,
                   failed, open, asked, chosen, crossed, unused>>

\* A request is lost before it is served, or its answer is.
Lose(r) ==
    /\ r.answer # Failed /\ Fault
    /\ net' = (net \ {r}) \cup {[r EXCEPT !.answer = Failed]}
    /\ UNCHANGED <<pieces, rows, offered, load, saves, editor, request, saving,
                   failed, open, asked, chosen, crossed, unused>>

-----------------------------------------------------------------------------
\* load: an older load that is still running no longer counts (switchMap).
LoadAnswered(r) ==
    /\ r.kind = "load" /\ r.answer # None /\ NoBudget
    /\ r.n # load \/ r.answer = Failed \/ Continued = None \/ r.more # None
    /\ Done(r)
    /\ IF r.n # load \/ ~open THEN UNCHANGED <<rows, offered, load, failed>>
       ELSE /\ load' = 0
            /\ failed' = (failed \/ r.answer = Failed)
            /\ IF r.answer = Failed THEN UNCHANGED <<rows, offered>>
               ELSE rows' = r.answer /\ offered' = IF Continued = None THEN None ELSE r.more[1]
    /\ UNCHANGED <<pieces, saves, editor, request, saving, open, asked, chosen, crossed, unused>>

\* toggleFavorite: the row changes with the answer.
ToggleFavorite(p) ==
    /\ open /\ ~editor.shown /\ Input
    /\ \E row \in Copies(p) :
         Send(Req("favorite", p, [favorite |-> ~row.favorite]))
    /\ crossed' = Crossing(p)
    /\ UNCHANGED <<pieces, rows, offered, load, saves, editor, request, saving, failed, open,
                   asked, chosen, unused>>

FavoriteAnswered(r) ==
    /\ r.kind = "favorite" /\ r.answer # None /\ NoBudget /\ Done(r)
    /\ IF r.answer = Failed THEN failed' = TRUE /\ UNCHANGED <<rows, offered>>
       ELSE ReplaceRow(r.id, r.answer) /\ UNCHANGED failed
    /\ UNCHANGED <<pieces, load, saves, editor, request, saving, open, asked, chosen, crossed, unused>>

\* changeStatus: the choice shows at once; a row's saves run one at a time, and
\* one that is no longer the latest choice is skipped.
FirstSave(row, status) == [latest |-> status, saved |-> row, queue |-> <<>>]

ChangeStatus(p, status) ==
    /\ open /\ ~editor.shown /\ Input
    /\ \E row \in Copies(p) :
         /\ status # row.status
         /\ ReplaceRow(p, [row EXCEPT !.status = status])
         /\ IF saves[p] = NoSave
            THEN /\ saves' = [saves EXCEPT ![p] = FirstSave(row, status)]
                 /\ Send(Req("status", p, [status |-> status]))
            ELSE /\ saves' = [saves EXCEPT ![p].latest = status, ![p].queue = Append(@, status)]
                 /\ UNCHANGED net
    /\ chosen' = [chosen EXCEPT ![p] = status]
    /\ crossed' = IF saves[p] = NoSave THEN Crossing(p) ELSE crossed
    /\ UNCHANGED <<pieces, load, editor, request, saving, failed, open, asked, unused>>

\* saveStatus, answered: the row shows what was saved, or goes back to the last
\* saved one, unless a newer choice is there; then the next save is sent.
Saved(r) == IF r.answer = Failed THEN saves[r.id].saved ELSE r.answer

\* What is left of the queue from the first save that is the latest choice.
Due(pending) == {i \in DOMAIN pending.queue : pending.queue[i] = pending.latest}
NothingDue(pending) == <<>>
StillDue(pending) ==
    IF Due(pending) = {} THEN <<>>
    ELSE LET first == CHOOSE i \in Due(pending) : \A j \in Due(pending) : i <= j
         IN SubSeq(pending.queue, first, Len(pending.queue))

StatusAnswered(r) ==
    /\ r.kind = "status" /\ r.answer # None /\ NoBudget
    /\ LET pending == saves[r.id]
           latest == pending.latest = r.patch.status
           due == StillDue(pending)
       IN /\ IF latest THEN ReplaceRow(r.id, Saved(r)) ELSE UNCHANGED <<rows, offered>>
          /\ failed' = (failed \/ (latest /\ r.answer = Failed))
          /\ IF due = <<>>
             THEN saves' = [saves EXCEPT ![r.id] = NoSave] /\ Done(r)
             ELSE /\ saves' = [saves EXCEPT ![r.id].saved = Saved(r), ![r.id].queue = Tail(due)]
                  /\ net' = (net \ {r}) \cup {Req("status", r.id, [status |-> Head(due)])}
    /\ UNCHANGED <<pieces, load, editor, request, saving, open, asked, chosen, crossed, unused>>

-----------------------------------------------------------------------------
\* openCreate and openEdit: the whole piece is read before its details open.
OpenCreate ==
    /\ open /\ ~editor.shown /\ Input
    /\ request' = 0 /\ asked' = None
    /\ editor' = [shown |-> TRUE, id |-> None, piece |-> None,
                  form |-> [status |-> FirstStatus, favorite |-> FALSE, title |-> Blank]]
    /\ UNCHANGED <<pieces, rows, offered, net, load, saves, saving, failed, open, chosen, crossed, unused>>

OpenEdit(p) ==
    /\ open /\ ~editor.shown /\ Copies(p) # {} /\ Input
    /\ Send(Req("open", p, None)) /\ request' = Fresh /\ asked' = p
    /\ UNCHANGED <<pieces, rows, offered, load, saves, editor, saving, failed, open, chosen, crossed, unused>>

AnyRequest(r) == TRUE
Current(r) == r.n = request

EditRead(r) ==
    /\ r.kind = "open" /\ r.answer # None /\ NoBudget /\ Done(r)
    /\ request' = IF Current(r) THEN 0 ELSE request
    /\ IF ~Current(r) THEN UNCHANGED <<editor, failed>>
       ELSE IF r.answer = Failed THEN failed' = TRUE /\ UNCHANGED editor
       ELSE /\ editor' = [shown |-> open, id |-> r.id, piece |-> r.answer, form |-> r.answer]
            /\ UNCHANGED failed
    /\ UNCHANGED <<pieces, rows, offered, load, saves, saving, open, asked, chosen, crossed, unused>>

\* One field of the form at a time.
EditForm(form) ==
    /\ editor.shown /\ Input
    /\ Cardinality({f \in DOMAIN form : form[f] # editor.form[f]}) = 1
    /\ editor' = [editor EXCEPT !.form = form]
    /\ UNCHANGED <<pieces, rows, offered, net, load, saves, request, saving, failed,
                   open, asked, chosen, crossed, unused>>

\* The dialog's own Escape closes it even while it is saving.
CloseEditor ==
    /\ editor.shown /\ Input
    /\ editor' = [editor EXCEPT !.shown = FALSE]
    /\ UNCHANGED <<pieces, rows, offered, net, load, saves, request, saving, failed,
                   open, asked, chosen, crossed, unused>>

\* persistEditor: a form without a title is refused; one save at a time.
Persist(then) ==
    IF editor.form.title = Blank
    THEN UNCHANGED <<net, saving, chosen, crossed, unused>>
    ELSE /\ saving' = TRUE
         /\ \E p \in IF editor.id = None THEN unused ELSE {editor.id} :
              /\ Send([Req(IF editor.id = None THEN "create" ELSE "details", p, editor.form)
                         EXCEPT !.then = then])
              /\ chosen' = [chosen EXCEPT ![p] = None] /\ crossed' = Crossing(p)
              /\ unused' = unused \ {p}

Save ==
    /\ editor.shown /\ ~saving /\ Input /\ Persist("close")
    /\ UNCHANGED <<pieces, rows, offered, load, saves, editor, request, failed, open, asked>>

\* editPages: unsaved details are saved first, then a draft opens in Prepare.
Import == Send(Req("import", editor.id, None))

EditPages ==
    /\ editor.shown /\ editor.id # None /\ ~saving /\ Input
    /\ IF editor.form # editor.piece THEN Persist("import") /\ UNCHANGED editor
       ELSE /\ Import /\ editor' = [editor EXCEPT !.shown = FALSE]
            /\ UNCHANGED <<saving, chosen, crossed, unused>>
    /\ UNCHANGED <<pieces, rows, offered, load, saves, request, failed, open, asked>>

\* Saved: the form closes, and the library loads again or Prepare opens.
DetailsAnswered(r) ==
    /\ r.kind \in {"details", "create"} /\ r.answer # None /\ NoBudget
    /\ saving' = FALSE
    /\ IF r.answer = Failed
       THEN failed' = TRUE /\ Done(r) /\ UNCHANGED <<editor, load, crossed>>
       ELSE /\ editor' = [editor EXCEPT !.id = r.id, !.piece = r.answer, !.shown = FALSE]
            /\ net' = (net \ {r}) \cup
                 IF r.then = "close" THEN Load ELSE {Req("import", r.id, None)}
            /\ load' = IF r.then = "close" /\ open THEN Fresh ELSE load
            /\ crossed' = IF r.then = "close" THEN {p \in Pieces : Touching(p) \ {r} # {}} \cup crossed
                          ELSE crossed
            /\ UNCHANGED failed
    /\ UNCHANGED <<pieces, rows, offered, saves, request, open, asked, chosen, unused>>

DeletePiece ==
    /\ editor.shown /\ editor.id # None /\ Input
    /\ Send(Req("delete", editor.id, None)) /\ saving' = TRUE
    /\ crossed' = Crossing(editor.id)
    /\ UNCHANGED <<pieces, rows, offered, load, saves, editor, request, failed, open, asked, chosen, unused>>

DeleteAnswered(r) ==
    /\ r.kind = "delete" /\ r.answer # None /\ NoBudget
    /\ saving' = FALSE
    /\ IF r.answer = Failed
       THEN failed' = TRUE /\ Done(r) /\ UNCHANGED <<editor, load, crossed>>
       ELSE /\ editor' = [editor EXCEPT !.shown = FALSE]
            /\ net' = (net \ {r}) \cup Load
            /\ load' = IF open THEN Fresh ELSE load
            /\ crossed' = {p \in Pieces : Touching(p) # {}} \cup crossed
            /\ UNCHANGED failed
    /\ UNCHANGED <<pieces, rows, offered, saves, request, open, asked, chosen, unused>>

\* beginImport, answered: the page is left; what it still awaits goes on.
ImportAnswered(r) ==
    /\ r.kind = "import" /\ r.answer # None /\ NoBudget /\ Done(r)
    /\ IF r.answer = Failed THEN failed' = TRUE /\ UNCHANGED <<open, editor, load>>
       ELSE open' = FALSE /\ editor' = [editor EXCEPT !.shown = FALSE] /\ load' = 0 /\ UNCHANGED failed
    /\ UNCHANGED <<pieces, rows, offered, saves, request, saving, asked, chosen, crossed, unused>>

RowsNext ==
    \/ \E r \in net :
         \/ Serve(r) \/ ServeContinue(r) \/ Lose(r)
         \/ LoadAnswered(r) \/ FavoriteAnswered(r) \/ StatusAnswered(r)
         \/ EditRead(r) \/ DetailsAnswered(r) \/ DeleteAnswered(r) \/ ImportAnswered(r)
    \/ \E p \in Pieces :
         \/ ToggleFavorite(p) \/ OpenEdit(p)
         \/ \E s \in Statuses : ChangeStatus(p, s)
    \/ OpenCreate \/ CloseEditor \/ Save \/ EditPages \/ DeletePiece
    \/ \E form \in Forms : EditForm(form)

-----------------------------------------------------------------------------
\* A row's status on the server is the last one chosen in that row, once its
\* saves are through: skipped choices are always followed by a save of the
\* newest one, also after the page was left (changeStatus, saveStatus).  Rows
\* the details form or another request wrote meanwhile are left aside.
LatestStatusIsStored ==
    \A p \in Pieces :
        saves[p] = NoSave /\ chosen[p] # None /\ pieces[p] # None /\ p \notin crossed /\ ~failed
            => pieces[p].status = chosen[p]

\* When nothing is under way and no failure was told, the page shows exactly
\* the server's rows, in the list and under Continue: at-once changes, answers
\* and loads leave nothing behind (replaceRow, load).  Rows that two requests
\* touched at the same time are left aside, see SlowAnswersKeepTheStatus.
RowsMatchServer ==
    open /\ net = {} /\ ~failed =>
        \A p \in Pieces \ crossed :
            rows[p] = pieces[p] /\ (p = Continued => offered \in {None, pieces[p]})

\* "Only the latest choice is saved or shown, so a slow older request can never
\* overwrite a newer status" (changeStatus): at rest the row shows the status
\* the server holds, whatever else was answered meanwhile.
SlowAnswersKeepTheStatus ==
    open /\ net = {} /\ ~failed =>
        \A p \in Pieces : rows[p] # None /\ pieces[p] # None => rows[p].status = pieces[p].status

\* The details form is that of the row asked for last, however the reads of
\* several rows were answered (editRequest), and a form without its row's read
\* never shows.
DetailsAreTheRowAskedFor ==
    editor.shown => editor.id = asked
=============================================================================
