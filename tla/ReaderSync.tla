---------------------------- MODULE ReaderSync ----------------------------
(***************************************************************************)
(* The reading position: readers of one piece in a browser tab             *)
(* (features/reader/reader.component.ts), the API that keeps the place     *)
(* (GetReaderState and PutReaderState of internal/app/service.go) and the  *)
(* publications that replace the PDF under them.                           *)
(*                                                                         *)
(* A reader component is created when the piece is opened and destroyed    *)
(* when it is left; Reader numbers them in that order. A destroyed one     *)
(* lives on as long as it has saves to send: its subscriptions are not     *)
(* cancelled.                                                              *)
(*                                                                         *)
(* Abstractions. A page stands for everything a save carries (mode, zoom,  *)
(* speed, scroll offset). Each publication's bytes are new and numbered.   *)
(* A request that fails is dropped before the API handles it, or its       *)
(* answer is; the API does not handle it after the client has seen it      *)
(* fail, because the request's context ends with its connection.           *)
(***************************************************************************)
EXTENDS Naturals

CONSTANTS
  Readers,      \* reader components, numbered as they are opened
  Pages,        \* pages of the score
  MaxPublish,   \* bound on publications
  StrayKeys     \* may keys be pressed while a message covers the score?

ASSUME ReaderAssumption ==
  /\ Readers \subseteq Nat \ {0}
  /\ Pages \subseteq Nat \ {0} /\ 1 \in Pages
  /\ MaxPublish \in Nat
  /\ StrayKeys \in BOOLEAN

VARIABLES
  pdf,       \* the piece's PDF: 1, 2, ... in the order of publication
  place,     \* the reader_states row: the page, and (history) the PDF it was reached in
  reader,    \* the reader components
  requests   \* saves on their way to the API or back

vars == <<pdf, place, reader, requests>>

----------------------------------------------------------------------------

NoPdf == 0

\* What a save carries: the checksum the reader loaded, its page and (history) the PDF it shows.
Snapshot == [checksum : Nat, page : Pages, of : Nat]

NoSnapshot == [checksum |-> NoPdf, page |-> 1, of |-> NoPdf]

ReaderRow ==
  [phase : {"new", "loading", "document", "open", "failed", "gone"},
   piece : Nat,         \* the checksum of the piece that load() fetched
   state : Snapshot,    \* the reader state that load() fetched
   checksum : Nat,      \* loadedPDFChecksum
   shown : Nat,         \* the PDF whose pages are on the screen
   page : Pages,        \* currentPage
   timer : 0..2,        \* saveTimer: unset, or set; each restart makes it a new timer
   checkpoint : {"unset", "set", "spent"},  \* saveCheckpointTimer; spent: it fired in vain
   pending : Snapshot,  \* pendingReaderState
   saving : BOOLEAN,    \* readerStateSaveInFlight
   blocked : BOOLEAN,   \* readerStateSaveBlocked
   moved : BOOLEAN,     \* history: the page was turned since the last snapshot
   last : {"none", "ok", "conflict", "failed"}]  \* history: the last answer

Request == [reader : Readers, state : Snapshot, answer : {"none", "ok", "conflict"}]

NewReader ==
  [phase |-> "new", piece |-> NoPdf, state |-> NoSnapshot, checksum |-> NoPdf, shown |-> NoPdf,
   page |-> 1, timer |-> 0, checkpoint |-> "unset", pending |-> NoSnapshot, saving |-> FALSE,
   blocked |-> FALSE, moved |-> FALSE, last |-> "none"]

Init ==
  /\ pdf = 1
  /\ place = [page |-> 1, of |-> 1]
  /\ reader = [r \in Readers |-> NewReader]
  /\ requests = {}

----------------------------------------------------------------------------
(***************************************************************************)
(* Saving, as functions of a reader s.                                     *)
(***************************************************************************)

\* queueSave restarts the short timer; the checkpoint is set only when its field is unset.
WithoutCheckpoint(s) ==
  IF s.blocked THEN s ELSE [s EXCEPT !.timer = IF @ = 1 THEN 2 ELSE 1]

QueueSave(s) ==
  IF s.blocked
    THEN s
    ELSE [s EXCEPT !.timer = IF @ = 1 THEN 2 ELSE 1,
                   !.checkpoint = IF @ = "unset" THEN "set" ELSE @]

\* saveNow: the conditions under which it takes a snapshot.
CanSave(s) == s.phase = "open" /\ s.checksum # NoPdf /\ ~s.blocked

\* saveNow up to the flush.
TakeSnapshot(s) ==
  [s EXCEPT !.timer = 0, !.checkpoint = "unset", !.moved = FALSE,
            !.pending = [checksum |-> s.checksum, page |-> s.page, of |-> s.shown]]

MaySendAlways(s) == ~s.blocked /\ s.pending # NoSnapshot

\* flushReaderStateSave: one save in flight, and the latest snapshot waits for it.
MaySend(s) == ~s.saving /\ ~s.blocked /\ s.pending # NoSnapshot

Sent(s) == IF MaySend(s) THEN [s EXCEPT !.pending = NoSnapshot, !.saving = TRUE] ELSE s

RequestOf(r, s) ==
  IF MaySend(s) THEN {[reader |-> r, state |-> s.pending, answer |-> "none"]} ELSE {}

\* r becomes s, and sends what it has waiting.
Flush(r, s, others) ==
  /\ reader' = [reader EXCEPT ![r] = Sent(s)]
  /\ requests' = others \cup RequestOf(r, s)

----------------------------------------------------------------------------
(***************************************************************************)
(* Loading.                                                                *)
(***************************************************************************)

Loading(s) ==
  [s EXCEPT !.phase = "loading", !.piece = NoPdf, !.state = NoSnapshot, !.checksum = NoPdf,
            !.pending = NoSnapshot, !.blocked = FALSE]

\* One reader at a time: the tab leaves one before it opens the next.
Open(r) ==
  /\ reader[r].phase = "new"
  /\ \A q \in Readers : q < r => reader[q].phase = "gone"
  /\ reader' = [reader EXCEPT ![r] = Loading(@)]
  /\ UNCHANGED <<pdf, place, requests>>

Reload(r) ==
  /\ reader[r].phase = "failed"
  /\ reader' = [reader EXCEPT ![r] = Loading(@)]
  /\ UNCHANGED <<pdf, place, requests>>

\* load() asks for the piece and for its reader state at the same time.
FetchPiece(r) ==
  /\ reader[r].phase = "loading" /\ reader[r].piece = NoPdf
  /\ reader' = [reader EXCEPT ![r].piece = pdf]
  /\ UNCHANGED <<pdf, place, requests>>

FetchState(r) ==
  /\ reader[r].phase = "loading" /\ reader[r].state = NoSnapshot
  /\ reader' = [reader EXCEPT ![r].state = [checksum |-> pdf, page |-> place.page, of |-> place.of]]
  /\ UNCHANGED <<pdf, place, requests>>

\* The two must speak of the same PDF ("The score changed while it was opening").
Compare(r) ==
  LET s == reader[r]
  IN  /\ s.phase = "loading" /\ s.piece # NoPdf /\ s.state # NoSnapshot
      /\ reader' = [reader EXCEPT ![r] =
                      IF s.piece = s.state.checksum
                        THEN [s EXCEPT !.phase = "document", !.checksum = s.piece]
                        ELSE [s EXCEPT !.phase = "failed"]]
      /\ UNCHANGED <<pdf, place, requests>>

\* The document request names the piece, not its checksum: it returns the PDF of its moment.
LoadDocument(r) ==
  /\ reader[r].phase = "document"
  /\ reader' = [reader EXCEPT ![r].phase = "open", ![r].shown = pdf,
                              ![r].page = reader[r].state.page, ![r].moved = FALSE]
  /\ UNCHANGED <<pdf, place, requests>>

LoadFails(r) ==
  /\ reader[r].phase \in {"loading", "document"}
  /\ reader' = [reader EXCEPT ![r].phase = "failed"]
  /\ UNCHANGED <<pdf, place, requests>>

----------------------------------------------------------------------------
(***************************************************************************)
(* Reading.                                                                *)
(***************************************************************************)

\* turnPage, and the scroll handler.
Turn(r, page) ==
  /\ reader[r].phase = "open" /\ page # reader[r].page
  /\ reader' = [reader EXCEPT ![r] = QueueSave([@ EXCEPT !.page = page, !.moved = TRUE])]
  /\ UNCHANGED <<pdf, place, requests>>

\* The keyboard and the controls also work while "Opening score" or an error is shown:
\* the page they set is overwritten by the load, the timers they start are not.
StrayKey(r) ==
  /\ StrayKeys
  /\ reader[r].phase \in {"loading", "document", "failed"}
  /\ reader' = [reader EXCEPT ![r] = QueueSave(@)]
  /\ UNCHANGED <<pdf, place, requests>>

\* The reader rested for 650 ms: saveNow.
SaveTimerFires(r, n) ==
  LET s == [reader[r] EXCEPT !.timer = 0]
  IN  /\ reader[r].timer = n
      /\ Flush(r, IF CanSave(s) THEN TakeSnapshot(s) ELSE s, requests)
      /\ UNCHANGED <<pdf, place>>

\* Ten seconds after the first movement: saveNow, which returns early without clearing the
\* field when there is nothing it may save.
CheckpointFires(r) ==
  LET s == reader[r]
  IN  /\ s.checkpoint = "set"
      /\ Flush(r, IF CanSave(s) THEN TakeSnapshot(s) ELSE [s EXCEPT !.checkpoint = "spent"],
               requests)
      /\ UNCHANGED <<pdf, place>>

\* Pausing, changing the mode and hiding the page call saveNow.
SaveNow(r) ==
  /\ CanSave(reader[r])
  /\ Flush(r, TakeSnapshot(reader[r]), requests)
  /\ UNCHANGED <<pdf, place>>

\* ngOnDestroy: saveNow, then the timers are cleared.
Destroy(r) ==
  LET s == reader[r]
      saved == IF CanSave(s) THEN TakeSnapshot(s) ELSE s
  IN  /\ s.phase \in {"loading", "document", "open", "failed"}
      /\ Flush(r, [saved EXCEPT !.phase = "gone", !.timer = 0, !.checkpoint = "unset"], requests)
      /\ UNCHANGED <<pdf, place>>

----------------------------------------------------------------------------
(***************************************************************************)
(* The API, and its answers.                                               *)
(***************************************************************************)

ChecksumIgnored(q) == TRUE

\* PutReaderState: the place is kept only for the PDF the piece has (ErrPDFChanged).
Accepts(q) == q.state.checksum = pdf

Handle(q) ==
  /\ q.answer = "none"
  /\ requests' = (requests \ {q}) \cup
                   {[q EXCEPT !.answer = IF Accepts(q) THEN "ok" ELSE "conflict"]}
  /\ place' = IF Accepts(q) THEN [page |-> q.state.page, of |-> q.state.of] ELSE place
  /\ UNCHANGED <<pdf, reader>>

\* A conflict of the PDF that is open blocks further saves and shows an error; any other
\* failure is only logged. Then finish: the next snapshot goes out.
Answered(s, q, result) ==
  LET conflict == result = "conflict" /\ s.checksum = q.state.checksum
      blocked == [s EXCEPT !.blocked = TRUE, !.pending = NoSnapshot,
                           !.phase = IF @ = "gone" THEN @ ELSE "failed"]
  IN  [(IF conflict THEN blocked ELSE s) EXCEPT !.saving = FALSE, !.last = result]

Deliver(q, result) ==
  /\ result = "failed" \/ (result = q.answer /\ result # "none")
  /\ Flush(q.reader, Answered(reader[q.reader], q, result), requests \ {q})
  /\ UNCHANGED <<pdf, place>>

\* A publication replaces the bytes and resets the place (FinalizeImport).
PlaceReset == [page |-> 1, of |-> pdf + 1]

Publish ==
  /\ pdf <= MaxPublish
  /\ pdf' = pdf + 1
  /\ place' = PlaceReset
  /\ UNCHANGED <<reader, requests>>

----------------------------------------------------------------------------

ReaderStep(r) ==
  \/ Open(r)
  \/ Reload(r)
  \/ FetchPiece(r)
  \/ FetchState(r)
  \/ Compare(r)
  \/ LoadDocument(r)
  \/ LoadFails(r)
  \/ \E page \in Pages : Turn(r, page)
  \/ StrayKey(r)
  \/ \E n \in {1, 2} : SaveTimerFires(r, n)
  \/ CheckpointFires(r)
  \/ SaveNow(r)
  \/ Destroy(r)

RequestStep ==
  \E q \in requests :
    \/ Handle(q)
    \/ \E result \in {"ok", "conflict", "failed"} : Deliver(q, result)

Next == (\E r \in Readers : ReaderStep(r)) \/ RequestStep \/ Publish

Spec == Init /\ [][Next]_vars

\* Timers fire, requests are answered or fail. The short timer is weakly fair for each of
\* its restarts, so a reader that never rests may never see it fire.
Fairness ==
  /\ \A r \in Readers, n \in {1, 2} : WF_vars(SaveTimerFires(r, n))
  /\ \A r \in Readers : WF_vars(CheckpointFires(r))
  /\ WF_vars(RequestStep)

FairSpec == Spec /\ Fairness

----------------------------------------------------------------------------
(***************************************************************************)
(* Properties.                                                             *)
(***************************************************************************)

\* Types, and: a reader has at most one save on its way, exactly when its flag says so.
TypeOK ==
  /\ pdf \in Nat \ {0}
  /\ place \in [page : Pages, of : Nat]
  /\ reader \in [Readers -> ReaderRow]
  /\ requests \subseteq Request
  /\ \A q \in requests : reader[q.reader].saving
  /\ \A q, p \in requests : q.reader = p.reader => q = p
  /\ \A r \in Readers : reader[r].saving => \E q \in requests : q.reader = r

\* A saved place was reached in the PDF the piece has now, whatever was published while
\* readers loaded, read and saved.
PlaceSeenInCurrentPdf == place.page # 1 => place.of = pdf

\* A reader that has sent every movement, and whose last save was accepted, finds its page
\* saved: no older snapshot is applied after a newer one.
Settled(s) ==
  s.phase = "open" /\ ~s.moved /\ s.pending = NoSnapshot /\ ~s.saving /\ s.last = "ok"

SettledReaderIsSaved ==
  \A r \in Readers : Settled(reader[r]) /\ reader[r].checksum = pdf => place.page = reader[r].page

\* Movement is saved while it goes on: even a reader that never rests takes a snapshot again
\* and again (the checkpoint of queueSave), unless it is left or shows an error. It holds as
\* long as the checkpoint timer has not fired in vain.
MovementsAreSavedByCheckpoint ==
  \A r \in Readers : reader[r].moved ~>
    (~reader[r].moved \/ reader[r].phase # "open" \/ reader[r].checkpoint = "spent")

\* The same without that condition: what the checkpoint is for.
MovementsAreSaved ==
  \A r \in Readers : reader[r].moved ~> (~reader[r].moved \/ reader[r].phase # "open")

============================================================================
