------------------------ MODULE ReaderSessionProofs ------------------------
(***************************************************************************)
(* The reading position and its wake lock, for any number of readers,      *)
(* pages and publications.                                                 *)
(*                                                                         *)
(* ReaderInv carries the reading position: a snapshot's checksum is never  *)
(* newer than the PDF it was taken from, so the one the API accepts was    *)
(* taken from the PDF the piece has; and the page of a reader without      *)
(* unsaved movement is in the snapshot that waits, else in the one that    *)
(* was sent, else at the server. SessionInv adds that the lock is started  *)
(* for the one reader that is there. LockInv is the invariant of the lock  *)
(* alone, and holds in a session because a session implements WakeLock.    *)
(***************************************************************************)
EXTENDS ReaderSession, TLAPS

----------------------------------------------------------------------------
(***************************************************************************)
(* What the functions of a reader do to its row.                           *)
(***************************************************************************)

LEMMA NoSnapshotType == NoSnapshot \in Snapshot
BY ReaderAssumption DEF NoSnapshot, Snapshot, NoPdf

LEMMA NewReaderType == NewReader \in ReaderRow
BY NoSnapshotType, ReaderAssumption DEF NewReader, ReaderRow, NoPdf

LEMMA QueueSaveRow ==
  ASSUME NEW s \in ReaderRow
  PROVE  /\ QueueSave(s) \in ReaderRow
         /\ QueueSave(s).phase = s.phase /\ QueueSave(s).piece = s.piece
         /\ QueueSave(s).state = s.state /\ QueueSave(s).checksum = s.checksum
         /\ QueueSave(s).shown = s.shown /\ QueueSave(s).page = s.page
         /\ QueueSave(s).pending = s.pending /\ QueueSave(s).saving = s.saving
         /\ QueueSave(s).blocked = s.blocked /\ QueueSave(s).moved = s.moved
         /\ QueueSave(s).last = s.last
<1> DEFINE t == IF s.timer = 1 THEN 2 ELSE 1
           c == IF s.checkpoint = "unset" THEN "set" ELSE s.checkpoint
<1>1. t \in 0..2 /\ c \in {"unset", "set", "spent"}
  BY DEF ReaderRow
<1>2. QueueSave(s) = IF s.blocked THEN s ELSE [s EXCEPT !.timer = t, !.checkpoint = c]
  BY DEF QueueSave
<1> HIDE DEF t, c
<1>3. CASE s.blocked
  BY <1>2, <1>3
<1>4. CASE ~s.blocked
  BY ZenonT(60), <1>1, <1>2, <1>4 DEF ReaderRow
<1> QED
  BY <1>3, <1>4

LEMMA TakeSnapshotRow ==
  ASSUME NEW s \in ReaderRow
  PROVE  /\ TakeSnapshot(s) \in ReaderRow
         /\ TakeSnapshot(s).phase = s.phase /\ TakeSnapshot(s).piece = s.piece
         /\ TakeSnapshot(s).state = s.state /\ TakeSnapshot(s).checksum = s.checksum
         /\ TakeSnapshot(s).shown = s.shown /\ TakeSnapshot(s).page = s.page
         /\ TakeSnapshot(s).pending = [checksum |-> s.checksum, page |-> s.page, of |-> s.shown]
         /\ TakeSnapshot(s).saving = s.saving
         /\ TakeSnapshot(s).blocked = s.blocked /\ TakeSnapshot(s).moved = FALSE
         /\ TakeSnapshot(s).last = s.last
<1> DEFINE snapshot == [checksum |-> s.checksum, page |-> s.page, of |-> s.shown]
<1>1. snapshot \in Snapshot
  BY DEF ReaderRow, Snapshot
<1>2. TakeSnapshot(s) =
        [s EXCEPT !.timer = 0, !.checkpoint = "unset", !.moved = FALSE, !.pending = snapshot]
  BY DEF TakeSnapshot
<1> HIDE DEF snapshot
<1>3. TakeSnapshot(s).pending = snapshot
  BY <1>2 DEF ReaderRow
<1>4. TakeSnapshot(s) \in ReaderRow
  <2> DEFINE b == [s EXCEPT !.timer = 0, !.checkpoint = "unset"]
  <2>1. b \in ReaderRow
    <3>1. \A t \in 0..2, c \in {"unset", "set", "spent"} : [s EXCEPT !.timer = t, !.checkpoint = c] \in ReaderRow
      BY DEF ReaderRow
    <3>2. 0 \in 0..2
      OBVIOUS
    <3> QED
      BY <3>1, <3>2
  <2>2. TakeSnapshot(s) = [b EXCEPT !.moved = FALSE, !.pending = snapshot]
    BY <1>2
  <2> HIDE DEF b
  <2> QED
    BY <1>1, <2>1, <2>2 DEF ReaderRow
<1>5. /\ TakeSnapshot(s).phase = s.phase /\ TakeSnapshot(s).piece = s.piece
      /\ TakeSnapshot(s).state = s.state /\ TakeSnapshot(s).checksum = s.checksum
      /\ TakeSnapshot(s).shown = s.shown /\ TakeSnapshot(s).page = s.page
      /\ TakeSnapshot(s).saving = s.saving
      /\ TakeSnapshot(s).blocked = s.blocked /\ TakeSnapshot(s).moved = FALSE
      /\ TakeSnapshot(s).last = s.last
  BY <1>2 DEF ReaderRow
<1> QED
  BY <1>3, <1>4, <1>5 DEF snapshot

LEMMA SentRow ==
  ASSUME NEW s \in ReaderRow
  PROVE  /\ Sent(s) \in ReaderRow
         /\ Sent(s).phase = s.phase /\ Sent(s).piece = s.piece
         /\ Sent(s).state = s.state /\ Sent(s).checksum = s.checksum
         /\ Sent(s).shown = s.shown /\ Sent(s).page = s.page
         /\ Sent(s).pending = (IF MaySend(s) THEN NoSnapshot ELSE s.pending)
         /\ Sent(s).saving = (MaySend(s) \/ s.saving)
         /\ Sent(s).blocked = s.blocked /\ Sent(s).moved = s.moved
         /\ Sent(s).last = s.last
<1>1. CASE MaySend(s)
  BY <1>1, NoSnapshotType DEF Sent, ReaderRow
<1>2. CASE ~MaySend(s)
  BY <1>2 DEF Sent, ReaderRow
<1> QED
  BY <1>1, <1>2

LEMMA LoadingRow ==
  ASSUME NEW s \in ReaderRow
  PROVE  /\ Loading(s) \in ReaderRow
         /\ Loading(s).phase = "loading" /\ Loading(s).piece = NoPdf
         /\ Loading(s).state = NoSnapshot /\ Loading(s).checksum = NoPdf
         /\ Loading(s).shown = s.shown /\ Loading(s).page = s.page
         /\ Loading(s).pending = NoSnapshot /\ Loading(s).saving = s.saving
         /\ Loading(s).blocked = FALSE /\ Loading(s).moved = s.moved
         /\ Loading(s).last = s.last
BY NoSnapshotType DEF Loading, ReaderRow, NoPdf

\* An answer ends the save; a conflict may end the reading and empty the queue.
AfterAnswer(a, s, result) ==
  /\ a \in ReaderRow
  /\ a.piece = s.piece /\ a.checksum = s.checksum /\ a.shown = s.shown
  /\ a.page = s.page /\ a.moved = s.moved
  /\ a.saving = FALSE /\ a.last = result
  /\ a.pending \in {s.pending, NoSnapshot}
  /\ a.phase \in {s.phase, "failed"}
  /\ s.phase = "gone" => a.phase = "gone"
  /\ a.phase = "open" => a.pending = s.pending
  /\ a.phase # s.phase => a.pending = NoSnapshot /\ a.blocked /\ result = "conflict"

LEMMA AnsweredRow ==
  ASSUME NEW s \in ReaderRow, NEW q, NEW result \in {"ok", "conflict", "failed"}
  PROVE  AfterAnswer(Answered(s, q, result), s, result)
<1> DEFINE a == Answered(s, q, result)
<1>1. CASE result = "conflict" /\ s.checksum = q.state.checksum
  <2> DEFINE b == [s EXCEPT !.blocked = TRUE, !.pending = NoSnapshot,
                            !.phase = IF @ = "gone" THEN @ ELSE "failed"]
  <2>1. a = [b EXCEPT !.saving = FALSE, !.last = result]
    BY <1>1 DEF Answered
  <2>2. /\ b \in ReaderRow /\ b.piece = s.piece /\ b.state = s.state /\ b.checksum = s.checksum
        /\ b.shown = s.shown /\ b.page = s.page /\ b.moved = s.moved /\ b.pending = NoSnapshot
        /\ b.blocked = TRUE /\ b.phase = (IF s.phase = "gone" THEN "gone" ELSE "failed")
    BY NoSnapshotType DEF ReaderRow
  <2> HIDE DEF b
  <2>3. /\ a \in ReaderRow
        /\ a.piece = b.piece /\ a.state = b.state /\ a.checksum = b.checksum
        /\ a.shown = b.shown /\ a.page = b.page /\ a.moved = b.moved
        /\ a.pending = b.pending /\ a.blocked = b.blocked /\ a.phase = b.phase
        /\ a.saving = FALSE /\ a.last = result
    BY ZenonT(60), <2>1, <2>2 DEF ReaderRow
  <2> QED
    BY <1>1, <2>1, <2>2, <2>3 DEF AfterAnswer
<1>2. CASE ~(result = "conflict" /\ s.checksum = q.state.checksum)
  <2>1. a = [s EXCEPT !.saving = FALSE, !.last = result]
    BY <1>2 DEF Answered
  <2> QED
    BY <1>2, <2>1 DEF AfterAnswer, ReaderRow
<1> QED
  BY <1>1, <1>2

----------------------------------------------------------------------------
(***************************************************************************)
(* The reading position.                                                   *)
(***************************************************************************)

\* The tab leaves a reader before it opens the next.
Sequential ==
  \A q, r \in Readers : q < r /\ reader[r].phase # "new" => reader[q].phase = "gone"

\* A snapshot's checksum is no newer than the PDF it was reached in.
InOrder(snapshot) == snapshot.checksum <= snapshot.of /\ snapshot.of <= pdf

RowInOrder(s) ==
  /\ s.piece <= pdf /\ s.checksum <= pdf
  /\ s.phase = "open" => s.checksum <= s.shown /\ s.shown <= pdf
  /\ InOrder(s.pending)

\* A reader that is not open has nothing to save and waits for no answer.
RowQuiet(s) ==
  s.phase \in {"new", "loading", "document", "failed"} =>
    ~s.saving /\ s.pending = NoSnapshot /\ s.last \in {"none", "conflict"}

\* Where the present page of a reader without unsaved movement is, if no other reader saves:
\* in the snapshot that waits, else in the one that was sent (among qs), else at the server.
RowSettled(r, s, qs) ==
  (\A q \in Readers : q = r) /\ s.phase = "open" /\ ~s.moved /\ s.checksum = pdf =>
    /\ s.pending # NoSnapshot => s.pending.page = s.page
    /\ s.pending = NoSnapshot /\ s.saving =>
         \A q \in qs : q.reader = r => /\ q.state.page = s.page
                                       /\ q.answer = "ok" => place.page = s.page
    /\ s.pending = NoSnapshot /\ ~s.saving /\ s.last = "ok" => place.page = s.page

RowOK(r, s, qs) == RowInOrder(s) /\ RowQuiet(s) /\ RowSettled(r, s, qs)

ReaderInv ==
  /\ TypeOK
  /\ Sequential
  /\ place.of = pdf
  /\ \A r \in Readers : RowOK(r, reader[r], requests)
  /\ \A q \in requests : InOrder(q.state)

\* A reader keeps its turn: it does not become new again, nor return once it is gone.
KeepsTurn(r, s) ==
  /\ reader[r].phase = "gone" => s.phase = "gone"
  /\ s.phase # "new" => \/ reader[r].phase # "new"
                        \/ \A q \in Readers : q < r => reader[q].phase = "gone"

LEMMA TurnKept ==
  ASSUME reader \in [Readers -> ReaderRow], Sequential, NEW r \in Readers, NEW s, KeepsTurn(r, s),
         reader' = [reader EXCEPT ![r] = s]
  PROVE  Sequential'
<1>1. \A q \in Readers : reader'[q].phase = IF q = r THEN s.phase ELSE reader[q].phase
  OBVIOUS
<1>2. \A p, q \in Readers : p < q => p # q
  BY ReaderAssumption
<1> QED
  BY <1>1, <1>2 DEF Sequential, KeepsTurn

\* A step that changes the row of one reader and sends nothing.
LEMMA RowReplaced ==
  ASSUME ReaderInv, NEW r \in Readers, NEW s \in ReaderRow, reader' = [reader EXCEPT ![r] = s],
         UNCHANGED <<pdf, place, requests>>, KeepsTurn(r, s), s.saving = reader[r].saving,
         RowOK(r, s, requests)
  PROVE  ReaderInv'
<1>1. \A q \in Readers : reader'[q] = IF q = r THEN s ELSE reader[q]
  BY DEF ReaderInv, TypeOK
<1>2. TypeOK'
  <2>1. reader' \in [Readers -> ReaderRow]
    BY DEF ReaderInv, TypeOK
  <2>2. \A q \in Readers : reader'[q].saving = reader[q].saving
    BY <1>1
  <2>3. \A q \in requests : q.reader \in Readers
    BY DEF ReaderInv, TypeOK, Request
  <2> QED
    BY <2>1, <2>2, <2>3 DEF ReaderInv, TypeOK
<1>3. Sequential'
  BY TurnKept DEF ReaderInv, TypeOK
<1>4. \A q \in Readers : RowOK(q, reader'[q], requests)
  BY <1>1 DEF ReaderInv
<1>5. \A q \in Readers : RowOK(q, reader[q], requests)'
  BY <1>4 DEF RowOK, RowInOrder, RowQuiet, RowSettled, InOrder
<1>6. \A q \in requests' : InOrder(q.state)'
  BY DEF ReaderInv, InOrder
<1> QED
  BY <1>2, <1>3, <1>5, <1>6 DEF ReaderInv

\* A step that ends in flushReaderStateSave. The answer of the save in flight, if that is
\* what caused the step, leaves room for the next.
LEMMA RowFlushed ==
  ASSUME ReaderInv, NEW r \in Readers, NEW s \in ReaderRow, NEW others, Flush(r, s, others),
         UNCHANGED <<pdf, place>>, KeepsTurn(r, s),
         \/ others = requests /\ s.saving = reader[r].saving
         \/ ~s.saving /\ \E q \in requests : q.reader = r /\ others = requests \ {q},
         RowOK(r, s, others)
  PROVE  ReaderInv'
<1> DEFINE t == Sent(s)
           next == [reader |-> r, state |-> s.pending, answer |-> "none"]
<1>1. \A q \in Readers : reader'[q] = IF q = r THEN t ELSE reader[q]
  BY DEF ReaderInv, TypeOK, Flush
<1>2. /\ t \in ReaderRow /\ t.phase = s.phase /\ t.piece = s.piece /\ t.checksum = s.checksum
      /\ t.shown = s.shown /\ t.page = s.page /\ t.moved = s.moved /\ t.last = s.last
      /\ t.pending = (IF MaySend(s) THEN NoSnapshot ELSE s.pending)
      /\ t.saving = (MaySend(s) \/ s.saving)
  BY SentRow
<1>3. requests' = others \cup (IF MaySend(s) THEN {next} ELSE {})
  BY DEF Flush, RequestOf
<1>4. others \subseteq requests /\ requests \subseteq Request
  BY DEF ReaderInv, TypeOK
<1>5. next \in Request /\ next.reader = r /\ next.state = s.pending /\ next.answer = "none"
  BY DEF ReaderRow, Request
<1>6. ~s.saving => \A q \in others : q.reader # r
  BY DEF ReaderInv, TypeOK
<1>7. s.saving => others = requests /\ reader[r].saving
  OBVIOUS
<1>8. MaySend(s) => ~s.saving /\ s.pending # NoSnapshot
  BY DEF MaySend
<1>9. reader' = [reader EXCEPT ![r] = t]
  BY DEF Flush
<1>t. \A q \in requests : q.reader \in Readers
  BY DEF ReaderInv, TypeOK, Request
<1> HIDE DEF t, next
<1>10. TypeOK'
  <2>1. reader' \in [Readers -> ReaderRow]
    BY <1>2, <1>9 DEF ReaderInv, TypeOK
  <2>2. requests' \subseteq Request
    BY <1>3, <1>4, <1>5
  <2>3. \A q \in requests' : reader'[q.reader].saving
    BY ZenonT(60), <1>1, <1>2, <1>3, <1>4, <1>5, <1>6, <1>7, <1>8, <1>t DEF ReaderInv, TypeOK
  <2>4. \A q, p \in requests' : q.reader = p.reader => q = p
    BY <1>3, <1>4, <1>5, <1>6, <1>8 DEF ReaderInv, TypeOK
  <2>5. \A q \in Readers : reader'[q].saving => \E p \in requests' : p.reader = q
    <3> SUFFICES ASSUME NEW q \in Readers, reader'[q].saving PROVE \E p \in requests' : p.reader = q
      OBVIOUS
    <3>1. CASE q = r
      BY <3>1, <1>1, <1>2, <1>3, <1>5, <1>7 DEF ReaderInv, TypeOK
    <3>2. CASE q # r
      <4>1. PICK p \in requests : p.reader = q
        BY <3>2, <1>1 DEF ReaderInv, TypeOK
      <4>2. p \in others
        BY <3>2, <4>1
      <4> QED
        BY <4>1, <4>2, <1>3
    <3> QED
      BY <3>1, <3>2
  <2> QED
    BY <2>1, <2>2, <2>3, <2>4, <2>5 DEF ReaderInv, TypeOK
<1>11. Sequential'
  <2>1. KeepsTurn(r, t)
    BY <1>2 DEF KeepsTurn
  <2> QED
    BY <2>1, <1>9, TurnKept DEF ReaderInv, TypeOK
<1>12. RowOK(r, t, requests')
  <2>1. InOrder(NoSnapshot)
    BY DEF InOrder, NoSnapshot, NoPdf, ReaderInv, TypeOK
  <2>2. RowInOrder(t)
    BY <2>1, <1>2 DEF RowOK, RowInOrder
  <2>3. RowQuiet(t)
    BY <1>2, <1>8 DEF RowOK, RowQuiet
  <2>4. RowSettled(r, t, requests')
    <3>1. CASE MaySend(s)
      <4>1. \A q \in requests' : q.reader = r => q = next
        BY <3>1, <1>3, <1>6, <1>8
      <4>2. s.pending # NoSnapshot /\ t.pending = NoSnapshot /\ t.saving
        BY <3>1, <1>2, <1>8
      <4> QED
        BY <4>1, <4>2, <1>2, <1>5 DEF RowOK, RowSettled
    <3>2. CASE ~MaySend(s)
      BY <3>2, <1>2, <1>3 DEF RowOK, RowSettled
    <3> QED
      BY <3>1, <3>2
  <2> QED
    BY <2>2, <2>3, <2>4 DEF RowOK
<1>13. ASSUME NEW q \in Readers, q # r PROVE RowOK(q, reader[q], requests')
  BY <1>13 DEF ReaderInv, RowOK, RowSettled
<1>14. \A q \in Readers : RowOK(q, reader'[q], requests')
  BY <1>1, <1>12, <1>13
<1>15. \A q \in Readers : RowOK(q, reader[q], requests)'
  BY <1>14 DEF RowOK, RowInOrder, RowQuiet, RowSettled, InOrder
<1>16. \A q \in requests' : InOrder(q.state)
  BY <1>3, <1>4, <1>5 DEF ReaderInv, RowOK, RowInOrder
<1>17. \A q \in requests' : InOrder(q.state)'
  BY <1>16 DEF InOrder
<1> QED
  BY <1>10, <1>11, <1>15, <1>17 DEF ReaderInv

----------------------------------------------------------------------------

LEMMA InitReader == Init => ReaderInv
<1> SUFFICES ASSUME Init PROVE ReaderInv
  OBVIOUS
<1>1. /\ NewReader.phase = "new" /\ NewReader.piece = 0 /\ NewReader.checksum = 0
      /\ NewReader.pending = NoSnapshot /\ NewReader.saving = FALSE /\ NewReader.last = "none"
  BY DEF NewReader, NoPdf
<1>2. NoSnapshot.checksum = 0 /\ NoSnapshot.of = 0
  BY DEF NoSnapshot, NoPdf
<1>3. \A r \in Readers : reader[r] = NewReader
  BY DEF Init
<1>4. TypeOK
  <2>1. reader \in [Readers -> ReaderRow] /\ place \in [page : Pages, of : Nat]
    BY NewReaderType, ReaderAssumption DEF Init
  <2> QED
    BY <1>1, <1>3, <2>1 DEF Init, TypeOK
<1>5. \A r \in Readers : RowOK(r, reader[r], requests)
  <2>1. InOrder(NoSnapshot) /\ pdf = 1
    BY <1>2 DEF Init, InOrder
  <2>2. RowInOrder(NewReader) /\ RowQuiet(NewReader)
    BY <1>1, <2>1 DEF RowInOrder, RowQuiet
  <2>3. \A r \in Readers : RowSettled(r, NewReader, requests)
    BY <1>1 DEF RowSettled
  <2> QED
    BY <1>3, <2>2, <2>3 DEF RowOK
<1> QED
  BY <1>1, <1>3, <1>4, <1>5 DEF Init, ReaderInv, Sequential

\* Open and Reload.
LEMMA LoadBegins ==
  ASSUME ReaderInv, NEW r \in Readers, Open(r) \/ Reload(r)
  PROVE  ReaderInv'
<1> DEFINE s == Loading(reader[r])
<1>1. reader[r] \in ReaderRow
  BY DEF ReaderInv, TypeOK
<1>2. /\ s \in ReaderRow /\ s.phase = "loading" /\ s.piece = NoPdf /\ s.checksum = NoPdf
      /\ s.pending = NoSnapshot /\ s.saving = reader[r].saving /\ s.last = reader[r].last
  BY <1>1, LoadingRow
<1>3. reader' = [reader EXCEPT ![r] = s] /\ UNCHANGED <<pdf, place, requests>>
  BY DEF Open, Reload
<1>4. reader[r].phase \in {"new", "failed"} /\ KeepsTurn(r, s)
  BY <1>2 DEF Open, Reload, KeepsTurn
<1> HIDE DEF s
<1>5. RowOK(r, s, requests)
  BY <1>2, <1>4 DEF ReaderInv, TypeOK, RowOK, RowInOrder, RowQuiet, RowSettled, InOrder,
                    NoSnapshot, NoPdf
<1> QED
  BY <1>2, <1>3, <1>4, <1>5, RowReplaced

\* FetchPiece, FetchState, Compare and LoadFails: the reader shows no score yet.
LEMMA LoadGoesOn ==
  ASSUME ReaderInv, NEW r \in Readers, FetchPiece(r) \/ FetchState(r) \/ Compare(r) \/ LoadFails(r)
  PROVE  ReaderInv'
<1> DEFINE o == reader[r]
<1>1. o \in ReaderRow /\ pdf \in Nat /\ place \in [page : Pages, of : Nat]
  BY DEF ReaderInv, TypeOK
<1>2. /\ o.phase \in {"loading", "document"} /\ UNCHANGED <<pdf, place, requests>>
  BY DEF FetchPiece, FetchState, Compare, LoadFails
<1>3. ASSUME NEW s \in ReaderRow, reader' = [reader EXCEPT ![r] = s],
             s.phase \in {"loading", "document", "failed"}, s.piece \in {o.piece, pdf},
             s.checksum \in {o.checksum, o.piece},
             s.pending = o.pending, s.saving = o.saving, s.last = o.last
      PROVE  ReaderInv'
  <2>1. RowOK(r, s, requests)
    BY <1>1, <1>2, <1>3 DEF ReaderInv, RowOK, RowInOrder, RowQuiet, RowSettled
  <2>2. KeepsTurn(r, s)
    BY <1>2, <1>3 DEF KeepsTurn
  <2> QED
    BY <1>2, <1>3, <2>1, <2>2, RowReplaced
<1>4. CASE FetchPiece(r)
  <2> DEFINE s == [o EXCEPT !.piece = pdf]
  <2>1. /\ s \in ReaderRow /\ s.phase = o.phase /\ s.piece = pdf /\ s.checksum = o.checksum
        /\ s.pending = o.pending /\ s.saving = o.saving /\ s.last = o.last
    BY <1>1 DEF ReaderRow
  <2>2. reader' = [reader EXCEPT ![r] = s]
    BY <1>4 DEF FetchPiece
  <2> HIDE DEF s
  <2> QED
    BY <1>2, <1>3, <2>1, <2>2
<1>5. CASE FetchState(r)
  <2> DEFINE snapshot == [checksum |-> pdf, page |-> place.page, of |-> place.of]
             s == [o EXCEPT !.state = snapshot]
  <2>1. snapshot \in Snapshot
    BY <1>1 DEF Snapshot
  <2>2. reader' = [reader EXCEPT ![r] = s]
    BY <1>5 DEF FetchState
  <2> HIDE DEF snapshot
  <2>3. /\ s \in ReaderRow /\ s.phase = o.phase /\ s.piece = o.piece /\ s.checksum = o.checksum
        /\ s.pending = o.pending /\ s.saving = o.saving /\ s.last = o.last
    BY <1>1, <2>1 DEF ReaderRow
  <2> HIDE DEF s
  <2> QED
    BY <1>2, <1>3, <2>2, <2>3
<1>6. CASE Compare(r)
  <2>1. PICK s \in {[o EXCEPT !.phase = "document", !.checksum = o.piece], [o EXCEPT !.phase = "failed"]} :
          reader' = [reader EXCEPT ![r] = s]
    BY <1>6 DEF Compare
  <2>2. o.piece \in Nat
    BY <1>1 DEF ReaderRow
  <2>3. /\ s \in ReaderRow /\ s.phase \in {"document", "failed"} /\ s.piece = o.piece
        /\ s.checksum \in {o.checksum, o.piece}
        /\ s.pending = o.pending /\ s.saving = o.saving /\ s.last = o.last
    <3> HIDE DEF o
    <3>1. CASE s = [o EXCEPT !.phase = "document", !.checksum = o.piece]
      BY <1>1, <2>2, <3>1 DEF ReaderRow
    <3>2. CASE s = [o EXCEPT !.phase = "failed"]
      BY <1>1, <3>2 DEF ReaderRow
    <3> QED
      BY <2>1, <3>1, <3>2
  <2> QED
    BY <1>3, <2>1, <2>3
<1>7. CASE LoadFails(r)
  <2> DEFINE s == [o EXCEPT !.phase = "failed"]
  <2>1. /\ s \in ReaderRow /\ s.phase = "failed" /\ s.piece = o.piece /\ s.checksum = o.checksum
        /\ s.pending = o.pending /\ s.saving = o.saving /\ s.last = o.last
    BY <1>1 DEF ReaderRow
  <2>2. reader' = [reader EXCEPT ![r] = s]
    BY <1>7 DEF LoadFails
  <2> HIDE DEF s
  <2> QED
    BY <1>3, <2>1, <2>2
<1> QED
  BY <1>4, <1>5, <1>6, <1>7

\* The document that is shown is no older than the checksum of the load.
LEMMA LoadEnds ==
  ASSUME ReaderInv, NEW r \in Readers, LoadDocument(r)
  PROVE  ReaderInv'
<1> DEFINE o == reader[r]
           s == [o EXCEPT !.phase = "open", !.shown = pdf, !.page = o.state.page, !.moved = FALSE]
<1>1. o \in ReaderRow /\ o.phase = "document" /\ pdf \in Nat
  BY DEF ReaderInv, TypeOK, LoadDocument
<1>2. o.state.page \in Pages
  BY <1>1 DEF ReaderRow, Snapshot
<1>3. /\ s \in ReaderRow /\ s.phase = "open" /\ s.shown = pdf /\ s.piece = o.piece
      /\ s.checksum = o.checksum /\ s.pending = o.pending /\ s.saving = o.saving /\ s.last = o.last
  BY <1>1, <1>2 DEF ReaderRow
<1>4. reader' = [reader EXCEPT ![r] = s] /\ UNCHANGED <<pdf, place, requests>>
  BY DEF LoadDocument
<1> HIDE DEF s
<1>5. RowOK(r, s, requests)
  BY <1>1, <1>3 DEF ReaderInv, RowOK, RowInOrder, RowQuiet, RowSettled
<1>6. KeepsTurn(r, s)
  BY <1>1, <1>3 DEF KeepsTurn
<1> QED
  BY <1>3, <1>4, <1>5, <1>6, RowReplaced

LEMMA PageTurned ==
  ASSUME ReaderInv, NEW r \in Readers, NEW page \in Pages, Turn(r, page)
  PROVE  ReaderInv'
<1> DEFINE o == reader[r]
           t == [o EXCEPT !.page = page, !.moved = TRUE]
           s == QueueSave(t)
<1>1. o \in ReaderRow /\ o.phase = "open"
  BY DEF ReaderInv, TypeOK, Turn
<1>2. /\ t \in ReaderRow /\ t.phase = o.phase /\ t.piece = o.piece /\ t.checksum = o.checksum
      /\ t.shown = o.shown /\ t.pending = o.pending /\ t.saving = o.saving /\ t.moved
  BY <1>1 DEF ReaderRow
<1>3. reader' = [reader EXCEPT ![r] = s] /\ UNCHANGED <<pdf, place, requests>>
  BY DEF Turn
<1> HIDE DEF t
<1>4. /\ s \in ReaderRow /\ s.phase = "open" /\ s.piece = o.piece /\ s.checksum = o.checksum
      /\ s.shown = o.shown /\ s.pending = o.pending /\ s.saving = o.saving /\ s.moved
  BY <1>1, <1>2, QueueSaveRow
<1> HIDE DEF s
<1>5. RowOK(r, s, requests)
  BY <1>1, <1>4 DEF ReaderInv, RowOK, RowInOrder, RowQuiet, RowSettled
<1>6. KeepsTurn(r, s)
  BY <1>1, <1>4 DEF KeepsTurn
<1> QED
  BY <1>3, <1>4, <1>5, <1>6, RowReplaced

LEMMA KeyPressed ==
  ASSUME ReaderInv, NEW r \in Readers, StrayKey(r)
  PROVE  ReaderInv'
<1> DEFINE o == reader[r]
           s == QueueSave(o)
<1>1. o \in ReaderRow /\ o.phase \in {"loading", "document", "failed"}
  BY DEF ReaderInv, TypeOK, StrayKey
<1>2. reader' = [reader EXCEPT ![r] = s] /\ UNCHANGED <<pdf, place, requests>>
  BY DEF StrayKey
<1>3. /\ s \in ReaderRow /\ s.phase = o.phase /\ s.piece = o.piece /\ s.checksum = o.checksum
      /\ s.pending = o.pending /\ s.saving = o.saving /\ s.last = o.last
  BY <1>1, QueueSaveRow
<1> HIDE DEF s
<1>4. RowOK(r, s, requests)
  BY <1>1, <1>3 DEF ReaderInv, RowOK, RowInOrder, RowQuiet, RowSettled
<1>5. KeepsTurn(r, s)
  BY <1>1, <1>3 DEF KeepsTurn
<1> QED
  BY <1>2, <1>3, <1>4, <1>5, RowReplaced

\* saveNow from a reader that can save: the snapshot is of the PDF and the page shown.
LEMMA SnapshotOK ==
  ASSUME ReaderInv, NEW r \in Readers, NEW s \in ReaderRow, CanSave(s),
         s.phase = reader[r].phase, s.piece = reader[r].piece, s.checksum = reader[r].checksum,
         s.shown = reader[r].shown, s.saving = reader[r].saving
  PROVE  RowOK(r, TakeSnapshot(s), requests) /\ TakeSnapshot(s) \in ReaderRow
         /\ TakeSnapshot(s).phase = "open" /\ TakeSnapshot(s).saving = reader[r].saving
<1> DEFINE t == TakeSnapshot(s)
<1>1. /\ t \in ReaderRow /\ t.phase = "open" /\ t.piece = s.piece /\ t.checksum = s.checksum
      /\ t.shown = s.shown /\ t.page = s.page /\ t.saving = s.saving
      /\ t.pending = [checksum |-> s.checksum, page |-> s.page, of |-> s.shown]
  BY TakeSnapshotRow DEF CanSave
<1>2. /\ t.pending.checksum = s.checksum /\ t.pending.page = s.page /\ t.pending.of = s.shown
      /\ t.pending # NoSnapshot
  BY <1>1 DEF CanSave, NoSnapshot
<1> HIDE DEF t
<1>3. reader[r].phase = "open"
  BY DEF CanSave
<1>4. RowOK(r, t, requests)
  BY <1>1, <1>2, <1>3 DEF ReaderInv, RowOK, RowInOrder, RowQuiet, RowSettled, InOrder
<1> QED
  BY <1>1, <1>4 DEF t

\* SaveTimerFires, CheckpointFires, SaveNow and Destroy: saveNow, from a row whose timers may
\* have changed, or a flush of what waits.
LEMMA Saves ==
  ASSUME ReaderInv, NEW r \in Readers, NEW s \in ReaderRow, UNCHANGED <<pdf, place>>,
         s.phase = reader[r].phase, s.piece = reader[r].piece, s.checksum = reader[r].checksum,
         s.shown = reader[r].shown, s.page = reader[r].page, s.pending = reader[r].pending,
         s.saving = reader[r].saving, s.moved = reader[r].moved, s.last = reader[r].last,
         Flush(r, s, requests)
  PROVE  ReaderInv'
<1>1. RowOK(r, s, requests)
  BY DEF ReaderInv, RowOK, RowInOrder, RowQuiet, RowSettled
<1>2. KeepsTurn(r, s)
  BY DEF KeepsTurn
<1> QED
  BY <1>1, <1>2, RowFlushed

LEMMA SavesSnapshot ==
  ASSUME ReaderInv, NEW r \in Readers, NEW s \in ReaderRow, CanSave(s), UNCHANGED <<pdf, place>>,
         s.phase = reader[r].phase, s.piece = reader[r].piece, s.checksum = reader[r].checksum,
         s.shown = reader[r].shown, s.saving = reader[r].saving,
         Flush(r, TakeSnapshot(s), requests)
  PROVE  ReaderInv'
<1> DEFINE t == TakeSnapshot(s)
<1>1. RowOK(r, t, requests) /\ t \in ReaderRow /\ t.phase = "open" /\ t.saving = reader[r].saving
  BY SnapshotOK
<1>2. reader[r].phase = "open" /\ Flush(r, t, requests)
  BY DEF CanSave
<1> HIDE DEF t
<1>3. KeepsTurn(r, t)
  BY <1>1, <1>2 DEF KeepsTurn
<1> QED
  BY <1>1, <1>2, <1>3, RowFlushed

\* The two timers and the saves the reader's controls ask for.
LEMMA TimersAndSaves ==
  ASSUME ReaderInv, NEW r \in Readers,
         (\E n \in {1, 2} : SaveTimerFires(r, n)) \/ CheckpointFires(r) \/ SaveNow(r)
  PROVE  ReaderInv'
<1> DEFINE o == reader[r]
<1>1. o \in ReaderRow
  BY DEF ReaderInv, TypeOK
<1>2. ASSUME NEW n \in {1, 2}, SaveTimerFires(r, n) PROVE ReaderInv'
  <2> DEFINE s == [o EXCEPT !.timer = 0]
  <2>1. 0 \in 0..2 /\ \A n0 \in 0..2 : LET s0 == [o EXCEPT !.timer = n0] IN
          /\ s0 \in ReaderRow /\ s0.phase = o.phase /\ s0.piece = o.piece /\ s0.checksum = o.checksum
          /\ s0.shown = o.shown /\ s0.page = o.page /\ s0.pending = o.pending /\ s0.saving = o.saving
          /\ s0.moved = o.moved /\ s0.last = o.last
    BY <1>1 DEF ReaderRow
  <2>2. /\ s \in ReaderRow /\ s.phase = o.phase /\ s.piece = o.piece /\ s.checksum = o.checksum
        /\ s.shown = o.shown /\ s.page = o.page /\ s.pending = o.pending /\ s.saving = o.saving
        /\ s.moved = o.moved /\ s.last = o.last
    BY <2>1
  <2>3. Flush(r, IF CanSave(s) THEN TakeSnapshot(s) ELSE s, requests) /\ UNCHANGED <<pdf, place>>
    BY <1>2 DEF SaveTimerFires
  <2> HIDE DEF s
  <2> QED
    BY <2>2, <2>3, Saves, SavesSnapshot
<1>3. CASE CheckpointFires(r)
  <2> DEFINE s == [o EXCEPT !.checkpoint = "spent"]
  <2>1. /\ s \in ReaderRow /\ s.phase = o.phase /\ s.piece = o.piece /\ s.checksum = o.checksum
        /\ s.shown = o.shown /\ s.page = o.page /\ s.pending = o.pending /\ s.saving = o.saving
        /\ s.moved = o.moved /\ s.last = o.last
    BY <1>1 DEF ReaderRow
  <2>2. Flush(r, IF CanSave(o) THEN TakeSnapshot(o) ELSE s, requests) /\ UNCHANGED <<pdf, place>>
    BY <1>3 DEF CheckpointFires
  <2> HIDE DEF s
  <2> QED
    BY <1>1, <2>1, <2>2, Saves, SavesSnapshot
<1>4. CASE SaveNow(r)
  BY <1>1, <1>4, SavesSnapshot DEF SaveNow
<1> QED
  BY <1>2, <1>3, <1>4

LEMMA ReaderLeft ==
  ASSUME ReaderInv, NEW r \in Readers, Destroy(r)
  PROVE  ReaderInv'
<1> DEFINE o == reader[r]
           saved == IF CanSave(o) THEN TakeSnapshot(o) ELSE o
           s == [saved EXCEPT !.phase = "gone", !.timer = 0, !.checkpoint = "unset"]
<1>1. o \in ReaderRow /\ o.phase \in {"loading", "document", "open", "failed"}
  BY DEF ReaderInv, TypeOK, Destroy
<1>2. saved \in ReaderRow /\ saved.saving = o.saving /\ RowOK(r, saved, requests)
  BY <1>1, SnapshotOK DEF ReaderInv
<1>3. Flush(r, s, requests) /\ UNCHANGED <<pdf, place>>
  BY DEF Destroy
<1> HIDE DEF saved
<1>4. /\ s \in ReaderRow /\ s.phase = "gone" /\ s.piece = saved.piece /\ s.checksum = saved.checksum
      /\ s.pending = saved.pending /\ s.saving = saved.saving
  <2>1. \A n \in 0..2, c \in {"unset", "set", "spent"} :
          LET t == [saved EXCEPT !.phase = "gone", !.timer = n, !.checkpoint = c]
          IN  /\ t \in ReaderRow /\ t.phase = "gone" /\ t.piece = saved.piece
              /\ t.checksum = saved.checksum /\ t.pending = saved.pending /\ t.saving = saved.saving
    BY <1>2 DEF ReaderRow
  <2>2. 0 \in 0..2
    OBVIOUS
  <2> QED
    BY <2>1, <2>2
<1> HIDE DEF s
<1>5. RowOK(r, s, requests)
  BY <1>2, <1>4 DEF RowOK, RowInOrder, RowQuiet, RowSettled
<1>6. KeepsTurn(r, s)
  BY <1>1, <1>4 DEF KeepsTurn
<1> QED
  BY <1>2, <1>3, <1>4, <1>5, <1>6, RowFlushed

\* The API handles a save. The row of the reader it is from waits for its answer.
LEMMA SaveHandled ==
  ASSUME ReaderInv, NEW q \in requests, Handle(q)
  PROVE  ReaderInv'
<1> DEFINE a == IF Accepts(q) THEN "ok" ELSE "conflict"
           p == [q EXCEPT !.answer = a]
<1>1. /\ q \in Request /\ q.reader \in Readers /\ q.state \in Snapshot /\ pdf \in Nat
      /\ requests \subseteq Request
  BY DEF ReaderInv, TypeOK, Request
<1>2. /\ p \in Request /\ p.reader = q.reader /\ p.state = q.state /\ p.answer = a
  BY <1>1 DEF Request
<1>3. /\ requests' = (requests \ {q}) \cup {p}
      /\ place' = IF Accepts(q) THEN [page |-> q.state.page, of |-> q.state.of] ELSE place
      /\ UNCHANGED <<pdf, reader>>
  BY DEF Handle
<1> HIDE DEF p
<1>4. place'.of = pdf' /\ place' \in [page : Pages, of : Nat]
  <2>1. CASE Accepts(q)
    BY <2>1, <1>1, <1>3 DEF Accepts, ReaderInv, InOrder, Snapshot
  <2>2. CASE ~Accepts(q)
    BY <2>2, <1>3 DEF ReaderInv, TypeOK
  <2> QED
    BY <2>1, <2>2
<1>5. TypeOK'
  <2>1. \A w \in requests' : \E v \in requests : v.reader = w.reader
    BY <1>2, <1>3
  <2>2. \A w, v \in requests' : w.reader = v.reader => w = v
    BY <1>2, <1>3 DEF ReaderInv, TypeOK
  <2>3. \A r \in Readers : reader[r].saving => \E w \in requests' : w.reader = r
    BY <1>2, <1>3 DEF ReaderInv, TypeOK
  <2>4. requests' \subseteq Request
    BY <1>1, <1>2, <1>3
  <2> QED
    BY <1>3, <1>4, <2>1, <2>2, <2>3, <2>4 DEF ReaderInv, TypeOK
<1>6. ASSUME NEW r \in Readers PROVE RowSettled(r, reader[r], requests)'
  <2> SUFFICES ASSUME \A u \in Readers : u = r, reader'[r].phase = "open", ~reader'[r].moved,
                      reader'[r].checksum = pdf'
               PROVE  /\ reader'[r].pending # NoSnapshot => reader'[r].pending.page = reader'[r].page
                      /\ reader'[r].pending = NoSnapshot /\ reader'[r].saving =>
                           \A w \in requests' : w.reader = r =>
                             /\ w.state.page = reader'[r].page
                             /\ w.answer = "ok" => place'.page = reader'[r].page
                      /\ reader'[r].pending = NoSnapshot /\ ~reader'[r].saving /\ reader'[r].last = "ok" =>
                           place'.page = reader'[r].page
    BY DEF RowSettled
  <2> DEFINE s == reader[r]
  <2>0. reader'[r] = s /\ s.checksum = pdf
    BY <1>3
  <2>1. q.reader = r /\ s.saving
    BY <1>1 DEF ReaderInv, TypeOK
  <2>2. \A w \in requests' : w = p
    BY <1>1, <1>3, <2>1 DEF ReaderInv, TypeOK, Request
  <2>3. s.pending = NoSnapshot => q.state.page = s.page
    BY <2>0, <2>1 DEF ReaderInv, RowOK, RowSettled
  <2>4. Accepts(q) => place'.page = q.state.page
    BY <1>3
  <2>5. p.answer = "ok" => Accepts(q)
    BY <1>2
  <2> QED
    BY <1>2, <2>0, <2>1, <2>2, <2>3, <2>4, <2>5 DEF ReaderInv, RowOK, RowSettled
<1>7. \A r \in Readers : RowOK(r, reader[r], requests)'
  BY <1>3, <1>6 DEF ReaderInv, RowOK, RowInOrder, RowQuiet, InOrder
<1>8. (\A w \in requests : InOrder(w.state))'
  BY <1>2, <1>3 DEF ReaderInv, InOrder
<1>9. Sequential'
  BY <1>3 DEF ReaderInv, Sequential
<1> QED
  BY <1>4, <1>5, <1>7, <1>8, <1>9 DEF ReaderInv

\* The answer arrives: the next snapshot goes out, or a conflict ends the reading.
LEMMA AnswerArrives ==
  ASSUME ReaderInv, NEW q \in requests, NEW result \in {"ok", "conflict", "failed"}, Deliver(q, result)
  PROVE  ReaderInv'
<1> DEFINE r == q.reader
           o == reader[r]
           s == Answered(o, q, result)
<1>1. /\ r \in Readers /\ o \in ReaderRow /\ o.saving /\ pdf \in Nat /\ q \in Request
  BY DEF ReaderInv, TypeOK, Request
<1>2. Flush(r, s, requests \ {q}) /\ UNCHANGED <<pdf, place>>
      /\ (result = "ok" => q.answer = "ok")
  BY DEF Deliver
<1>3. AfterAnswer(s, o, result)
  BY <1>1, AnsweredRow
<1> HIDE DEF s
<1>4. o.phase \in {"open", "gone"}
  BY <1>1 DEF ReaderInv, RowOK, RowQuiet, ReaderRow
<1>5. InOrder(NoSnapshot)
  BY <1>1 DEF InOrder, NoSnapshot, NoPdf
<1>6. RowInOrder(s) /\ RowQuiet(s)
  BY <1>1, <1>3, <1>4, <1>5 DEF AfterAnswer, ReaderInv, RowOK, RowInOrder, RowQuiet
<1>7. RowSettled(r, s, requests \ {q})
  BY <1>1, <1>2, <1>3, <1>4 DEF AfterAnswer, ReaderInv, RowOK, RowSettled
<1>8. KeepsTurn(r, s)
  BY <1>3, <1>4 DEF AfterAnswer, KeepsTurn
<1> QED
  BY <1>1, <1>2, <1>3, <1>6, <1>7, <1>8, RowFlushed DEF AfterAnswer, RowOK

LEMMA PdfReplaced == ASSUME ReaderInv, Publish PROVE ReaderInv'
<1>1. pdf' = pdf + 1 /\ place' = [page |-> 1, of |-> pdf + 1] /\ UNCHANGED <<reader, requests>>
  BY DEF Publish, PlaceReset
<1>2. pdf \in Nat /\ \A r \in Readers : reader[r] \in ReaderRow
  BY DEF ReaderInv, TypeOK
<1>3. TypeOK'
  BY <1>1, <1>2, ReaderAssumption DEF ReaderInv, TypeOK
<1>4. ASSUME NEW r \in Readers PROVE RowOK(r, reader[r], requests)'
  <2>1. /\ reader[r].piece \in Nat /\ reader[r].checksum \in Nat /\ reader[r].shown \in Nat
        /\ reader[r].pending.of \in Nat
    BY <1>2 DEF ReaderRow, Snapshot
  <2>2. RowInOrder(reader[r])' /\ RowQuiet(reader[r])'
    BY <1>1, <1>2, <2>1 DEF ReaderInv, RowOK, RowInOrder, RowQuiet, InOrder
  <2>3. reader[r].checksum # pdf'
    BY <1>1, <1>2, <2>1 DEF ReaderInv, RowOK, RowInOrder
  <2>4. RowSettled(r, reader[r], requests)'
    BY <1>1, <2>3 DEF RowSettled
  <2> QED
    BY <2>2, <2>4 DEF RowOK
<1>5. (\A q \in requests : InOrder(q.state))'
  BY <1>1, <1>2 DEF ReaderInv, TypeOK, InOrder, Request, Snapshot
<1>6. Sequential'
  BY <1>1 DEF ReaderInv, Sequential
<1> QED
  BY <1>1, <1>3, <1>4, <1>5, <1>6 DEF ReaderInv

LEMMA ReaderUnchanged == ASSUME ReaderInv, UNCHANGED vars PROVE ReaderInv'
BY DEF ReaderInv, TypeOK, Sequential, RowOK, RowInOrder, RowQuiet, RowSettled, InOrder, vars

\* Every step of the reader keeps ReaderInv.
LEMMA ReaderInvStep == ReaderInv /\ [Next]_vars => ReaderInv'
BY LoadBegins, LoadGoesOn, LoadEnds, PageTurned, KeyPressed, TimersAndSaves, ReaderLeft,
   SaveHandled,
   AnswerArrives, PdfReplaced, ReaderUnchanged DEF Next, ReaderStep, RequestStep

\* The strengthened invariant of the reading position holds throughout the life of the readers.
THEOREM ReaderInvariant == Spec => []ReaderInv
BY InitReader, ReaderInvStep, PTL DEF Spec

\* Types, and flushReaderStateSave's rule: one save of a reader at a time is on its way, and
\* readerStateSaveInFlight says so.
THEOREM ReaderTypeCorrect == Spec => []TypeOK
<1>1. ReaderInv => TypeOK
  BY DEF ReaderInv
<1> QED
  BY <1>1, ReaderInvariant, PTL

\* PutReaderState and FinalizeImport: whatever is published while readers load, read and save,
\* the saved place is one that was reached in the PDF the piece has.
THEOREM PlaceFollowsPublication == Spec => []PlaceSeenInCurrentPdf
<1>1. ReaderInv => PlaceSeenInCurrentPdf
  BY DEF ReaderInv, PlaceSeenInCurrentPdf
<1> QED
  BY <1>1, ReaderInvariant, PTL

\* A single reader whose movements are saved, and accepted, finds the page it shows at the
\* server: flushReaderStateSave never lets an older snapshot overtake a newer one.
THEOREM LatestPlaceIsSaved ==
  ASSUME \A q, r \in Readers : q = r
  PROVE  Spec => []SettledReaderIsSaved
<1>1. ReaderInv => SettledReaderIsSaved
  BY DEF ReaderInv, RowOK, RowSettled, SettledReaderIsSaved, Settled
<1> QED
  BY <1>1, ReaderInvariant, PTL

----------------------------------------------------------------------------
(***************************************************************************)
(* The wake lock's safety for any number of generations, requests and      *)
(* answers. That a lock is never missing needs one fact beyond what is     *)
(* held, PendingIsLatest: the class waits only for the request of the      *)
(* present generation, and only while it wants a lock. The type invariant  *)
(* is split into its flags and its generations, which no backend proves    *)
(* together.                                                               *)
(***************************************************************************)

Flags == active \in BOOLEAN /\ visible \in BOOLEAN /\ refused \in BOOLEAN

Generations ==
  /\ generation \in Nat
  /\ pending \in outstanding \cup {Wake!None}
  /\ outstanding \subseteq 1..generation
  /\ kept \subseteq 1..generation
  /\ sentinel \in kept \cup {Wake!None}

PendingIsLatest ==
  pending # Wake!None => pending = generation /\ active /\ visible /\ sentinel = Wake!None

LockInv ==
  /\ Flags
  /\ Generations
  /\ Wake!KeptLockIsHeld
  /\ Wake!NoLockWithoutReader
  /\ PendingIsLatest
  /\ Wake!LockForActiveReader

----------------------------------------------------------------------------

\* acquire() makes a new generation for a request or for none.
LEMMA AcquireGenerations ==
  ASSUME Generations, NEW a \in BOOLEAN, NEW v \in BOOLEAN, Wake!Acquire(a, v),
         UNCHANGED <<sentinel, kept>>
  PROVE  Generations'
<1>1. CASE /\ generation' = generation + 1 /\ pending' = generation'
           /\ outstanding' = outstanding \cup {generation'}
  BY <1>1 DEF Generations, Wake!None
<1>2. CASE generation' = generation + 1 /\ outstanding' = outstanding /\ pending' = pending
  BY <1>2 DEF Generations, Wake!None
<1>3. CASE UNCHANGED <<generation, outstanding, pending>>
  BY <1>3 DEF Generations, Wake!None
<1>4. QED BY <1>1, <1>2, <1>3, Zenon DEF Wake!Acquire

LEMMA GiveUpGenerations == Generations /\ Wake!GiveUp => Generations'
BY DEF Generations, Wake!GiveUp, Wake!ReleaseHeldLock, Wake!None

LEMMA GrantGenerations ==
  ASSUME NEW g \in outstanding, Generations, Wake!Grant(g) PROVE Generations'
<1>1. CASE sentinel' = g /\ kept' = kept \cup {g}
  BY <1>1 DEF Generations, Wake!None, Wake!Grant, Wake!PendingAfter
<1>2. CASE UNCHANGED <<sentinel, kept>>
  BY <1>2 DEF Generations, Wake!None, Wake!Grant, Wake!PendingAfter
<1>3. QED BY <1>1, <1>2 DEF Wake!Grant

----------------------------------------------------------------------------

LEMMA InitLock == Wake!Init => LockInv
<1>1. Wake!Init => Flags BY DEF Wake!Init, Flags
<1>2. Wake!Init => Generations BY DEF Wake!Init, Generations, Wake!None
<1>3. Wake!Init => Wake!KeptLockIsHeld BY DEF Wake!Init, Wake!KeptLockIsHeld
<1>4. Wake!Init => Wake!NoLockWithoutReader BY DEF Wake!Init, Wake!NoLockWithoutReader
<1>5. Wake!Init => PendingIsLatest BY DEF Wake!Init, PendingIsLatest
<1>6. Wake!Init => Wake!LockForActiveReader BY DEF Wake!Init, Wake!LockForActiveReader
<1>7. QED BY <1>1, <1>2, <1>3, <1>4, <1>5, <1>6 DEF LockInv

LEMMA StartLock == ASSUME LockInv, Wake!Start PROVE LockInv'
<1> USE DEF LockInv
<1>1. Flags' BY DEF Flags, Wake!Start, Wake!Acquire
<1>2. Generations' BY AcquireGenerations DEF Wake!Start, Flags
<1>3. Wake!KeptLockIsHeld'
  BY DEF Wake!KeptLockIsHeld, Generations, Wake!None, Wake!Start, Wake!Acquire
<1>4. Wake!NoLockWithoutReader'
    BY DEF Wake!NoLockWithoutReader, Wake!KeptLockIsHeld, Flags, Generations, Wake!None,
           Wake!Start, Wake!Acquire
<1>5. PendingIsLatest'
  BY DEF PendingIsLatest, Flags, Generations, Wake!None, Wake!Start, Wake!Acquire
<1>6. Wake!LockForActiveReader'
    BY DEF Wake!LockForActiveReader, PendingIsLatest, Flags, Generations, Wake!None, Wake!Start,
           Wake!Acquire
<1>7. QED BY <1>1, <1>2, <1>3, <1>4, <1>5, <1>6

LEMMA StopLock == ASSUME LockInv, Wake!Stop PROVE LockInv'
<1> USE DEF LockInv
<1>1. Flags' BY DEF Flags, Wake!Stop, Wake!GiveUp, Wake!ReleaseHeldLock
<1>2. Generations' BY GiveUpGenerations DEF Wake!Stop
<1>3. Wake!KeptLockIsHeld'
  BY DEF Wake!KeptLockIsHeld, Generations, Wake!None, Wake!Stop, Wake!GiveUp, Wake!ReleaseHeldLock
<1>4. Wake!NoLockWithoutReader'
    BY DEF Wake!NoLockWithoutReader, Wake!KeptLockIsHeld, Flags, Generations, Wake!None, Wake!Stop,
           Wake!GiveUp,
         Wake!ReleaseHeldLock
<1>5. PendingIsLatest'
    BY DEF PendingIsLatest, Flags, Generations, Wake!None, Wake!Stop, Wake!GiveUp,
           Wake!ReleaseHeldLock
<1>6. Wake!LockForActiveReader'
    BY DEF Wake!LockForActiveReader, PendingIsLatest, Flags, Generations, Wake!None, Wake!Stop,
           Wake!GiveUp,
         Wake!ReleaseHeldLock
<1>7. QED BY <1>1, <1>2, <1>3, <1>4, <1>5, <1>6

LEMMA ShowLock == ASSUME LockInv, Wake!Show PROVE LockInv'
<1> USE DEF LockInv
<1>1. Flags' BY DEF Flags, Wake!Show, Wake!Acquire
<1>2. Generations' BY AcquireGenerations DEF Wake!Show, Flags
<1>3. Wake!KeptLockIsHeld'
  BY DEF Wake!KeptLockIsHeld, Generations, Wake!None, Wake!Show, Wake!Acquire
<1>4. Wake!NoLockWithoutReader'
    BY DEF Wake!NoLockWithoutReader, Wake!KeptLockIsHeld, Flags, Generations, Wake!None, Wake!Show,
           Wake!Acquire
<1>5. PendingIsLatest'
  BY DEF PendingIsLatest, Flags, Generations, Wake!None, Wake!Show, Wake!Acquire
<1>6. Wake!LockForActiveReader'
    BY DEF Wake!LockForActiveReader, PendingIsLatest, Flags, Generations, Wake!None, Wake!Show,
           Wake!Acquire
<1>7. QED BY <1>1, <1>2, <1>3, <1>4, <1>5, <1>6

LEMMA HideLock == ASSUME LockInv, Wake!Hide PROVE LockInv'
<1> USE DEF LockInv
<1>1. Flags' BY DEF Flags, Wake!Hide, Wake!GiveUp, Wake!ReleaseHeldLock
<1>2. Generations' BY GiveUpGenerations DEF Wake!Hide, Generations
<1>3. Wake!KeptLockIsHeld'
  BY DEF Wake!KeptLockIsHeld, Generations, Wake!None, Wake!Hide, Wake!GiveUp, Wake!ReleaseHeldLock
<1>4. Wake!NoLockWithoutReader'
    BY DEF Wake!NoLockWithoutReader, Wake!KeptLockIsHeld, Flags, Generations, Wake!None, Wake!Hide,
           Wake!GiveUp,
         Wake!ReleaseHeldLock
<1>5. PendingIsLatest'
    BY DEF PendingIsLatest, Flags, Generations, Wake!None, Wake!Hide, Wake!GiveUp,
           Wake!ReleaseHeldLock
<1>6. Wake!LockForActiveReader'
    BY DEF Wake!LockForActiveReader, PendingIsLatest, Flags, Generations, Wake!None, Wake!Hide,
           Wake!GiveUp,
         Wake!ReleaseHeldLock
<1>7. QED BY <1>1, <1>2, <1>3, <1>4, <1>5, <1>6

LEMMA ActivityLock == ASSUME LockInv, Wake!Activity PROVE LockInv'
<1> USE DEF LockInv
<1>1. Flags' BY DEF Flags, Wake!Activity, Wake!Acquire
<1>2. Generations' BY AcquireGenerations DEF Wake!Activity, Flags
<1>3. Wake!KeptLockIsHeld'
  BY DEF Wake!KeptLockIsHeld, Generations, Wake!None, Wake!Activity, Wake!Acquire
<1>4. Wake!NoLockWithoutReader'
    BY DEF Wake!NoLockWithoutReader, Wake!KeptLockIsHeld, Flags, Generations, Wake!None,
           Wake!Activity, Wake!Acquire
<1>5. PendingIsLatest'
  BY DEF PendingIsLatest, Flags, Generations, Wake!None, Wake!Activity, Wake!Acquire
<1>6. Wake!LockForActiveReader'
    BY DEF Wake!LockForActiveReader, PendingIsLatest, Flags, Generations, Wake!None, Wake!Activity,
           Wake!Acquire
<1>7. QED BY <1>1, <1>2, <1>3, <1>4, <1>5, <1>6

LEMMA GrantLock == ASSUME NEW g \in outstanding, LockInv, Wake!Grant(g) PROVE LockInv'
<1> USE DEF LockInv
<1>1. Flags' BY DEF Flags, Wake!Grant, Wake!PendingAfter, Wake!Wanted
<1>2. Generations' BY GrantGenerations
<1>3. Wake!KeptLockIsHeld'
  <2>1. CASE Wake!Wanted(g) /\ sentinel' = g /\ kept' = kept \cup {g}
    <3>1. kept = {} BY <2>1 DEF Wake!KeptLockIsHeld, Generations, Wake!None, Wake!Wanted
    <3>2. QED BY <2>1, <3>1 DEF Wake!KeptLockIsHeld
  <2>2. CASE UNCHANGED <<sentinel, kept>> BY <2>2 DEF Wake!KeptLockIsHeld
  <2>3. QED BY <2>1, <2>2 DEF Wake!Grant
<1>4. Wake!NoLockWithoutReader'
    BY DEF Wake!NoLockWithoutReader, Wake!KeptLockIsHeld, Flags, Generations, Wake!None,
           Wake!Grant, Wake!PendingAfter,
         Wake!Wanted
<1>5. PendingIsLatest'
    BY DEF PendingIsLatest, Flags, Generations, Wake!None, Wake!Grant, Wake!PendingAfter,
           Wake!Wanted
<1>6. Wake!LockForActiveReader'
  <2>1. CASE pending = g
    <3>1. g # Wake!None BY DEF Generations, Wake!None
    <3>2. Wake!Wanted(g) BY <2>1, <3>1 DEF PendingIsLatest, Wake!Wanted
    <3>3. sentinel' = g \/ refused' BY <3>2 DEF Wake!Grant
    <3>4. QED BY <3>1, <3>3 DEF Wake!LockForActiveReader
  <2>2. CASE pending # g
    <3>1. pending' = pending BY <2>2 DEF Wake!Grant, Wake!PendingAfter
    <3>2. active' = active /\ visible' = visible BY DEF Wake!Grant
    <3>3. sentinel' = g \/ (sentinel' = sentinel /\ (~refused' => ~refused)) BY DEF Wake!Grant
    <3>4. g # Wake!None BY DEF Generations, Wake!None
    <3>5. QED BY <3>1, <3>2, <3>3, <3>4 DEF Wake!LockForActiveReader
  <2>3. QED BY <2>1, <2>2
<1>7. QED BY <1>1, <1>2, <1>3, <1>4, <1>5, <1>6

LEMMA DenyLock == ASSUME NEW g \in outstanding, LockInv, Wake!Deny(g) PROVE LockInv'
<1> USE DEF LockInv
<1>1. Flags' BY DEF Flags, Wake!Deny, Wake!PendingAfter
<1>2. Generations' BY DEF Generations, Wake!None, Wake!Deny, Wake!PendingAfter
<1>3. Wake!KeptLockIsHeld'
  BY DEF Wake!KeptLockIsHeld, Generations, Wake!None, Wake!Deny, Wake!PendingAfter
<1>4. Wake!NoLockWithoutReader'
    BY DEF Wake!NoLockWithoutReader, Wake!KeptLockIsHeld, Flags, Generations, Wake!None, Wake!Deny,
           Wake!PendingAfter
<1>5. PendingIsLatest'
  BY DEF PendingIsLatest, Flags, Generations, Wake!None, Wake!Deny, Wake!PendingAfter
<1>6. Wake!LockForActiveReader'
    BY DEF Wake!LockForActiveReader, PendingIsLatest, Flags, Generations, Wake!None, Wake!Deny,
           Wake!PendingAfter
<1>7. QED BY <1>1, <1>2, <1>3, <1>4, <1>5, <1>6

LEMMA TakeBackLock == ASSUME LockInv, Wake!TakeBack PROVE LockInv'
<1> USE DEF LockInv
<1>1. Flags' BY DEF Flags, Wake!TakeBack
<1>2. Generations' BY DEF Generations, Wake!None, Wake!TakeBack
<1>3. Wake!KeptLockIsHeld' BY DEF Wake!KeptLockIsHeld, Generations, Wake!None, Wake!TakeBack
<1>4. Wake!NoLockWithoutReader'
    BY DEF Wake!NoLockWithoutReader, Wake!KeptLockIsHeld, Flags, Generations, Wake!None,
           Wake!TakeBack
<1>5. PendingIsLatest' BY DEF PendingIsLatest, Flags, Generations, Wake!None, Wake!TakeBack
<1>6. Wake!LockForActiveReader'
    BY DEF Wake!LockForActiveReader, PendingIsLatest, Flags, Generations, Wake!None, Wake!TakeBack
<1>7. QED BY <1>1, <1>2, <1>3, <1>4, <1>5, <1>6

----------------------------------------------------------------------------

\* The strengthened invariant holds throughout the life of a ScreenWakeLock.
THEOREM LockInvariant == Wake!Spec => []LockInv
<1>1. LockInv /\ [Wake!Next]_(Wake!vars) => LockInv'
  <2> SUFFICES ASSUME LockInv, [Wake!Next]_(Wake!vars) PROVE LockInv'
    OBVIOUS
  <2>1. CASE Wake!Start       BY <2>1, StartLock
  <2>2. CASE Wake!Stop        BY <2>2, StopLock
  <2>3. CASE Wake!Show        BY <2>3, ShowLock
  <2>4. CASE Wake!Hide        BY <2>4, HideLock
  <2>5. CASE Wake!Activity    BY <2>5, ActivityLock
  <2>6. ASSUME NEW g \in outstanding, Wake!Grant(g) PROVE LockInv'
    BY <2>6, GrantLock
  <2>7. ASSUME NEW g \in outstanding, Wake!Deny(g) PROVE LockInv'
    BY <2>7, DenyLock
  <2>8. CASE Wake!TakeBack    BY <2>8, TakeBackLock
  <2>9. CASE UNCHANGED Wake!vars
    BY <2>9 DEF Wake!vars, LockInv, Flags, Generations, Wake!KeptLockIsHeld,
                Wake!NoLockWithoutReader, PendingIsLatest,
                Wake!LockForActiveReader
  <2>10. QED BY <2>1, <2>2, <2>3, <2>4, <2>5, <2>6, <2>7, <2>8, <2>9 DEF Wake!Next
<1>2. QED BY <1>1, InitLock, PTL DEF Wake!Spec

\* Types, and: the awaited request is one the browser has not answered, the held lock is
\* one it granted (acquire and acceptSentinel).
THEOREM LockTypeCorrect == Wake!Spec => []Wake!TypeOK
<1>1. LockInv => Wake!TypeOK BY DEF LockInv, Flags, Generations, Wake!TypeOK
<1>2. QED BY <1>1, LockInvariant, PTL

\* However late or out of order request() is answered, acceptSentinel and releaseHeldLock
\* leave no lock behind that the class does not hold.
THEOREM GrantedLocksReleased == Wake!Spec => []Wake!KeptLockIsHeld
<1>1. LockInv => Wake!KeptLockIsHeld BY DEF LockInv
<1>2. QED BY <1>1, LockInvariant, PTL

\* A reader that was stopped, or is hidden, keeps the screen awake no longer.
THEOREM NoLockOutlivesReader == Wake!Spec => []Wake!NoLockWithoutReader
<1>1. LockInv => Wake!NoLockWithoutReader BY DEF LockInv
<1>2. QED BY <1>1, LockInvariant, PTL

\* A visible, started reader holds a lock or awaits one unless its last attempt was refused:
\* the answer of an abandoned request never makes acquire() wait for nothing.
THEOREM ActiveReaderHasLock == Wake!Spec => []Wake!LockForActiveReader
<1>1. LockInv => Wake!LockForActiveReader BY DEF LockInv
<1>2. QED BY <1>1, LockInvariant, PTL

----------------------------------------------------------------------------
(***************************************************************************)
(* The reader and its wake lock together implement each of the two.        *)
(***************************************************************************)

LEMMA ReaderStepOfSession == [SessionNext]_sessionVars => [Next]_vars
<1>1. \A r \in Readers : SessionStep(r) => ReaderStep(r)
  BY DEF SessionStep, SessionOpens, SessionLoads, SessionMoves, SessionTimers, SessionSaves,
         SessionEnds,
         ReaderStep
<1>2. SessionHides => (\E r \in Readers : ReaderStep(r)) \/ UNCHANGED vars
  BY DEF SessionHides, ReaderStep
<1>3. LockEvent => UNCHANGED vars
  BY DEF LockEvent
<1>4. UNCHANGED sessionVars => UNCHANGED vars
  BY DEF sessionVars, vars
<1> QED
  BY <1>1, <1>2, <1>3, <1>4 DEF SessionNext, Next

LEMMA LockStepOfSession == [SessionNext]_sessionVars => [Wake!Next]_(Wake!vars)
<1>1. LockUnchanged => UNCHANGED Wake!vars
  BY DEF LockUnchanged, lockVars, Wake!vars
<1>2. LockStarts \/ LockStops \/ LockSeesActivity => Wake!Next \/ UNCHANGED Wake!vars
  BY <1>1 DEF LockStarts, LockStops, LockSeesActivity, Wake!Next
<1>3. \A r \in Readers : SessionStep(r) => Wake!Next \/ UNCHANGED Wake!vars
  BY <1>1, <1>2 DEF SessionStep, SessionOpens, SessionLoads, SessionMoves, SessionTimers,
                    SessionSaves,
                    SessionEnds, LockOnLoadFailure
<1>4. SessionHides \/ LockEvent => Wake!Next
  BY DEF SessionHides, LockEvent, Wake!Next
<1>5. UNCHANGED sessionVars => UNCHANGED Wake!vars
  BY DEF sessionVars, Wake!vars
<1> QED
  BY <1>1, <1>3, <1>4, <1>5 DEF SessionNext

\* The calls to the wake lock hold no step of the reader back and add none (reader.component.ts).
THEOREM SessionImplementsReader == SessionSpec => Spec
<1>1. SessionInit => Init
  BY DEF SessionInit
<1> QED
  BY <1>1, ReaderStepOfSession, PTL DEF SessionSpec, Spec

\* The reader uses the lock only through start, stop and the events both listen to.
THEOREM SessionImplementsLock == SessionSpec => Wake!Spec
<1>1. SessionInit => Wake!Init
  BY DEF SessionInit
<1> QED
  BY <1>1, LockStepOfSession, PTL DEF SessionSpec, Wake!Spec

\* What is proved of the lock alone holds of it in a session.
LEMMA LockInSession == SessionSpec => []LockInv
BY SessionImplementsLock, LockInvariant, PTL

----------------------------------------------------------------------------
(***************************************************************************)
(* When the lock is started. Only one reader of the tab is neither new nor *)
(* gone, so the one wake lock is its own.                                  *)
(***************************************************************************)

Shows(s) == s.phase \in {"loading", "document", "open"}

\* Replaced while it was open: the lock stays.
KeepsLock(s) == Shows(s) \/ (s.phase = "failed" /\ s.blocked)

\* The wake lock is started for a score that shows, or was replaced while it did.
StartedForScore ==
  /\ active \in BOOLEAN
  /\ \A r \in Readers : Shows(reader[r]) => active
  /\ active => \E r \in Readers : KeepsLock(reader[r])

SessionInv == ReaderInv /\ StartedForScore

LEMMA OneReader ==
  ASSUME Sequential, NEW q \in Readers, NEW r \in Readers, q # r,
         reader[q].phase \notin {"new", "gone"}
  PROVE  reader[r].phase \in {"new", "gone"}
<1>1. q < r \/ r < q
  BY ReaderAssumption
<1> QED
  BY <1>1 DEF Sequential

\* Nothing that matters to the lock changes.
LEMMA LockAsBefore ==
  ASSUME StartedForScore, active' = active,
         \A r \in Readers : /\ Shows(reader'[r]) => Shows(reader[r])
                            /\ KeepsLock(reader[r]) => KeepsLock(reader'[r])
  PROVE  StartedForScore'
<1>1. \A r \in Readers : Shows(reader'[r]) => active'
  BY DEF StartedForScore
<1>2. active' => \E r \in Readers : KeepsLock(reader'[r])
  BY DEF StartedForScore
<1> QED
  BY <1>1, <1>2 DEF StartedForScore, Shows, KeepsLock

\* The reader r that shows a score leaves it, and the lock is stopped.
LEMMA LockStopped ==
  ASSUME SessionInv, NEW r \in Readers, reader[r].phase \notin {"new", "gone"}, LockStops,
         NEW s, ~Shows(s), reader' = [reader EXCEPT ![r] = s]
  PROVE  StartedForScore'
<1>1. active' = FALSE
  BY DEF LockStops, Wake!Stop, LockUnchanged, lockVars, SessionInv, StartedForScore
<1>2. \A q \in Readers : q # r => ~Shows(reader[q])
  BY OneReader DEF SessionInv, ReaderInv, Shows
<1>3. \A q \in Readers : reader'[q] = IF q = r THEN s ELSE reader[q]
  BY DEF SessionInv, ReaderInv, TypeOK
<1>4. \A q \in Readers : ~Shows(reader'[q])
  BY <1>2, <1>3
<1> QED
  BY <1>1, <1>4 DEF StartedForScore, Shows

\* The calls that do not touch the phase of a reader.
LEMMA PhaseKept ==
  ASSUME ReaderInv, NEW r \in Readers,
         \/ \E page \in Pages : Turn(r, page)
         \/ StrayKey(r)
         \/ \E n \in {1, 2} : SaveTimerFires(r, n)
         \/ CheckpointFires(r)
         \/ SaveNow(r)
  PROVE  \A q \in Readers : reader'[q].phase = reader[q].phase /\ reader'[q].blocked = reader[q].blocked
<1> DEFINE o == reader[r]
           Same(s) == s.phase = o.phase /\ s.blocked = o.blocked
<1>1. o \in ReaderRow
  BY DEF ReaderInv, TypeOK
<1>2. ASSUME NEW s, Same(s), reader' = [reader EXCEPT ![r] = s]
      PROVE  \A q \in Readers : reader'[q].phase = reader[q].phase /\ reader'[q].blocked = reader[q].blocked
  BY <1>2 DEF ReaderInv, TypeOK
<1>3. ASSUME NEW s \in ReaderRow, Same(s), NEW others,
             Flush(r, s, others) \/ Flush(r, TakeSnapshot(s), others)
      PROVE  \A q \in Readers : reader'[q].phase = reader[q].phase /\ reader'[q].blocked = reader[q].blocked
  <2>1. Same(TakeSnapshot(s)) /\ TakeSnapshot(s) \in ReaderRow
    BY <1>3, TakeSnapshotRow
  <2>2. Same(Sent(s)) /\ Same(Sent(TakeSnapshot(s)))
    BY <1>3, <2>1, SentRow
  <2> HIDE DEF Same
  <2> QED
    BY <1>2, <1>3, <2>2 DEF Flush
<1>4. ASSUME NEW page \in Pages, Turn(r, page)
      PROVE  \A q \in Readers : reader'[q].phase = reader[q].phase /\ reader'[q].blocked = reader[q].blocked
  <2> DEFINE t == [o EXCEPT !.page = page, !.moved = TRUE]
  <2>1. t \in ReaderRow /\ Same(t)
    BY <1>1 DEF ReaderRow
  <2>2. reader' = [reader EXCEPT ![r] = QueueSave(t)]
    BY <1>4 DEF Turn
  <2> HIDE DEF t
  <2>3. Same(QueueSave(t))
    BY <2>1, QueueSaveRow
  <2> QED
    BY <1>2, <2>2, <2>3
<1>5. CASE StrayKey(r)
  BY <1>1, <1>2, <1>5, QueueSaveRow DEF StrayKey
<1>6. ASSUME NEW n \in {1, 2}, SaveTimerFires(r, n)
      PROVE  \A q \in Readers : reader'[q].phase = reader[q].phase /\ reader'[q].blocked = reader[q].blocked
  <2> DEFINE t == [o EXCEPT !.timer = 0]
  <2>1. 0 \in 0..2 /\ \A m \in 0..2 : [o EXCEPT !.timer = m] \in ReaderRow /\ Same([o EXCEPT !.timer = m])
    BY <1>1 DEF ReaderRow
  <2>2. t \in ReaderRow /\ Same(t)
    BY <2>1
  <2>3. Flush(r, IF CanSave(t) THEN TakeSnapshot(t) ELSE t, requests)
    BY <1>6 DEF SaveTimerFires
  <2> HIDE DEF t, Same
  <2> QED
    BY <1>3, <2>2, <2>3
<1>7. CASE CheckpointFires(r)
  <2> DEFINE t == [o EXCEPT !.checkpoint = "spent"]
  <2>1. t \in ReaderRow /\ Same(t) /\ Same(o)
    BY <1>1 DEF ReaderRow
  <2>2. Flush(r, IF CanSave(o) THEN TakeSnapshot(o) ELSE t, requests)
    BY <1>7 DEF CheckpointFires
  <2> HIDE DEF t, Same
  <2> QED
    BY <1>1, <1>3, <2>1, <2>2
<1>8. CASE SaveNow(r)
  BY <1>1, <1>3, <1>8 DEF SaveNow
<1> QED
  BY <1>4, <1>5, <1>6, <1>7, <1>8

----------------------------------------------------------------------------

LEMMA SessionOpensLock == ASSUME SessionInv, NEW r \in Readers, SessionOpens(r) PROVE StartedForScore'
<1>1. active' = TRUE
  BY DEF SessionOpens, LockStarts, Wake!Start, LockUnchanged, lockVars, SessionInv, StartedForScore
<1>2. reader'[r].phase = "loading"
  <2>1. reader' = [reader EXCEPT ![r] = Loading(reader[r])] /\ reader[r] \in ReaderRow
        /\ reader \in [Readers -> ReaderRow]
    BY DEF SessionOpens, Open, Reload, SessionInv, ReaderInv, TypeOK
  <2> QED
    BY <2>1, LoadingRow
<1> QED
  BY <1>1, <1>2 DEF StartedForScore, Shows, KeepsLock

\* While a score loads, and when its load fails.
LEMMA SessionLoadsLock == ASSUME SessionInv, NEW r \in Readers, SessionLoads(r) PROVE StartedForScore'
<1> DEFINE o == reader[r]
<1>1. reader \in [Readers -> ReaderRow] /\ o \in ReaderRow
  BY DEF SessionInv, ReaderInv, TypeOK
<1>2. ASSUME NEW s, reader' = [reader EXCEPT ![r] = s], Shows(s), Shows(o), LockUnchanged
      PROVE  StartedForScore'
  <2>1. \A q \in Readers : reader'[q] = IF q = r THEN s ELSE reader[q]
    BY <1>1, <1>2
  <2> QED
    BY <1>2, <2>1, LockAsBefore DEF LockUnchanged, lockVars, SessionInv, KeepsLock
<1>3. CASE (FetchPiece(r) \/ FetchState(r) \/ LoadDocument(r)) /\ LockUnchanged
  <2>1. CASE FetchPiece(r)
    <3>1. reader' = [reader EXCEPT ![r] = [o EXCEPT !.piece = pdf]] /\ o.phase = "loading"
      BY <2>1 DEF FetchPiece
    <3>2. [o EXCEPT !.piece = pdf].phase = o.phase
      BY <1>1 DEF ReaderRow
    <3> QED
      BY <1>2, <1>3, <3>1, <3>2 DEF Shows
  <2>2. CASE FetchState(r)
    <3> DEFINE snapshot == [checksum |-> pdf, page |-> place.page, of |-> place.of]
    <3>1. reader' = [reader EXCEPT ![r] = [o EXCEPT !.state = snapshot]] /\ o.phase = "loading"
      BY <2>2 DEF FetchState
    <3> HIDE DEF snapshot
    <3>2. [o EXCEPT !.state = snapshot].phase = o.phase
      BY <1>1 DEF ReaderRow
    <3> QED
      BY <1>2, <1>3, <3>1, <3>2 DEF Shows
  <2>3. CASE LoadDocument(r)
    <3> DEFINE s == [o EXCEPT !.phase = "open", !.shown = pdf, !.page = o.state.page, !.moved = FALSE]
    <3>1. reader' = [reader EXCEPT ![r] = s] /\ o.phase = "document"
      BY <2>3 DEF LoadDocument
    <3>2. s.phase = "open"
      BY <1>1 DEF ReaderRow
    <3> HIDE DEF s
    <3> QED
      BY <1>2, <1>3, <3>1, <3>2 DEF Shows
  <2> QED
    BY <1>3, <2>1, <2>2, <2>3
<1>4. CASE Compare(r) /\ (IF reader'[r].phase = "failed" THEN LockOnLoadFailure ELSE LockUnchanged)
  <2> DEFINE document == [o EXCEPT !.phase = "document", !.checksum = o.piece]
             failed == [o EXCEPT !.phase = "failed"]
  <2>1. o.phase = "loading"
        /\ (reader' = [reader EXCEPT ![r] = document] \/ reader' = [reader EXCEPT ![r] = failed])
    BY <1>4 DEF Compare
  <2>2. document.phase = "document" /\ failed.phase = "failed"
    BY <1>1 DEF ReaderRow
  <2> HIDE DEF document, failed
  <2>3. CASE reader' = [reader EXCEPT ![r] = document]
    <3>1. LockUnchanged
      BY <1>1, <1>4, <2>2, <2>3
    <3> QED
      BY <1>2, <2>1, <2>2, <2>3, <3>1 DEF Shows
  <2>4. CASE reader' = [reader EXCEPT ![r] = failed]
    <3>1. LockStops
      BY <1>1, <1>4, <2>2, <2>4 DEF LockOnLoadFailure
    <3> QED
      BY <2>1, <2>2, <2>4, <3>1, LockStopped DEF Shows
  <2> QED
    BY <2>1, <2>3, <2>4
<1>5. CASE LoadFails(r) /\ LockOnLoadFailure
  <2> DEFINE failed == [o EXCEPT !.phase = "failed"]
  <2>1. o.phase \in {"loading", "document"} /\ reader' = [reader EXCEPT ![r] = failed] /\ LockStops
    BY <1>5 DEF LoadFails, LockOnLoadFailure
  <2>2. failed.phase = "failed"
    BY <1>1 DEF ReaderRow
  <2> HIDE DEF failed
  <2> QED
    BY <2>1, <2>2, LockStopped DEF Shows
<1> QED
  BY <1>3, <1>4, <1>5 DEF SessionLoads

LEMMA SessionEndsLock == ASSUME SessionInv, NEW r \in Readers, SessionEnds(r) PROVE StartedForScore'
<1> DEFINE o == reader[r]
           saved == IF CanSave(o) THEN TakeSnapshot(o) ELSE o
           s == [saved EXCEPT !.phase = "gone", !.timer = 0, !.checkpoint = "unset"]
<1>1. o \in ReaderRow /\ o.phase \notin {"new", "gone"}
  BY DEF SessionInv, ReaderInv, TypeOK, SessionEnds, Destroy
<1>2. saved \in ReaderRow
  BY <1>1, TakeSnapshotRow
<1>3. reader' = [reader EXCEPT ![r] = Sent(s)] /\ LockStops
  BY DEF SessionEnds, Destroy, Flush
<1> HIDE DEF saved
<1>4. s \in ReaderRow /\ s.phase = "gone"
  <2>1. \A n \in 0..2, c \in {"unset", "set", "spent"} :
          LET t == [saved EXCEPT !.phase = "gone", !.timer = n, !.checkpoint = c]
          IN  t \in ReaderRow /\ t.phase = "gone"
    BY <1>2 DEF ReaderRow
  <2>2. 0 \in 0..2
    OBVIOUS
  <2> QED
    BY <2>1, <2>2
<1> HIDE DEF s
<1>5. ~Shows(Sent(s))
  BY <1>4, SentRow DEF Shows
<1> QED
  BY <1>1, <1>3, <1>5, LockStopped

\* An answer ends the reading of a score that was replaced, and the lock stays.
LEMMA AnswerKeepsLock ==
  ASSUME SessionInv, NEW q \in requests, NEW result \in {"ok", "conflict", "failed"},
         Deliver(q, result), LockUnchanged
  PROVE  StartedForScore'
<1> DEFINE r == q.reader
           o == reader[r]
           s == Answered(o, q, result)
<1>1. r \in Readers /\ o \in ReaderRow /\ o.saving /\ reader \in [Readers -> ReaderRow]
  BY DEF SessionInv, ReaderInv, TypeOK, Request
<1>2. o.phase \in {"open", "gone"}
  BY <1>1 DEF SessionInv, ReaderInv, RowOK, RowQuiet, ReaderRow
<1>3. AfterAnswer(s, o, result)
  BY <1>1, AnsweredRow
<1>4. reader' = [reader EXCEPT ![r] = Sent(s)]
  BY DEF Deliver, Flush
<1> HIDE DEF s
<1>5. Sent(s).phase = s.phase /\ Sent(s).blocked = s.blocked
  BY <1>3, SentRow DEF AfterAnswer
<1>6. (Shows(Sent(s)) => Shows(o)) /\ (KeepsLock(o) => KeepsLock(Sent(s)))
  BY <1>2, <1>3, <1>5 DEF AfterAnswer, Shows, KeepsLock
<1>7. \A p \in Readers : reader'[p] = IF p = r THEN Sent(s) ELSE reader[p]
  BY <1>1, <1>4
<1> QED
  BY <1>6, <1>7, LockAsBefore DEF LockUnchanged, lockVars, SessionInv

LEMMA StartedStep == ASSUME SessionInv, [SessionNext]_sessionVars PROVE StartedForScore'
<1> USE DEF SessionInv
<1>1. ASSUME active' = active, reader' = reader PROVE StartedForScore'
  BY <1>1 DEF StartedForScore, Shows, KeepsLock
<1>2. LockUnchanged \/ LockSeesActivity => active' = active
  BY DEF LockUnchanged, lockVars, LockSeesActivity, Wake!Activity, StartedForScore
<1>3. ASSUME active' = active,
             \A q \in Readers : reader'[q].phase = reader[q].phase /\ reader'[q].blocked = reader[q].blocked
      PROVE  StartedForScore'
  BY <1>3, LockAsBefore DEF Shows, KeepsLock
<1>4. ASSUME NEW r \in Readers, SessionStep(r) PROVE StartedForScore'
  <2>1. CASE SessionMoves(r) \/ SessionTimers(r) \/ SessionSaves(r)
    BY <2>1, <1>2, <1>3, PhaseKept DEF SessionMoves, SessionTimers, SessionSaves
  <2> QED
    BY <1>4, <2>1, SessionOpensLock, SessionLoadsLock, SessionEndsLock DEF SessionStep
<1>5. CASE SessionHides
  <2>1. active' = active
    BY <1>5 DEF SessionHides, Wake!Hide
  <2>2. CASE UNCHANGED vars
    BY <2>1, <2>2, <1>1 DEF vars
  <2>3. CASE \E r \in Readers : SaveNow(r)
    BY <2>1, <2>3, <1>3, PhaseKept
  <2> QED
    BY <1>5, <2>2, <2>3 DEF SessionHides
<1>6. CASE LockEvent
  BY <1>1, <1>6 DEF LockEvent, Wake!Show, Wake!Activity, Wake!TakeBack, Wake!Grant, Wake!Deny, vars
<1>7. CASE (RequestStep \/ Publish) /\ LockUnchanged
  <2>1. ASSUME NEW q \in requests, Handle(q) PROVE StartedForScore'
    BY <1>1, <1>2, <1>7, <2>1 DEF Handle
  <2>2. ASSUME NEW q \in requests, NEW result \in {"ok", "conflict", "failed"}, Deliver(q, result)
        PROVE  StartedForScore'
    BY <1>7, <2>2, AnswerKeepsLock
  <2>3. CASE Publish
    BY <1>1, <1>2, <1>7, <2>3 DEF Publish
  <2> QED
    BY <1>7, <2>1, <2>2, <2>3 DEF RequestStep
<1>8. CASE UNCHANGED sessionVars
  BY <1>1, <1>8 DEF sessionVars
<1> QED
  BY <1>4, <1>5, <1>6, <1>7, <1>8 DEF SessionNext

----------------------------------------------------------------------------

\* A reader and its lock keep their link: the lock is started for the score of the one reader
\* that is there.
THEOREM SessionInvariant == SessionSpec => []SessionInv
<1>1. SessionInit => SessionInv
  <2> SUFFICES ASSUME SessionInit PROVE SessionInv
    OBVIOUS
  <2>1. ReaderInv
    BY InitReader DEF SessionInit
  <2>2. active = FALSE
    BY DEF SessionInit, Wake!Init
  <2>3. \A r \in Readers : reader[r].phase = "new"
    BY DEF SessionInit, Init, NewReader
  <2> QED
    BY <2>1, <2>2, <2>3 DEF SessionInv, StartedForScore, Shows
<1>2. SessionInv /\ [SessionNext]_sessionVars => SessionInv'
  BY StartedStep, ReaderStepOfSession, ReaderInvStep DEF SessionInv
<1> QED
  BY <1>1, <1>2, PTL DEF SessionSpec

\* load(), ngOnDestroy and acceptSentinel: the screen is kept awake for a score only, however
\* late the browser grants a lock and whichever way the reader ends.
THEOREM ScreenAwakeForScoreOnly == SessionSpec => []LockOnlyForScore
<1>1. SessionInv /\ LockInv => LockOnlyForScore
  <2> SUFFICES ASSUME SessionInv, LockInv PROVE LockOnlyForScore
    OBVIOUS
  <2>1. Wake!KeptLockIsHeld /\ Wake!NoLockWithoutReader
    BY DEF LockInv
  <2>2. kept # {} => \E r \in Readers : KeepsLock(reader[r])
    BY <2>1 DEF Wake!NoLockWithoutReader, SessionInv, StartedForScore
  <2> QED
    BY <2>1, <2>2 DEF LockOnlyForScore, Showing, KeepsLock, Shows
<1> QED
  BY <1>1, SessionInvariant, LockInSession, PTL

\* The reader starts the lock with its load, and a visible score has its lock, or awaits it,
\* unless the browser refused.
THEOREM ScoreKeepsScreenAwake == SessionSpec => []LockForScore
<1>1. SessionInv /\ LockInv => LockForScore
  <2> SUFFICES ASSUME SessionInv, LockInv PROVE LockForScore
    OBVIOUS
  <2>1. Wake!LockForActiveReader
    BY DEF LockInv
  <2>2. Showing => active
    BY DEF SessionInv, StartedForScore, Showing, Shows
  <2> QED
    BY <2>1, <2>2 DEF LockForScore
<1> QED
  BY <1>1, SessionInvariant, LockInSession, PTL

=============================================================================
