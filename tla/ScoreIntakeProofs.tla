------------------------- MODULE ScoreIntakeProofs -------------------------
(***************************************************************************)
(* Theorems about ScoreIntake for any users, pieces, drafts and keys.      *)
(*                                                                         *)
(* IInv, the inductive invariant, says what the schema, the owner lock and *)
(* the freshness of storage keys give every transaction in flight:         *)
(*   - TxOK: it works on a draft of its owner, which stays open because    *)
(*     every other operation on it needs the same lock;                    *)
(*   - KeysOK: the file it saved is on disk under a key nothing else knows *)
(*     of, so neither the queue nor the cleanup job can hold that key;     *)
(*   - CleanupOK: the key about to be deleted is named by no row, and will *)
(*     not be, since only a transaction in flight brings new keys.         *)
(* KeysOK needs ~LateCommits: otherwise a key can be queued and deleted    *)
(* while the transaction that names it is still to be applied.             *)
(*                                                                         *)
(* What publication promises needs none of KeysOK, so it holds with late   *)
(* commits too. BaseOK and TxBase tie a draft's base revision to the PDF   *)
(* it was opened on, up to the commit; OneUser and KeysFresh follow the    *)
(* use of a key from the transaction that saved it to the rows it commits. *)
(*                                                                         *)
(* IntakeImplementsLifecycle goes through the steps once more: each one is *)
(* one step of ObjectLifecycle or leaves every file and reference alone.   *)
(***************************************************************************)
EXTENDS ScoreIntake, FiniteSetTheorems, TLAPS

Rows ==
  /\ piece \in [Piece -> PieceRow]
  /\ draft \in [Draft -> DraftRow]
  /\ assets \subseteq Key /\ queue \subseteq Key /\ store \subseteq Key
  /\ content \in [Key -> Content \cup {Unsaved, SourceBytes}]
  /\ tx \in [Owner -> Transaction]
  /\ unqueued \subseteq Key /\ lost \subseteq Key
  /\ cleanup \in CleanupJob
  /\ faults \in Nat

Cascade == \A d \in Draft : draft[d].piece # NoPiece => piece[draft[d].piece].state = "live"

\* A draft and the piece it is for belong to one user, and only live drafts hold sources.
DraftsOK ==
  \A d \in Draft :
    /\ draft[d].piece # NoPiece => PieceOwner[draft[d].piece] = DraftOwner[d]
    /\ draft[d].state \in {"none", "deleted"} => draft[d] = NoDraftRow(draft[d].state)

TxOK ==
  \A o \in Owner :
    /\ tx[o].op = "none" => tx[o] = NoTx
    /\ tx[o].op # "none" =>
         /\ tx[o].draft \in Draft /\ tx[o].key \in Key
         /\ DraftOwner[tx[o].draft] = o
         /\ draft[tx[o].draft].state = "open" /\ ~draft[tx[o].draft].expired
    /\ tx[o].op = "finalize" =>
         /\ tx[o].piece \in Piece
         /\ PieceOwner[tx[o].piece] = o
         /\ draft[tx[o].draft].piece \in {NoPiece, tx[o].piece}

\* The keys the queue and the cleanup job may still act on.
Doomed == queue \cup cleanup.batch \cup ({cleanup.key} \ {NoKey})

KeysOK ==
  /\ \A k \in Key : content[k] = Unsaved =>
       k \notin store \cup Referenced \cup Doomed \cup unqueued \cup lost \cup InFlight
  /\ \A o \in Owner : tx[o].op # "none" =>
       /\ tx[o].key \in store
       /\ tx[o].key \notin Referenced \cup Doomed
       /\ tx[o].doubt => tx[o].key \in unqueued \cup lost
       /\ \A u \in Owner \ {o} : tx[u].key # tx[o].key

CleanupOK ==
  /\ cleanup.pc \in {"delete", "dequeue"} => cleanup.key \in Key /\ cleanup.key \notin Referenced
  /\ cleanup.pc = "dequeue" => cleanup.key \notin store

Struct == Cascade /\ DraftsOK /\ TxOK

\* Only a live piece has a PDF.
PiecesOK == \A p \in Piece : piece[p].state # "live" => piece[p].pdf = NoKey

Files == KeysOK /\ CleanupOK /\ ReferencedObjectsExist /\ NoForgottenObject

IInv == Rows /\ Struct /\ PiecesOK /\ SourcesRetained /\ Files

----------------------------------------------------------------------------

\* A piece row stays well typed when a publication overwrites it.
LEMMA PublishedRow ==
  ASSUME NEW r \in PieceRow, NEW k \in Key, NEW pages \in SUBSET Key,
         NEW place \in Content \cup {Start}
  PROVE  [r EXCEPT !.state = "live", !.pdf = k, !.revision = @ + 1, !.prepared = TRUE,
                   !.pages = pages, !.sources = pages, !.place = place] \in PieceRow
<1> DEFINE r1 == [r EXCEPT !.state = "live", !.pdf = k]
           r2 == [r1 EXCEPT !.revision = @ + 1]
           r3 == [r2 EXCEPT !.prepared = TRUE, !.pages = pages]
           r4 == [r3 EXCEPT !.sources = pages, !.place = place]
<1>1. r1 \in PieceRow
  BY DEF PieceRow
<1>2. r1.revision + 1 \in Nat
  BY <1>1 DEF PieceRow
<1> HIDE DEF r1
<1>3. r2 \in PieceRow
  BY <1>1, <1>2 DEF PieceRow
<1> HIDE DEF r2
<1>4. r3 \in PieceRow
  BY <1>3 DEF PieceRow
<1> HIDE DEF r3
<1>5. r4 \in PieceRow
  BY <1>4 DEF PieceRow
<1> USE DEF r1, r2, r3
<1> QED
  BY <1>5

\* Every step keeps every row well typed.
LEMMA RowsStep == Rows /\ TxOK /\ [Next]_vars => Rows'
<1> SUFFICES ASSUME Rows, TxOK, [Next]_vars PROVE Rows'
  OBVIOUS
<1> USE ConstantsAssumption DEF Rows
<1>1. ASSUME NEW d \in Draft, CreateImport(d) PROVE Rows'
  <2>1. NoDraftRow("open") \in DraftRow
    BY DEF NoDraftRow, DraftRow
  <2> QED
    BY <2>1, <1>1 DEF CreateImport, PieceRow, DraftRow, Transaction, CleanupJob
<1>2. ASSUME NEW d \in Draft, NEW p \in Piece, CreateImportForPiece(d, p) PROVE Rows'
  <2>1. piece[p] \in PieceRow
    OBVIOUS
  <2> DEFINE start == IF piece[p].prepared THEN piece[p].pages ELSE {piece[p].pdf} \ {NoKey}
             row == [NoDraftRow("open") EXCEPT !.piece = p, !.base = piece[p].revision,
                       !.basePdf = piece[p].pdf, !.sources = start, !.initial = start, !.pages = start]
  <2>2. start \subseteq Key
    BY <2>1 DEF PieceRow
  <2>3. row \in DraftRow
    BY <2>1, <2>2 DEF NoDraftRow, DraftRow, PieceRow
  <2>4. draft' = [draft EXCEPT ![d] = row] /\ assets' \subseteq Key
    BY <2>2, <1>2 DEF CreateImportForPiece
  <2> HIDE DEF row
  <2> QED
    BY <2>3, <2>4, <1>2 DEF CreateImportForPiece, PieceRow, DraftRow, Transaction, CleanupJob
<1>3. ASSUME NEW d \in Draft, NEW pages \in SUBSET Key, NEW edited \in BOOLEAN, UpdateImport(d, pages, edited) PROVE Rows'
  <2> DEFINE row == [draft[d] EXCEPT !.pages = pages, !.edited = edited]
  <2>1. draft[d] \in DraftRow
    OBVIOUS
  <2>2. row \in DraftRow
    BY <2>1 DEF DraftRow
  <2>3. draft' = [draft EXCEPT ![d] = row]
    BY <1>3 DEF UpdateImport
  <2> HIDE DEF row
  <2> QED
    BY <2>2, <2>3, <1>3 DEF UpdateImport, PieceRow, DraftRow, Transaction, CleanupJob
<1>4. ASSUME NEW d \in Draft, NEW k \in Key, BeginAttach(d, k) PROVE Rows'
  <2>1. [NoTx EXCEPT !.op = "attach", !.draft = d, !.key = k] \in Transaction
    BY DEF NoTx, Transaction
  <2> QED
    BY <2>1, <1>4 DEF BeginAttach, SaveObject, PieceRow, DraftRow, Transaction, CleanupJob
<1>5. ASSUME NEW d \in Draft, DeleteImport(d) PROVE Rows'
  <2>1. NoDraftRow("deleted") \in DraftRow
    BY DEF NoDraftRow, DraftRow
  <2>2. draft' \in [Draft -> DraftRow]
    BY <2>1, <1>5 DEF DeleteImport
  <2> QED
    BY <2>2, <1>5 DEF DeleteImport, CollectAndQueue, PieceRow, DraftRow, Transaction, CleanupJob
<1>6. ASSUME NEW d \in Draft, Expire(d) PROVE Rows'
  <2> DEFINE row == [draft[d] EXCEPT !.expired = TRUE]
  <2>1. draft[d] \in DraftRow
    OBVIOUS
  <2>2. row \in DraftRow
    BY <2>1 DEF DraftRow
  <2>3. draft' = [draft EXCEPT ![d] = row]
    BY <1>6 DEF Expire
  <2> HIDE DEF row
  <2> QED
    BY <2>2, <2>3, <1>6 DEF Expire, PieceRow, DraftRow, Transaction, CleanupJob
<1>7. ASSUME NEW d \in Draft, NEW p \in Piece, NEW k \in Key, NEW c \in Content, BeginFinalize(d, p, k, c) PROVE Rows'
  <2>1. [NoTx EXCEPT !.op = "finalize", !.draft = d, !.piece = p, !.key = k] \in Transaction
    BY DEF NoTx, Transaction
  <2> QED
    BY <2>1, <1>7 DEF BeginFinalize, SaveObject, PieceRow, DraftRow, Transaction, CleanupJob
<1>8. ASSUME NEW o \in Owner, NEW appended \in BOOLEAN, CommitAttach(o, appended) PROVE Rows'
  <2> DEFINE d == tx[o].draft
             k == tx[o].key
             row == [draft[d] EXCEPT !.sources = @ \cup {k},
                                     !.pages = IF appended THEN @ \cup {k} ELSE @,
                                     !.edited = @ \/ appended]
  <2>1. d \in Draft /\ k \in Key /\ draft[d] \in DraftRow
    BY <1>8 DEF CommitAttach, TxOK
  <2>2. row \in DraftRow
    BY <2>1 DEF DraftRow
  <2>3. draft' = [draft EXCEPT ![d] = row]
    BY <1>8 DEF CommitAttach
  <2>4. NoTx \in Transaction
    BY DEF NoTx, Transaction
  <2> HIDE DEF row
  <2> QED
    BY <2>1, <2>2, <2>3, <2>4, <1>8 DEF CommitAttach, PieceRow, DraftRow, Transaction, CleanupJob
<1>9. ASSUME NEW o \in Owner, CommitFinalize(o) PROVE Rows'
  <2> DEFINE d == tx[o].draft
             p == tx[o].piece
  <2>1. d \in Draft /\ p \in Piece /\ tx[o].key \in Key
    BY <1>9 DEF CommitFinalize, TxOK
  <2>2. draft[d] \in DraftRow /\ piece[p] \in PieceRow
    BY <2>1
  <2>3. PlaceAfter(p, tx[o].key) \in Content \cup {Start} /\ draft[d].pages \in SUBSET Key
    <3>1. PlaceAfter(p, tx[o].key) \in {piece[p].place, Start}
      BY DEF PlaceAfter
    <3>2. piece[p].place \in Content \cup {Start} /\ draft[d].pages \in SUBSET Key
      BY <2>2 DEF PieceRow, DraftRow
    <3> QED
      BY <3>1, <3>2
  <2>4. Published(p, tx[o].key, draft[d].pages) \in PieceRow
    BY <2>1, <2>2, <2>3, PublishedRow DEF Published
  <2>5. Finalized(d, p) \in DraftRow
    BY <2>1, <2>2 DEF Finalized, DraftRow
  <2>6. NoTx \in Transaction
    BY DEF NoTx, Transaction
  <2>7. {piece[p].pdf} \ {NoKey} \subseteq Key
    BY <2>2 DEF PieceRow
  <2>8. /\ piece' \in [Piece -> PieceRow] /\ draft' \in [Draft -> DraftRow]
        /\ tx' \in [Owner -> Transaction]
    BY <2>1, <2>4, <2>5, <2>6, <1>9 DEF CommitFinalize
  <2>9. assets' \subseteq Key /\ queue' \subseteq Key
    BY <2>7, <1>9 DEF CommitFinalize, CollectAndQueue
  <2> QED
    BY <2>8, <2>9, <1>9 DEF CommitFinalize, PieceRow, DraftRow, Transaction, CleanupJob
<1>10. ASSUME NEW o \in Owner, Rollback(o) PROVE Rows'
  <2>1. NoTx \in Transaction /\ tx[o].key \in Key
    BY <1>10 DEF NoTx, Transaction, Rollback, TxOK
  <2> QED
    BY <2>1, <1>10 DEF Rollback, PieceRow, DraftRow, Transaction, CleanupJob
<1>11. ASSUME NEW o \in Owner, LoseConnection(o) PROVE Rows'
  <2>1. tx[o].key \in Key /\ tx[o] \in Transaction
    BY <1>11 DEF LoseConnection, TxOK
  <2>2. [tx[o] EXCEPT !.doubt = TRUE] \in Transaction
    BY <2>1 DEF Transaction
  <2>3. tx' = [tx EXCEPT ![o] = [tx[o] EXCEPT !.doubt = TRUE]]
    BY <1>11 DEF LoseConnection
  <2>4. tx' \in [Owner -> Transaction]
    BY <2>2, <2>3
  <2> QED
    BY <2>1, <2>4, <1>11 DEF LoseConnection, PieceRow, DraftRow, Transaction, CleanupJob
<1>12. ASSUME NEW o \in Owner, ServerAbort(o) PROVE Rows'
  BY <1>12 DEF ServerAbort, NoTx, TxOK, PieceRow, DraftRow, Transaction, CleanupJob
<1>13. ASSUME NEW k \in Key, QueueObject(k) PROVE Rows'
  BY <1>13 DEF QueueObject, TxOK, PieceRow, DraftRow, Transaction, CleanupJob
<1>14. ASSUME NEW k \in Key, QueueObjectFails(k) PROVE Rows'
  BY <1>14 DEF QueueObjectFails, TxOK, PieceRow, DraftRow, Transaction, CleanupJob
<1>15. ASSUME NEW p \in Piece, CreatePiece(p) PROVE Rows'
  BY <1>15 DEF CreatePiece, NoPieceRow, TxOK, PieceRow, DraftRow, Transaction, CleanupJob
<1>16. ASSUME NEW p \in Piece, DeletePiece(p) PROVE Rows'
  <2>1. NoPieceRow("deleted") \in PieceRow /\ NoDraftRow("deleted") \in DraftRow
    BY DEF NoPieceRow, NoDraftRow, PieceRow, DraftRow
  <2>2. piece[p].pdf \in Key \cup {NoKey}
    BY DEF PieceRow
  <2>3. piece' \in [Piece -> PieceRow] /\ draft' \in [Draft -> DraftRow]
    BY <2>1, <1>16 DEF DeletePiece, DraftsWithout
  <2> QED
    BY <2>2, <2>3, <1>16 DEF DeletePiece, CollectAndQueue, PieceRow, DraftRow, Transaction, CleanupJob
<1>17. ASSUME NEW p \in Piece, NEW c \in Content, PutReaderState(p, c) PROVE Rows'
  <2>1. piece[p] \in PieceRow
    OBVIOUS
  <2>2. [piece[p] EXCEPT !.place = c] \in PieceRow
    BY <2>1 DEF PieceRow
  <2>3. piece' = [piece EXCEPT ![p] = [piece[p] EXCEPT !.place = c]]
    BY <1>17 DEF PutReaderState
  <2>4. piece' \in [Piece -> PieceRow]
    BY <2>2, <2>3
  <2> QED
    BY <2>4, <1>17 DEF PutReaderState, PieceRow, DraftRow, Transaction, CleanupJob
<1>18. CASE CleanupCollect
  BY <1>18 DEF CleanupCollect, NoDraftRow, CollectAndQueue, TxOK, PieceRow, DraftRow, Transaction, CleanupJob
<1>19. ASSUME NEW batch \in SUBSET queue, CleanupSelect(batch) PROVE Rows'
  BY <1>19 DEF CleanupSelect, TxOK, PieceRow, DraftRow, Transaction, CleanupJob
<1>20. ASSUME NEW k \in cleanup.batch, CleanupCheck(k) PROVE Rows'
  BY <1>20 DEF CleanupCheck, Unneeded, TxOK, PieceRow, DraftRow, Transaction, CleanupJob
<1>21. ASSUME NEW k \in Key, CleanupDelete(k) PROVE Rows'
  BY <1>21 DEF CleanupDelete, TxOK, PieceRow, DraftRow, Transaction, CleanupJob
<1>22. CASE CleanupDeleteFails
  BY <1>22 DEF CleanupDeleteFails, TxOK, PieceRow, DraftRow, Transaction, CleanupJob
<1>23. CASE CleanupDequeue
  BY <1>23 DEF CleanupDequeue, TxOK, PieceRow, DraftRow, Transaction, CleanupJob
<1>24. CASE CleanupDone
  BY <1>24 DEF CleanupDone, CleanupIdle, TxOK, PieceRow, DraftRow, Transaction, CleanupJob
<1>25. CASE CleanupFails
  <2>1. CleanupIdle \in CleanupJob
    BY DEF CleanupIdle, CleanupJob
  <2> QED
    BY <2>1, <1>25 DEF CleanupFails, PieceRow, DraftRow, Transaction, CleanupJob
<1>26. CASE Crash
  <2>1. \A o \in Owner : [tx[o] EXCEPT !.doubt = tx[o].op # "none"] \in Transaction
    <3>1. \A t \in Transaction, b \in BOOLEAN : [t EXCEPT !.doubt = b] \in Transaction
      BY DEF Transaction
    <3>2. \A o \in Owner : tx[o] \in Transaction /\ (tx[o].op # "none") \in BOOLEAN
      OBVIOUS
    <3> QED
      BY <3>1, <3>2
  <2>2. tx' \in [Owner -> Transaction]
    BY <2>1, <1>26 DEF Crash
  <2>3. {tx[o].key : o \in {u \in Owner : tx[u].op # "none" /\ ~tx[u].doubt}} \subseteq Key
    BY DEF TxOK
  <2>4. CleanupIdle \in CleanupJob
    BY DEF CleanupIdle, CleanupJob
  <2> QED
    BY <2>2, <2>3, <2>4, <1>26 DEF Crash, PieceRow, DraftRow, Transaction, CleanupJob
<1>27. CASE UNCHANGED vars
  BY <1>27 DEF vars, PieceRow, DraftRow, Transaction, CleanupJob
<1> HIDE DEF Rows
<1>28. QED
  BY <1>1, <1>2, <1>3, <1>4, <1>5, <1>6, <1>7, <1>8, <1>9, <1>10, <1>11, <1>12, <1>13, <1>14, <1>15, <1>16, <1>17, <1>18, <1>19, <1>20, <1>21, <1>22, <1>23, <1>24, <1>25, <1>26, <1>27 DEF Next, Drafting, Publishing, Resolve, Requeue, Pieces, CleanupStep

----------------------------------------------------------------------------
(***************************************************************************)
(* Drafts, pieces and transactions fit together. Where a step only touches *)
(* one draft, every transaction of another owner works on another draft.   *)
(***************************************************************************)

\* A step that keeps every transaction, and the drafts they work on, keeps TxOK.
LEMMA TxFrame ==
  ASSUME TxOK, tx' = tx,
         \A o \in Owner : tx[o].op # "none" => draft'[tx[o].draft] = draft[tx[o].draft]
  PROVE  TxOK'
BY DEF TxOK

\* A step that ends o's transaction and touches no draft but o's keeps TxOK.
LEMMA TxEnds ==
  ASSUME Rows, TxOK, NEW o \in Owner, tx' = [tx EXCEPT ![o] = NoTx],
         \A d \in Draft : DraftOwner[d] # o => draft'[d] = draft[d]
  PROVE  TxOK'
<1>1. \A u \in Owner : tx'[u] = IF u = o THEN NoTx ELSE tx[u]
  BY DEF Rows
<1>2. NoTx.op = "none"
  BY DEF NoTx
<1>3. \A u \in Owner \ {o} : tx[u].op # "none" => draft'[tx[u].draft] = draft[tx[u].draft]
  BY DEF TxOK
<1> QED
  BY <1>1, <1>2, <1>3 DEF TxOK

\* A step that touches neither drafts nor transactions, and takes no piece away.
LEMMA StructFrame ==
  ASSUME Struct, UNCHANGED <<draft, tx>>,
         \A p \in Piece : piece[p].state = "live" => piece'[p].state = "live",
         Rows
  PROVE  Struct'
BY DEF Struct, Cascade, DraftsOK, TxOK, Rows, DraftRow

\* Every step keeps drafts, pieces and transactions together.
LEMMA StructStep == Rows /\ Struct /\ [Next]_vars => Struct'
<1> SUFFICES ASSUME Rows, Struct, [Next]_vars PROVE Struct'
  OBVIOUS
<1> USE ConstantsAssumption
<1>t. TxOK
  BY DEF Struct
<1>1. ASSUME NEW d \in Draft, CreateImport(d) PROVE Struct'
  <2>1. draft' = [draft EXCEPT ![d] = NoDraftRow("open")] /\ UNCHANGED <<piece, tx>>
    BY <1>1 DEF CreateImport
  <2>2. TxOK'
    BY <1>1, <2>1, TxFrame DEF Struct, TxOK, CreateImport, CanOpen, Rows
  <2> QED
    BY <2>1, <2>2 DEF Struct, Cascade, DraftsOK, Rows, NoDraftRow
<1>2. ASSUME NEW d \in Draft, NEW p \in Piece, CreateImportForPiece(d, p) PROVE Struct'
  <2> DEFINE start == IF piece[p].prepared THEN piece[p].pages ELSE {piece[p].pdf} \ {NoKey}
             row == [NoDraftRow("open") EXCEPT !.piece = p, !.base = piece[p].revision,
                       !.basePdf = piece[p].pdf, !.sources = start, !.initial = start, !.pages = start]
  <2>1. /\ draft' = [draft EXCEPT ![d] = row] /\ UNCHANGED <<piece, tx>>
        /\ piece[p].state = "live" /\ PieceOwner[p] = DraftOwner[d]
    BY <1>2 DEF CreateImportForPiece
  <2>2. row.piece = p /\ row.state = "open"
    BY DEF NoDraftRow
  <2> HIDE DEF row
  <2>3. TxOK'
    BY <1>2, <2>1, TxFrame DEF Struct, TxOK, CreateImportForPiece, CanOpen, Rows
  <2> QED
    BY <2>1, <2>2, <2>3 DEF Struct, Cascade, DraftsOK, Rows
<1>3. ASSUME NEW d \in Draft, NEW pages \in SUBSET Key, NEW edited \in BOOLEAN, UpdateImport(d, pages, edited) PROVE Struct'
  <2> DEFINE row == [draft[d] EXCEPT !.pages = pages, !.edited = edited]
  <2>1. draft' = [draft EXCEPT ![d] = row] /\ UNCHANGED <<piece, tx>>
    BY <1>3 DEF UpdateImport
  <2>2. row.piece = draft[d].piece /\ row.state = "open"
    BY <1>3 DEF UpdateImport, Rows, DraftRow
  <2> HIDE DEF row
  <2>3. TxOK'
    BY <1>3, <2>1, TxFrame DEF Struct, TxOK, UpdateImport, Unlocked, Rows
  <2> QED
    BY <2>1, <2>2, <2>3 DEF Struct, Cascade, DraftsOK, Rows
<1>4. ASSUME NEW d \in Draft, NEW k \in Key, BeginAttach(d, k) PROVE Struct'
  <2> DEFINE t == [NoTx EXCEPT !.op = "attach", !.draft = d, !.key = k]
             o == DraftOwner[d]
  <2>1. tx' = [tx EXCEPT ![o] = t] /\ UNCHANGED <<piece, draft>> /\ o \in Owner
    BY <1>4 DEF BeginAttach
  <2>2. t.op = "attach" /\ t.draft = d /\ t.key = k
    BY DEF NoTx
  <2>3. draft[d].state = "open" /\ ~draft[d].expired
    BY <1>4 DEF BeginAttach, Loadable
  <2> HIDE DEF t
  <2>4. TxOK'
    BY <2>1, <2>2, <2>3 DEF Struct, TxOK, Rows
  <2> QED
    BY <2>1, <2>4 DEF Struct, Cascade, DraftsOK
<1>5. ASSUME NEW d \in Draft, DeleteImport(d) PROVE Struct'
  <2>1. draft' = [draft EXCEPT ![d] = NoDraftRow("deleted")] /\ UNCHANGED <<piece, tx>>
    BY <1>5 DEF DeleteImport
  <2>2. TxOK'
    BY <1>5, <2>1, TxFrame DEF Struct, TxOK, DeleteImport, Unlocked, Rows
  <2> QED
    BY <2>1, <2>2 DEF Struct, Cascade, DraftsOK, Rows, NoDraftRow
<1>6. ASSUME NEW d \in Draft, Expire(d) PROVE Struct'
  <2> DEFINE row == [draft[d] EXCEPT !.expired = TRUE]
  <2>1. draft' = [draft EXCEPT ![d] = row] /\ UNCHANGED <<piece, tx>>
    BY <1>6 DEF Expire
  <2>2. row.piece = draft[d].piece /\ row.state \notin {"none", "deleted"}
    BY <1>6 DEF Expire, Loadable, Rows, DraftRow
  <2> HIDE DEF row
  <2>3. TxOK'
    BY <1>6, <2>1, TxFrame DEF Struct, TxOK, Expire, Rows
  <2> QED
    BY <2>1, <2>2, <2>3 DEF Struct, Cascade, DraftsOK, Rows
<1>7. ASSUME NEW d \in Draft, NEW p \in Piece, NEW k \in Key, NEW c \in Content, BeginFinalize(d, p, k, c) PROVE Struct'
  <2> DEFINE t == [NoTx EXCEPT !.op = "finalize", !.draft = d, !.piece = p, !.key = k]
             o == DraftOwner[d]
  <2>1. tx' = [tx EXCEPT ![o] = t] /\ UNCHANGED <<piece, draft>> /\ o \in Owner
    BY <1>7 DEF BeginFinalize
  <2>2. t.op = "finalize" /\ t.draft = d /\ t.key = k /\ t.piece = p
    BY DEF NoTx
  <2>3. /\ draft[d].state = "open" /\ ~draft[d].expired
        /\ PieceOwner[p] = o /\ draft[d].piece \in {NoPiece, p}
    BY <1>7 DEF BeginFinalize, Loadable
  <2> HIDE DEF t
  <2>4. TxOK'
    BY <2>1, <2>2, <2>3 DEF Struct, TxOK, Rows
  <2> QED
    BY <2>1, <2>4 DEF Struct, Cascade, DraftsOK
<1>8. ASSUME NEW o \in Owner, NEW appended \in BOOLEAN, CommitAttach(o, appended) PROVE Struct'
  <2> DEFINE d == tx[o].draft
             k == tx[o].key
             row == [draft[d] EXCEPT !.sources = @ \cup {k},
                                     !.pages = IF appended THEN @ \cup {k} ELSE @,
                                     !.edited = @ \/ appended]
  <2>1. d \in Draft /\ DraftOwner[d] = o /\ draft[d].state = "open"
    BY <1>8 DEF CommitAttach, Struct, TxOK
  <2>2. /\ draft' = [draft EXCEPT ![d] = row] /\ piece' = piece /\ tx' = [tx EXCEPT ![o] = NoTx]
    BY <1>8 DEF CommitAttach
  <2>3. row.piece = draft[d].piece /\ row.state = "open"
    BY <2>1 DEF Rows, DraftRow
  <2> HIDE DEF row
  <2>4. \A e \in Draft : DraftOwner[e] # o => draft'[e] = draft[e]
    BY <2>1, <2>2 DEF Rows
  <2>5. TxOK'
    BY <2>2, <2>4, TxEnds DEF Struct
  <2> QED
    BY <2>1, <2>2, <2>3, <2>5 DEF Struct, Cascade, DraftsOK, Rows
<1>9. ASSUME NEW o \in Owner, CommitFinalize(o) PROVE Struct'
  <2> DEFINE d == tx[o].draft
             p == tx[o].piece
  <2>1. /\ d \in Draft /\ DraftOwner[d] = o /\ draft[d].state = "open"
        /\ p \in Piece /\ PieceOwner[p] = o
    BY <1>9 DEF CommitFinalize, Struct, TxOK
  <2>2. /\ draft' = [draft EXCEPT ![d] = Finalized(d, p)] /\ tx' = [tx EXCEPT ![o] = NoTx]
        /\ piece' = [piece EXCEPT ![p] = Published(p, tx[o].key, draft[d].pages)]
    BY <1>9 DEF CommitFinalize
  <2>3. Finalized(d, p).piece = p /\ Finalized(d, p).state = "finalized"
    BY <2>1 DEF Finalized, Rows, DraftRow
  <2>4. Published(p, tx[o].key, draft[d].pages).state = "live"
    <3>1. piece[p] \in PieceRow
      BY <2>1 DEF Rows
    <3> QED
      BY <3>1 DEF Published, PieceRow
  <2>5. \A e \in Draft : DraftOwner[e] # o => draft'[e] = draft[e]
    BY <2>1, <2>2 DEF Rows
  <2>6. TxOK'
    BY <2>2, <2>5, TxEnds DEF Struct
  <2> QED
    BY <2>1, <2>2, <2>3, <2>4, <2>6 DEF Struct, Cascade, DraftsOK, Rows
<1>10. ASSUME NEW o \in Owner, Rollback(o) \/ ServerAbort(o) PROVE Struct'
  <2>1. TxOK'
    BY <1>10, TxEnds DEF Struct, Rollback, ServerAbort
  <2> QED
    BY <2>1, <1>10 DEF Struct, Cascade, DraftsOK, Rollback, ServerAbort
<1>11. ASSUME NEW o \in Owner, LoseConnection(o) PROVE Struct'
  <2> DEFINE t == [tx[o] EXCEPT !.doubt = TRUE]
  <2>1. tx[o] \in Transaction
    BY DEF Rows
  <2>2. t.op = tx[o].op /\ t.draft = tx[o].draft /\ t.piece = tx[o].piece /\ t.key = tx[o].key
    BY <2>1 DEF Transaction
  <2>3. tx' = [tx EXCEPT ![o] = t] /\ UNCHANGED <<piece, draft>> /\ tx[o].op # "none"
    BY <1>11 DEF LoseConnection
  <2> HIDE DEF t
  <2>4. TxOK'
    BY <2>2, <2>3 DEF Struct, TxOK, Rows
  <2> QED
    BY <2>3, <2>4 DEF Struct, Cascade, DraftsOK
<1>12. ASSUME NEW p \in Piece, DeletePiece(p) PROVE Struct'
  <2>1. /\ draft' = DraftsWithout(p) /\ tx' = tx /\ piece' = [piece EXCEPT ![p] = NoPieceRow("deleted")]
    BY <1>12 DEF DeletePiece
  <2>2. \A d \in Draft : draft'[d] = IF draft[d].piece = p THEN NoDraftRow("deleted") ELSE draft[d]
    BY <2>1 DEF DraftsWithout
  <2>3. \A o \in Owner : tx[o].op # "none" => draft[tx[o].draft].piece # p
    BY <1>12 DEF DeletePiece, Unlocked, Struct, TxOK, DraftsOK
  <2>4. TxOK'
    BY <2>1, <2>2, <2>3, TxFrame, <1>t DEF TxOK
  <2>5. NoDraftRow("deleted").piece = NoPiece /\ NoDraftRow("deleted").state = "deleted"
    BY DEF NoDraftRow
  <2>6. Cascade'
    <3> SUFFICES ASSUME NEW d \in Draft, draft'[d].piece # NoPiece
                 PROVE  piece'[draft'[d].piece].state = "live"
      BY DEF Cascade
    <3>1. draft'[d] = draft[d] /\ draft[d].piece # p
      BY <2>2, <2>5
    <3>2. draft[d].piece \in Piece
      BY <3>1 DEF Rows, DraftRow
    <3> QED
      BY <2>1, <3>1, <3>2 DEF Struct, Cascade, Rows
  <2>7. DraftsOK'
    BY <2>2, <2>5 DEF Struct, DraftsOK
  <2> QED
    BY <2>4, <2>6, <2>7 DEF Struct
<1>13. CASE CleanupCollect
  <2>1. /\ UNCHANGED <<piece, tx>>
        /\ \A d \in Draft : draft'[d] = IF draft[d].expired THEN NoDraftRow("deleted") ELSE draft[d]
    BY <1>13 DEF CleanupCollect
  <2>2. \A o \in Owner : tx[o].op # "none" => draft'[tx[o].draft] = draft[tx[o].draft]
    BY <2>1, <1>t DEF TxOK
  <2>3. TxOK'
    BY <2>1, <2>2, TxFrame, <1>t
  <2>4. NoDraftRow("deleted").piece = NoPiece /\ NoDraftRow("deleted").state = "deleted"
    BY DEF NoDraftRow
  <2>5. Cascade' /\ DraftsOK'
    BY <2>1, <2>4 DEF Struct, Cascade, DraftsOK
  <2> QED
    BY <2>3, <2>5 DEF Struct
<1>14. CASE Crash
  <2>1. \A o \in Owner : tx'[o] = [tx[o] EXCEPT !.doubt = tx[o].op # "none"] /\ tx[o] \in Transaction
    BY <1>14 DEF Crash, Rows
  <2>2. \A o \in Owner : /\ tx'[o].op = tx[o].op /\ tx'[o].draft = tx[o].draft
                         /\ tx'[o].piece = tx[o].piece /\ tx'[o].key = tx[o].key
    <3>1. \A t \in Transaction, b \in BOOLEAN :
            LET r == [t EXCEPT !.doubt = b]
            IN  r.op = t.op /\ r.draft = t.draft /\ r.piece = t.piece /\ r.key = t.key
      BY DEF Transaction
    <3> QED
      BY ZenonT(60), <2>1, <3>1
  <2>3. \A o \in Owner : tx[o].op = "none" => tx'[o] = NoTx
    <3> SUFFICES ASSUME NEW o \in Owner, tx[o].op = "none" PROVE tx'[o] = NoTx
      OBVIOUS
    <3>1. tx[o] = NoTx
      BY <1>t DEF TxOK
    <3>2. tx'[o] = [NoTx EXCEPT !.doubt = FALSE]
      BY <2>1, <3>1
    <3> QED
      BY <3>2 DEF NoTx
  <2>4. UNCHANGED <<piece, draft>>
    BY <1>14 DEF Crash
  <2>5. TxOK'
    BY <2>2, <2>3, <2>4 DEF Struct, TxOK
  <2> QED
    BY <2>4, <2>5 DEF Struct, Cascade, DraftsOK
<1>15. ASSUME NEW p \in Piece, CreatePiece(p) PROVE Struct'
  BY <1>15, StructFrame DEF CreatePiece, NoPieceRow, Rows
<1>16. ASSUME NEW p \in Piece, NEW c \in Content, PutReaderState(p, c) PROVE Struct'
  BY <1>16, StructFrame DEF PutReaderState, Rows, PieceRow
<1>17. ASSUME UNCHANGED <<piece, draft, tx>> PROVE Struct'
  BY <1>17, StructFrame
<1>18. ASSUME NEW k \in Key, Requeue(k) PROVE Struct'
  BY <1>17, <1>18 DEF Requeue, QueueObject, QueueObjectFails
<1>19. ASSUME NEW batch \in SUBSET queue, CleanupSelect(batch) PROVE Struct'
  BY <1>17, <1>19 DEF CleanupSelect
<1>20. ASSUME NEW k \in Key \cup cleanup.batch, CleanupCheck(k) \/ CleanupDelete(k) PROVE Struct'
  BY <1>17, <1>20 DEF CleanupCheck, CleanupDelete
<1>21. ASSUME CleanupDeleteFails \/ CleanupDequeue \/ CleanupDone \/ CleanupFails PROVE Struct'
  BY <1>17, <1>21 DEF CleanupDeleteFails, CleanupDequeue, CleanupDone, CleanupFails
<1>22. CASE UNCHANGED vars
  BY <1>17, <1>22 DEF vars
<1>23. QED
  BY <1>1, <1>2, <1>3, <1>4, <1>5, <1>6, <1>7, <1>8, <1>9, <1>10, <1>11, <1>12, <1>13, <1>14, <1>15,
     <1>16, <1>18, <1>19, <1>20, <1>21, <1>22
     DEF Next, Drafting, Publishing, Resolve, Pieces, CleanupStep

\* Every step that writes a piece row keeps that.
LEMMA PiecesStep == Rows /\ TxOK /\ PiecesOK /\ [Next]_vars => PiecesOK'
<1> SUFFICES ASSUME Rows, TxOK, PiecesOK, [Next]_vars PROVE PiecesOK'
  OBVIOUS
<1>1. CASE UNCHANGED piece
  BY <1>1 DEF PiecesOK
<1>2. ASSUME NEW o \in Owner, CommitFinalize(o) PROVE PiecesOK'
  <2> DEFINE p == tx[o].piece
             row == Published(p, tx[o].key, draft[tx[o].draft].pages)
  <2>1. p \in Piece /\ piece[p] \in PieceRow
    BY <1>2 DEF CommitFinalize, TxOK, Rows
  <2>2. row.state = "live"
    BY <2>1 DEF Published, PieceRow
  <2>3. piece' = [piece EXCEPT ![p] = row]
    BY <1>2 DEF CommitFinalize
  <2> HIDE DEF row
  <2> QED
    BY <2>1, <2>2, <2>3 DEF PiecesOK, Rows
<1>3. ASSUME NEW p \in Piece, CreatePiece(p) \/ DeletePiece(p) PROVE PiecesOK'
  <2>1. NoPieceRow("live").pdf = NoKey /\ NoPieceRow("deleted").pdf = NoKey
    BY DEF NoPieceRow
  <2> QED
    BY <2>1, <1>3 DEF CreatePiece, DeletePiece, PiecesOK, Rows
<1>4. ASSUME NEW p \in Piece, NEW c \in Content, PutReaderState(p, c) PROVE PiecesOK'
  <2> DEFINE row == [piece[p] EXCEPT !.place = c]
  <2>1. row.state = piece[p].state /\ row.pdf = piece[p].pdf
    BY DEF Rows, PieceRow
  <2>2. piece' = [piece EXCEPT ![p] = row]
    BY <1>4 DEF PutReaderState
  <2> HIDE DEF row
  <2> QED
    BY <2>1, <2>2 DEF PiecesOK, Rows
<1>5. CASE Drafting \/ Publishing
  BY ZenonT(60), <1>5, <1>1 DEF Drafting, Publishing, CreateImport, CreateImportForPiece, UpdateImport,
     BeginAttach, DeleteImport, Expire, BeginFinalize
<1>6. ASSUME NEW o \in Owner, Resolve(o) PROVE PiecesOK'
  BY <1>6, <1>1, <1>2 DEF Resolve, CommitAttach, Rollback, LoseConnection, ServerAbort
<1>7. CASE (\E k \in Key : Requeue(k)) \/ CleanupStep \/ CleanupFails \/ Crash \/ UNCHANGED vars
  BY <1>7, <1>1 DEF Requeue, QueueObject, QueueObjectFails, CleanupStep, CleanupCollect, CleanupSelect,
     CleanupCheck, CleanupDelete, CleanupDeleteFails, CleanupDequeue, CleanupDone, CleanupFails, Crash, vars
<1> QED
  BY <1>3, <1>4, <1>5, <1>6, <1>7 DEF Next, Pieces

\* The initial state is well typed.
LEMMA InitRows == Init => Rows /\ Struct
<1> SUFFICES ASSUME Init PROVE Rows /\ Struct
  OBVIOUS
<1> USE ConstantsAssumption
<1>1. NoPieceRow("live") \in PieceRow /\ NoPieceRow("none") \in PieceRow /\ NoDraftRow("none") \in DraftRow
  BY DEF NoPieceRow, NoDraftRow, PieceRow, DraftRow
<1>2. \A k \in Key : [NoPieceRow("live") EXCEPT !.pdf = k] \in PieceRow
  BY <1>1 DEF PieceRow
<1>3. piece \in [Piece -> PieceRow] /\ draft \in [Draft -> DraftRow]
  BY <1>1, <1>2 DEF Init
<1>4. NoTx \in Transaction /\ CleanupIdle \in CleanupJob
  BY DEF NoTx, Transaction, CleanupIdle, CleanupJob
<1>5. store \subseteq Key
  BY DEF Init
<1>6. Rows
  BY <1>3, <1>4, <1>5 DEF Init, Rows
<1>7. NoDraftRow("none").piece = NoPiece /\ NoDraftRow("none").state = "none" /\ NoTx.op = "none"
  BY DEF NoDraftRow, NoTx
<1>8. Struct
  BY <1>7 DEF Init, Struct, Cascade, DraftsOK, TxOK
<1> QED
  BY <1>6, <1>8

\* The type invariant holds in every reachable state, for any number of users, pieces,
\* drafts and keys, whether or not a lost commit may still be applied.
THEOREM TypeCorrect == Spec => []TypeOK
<1>2. Rows /\ Struct /\ [Next]_vars => (Rows /\ Struct)'
  BY RowsStep, StructStep DEF Struct
<1>3. Rows /\ Struct => TypeOK
  BY DEF Rows, Struct, Cascade, TypeOK
<1> QED
  BY InitRows, <1>2, <1>3, PTL DEF Spec

----------------------------------------------------------------------------
(***************************************************************************)
(* Files.                                                                  *)
(***************************************************************************)

\* A step of the database or of the cleanup job that saves and deletes no file: it brings
\* no new reference, and queues the keys whose last reference it takes away.
LEMMA FilesFrame ==
  ASSUME Rows, Files, UNCHANGED <<content, tx, store, unqueued, lost>>,
         Referenced' \subseteq Referenced,
         Referenced \subseteq Referenced' \cup queue',
         queue' \subseteq queue \cup Referenced,
         queue \cap store \subseteq queue',
         Doomed' \subseteq Doomed \cup Referenced,
         CleanupOK'
  PROVE  Files'
<1>1. InFlight' = InFlight
  BY DEF InFlight
<1>2. KeysOK'
  BY <1>1 DEF Files, KeysOK
<1>3. ReferencedObjectsExist' /\ NoForgottenObject'
  BY <1>1 DEF Files, ReferencedObjectsExist, NoForgottenObject
<1> QED
  BY <1>2, <1>3 DEF Files

\* collectOrphans and queueKey lose no key: one that no row names any more is queued.
LEMMA CollectLosesNothing ==
  ASSUME NEW S, CollectAndQueue(S), Pdfs' \subseteq Pdfs, Pdfs \ Pdfs' \subseteq S, S \subseteq Pdfs
  PROVE  /\ Referenced' \subseteq Referenced
         /\ Referenced \subseteq Referenced' \cup queue'
         /\ queue \subseteq queue' /\ queue' \subseteq queue \cup Referenced
BY DEF CollectAndQueue, Referenced

\* What CleanupOK says survives every step that leaves the job alone and brings no reference.
LEMMA CleanupFrame ==
  ASSUME CleanupOK, UNCHANGED cleanup, Referenced' \subseteq Referenced, store' \subseteq store
  PROVE  CleanupOK'
BY DEF CleanupOK

\* BeginAttach and BeginFinalize: the saved file gets a key that nothing knows of yet.
LEMMA FilesSaved ==
  ASSUME Rows, TxOK, Files, NEW o \in Owner, NEW k \in Key, NEW c \in Content \cup {SourceBytes},
         NEW t, t.op # "none", t.key = k, ~t.doubt,
         Unlocked(o), SaveObject(k, c), tx' = [tx EXCEPT ![o] = t],
         UNCHANGED <<piece, assets, queue, unqueued, lost, cleanup>>
  PROVE  Files'
<1> USE ConstantsAssumption DEF Rows
<1>1. /\ content[k] = Unsaved /\ content' = [content EXCEPT ![k] = c] /\ store' = store \cup {k}
  BY DEF SaveObject
<1>2. Referenced' = Referenced /\ Doomed' = Doomed /\ c # Unsaved
  BY DEF Referenced, Pdfs, Doomed
<1>3. k \notin store \cup Referenced \cup Doomed \cup unqueued \cup lost \cup InFlight
  BY <1>1 DEF Files, KeysOK
<1>4. \A u \in Owner : tx'[u] = IF u = o THEN t ELSE tx[u]
  OBVIOUS
<1>5. tx[o].key = NoKey
  BY DEF Unlocked, TxOK, NoTx
<1>6. InFlight' = InFlight \cup {k}
  BY <1>4, <1>5 DEF InFlight
<1>7. \A u \in Owner : tx[u].key # k
  BY <1>3 DEF InFlight
<1>8. KeysOK'
  <2>1. (\A j \in Key : content[j] = Unsaved =>
           j \notin store \cup Referenced \cup Doomed \cup unqueued \cup lost \cup InFlight)'
    BY <1>1, <1>2, <1>6 DEF Files, KeysOK
  <2>2. (\A u \in Owner : tx[u].op # "none" =>
           /\ tx[u].key \in store
           /\ tx[u].key \notin Referenced \cup Doomed
           /\ tx[u].doubt => tx[u].key \in unqueued \cup lost
           /\ \A v \in Owner \ {u} : tx[v].key # tx[u].key)'
    BY <1>1, <1>2, <1>3, <1>4, <1>7 DEF Files, KeysOK
  <2> QED
    BY <2>1, <2>2 DEF KeysOK
<1>9. CleanupOK'
  BY <1>1, <1>2, <1>3 DEF Files, CleanupOK, Doomed
<1>10. ReferencedObjectsExist' /\ NoForgottenObject'
  BY <1>1, <1>2, <1>6 DEF Files, ReferencedObjectsExist, NoForgottenObject
<1> QED
  BY <1>8, <1>9, <1>10 DEF Files

\* What an ended transaction leaves in flight: everything but its own key.
LEMMA InFlightEnds ==
  ASSUME Rows, Files, NEW o \in Owner, tx[o].op # "none", tx' = [tx EXCEPT ![o] = NoTx]
  PROVE  /\ InFlight' = InFlight \ {tx[o].key}
         /\ \A u \in Owner : tx'[u] = IF u = o THEN NoTx ELSE tx[u]
         /\ NoTx.op = "none"
<1>1. \A u \in Owner : tx'[u] = IF u = o THEN NoTx ELSE tx[u]
  BY DEF Rows
<1>2. NoTx.key = NoKey /\ NoTx.op = "none"
  BY DEF NoTx
<1>3. \A u \in Owner \ {o} : tx[u].key # tx[o].key
  BY DEF Files, KeysOK
<1> QED
  BY <1>1, <1>2, <1>3 DEF InFlight

\* CommitAttach and CommitFinalize: the row that names the saved file becomes visible.
LEMMA FilesCommitted ==
  ASSUME Rows, TxOK, Files, NEW o \in Owner, tx[o].op # "none", tx' = [tx EXCEPT ![o] = NoTx],
         UNCHANGED <<store, content, unqueued, lost, cleanup>>,
         tx[o].key \in Referenced', Referenced' \subseteq Referenced \cup {tx[o].key},
         Referenced \subseteq Referenced' \cup queue',
         queue \subseteq queue', queue' \subseteq queue \cup Referenced
  PROVE  Files'
<1> DEFINE k == tx[o].key
<1>1. k \in Key /\ k \in store /\ k \notin Referenced \cup Doomed
  BY DEF Files, KeysOK, TxOK
<1>2. /\ InFlight' = InFlight \ {k} /\ NoTx.op = "none"
      /\ \A u \in Owner : tx'[u] = IF u = o THEN NoTx ELSE tx[u]
  BY InFlightEnds
<1>3. Doomed' \subseteq Doomed \cup Referenced
  BY DEF Doomed
<1>4. (\A j \in Key : content[j] = Unsaved =>
         j \notin store \cup Referenced \cup Doomed \cup unqueued \cup lost \cup InFlight)'
  BY <1>1, <1>2, <1>3 DEF Files, KeysOK
<1>5. (\A u \in Owner : tx[u].op # "none" =>
         /\ tx[u].key \in store
         /\ tx[u].key \notin Referenced \cup Doomed
         /\ tx[u].doubt => tx[u].key \in unqueued \cup lost
         /\ \A v \in Owner \ {u} : tx[v].key # tx[u].key)'
  <2> SUFFICES ASSUME NEW u \in Owner, tx'[u].op # "none"
               PROVE  /\ tx'[u].key \in store'
                      /\ tx'[u].key \notin Referenced' \cup Doomed'
                      /\ tx'[u].doubt => tx'[u].key \in unqueued' \cup lost'
                      /\ \A v \in Owner \ {u} : tx'[v].key # tx'[u].key
    OBVIOUS
  <2>1. u # o /\ tx'[u] = tx[u] /\ tx[u].key # k /\ tx[u].key \in Key
    BY <1>2 DEF Files, KeysOK, TxOK
  <2>2. NoTx.key = NoKey /\ NoKey \notin Key
    BY ConstantsAssumption DEF NoTx
  <2>3. \A v \in Owner \ {u} : tx'[v].key # tx'[u].key
    BY <1>2, <2>1, <2>2 DEF Files, KeysOK
  <2> QED
    BY <1>3, <2>1, <2>3 DEF Files, KeysOK
<1>6. CleanupOK'
  BY <1>1, ConstantsAssumption DEF Files, CleanupOK, Doomed
<1>7. ReferencedObjectsExist' /\ NoForgottenObject'
  BY <1>1, <1>2 DEF Files, ReferencedObjectsExist, NoForgottenObject
<1> QED
  BY <1>4, <1>5, <1>6, <1>7 DEF Files, KeysOK

\* Rollback and ServerAbort: the saved file is one for the queue.
LEMMA FilesAborted ==
  ASSUME Rows, TxOK, Files, NEW o \in Owner, tx[o].op # "none", tx' = [tx EXCEPT ![o] = NoTx],
         UNCHANGED <<piece, assets, queue, store, content, lost, cleanup>>,
         unqueued \subseteq unqueued', unqueued' \subseteq unqueued \cup {tx[o].key},
         tx[o].key \in unqueued' \cup lost'
  PROVE  Files'
<1> DEFINE k == tx[o].key
<1>1. k \in Key /\ k \in store /\ k \notin Referenced \cup Doomed /\ k \in InFlight /\ content[k] # Unsaved
  BY ConstantsAssumption DEF Files, KeysOK, TxOK, InFlight
<1>2. /\ InFlight' = InFlight \ {k} /\ NoTx.op = "none"
      /\ \A u \in Owner : tx'[u] = IF u = o THEN NoTx ELSE tx[u]
  BY InFlightEnds
<1>3. Doomed' = Doomed /\ Referenced' = Referenced
  BY DEF Doomed, Referenced, Pdfs
<1>4. (\A j \in Key : content[j] = Unsaved =>
         j \notin store \cup Referenced \cup Doomed \cup unqueued \cup lost \cup InFlight)'
  BY <1>1, <1>2, <1>3 DEF Files, KeysOK
<1>5. (\A u \in Owner : tx[u].op # "none" =>
         /\ tx[u].key \in store
         /\ tx[u].key \notin Referenced \cup Doomed
         /\ tx[u].doubt => tx[u].key \in unqueued \cup lost
         /\ \A v \in Owner \ {u} : tx[v].key # tx[u].key)'
  <2>1. NoTx.key = NoKey /\ NoKey \notin Key /\ \A u \in Owner : tx[u].op # "none" => tx[u].key \in Key
    BY ConstantsAssumption DEF NoTx, TxOK
  <2> QED
    BY <1>2, <1>3, <2>1 DEF Files, KeysOK
<1>6. CleanupOK' /\ ReferencedObjectsExist' /\ NoForgottenObject'
  BY <1>1, <1>2, <1>3 DEF Files, CleanupOK, ReferencedObjectsExist, NoForgottenObject
<1> QED
  BY <1>4, <1>5, <1>6 DEF Files, KeysOK

\* LoseConnection and Crash: transactions keep their keys, which are queued or lost.
LEMMA FilesDoubted ==
  ASSUME Rows, TxOK, Files, UNCHANGED <<piece, assets, queue, store, content>>,
         cleanup' \in {cleanup, CleanupIdle},
         \A o \in Owner : tx'[o].op = tx[o].op /\ tx'[o].key = tx[o].key,
         \A o \in Owner : tx'[o].op # "none" /\ tx'[o].doubt => tx'[o].key \in unqueued' \cup lost',
         unqueued \cup lost \subseteq unqueued' \cup lost',
         unqueued' \cup lost' \subseteq unqueued \cup lost \cup InFlight
  PROVE  Files'
<1>1. InFlight' = InFlight /\ Referenced' = Referenced
  BY DEF InFlight, Referenced, Pdfs
<1>2. CleanupIdle.batch = {} /\ CleanupIdle.key = NoKey /\ CleanupIdle.pc = "idle"
  BY DEF CleanupIdle
<1>3. Doomed' \subseteq Doomed
  BY <1>2 DEF Doomed
<1>4. KeysOK'
  BY <1>1, <1>3 DEF Files, KeysOK
<1>5. CleanupOK' /\ ReferencedObjectsExist' /\ NoForgottenObject'
  BY <1>1, <1>2 DEF Files, CleanupOK, ReferencedObjectsExist, NoForgottenObject
<1> QED
  BY <1>4, <1>5 DEF Files

\* QueueObject takes no key of a transaction that may still commit.
LEMMA FilesQueued ==
  ASSUME ~LateCommits, Rows, TxOK, Files, NEW k \in Key, QueueObject(k)
  PROVE  Files'
<1>1. /\ k \in unqueued /\ k \notin InFlight
      /\ unqueued' = unqueued \ {k} /\ queue' = queue \cup {k}
      /\ UNCHANGED <<piece, assets, store, content, tx, lost, cleanup>>
  BY DEF QueueObject
<1>2. InFlight' = InFlight /\ Referenced' = Referenced /\ Doomed' = Doomed \cup {k}
  BY <1>1 DEF InFlight, Referenced, Pdfs, Doomed
<1>3. \A o \in Owner : tx[o].op # "none" => tx[o].key \in InFlight
  BY ConstantsAssumption DEF TxOK, InFlight
<1>4. content[k] # Unsaved
  BY <1>1 DEF Files, KeysOK
<1>5. KeysOK'
  BY <1>1, <1>2, <1>3, <1>4 DEF Files, KeysOK
<1>6. CleanupOK' /\ ReferencedObjectsExist' /\ NoForgottenObject'
  BY <1>1, <1>2 DEF Files, CleanupOK, ReferencedObjectsExist, NoForgottenObject
<1> QED
  BY <1>5, <1>6 DEF Files

\* CleanupDelete takes a file that no row names and no transaction has just saved.
LEMMA FilesDeleted ==
  ASSUME Rows, TxOK, Files, NEW k \in Key, CleanupDelete(k)
  PROVE  Files'
<1>1. /\ cleanup.pc = "delete" /\ cleanup.key = k
      /\ store' = store \ {k} /\ cleanup' = [cleanup EXCEPT !.pc = "dequeue"]
      /\ UNCHANGED <<piece, assets, queue, content, tx, unqueued, lost>>
  BY DEF CleanupDelete
<1>2. cleanup'.pc = "dequeue" /\ cleanup'.key = k /\ cleanup'.batch = cleanup.batch
  BY <1>1 DEF Rows, CleanupJob
<1>3. InFlight' = InFlight /\ Referenced' = Referenced /\ Doomed' = Doomed
  BY <1>1, <1>2 DEF InFlight, Referenced, Pdfs, Doomed
<1>4. k \notin Referenced /\ k \in Doomed
  BY <1>1, ConstantsAssumption DEF Files, CleanupOK, Doomed
<1>5. KeysOK'
  BY <1>1, <1>3, <1>4 DEF Files, KeysOK
<1>6. CleanupOK' /\ ReferencedObjectsExist'
  BY <1>1, <1>2, <1>3, <1>4 DEF Files, CleanupOK, ReferencedObjectsExist
<1>7. NoForgottenObject'
  BY <1>1, <1>3 DEF Files, NoForgottenObject
<1> QED
  BY <1>5, <1>6, <1>7 DEF Files

\* Every step keeps files and references together, provided that a COMMIT whose connection
\* was lost is settled before the API goes on to its next statement.
LEMMA FilesStep == ~LateCommits /\ Rows /\ Struct /\ PiecesOK /\ Files /\ [Next]_vars => Files'
<1> SUFFICES ASSUME ~LateCommits, Rows, Struct, PiecesOK, Files, [Next]_vars PROVE Files'
  OBVIOUS
<1>t. TxOK
  BY DEF Struct
<1>f. ASSUME UNCHANGED <<content, tx, store, unqueued, lost, queue, cleanup>>, Referenced' = Referenced
      PROVE  Files'
  BY <1>f, FilesFrame, CleanupFrame DEF Files, Doomed
<1>u. UNCHANGED <<piece, assets>> => Referenced' = Referenced
  BY DEF Referenced, Pdfs
<1>1. ASSUME NEW d \in Draft, CreateImport(d) PROVE Files'
  BY <1>1, <1>f, <1>u DEF CreateImport
<1>2. ASSUME NEW d \in Draft, NEW p \in Piece, CreateImportForPiece(d, p) PROVE Files'
  <2>1. Referenced' = Referenced
    BY <1>2 DEF CreateImportForPiece, Referenced, Pdfs
  <2> QED
    BY <1>2, <2>1, <1>f DEF CreateImportForPiece
<1>3. ASSUME NEW d \in Draft, NEW pages \in SUBSET Key, NEW edited \in BOOLEAN, UpdateImport(d, pages, edited) PROVE Files'
  BY <1>3, <1>f, <1>u DEF UpdateImport
<1>4. ASSUME NEW d \in Draft, NEW k \in Key, BeginAttach(d, k) PROVE Files'
  <2> DEFINE t == [NoTx EXCEPT !.op = "attach", !.draft = d, !.key = k]
  <2>1. t.op # "none" /\ t.key = k /\ ~t.doubt
    BY DEF NoTx
  <2>2. tx' = [tx EXCEPT ![DraftOwner[d]] = t] /\ DraftOwner[d] \in Owner
    BY <1>4, ConstantsAssumption DEF BeginAttach
  <2> HIDE DEF t
  <2> QED
    BY <1>4, <1>t, <2>1, <2>2, FilesSaved DEF BeginAttach
<1>5. ASSUME NEW d \in Draft, NEW p \in Piece, NEW k \in Key, NEW c \in Content, BeginFinalize(d, p, k, c) PROVE Files'
  <2> DEFINE t == [NoTx EXCEPT !.op = "finalize", !.draft = d, !.piece = p, !.key = k]
  <2>1. t.op # "none" /\ t.key = k /\ ~t.doubt
    BY DEF NoTx
  <2>2. tx' = [tx EXCEPT ![DraftOwner[d]] = t] /\ DraftOwner[d] \in Owner
    BY <1>5, ConstantsAssumption DEF BeginFinalize
  <2> HIDE DEF t
  <2> QED
    BY <1>5, <1>t, <2>1, <2>2, FilesSaved DEF BeginFinalize
<1>6. ASSUME NEW S, CollectAndQueue(S), Pdfs' \subseteq Pdfs, Pdfs \ Pdfs' \subseteq S, S \subseteq Pdfs,
             UNCHANGED <<content, tx, store, unqueued, lost>>,
             cleanup' = cleanup \/ (cleanup.pc = "idle" /\ cleanup' = [cleanup EXCEPT !.pc = "select"])
      PROVE  Files'
  <2>1. /\ Referenced' \subseteq Referenced /\ Referenced \subseteq Referenced' \cup queue'
        /\ queue \subseteq queue' /\ queue' \subseteq queue \cup Referenced
    BY <1>6, CollectLosesNothing
  <2>2. cleanup'.batch = cleanup.batch /\ cleanup'.key = cleanup.key
        /\ (cleanup'.pc \in {"delete", "dequeue"} => cleanup' = cleanup)
    BY <1>6 DEF Rows, CleanupJob
  <2>3. CleanupOK'
    BY <2>1, <2>2, <1>6 DEF Files, CleanupOK
  <2>4. Doomed' \subseteq Doomed \cup Referenced
    BY <2>1, <2>2 DEF Doomed
  <2> QED
    BY <1>6, <2>1, <2>3, <2>4, FilesFrame
<1>7. ASSUME NEW d \in Draft, DeleteImport(d) PROVE Files'
  BY <1>7, <1>6 DEF DeleteImport, Pdfs
<1>8. ASSUME NEW d \in Draft, Expire(d) PROVE Files'
  BY <1>8, <1>f, <1>u DEF Expire
<1>9. ASSUME NEW o \in Owner, NEW appended \in BOOLEAN, CommitAttach(o, appended) PROVE Files'
  <2>1. Referenced' = Referenced \cup {tx[o].key}
    BY <1>9 DEF CommitAttach, Referenced, Pdfs
  <2> QED
    BY <1>9, <2>1, <1>t, FilesCommitted DEF CommitAttach
<1>10. ASSUME NEW o \in Owner, CommitFinalize(o) PROVE Files'
  <2> DEFINE d == tx[o].draft
             p == tx[o].piece
             k == tx[o].key
             S == {piece[p].pdf} \ {NoKey}
             row == Published(p, k, draft[d].pages)
  <2>1. p \in Piece /\ piece[p] \in PieceRow /\ k \in Key
    BY <1>10, <1>t DEF CommitFinalize, TxOK, Rows
  <2>2. row.pdf = k
    BY <2>1 DEF Published, PieceRow
  <2>3. /\ piece' = [piece EXCEPT ![p] = row] /\ tx' = [tx EXCEPT ![o] = NoTx]
        /\ UNCHANGED <<store, content, unqueued, lost, cleanup>>
        /\ tx[o].op # "none" /\ CollectAndQueue(S)
    BY <1>10 DEF CommitFinalize
  <2> HIDE DEF row
  <2>4. \A q \in Piece : piece'[q].pdf = IF q = p THEN k ELSE piece[q].pdf
    BY <2>1, <2>2, <2>3 DEF Rows
  <2>5. Pdfs' \subseteq Pdfs \cup {k} /\ k \in Pdfs' /\ Pdfs \ Pdfs' \subseteq S /\ S \subseteq Pdfs
    BY <2>1, <2>4, ConstantsAssumption DEF Pdfs
  <2>6. /\ assets' \subseteq assets
        /\ queue' = queue \cup ((assets \ assets') \ Pdfs') \cup {j \in S : j \notin Referenced'}
    BY <2>3 DEF CollectAndQueue
  <2>7. /\ k \in Referenced' /\ Referenced' \subseteq Referenced \cup {k}
        /\ Referenced \subseteq Referenced' \cup queue'
        /\ queue \subseteq queue' /\ queue' \subseteq queue \cup Referenced
    BY <2>5, <2>6 DEF Referenced
  <2> QED
    BY <2>3, <2>7, <1>t, FilesCommitted
<1>11. ASSUME NEW o \in Owner, Rollback(o) PROVE Files'
  BY <1>11, <1>t, FilesAborted DEF Rollback
<1>12. ASSUME NEW o \in Owner, ServerAbort(o) PROVE Files'
  <2>1. tx[o].op # "none"
    BY <1>12, <1>t DEF ServerAbort, TxOK, NoTx
  <2>2. tx[o].key \in unqueued \cup lost
    BY <1>12, <2>1 DEF ServerAbort, Files, KeysOK
  <2> QED
    BY <1>12, <1>t, <2>1, <2>2, FilesAborted DEF ServerAbort
<1>13. ASSUME NEW o \in Owner, LoseConnection(o) PROVE Files'
  <2> DEFINE t == [tx[o] EXCEPT !.doubt = TRUE]
  <2>1. tx[o] \in Transaction
    BY DEF Rows
  <2>2. t.op = tx[o].op /\ t.key = tx[o].key
    BY <2>1 DEF Transaction
  <2>3. tx' = [tx EXCEPT ![o] = t] /\ tx[o].op # "none" /\ unqueued' = unqueued \cup {tx[o].key}
        /\ UNCHANGED <<piece, assets, queue, store, content, lost, cleanup>>
    BY <1>13 DEF LoseConnection
  <2> HIDE DEF t
  <2>4. \A u \in Owner : tx'[u] = IF u = o THEN t ELSE tx[u]
    BY <2>3 DEF Rows
  <2>5. tx[o].key \in InFlight
    BY <1>t, <2>3, ConstantsAssumption DEF TxOK, InFlight
  <2>6. \A u \in Owner : tx'[u].op # "none" /\ tx'[u].doubt => tx'[u].key \in unqueued' \cup lost'
    BY <2>2, <2>3, <2>4 DEF Files, KeysOK
  <2> QED
    BY <2>2, <2>3, <2>4, <2>5, <2>6, <1>t, FilesDoubted
<1>14. CASE Crash
  <2> DEFINE dying == {tx[o].key : o \in {u \in Owner : tx[u].op # "none" /\ ~tx[u].doubt}}
  <2>1. \A t \in Transaction, b \in BOOLEAN :
          LET r == [t EXCEPT !.doubt = b]
          IN  r.op = t.op /\ r.key = t.key
    BY DEF Transaction
  <2>2. /\ \A o \in Owner : tx'[o] = [tx[o] EXCEPT !.doubt = tx[o].op # "none"] /\ tx[o] \in Transaction
        /\ unqueued' = {} /\ lost' = lost \cup unqueued \cup dying /\ cleanup' = CleanupIdle
        /\ UNCHANGED <<piece, assets, queue, store, content>>
    BY <1>14 DEF Crash, Rows
  <2>3. \A o \in Owner : tx'[o].op = tx[o].op /\ tx'[o].key = tx[o].key
    BY <2>1, <2>2
  <2>4. \A o \in Owner : tx[o].op # "none" => tx[o].key \in unqueued \cup lost \cup dying
    BY DEF Files, KeysOK
  <2>5. dying \subseteq InFlight
    BY <1>t, ConstantsAssumption DEF TxOK, InFlight
  <2> QED
    BY <2>2, <2>3, <2>4, <2>5, <1>t, FilesDoubted
<1>15. ASSUME NEW k \in Key, QueueObject(k) PROVE Files'
  BY <1>15, <1>t, FilesQueued
<1>16. ASSUME NEW k \in Key, QueueObjectFails(k) PROVE Files'
  <2>1. UNCHANGED <<piece, assets, queue, store, content, tx, cleanup>> /\ unqueued' \cup lost' = unqueued \cup lost
    BY <1>16 DEF QueueObjectFails
  <2>2. \A o \in Owner : tx'[o].op # "none" /\ tx'[o].doubt => tx'[o].key \in unqueued' \cup lost'
    BY <2>1 DEF Files, KeysOK
  <2> QED
    BY <2>1, <2>2, <1>t, FilesDoubted
<1>17. ASSUME NEW p \in Piece, CreatePiece(p) PROVE Files'
  <2>1. /\ piece' = [piece EXCEPT ![p] = NoPieceRow("live")] /\ assets' = assets
        /\ UNCHANGED <<content, tx, store, unqueued, lost, queue, cleanup>>
        /\ piece[p].pdf = NoKey
    BY <1>17 DEF CreatePiece, PiecesOK
  <2>2. NoPieceRow("live").pdf = NoKey
    BY DEF NoPieceRow
  <2>3. \A q \in Piece : piece'[q].pdf = piece[q].pdf
    BY <2>1, <2>2 DEF Rows
  <2>4. Referenced' = Referenced
    BY <2>1, <2>3 DEF Referenced, Pdfs
  <2> QED
    BY <2>1, <2>4, <1>f
<1>18. ASSUME NEW p \in Piece, DeletePiece(p) PROVE Files'
  <2> DEFINE S == {piece[p].pdf} \ {NoKey}
  <2>1. /\ piece' = [piece EXCEPT ![p] = NoPieceRow("deleted")] /\ CollectAndQueue(S)
        /\ UNCHANGED <<content, tx, store, unqueued, lost, cleanup>>
    BY <1>18 DEF DeletePiece
  <2>2. NoPieceRow("deleted").pdf = NoKey
    BY DEF NoPieceRow
  <2>3. \A q \in Piece : piece'[q].pdf = IF q = p THEN NoKey ELSE piece[q].pdf
    BY <2>1, <2>2 DEF Rows
  <2>4. Pdfs' \subseteq Pdfs /\ Pdfs \ Pdfs' \subseteq S /\ S \subseteq Pdfs
    BY <2>3 DEF Pdfs
  <2> QED
    BY <2>1, <2>4, <1>6
<1>19. ASSUME NEW p \in Piece, NEW c \in Content, PutReaderState(p, c) PROVE Files'
  <2> DEFINE row == [piece[p] EXCEPT !.place = c]
  <2>1. row.pdf = piece[p].pdf
    BY DEF Rows, PieceRow
  <2>2. /\ piece' = [piece EXCEPT ![p] = row] /\ assets' = assets
        /\ UNCHANGED <<content, tx, store, unqueued, lost, queue, cleanup>>
    BY <1>19 DEF PutReaderState
  <2> HIDE DEF row
  <2>3. \A q \in Piece : piece'[q].pdf = piece[q].pdf
    BY <2>1, <2>2 DEF Rows
  <2>4. Referenced' = Referenced
    BY <2>2, <2>3 DEF Referenced, Pdfs
  <2> QED
    BY <2>2, <2>4, <1>f
<1>20. CASE CleanupCollect
  BY <1>20, <1>6 DEF CleanupCollect, Pdfs
<1>21. ASSUME UNCHANGED <<piece, assets, content, tx, store, unqueued, lost>>,
              queue' \subseteq queue, queue \cap store \subseteq queue',
              Doomed' \subseteq Doomed, CleanupOK'
       PROVE  Files'
  <2>1. Referenced' = Referenced
    BY <1>21, <1>u
  <2> QED
    BY <1>21, <2>1, FilesFrame
<1>22. ASSUME NEW batch \in SUBSET queue, CleanupSelect(batch) PROVE Files'
  <2>1. cleanup'.batch = batch /\ cleanup'.key = cleanup.key /\ cleanup'.pc = "check"
    BY <1>22 DEF CleanupSelect, Rows, CleanupJob
  <2> QED
    BY <2>1, <1>21, <1>22 DEF CleanupSelect, CleanupOK, Doomed
<1>23. ASSUME NEW k \in cleanup.batch, CleanupCheck(k) PROVE Files'
  <2>1. k \in Key /\ UNCHANGED <<piece, assets>>
    BY <1>23 DEF CleanupCheck, Rows, CleanupJob
  <2>2. CASE Unneeded(k)
    <3>1. cleanup' = [pc |-> "delete", batch |-> cleanup.batch \ {k}, key |-> k]
      BY <2>2, <1>23 DEF CleanupCheck
    <3>2. k \notin Referenced'
      BY <2>1, <2>2, <1>u DEF Unneeded
    <3>3. CleanupOK' /\ Doomed' \subseteq Doomed
      BY <2>1, <3>1, <3>2, <1>23 DEF CleanupOK, Doomed, CleanupCheck
    <3> QED
      BY <3>3, <1>21, <1>23 DEF CleanupCheck
  <2>3. CASE ~Unneeded(k)
    <3>1. cleanup'.pc = "check" /\ cleanup'.batch = cleanup.batch \ {k} /\ cleanup'.key = cleanup.key
      BY <2>3, <1>23 DEF CleanupCheck, Rows, CleanupJob
    <3>2. CleanupOK' /\ Doomed' \subseteq Doomed
      BY <3>1, <1>23 DEF CleanupOK, Doomed, CleanupCheck
    <3> QED
      BY <3>2, <1>21, <1>23 DEF CleanupCheck
  <2> QED
    BY <2>2, <2>3
<1>24. ASSUME NEW k \in Key, CleanupDelete(k) PROVE Files'
  BY <1>24, <1>t, FilesDeleted
<1>25. CASE CleanupDeleteFails
  <2>1. cleanup'.pc = "check" /\ cleanup'.batch = cleanup.batch /\ cleanup'.key = NoKey
    BY <1>25 DEF CleanupDeleteFails, Rows, CleanupJob
  <2> QED
    BY <2>1, <1>21, <1>25 DEF CleanupDeleteFails, CleanupOK, Doomed
<1>26. CASE CleanupDequeue
  <2>1. cleanup'.pc = "check" /\ cleanup'.batch = cleanup.batch /\ cleanup'.key = NoKey
    BY <1>26 DEF CleanupDequeue, Rows, CleanupJob
  <2>2. cleanup.key \notin store
    BY <1>26 DEF CleanupDequeue, Files, CleanupOK
  <2> QED
    BY <2>1, <2>2, <1>21, <1>26 DEF CleanupDequeue, CleanupOK, Doomed
<1>27. CASE CleanupDone \/ CleanupFails
  <2>1. cleanup'.pc = "idle" /\ cleanup'.batch = {} /\ cleanup'.key = NoKey
    BY <1>27 DEF CleanupDone, CleanupFails, CleanupIdle
  <2> QED
    BY <2>1, <1>21, <1>27 DEF CleanupDone, CleanupFails, CleanupOK, Doomed
<1>28. CASE UNCHANGED vars
  BY <1>28, <1>f, <1>u DEF vars
<1> QED
  BY <1>1, <1>2, <1>3, <1>4, <1>5, <1>7, <1>8, <1>9, <1>10, <1>11, <1>12, <1>13, <1>14, <1>15, <1>16,
     <1>17, <1>18, <1>19, <1>20, <1>22, <1>23, <1>24, <1>25, <1>26, <1>27, <1>28
     DEF Next, Drafting, Publishing, Resolve, Requeue, Pieces, CleanupStep

----------------------------------------------------------------------------
(***************************************************************************)
(* Sources.                                                                *)
(***************************************************************************)

\* The sources of every row are assets.
LEMMA SourcesAreAssets ==
  ASSUME SourcesRetained
  PROVE  /\ \A d \in Draft : draft[d].sources \subseteq assets
         /\ \A p \in Piece : piece[p].sources \subseteq assets
<1>1. SourcesInUse \subseteq assets
  BY DEF SourcesRetained
<1>2. \A d \in Draft : draft[d].sources \subseteq SourcesInUse
  BY DEF SourcesInUse
<1>3. \A p \in Piece : piece[p].sources \subseteq SourcesInUse
  BY DEF SourcesInUse
<1> QED
  BY <1>1, <1>2, <1>3

\* A step that writes rows whose sources are all assets already, and drops only assets that
\* no row uses, keeps every source.
LEMMA SourcesFrame ==
  ASSUME SourcesRetained,
         \A d \in Draft : \/ draft'[d] = draft[d]
                          \/ /\ draft'[d].sources \subseteq assets'
                             /\ draft'[d].state = "open" =>
                                  draft'[d].pages \cup draft'[d].initial \subseteq draft'[d].sources,
         \A p \in Piece : \/ piece'[p] = piece[p]
                          \/ piece'[p].pages \subseteq piece'[p].sources /\ piece'[p].sources \subseteq assets',
         assets \cap SourcesInUse' \subseteq assets'
  PROVE  SourcesRetained'
<1>1. \A d \in Draft : draft'[d].sources \subseteq SourcesInUse'
  BY DEF SourcesInUse
<1>2. \A p \in Piece : piece'[p].sources \subseteq SourcesInUse'
  BY DEF SourcesInUse
<1>3. \A d \in Draft : draft[d].sources \subseteq assets
  BY SourcesAreAssets
<1>4. \A p \in Piece : piece[p].sources \subseteq assets
  BY SourcesAreAssets
<1>5. \A d \in Draft : draft'[d].sources \subseteq assets'
  BY <1>1, <1>3
<1>6. \A p \in Piece : piece'[p].sources \subseteq assets'
  BY <1>2, <1>4
<1>7. SourcesInUse' \subseteq assets'
  <2>1. UNION {draft'[d].sources : d \in Draft} \subseteq assets'
    BY <1>5
  <2>2. UNION {piece'[p].sources : p \in Piece} \subseteq assets'
    BY <1>6
  <2> QED
    BY <2>1, <2>2 DEF SourcesInUse
<1>8. (\A d \in Draft : draft[d].state = "open" =>
         draft[d].pages \cup draft[d].initial \subseteq draft[d].sources)'
  BY DEF SourcesRetained
<1>9. (\A p \in Piece : piece[p].pages \subseteq piece[p].sources)'
  BY DEF SourcesRetained
<1> QED
  BY <1>7, <1>8, <1>9 DEF SourcesRetained

\* Every step keeps the sources that drafts and pieces need.
LEMMA SourcesStep == Rows /\ Struct /\ SourcesRetained /\ [Next]_vars => SourcesRetained'
<1> SUFFICES ASSUME Rows, Struct, SourcesRetained, [Next]_vars PROVE SourcesRetained'
  OBVIOUS
<1>n. /\ \A s \in {"open", "deleted"} : /\ NoDraftRow(s).sources = {} /\ NoDraftRow(s).pages = {}
                                        /\ NoDraftRow(s).initial = {}
      /\ \A s \in {"live", "deleted"} : NoPieceRow(s).sources = {} /\ NoPieceRow(s).pages = {}
  BY DEF NoDraftRow, NoPieceRow
<1>0. CASE UNCHANGED <<piece, draft, assets>>
  BY <1>0 DEF SourcesRetained, SourcesInUse
<1>1. ASSUME NEW d \in Draft, CreateImport(d) PROVE SourcesRetained'
  BY <1>1, <1>n, SourcesFrame DEF CreateImport, Rows
<1>2. ASSUME NEW d \in Draft, NEW p \in Piece, CreateImportForPiece(d, p) PROVE SourcesRetained'
  <2> DEFINE start == IF piece[p].prepared THEN piece[p].pages ELSE {piece[p].pdf} \ {NoKey}
             row == [NoDraftRow("open") EXCEPT !.piece = p, !.base = piece[p].revision,
                       !.basePdf = piece[p].pdf, !.sources = start, !.initial = start, !.pages = start]
  <2>1. draft' = [draft EXCEPT ![d] = row] /\ piece' = piece
        /\ assets' = IF piece[p].prepared THEN assets ELSE assets \cup start
    BY <1>2 DEF CreateImportForPiece
  <2>2. row.sources = start /\ row.pages = start /\ row.initial = start
    BY DEF NoDraftRow
  <2>3. piece[p].prepared => start \subseteq assets
    BY SourcesAreAssets DEF SourcesRetained
  <2> HIDE DEF row
  <2> QED
    BY <2>1, <2>2, <2>3, SourcesFrame DEF Rows
<1>3. ASSUME NEW d \in Draft, NEW pages \in SUBSET Key, NEW edited \in BOOLEAN, UpdateImport(d, pages, edited)
      PROVE SourcesRetained'
  <2> DEFINE row == [draft[d] EXCEPT !.pages = pages, !.edited = edited]
  <2>1. draft' = [draft EXCEPT ![d] = row] /\ UNCHANGED <<piece, assets>>
        /\ draft[d].state = "open" /\ pages \subseteq draft[d].sources
    BY <1>3 DEF UpdateImport, ValidPages
  <2>2. row.sources = draft[d].sources /\ row.pages = pages /\ row.initial = draft[d].initial
    BY DEF Rows, DraftRow
  <2>3. draft[d].sources \subseteq assets /\ draft[d].initial \subseteq draft[d].sources
    BY <2>1, SourcesAreAssets DEF SourcesRetained
  <2> HIDE DEF row
  <2> QED
    BY <2>1, <2>2, <2>3, SourcesFrame DEF Rows
<1>4. ASSUME NEW d \in Draft, Expire(d) PROVE SourcesRetained'
  <2> DEFINE row == [draft[d] EXCEPT !.expired = TRUE]
  <2>1. draft' = [draft EXCEPT ![d] = row] /\ UNCHANGED <<piece, assets>>
    BY <1>4 DEF Expire
  <2>2. /\ row.sources = draft[d].sources /\ row.pages = draft[d].pages
        /\ row.initial = draft[d].initial /\ row.state = draft[d].state
    BY DEF Rows, DraftRow
  <2>3. draft[d].sources \subseteq assets
    BY SourcesAreAssets DEF SourcesRetained
  <2> HIDE DEF row
  <2> QED
    BY <2>1, <2>2, <2>3, SourcesFrame DEF Rows, SourcesRetained
<1>5. ASSUME NEW d \in Draft, DeleteImport(d) PROVE SourcesRetained'
  BY <1>5, <1>n, SourcesFrame DEF DeleteImport, CollectAndQueue, Rows
<1>6. ASSUME NEW o \in Owner, NEW appended \in BOOLEAN, CommitAttach(o, appended) PROVE SourcesRetained'
  <2> DEFINE d == tx[o].draft
             k == tx[o].key
             row == [draft[d] EXCEPT !.sources = @ \cup {k},
                                     !.pages = IF appended THEN @ \cup {k} ELSE @,
                                     !.edited = @ \/ appended]
  <2>1. /\ draft' = [draft EXCEPT ![d] = row] /\ piece' = piece /\ assets' = assets \cup {k}
        /\ d \in Draft /\ draft[d].state = "open"
    <3>1. draft' = [draft EXCEPT ![d] = row] /\ piece' = piece /\ assets' = assets \cup {k} /\ tx[o].op = "attach"
      BY <1>6 DEF CommitAttach
    <3>2. d \in Draft /\ draft[d].state = "open"
      BY <3>1 DEF Struct, TxOK
    <3> QED
      BY <3>1, <3>2
  <2>2. row.sources = draft[d].sources \cup {k} /\ row.initial = draft[d].initial
        /\ row.pages \subseteq draft[d].pages \cup {k}
    BY <2>1 DEF Rows, DraftRow
  <2>3. draft[d].sources \subseteq assets /\ draft[d].pages \cup draft[d].initial \subseteq draft[d].sources
    BY <2>1, SourcesAreAssets DEF SourcesRetained
  <2> HIDE DEF row
  <2> QED
    BY <2>1, <2>2, <2>3, SourcesFrame DEF Rows
<1>7. ASSUME NEW o \in Owner, CommitFinalize(o) PROVE SourcesRetained'
  <2> DEFINE d == tx[o].draft
             p == tx[o].piece
             row == Published(p, tx[o].key, draft[d].pages)
  <2>1. d \in Draft /\ p \in Piece /\ draft[d].state = "open" /\ draft[d] \in DraftRow /\ piece[p] \in PieceRow
    BY <1>7 DEF CommitFinalize, Struct, TxOK, Rows
  <2>2. /\ draft' = [draft EXCEPT ![d] = Finalized(d, p)] /\ piece' = [piece EXCEPT ![p] = row]
        /\ assets' = assets \cap SourcesInUse'
    BY <1>7 DEF CommitFinalize, CollectAndQueue
  <2>3. Finalized(d, p).sources = {} /\ Finalized(d, p).state = "finalized"
    BY <2>1 DEF Finalized, DraftRow
  <2>4. row.pages = draft[d].pages /\ row.sources = draft[d].pages
    BY <2>1 DEF Published, PieceRow
  <2>5. draft[d].pages \subseteq assets
    BY <2>1, SourcesAreAssets DEF SourcesRetained
  <2> HIDE DEF row
  <2>6. piece'[p] = row
    BY <2>1, <2>2 DEF Rows
  <2>7. row.sources \subseteq SourcesInUse'
    <3>1. \A q \in Piece : piece'[q].sources \subseteq SourcesInUse'
      BY DEF SourcesInUse
    <3> QED
      BY <3>1, <2>1, <2>6
  <2> QED
    BY <2>1, <2>2, <2>3, <2>4, <2>5, <2>6, <2>7, SourcesFrame DEF Rows
<1>8. ASSUME NEW p \in Piece, CreatePiece(p) PROVE SourcesRetained'
  BY <1>8, <1>n, SourcesFrame DEF CreatePiece, Rows
<1>9. ASSUME NEW p \in Piece, DeletePiece(p) PROVE SourcesRetained'
  BY <1>9, <1>n, SourcesFrame DEF DeletePiece, DraftsWithout, CollectAndQueue, Rows
<1>10. ASSUME NEW p \in Piece, NEW c \in Content, PutReaderState(p, c) PROVE SourcesRetained'
  <2> DEFINE row == [piece[p] EXCEPT !.place = c]
  <2>1. row.pages = piece[p].pages /\ row.sources = piece[p].sources
    BY DEF Rows, PieceRow
  <2>2. piece' = [piece EXCEPT ![p] = row] /\ UNCHANGED <<draft, assets>>
    BY <1>10 DEF PutReaderState
  <2>3. piece[p].pages \subseteq piece[p].sources /\ piece[p].sources \subseteq assets
    BY SourcesAreAssets DEF SourcesRetained
  <2> HIDE DEF row
  <2> QED
    BY <2>1, <2>2, <2>3, SourcesFrame DEF Rows
<1>11. CASE CleanupCollect
  BY <1>11, <1>n, SourcesFrame DEF CleanupCollect, CollectAndQueue
<1>12. CASE Publishing \/ \E d \in Draft, k \in Key : BeginAttach(d, k)
  BY <1>12, <1>0 DEF Publishing, BeginFinalize, BeginAttach
<1>13. CASE (\E o \in Owner : Rollback(o) \/ LoseConnection(o) \/ ServerAbort(o)) \/ \E k \in Key : Requeue(k)
  BY <1>13, <1>0 DEF Rollback, LoseConnection, ServerAbort, Requeue, QueueObject, QueueObjectFails
<1>14. CASE CleanupStep \/ CleanupFails \/ Crash \/ UNCHANGED vars
  BY <1>14, <1>11, <1>0 DEF CleanupStep, CleanupSelect, CleanupCheck, CleanupDelete, CleanupDeleteFails,
     CleanupDequeue, CleanupDone, CleanupFails, Crash, vars
<1> QED
  BY <1>1, <1>2, <1>3, <1>4, <1>5, <1>6, <1>7, <1>8, <1>9, <1>10, <1>12, <1>13, <1>14
     DEF Next, Drafting, Resolve, Pieces

----------------------------------------------------------------------------

\* The inductive invariant holds at the start.
LEMMA InitIInv == Init => IInv
<1> SUFFICES ASSUME Init PROVE IInv
  OBVIOUS
<1> USE ConstantsAssumption
<1>1. Rows /\ Struct
  BY InitRows
<1>2. \A p \in Piece : piece[p] = IF p \in DOMAIN LegacyPdf THEN [NoPieceRow("live") EXCEPT !.pdf = LegacyPdf[p]]
                                  ELSE NoPieceRow("none")
  BY DEF Init
<1>3. \A p \in Piece : /\ piece[p].pdf = IF p \in DOMAIN LegacyPdf THEN LegacyPdf[p] ELSE NoKey
                       /\ piece[p].state = IF p \in DOMAIN LegacyPdf THEN "live" ELSE "none"
                       /\ piece[p].sources = {} /\ piece[p].pages = {}
  <2>1. \A k : /\ [NoPieceRow("live") EXCEPT !.pdf = k].pdf = k
              /\ [NoPieceRow("live") EXCEPT !.pdf = k].state = "live"
              /\ [NoPieceRow("live") EXCEPT !.pdf = k].sources = {}
              /\ [NoPieceRow("live") EXCEPT !.pdf = k].pages = {}
    BY DEF NoPieceRow
  <2>2. /\ NoPieceRow("none").pdf = NoKey /\ NoPieceRow("none").state = "none"
        /\ NoPieceRow("none").sources = {} /\ NoPieceRow("none").pages = {}
    BY DEF NoPieceRow
  <2> QED
    BY <1>2, <2>1, <2>2
<1>4. \A d \in Draft : draft[d].state = "none" /\ draft[d].sources = {}
  BY DEF Init, NoDraftRow
<1>5. SourcesRetained
  BY <1>3, <1>4 DEF SourcesRetained, SourcesInUse
<1>6. PiecesOK
  BY <1>3 DEF PiecesOK
<1>7. Referenced = store
  BY <1>3 DEF Init, Referenced, Pdfs
<1>8. \A o \in Owner : tx[o].op = "none" /\ tx[o].key = NoKey
  BY DEF Init, NoTx
<1>9. Doomed = {} /\ InFlight = {} /\ cleanup.pc = "idle"
  BY <1>8 DEF Doomed, InFlight, Init, CleanupIdle
<1>10. \A k \in store : content[k] # Unsaved
  BY DEF Init
<1>11. Files
  BY <1>7, <1>8, <1>9, <1>10 DEF Init, Files, KeysOK, CleanupOK, ReferencedObjectsExist, NoForgottenObject
<1> QED
  BY <1>1, <1>5, <1>6, <1>11 DEF IInv

\* The inductive invariant holds in every reachable state, as long as no COMMIT is applied
\* after the API has given it up.
LEMMA Inductive == ASSUME ~LateCommits PROVE Spec => []IInv
<1>1. IInv /\ [Next]_vars => IInv'
  BY RowsStep, StructStep, PiecesStep, SourcesStep, FilesStep DEF IInv, Struct
<1> QED
  BY InitIInv, <1>1, PTL DEF Spec

\* No file that a piece or a draft needs is ever deleted, for any number of users, pieces,
\* drafts and keys and any number of crashes and failures.
THEOREM ReferencedObjectsKept == ASSUME ~LateCommits PROVE Spec => []ReferencedObjectsExist
<1>1. IInv => ReferencedObjectsExist
  BY DEF IInv, Files
<1> QED
  BY Inductive, <1>1, PTL

\* No file is forgotten but those whose key was lost with a crash or a failed queueObject.
THEOREM ObjectsAccountedFor == ASSUME ~LateCommits PROVE Spec => []NoForgottenObject
<1>1. IInv => NoForgottenObject
  BY DEF IInv, Files
<1> QED
  BY Inductive, <1>1, PTL

----------------------------------------------------------------------------
(***************************************************************************)
(* The life of a file: the intake implements ObjectLifecycle.              *)
(***************************************************************************)

\* What the mapping makes of a key, before and after a step.
LEMMA KeyUses ==
  /\ \A k \in Key : KeyUse[k] = IF k \in Referenced THEN "wanted"
                                ELSE IF k \in InFlight THEN "held"
                                ELSE IF content[k] = Unsaved THEN "new" ELSE "garbage"
  /\ KeyUse = [k \in Key |-> KeyUse[k]]
BY DEF KeyUse

LEMMA KeyUsesNext ==
  /\ \A k \in Key : KeyUse'[k] = IF k \in Referenced' THEN "wanted"
                                 ELSE IF k \in InFlight' THEN "held"
                                 ELSE IF content'[k] = Unsaved THEN "new" ELSE "garbage"
  /\ KeyUse' = [k \in Key |-> KeyUse'[k]]
BY DEF KeyUse

\* Of the invariant: a key that a row names has content and is in no transaction's hands.
LEMMA NamedKeys ==
  ASSUME TxOK, Files, NEW k \in Key, k \in Referenced
  PROVE  k \notin InFlight /\ content[k] # Unsaved
BY ConstantsAssumption DEF Files, KeysOK, InFlight, TxOK, NoTx

\* A step that saves, commits and deletes no file takes some references away, or none.
LEMMA LifeReleases ==
  ASSUME TxOK, Files, UNCHANGED <<content, store>>, InFlight' = InFlight,
         Referenced' \subseteq Referenced
  PROVE  Lifecycle!Next
<1> DEFINE dropped == {k \in Key : k \in Referenced \ Referenced'}
<1>1. dropped \subseteq Lifecycle!Wanted
  BY KeyUses DEF Lifecycle!Wanted
<1>2. ASSUME NEW k \in Key
      PROVE  KeyUse'[k] = IF k \in dropped THEN "garbage" ELSE KeyUse[k]
  BY NamedKeys, KeyUses, KeyUsesNext
<1>3. KeyUse' = [k \in Key |-> IF k \in dropped THEN "garbage" ELSE KeyUse[k]]
  BY <1>2, KeyUsesNext
<1> HIDE DEF dropped
<1> QED
  BY <1>1, <1>3 DEF Lifecycle!Next, Lifecycle!Release

LEMMA LifeSaves ==
  ASSUME Rows, TxOK, Files, NEW o \in Owner, NEW k \in Key, NEW c \in Content \cup {SourceBytes},
         NEW t, t.key = k, Unlocked(o), SaveObject(k, c), tx' = [tx EXCEPT ![o] = t],
         UNCHANGED <<piece, assets>>
  PROVE  Lifecycle!Next
<1>1. /\ content[k] = Unsaved /\ content' = [content EXCEPT ![k] = c] /\ store' = store \cup {k}
      /\ c # Unsaved
  BY ConstantsAssumption DEF SaveObject
<1>2. Referenced' = Referenced
  BY DEF Referenced, Pdfs
<1>3. k \notin Referenced \cup InFlight
  BY <1>1 DEF Files, KeysOK
<1>4. tx[o].key = NoKey /\ \A u \in Owner : tx'[u] = IF u = o THEN t ELSE tx[u]
  BY DEF Unlocked, TxOK, NoTx, Rows
<1>5. InFlight' = InFlight \cup {k}
  BY <1>4, ConstantsAssumption DEF InFlight
<1>6. ASSUME NEW j \in Key PROVE KeyUse'[j] = IF j = k THEN "held" ELSE KeyUse[j]
  BY <1>1, <1>2, <1>3, <1>5, KeyUses, KeyUsesNext DEF Rows
<1>7. KeyUse' = [KeyUse EXCEPT ![k] = "held"]
  BY <1>6, KeyUses, KeyUsesNext
<1>8. KeyUse[k] = "new"
  BY <1>1, <1>3, KeyUses
<1> QED
  BY <1>1, <1>7, <1>8 DEF Lifecycle!Next, Lifecycle!Save

\* The key of a transaction that has saved a file is held.
LEMMA HeldKey ==
  ASSUME Rows, TxOK, Files, NEW o \in Owner, tx[o].op # "none"
  PROVE  /\ tx[o].key \in Key /\ tx[o].key \in InFlight /\ tx[o].key \notin Referenced
         /\ content[tx[o].key] # Unsaved /\ KeyUse[tx[o].key] = "held"
<1>1. tx[o].key \in Key /\ tx[o].key \in InFlight
  BY ConstantsAssumption DEF TxOK, InFlight
<1>2. tx[o].key \notin Referenced /\ content[tx[o].key] # Unsaved
  BY <1>1 DEF Files, KeysOK
<1> QED
  BY <1>1, <1>2, KeyUses

LEMMA LifeKeeps ==
  ASSUME Rows, TxOK, Files, NEW o \in Owner, tx[o].op # "none", tx' = [tx EXCEPT ![o] = NoTx],
         UNCHANGED <<store, content>>,
         tx[o].key \in Referenced', Referenced' \subseteq Referenced \cup {tx[o].key}
  PROVE  Lifecycle!Next
<1> DEFINE k == tx[o].key
           dropped == {j \in Key : j \in Referenced \ Referenced'}
<1>1. k \in Key /\ k \notin Referenced /\ KeyUse[k] = "held"
  BY HeldKey
<1>2. InFlight' = InFlight \ {k}
  BY InFlightEnds
<1>3. dropped \subseteq Lifecycle!Wanted
  BY KeyUses DEF Lifecycle!Wanted
<1>4. ASSUME NEW j \in Key
      PROVE  KeyUse'[j] = IF j = k THEN "wanted" ELSE IF j \in dropped THEN "garbage" ELSE KeyUse[j]
  BY <1>1, <1>2, NamedKeys, KeyUses, KeyUsesNext
<1>5. KeyUse' = [j \in Key |-> IF j = k THEN "wanted" ELSE IF j \in dropped THEN "garbage"
                               ELSE KeyUse[j]]
  BY <1>4, KeyUsesNext
<1> HIDE DEF k, dropped
<1> QED
  BY <1>1, <1>3, <1>5 DEF Lifecycle!Next, Lifecycle!Keep

LEMMA LifeGivesUp ==
  ASSUME Rows, TxOK, Files, NEW o \in Owner, tx[o].op # "none", tx' = [tx EXCEPT ![o] = NoTx],
         UNCHANGED <<piece, assets, store, content>>
  PROVE  Lifecycle!Next
<1> DEFINE k == tx[o].key
<1>1. k \in Key /\ k \notin Referenced /\ content[k] # Unsaved /\ KeyUse[k] = "held"
  BY HeldKey
<1>2. InFlight' = InFlight \ {k} /\ Referenced' = Referenced
  <2>1. InFlight' = InFlight \ {k}
    BY InFlightEnds
  <2>2. Referenced' = Referenced
    BY DEF Referenced, Pdfs
  <2> QED
    BY <2>1, <2>2
<1>3. ASSUME NEW j \in Key PROVE KeyUse'[j] = IF j = k THEN "garbage" ELSE KeyUse[j]
  BY <1>1, <1>2, KeyUses, KeyUsesNext
<1>4. KeyUse' = [KeyUse EXCEPT ![k] = "garbage"]
  BY <1>3, KeyUses, KeyUsesNext
<1> HIDE DEF k
<1> QED
  BY <1>1, <1>4 DEF Lifecycle!Next, Lifecycle!GiveUp

\* What the job deletes no row names, no transaction holds and somebody has saved.
LEMMA LifeErases ==
  ASSUME Rows, TxOK, Files, NEW k \in Key, CleanupDelete(k)
  PROVE  Lifecycle!Next
<1>1. /\ cleanup.pc = "delete" /\ cleanup.key = k /\ store' = store \ {k}
      /\ UNCHANGED <<piece, assets, content, tx>>
  BY DEF CleanupDelete
<1>2. k \notin Referenced /\ k \in Doomed
  BY <1>1, ConstantsAssumption DEF Files, CleanupOK, Doomed
<1>3. k \notin InFlight /\ content[k] # Unsaved
  BY <1>2, ConstantsAssumption DEF Files, KeysOK, InFlight, TxOK, NoTx
<1>4. InFlight' = InFlight /\ Referenced' = Referenced
  BY <1>1 DEF InFlight, Referenced, Pdfs
<1>5. KeyUse[k] = "garbage" /\ KeyUse' = KeyUse
  BY <1>1, <1>2, <1>3, <1>4, KeyUses DEF KeyUse
<1> QED
  BY <1>1, <1>5 DEF Lifecycle!Next, Lifecycle!Erase

\* The steps that leave every file and every reference alone.
LEMMA LifeRests ==
  ASSUME UNCHANGED <<content, store>>, InFlight' = InFlight, Referenced' = Referenced
  PROVE  UNCHANGED Lifecycle!vars
BY DEF KeyUse, Lifecycle!vars

LEMMA LifeStep == IInv /\ [Next]_vars => [Lifecycle!Next]_(Lifecycle!vars)
<1> SUFFICES ASSUME IInv, [Next]_vars PROVE Lifecycle!Next \/ UNCHANGED Lifecycle!vars
  OBVIOUS
<1>t. Rows /\ TxOK /\ Files /\ PiecesOK
  BY DEF IInv, Struct
<1>u. /\ UNCHANGED <<piece, assets>> => Referenced' = Referenced
      /\ UNCHANGED tx => InFlight' = InFlight
  BY DEF Referenced, Pdfs, InFlight
<1>1. CASE \E d \in Draft :
             \/ CreateImport(d) \/ Expire(d)
             \/ \E pages \in SUBSET Key, edited \in BOOLEAN : UpdateImport(d, pages, edited)
  BY <1>1, <1>u, LifeRests DEF CreateImport, Expire, UpdateImport
<1>2. ASSUME NEW d \in Draft, NEW p \in Piece, CreateImportForPiece(d, p)
      PROVE  UNCHANGED Lifecycle!vars
  <2>1. Referenced' = Referenced
    BY <1>2 DEF CreateImportForPiece, Referenced, Pdfs
  <2> QED
    BY <1>2, <1>u, <2>1, LifeRests DEF CreateImportForPiece
<1>3. ASSUME NEW d \in Draft, NEW k \in Key, BeginAttach(d, k) PROVE Lifecycle!Next
  <2> DEFINE t == [NoTx EXCEPT !.op = "attach", !.draft = d, !.key = k]
  <2>1. t.key = k
    BY DEF NoTx
  <2>2. tx' = [tx EXCEPT ![DraftOwner[d]] = t] /\ DraftOwner[d] \in Owner
    BY <1>3, ConstantsAssumption DEF BeginAttach
  <2> HIDE DEF t
  <2> QED
    BY <1>3, <1>t, <2>1, <2>2, LifeSaves DEF BeginAttach
<1>4. ASSUME NEW d \in Draft, NEW p \in Piece, NEW k \in Key, NEW c \in Content, BeginFinalize(d, p, k, c)
      PROVE  Lifecycle!Next
  <2> DEFINE t == [NoTx EXCEPT !.op = "finalize", !.draft = d, !.piece = p, !.key = k]
  <2>1. t.key = k
    BY DEF NoTx
  <2>2. tx' = [tx EXCEPT ![DraftOwner[d]] = t] /\ DraftOwner[d] \in Owner
    BY <1>4, ConstantsAssumption DEF BeginFinalize
  <2> HIDE DEF t
  <2> QED
    BY <1>4, <1>t, <2>1, <2>2, LifeSaves DEF BeginFinalize
<1>5. ASSUME NEW S, CollectAndQueue(S), Pdfs' \subseteq Pdfs, UNCHANGED <<content, tx, store>>
      PROVE  Lifecycle!Next
  <2>1. Referenced' \subseteq Referenced
    BY <1>5 DEF CollectAndQueue, Referenced
  <2> QED
    BY <1>5, <1>t, <1>u, <2>1, LifeReleases
<1>6. CASE CleanupCollect \/ \E d \in Draft : DeleteImport(d)
  BY <1>5, <1>6 DEF CleanupCollect, DeleteImport, Pdfs
<1>7. ASSUME NEW p \in Piece, DeletePiece(p) PROVE Lifecycle!Next
  <2>1. NoPieceRow("deleted").pdf = NoKey
    BY DEF NoPieceRow
  <2>2. \A q \in Piece : piece'[q].pdf = IF q = p THEN NoKey ELSE piece[q].pdf
    BY <1>7, <1>t, <2>1 DEF DeletePiece, Rows
  <2>3. Pdfs' \subseteq Pdfs
    BY <2>2 DEF Pdfs
  <2> QED
    BY <1>5, <1>7, <2>3 DEF DeletePiece
<1>8. ASSUME NEW o \in Owner, NEW appended \in BOOLEAN, CommitAttach(o, appended)
      PROVE  Lifecycle!Next
  <2>1. Referenced' = Referenced \cup {tx[o].key}
    BY <1>8 DEF CommitAttach, Referenced, Pdfs
  <2> QED
    BY <1>8, <1>t, <2>1, LifeKeeps DEF CommitAttach
<1>9. ASSUME NEW o \in Owner, CommitFinalize(o) PROVE Lifecycle!Next
  <2> DEFINE d == tx[o].draft
             p == tx[o].piece
             k == tx[o].key
             row == Published(p, k, draft[d].pages)
  <2>1. p \in Piece /\ piece[p] \in PieceRow /\ k \in Key
    BY <1>9, <1>t DEF CommitFinalize, TxOK, Rows
  <2>2. row.pdf = k
    BY <2>1 DEF Published, PieceRow
  <2>3. /\ piece' = [piece EXCEPT ![p] = row] /\ tx' = [tx EXCEPT ![o] = NoTx]
        /\ UNCHANGED <<store, content>> /\ tx[o].op # "none" /\ assets' \subseteq assets
    BY <1>9 DEF CommitFinalize, CollectAndQueue
  <2> HIDE DEF row
  <2>4. \A q \in Piece : piece'[q].pdf = IF q = p THEN k ELSE piece[q].pdf
    BY <1>t, <2>1, <2>2, <2>3 DEF Rows
  <2>5. k \in Referenced' /\ Referenced' \subseteq Referenced \cup {k}
    BY <2>1, <2>3, <2>4, ConstantsAssumption DEF Referenced, Pdfs
  <2> QED
    BY <1>t, <2>3, <2>5, LifeKeeps
<1>10. ASSUME NEW o \in Owner, Rollback(o) \/ ServerAbort(o) PROVE Lifecycle!Next
  <2>1. tx[o].op # "none"
    BY <1>10, <1>t DEF Rollback, ServerAbort, TxOK, NoTx
  <2> QED
    BY <1>10, <1>t, <2>1, LifeGivesUp DEF Rollback, ServerAbort
<1>11. CASE Crash \/ \E o \in Owner : LoseConnection(o)
  <2>1. \A t \in Transaction : \A b \in BOOLEAN : [t EXCEPT !.doubt = b].key = t.key
    BY DEF Transaction
  <2>2. \A u \in Owner : tx'[u].key = tx[u].key
    <3>1. CASE Crash
      BY <1>t, <2>1, <3>1 DEF Crash, Rows
    <3>2. ASSUME NEW o \in Owner, LoseConnection(o) PROVE \A u \in Owner : tx'[u].key = tx[u].key
      BY <1>t, <2>1, <3>2 DEF LoseConnection, Rows
    <3> QED
      BY <1>11, <3>1, <3>2
  <2>3. InFlight' = InFlight
    BY <2>2 DEF InFlight
  <2> QED
    BY <1>11, <1>u, <2>3, LifeRests DEF Crash, LoseConnection
<1>12. CASE \E k \in Key : QueueObject(k) \/ QueueObjectFails(k)
  BY <1>12, <1>u, LifeRests DEF QueueObject, QueueObjectFails
<1>13. ASSUME NEW p \in Piece, CreatePiece(p) PROVE UNCHANGED Lifecycle!vars
  <2>1. NoPieceRow("live").pdf = NoKey
    BY DEF NoPieceRow
  <2>2. \A q \in Piece : piece'[q].pdf = piece[q].pdf
    BY <1>13, <1>t, <2>1 DEF CreatePiece, PiecesOK, Rows
  <2>3. Referenced' = Referenced
    BY <1>13, <2>2 DEF CreatePiece, Referenced, Pdfs
  <2> QED
    BY <1>13, <1>u, <2>3, LifeRests DEF CreatePiece
<1>14. ASSUME NEW p \in Piece, NEW c \in Content, PutReaderState(p, c) PROVE UNCHANGED Lifecycle!vars
  <2> DEFINE row == [piece[p] EXCEPT !.place = c]
  <2>1. row.pdf = piece[p].pdf
    BY <1>t DEF Rows, PieceRow
  <2>2. piece' = [piece EXCEPT ![p] = row] /\ UNCHANGED <<assets, content, tx, store>>
    BY <1>14 DEF PutReaderState
  <2> HIDE DEF row
  <2>3. \A q \in Piece : piece'[q].pdf = piece[q].pdf
    BY <1>t, <2>1, <2>2 DEF Rows
  <2>4. Referenced' = Referenced
    BY <2>2, <2>3 DEF Referenced, Pdfs
  <2> QED
    BY <1>u, <2>2, <2>4, LifeRests
<1>15. CASE \/ (\E batch \in SUBSET queue : CleanupSelect(batch))
            \/ (\E k \in cleanup.batch : CleanupCheck(k))
            \/ CleanupDeleteFails \/ CleanupDequeue \/ CleanupDone \/ CleanupFails
  BY <1>15, <1>u, LifeRests
  DEF CleanupSelect, CleanupCheck, CleanupDeleteFails, CleanupDequeue, CleanupDone, CleanupFails
<1>16. CASE \E k \in Key : CleanupDelete(k)
  BY <1>16, <1>t, LifeErases
<1>17. CASE UNCHANGED vars
  BY <1>17, <1>u, LifeRests DEF vars
<1> QED
  BY <1>1, <1>2, <1>3, <1>4, <1>6, <1>7, <1>8, <1>9, <1>10, <1>11, <1>12, <1>13, <1>14, <1>15,
     <1>16, <1>17
     DEF Next, Drafting, Publishing, Resolve, Requeue, Pieces, CleanupStep

\* At the start only the PDFs of earlier versions are there, each named by its piece.
LEMMA LifeInit == Init => Lifecycle!Init
<1> SUFFICES ASSUME Init PROVE Lifecycle!Init
  OBVIOUS
<1>1. IInv /\ InFlight = {}
  BY InitIInv DEF Init, NoTx, InFlight
<1>2. \A k \in Key : k \in store <=> content[k] # Unsaved
  BY ConstantsAssumption DEF Init
<1>3. Referenced \subseteq store /\ store \subseteq Referenced \cup queue \cup unqueued \cup lost
  BY <1>1 DEF IInv, Files, ReferencedObjectsExist, NoForgottenObject
<1>4. Referenced = store /\ store \subseteq Key
  BY <1>1, <1>3 DEF Init, IInv, Rows
<1>5. \A k \in Key : KeyUse[k] = IF k \in store THEN "wanted" ELSE "new"
  BY <1>1, <1>2, <1>4, KeyUses
<1> QED
  BY <1>4, <1>5, KeyUses DEF Lifecycle!Init, Lifecycle!Wanted

\* Files are erased only after the committed references to them have disappeared, and come to
\* no use afterwards: every behaviour of the intake and of the cleanup job is, key by key, one
\* that ObjectLifecycle allows, provided that a COMMIT whose connection was lost is settled
\* before the API's next statement (CleanupImports, attachSource, FinalizeImport).
THEOREM IntakeImplementsLifecycle == ASSUME ~LateCommits PROVE Spec => ImplementsLifecycle
BY LifeInit, LifeStep, Inductive, PTL DEF Spec, ImplementsLifecycle, Lifecycle!Spec

\* What ObjectLifecycle allows never takes a file that is wanted or held.
THEOREM LifecycleKeepsFiles == Lifecycle!Spec => []Lifecycle!NeededFilesExist
<1> DEFINE Inv == Lifecycle!NeededFilesExist /\ KeyUse \in [Key -> Lifecycle!Uses]
<1>1. Lifecycle!Init => Inv
  BY DEF Lifecycle!Init, Lifecycle!NeededFilesExist, Lifecycle!Wanted, Lifecycle!Uses
<1>2. Inv /\ [Lifecycle!Next]_(Lifecycle!vars) => Inv'
  BY DEF Lifecycle!Next, Lifecycle!vars, Lifecycle!Save, Lifecycle!Keep, Lifecycle!GiveUp,
         Lifecycle!Release, Lifecycle!Erase, Lifecycle!Wanted, Lifecycle!Uses,
         Lifecycle!NeededFilesExist
<1> QED
  BY <1>1, <1>2, PTL DEF Lifecycle!Spec

----------------------------------------------------------------------------
\* collectOrphans takes no source that a draft's pages or a piece's manifest come from,
\* whether or not a lost commit may still be applied.
THEOREM SourcesKept == Spec => []SourcesRetained
<1>1. Init => Rows /\ Struct /\ SourcesRetained
  BY InitIInv DEF IInv
<1>2. Rows /\ Struct /\ SourcesRetained /\ [Next]_vars => (Rows /\ Struct /\ SourcesRetained)'
  BY RowsStep, StructStep, SourcesStep DEF Struct
<1> QED
  BY <1>1, <1>2, PTL DEF Spec

----------------------------------------------------------------------------
(***************************************************************************)
(* Publication.                                                            *)
(***************************************************************************)

\* A piece gets a PDF only from CommitFinalize, which writes the row of its draft with it.
\* A repeated FinalizeImport finds that draft finalized.
THEOREM PublicationUsesUpDraft == Spec => PublishConsumesDraft
<1> DEFINE A == \A p \in Piece : piece'[p].pdf \notin {piece[p].pdf, NoKey} =>
                  \E d \in Draft : /\ draft[d].state = "open" /\ draft'[d].state = "finalized"
                                   /\ draft'[d].piece = p
                                   /\ \A e \in Draft \ {d} : draft'[e] = draft[e]
<1>1. Rows /\ Struct /\ [Next]_vars => [A]_vars
  <2> SUFFICES ASSUME Rows, TxOK, Next, NEW q \in Piece, piece'[q].pdf \notin {piece[q].pdf, NoKey}
               PROVE  \E d \in Draft : /\ draft[d].state = "open" /\ draft'[d].state = "finalized"
                                       /\ draft'[d].piece = q
                                       /\ \A e \in Draft \ {d} : draft'[e] = draft[e]
    BY DEF Struct
  <2>1. ~UNCHANGED piece
    OBVIOUS
  <2>2. ASSUME NEW p \in Piece, CreatePiece(p) \/ DeletePiece(p) PROVE FALSE
    <3>1. NoPieceRow("live").pdf = NoKey /\ NoPieceRow("deleted").pdf = NoKey
      BY DEF NoPieceRow
    <3> QED
      BY <2>2, <3>1 DEF CreatePiece, DeletePiece, Rows
  <2>3. ASSUME NEW p \in Piece, NEW c \in Content, PutReaderState(p, c) PROVE FALSE
    <3> DEFINE row == [piece[p] EXCEPT !.place = c]
    <3>1. row.pdf = piece[p].pdf
      BY DEF Rows, PieceRow
    <3>2. piece' = [piece EXCEPT ![p] = row]
      BY <2>3 DEF PutReaderState
    <3> HIDE DEF row
    <3> QED
      BY <3>1, <3>2 DEF Rows
  <2>4. PICK o \in Owner : CommitFinalize(o)
    BY ZenonT(60), <2>1, <2>2, <2>3
       DEF Next, Drafting, Publishing, Resolve, Requeue, Pieces, CleanupStep, CreateImport,
           CreateImportForPiece, UpdateImport, BeginAttach, DeleteImport, Expire, BeginFinalize,
           CommitAttach, Rollback, LoseConnection, ServerAbort, QueueObject, QueueObjectFails,
           CleanupCollect, CleanupSelect, CleanupCheck, CleanupDelete, CleanupDeleteFails,
           CleanupDequeue, CleanupDone, CleanupFails, Crash
  <2> DEFINE d == tx[o].draft
             p == tx[o].piece
             row == Published(p, tx[o].key, draft[d].pages)
  <2>5. /\ d \in Draft /\ draft[d].state = "open" /\ p \in Piece
        /\ draft[d] \in DraftRow
    BY <2>4 DEF CommitFinalize, TxOK, Rows
  <2>6. Finalized(d, p).state = "finalized" /\ Finalized(d, p).piece = p
    BY <2>5 DEF Finalized, DraftRow
  <2>7. /\ piece' = [piece EXCEPT ![p] = row]
        /\ draft' = [draft EXCEPT ![d] = Finalized(d, p)]
    BY <2>4 DEF CommitFinalize
  <2> HIDE DEF row
  <2>8. p = q
    BY <2>7 DEF Rows
  <2> QED
    BY <2>5, <2>6, <2>7, <2>8 DEF Rows
<1>2. Rows /\ Struct /\ [Next]_vars => (Rows /\ Struct)'
  BY RowsStep, StructStep DEF Struct
<1> QED
  BY InitRows, <1>1, <1>2, PTL DEF Spec, PublishConsumesDraft

\* What an open draft knows of the piece it is for: the PDF it was opened on is the piece's
\* as long as the piece's revision is the one it was opened on.
BaseOK ==
  \A d \in Draft : draft[d].state = "open" =>
    IF draft[d].piece = NoPiece
      THEN draft[d].basePdf = NoKey
      ELSE /\ draft[d].base <= piece[draft[d].piece].revision
           /\ piece[draft[d].piece].revision = draft[d].base =>
                piece[draft[d].piece].pdf = draft[d].basePdf

\* Nothing publishes to the piece of a publication in flight, or takes its id.
TxBase ==
  \A o \in Owner : tx[o].op = "finalize" =>
    IF draft[tx[o].draft].piece = NoPiece
      THEN piece[tx[o].piece].state = "none"
      ELSE piece[tx[o].piece].revision = draft[tx[o].draft].base

\* A step that writes no piece, and writes a draft only as base and piece leave it.
LEMMA BaseFrame ==
  ASSUME Rows, BaseOK, piece' = piece,
         \A d \in Draft : draft'[d].state = "open" =>
           /\ draft[d].state = "open" /\ draft'[d].piece = draft[d].piece
           /\ draft'[d].base = draft[d].base /\ draft'[d].basePdf = draft[d].basePdf
  PROVE  BaseOK'
BY DEF BaseOK

\* A step that leaves the pieces and drafts of the publications in flight as they are.
LEMMA TxBaseFrame ==
  ASSUME TxBase,
         \A o \in Owner : tx'[o].op = "finalize" =>
           /\ tx[o].op = "finalize" /\ tx'[o].draft = tx[o].draft /\ tx'[o].piece = tx[o].piece
           /\ draft'[tx[o].draft].piece = draft[tx[o].draft].piece
           /\ draft'[tx[o].draft].base = draft[tx[o].draft].base
           /\ piece'[tx[o].piece].state = piece[tx[o].piece].state
           /\ piece'[tx[o].piece].revision = piece[tx[o].piece].revision
  PROVE  TxBase'
BY DEF TxBase

\* Every step keeps the base of every draft true.
LEMMA BaseStep == Rows /\ Struct /\ PiecesOK /\ BaseOK /\ TxBase /\ [Next]_vars => (BaseOK /\ TxBase)'
<1> SUFFICES ASSUME Rows, Struct, PiecesOK, BaseOK, TxBase, [Next]_vars PROVE BaseOK' /\ TxBase'
  OBVIOUS
<1> USE ConstantsAssumption
<1>t. TxOK /\ Cascade /\ DraftsOK
  BY DEF Struct
<1>n. /\ NoDraftRow("deleted").state = "deleted" /\ NoDraftRow("open").piece = NoPiece
      /\ NoDraftRow("open").basePdf = NoKey /\ NoTx.op = "none"
  BY DEF NoDraftRow, NoTx
<1>0. CASE UNCHANGED <<piece, draft, tx>>
  BY <1>0 DEF BaseOK, TxBase
<1>1. ASSUME NEW d \in Draft, CreateImport(d) PROVE BaseOK' /\ TxBase'
  <2>1. draft' = [draft EXCEPT ![d] = NoDraftRow("open")] /\ UNCHANGED <<piece, tx>>
        /\ draft[d].state = "none"
    BY <1>1 DEF CreateImport, CanOpen
  <2>2. BaseOK'
    BY <1>n, <2>1 DEF BaseOK, Rows
  <2>3. \A o \in Owner : tx[o].op = "finalize" => draft'[tx[o].draft] = draft[tx[o].draft]
    BY <1>t, <2>1 DEF TxOK, Rows
  <2> QED
    BY <2>1, <2>2, <2>3, TxBaseFrame
<1>2. ASSUME NEW d \in Draft, NEW p \in Piece, CreateImportForPiece(d, p) PROVE BaseOK' /\ TxBase'
  <2> DEFINE start == IF piece[p].prepared THEN piece[p].pages ELSE {piece[p].pdf} \ {NoKey}
             row == [NoDraftRow("open") EXCEPT !.piece = p, !.base = piece[p].revision,
                       !.basePdf = piece[p].pdf, !.sources = start, !.initial = start, !.pages = start]
  <2>1. draft' = [draft EXCEPT ![d] = row] /\ UNCHANGED <<piece, tx>> /\ draft[d].state = "none"
    BY <1>2 DEF CreateImportForPiece, CanOpen
  <2>2. row.piece = p /\ row.base = piece[p].revision /\ row.basePdf = piece[p].pdf
    BY DEF NoDraftRow
  <2> HIDE DEF row
  <2>3. piece[p].revision \in Nat
    BY DEF Rows, PieceRow
  <2>4. BaseOK'
    BY <2>1, <2>2, <2>3 DEF BaseOK, Rows
  <2>5. \A o \in Owner : tx[o].op = "finalize" => draft'[tx[o].draft] = draft[tx[o].draft]
    BY <1>t, <2>1 DEF TxOK, Rows
  <2> QED
    BY <2>1, <2>4, <2>5, TxBaseFrame
<1>3. ASSUME NEW d \in Draft, NEW row \in DraftRow, draft' = [draft EXCEPT ![d] = row],
             UNCHANGED <<piece, tx>>,
             row.state = draft[d].state, row.piece = draft[d].piece,
             row.base = draft[d].base, row.basePdf = draft[d].basePdf
      PROVE  BaseOK' /\ TxBase'
  <2>1. \A e \in Draft : /\ draft'[e].state = draft[e].state /\ draft'[e].piece = draft[e].piece
                         /\ draft'[e].base = draft[e].base /\ draft'[e].basePdf = draft[e].basePdf
    BY <1>3 DEF Rows
  <2>2. \A o \in Owner : tx[o].op = "finalize" => tx[o].draft \in Draft
    BY <1>t DEF TxOK
  <2> QED
    BY <1>3, <2>1, <2>2, BaseFrame, TxBaseFrame
<1>4. ASSUME NEW d \in Draft, NEW pages \in SUBSET Key, NEW edited \in BOOLEAN, UpdateImport(d, pages, edited)
      PROVE BaseOK' /\ TxBase'
  <2> DEFINE row == [draft[d] EXCEPT !.pages = pages, !.edited = edited]
  <2>1. draft[d] \in DraftRow
    BY DEF Rows
  <2>2. /\ row \in DraftRow /\ row.state = draft[d].state /\ row.piece = draft[d].piece
        /\ row.base = draft[d].base /\ row.basePdf = draft[d].basePdf
    BY <2>1 DEF DraftRow
  <2>3. draft' = [draft EXCEPT ![d] = row] /\ UNCHANGED <<piece, tx>>
    BY <1>4 DEF UpdateImport
  <2> HIDE DEF row
  <2> QED
    BY <2>2, <2>3, <1>3
<1>5. ASSUME NEW d \in Draft, Expire(d) PROVE BaseOK' /\ TxBase'
  <2> DEFINE row == [draft[d] EXCEPT !.expired = TRUE]
  <2>1. draft[d] \in DraftRow
    BY DEF Rows
  <2>2. /\ row \in DraftRow /\ row.state = draft[d].state /\ row.piece = draft[d].piece
        /\ row.base = draft[d].base /\ row.basePdf = draft[d].basePdf
    BY <2>1 DEF DraftRow
  <2>3. draft' = [draft EXCEPT ![d] = row] /\ UNCHANGED <<piece, tx>>
    BY <1>5 DEF Expire
  <2> HIDE DEF row
  <2> QED
    BY <2>2, <2>3, <1>3
<1>6. ASSUME NEW d \in Draft, NEW k \in Key, BeginAttach(d, k) PROVE BaseOK' /\ TxBase'
  <2> DEFINE t == [NoTx EXCEPT !.op = "attach", !.draft = d, !.key = k]
  <2>1. t.op = "attach"
    BY DEF NoTx
  <2>2. tx' = [tx EXCEPT ![DraftOwner[d]] = t] /\ UNCHANGED <<piece, draft>>
    BY <1>6 DEF BeginAttach
  <2> HIDE DEF t
  <2> QED
    BY <2>1, <2>2, BaseFrame, TxBaseFrame DEF Rows
<1>7. ASSUME NEW d \in Draft, DeleteImport(d) PROVE BaseOK' /\ TxBase'
  <2>1. /\ draft' = [draft EXCEPT ![d] = NoDraftRow("deleted")] /\ UNCHANGED <<piece, tx>>
        /\ tx[DraftOwner[d]].op = "none"
    BY <1>7 DEF DeleteImport, Unlocked
  <2>2. \A o \in Owner : tx[o].op = "finalize" => draft'[tx[o].draft] = draft[tx[o].draft]
    BY <1>t, <2>1 DEF TxOK, Rows
  <2>3. \A e \in Draft : draft'[e].state = "open" => draft'[e] = draft[e]
    BY <1>n, <2>1 DEF Rows
  <2> QED
    BY <2>1, <2>2, <2>3, BaseFrame, TxBaseFrame
<1>8. ASSUME NEW d \in Draft, NEW p \in Piece, NEW k \in Key, NEW c \in Content, BeginFinalize(d, p, k, c)
      PROVE BaseOK' /\ TxBase'
  <2> DEFINE t == [NoTx EXCEPT !.op = "finalize", !.draft = d, !.piece = p, !.key = k]
             o == DraftOwner[d]
  <2>1. t.op = "finalize" /\ t.draft = d /\ t.piece = p
    BY DEF NoTx
  <2>2. tx' = [tx EXCEPT ![o] = t] /\ UNCHANGED <<piece, draft>>
    BY <1>8 DEF BeginFinalize
  <2>3. IF draft[d].piece = NoPiece THEN piece[p].state = "none" ELSE piece[p].revision = draft[d].base
    BY <1>8 DEF BeginFinalize, BaseUnchanged
  <2> HIDE DEF t
  <2>4. BaseOK'
    BY <2>2, BaseFrame
  <2>5. TxBase'
    BY <2>1, <2>2, <2>3 DEF TxBase, Rows
  <2> QED
    BY <2>4, <2>5
<1>9. ASSUME NEW o \in Owner, NEW appended \in BOOLEAN, CommitAttach(o, appended) PROVE BaseOK' /\ TxBase'
  <2> DEFINE d == tx[o].draft
             k == tx[o].key
             row == [draft[d] EXCEPT !.sources = @ \cup {k},
                                     !.pages = IF appended THEN @ \cup {k} ELSE @,
                                     !.edited = @ \/ appended]
  <2>1. d \in Draft /\ DraftOwner[d] = o /\ draft[d] \in DraftRow
    BY <1>9, <1>t DEF CommitAttach, TxOK, Rows
  <2>2. /\ row.state = draft[d].state /\ row.piece = draft[d].piece
        /\ row.base = draft[d].base /\ row.basePdf = draft[d].basePdf
    BY <2>1 DEF DraftRow
  <2>3. draft' = [draft EXCEPT ![d] = row] /\ piece' = piece /\ tx' = [tx EXCEPT ![o] = NoTx]
    BY <1>9 DEF CommitAttach
  <2> HIDE DEF row
  <2>4. \A e \in Draft : /\ draft'[e].state = draft[e].state /\ draft'[e].piece = draft[e].piece
                         /\ draft'[e].base = draft[e].base /\ draft'[e].basePdf = draft[e].basePdf
    BY <2>1, <2>2, <2>3 DEF Rows
  <2>5. \A u \in Owner : tx'[u].op = "finalize" => tx'[u] = tx[u] /\ tx[u].draft \in Draft
    BY <1>n, <1>t, <2>3 DEF TxOK, Rows
  <2> QED
    BY <2>3, <2>4, <2>5, BaseFrame, TxBaseFrame
<1>10. ASSUME NEW o \in Owner, CommitFinalize(o) PROVE BaseOK' /\ TxBase'
  <2> DEFINE d == tx[o].draft
             p == tx[o].piece
             row == Published(p, tx[o].key, draft[d].pages)
  <2>1. /\ d \in Draft /\ DraftOwner[d] = o /\ p \in Piece /\ PieceOwner[p] = o
        /\ draft[d] \in DraftRow /\ piece[p] \in PieceRow
    BY <1>10, <1>t DEF CommitFinalize, TxOK, Rows
  <2>2. Finalized(d, p).state = "finalized"
    BY <2>1 DEF Finalized, DraftRow
  <2>3. row.revision = piece[p].revision + 1 /\ piece[p].revision \in Nat
    BY <2>1 DEF Published, PieceRow
  <2>4. /\ piece' = [piece EXCEPT ![p] = row] /\ draft' = [draft EXCEPT ![d] = Finalized(d, p)]
        /\ tx' = [tx EXCEPT ![o] = NoTx]
    BY <1>10 DEF CommitFinalize
  <2> HIDE DEF row
  <2>5. BaseOK'
    <3> SUFFICES ASSUME NEW e \in Draft, draft'[e].state = "open"
                 PROVE  IF draft'[e].piece = NoPiece
                          THEN draft'[e].basePdf = NoKey
                          ELSE /\ draft'[e].base <= piece'[draft'[e].piece].revision
                               /\ piece'[draft'[e].piece].revision = draft'[e].base =>
                                    piece'[draft'[e].piece].pdf = draft'[e].basePdf
      BY DEF BaseOK
    <3>1. draft'[e] = draft[e]
      BY <2>2, <2>4 DEF Rows
    <3>2. CASE draft[e].piece = p
      <4>1. draft[e].base \in Nat /\ draft[e].base <= piece[p].revision
        BY <3>1, <3>2, <2>1 DEF BaseOK, Rows, DraftRow
      <4>2. draft[e].base < row.revision
        BY <4>1, <2>3
      <4>3. piece'[p].revision = row.revision
        BY <2>1, <2>4 DEF Rows
      <4>4. p # NoPiece
        BY <2>1
      <4>5. row.revision \in Nat
        BY <2>3
      <4> QED
        BY <3>1, <3>2, <4>1, <4>2, <4>3, <4>4, <4>5
    <3>3. CASE draft[e].piece # p
      <4>1. draft[e].piece # NoPiece => piece'[draft[e].piece] = piece[draft[e].piece]
        BY <3>3, <2>4 DEF Rows, DraftRow
      <4> QED
        BY <3>1, <4>1 DEF BaseOK
    <3> QED
      BY <3>2, <3>3
  <2>6. TxBase'
    <3>1. \A u \in Owner : tx'[u].op = "finalize" =>
            /\ u # o /\ tx'[u] = tx[u] /\ tx[u].draft \in Draft /\ DraftOwner[tx[u].draft] = u
            /\ tx[u].piece \in Piece /\ PieceOwner[tx[u].piece] = u
      BY <1>n, <1>t, <2>4 DEF TxOK, Rows
    <3>2. \A u \in Owner : tx'[u].op = "finalize" =>
            draft'[tx[u].draft] = draft[tx[u].draft] /\ piece'[tx[u].piece] = piece[tx[u].piece]
      BY <2>1, <2>4, <3>1 DEF Rows
    <3> QED
      BY <3>1, <3>2, TxBaseFrame
  <2> QED
    BY <2>5, <2>6
<1>11. ASSUME NEW o \in Owner, Rollback(o) \/ ServerAbort(o) PROVE BaseOK' /\ TxBase'
  <2>1. tx' = [tx EXCEPT ![o] = NoTx] /\ UNCHANGED <<piece, draft>>
    BY <1>11 DEF Rollback, ServerAbort
  <2> QED
    BY <1>n, <2>1, BaseFrame, TxBaseFrame DEF Rows
<1>12. ASSUME NEW o \in Owner, LoseConnection(o) PROVE BaseOK' /\ TxBase'
  <2> DEFINE t == [tx[o] EXCEPT !.doubt = TRUE]
  <2>1. t.op = tx[o].op /\ t.draft = tx[o].draft /\ t.piece = tx[o].piece
    BY DEF Rows, Transaction
  <2>2. tx' = [tx EXCEPT ![o] = t] /\ UNCHANGED <<piece, draft>>
    BY <1>12 DEF LoseConnection
  <2> HIDE DEF t
  <2> QED
    BY <2>1, <2>2, BaseFrame, TxBaseFrame DEF Rows
<1>13. CASE Crash
  <2>1. \A t \in Transaction, b \in BOOLEAN :
          LET r == [t EXCEPT !.doubt = b]
          IN  r.op = t.op /\ r.draft = t.draft /\ r.piece = t.piece
    BY DEF Transaction
  <2>2. \A o \in Owner : tx'[o] = [tx[o] EXCEPT !.doubt = tx[o].op # "none"] /\ tx[o] \in Transaction
    BY <1>13 DEF Crash, Rows
  <2>3. \A o \in Owner : tx'[o].op = tx[o].op /\ tx'[o].draft = tx[o].draft /\ tx'[o].piece = tx[o].piece
    BY <2>1, <2>2
  <2>4. UNCHANGED <<piece, draft>>
    BY <1>13 DEF Crash
  <2> QED
    BY <2>3, <2>4, BaseFrame, TxBaseFrame
<1>14. ASSUME NEW p \in Piece, CreatePiece(p) \/ DeletePiece(p) PROVE BaseOK' /\ TxBase'
  <2>1. /\ tx' = tx /\ tx[PieceOwner[p]].op = "none"
        /\ \A q \in Piece \ {p} : piece'[q] = piece[q]
    BY <1>14 DEF CreatePiece, DeletePiece, Unlocked, Rows
  <2>2. \A d \in Draft : draft'[d].state = "open" => draft'[d] = draft[d] /\ draft[d].piece # p
    BY <1>14, <1>n, <1>t DEF CreatePiece, DeletePiece, DraftsWithout, Cascade, Rows
  <2>3. BaseOK'
    BY <2>1, <2>2 DEF BaseOK, Rows, DraftRow
  <2>4. \A o \in Owner : tx[o].op = "finalize" =>
          /\ tx[o].piece \in Piece /\ PieceOwner[tx[o].piece] = o
          /\ tx[o].draft \in Draft /\ DraftOwner[tx[o].draft] = o
    BY <1>t DEF TxOK
  <2>5. \A o \in Owner : tx[o].op = "finalize" => piece'[tx[o].piece] = piece[tx[o].piece]
    BY <2>1, <2>4
  <2>6. \A d \in Draft : draft'[d] = draft[d] \/ draft[d].piece = p
    BY <1>14 DEF CreatePiece, DeletePiece, DraftsWithout
  <2>7. \A o \in Owner : tx[o].op = "finalize" => draft'[tx[o].draft] = draft[tx[o].draft]
    BY <1>t, <2>1, <2>4, <2>6 DEF DraftsOK
  <2> QED
    BY <2>1, <2>3, <2>5, <2>7, TxBaseFrame
<1>15. ASSUME NEW p \in Piece, NEW c \in Content, PutReaderState(p, c) PROVE BaseOK' /\ TxBase'
  <2> DEFINE row == [piece[p] EXCEPT !.place = c]
  <2>1. row.state = piece[p].state /\ row.pdf = piece[p].pdf /\ row.revision = piece[p].revision
    BY DEF Rows, PieceRow
  <2>2. piece' = [piece EXCEPT ![p] = row] /\ UNCHANGED <<draft, tx>>
    BY <1>15 DEF PutReaderState
  <2> HIDE DEF row
  <2>3. \A q \in Piece : /\ piece'[q].state = piece[q].state /\ piece'[q].pdf = piece[q].pdf
                         /\ piece'[q].revision = piece[q].revision
    BY <2>1, <2>2 DEF Rows
  <2>4. BaseOK'
    BY <2>2, <2>3 DEF BaseOK, Rows, DraftRow
  <2>5. TxBase'
    BY <1>t, <2>2, <2>3 DEF TxBase, TxOK
  <2> QED
    BY <2>4, <2>5
<1>16. CASE CleanupCollect
  <2>1. /\ UNCHANGED <<piece, tx>>
        /\ \A d \in Draft : draft'[d] = IF draft[d].expired THEN NoDraftRow("deleted") ELSE draft[d]
    BY <1>16 DEF CleanupCollect
  <2>2. \A o \in Owner : tx[o].op = "finalize" => draft'[tx[o].draft] = draft[tx[o].draft]
    BY <1>t, <2>1 DEF TxOK
  <2>3. \A d \in Draft : draft'[d].state = "open" => draft'[d] = draft[d]
    BY <1>n, <2>1
  <2> QED
    BY <2>1, <2>2, <2>3, BaseFrame, TxBaseFrame
<1>17. ASSUME NEW k \in Key, Requeue(k) PROVE BaseOK' /\ TxBase'
  BY <1>17, <1>0 DEF Requeue, QueueObject, QueueObjectFails
<1>18. CASE CleanupStep \/ CleanupFails \/ UNCHANGED vars
  BY <1>18, <1>16, <1>0 DEF CleanupStep, CleanupSelect, CleanupCheck, CleanupDelete, CleanupDeleteFails,
     CleanupDequeue, CleanupDone, CleanupFails, vars
<1> QED
  BY <1>1, <1>2, <1>4, <1>5, <1>6, <1>7, <1>8, <1>9, <1>10, <1>11, <1>12, <1>13, <1>14, <1>15, <1>17, <1>18
     DEF Next, Drafting, Publishing, Resolve, Pieces

\* A publication replaces only the PDF its draft was opened on.
THEOREM PublicationReplacesBase == Spec => PublishReplacesItsBase
<1> DEFINE Inv == Rows /\ Struct /\ PiecesOK /\ BaseOK /\ TxBase
           A == \A d \in Draft : draft[d].state = "open" /\ draft'[d].state = "finalized" =>
                  piece[draft'[d].piece].pdf = draft[d].basePdf
<1>1. Init => Inv
  <2> SUFFICES ASSUME Init PROVE BaseOK /\ TxBase
    BY InitRows, InitIInv DEF IInv
  <2> QED
    BY DEF Init, BaseOK, TxBase, NoDraftRow, NoTx
<1>2. Inv /\ [Next]_vars => Inv'
  BY RowsStep, StructStep, PiecesStep, BaseStep DEF Struct
<1>3. Inv /\ [Next]_vars => [A]_vars
  <2> SUFFICES ASSUME Inv, Next, NEW e \in Draft, draft[e].state = "open", draft'[e].state = "finalized"
               PROVE  piece[draft'[e].piece].pdf = draft[e].basePdf
    OBVIOUS
  <2>1. NoDraftRow("deleted").state = "deleted" /\ NoDraftRow("open").state = "open"
    BY DEF NoDraftRow
  <2>2. PICK o \in Owner : CommitFinalize(o)
    <3>1. ~UNCHANGED draft
      OBVIOUS
    <3>2. ASSUME NEW d \in Draft, NEW p \in Piece, CreateImportForPiece(d, p) PROVE FALSE
      <4>1. draft'[d].state = "open" /\ \A f \in Draft \ {d} : draft'[f] = draft[f]
        BY <3>2 DEF CreateImportForPiece, NoDraftRow, Rows
      <4> QED
        BY <4>1
    <3>3. ASSUME NEW d \in Draft, NEW pages \in SUBSET Key, NEW edited \in BOOLEAN, UpdateImport(d, pages, edited)
          PROVE  FALSE
      <4> DEFINE row == [draft[d] EXCEPT !.pages = pages, !.edited = edited]
      <4>1. row.state = draft[d].state
        BY DEF Rows, DraftRow
      <4>2. draft' = [draft EXCEPT ![d] = row]
        BY <3>3 DEF UpdateImport
      <4> HIDE DEF row
      <4> QED
        BY <4>1, <4>2 DEF Rows
    <3>4. ASSUME NEW d \in Draft, Expire(d) PROVE FALSE
      <4> DEFINE row == [draft[d] EXCEPT !.expired = TRUE]
      <4>1. row.state = draft[d].state
        BY DEF Rows, DraftRow
      <4>2. draft' = [draft EXCEPT ![d] = row]
        BY <3>4 DEF Expire
      <4> HIDE DEF row
      <4> QED
        BY <4>1, <4>2 DEF Rows
    <3>5. ~Drafting
      BY <2>1, <3>1, <3>2, <3>3, <3>4 DEF Drafting, CreateImport, BeginAttach, DeleteImport, Rows
    <3>6. ASSUME NEW o \in Owner, NEW appended \in BOOLEAN, CommitAttach(o, appended), NEW d \in Draft
          PROVE draft'[d].state = draft[d].state
      BY <3>6 DEF CommitAttach, Rows, DraftRow
    <3> QED
      BY <2>1, <3>1, <3>5, <3>6
         DEF Next, Publishing, Resolve, Requeue, Pieces, CleanupStep, BeginFinalize, Rollback,
             LoseConnection, ServerAbort, QueueObject, QueueObjectFails, CreatePiece, DeletePiece,
             DraftsWithout, PutReaderState, CleanupCollect, CleanupSelect, CleanupCheck, CleanupDelete,
             CleanupDeleteFails, CleanupDequeue, CleanupDone, CleanupFails, Crash
  <2> DEFINE d == tx[o].draft
             p == tx[o].piece
  <2>3. /\ d \in Draft /\ draft[d].state = "open" /\ p \in Piece /\ draft[d] \in DraftRow
        /\ tx[o].op = "finalize" /\ draft[d].piece \in {NoPiece, p}
        /\ draft' = [draft EXCEPT ![d] = Finalized(d, p)]
    BY <2>2 DEF CommitFinalize, TxOK, Struct, Rows
  <2>4. e = d
    BY <2>3 DEF Rows
  <2>5. draft'[e].piece = p
    BY <2>3, <2>4 DEF Finalized, Rows, DraftRow
  <2>6. CASE draft[d].piece = NoPiece
    BY <2>3, <2>4, <2>5, <2>6 DEF TxBase, BaseOK, PiecesOK
  <2>7. CASE draft[d].piece = p
    BY <2>3, <2>4, <2>5, <2>7, ConstantsAssumption DEF TxBase, BaseOK
  <2> QED
    BY <2>3, <2>6, <2>7
<1> QED
  BY <1>1, <1>2, <1>3, PTL DEF Spec, PublishReplacesItsBase

----------------------------------------------------------------------------
(***************************************************************************)
(* The reader's place.                                                     *)
(***************************************************************************)

\* What was saved under a key stays: a key is used once.
LEMMA ContentStays ==
  ASSUME Rows, [Next]_vars, NEW k \in Key, content[k] # Unsaved
  PROVE  content'[k] = content[k]
<1>1. ASSUME NEW j \in Key, NEW c, SaveObject(j, c) PROVE content'[k] = content[k]
  BY <1>1 DEF SaveObject, Rows
<1> QED
  BY ZenonT(60), <1>1 DEF Next, Drafting, Publishing, Resolve, Requeue, Pieces, CleanupStep, CreateImport,
     CreateImportForPiece, UpdateImport, BeginAttach, DeleteImport, Expire, BeginFinalize,
     CommitAttach, CommitFinalize, Rollback, LoseConnection, ServerAbort, QueueObject, QueueObjectFails,
     CreatePiece, DeletePiece, PutReaderState, CleanupCollect, CleanupSelect, CleanupCheck, CleanupDelete,
     CleanupDeleteFails, CleanupDequeue, CleanupDone, CleanupFails, Crash, vars

\* Every step keeps a piece's place in the PDF it has.
LEMMA PlaceStep == Rows /\ TxOK /\ PlaceBelongsToPdf /\ [Next]_vars => PlaceBelongsToPdf'
<1> SUFFICES ASSUME Rows, TxOK, PlaceBelongsToPdf, [Next]_vars, NEW q \in Piece, piece'[q].place # Start
             PROVE  piece'[q].pdf # NoKey /\ content'[piece'[q].pdf] = piece'[q].place
  BY DEF PlaceBelongsToPdf
<1> USE ConstantsAssumption
<1>r. piece[q] \in PieceRow
  BY DEF Rows
<1>0. CASE piece'[q].pdf = piece[q].pdf /\ piece'[q].place = piece[q].place
  <2>1. /\ piece[q].pdf \in Key /\ content[piece[q].pdf] = piece[q].place /\ piece[q].place \in Content
    BY <1>0, <1>r DEF PlaceBelongsToPdf, PieceRow
  <2>2. content'[piece[q].pdf] = content[piece[q].pdf]
    BY <2>1, ContentStays
  <2> QED
    BY <1>0, <2>1, <2>2
<1>1. ASSUME NEW p \in Piece, CreatePiece(p) \/ DeletePiece(p)
      PROVE  piece'[q].pdf # NoKey /\ content'[piece'[q].pdf] = piece'[q].place
  <2>1. NoPieceRow("live").place = Start /\ NoPieceRow("deleted").place = Start
    BY DEF NoPieceRow
  <2> QED
    BY <1>1, <1>0, <2>1 DEF CreatePiece, DeletePiece, Rows
<1>2. ASSUME NEW p \in Piece, NEW c \in Content, PutReaderState(p, c)
      PROVE  piece'[q].pdf # NoKey /\ content'[piece'[q].pdf] = piece'[q].place
  <2> DEFINE row == [piece[p] EXCEPT !.place = c]
  <2>1. row.pdf = piece[p].pdf /\ row.place = c
    BY DEF Rows, PieceRow
  <2>2. piece' = [piece EXCEPT ![p] = row] /\ content' = content
        /\ piece[p].pdf # NoKey /\ content[piece[p].pdf] = c
    BY <1>2 DEF PutReaderState
  <2> HIDE DEF row
  <2> QED
    BY <1>0, <2>1, <2>2 DEF Rows
<1>3. ASSUME NEW o \in Owner, CommitFinalize(o)
      PROVE  piece'[q].pdf # NoKey /\ content'[piece'[q].pdf] = piece'[q].place
  <2> DEFINE p == tx[o].piece
             k == tx[o].key
             row == Published(p, k, draft[tx[o].draft].pages)
  <2>1. p \in Piece /\ piece[p] \in PieceRow /\ k \in Key
    BY <1>3 DEF CommitFinalize, TxOK, Rows
  <2>2. row.pdf = k /\ row.place = PlaceAfter(p, k)
    BY <2>1 DEF Published, PieceRow
  <2>3. piece' = [piece EXCEPT ![p] = row] /\ content' = content
    BY <1>3 DEF CommitFinalize
  <2> HIDE DEF row
  <2>4. CASE q # p
    BY <2>3, <2>4, <1>0 DEF Rows
  <2>5. CASE q = p
    <3>1. piece'[q].pdf = k /\ piece'[q].place = PlaceAfter(p, k)
      BY <2>1, <2>2, <2>3, <2>5 DEF Rows
    <3>2. /\ piece[p].pdf # NoKey /\ content[piece[p].pdf] = content[k]
          /\ PlaceAfter(p, k) = piece[p].place
      BY <3>1 DEF PlaceAfter
    <3> QED
      BY <2>1, <2>3, <3>1, <3>2 DEF PlaceBelongsToPdf
  <2> QED
    BY <2>4, <2>5
<1>4. CASE UNCHANGED piece
  BY <1>4, <1>0
<1> QED
  BY ZenonT(60), <1>1, <1>2, <1>3, <1>4
     DEF Next, Drafting, Publishing, Resolve, Requeue, Pieces, CleanupStep, CreateImport,
         CreateImportForPiece, UpdateImport, BeginAttach, DeleteImport, Expire, BeginFinalize,
         CommitAttach, Rollback, LoseConnection, ServerAbort, QueueObject, QueueObjectFails,
         CleanupCollect, CleanupSelect, CleanupCheck, CleanupDelete, CleanupDeleteFails,
         CleanupDequeue, CleanupDone, CleanupFails, Crash, vars

\* A saved place was reached in the PDF the piece has now, whatever publications, saves and
\* lost connections come between.
THEOREM PlaceFollowsPdf == Spec => []PlaceBelongsToPdf
<1>1. Init => Rows /\ Struct /\ PlaceBelongsToPdf
  <2> SUFFICES ASSUME Init PROVE PlaceBelongsToPdf
    BY InitRows
  <2>1. NoPieceRow("none").place = Start
    BY DEF NoPieceRow
  <2>2. \A k : [NoPieceRow("live") EXCEPT !.pdf = k].place = Start
    BY DEF NoPieceRow
  <2> QED
    BY <2>1, <2>2 DEF Init, PlaceBelongsToPdf
<1>2. Rows /\ Struct /\ PlaceBelongsToPdf /\ [Next]_vars => (Rows /\ Struct /\ PlaceBelongsToPdf)'
  BY RowsStep, StructStep, PlaceStep DEF Struct
<1> QED
  BY <1>1, <1>2, PTL DEF Spec

----------------------------------------------------------------------------
(***************************************************************************)
(* Whose sources and PDFs.                                                 *)
(***************************************************************************)

OneUser == \A k \in Key : \A a, b \in UsesOf(k) : a = b

\* Nothing uses a key that no file has been saved under, nor one whose row is still to be
\* committed, and two transactions in flight saved two files.
KeysFresh ==
  \A k \in Key :
    /\ content[k] = Unsaved => UsesOf(k) = {} /\ \A o \in Owner : tx[o].key # k
    /\ \A o \in Owner : tx[o].key = k => UsesOf(k) = {} /\ \A u \in Owner \ {o} : tx[u].key # k

\* Who uses a key, row by row.
LEMMA UsersOf ==
  ASSUME NEW k
  PROVE  /\ \A o : o \in UsesOf(k) <=>
              \/ \E p \in Piece : PieceOwner[p] = o /\ k \in piece[p].pages \cup piece[p].sources \cup {piece[p].pdf}
              \/ \E d \in Draft : DraftOwner[d] = o /\ k \in draft[d].pages \cup draft[d].sources
         /\ \A o : o \in UsesOf(k)' <=>
              \/ \E p \in Piece : PieceOwner[p] = o /\ k \in piece'[p].pages \cup piece'[p].sources \cup {piece'[p].pdf}
              \/ \E d \in Draft : DraftOwner[d] = o /\ k \in draft'[d].pages \cup draft'[d].sources
BY DEF UsesOf

\* A step whose rows use only keys that rows of the same user used before.
LEMMA UsesFrame ==
  ASSUME NEW k \in Key,
         \A p \in Piece : k \in piece'[p].pages \cup piece'[p].sources \cup {piece'[p].pdf} =>
           PieceOwner[p] \in UsesOf(k),
         \A d \in Draft : k \in draft'[d].pages \cup draft'[d].sources => DraftOwner[d] \in UsesOf(k)
  PROVE  UsesOf(k)' \subseteq UsesOf(k)
<1> SUFFICES ASSUME NEW o, o \in UsesOf(k)' PROVE o \in UsesOf(k)
  OBVIOUS
<1> QED
  BY UsersOf

\* A step that brings no use, saves no file and begins no transaction.
LEMMA PrivateFrame ==
  ASSUME OneUser, KeysFresh, content' = content,
         \A k \in Key : UsesOf(k)' \subseteq UsesOf(k),
         \A o \in Owner : tx'[o] = NoTx \/ tx'[o].key = tx[o].key
  PROVE  OneUser' /\ KeysFresh'
<1>1. NoTx.key = NoKey /\ NoKey \notin Key
  BY ConstantsAssumption DEF NoTx
<1>2. OneUser'
  BY DEF OneUser
<1>3. KeysFresh'
  BY <1>1 DEF KeysFresh
<1> QED
  BY <1>2, <1>3

\* BeginAttach and BeginFinalize: the file gets a key that nothing uses.
LEMMA PrivateSaved ==
  ASSUME Rows, OneUser, KeysFresh, NEW o \in Owner, NEW k \in Key, NEW c \in Content \cup {SourceBytes},
         NEW t, t.key = k, SaveObject(k, c), tx' = [tx EXCEPT ![o] = t], UNCHANGED <<piece, draft>>
  PROVE  OneUser' /\ KeysFresh'
<1>1. content[k] = Unsaved /\ content' = [content EXCEPT ![k] = c] /\ c # Unsaved
  BY ConstantsAssumption DEF SaveObject
<1>2. UsesOf(k) = {} /\ \A u \in Owner : tx[u].key # k
  BY <1>1 DEF KeysFresh
<1>3. \A j : UsesOf(j)' = UsesOf(j)
  BY DEF UsesOf
<1>4. \A u \in Owner : tx'[u] = IF u = o THEN t ELSE tx[u]
  BY DEF Rows
<1>5. \A j \in Key : content'[j] = IF j = k THEN c ELSE content[j]
  BY <1>1 DEF Rows
<1>6. OneUser'
  BY <1>3 DEF OneUser
<1>7. KeysFresh'
  BY <1>1, <1>2, <1>3, <1>4, <1>5 DEF KeysFresh
<1> QED
  BY <1>6, <1>7

\* CommitAttach and CommitFinalize: the saved key gets its first user.
LEMMA PrivateCommitted ==
  ASSUME Rows, OneUser, KeysFresh, NEW o \in Owner, NEW k \in Key, tx[o].key = k, content' = content,
         tx' = [tx EXCEPT ![o] = NoTx],
         \A j \in Key \ {k} : UsesOf(j)' \subseteq UsesOf(j),
         UsesOf(k)' \subseteq {o}
  PROVE  OneUser' /\ KeysFresh'
<1>1. NoTx.key = NoKey /\ NoKey \notin Key
  BY ConstantsAssumption DEF NoTx
<1>2. \A u \in Owner : tx'[u] = IF u = o THEN NoTx ELSE tx[u]
  BY DEF Rows
<1>3. OneUser'
  <2> SUFFICES ASSUME NEW j \in Key, NEW a \in UsesOf(j)', NEW b \in UsesOf(j)' PROVE a = b
    BY DEF OneUser
  <2>1. CASE j = k
    BY <2>1
  <2>2. CASE j # k
    BY <2>2 DEF OneUser
  <2> QED
    BY <2>1, <2>2
<1>4. content[k] # Unsaved /\ \A u \in Owner \ {o} : tx[u].key # k
  BY DEF KeysFresh
<1>5. KeysFresh'
  <2> SUFFICES ASSUME NEW j \in Key
               PROVE  /\ content'[j] = Unsaved => UsesOf(j)' = {} /\ \A u \in Owner : tx'[u].key # j
                      /\ \A u \in Owner : tx'[u].key = j =>
                           UsesOf(j)' = {} /\ \A v \in Owner \ {u} : tx'[v].key # j
    BY DEF KeysFresh
  <2>1. CASE j = k
    BY <2>1, <1>1, <1>2, <1>4
  <2>2. CASE j # k
    BY <2>2, <1>1, <1>2 DEF KeysFresh
  <2> QED
    BY <2>1, <2>2
<1> QED
  BY <1>3, <1>5

\* Whatever a committed row uses is the key of its transaction or was its user's before.
LEMMA PrivateRows ==
  ASSUME Rows, OneUser, KeysFresh, NEW o \in Owner, NEW k \in Key, tx[o].key = k, content' = content,
         tx' = [tx EXCEPT ![o] = NoTx],
         \A p \in Piece : \A j \in Key : j \in piece'[p].pages \cup piece'[p].sources \cup {piece'[p].pdf} =>
           PieceOwner[p] \in UsesOf(j) \/ (j = k /\ PieceOwner[p] = o),
         \A d \in Draft : \A j \in Key : j \in draft'[d].pages \cup draft'[d].sources =>
           DraftOwner[d] \in UsesOf(j) \/ (j = k /\ DraftOwner[d] = o)
  PROVE  OneUser' /\ KeysFresh'
<1>1. ASSUME NEW j \in Key \ {k} PROVE UsesOf(j)' \subseteq UsesOf(j)
  BY UsesFrame
<1>2. UsesOf(k) = {}
  BY DEF KeysFresh
<1>3. \A p \in Piece : k \in piece'[p].pages \cup piece'[p].sources \cup {piece'[p].pdf} => PieceOwner[p] = o
  BY <1>2
<1>4. \A d \in Draft : k \in draft'[d].pages \cup draft'[d].sources => DraftOwner[d] = o
  BY <1>2
<1>5. UsesOf(k)' \subseteq {o}
  BY <1>3, <1>4, UsersOf
<1> QED
  BY <1>1, <1>5, PrivateCommitted

\* Every step leaves every file to one user.
LEMMA PrivateStep == Rows /\ Struct /\ OneUser /\ KeysFresh /\ [Next]_vars => (OneUser /\ KeysFresh)'
<1> SUFFICES ASSUME Rows, Struct, OneUser, KeysFresh, [Next]_vars PROVE OneUser' /\ KeysFresh'
  OBVIOUS
<1> USE ConstantsAssumption
<1>t. TxOK /\ DraftsOK
  BY DEF Struct
<1>n. /\ \A s \in {"open", "deleted"} : NoDraftRow(s).pages = {} /\ NoDraftRow(s).sources = {}
      /\ \A s \in {"live", "deleted"} : /\ NoPieceRow(s).pages = {} /\ NoPieceRow(s).sources = {}
                                        /\ NoPieceRow(s).pdf = NoKey
  BY DEF NoDraftRow, NoPieceRow
<1>p. ASSUME NEW p \in Piece, NEW k \in Key, k \in piece[p].pages \cup piece[p].sources \cup {piece[p].pdf}
      PROVE  PieceOwner[p] \in UsesOf(k)
  BY <1>p, UsersOf
<1>d. ASSUME NEW d \in Draft, NEW k \in Key, k \in draft[d].pages \cup draft[d].sources
      PROVE  DraftOwner[d] \in UsesOf(k)
  BY <1>d, UsersOf
<1>0. ASSUME content' = content,
             \A o \in Owner : tx'[o] = NoTx \/ tx'[o].key = tx[o].key,
             \A p \in Piece : \/ piece'[p] = piece[p]
                              \/ /\ piece'[p].pages \subseteq piece[p].pages
                                 /\ piece'[p].sources \subseteq piece[p].sources
                                 /\ piece'[p].pdf \in {piece[p].pdf, NoKey},
             \A d \in Draft : \/ draft'[d] = draft[d]
                              \/ draft'[d].pages \cup draft'[d].sources \subseteq draft[d].pages \cup draft[d].sources
      PROVE  OneUser' /\ KeysFresh'
  <2> SUFFICES ASSUME NEW k \in Key PROVE UsesOf(k)' \subseteq UsesOf(k)
    BY <1>0, <1>t, PrivateFrame
  <2>1. \A p \in Piece : k \in piece'[p].pages \cup piece'[p].sources \cup {piece'[p].pdf} =>
          k \in piece[p].pages \cup piece[p].sources \cup {piece[p].pdf}
    BY <1>0
  <2>2. \A d \in Draft : k \in draft'[d].pages \cup draft'[d].sources => k \in draft[d].pages \cup draft[d].sources
    BY <1>0
  <2> QED
    BY <2>1, <2>2, <1>p, <1>d, UsesFrame
<1>1. ASSUME NEW d \in Draft, CreateImport(d) PROVE OneUser' /\ KeysFresh'
  BY <1>1, <1>n, <1>0 DEF CreateImport, Rows
<1>2. ASSUME NEW d \in Draft, NEW p \in Piece, CreateImportForPiece(d, p) PROVE OneUser' /\ KeysFresh'
  <2> DEFINE start == IF piece[p].prepared THEN piece[p].pages ELSE {piece[p].pdf} \ {NoKey}
             row == [NoDraftRow("open") EXCEPT !.piece = p, !.base = piece[p].revision,
                       !.basePdf = piece[p].pdf, !.sources = start, !.initial = start, !.pages = start]
  <2>1. draft' = [draft EXCEPT ![d] = row] /\ UNCHANGED <<piece, tx, content>> /\ PieceOwner[p] = DraftOwner[d]
    BY <1>2 DEF CreateImportForPiece
  <2>2. row.pages = start /\ row.sources = start
    BY DEF NoDraftRow
  <2>3. start \subseteq piece[p].pages \cup {piece[p].pdf}
    OBVIOUS
  <2> HIDE DEF row, start
  <2>4. \A e \in Draft : draft'[e] = IF e = d THEN row ELSE draft[e]
    BY <2>1 DEF Rows
  <2> SUFFICES ASSUME NEW k \in Key PROVE UsesOf(k)' \subseteq UsesOf(k)
    BY <2>1, <1>t, PrivateFrame
  <2>5. k \in row.pages \cup row.sources => DraftOwner[d] \in UsesOf(k)
    BY <2>1, <2>2, <2>3, <1>p
  <2> QED
    BY <2>1, <2>4, <2>5, <1>p, <1>d, UsesFrame
<1>3. ASSUME NEW d \in Draft, NEW pages \in SUBSET Key, NEW edited \in BOOLEAN, UpdateImport(d, pages, edited)
      PROVE OneUser' /\ KeysFresh'
  <2> DEFINE row == [draft[d] EXCEPT !.pages = pages, !.edited = edited]
  <2>1. row.pages = pages /\ row.sources = draft[d].sources /\ pages \subseteq draft[d].sources
    BY <1>3 DEF UpdateImport, ValidPages, Rows, DraftRow
  <2>2. draft' = [draft EXCEPT ![d] = row] /\ UNCHANGED <<piece, tx, content>>
    BY <1>3 DEF UpdateImport
  <2> HIDE DEF row
  <2> QED
    BY <2>1, <2>2, <1>0 DEF Rows
<1>4. ASSUME NEW d \in Draft, Expire(d) PROVE OneUser' /\ KeysFresh'
  <2> DEFINE row == [draft[d] EXCEPT !.expired = TRUE]
  <2>1. row.pages = draft[d].pages /\ row.sources = draft[d].sources
    BY DEF Rows, DraftRow
  <2>2. draft' = [draft EXCEPT ![d] = row] /\ UNCHANGED <<piece, tx, content>>
    BY <1>4 DEF Expire
  <2> HIDE DEF row
  <2> QED
    BY <2>1, <2>2, <1>0 DEF Rows
<1>5. ASSUME NEW d \in Draft, NEW k \in Key, BeginAttach(d, k) PROVE OneUser' /\ KeysFresh'
  <2> DEFINE t == [NoTx EXCEPT !.op = "attach", !.draft = d, !.key = k]
  <2>1. t.key = k
    BY DEF NoTx
  <2>2. SaveObject(k, SourceBytes) /\ tx' = [tx EXCEPT ![DraftOwner[d]] = t] /\ UNCHANGED <<piece, draft>>
    BY <1>5 DEF BeginAttach
  <2> HIDE DEF t
  <2> QED
    BY <2>1, <2>2, <1>t, PrivateSaved
<1>6. ASSUME NEW d \in Draft, NEW p \in Piece, NEW k \in Key, NEW c \in Content, BeginFinalize(d, p, k, c)
      PROVE OneUser' /\ KeysFresh'
  <2> DEFINE t == [NoTx EXCEPT !.op = "finalize", !.draft = d, !.piece = p, !.key = k]
  <2>1. t.key = k
    BY DEF NoTx
  <2>2. SaveObject(k, c) /\ tx' = [tx EXCEPT ![DraftOwner[d]] = t] /\ UNCHANGED <<piece, draft>>
    BY <1>6 DEF BeginFinalize
  <2> HIDE DEF t
  <2> QED
    BY <2>1, <2>2, <1>t, PrivateSaved
<1>7. ASSUME NEW d \in Draft, DeleteImport(d) PROVE OneUser' /\ KeysFresh'
  BY <1>7, <1>n, <1>0 DEF DeleteImport, Rows
<1>9. ASSUME NEW o \in Owner, NEW appended \in BOOLEAN, CommitAttach(o, appended) PROVE OneUser' /\ KeysFresh'
  <2> DEFINE d == tx[o].draft
             k == tx[o].key
             row == [draft[d] EXCEPT !.sources = @ \cup {k},
                                     !.pages = IF appended THEN @ \cup {k} ELSE @,
                                     !.edited = @ \/ appended]
  <2>1. d \in Draft /\ DraftOwner[d] = o /\ draft[d] \in DraftRow /\ k \in Key
    BY <1>9, <1>t DEF CommitAttach, TxOK, Rows
  <2>2. row.sources = draft[d].sources \cup {k} /\ row.pages \subseteq draft[d].pages \cup {k}
    BY <2>1 DEF DraftRow
  <2>3. draft' = [draft EXCEPT ![d] = row] /\ tx' = [tx EXCEPT ![o] = NoTx] /\ UNCHANGED <<piece, content>>
    BY <1>9 DEF CommitAttach
  <2> HIDE DEF row
  <2>4. draft'[d] = row /\ \A e \in Draft \ {d} : draft'[e] = draft[e]
    BY <2>1, <2>3 DEF Rows
  <2>5. \A p \in Piece : \A j \in Key : j \in piece'[p].pages \cup piece'[p].sources \cup {piece'[p].pdf} =>
          PieceOwner[p] \in UsesOf(j) \/ (j = k /\ PieceOwner[p] = o)
    BY <2>3, <1>p
  <2>6. \A e \in Draft : \A j \in Key : j \in draft'[e].pages \cup draft'[e].sources =>
          DraftOwner[e] \in UsesOf(j) \/ (j = k /\ DraftOwner[e] = o)
    BY <2>1, <2>2, <2>4, <1>d
  <2> QED
    BY <2>1, <2>3, <2>5, <2>6, PrivateRows
<1>10. ASSUME NEW o \in Owner, CommitFinalize(o) PROVE OneUser' /\ KeysFresh'
  <2> DEFINE d == tx[o].draft
             p == tx[o].piece
             k == tx[o].key
             row == Published(p, k, draft[d].pages)
  <2>1. /\ d \in Draft /\ DraftOwner[d] = o /\ draft[d] \in DraftRow /\ k \in Key
        /\ p \in Piece /\ PieceOwner[p] = o /\ piece[p] \in PieceRow
    BY <1>10, <1>t DEF CommitFinalize, TxOK, Rows
  <2>2. row.sources = draft[d].pages /\ row.pages = draft[d].pages /\ row.pdf = k
    BY <2>1 DEF Published, PieceRow
  <2>3. Finalized(d, p).sources = {} /\ Finalized(d, p).pages = draft[d].pages
    BY <2>1 DEF Finalized, DraftRow
  <2>4. /\ piece' = [piece EXCEPT ![p] = row] /\ draft' = [draft EXCEPT ![d] = Finalized(d, p)]
        /\ tx' = [tx EXCEPT ![o] = NoTx] /\ content' = content
    BY <1>10 DEF CommitFinalize
  <2> HIDE DEF row
  <2>5. /\ draft'[d] = Finalized(d, p) /\ \A e \in Draft \ {d} : draft'[e] = draft[e]
        /\ piece'[p] = row /\ \A q \in Piece \ {p} : piece'[q] = piece[q]
    BY <2>1, <2>4 DEF Rows
  <2>6. \A q \in Piece : \A j \in Key : j \in piece'[q].pages \cup piece'[q].sources \cup {piece'[q].pdf} =>
          PieceOwner[q] \in UsesOf(j) \/ (j = k /\ PieceOwner[q] = o)
    <3>1. \A j \in Key : j \in draft[d].pages => o \in UsesOf(j)
      BY <2>1, <1>d
    <3> QED
      BY <2>1, <2>2, <2>5, <3>1, <1>p
  <2>7. \A e \in Draft : \A j \in Key : j \in draft'[e].pages \cup draft'[e].sources =>
          DraftOwner[e] \in UsesOf(j) \/ (j = k /\ DraftOwner[e] = o)
    BY <2>3, <2>5, <1>d
  <2> QED
    BY <2>1, <2>4, <2>6, <2>7, PrivateRows
<1>11. ASSUME NEW o \in Owner, Rollback(o) \/ LoseConnection(o) \/ ServerAbort(o) PROVE OneUser' /\ KeysFresh'
  <2>1. [tx[o] EXCEPT !.doubt = TRUE].key = tx[o].key
    BY DEF Rows, Transaction
  <2>2. tx' = [tx EXCEPT ![o] = NoTx] \/ tx' = [tx EXCEPT ![o] = [tx[o] EXCEPT !.doubt = TRUE]]
    BY <1>11 DEF Rollback, LoseConnection, ServerAbort
  <2>3. \A u \in Owner : tx'[u] = NoTx \/ tx'[u].key = tx[u].key
    BY <2>1, <2>2 DEF Rows
  <2> QED
    BY <2>3, <1>11, <1>0 DEF Rollback, LoseConnection, ServerAbort
<1>12. CASE Crash
  <2>1. \A t \in Transaction, b \in BOOLEAN : [t EXCEPT !.doubt = b].key = t.key
    BY DEF Transaction
  <2>2. \A o \in Owner : tx'[o] = [tx[o] EXCEPT !.doubt = tx[o].op # "none"] /\ tx[o] \in Transaction
    BY <1>12 DEF Crash, Rows
  <2>3. \A o \in Owner : tx'[o].key = tx[o].key
    BY <2>1, <2>2
  <2> QED
    BY <2>3, <1>12, <1>0 DEF Crash
<1>13. ASSUME NEW p \in Piece, CreatePiece(p) \/ DeletePiece(p) PROVE OneUser' /\ KeysFresh'
  <2>1. /\ tx' = tx /\ content' = content
        /\ \A q \in Piece : piece'[q] = piece[q] \/ piece'[q] \in {NoPieceRow("live"), NoPieceRow("deleted")}
        /\ \A d \in Draft : draft'[d] = draft[d] \/ draft'[d] = NoDraftRow("deleted")
    BY <1>13 DEF CreatePiece, DeletePiece, DraftsWithout, Rows
  <2> QED
    BY <2>1, <1>n, <1>0
<1>14. ASSUME NEW p \in Piece, NEW c \in Content, PutReaderState(p, c) PROVE OneUser' /\ KeysFresh'
  <2> DEFINE row == [piece[p] EXCEPT !.place = c]
  <2>1. row.pages = piece[p].pages /\ row.sources = piece[p].sources /\ row.pdf = piece[p].pdf
    BY DEF Rows, PieceRow
  <2>2. piece' = [piece EXCEPT ![p] = row] /\ UNCHANGED <<draft, tx, content>>
    BY <1>14 DEF PutReaderState
  <2> HIDE DEF row
  <2> QED
    BY <2>1, <2>2, <1>0 DEF Rows
<1>15. CASE CleanupCollect
  <2>1. /\ UNCHANGED <<piece, tx, content>>
        /\ \A d \in Draft : draft'[d] = draft[d] \/ draft'[d] = NoDraftRow("deleted")
    BY <1>15 DEF CleanupCollect
  <2> QED
    BY <2>1, <1>n, <1>0
<1>16. CASE UNCHANGED <<piece, draft, tx, content>>
  BY <1>16, <1>0
<1>17. ASSUME NEW k \in Key, Requeue(k) PROVE OneUser' /\ KeysFresh'
  BY <1>17, <1>16 DEF Requeue, QueueObject, QueueObjectFails
<1>18. CASE CleanupStep \/ CleanupFails \/ UNCHANGED vars
  BY <1>18, <1>15, <1>16 DEF CleanupStep, CleanupSelect, CleanupCheck, CleanupDelete, CleanupDeleteFails,
     CleanupDequeue, CleanupDone, CleanupFails, vars
<1> QED
  BY <1>1, <1>2, <1>3, <1>4, <1>5, <1>6, <1>7, <1>9, <1>10, <1>11, <1>12, <1>13, <1>14, <1>17, <1>18
     DEF Next, Drafting, Publishing, Resolve, Pieces

\* A source or PDF is used by the rows of one user only, in every reachable state.
THEOREM SourcesOfOneUser == Spec => []SourcesStayPrivate
<1> USE ConstantsAssumption
<1>1. Init => Rows /\ Struct /\ OneUser /\ KeysFresh
  <2> SUFFICES ASSUME Init PROVE OneUser /\ KeysFresh
    BY InitRows
  <2>1. \A p \in Piece : /\ piece[p].pages = {} /\ piece[p].sources = {}
                         /\ piece[p].pdf = IF p \in DOMAIN LegacyPdf THEN LegacyPdf[p] ELSE NoKey
    <3>1. NoPieceRow("none").pages = {} /\ NoPieceRow("none").sources = {} /\ NoPieceRow("none").pdf = NoKey
      BY DEF NoPieceRow
    <3>2. \A k : LET r == [NoPieceRow("live") EXCEPT !.pdf = k]
                 IN  r.pages = {} /\ r.sources = {} /\ r.pdf = k
      BY DEF NoPieceRow
    <3> QED
      BY <3>1, <3>2 DEF Init
  <2>2. \A d \in Draft : draft[d].pages = {} /\ draft[d].sources = {}
    BY DEF Init, NoDraftRow
  <2>3. \A o \in Owner : tx[o].key = NoKey
    BY DEF Init, NoTx
  <2>4. \A k \in Key : \A a \in UsesOf(k) : \E p \in DOMAIN LegacyPdf : LegacyPdf[p] = k /\ PieceOwner[p] = a
    BY <2>1, <2>2, UsersOf
  <2>5. OneUser
    BY <2>4 DEF OneUser
  <2>6. \A k \in Key : content[k] = Unsaved => UsesOf(k) = {}
    <3>1. \A k \in Key : content[k] = Unsaved => k \notin store
      BY DEF Init
    <3>2. \A p \in DOMAIN LegacyPdf : LegacyPdf[p] \in store
      BY DEF Init
    <3> QED
      BY <2>4, <3>1, <3>2
  <2> QED
    BY <2>3, <2>5, <2>6 DEF KeysFresh
<1>2. Rows /\ Struct /\ OneUser /\ KeysFresh /\ [Next]_vars => (Rows /\ Struct /\ OneUser /\ KeysFresh)'
  BY RowsStep, StructStep, PrivateStep DEF Struct
<1>3. OneUser => SourcesStayPrivate
  <2> SUFFICES ASSUME OneUser, NEW k \in Key PROVE Cardinality(UsesOf(k)) <= 1
    BY DEF SourcesStayPrivate
  <2>1. CASE UsesOf(k) = {}
    BY <2>1, FS_EmptySet
  <2>2. ASSUME NEW a \in UsesOf(k) PROVE Cardinality(UsesOf(k)) <= 1
    <3>1. UsesOf(k) = {a}
      BY DEF OneUser
    <3>2. Cardinality({a}) = 1
      BY FS_Singleton
    <3> QED
      BY <3>1, <3>2
  <2> QED
    BY <2>1, <2>2
<1> QED
  BY <1>1, <1>2, <1>3, PTL DEF Spec

=============================================================================
