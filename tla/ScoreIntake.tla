---------------------------- MODULE ScoreIntake ----------------------------
(***************************************************************************)
(* Score intake: preparation drafts, the pieces they publish, the stored   *)
(* source files and PDFs, and the job that deletes files nothing refers to *)
(* any more (internal/app/imports.go, with DeletePiece, CreatePiece and    *)
(* PutReaderState of internal/app/service.go and the local object store of *)
(* internal/assets/store.go).                                              *)
(*                                                                         *)
(* A database transaction that writes no file is one action. The two that  *)
(* do (attachSource and FinalizeImport) are split where the code leaves    *)
(* PostgreSQL: the file is saved first, the transaction commits or rolls   *)
(* back later, and a key whose transaction did not report success is put   *)
(* in the deletion queue by a further statement of its own. The cleanup    *)
(* job takes no owner lock, so each of its statements is an action.        *)
(*                                                                         *)
(* Abstractions. A page manifest is the set of sources its pages come from *)
(* together with a flag that says whether it differs from the manifest the *)
(* draft was opened with. An import_assets row is identified by its        *)
(* storage key, which the schema makes unique. Requests whose draft        *)
(* revision is stale change nothing and are not steps here. Metadata is    *)
(* left out.                                                               *)
(***************************************************************************)
EXTENDS Naturals, FiniteSets

CONSTANTS
  Owner,        \* users
  Piece,        \* piece ids
  Draft,        \* draft ids
  Key,          \* storage keys of the object store
  Content,      \* checksums a stored file may have
  NoPiece, NoDraft, NoKey,
  Unsaved,      \* the content of a key that no Save has returned yet
  SourceBytes,  \* the content of an uploaded source, which is never a piece's PDF
  Start,        \* the reader place of a piece nobody has read since its PDF changed
  PieceOwner,   \* the user who draws each piece id
  DraftOwner,   \* the user who draws each draft id
  LegacyPdf,    \* pieces saved before preparation existed, with the key of their PDF
  MaxOpenDrafts,  \* open drafts one user may have
  BatchLimit,     \* queue rows one cleanup run looks at
  LateCommits,    \* may a COMMIT whose connection was lost still be applied
                  \* after the API has gone on to its next statement?
  MaxFaults       \* bound on crashes and failed statements

ASSUME ConstantsAssumption ==
  /\ NoPiece \notin Piece /\ NoDraft \notin Draft /\ NoKey \notin Key
  /\ Unsaved \notin Content /\ SourceBytes \notin Content /\ Start \notin Content
  /\ Unsaved # SourceBytes
  /\ PieceOwner \in [Piece -> Owner]
  /\ DraftOwner \in [Draft -> Owner]
  /\ DOMAIN LegacyPdf \subseteq Piece
  /\ \A p \in DOMAIN LegacyPdf : LegacyPdf[p] \in Key
  /\ \A p, q \in DOMAIN LegacyPdf : LegacyPdf[p] = LegacyPdf[q] => p = q
  /\ LateCommits \in BOOLEAN
  /\ MaxFaults \in Nat /\ BatchLimit \in Nat /\ MaxOpenDrafts \in Nat

VARIABLES
  piece,     \* pieces with their piece_pdfs, piece_sources and reader_states rows
  draft,     \* import_drafts with their draft_sources rows
  assets,    \* the storage keys of the import_assets rows
  queue,     \* asset_deletion_queue
  store,     \* the keys of the files on disk
  content,   \* what was saved under each key
  tx,        \* each owner's transaction that has saved a file, under the owner lock
  unqueued,  \* keys the deferred queueObject still has to put in the queue
  lost,      \* keys whose queueObject never ran: a crash or a failed statement
  cleanup,   \* where the cleanup job is
  faults     \* crashes and failed statements so far

vars == <<piece, draft, assets, queue, store, content, tx, unqueued, lost, cleanup, faults>>

----------------------------------------------------------------------------

PieceRow == [state : {"none", "live", "deleted"}, pdf : Key \cup {NoKey}, revision : Nat,
             prepared : BOOLEAN, pages : SUBSET Key, sources : SUBSET Key,
             place : Content \cup {Start}]

\* basePdf is history: the PDF the piece had when the draft was opened.
DraftRow == [state : {"none", "open", "finalized", "deleted"}, piece : Piece \cup {NoPiece},
             base : Nat, basePdf : Key \cup {NoKey}, sources : SUBSET Key,
             initial : SUBSET Key, pages : SUBSET Key, edited : BOOLEAN, expired : BOOLEAN]

Transaction == [op : {"none", "attach", "finalize"}, draft : Draft \cup {NoDraft},
                piece : Piece \cup {NoPiece}, key : Key \cup {NoKey}, doubt : BOOLEAN]

CleanupJob == [pc : {"idle", "select", "check", "delete", "dequeue"}, batch : SUBSET Key,
               key : Key \cup {NoKey}]

NoPieceRow(state) ==
  [state |-> state, pdf |-> NoKey, revision |-> 0, prepared |-> FALSE, pages |-> {},
   sources |-> {}, place |-> Start]

NoDraftRow(state) ==
  [state |-> state, piece |-> NoPiece, base |-> 0, basePdf |-> NoKey, sources |-> {},
   initial |-> {}, pages |-> {}, edited |-> FALSE, expired |-> FALSE]

NoTx == [op |-> "none", draft |-> NoDraft, piece |-> NoPiece, key |-> NoKey, doubt |-> FALSE]

CleanupIdle == [pc |-> "idle", batch |-> {}, key |-> NoKey]

Init ==
  /\ piece = [p \in Piece |->
                IF p \in DOMAIN LegacyPdf
                  THEN [NoPieceRow("live") EXCEPT !.pdf = LegacyPdf[p]]
                  ELSE NoPieceRow("none")]
  /\ draft = [d \in Draft |-> NoDraftRow("none")]
  /\ assets = {}
  /\ queue = {}
  /\ store = {LegacyPdf[p] : p \in DOMAIN LegacyPdf}
  /\ \E c \in Content :
       content = [k \in Key |-> IF k \in store THEN c ELSE Unsaved]
  /\ tx = [o \in Owner |-> NoTx]
  /\ unqueued = {}
  /\ lost = {}
  /\ cleanup = CleanupIdle
  /\ faults = 0

----------------------------------------------------------------------------
(***************************************************************************)
(* What the rows refer to.                                                 *)
(***************************************************************************)

Pdfs == {piece[p].pdf : p \in Piece} \ {NoKey}

SourcesInUse ==
  (UNION {draft[d].sources : d \in Draft}) \cup (UNION {piece[p].sources : p \in Piece})

\* The test of queueKey and of the cleanup job: some row still names the key.
Referenced == Pdfs \cup assets

InFlight == {tx[o].key : o \in Owner} \ {NoKey}

\* importTx: no other transaction of the owner holds the advisory lock.
Unlocked(o) == tx[o].op = "none"

\* draftTx: the row exists and was touched in the last seven days.
Loadable(d) == draft[d].state \in {"open", "finalized"} /\ ~draft[d].expired

\* The rows a delete or a publication leaves behind: collectOrphans drops the
\* assets no draft and no piece uses and queues their keys unless a PDF has them;
\* then queueKey queues each superseded PDF key that no row names any more.
CollectAndQueueSkipsSuperseded(superseded) ==
  /\ assets' = assets \cap SourcesInUse'
  /\ queue' = queue \cup ((assets \ SourcesInUse') \ Pdfs')

CollectAndQueueUnopened(superseded) ==
  LET kept == UNION {draft[d].sources : d \in Draft}
  IN  /\ assets' = assets \cap kept'
      /\ queue' = queue \cup ((assets \ kept') \ Pdfs')
                        \cup {k \in superseded : k \notin Referenced'}

CollectAndQueue(superseded) ==
  /\ assets' = assets \cap SourcesInUse'
  /\ queue' = queue \cup ((assets \ SourcesInUse') \ Pdfs')
                    \cup {k \in superseded : k \notin Referenced'}

\* Save: the file appears under a key no one has used.
SaveObject(k, c) ==
  /\ content[k] = Unsaved
  /\ content' = [content EXCEPT ![k] = c]
  /\ store' = store \cup {k}

----------------------------------------------------------------------------
(***************************************************************************)
(* Drafts.                                                                 *)
(***************************************************************************)

OpenDrafts(o) == {d \in Draft : DraftOwner[d] = o /\ draft[d].state = "open" /\ ~draft[d].expired}

\* createImport up to the insert: a fresh id, the owner lock, and room for one more draft.
CanOpen(d) ==
  /\ draft[d].state = "none"
  /\ Unlocked(DraftOwner[d])
  /\ Cardinality(OpenDrafts(DraftOwner[d])) < MaxOpenDrafts

\* A draft for a new score starts with no pages and no sources.
CreateImport(d) ==
  /\ CanOpen(d)
  /\ draft' = [draft EXCEPT ![d] = NoDraftRow("open")]
  /\ UNCHANGED <<piece, assets, queue, store, content, tx, unqueued, lost, cleanup, faults>>

\* A draft that replaces the content of p starts from p's saved manifest and its
\* sources, or, when p was never prepared, from p's PDF taken as a source under its own key.
CreateImportForPiece(d, p) ==
  LET start == IF piece[p].prepared THEN piece[p].pages ELSE {piece[p].pdf} \ {NoKey}
  IN  /\ CanOpen(d)
      /\ piece[p].state = "live" /\ PieceOwner[p] = DraftOwner[d]
      /\ draft' = [draft EXCEPT ![d] =
                     [NoDraftRow("open") EXCEPT
                        !.piece = p, !.base = piece[p].revision, !.basePdf = piece[p].pdf,
                        !.sources = start, !.initial = start, !.pages = start]]
      /\ assets' = IF piece[p].prepared THEN assets ELSE assets \cup start
      /\ UNCHANGED <<piece, queue, store, content, tx, unqueued, lost, cleanup, faults>>

AnyStoredSource(d, pages) == pages \subseteq assets

\* validateManifest: every page comes from one of the draft's own sources.
ValidPages(d, pages) == pages \subseteq draft[d].sources

\* UpdateImport: the manifest equals the initial one only if its sources do.
UpdateImport(d, pages, edited) ==
  /\ Loadable(d) /\ draft[d].state = "open"
  /\ Unlocked(DraftOwner[d])
  /\ ValidPages(d, pages)
  /\ edited \/ pages = draft[d].initial
  /\ draft' = [draft EXCEPT ![d].pages = pages, ![d].edited = edited]
  /\ UNCHANGED <<piece, assets, queue, store, content, tx, unqueued, lost, cleanup, faults>>

\* attachSource up to Save: the owner lock and the draft row stay locked.
BeginAttach(d, k) ==
  /\ Loadable(d) /\ draft[d].state = "open"
  /\ Unlocked(DraftOwner[d])
  /\ SaveObject(k, SourceBytes)
  /\ tx' = [tx EXCEPT ![DraftOwner[d]] = [NoTx EXCEPT !.op = "attach", !.draft = d, !.key = k]]
  /\ UNCHANGED <<piece, draft, assets, queue, unqueued, lost, cleanup, faults>>

\* attachSource's commit. The new pages are appended unless the manifest is full.
CommitAttach(o, appended) ==
  LET d == tx[o].draft
      k == tx[o].key
  IN  /\ tx[o].op = "attach"
      /\ appended \/ draft[d].pages # {}
      /\ draft' = [draft EXCEPT ![d].sources = @ \cup {k},
                                ![d].pages = IF appended THEN @ \cup {k} ELSE @,
                                ![d].edited = @ \/ appended]
      /\ assets' = assets \cup {k}
      /\ tx' = [tx EXCEPT ![o] = NoTx]
      /\ UNCHANGED <<piece, queue, store, content, unqueued, lost, cleanup, faults>>

\* DeleteImport: an expired draft may still be discarded, a finalized one may not.
DeleteImport(d) ==
  /\ draft[d].state = "open"
  /\ Unlocked(DraftOwner[d])
  /\ draft' = [draft EXCEPT ![d] = NoDraftRow("deleted")]
  /\ UNCHANGED <<piece, store, content, tx, unqueued, lost, cleanup, faults>>
  /\ CollectAndQueue({})

\* Seven days pass with no change to the draft. A transaction that holds the row
\* either refreshes updated_at or leaves the draft as old as it was.
Expire(d) ==
  /\ Loadable(d)
  /\ \A o \in Owner : tx[o].draft # d
  /\ draft' = [draft EXCEPT ![d].expired = TRUE]
  /\ UNCHANGED <<piece, assets, queue, store, content, tx, unqueued, lost, cleanup, faults>>

----------------------------------------------------------------------------
(***************************************************************************)
(* Publication.                                                            *)
(***************************************************************************)

\* Unchanged pages of a piece that has a PDF: its original bytes are saved again.
KeepsOriginal(d, p) == piece[p].pdf # NoKey /\ ~draft[d].edited

BaseIgnored(d, p) == TRUE

\* The piece's content is still what the draft was opened on (ErrPieceChanged).
BaseUnchanged(d, p) == piece[p].revision = draft[d].base

\* FinalizeImport up to Save. A draft already finalized answers with its piece and
\* changes nothing; a draft of no piece publishes one with a fresh id.
BeginFinalize(d, p, k, c) ==
  /\ Loadable(d) /\ draft[d].state = "open"
  /\ Unlocked(DraftOwner[d])
  /\ draft[d].pages # {}
  /\ PieceOwner[p] = DraftOwner[d]
  /\ IF draft[d].piece = NoPiece
       THEN piece[p].state = "none"
       ELSE draft[d].piece = p /\ BaseUnchanged(d, p)
  /\ KeepsOriginal(d, p) => piece[p].pdf \in store /\ c = content[piece[p].pdf]
  /\ SaveObject(k, c)
  /\ tx' = [tx EXCEPT ![DraftOwner[d]] =
              [NoTx EXCEPT !.op = "finalize", !.draft = d, !.piece = p, !.key = k]]
  /\ UNCHANGED <<piece, draft, assets, queue, unqueued, lost, cleanup, faults>>

PlaceKept(p, k) == piece[p].place

\* The reader's place is reset when the PDF's bytes change.
PlaceAfter(p, k) ==
  IF piece[p].pdf # NoKey /\ content[piece[p].pdf] = content[k] THEN piece[p].place ELSE Start

\* The piece after publication: a new PDF and manifest, and the manifest's sources retained.
Published(p, k, pages) ==
  [piece[p] EXCEPT !.state = "live", !.pdf = k, !.revision = @ + 1, !.prepared = TRUE,
                   !.pages = pages, !.sources = pages,
                   !.place = PlaceAfter(p, k)]

StillOpen(d, p) == [draft[d] EXCEPT !.piece = p, !.sources = {}]

\* The draft after publication: it holds no sources and can only answer a retry.
Finalized(d, p) == [draft[d] EXCEPT !.state = "finalized", !.piece = p, !.sources = {}]

\* FinalizeImport's commit.
CommitFinalize(o) ==
  LET d == tx[o].draft
      p == tx[o].piece
  IN  /\ tx[o].op = "finalize"
      /\ piece' = [piece EXCEPT ![p] = Published(p, tx[o].key, draft[d].pages)]
      /\ draft' = [draft EXCEPT ![d] = Finalized(d, p)]
      /\ tx' = [tx EXCEPT ![o] = NoTx]
      /\ CollectAndQueue({piece[p].pdf} \ {NoKey})
      /\ UNCHANGED <<store, content, unqueued, lost, cleanup, faults>>

----------------------------------------------------------------------------
(***************************************************************************)
(* Pieces and the reader's place.                                          *)
(***************************************************************************)

\* CreatePiece: details only, no PDF and no manifest.
CreatePiece(p) ==
  /\ piece[p].state = "none"
  /\ Unlocked(PieceOwner[p])
  /\ piece' = [piece EXCEPT ![p] = NoPieceRow("live")]
  /\ UNCHANGED <<draft, assets, queue, store, content, tx, unqueued, lost, cleanup, faults>>

DraftsKept(p) == draft

\* ON DELETE CASCADE: the piece's drafts go with it.
DraftsWithout(p) ==
  [d \in Draft |-> IF draft[d].piece = p THEN NoDraftRow("deleted") ELSE draft[d]]

DeletePiece(p) ==
  /\ piece[p].state = "live"
  /\ Unlocked(PieceOwner[p])
  /\ piece' = [piece EXCEPT ![p] = NoPieceRow("deleted")]
  /\ draft' = DraftsWithout(p)
  /\ UNCHANGED <<store, content, tx, unqueued, lost, cleanup, faults>>
  /\ CollectAndQueue({piece[p].pdf} \ {NoKey})

\* PutReaderState with a place that a reader reached in the PDF whose checksum is c.
\* It takes no owner lock, but waits for the piece row a publication holds.
PutReaderState(p, c) ==
  /\ piece[p].state = "live" /\ piece[p].pdf # NoKey
  /\ \A o \in Owner : tx[o].piece # p
  /\ content[piece[p].pdf] = c
  /\ piece' = [piece EXCEPT ![p].place = c]
  /\ UNCHANGED <<draft, assets, queue, store, content, tx, unqueued, lost, cleanup, faults>>

----------------------------------------------------------------------------
(***************************************************************************)
(* Transactions that do not report success.                                *)
(***************************************************************************)

\* A statement after Save fails: roll back, then queueObject.
Rollback(o) ==
  /\ tx[o].op # "none" /\ ~tx[o].doubt
  /\ tx' = [tx EXCEPT ![o] = NoTx]
  /\ unqueued' = unqueued \cup {tx[o].key}
  /\ UNCHANGED <<piece, draft, assets, queue, store, content, lost, cleanup, faults>>

\* COMMIT was sent and its connection lost: the API sees an error and goes on to
\* queueObject, while PostgreSQL commits (CommitAttach, CommitFinalize) or aborts
\* (ServerAbort) and holds the transaction's locks until it has.
LoseConnection(o) ==
  /\ tx[o].op # "none" /\ ~tx[o].doubt
  /\ tx' = [tx EXCEPT ![o].doubt = TRUE]
  /\ unqueued' = unqueued \cup {tx[o].key}
  /\ UNCHANGED <<piece, draft, assets, queue, store, content, lost, cleanup, faults>>

ServerAbort(o) ==
  /\ tx[o].doubt
  /\ tx' = [tx EXCEPT ![o] = NoTx]
  /\ UNCHANGED <<piece, draft, assets, queue, store, content, unqueued, lost, cleanup, faults>>

\* queueObject inserts the key whether or not a row names it.
QueueObject(k) ==
  /\ k \in unqueued
  /\ LateCommits \/ k \notin InFlight
  /\ unqueued' = unqueued \ {k}
  /\ queue' = queue \cup {k}
  /\ UNCHANGED <<piece, draft, assets, store, content, tx, lost, cleanup, faults>>

\* Its failure is only logged.
QueueObjectFails(k) ==
  /\ k \in unqueued
  /\ faults < MaxFaults
  /\ faults' = faults + 1
  /\ unqueued' = unqueued \ {k}
  /\ lost' = lost \cup {k}
  /\ UNCHANGED <<piece, draft, assets, queue, store, content, tx, cleanup>>

\* The API process dies. PostgreSQL resolves what it was executing.
Crash ==
  /\ faults < MaxFaults
  /\ faults' = faults + 1
  /\ tx' = [o \in Owner |-> [tx[o] EXCEPT !.doubt = tx[o].op # "none"]]
  /\ unqueued' = {}
  /\ lost' = lost \cup unqueued \cup {tx[o].key : o \in {u \in Owner : tx[u].op # "none" /\ ~tx[u].doubt}}
  /\ cleanup' = CleanupIdle
  /\ UNCHANGED <<piece, draft, assets, queue, store, content>>

----------------------------------------------------------------------------
(***************************************************************************)
(* The cleanup job: CleanupImports, every minute.                          *)
(***************************************************************************)

\* Its transaction: delete the drafts idle for seven days, collect what only they
\* used. It waits for the rows that in-flight transactions hold.
CleanupCollect ==
  /\ cleanup.pc = "idle"
  /\ draft' = [d \in Draft |-> IF draft[d].expired THEN NoDraftRow("deleted") ELSE draft[d]]
  /\ UNCHANGED <<piece, store, content, tx, unqueued, lost, faults>>
  /\ CollectAndQueue({})
  /\ cleanup' = [cleanup EXCEPT !.pc = "select"]

\* The oldest rows of the queue, at most BatchLimit of them. Queue order is left out.
CleanupSelect(batch) ==
  /\ cleanup.pc = "select"
  /\ Cardinality(batch) <= BatchLimit
  /\ batch # queue => Cardinality(batch) = BatchLimit
  /\ cleanup' = [cleanup EXCEPT !.pc = "check", !.batch = batch]
  /\ UNCHANGED <<piece, draft, assets, queue, store, content, tx, unqueued, lost, faults>>

AlwaysUnneeded(k) == TRUE

UnneededByPieces(k) == k \notin Pdfs

\* The check a run makes right before it deletes a file.
Unneeded(k) == k \notin Referenced

\* A key some row names stays in the queue and keeps its file.
CleanupCheck(k) ==
  /\ cleanup.pc = "check"
  /\ cleanup' = IF Unneeded(k)
                  THEN [pc |-> "delete", batch |-> cleanup.batch \ {k}, key |-> k]
                  ELSE [cleanup EXCEPT !.batch = @ \ {k}]
  /\ UNCHANGED <<piece, draft, assets, queue, store, content, tx, unqueued, lost, faults>>

\* A file already gone counts as deleted.
CleanupDelete(k) ==
  /\ cleanup.pc = "delete" /\ cleanup.key = k
  /\ store' = store \ {k}
  /\ cleanup' = [cleanup EXCEPT !.pc = "dequeue"]
  /\ UNCHANGED <<piece, draft, assets, queue, content, tx, unqueued, lost, faults>>

CleanupDeleteGivesUp ==
  /\ cleanup.pc = "delete"
  /\ cleanup' = [cleanup EXCEPT !.pc = "check", !.key = NoKey]
  /\ queue' = queue \ {cleanup.key}
  /\ UNCHANGED <<piece, draft, assets, store, content, tx, unqueued, lost, faults>>

\* The store refuses: the key stays queued for a later run.
CleanupDeleteFails ==
  /\ cleanup.pc = "delete"
  /\ cleanup' = [cleanup EXCEPT !.pc = "check", !.key = NoKey]
  /\ UNCHANGED <<piece, draft, assets, queue, store, content, tx, unqueued, lost, faults>>

CleanupDequeue ==
  /\ cleanup.pc = "dequeue"
  /\ queue' = queue \ {cleanup.key}
  /\ cleanup' = [cleanup EXCEPT !.pc = "check", !.key = NoKey]
  /\ UNCHANGED <<piece, draft, assets, store, content, tx, unqueued, lost, faults>>

CleanupDone ==
  /\ cleanup.pc = "check" /\ cleanup.batch = {}
  /\ cleanup' = CleanupIdle
  /\ UNCHANGED <<piece, draft, assets, queue, store, content, tx, unqueued, lost, faults>>

\* Any database error, or shutdown, ends the run; the next one starts over.
CleanupFails ==
  /\ cleanup.pc # "idle"
  /\ faults < MaxFaults
  /\ faults' = faults + 1
  /\ cleanup' = CleanupIdle
  /\ UNCHANGED <<piece, draft, assets, queue, store, content, tx, unqueued, lost>>

----------------------------------------------------------------------------

Drafting ==
  \E d \in Draft :
    \/ CreateImport(d)
    \/ \E p \in Piece : CreateImportForPiece(d, p)
    \/ \E pages \in SUBSET Key, edited \in BOOLEAN : UpdateImport(d, pages, edited)
    \/ \E k \in Key : BeginAttach(d, k)
    \/ DeleteImport(d)
    \/ Expire(d)

Publishing ==
  \E d \in Draft, p \in Piece, k \in Key, c \in Content : BeginFinalize(d, p, k, c)

\* Each owner's open transaction comes to an end, and so does queueObject.
Resolve(o) ==
  \/ \E appended \in BOOLEAN : CommitAttach(o, appended)
  \/ CommitFinalize(o)
  \/ Rollback(o)
  \/ LoseConnection(o)
  \/ ServerAbort(o)

Requeue(k) == QueueObject(k) \/ QueueObjectFails(k)

Pieces ==
  \E p \in Piece :
    \/ CreatePiece(p)
    \/ DeletePiece(p)
    \/ \E c \in Content : PutReaderState(p, c)

CleanupStep ==
  \/ CleanupCollect
  \/ \E batch \in SUBSET queue : CleanupSelect(batch)
  \/ \E k \in cleanup.batch : CleanupCheck(k)
  \/ \E k \in Key : CleanupDelete(k)
  \/ CleanupDeleteFails
  \/ CleanupDequeue
  \/ CleanupDone

Next ==
  \/ Drafting
  \/ Publishing
  \/ \E o \in Owner : Resolve(o)
  \/ \E k \in Key : Requeue(k)
  \/ Pieces
  \/ CleanupStep
  \/ CleanupFails
  \/ Crash

Spec == Init /\ [][Next]_vars

\* The API answers every request it has started (the context of an HTTP request ends),
\* the cleanup ticker keeps firing, and a delete that is retried without end succeeds
\* at some point.
Fairness ==
  /\ \A o \in Owner : WF_vars(Resolve(o))
  /\ \A k \in Key : WF_vars(Requeue(k))
  /\ WF_vars(CleanupStep)
  /\ \A k \in Key : SF_vars(CleanupDelete(k))

FairSpec == Spec /\ Fairness

----------------------------------------------------------------------------
(***************************************************************************)
(* Properties.                                                             *)
(***************************************************************************)

\* Types, and the schema's rule that a draft of a piece goes when the piece does
\* (ON DELETE CASCADE): no draft row names a piece that is not there.
TypeOK ==
  /\ piece \in [Piece -> PieceRow]
  /\ draft \in [Draft -> DraftRow]
  /\ assets \subseteq Key /\ queue \subseteq Key /\ store \subseteq Key
  /\ content \in [Key -> Content \cup {Unsaved, SourceBytes}]
  /\ tx \in [Owner -> Transaction]
  /\ unqueued \subseteq Key /\ lost \subseteq Key
  /\ cleanup \in CleanupJob
  /\ faults \in Nat
  /\ \A d \in Draft : draft[d].piece # NoPiece => piece[draft[d].piece].state = "live"

\* Every file a row names is on disk: whatever the cleanup job deletes, no PDF and no
\* source that a piece or a draft still needs is among it.
ReferencedObjectsExist == Referenced \subseteq store

\* The sources that an open draft's pages and a piece's saved manifest come from are
\* kept: their import_assets rows survive every collectOrphans of every user.
SourcesRetained ==
  /\ \A d \in Draft : draft[d].state = "open" =>
       draft[d].pages \cup draft[d].initial \subseteq draft[d].sources
  /\ \A p \in Piece : piece[p].pages \subseteq piece[p].sources
  /\ SourcesInUse \subseteq assets

\* No file is forgotten: it is named by a row, queued for deletion, still in the hands of a
\* request, or its key was lost with a crash or a failed queueObject.
NoForgottenObject == store \subseteq Referenced \cup queue \cup InFlight \cup unqueued \cup lost

\* A source or PDF is used by the rows of one user only.
UsesOf(k) ==
  {PieceOwner[p] : p \in {q \in Piece : k \in piece[q].pages \cup piece[q].sources \cup {piece[q].pdf}}}
  \cup {DraftOwner[d] : d \in {e \in Draft : k \in draft[e].pages \cup draft[e].sources}}

SourcesStayPrivate == \A k \in Key : Cardinality(UsesOf(k)) <= 1

\* A saved place was reached in the PDF the piece has now: a place of replaced bytes is
\* never kept, and one reached in them is never saved afterwards.
PlaceBelongsToPdf ==
  \A p \in Piece : piece[p].place # Start =>
    piece[p].pdf # NoKey /\ content[piece[p].pdf] = piece[p].place

\* Whenever a piece gets a PDF, exactly one open draft of that piece is used up, so that a
\* repeated FinalizeImport publishes nothing twice.
PublishConsumesDraft ==
  [][\A p \in Piece : piece'[p].pdf \notin {piece[p].pdf, NoKey} =>
       \E d \in Draft : /\ draft[d].state = "open" /\ draft'[d].state = "finalized"
                        /\ draft'[d].piece = p
                        /\ \A e \in Draft \ {d} : draft'[e] = draft[e]]_vars

\* A publication replaces only the PDF its draft was opened on; content saved by another
\* draft in the meantime is not overwritten (ErrPieceChanged).
PublishReplacesItsBase ==
  [][\A d \in Draft : draft[d].state = "open" /\ draft'[d].state = "finalized" =>
       piece[draft'[d].piece].pdf = draft[d].basePdf]_vars

\* An object that nothing will use again leaves the disk: uploads of abandoned drafts,
\* replaced PDFs, and files of transactions that failed.
Wanted(k) ==
  \/ k \in Pdfs
  \/ \E p \in Piece : k \in piece[p].sources
  \/ \E d \in Draft : k \in draft[d].sources /\ ~draft[d].expired

GarbageReclaimed ==
  \A k \in Key : k \in store ~> (k \notin store \/ Wanted(k) \/ k \in lost)

\* What each key is to the binder: named by a row, saved by a transaction that may still
\* commit, unused, or none of these.
KeyUse ==
  [k \in Key |-> IF k \in Referenced THEN "wanted"
                ELSE IF k \in InFlight THEN "held"
                ELSE IF content[k] = Unsaved THEN "new"
                ELSE "garbage"]

Lifecycle == INSTANCE ObjectLifecycle WITH use <- KeyUse, files <- store

\* The intake keeps the promise of ObjectLifecycle: "deleting files happens only after
\* committed references disappear" (CleanupImports). However the job's statements, commits
\* and rollbacks interleave, only a file that no row names and no transaction holds is
\* erased, and a key that once was nobody's is never named again.
ImplementsLifecycle == Lifecycle!Spec

============================================================================
