# Noted: a TLA+ model of the score binder

Noted is a private binder for sheet music: a Go API over PostgreSQL and a local
object store (`src/internal`, `src/cmd`), and an Angular client (`src/web`). This
directory models the parts whose correctness depends on the order in which
requests, transactions, timers and callbacks happen, checks them with TLC on small
instances and proves the main invariants for every instance with TLAPS.

Run a model with `tlc -config X.cfg M`, a proof with `tlapm M.tla`. `PROJECT.json`
lists every run, the source lines behind every definition, the mutations each
property detects, the findings, the hazards and the theorems.

## 1. The system

| Component | State | Operations | Hard behaviour |
|---|---|---|---|
| Score intake (`internal/app/imports.go`) | drafts, draft and piece sources, stored assets | create, update, attach a source, publish, discard, expire | a file is saved before its transaction commits; COMMIT may be lost; retries; two drafts of one piece |
| Deletion queue and cleanup job (`imports.go`, ticker in `cmd/api/main.go`) | `asset_deletion_queue`, the run's batch | collect orphans, select, check, delete, dequeue | shares no lock with the owners' transactions; crashes between its statements |
| Pieces and places (`internal/app/service.go`) | pieces, PDFs, `reader_states` | create, update, delete, put the reader's state | cascades to open drafts; places of replaced PDFs |
| Object store (`internal/assets/store.go`) | files on disk | save, open, delete, probe | its deletes are not part of any transaction; a probe may hang |
| Reader client (`web/.../reader`) | loaded checksum, page, two timers, one save in flight, one waiting | load, reload, move, save, leave | three requests that see different PDFs; late answers; conflict; readers of one piece one after the other |
| Screen wake lock (`screen-wake-lock.ts`) | generation, pending request, held lock | start, stop, show, hide, activity | the browser answers late and in any order |
| Preparation client (`web/.../prepare`) | draft, revision, dirty flag, autosave timer, `pendingSave`, busy operation | edit, save, upload, replace, publish, discard, leave, reload | several callers await one save; edits during requests; lost answers; another tab |
| IMSLP proxy (`internal/app/imslp.go`, `ratelimit.go`) | breaker, probe, token bucket, slots, caches | admit, reserve, send, record, abandon | concurrent calls around half-open state, Retry-After, timeouts |
| Library client (`web/.../library`) | rows, preferences and address of the view, status queues, details form, account dialog | choose, search, save, roll back, open, delete, create a token | chained and unchained saves; reads that a write overtook; dialogs closed before an answer |
| Application shell (`app.ts`, interceptor) | session, gate, remembered address | read the session, show the gate, sign in and out | a session that ends while a page still runs |
| IMSLP search client (`prepare-imslp.ts`) | query, results, one timer, one request that counts, cache | type, Enter, retry, leave, choose or paste a work | late answers, throttling, a timer that overtakes another |
| Pages step (`prepare.component.ts`, `prepare-rendering.ts`) | selection, edits, history, preview, decoded photo | choose, edit, undo, compare, upload, assemble | previews superseded by revision, by the worker and by the decoding |
| Page worker client (`prepare-processing.ts`, `processing.worker.ts`) | the active request, the prepared pages | run, supersede, cancel, destroy | an answer crosses the request that replaces it |
| Page drawing (`reader.component.ts`, `pdf-document.service.ts`) | canvases, render generation, requests per page | turn, zoom, scroll, change mode | slow draws that end late, are shared, cancelled or cut short |
| Export (`export.go`, `export_limit.go`) | active exports, snapshot of rows | begin, stream, end | files replaced while an export runs |
| Composers (`composers.go`) | composer keys | list, merge, repair | stale previews, two replicas repairing |
| Accounts, shortcut tokens (`internal/auth`) | sessions, login states, tokens | log in, log out, rotate, revoke | single use under concurrency, expiry |
| Routing, configuration, metrics, migrations | none worth following | | stateless plumbing, or run once |

How they interact: the client talks to the API by requests that may be lost or
answered late. Every intake request of one user runs in a transaction that takes
the user's advisory lock (`importTx`); `PutReaderState` takes row locks only and the
cleanup job takes neither. The store is written inside these transactions but is not
part of them. A publication changes the PDF under readers that are open. In the
reader, one visibility event both saves the place and drops the wake lock.

What makes each component correct:

- intake and cleanup: no file a row names is deleted, no file is forgotten, sources
  of open drafts and saved manifests are retained, nothing crosses users, a
  publication replaces only what its draft was opened on and happens once;
- reader: a saved place belongs to the PDF the piece has, the newest place wins,
  movement is saved even when the reader never rests;
- wake lock: the screen is kept awake for a visible score and for nothing else;
- editor: what is shown as saved is saved, unsaved changes get saved or the user is
  told, nothing follows a discard, a PDF and its manifest agree;
- library: the last choice is the one stored, a reload shows the same view, rows match
  the server, no account meets another one's search, a token is shown once;
- Pages step: the preview is of the selected page as it is edited now, and the PDF that
  is published has the pages of its manifest, however they were prepared;
- drawing: what is on screen is the page and size asked for, in the end and never
  another page;
- search panel: what can be opened answers the query, a search ends, a filled title is
  the linked work's;
- proxy: the agreed rate, slots and pauses are kept and the breaker never sticks.

## 2. Modules

| Module | Models | State and actions in the code |
|---|---|---|
| `ScoreIntake` | intake, pieces, store, queue, cleanup job | tables as functions of ids; `tx` is the transaction that has saved a file; one action per transaction, two for those that save a file, one per statement of the cleanup job |
| `ObjectLifecycle` | what the binder promises of its files, abstractly | what each key is (new, held, wanted, garbage) and which files exist; `ScoreIntake` implements it |
| `MCScoreIntake` | instances of it | ids as model values, fresh keys symmetric |
| `ScoreIntakeProofs` | theorems about it | |
| `ReaderSync` | reader components of one piece, the API that keeps the place, publications | one row per component with the fields of the class; one action per handler, timer and answer |
| `WakeLock` | `ScreenWakeLock` | its fields; one action per method, listener and answer of the browser |
| `ReaderSession` | a reader with its wake lock | composes the two: ngAfterViewInit and Reload start the lock, a failed load and ngOnDestroy stop it, hiding the page is one step of both |
| `ReaderSessionProofs` | theorems about `ReaderSync`, about `WakeLock` and about the two together | |
| `DraftEditor` | the preparation client, the draft's row, another tab | `save` is `pendingSave` with those who await it in order; `op` the operation that makes the editor busy; a step ends where the code awaits a request or a timer |
| `DraftEditorProofs` | theorems about it | |
| `LibraryView`, `MCLibraryView` | the library's search, filter and order in `library.store.ts`, the tab's address and its copy (`library-address.ts`), the shell (`app.ts`) | `page` is the store of the open page, `left` the save chain of one that was left; one action per handler, request served and answer |
| `LibraryViewProofs` | theorems about it | |
| `LibraryRows` | the rows, their status and favourite saves, the details form | `net` holds the requests; a request is served and answered in two steps |
| `AccountDialog` | the account dialog and the shortcut token | fields of `library-account.component.ts` |
| `LibraryPage` | the page that has both | composes the two: one user, one budget of inputs, modal dialogs |
| `LibraryPageProofs` | theorems about the page, its rows and its dialog | |
| `PagePreview`, `MCPagePreview` | the Pages step, the page renderer's photo, the worker client and the worker | `tasks` are the `renderPreview` calls that wait, `active` and `answers` the worker's, `photo` the display raster with its loads and URLs |
| `PagePreviewProofs` | theorems about it | |
| `ReaderRender`, `MCReaderRender` | drawing in the reader, and the PDF service's draws | one record for each draw under way; one action per frame, draw begun, ended or failed |
| `ReaderRenderProofs` | theorems about it | |
| `ImslpSearch` | the search panel and the title it fills | fields of `prepare-imslp.ts`; one action per handler, timer and answer |
| `ImslpGate`, `MCImslpGate` | breaker, bucket and slots | one action per exit of `attempt`, `acquireOutbound` and `record` |
| `ImslpProofs` | theorems about the gate and about the panel | |

Abstractions that matter when reading the results:

- `ScoreIntake`: a manifest is its set of sources and whether it differs from the one
  the draft was opened with. Page counts are left out, so the refusal of a legacy PDF
  with too many pages is not seen. Requests with a stale revision change nothing and
  are not steps. A transaction without a file is one step: the statement-level
  overlap that READ COMMITTED allows inside `collectOrphans` is not modelled. Any
  batch of the queue may be the oldest: its order is left out. Faults are bounded by
  `MaxFaults`. `LateCommits` says whether a COMMIT whose connection was lost may be
  applied after the API's next statement.
- `ReaderSync`: one page number stands for all a save carries, and it is restored in
  the step that ends a load (the code restores the scroll offset in a timeout after
  it). Every publication has new bytes. A request the client saw fail is not handled
  later. The short save timer is restarted by every movement and is a new timer each
  time. `StrayKeys` lets keys be pressed while a message covers the score. Closing
  the tab is not modelled.
- `WakeLock`: a lock is named by the generation that asked for it; `MaxGeneration`
  bounds the counter.
- `DraftEditor`: a content is the number of the change that made it. The controls are
  disabled while an operation is under way, so there are no edits then. A step that
  delivers a save's answer runs every continuation of those who awaited it, in the
  order they began to. An update and the revision in its answer are one step, though
  `UpdateImport` reads the row back after its commit. Closing the tab is not modelled.
  `latest` is the last change made in the editor that no reload asked for later has given
  up. `spoiled` records the ways of section 4 in which the code goes wrong.
- `LibraryView`: one tab, with a second device that only writes preferences. Filter and
  order run through the same code and are the two elements of `Parts`; `Unknown` is a
  value of another version. Writing the address is one step with the change that causes
  it. Storage is available. Of a page that was left, only what its save chain reads is
  kept (`left`: the queue and what the page last showed). `foreign` names the parts the server took from elsewhere.
- `LibraryRows`: a row is a status, a mark and a title. `Continued` is one fixed piece.
  A request is served and its answer formed in one step; the answer arrives in another.
  A request's number is free again once it is answered; a piece's id is never used again
  (`unused` has those no piece has had). `crossed` names the rows that two requests
  touched at the same time; what the code promises of those is the subject of
  `SlowAnswersKeepTheStatus` (section 4).
- `AccountDialog`: copying the token and the formatting of dates are left out.
- `PagePreview`: an edit is plain, one the worker can preview on the decoded photo, or
  one that needs the page built; pages have no order; a picture is what it shows. A
  replacement selects the last page, as the code does. A reload answers with one of
  `Drafts`, whole manifests that the API may hold, so pages removed here come back.
  The undo history holds `MaxHistory` manifests (30 in the code). The cache of prepared
  pages is a function from keys, and the order in which they were set.
  Thumbnails, suggestions, the cache's limit in bytes (its limit in entries is kept) and
  the worker's `analyze` and `match` are left out. `missed` records the endings after
  which the code shows an error or, by design, no new preview. A rendering that joined a
  decoding begun before the draft was replaced shows a raster that is `Revoked`; the code
  does not tell, so the model follows it and section 4 has the promise it breaks.
- `ReaderRender`: where pages lie is a table from scroll places to pages near and pages
  kept; the zoom and the stage's size are one size. The document is loaded once.
  `MaxRenders` stops the reader, not the draws, when that many draws are under way.
  `lost` records pages whose draw failed or was cut short.
- `ImslpSearch`: each query finds one work. The cache is larger than the number of
  queries. `stray` is a debounce that was running when an answer set another timer in
  its place: the code does not clear it, so both fire. `ReloadDraft` happens with saved
  metadata; it may take the user off the panel without `cancel()`, so that timers and
  answers find it closed.
- `ImslpGate`: time is counted in ticks of one token; recording an answer and freeing
  the slot are one step. The singleflight group and the caches are left out.

## 3. Runs

Properties marked (t) are temporal or action properties. Every property of a passing
run is also shown to fail on a mutated model (`mutants`).

| Run | Instance | Shows |
|---|---|---|
| `intake_oneuser` | one user, a legacy piece, two drafts, three keys, two contents | `TypeOK`, `ReferencedObjectsExist`, `PlaceBelongsToPdf`, `PublishConsumesDraft` (t), `PublishReplacesItsBase` (t) |
| `intake_twousers` | two users, two pieces, two drafts, three keys | `SourcesRetained`, `SourcesStayPrivate` |
| `intake_live` | one user, one draft, one crash or failed statement | `NoForgottenObject`, `GarbageReclaimed` (t), `ImplementsLifecycle` (t) |
| `reader_session` | one reader, two pages, two publications, five lock generations | `PlaceSeenInCurrentPdf`, `SettledReaderIsSaved`, `LockOnlyForScore`, `LockForScore`, `MovementsAreSavedByCheckpoint` (t) |
| `gate_calls` | three calls, one slot, a burst of two, six requests | `ProbeIsHandedBack`, `SlotsAccounted`, `OutboundRateKept` |
| `editor` | two changes of the draft, reloads up to revision 3 (3.4 million states) | `SettledDraftIsSaved`, `UnsavedChangeIsScheduled`, `NothingSentAfterDiscard`, `PublishedPdfMatchesManifest` |
| `editor_leave` | two changes, reloads up to revision 4 | **violated**: `LeavingKeepsEdits` |
| `library_view` | two accounts, two parts of two values, four inputs, one fault | `LastChoiceIsStored`, `ReloadKeepsView`, `SearchStaysWithAccount` |
| `library_page` | two pieces, two statuses, an account with one token, four inputs, one fault (2.2 million states) | `LatestStatusIsStored`, `RowsMatchServer`, `DetailsAreTheRowAskedFor`, `TokenShownOnce`, `DialogShowsTheToken` |
| `preview` | two photos and a PDF page, three kinds of edit, reloads that bring any of the photos it opened with, or none, a cache of one page, one step of undo, three inputs, one fault (2 million states) | `PreviewShowsSelection`, `PublishedPagesAreTheManifest` |
| `render` | two pages, two sizes, four scroll places, two draws | `VisiblePageIsCurrent`, `PageModeSettles`, `ScrollModeSettles`, `NearPageIsDrawn` (t) |
| `imslp` | two queries, seven inputs, two throttled answers | `ResultsAnswerQuery`, `FilledTitleIsTheLinkedWorks`, `OneQuietRetry`, `SearchSettles` (t) |

The modules' type invariants hold on the same instances; only that of `ScoreIntake` is
part of a run.

Why the bounds are enough. Intake: two drafts are what a conflict of publications
needs; three keys are the replaced PDF, a source and the new PDF; the two-user run
needs one of each per user. A crash may fall between any two statements, so one per
behaviour reaches every point; what several do to safety is covered by the proofs.
Reader: a stale place needs a publication between two requests of one load, and a
second one between a save and its answer. Wake lock: show, hide, show and two answers
in either order need four generations. Editor: a change during the save of another
needs two; an upload or a replacement counts as one. The same invariants were also
checked with three changes and reloads up to revision 2 (6.6 million states) and with two
changes and reloads up to revision 4 (4.5 million). Gate:
the probe and the failure that reopens the breaker need two calls, the slot a third.
Library: a save that is overtaken needs two choices, a third to skip and a read that
races; the second account needs a sign-out and a sign-in. The page needs two requests
for one row and a close, or an opening, between a token write and its answer. Preview:
choosing another page, editing it and saving while the first one's decoding, worker and
background preparation are under way are three inputs; a cache of one page makes every
preparation of another evict. Render: four places give each combination of near, kept
and far that two pages can have. Search: a stray timer needs two inputs around an answer;
linking a work, changing the source on Details, going back, pasting that same link and
continuing need seven.

Deadlock is not checked, except in `render`, because each system may rest: users stop,
bounds are reached.

Fairness. `intake_live`: the context of an HTTP request ends, so a started transaction
ends and its deferred `queueObject` runs or fails (weak fairness of `Resolve` and
`Requeue`); the ticker fires every minute (weak fairness of `CleanupStep`); a delete
that is tried in run after run succeeds some time (strong fairness of
`CleanupDelete`). Nothing is assumed of users, drafts or crashes.
`reader_session`: a timer that is neither restarted nor cleared
fires, separately for each restart of the short timer, and a request is answered or
fails. No user action, load or lock event is fair.
`render`: the browser runs animation frames, and the PDF service ends the draws of each
page (weak fairness of the frames and, per page, of its draws). Scrolling for ever is
allowed. `imslp`: timers fire and a search is answered as ready or unavailable, because
the proxy's search has a deadline; throttled answers are bounded by the server's bucket,
which refills, and so by `MaxThrottled`.

## 4. Findings

The finding with a run of its own is `editor_leave` (`prepare.component.ts:214`): the
comment above `canLeave` says that leaving flushes pending edits or asks, but a change
made while the departure's save is on its way is lost without a question.

The modules state more promises of comments, documents and tests that the code does not
keep in every order of events. Each is a definition that TLC refutes when it is added to
the named configuration. None of them is part of a passing run, and the properties that
are say which of these cases they leave aside.

- `ReferencedObjectsExist` with `LateCommits = TRUE` (`ScoreIntake_oneuser.cfg`,
  `imports.go:393`): the comment at `imports.go:681` promises that files are deleted only
  after committed references disappear. When a COMMIT's connection is lost, the saved key
  is queued at once; if PostgreSQL applies the commit after a cleanup run has deleted the
  file, a row names a file that is gone.
- `SettledReaderIsSaved` with two readers (`ReaderSync` with `Readers = {1, 2}`,
  `reader.component.ts:134`): a reader that was left still has a save on its way, a new
  reader of the piece saves, and then the old save is applied. `requirements.md:162` says
  that returning to a piece restores its saved place.
- `MovementsAreSaved` (`ReaderSync`, `reader.component.ts:611`): a checkpoint timer that
  fires behind the error view leaves its field set, so after Reload it is never set again
  and uninterrupted auto-scroll is not saved while it goes on
  (`reader.component.spec.ts:431`).
- `RetryAfterHonoured` (`ImslpGate`, two calls and two slots, `imslp.go:342`): the success
  of a half-open probe closes the breaker even if a Retry-After arrived while it was on
  its way (`imslp-live-search-plan.md:119`).
- `PublicationFlushesFirst` (`DraftEditor.cfg`, `prepare.component.ts:321`): a publication
  that joined a save after the autosave timer did goes on while the timer saves newer
  changes; it is refused as stale, or publishes pages that its stored manifest does not
  describe (`prepare.component.spec.ts:454`).
- `FailedSaveKeepsChoice` (`LibraryView.cfg`, `library.store.ts:307`): the address is to
  keep a choice whose save failed. A user chooses another value and then the default
  again; the first save is stored but no longer remembered, because a newer choice has
  overtaken it, and the second one fails. The default is still the value remembered, so
  the address leaves it out and a reload shows the first choice.
- `SlowAnswersKeepTheStatus` (`LibraryPage.cfg`, `library.store.ts:226`): a favourite's
  answer, or a load, that was served before a status save puts the whole row back with
  the old status when it arrives after it.
- `RastersReleased` (`PagePreview.cfg`, `prepare-rendering.ts:36`): a raster held while
  another load of it ends is overwritten without being revoked, so its URL outlives the
  page.
- `ShownRasterIsKept` (`PagePreview.cfg`, `prepare-rendering.ts:200`): the comment at
  `prepare-rendering.ts:160` says that the selected photo is decoded once and kept until
  another page shows. When a reload or a replacement exchanges the draft while a photo is
  decoded, a rendering of the new draft joins the old decoding by its key; the old one's
  check of `source` fails, the URL they share is revoked, and the new rendering may show it.
- `MarkedPageIsDrawn` (`ReaderRender.cfg`, `reader.component.ts:470`): a page far away is
  emptied while its draw goes on; if it comes near again the new request shares that
  draw, which ends in the emptied canvas, and the page counts as rendered
  (`reader.component.spec.ts:371`).
- `ChangedQueryHoldsResults` (`ImslpSearch.cfg`, `prepare-imslp.ts:180`): leaving the
  panel while the results of an earlier query are held back clears `stale`, so on return
  they can be opened under the changed query (`prepare-imslp.ts:52`).
- `OneQuietRetry` allows one more quiet retry for each throttled answer: a quiet retry
  that is throttled is sent again as an ordinary search, which may schedule a retry of
  its own, though `prepare-imslp.ts:100` says a retry never schedules another.
- `FilledTitleIsTheLinkedWorks` says nothing once the source was changed on Details
  (`urlEdited`). A user links one work, changes the source there to another work's page,
  goes back and pastes that same link: nothing has changed for `linkIMSLPWork`
  (`prepare-imslp.ts:223`), so the title still names the first work and still counts as
  filled from IMSLP. An earlier form of the property, which allowed only for the change
  itself, held with six inputs and was refuted with seven, after its proof had failed.

Four more ways for the editor to go wrong are left out of `SettledDraftIsSaved` and
`PublishedPdfMatchesManifest` by the history flag `spoiled`: a discard whose delete fails
has forgotten the unsaved changes (`prepare.component.ts:273`); the answer of "Reload
draft" that meets a save in flight shows the old content under the new revision; one that
arrives after a change made while it was on its way replaces that change (line 185), but
dirty and the timer stay, so that the old content is saved as if it were the change; and the
case of `PublicationFlushesFirst`. `detailsWithoutPDF` does not stop the autosave timer,
so a save may meet its delete and the departure asks about changes of a draft that is
gone.

## 5. Proofs

Every theorem is of the specification its run checks, for every value of the constants
that the module's assumption allows. The assumptions (`ConstantsAssumption`,
`ReaderAssumption`, `EditorAssumption`, `RowsAssumption`, `PageAssumption`,
`RenderAssumption`, `SearchAssumption`, `GateAssumption`, `ViewAssumption`,
`PreviewAssumption`) say what the constants are: finite sets where something is counted,
bounds that are natural numbers, names that differ from each other. Four theorems assume more than that and say so.

| Module | Theorems for the properties of the runs | Inductive invariant |
|---|---|---|
| `ScoreIntakeProofs` | `TypeOK`, `SourcesRetained`, `ReferencedObjectsExist`\*, `NoForgottenObject`\*, `ImplementsLifecycle`\*, `PublishConsumesDraft`, `PublishReplacesItsBase`, `PlaceBelongsToPdf`, `SourcesStayPrivate` | `IInv`, and one more part for each of the last three |
| `ReaderSessionProofs` | `PlaceSeenInCurrentPdf`, `SettledReaderIsSaved`\*, `LockOnlyForScore`, `LockForScore`; `SessionSpec => Spec` of the reader and of the lock; the parts of the two lock properties for `WakeLock` alone | `ReaderInv`, `LockInv`, `SessionInv` |
| `DraftEditorProofs` | `SettledDraftIsSaved`, `UnsavedChangeIsScheduled`, `NothingSentAfterDiscard`, `PublishedPdfMatchesManifest` | `EditorInv` |
| `LibraryViewProofs` | `LastChoiceIsStored`, `ReloadKeepsView`, `SearchStaysWithAccount`; `TypeOK` | `ViewInv` |
| `LibraryPageProofs` | `LatestStatusIsStored`, `RowsMatchServer`, `DetailsAreTheRowAskedFor`, `TokenShownOnce`, `DialogShowsTheToken` | `PageInv` |
| `PagePreviewProofs` | `PreviewShowsSelection`, `PublishedPagesAreTheManifest` | `PreviewInv`, `WorkerInv` |
| `ReaderRenderProofs` | `VisiblePageIsCurrent`, `PageModeSettles`, `ScrollModeSettles` | `RenderInv` |
| `ImslpProofs`, panel | `ResultsAnswerQuery`, `FilledTitleIsTheLinkedWorks`, `OneQuietRetry` | `AnswersInv`, `QuietInv`, `TitleInv` |
| `ImslpProofs`, gate | `ProbeIsHandedBack`, `SlotsAccounted`, `OutboundRateKept`; `TypeOK` | `GateInv` |

(\*) Under one more assumption: `~LateCommits` for the three about files, a single reader
for `SettledReaderIsSaved`. Section 4 has the counterexamples without them.

Hardly any of these properties is inductive as it stands. What each needs, and why:

**Intake: files.** `IInv` adds what the owner lock, the schema and the freshness of storage
keys give a transaction in flight: its draft is open and of its owner (`TxOK`); drafts and
pieces agree on their owner (`DraftsOK`); its key is on disk and known to nobody else, in
particular not to the queue or the cleanup job (`KeysOK`); the key the job is about to
delete is named by no row and cannot become so (`CleanupOK`); only live pieces have a PDF
(`PiecesOK`). Between the job's check and its delete only a commit can add a reference, a
commit adds only its own key, and that key is not in the job's hands. One lemma per part
(`RowsStep`, `StructStep`, `PiecesStep`, `FilesStep`, `SourcesStep`) goes through the
actions; lemmas such as `FilesSaved`, `FilesCommitted` and `CollectLosesNothing` say once
what several actions do to the files.

**Intake: the life of a file.** `ObjectLifecycle` has no tables, transactions or jobs: a key
is new, held by a request, wanted by a row, or garbage, and only garbage is erased. The
mapping `KeyUse` reads this off the rows and the transactions in flight. One lemma per
abstract step (`LifeSaves`, `LifeKeeps`, `LifeGivesUp`, `LifeReleases`, `LifeErases`) says
which concrete changes amount to it, and `LifeStep` goes through the actions with `IInv`:
the steps of the queue and of the cleanup job but its delete leave the abstract state alone.
`LifecycleKeepsFiles` is the abstract specification's own safety.

**Intake: publication.** `FinalizeImport` checks its piece before it saves the file and
publishes after, so the check must still hold at the commit. `BaseOK` says that a draft
whose base revision is its piece's has its piece's PDF as base; `TxBase` that nothing has
moved the piece of a publication in flight, which is what the owner lock is for. A place
belongs to the PDF because a write is refused for another checksum and a publication
resets the place (`PlaceFollowsPdf`); a key has one user because it is fresh when a
transaction saves it and is named only through drafts and pieces of that user
(`OneUser`, `KeysFresh`). None of these four needs `~LateCommits`.

**Wake lock.** `PendingIsLatest`: a request is awaited only if it is the latest and a lock
is wanted, so its answer is either accepted or refused for good.

**Reader.** A snapshot's checksum is no newer than the PDF its page was reached in
(`InOrder`), so that a save which the server accepts was reached in the present PDF; the
server's place is always of that PDF. A page that is not yet saved is in the snapshot that
waits, else in the one that was sent (`RowSettled`); the readers of a tab follow each other
(`Sequential`). `SessionImplementsReader` and `SessionImplementsLock` show that the
composition takes only steps of each part. Through the second one `LockInv`, which is proved
of the lock alone, holds in a session (`LockInSession`); with `StartedForScore`, which says
when the reader has started the lock, it gives the two lock properties.

**Editor.** What the editor has from the API, with its revision, is what the API had at that
revision (`Revisions`); content that nothing marks as unsaved is the present save's or the
one that came with the revision (`Contents`); an operation past its `persist()` finds no
save under way and nothing unsaved, unless the draft is spoiled (`Undisturbed`, also a
theorem, `OperationsFlushFirst`: `FlushedOperation` says it of an upload, a replacement and
a publication, up to the end of their requests, and of the content a publication is built
from). A change that no reload gave up is in the editor while something is unsaved or being
saved, in the save that was sent until it is answered, and in the draft's row otherwise
(`LatestKept`). `Undisturbed` needs that an operation awaits a save at most
once and that the save it began itself left nothing dirty (`SaveRoles`).

**Library view.** Whose view it is: what the tab and the session storage keep belongs to the
account that is signed in, or went with the session (`SearchInv`, `ShellInv`); after a
session that another one replaced unseen, this holds only once the session is read again,
so the invariant tells the shells apart. The save chain: every queued save is followed by
one of the same part whose value is still shown (`QueueOK`), so that skipping the others
(`NextSave`) never drops the one that counts, and a part that was chosen is queued, stored,
failed or written elsewhere (`ChoicesOK`). The address: a part nobody chose here shows what
it remembers, which is what the server keeps (`ReadInv`), and the address of a settled page
is the one its view writes (`AddressInv`); a part the address leaves out is then one that
the preferences bring back (`ParamsKeepView`).

**Library page.** The rows and the dialog share the page and nothing else, so the invariant
is kept half by half. For the rows: requests are known by their numbers, and one load and
one details read count (`Carried`); a row has one status save under way, and the last choice
queued is the latest (`SavesInOrder`); a row that two requests show at once is `crossed`
(`AloneOrCrossed`), so that for another row one request will show it and its answer is what
the server still holds (`ChoiceIsKept`, `RowsFollow`); nothing anywhere tells of a piece that
the server has not made (`NothingKnown`, `OneCreate`). For the dialog (`DialogInv`): one
read per visit, and a read that still counts when no write is under way tells the truth.

**Pages step: what is published.** What is prepared under a key shows that key, in the cache
and in the assembly's request (`CacheInv`, `RequestInv`), and the one answer the page may
still take is of its present request (`AnswerInv`), so that a background page is stored
under the key it was asked for. Evictions, undo and edits only take keys away.

**Pages step: what is shown.** At most one rendering is current; if it waits for the worker
the active request is its own; no background preparation is planned while it goes on, and
none goes on during a save (`TaskInv`). Unless a timer or `missed` says otherwise, the
current rendering is for the selected page as it is now, or, with none, its picture is shown
(`ViewInv`); a choice, an edit, a replacement that moves the selection and a reload that
brings another manifest each start the rendering that is due. The picture's URL is one still
held, apart from a `Revoked` one. With the worker's invariant and `AssemblyInv` (while the worker assembles,
`save` waits for it) each answer, decoding and drawing keeps this (`ReceiveStep`,
`DecodePhotoStep`, `DrawStep`).

**Drawing.** Page mode: between two frames, with no draw under way and none that failed, the
canvas shows what was asked for (`Canvas`). Scroll mode: a page's request waits for at most
one draw, its only active one (`OwnedDraw`); a page marked as rendered is not drawn into
any more (`MarkedPage`); a canvas emptied under its draw counts as lost (`CutDrawIsLost`).
`MarkedPagesAreDrawn` is the promise of section 4 with the exception the code has.

**Search panel.** A request that counts is the only one and asks for the query last sent,
which is the query in the field (`AnswersInv`); each quiet retry is paid for by the first
unavailable answer or by a throttled one, also when a stray timer fires (`QuietInv`).

**Gate.** `GateInv` is its types, its three properties and `IdleHoldsNoProbe`: a call that makes no
attempt has kept no probe.

Each of these invariants was checked by TLC on the instances of its run before it was
proved (`EditorInv`, for example, in 3 448 657 states).

Every invariant and action property of the passing runs is the subject of one of these
theorems. Only model-checked: `GarbageReclaimed`, `MovementsAreSavedByCheckpoint`,
`NearPageIsDrawn` and `SearchSettles`, which are liveness under fairness, out of the
prover's reach.

## 6. Not modelled

- Image processing, PDF building and edge detection in `processing.worker.ts` and
  `processing-algorithms.ts`: floating-point code over pixels, with tests of its own.
- Text folding, ranking and grouping (`search.ts`, `search.go`, `suggestions.go`,
  `library.utils.ts`): pure functions over large tables, covered by shared fixtures.
- HTTP decoding, configuration, metrics, migrations, gestures and layout.
- The composers and suggestions pages: forms over one request at a time.
- Server parts that are in the plan below: composers, export, accounts, the store's
  probe, the proxy's caches, the order of the deletion queue.

## 7. Plan

Modules still to write, in this order: the deletion queue's order and `collectOrphans`
statement by statement; the export limiter and its snapshot; the store's probe; composers;
accounts and tokens; manifest validation, page ranges and reader clamps against reference
definitions.
