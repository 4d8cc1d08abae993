---------------------------- MODULE PagePreview ----------------------------
(***************************************************************************)
(* The Pages step: the preview of the selected page, and the pages that    *)
(* are prepared for the score.  The component (prepare.component.ts), the  *)
(* processing worker with its client (prepare-processing.ts) and the       *)
(* renderer that decodes photos (prepare-rendering.ts) run on their own    *)
(* time.  A newer preview supersedes an older one by the preview revision, *)
(* by ending the worker, and by joining or replacing the photo's decoding. *)
(* Photos are prepared in the background into a cache, which the final     *)
(* assembly takes from.                                                    *)
(*                                                                         *)
(* Data: an edit is Plain, one the worker can preview on the decoded photo *)
(* (Quick), or one that needs the page built.  A picture or a prepared     *)
(* page is known by what it shows: [source, edit].  A rendering's revision *)
(* is only ever compared with the newest one, so a rendering holds whether *)
(* it is the newest (current); a worker is only compared with the present  *)
(* one, so an answer holds whether its worker still is (live).             *)
(* The order of the pages is left out: an index that has to name some page *)
(* may name any, and one that names no page is None.                       *)
(***************************************************************************)
EXTENDS Integers, Sequences, FiniteSets

CONSTANTS
    Pages, Photos, Edits, Plain, Quick, None,
    Opened,       \* the pages the draft opens with; uploads add others
    Drafts,       \* the manifests the API may answer a reload with
    MaxEntries,   \* prepared pages the cache keeps
    MaxHistory,   \* manifests undo() can return to
    MaxInputs,    \* what the user does
    MaxFaults     \* requests, drawings and builds that fail

ASSUME PreviewAssumption ==
    /\ Photos \subseteq Pages /\ Opened \in SUBSET Pages \ {{}} /\ Plain \in Edits /\ Quick \subseteq Edits \ {Plain}
    /\ \A m \in Drafts : DOMAIN m \subseteq Pages /\ \A p \in DOMAIN m : m[p] \in [version : Nat, edit : Edits]
    /\ MaxEntries \in Nat /\ MaxHistory \in Nat \ {0} /\ MaxInputs \in Nat /\ MaxFaults \in Nat

VARIABLES
    manifest,   \* the pages of the draft: which version of its source, which edit
    history,    \* the manifests undo() returns to
    selected, compare,
    op,         \* busy: the step an upload or save() waits in
    reloading,  \* load(): no, asked (it waits for the draft) or late (it came during an upload)
    timer,      \* previewTimer
    background, \* backgroundTimer: the rendering whose page it would prepare
    tasks,      \* renderPreview calls that wait for something
    active,     \* the worker client's active request
    answers,    \* what workers posted and the page has not received
    cache,      \* PreparedPageCache, a Map: what each key has, and the keys oldest first
    known,      \* preparedKeysByPage: its keys
    photo,      \* the renderer's display raster and its loads
    shown,      \* preview: what it shows, and the raster URL it shows it by
    missed,     \* history: something ended without a new preview where one was due
    built,      \* the pages assembled by the last save()
    destroyed, inputs, faults

view == <<manifest, history, selected, compare>>
vars == <<view, op, reloading, timer, background, tasks, active, answers, cache, known, photo,
          shown, missed, built, destroyed, inputs, faults>>

NoShow == [of |-> None, url |-> 0]

\* A raster's URL is a number from 1 on; this one was revoked before it was shown.
Revoked == -1

Source(m, p) == <<p, m[p].version>>
Key(m, p) == [source |-> Source(m, p), edit |-> m[p].edit]
PhotoKeys(m) == {Key(m, p) : p \in DOMAIN m \cap Photos}

Input == ~destroyed /\ inputs < MaxInputs /\ inputs' = inputs + 1 /\ UNCHANGED faults
Fault == faults < MaxFaults /\ faults' = faults + 1 /\ UNCHANGED inputs
Works == UNCHANGED <<inputs, faults>>

-----------------------------------------------------------------------------
\* PreparedPageCache: set forgets the key, adds it as the newest and evicts the oldest.
Empty == [order |-> <<>>, made |-> <<>>]
Cached(key) == key \in DOMAIN cache.made
Drop(order, keys) == SelectSeq(order, LAMBDA key : key \notin keys)
Without(keys) == [order |-> Drop(cache.order, keys),
                  made |-> [key \in DOMAIN cache.made \ keys |-> cache.made[key]]]
Stored(key, of) ==
    LET order == Append(Drop(cache.order, {key}), key)
        evicted == {order[i] : i \in 1..(Len(order) - MaxEntries)}
    IN [order |-> Drop(order, evicted),
        made |-> [k \in (DOMAIN cache.made \cup {key}) \ evicted |->
                    IF k = key THEN of ELSE cache.made[k]]]

\* reconcilePreparedKeys: what only the earlier pages used is forgotten.
Reconcile(m) == /\ known' = PhotoKeys(m)
                /\ cache' = Without(known \ PhotoKeys(m))

\* The worker client.  run() stops the active request, which ends its worker; so do
\* supersede(), cancel() and destroy().  An answer already posted by an ended worker
\* is still delivered.
Ended(as) == {[a EXCEPT !.live = FALSE] : a \in as}
Stop == active' = None /\ answers' = Ended(answers)
Run(request) == active' = request /\ answers' = IF active = None THEN answers ELSE Ended(answers)

\* Mutant: an answer of an ended worker is taken.
AcceptsAny(a) == active # None

\* receive(): only an answer of the present worker to the active request is taken.
Accepts(a) == a.live /\ active # None

\* releaseDisplayRaster: the load is aborted (it may be past its fetch and still end),
\* the held raster's URL is revoked.
Known(ph) == [ph EXCEPT !.of = [n \in ph.loads \cup ph.urls |-> @[n]]]
Release(ph) == Known([ph EXCEPT !.load = 0, !.held = 0, !.urls = @ \ {ph.held}])

\* keepDisplayRasterFor
KeepFor(ph, source) == IF ph.held # 0 /\ ph.of[ph.held] # source THEN Release(ph) ELSE ph

\* The draft's source objects are replaced: no load under way is for one of them.
Replaced(ph) == [ph EXCEPT !.fresh = {}]

Unused(ph) == CHOOSE n \in 1..(2 * MaxInputs + 2) : n \notin ph.loads \cup ph.urls \cup {shown.url}

-----------------------------------------------------------------------------
\* invalidatePreview ends the renderings that wait for the worker or draw a built
\* page; one that waits for a raster or a PDF canvas goes on and is told apart by
\* its revision.
Stale == {[t EXCEPT !.current = FALSE] : t \in {u \in tasks : u.stage \in {"raster", "canvas"}}}
Current(t) == t.current /\ ~destroyed
Newest == {t \in tasks : Current(t)}

Request(kind, t) == [stage |-> kind, page |-> t.page, key |-> t.key]
WorkerKind(t) == IF t.page \in Photos /\ t.key.edit \in Quick THEN "preview" ELSE "build"
Seen(t) == IF t.plain THEN [t.key EXCEPT !.edit = Plain] ELSE t.key

\* scheduleBackgroundPrepare, for a photo that is not prepared yet.
Schedule(t) == background' = IF t.page \in Photos /\ ~Cached(t.key)
                              THEN [page |-> t.page, key |-> t.key] ELSE None

\* The rest of renderPreview, once the photo is decoded or for a page of a PDF:
\* a plain photo is shown by its raster, a plain PDF page is drawn to a canvas,
\* anything else goes to the worker.
Proceed(t, rest, url) ==
    \/ /\ t.plain /\ t.page \in Photos
       /\ shown' = [of |-> Seen(t), url |-> url]
       /\ tasks' = rest /\ Schedule(t) /\ Stop
    \/ /\ t.plain /\ t.page \notin Photos
       /\ tasks' = rest \cup {[t EXCEPT !.stage = "canvas"]}
       /\ background' = None /\ Stop /\ UNCHANGED shown
    \/ /\ ~t.plain
       /\ tasks' = rest \cup {[t EXCEPT !.stage = "worker"]}
       /\ Run(Request(WorkerKind(t), t))
       /\ background' = None /\ UNCHANGED shown

\* renderPreview for the manifest and selection the action leaves, on the display
\* raster ph: the raster held, the load under way, or a new load.
Waits(t, n) == /\ tasks' = Stale \cup {[t EXCEPT !.load = n]}
               /\ background' = None /\ Stop /\ UNCHANGED shown
RenderPreview(ph) ==
    /\ timer' = FALSE /\ missed' = FALSE
    /\ IF selected' = None
       THEN shown' = NoShow /\ tasks' = Stale /\ background' = None /\ Stop /\ photo' = ph
       ELSE LET key == Key(manifest', selected')
                t == [page |-> selected', key |-> key, plain |-> compare' \/ key.edit = Plain,
                      current |-> TRUE, stage |-> "raster", load |-> 0, of |-> None,
                      upload |-> op = "landed" /\ op' = "drawing"]
            IN CASE selected' \notin Photos -> Proceed(t, Stale, 0) /\ photo' = ph
                 [] ph.held # 0 /\ ph.of[ph.held] = key.source ->
                      Proceed(t, Stale, ph.held) /\ photo' = ph
                 [] ph.load # 0 /\ ph.of[ph.load] = key.source -> Waits(t, ph.load) /\ photo' = ph
                 [] OTHER ->
                      LET n == Unused(ph)
                      IN /\ Waits(t, n)
                         /\ photo' = [Release(ph) EXCEPT
                              !.load = n, !.loads = @ \cup {n}, !.fresh = @ \cup {n},
                              !.of = [m \in DOMAIN @ \cup {n} |-> IF m = n THEN key.source ELSE @[m]]]

-----------------------------------------------------------------------------
Init ==
    /\ manifest = [p \in Opened |-> [version |-> 0, edit |-> Plain]] /\ selected \in Opened
    /\ history = <<>> /\ compare = FALSE /\ op = "none" /\ reloading = "no"
    /\ timer = TRUE    \* load() is about to render the preview
    /\ background = None /\ tasks = {} /\ active = None /\ answers = {}
    /\ cache = Empty /\ known = PhotoKeys(manifest)
    /\ photo = [held |-> 0, load |-> 0, loads |-> {}, urls |-> {}, fresh |-> {}, of |-> <<>>]
    /\ shown = NoShow /\ missed = FALSE /\ built = None
    /\ destroyed = FALSE /\ inputs = 0 /\ faults = 0

Idle == op = "none"
Saving == op \in {"persist", "build", "publish"}
Same == UNCHANGED <<op, reloading, built, destroyed>>

\* remember(): the oldest manifest gives way.
Remember ==
    LET all == Append(history, manifest)
    IN history' = IF Len(all) > MaxHistory THEN Tail(all) ELSE all

\* choose()
Choose(p) ==
    /\ Input /\ Idle /\ p \in DOMAIN manifest
    /\ selected' = p /\ UNCHANGED <<manifest, history, compare, cache, known>> /\ Same
    /\ RenderPreview(KeepFor(photo, Source(manifest, p)))

\* setCompare(), and beginEdges() and cancelEdges(), which show the original too
SetCompare ==
    /\ Input /\ Idle
    /\ compare' = ~compare /\ UNCHANGED <<manifest, history, selected, cache, known>> /\ Same
    /\ RenderPreview(photo)

\* The page that an index kept over another list of pages names: with no fewer pages an
\* index that named a page still does, one that named none may name one now.
Kept(m) == IF Cardinality(DOMAIN m) < Cardinality(DOMAIN manifest) \/ selected = None
           THEN DOMAIN m \cup {None} ELSE DOMAIN m

\* undo(), where an index beyond the end becomes the last; one before the start (of the
\* undo that left no page) stays.
Undo ==
    /\ Input /\ Idle /\ history # <<>>
    /\ LET m == history[Len(history)]
       IN /\ manifest' = m /\ history' = SubSeq(history, 1, Len(history) - 1)
          /\ selected' \in IF DOMAIN m = {} \/ selected = None THEN DOMAIN m \cup {None} ELSE DOMAIN m
          /\ Reconcile(m)
    /\ UNCHANGED compare /\ Same
    /\ RenderPreview(photo)

\* changed(): the preview is invalidated now and rendered after 250 ms.
Changed(m) ==
    /\ Input /\ Idle
    /\ Remember /\ manifest' = m
    /\ Reconcile(m)
    /\ tasks' = Stale /\ Stop /\ background' = None /\ timer' = TRUE
    /\ UNCHANGED <<photo, shown, missed>> /\ Same

\* change(), changeMargin(), changePaperStrength(), rotate(), resetPage(); and
\* applyEdges(), which ends comparing.
Edit(e) ==
    /\ selected # None /\ e # manifest[selected].edit
    /\ Changed([manifest EXCEPT ![selected].edit = e]) /\ UNCHANGED selected
    /\ compare' = compare \/ (compare /\ compare' = FALSE)

\* move(), remove() and keepSelected(): some of the pages, in some order.
Rearrange(rest) ==
    /\ Changed([p \in rest |-> manifest[p]]) /\ UNCHANGED compare
    /\ selected' \in IF rest = {} THEN {None} ELSE rest

\* resetAll(), which leaves the index alone, and useRange() over pages of the draft.
ResetAll(rest) ==
    /\ Changed([p \in rest |-> [manifest[p] EXCEPT !.edit = Plain]]) /\ UNCHANGED compare
    /\ selected' \in rest \/ (rest = DOMAIN manifest /\ UNCHANGED selected)

\* previewTimer; save() has cleared it.
PreviewTimer ==
    /\ timer /\ Works
    /\ UNCHANGED <<view, cache, known>> /\ Same
    /\ RenderPreview(photo)

\* load() for Reload draft: the whole manifest is the API's and the source objects are
\* new, whatever goes on by then; the index and the history stay.  renderPreview returns
\* early while save() is busy.
AskReload ==
    /\ Input /\ Idle /\ reloading = "no"
    /\ reloading' = "asked"
    /\ UNCHANGED <<view, op, timer, background, tasks, active, answers, cache, known, photo, shown,
                   missed, built, destroyed>>
Reload ==
    /\ reloading = "asked" /\ op # "done" /\ ~destroyed /\ Works
    /\ reloading' = IF op \in {"upload", "landed"} THEN "late" ELSE "no"
    /\ manifest' \in Drafts /\ selected' \in Kept(manifest')
    /\ UNCHANGED <<history, compare, op, built, destroyed>>
    /\ Reconcile(manifest')
    /\ IF Saving
       THEN /\ timer' = FALSE /\ missed' = TRUE /\ photo' = Replaced(photo)
            /\ UNCHANGED <<background, tasks, active, answers, shown>>
       ELSE RenderPreview(Replaced(photo))

-----------------------------------------------------------------------------
\* A photo's decoding ends.  Its owner revokes the raster when the selection is
\* another source object by now, or holds it (whatever was held before); then the
\* newest rendering goes on if it waits for this load, a stale one does not.  A
\* rendering that joined the load goes on with a raster its owner has revoked.
Waiting(n) == {t \in tasks : t.load = n /\ t.stage = "raster"}
Wanted(n) == ~destroyed /\ selected # None /\ n \in photo.fresh /\ photo.of[n] = Source(manifest, selected)
Loaded(n) == [photo EXCEPT !.loads = @ \ {n}, !.fresh = @ \ {n}, !.load = IF @ = n THEN 0 ELSE @]
DecodePhoto(n) ==
    /\ n \in photo.loads /\ Works
    /\ LET rest == tasks \ Waiting(n)
       IN /\ photo' = IF Wanted(n) THEN [Loaded(n) EXCEPT !.held = n, !.urls = @ \cup {n}] ELSE Known(Loaded(n))
          /\ IF Waiting(n) \cap Newest = {}
             THEN tasks' = rest /\ UNCHANGED <<background, active, answers, shown>>
             ELSE \E t \in Waiting(n) \cap Newest : Proceed(t, rest, IF Wanted(n) THEN n ELSE Revoked)
    /\ UNCHANGED <<view, timer, cache, known, missed>> /\ Same

\* The decoding fails or was aborted; the newest rendering reports it.
DecodeFails(n) ==
    /\ n \in photo.loads
    /\ IF n = photo.load THEN Fault ELSE Works
    /\ photo' = Known(Loaded(n)) /\ tasks' = tasks \ Waiting(n)
    /\ missed' = (missed \/ Waiting(n) \cap Newest # {})
    /\ UNCHANGED <<view, timer, background, active, answers, cache, known, shown>> /\ Same

\* A PDF page's canvas, or the built page, is drawn: shown if it is the newest.
Draw(t) ==
    /\ t \in tasks /\ t.stage \in {"canvas", "draw"}
    /\ Works /\ tasks' = tasks \ {t}
    /\ IF Current(t)
       THEN /\ shown' = [of |-> IF t.stage = "draw" THEN t.of ELSE Seen(t), url |-> 0]
            /\ IF t.stage = "draw" THEN Schedule(t) ELSE UNCHANGED background
       ELSE UNCHANGED <<shown, background>>
    /\ UNCHANGED <<view, timer, active, answers, cache, known, photo, missed>> /\ Same
DrawFails(t) ==
    /\ t \in tasks /\ t.stage \in {"canvas", "draw"}
    /\ Fault /\ tasks' = tasks \ {t} /\ missed' = (missed \/ Current(t))
    /\ UNCHANGED <<view, timer, background, active, answers, cache, known, photo, shown>> /\ Same

-----------------------------------------------------------------------------
\* prepareInBackground.  The timer was cleared if the preview was invalidated since.
BackgroundTimer ==
    /\ background # None /\ Works /\ background' = None
    /\ IF Idle /\ selected = background.page /\ Key(manifest, selected) = background.key
       THEN Run(Request("background", background))
       ELSE UNCHANGED <<active, answers>>
    /\ UNCHANGED <<view, timer, tasks, cache, known, photo, shown, missed>> /\ Same

\* The worker's build: a page whose prepared bytes came with the request is copied
\* from them, any other is made from its source and edit.
Assembled(request) ==
    [p \in DOMAIN request.pages |->
       LET key == request.pages[p]
       IN IF key \in DOMAIN request.prepared THEN request.prepared[key] ELSE key]
Made(request) == IF request.stage = "assemble"
                 THEN [live |-> TRUE, ok |-> TRUE, of |-> None, pages |-> Assembled(request)]
                 ELSE [live |-> TRUE, ok |-> TRUE, of |-> request.key, pages |-> None]
WorkerAnswers ==
    /\ active # None /\ ~\E a \in answers : a.live
    /\ \/ Works /\ answers' = answers \cup {Made(active)}
       \/ Fault /\ answers' = answers \cup {[Made(active) EXCEPT !.ok = FALSE]}
    /\ UNCHANGED <<view, timer, background, tasks, active, cache, known, photo, shown, missed>> /\ Same

\* What each caller of the worker does with its answer.
Asked == {t \in tasks : t.stage = "worker"}
Previewed(a) ==
    /\ tasks' = tasks \ Asked
    /\ IF a.ok /\ Asked \cap Newest # {}
       THEN shown' = [of |-> a.of, url |-> 0] /\ Schedule(active) /\ UNCHANGED missed
       ELSE UNCHANGED <<shown, background>> /\ missed' = (missed \/ Asked \cap Newest # {})
    /\ UNCHANGED <<op, built, cache>>
BuiltForPreview(a) ==
    /\ tasks' = (tasks \ Asked) \cup
                 {[t EXCEPT !.stage = "draw", !.of = a.of, !.load = 0] :
                    t \in IF a.ok THEN Asked \cap Newest ELSE {}}
    /\ missed' = (missed \/ (~a.ok /\ Asked \cap Newest # {}))
    /\ UNCHANGED <<shown, background, op, built, cache>>
\* Mutant: the page is kept under the key of the page now selected.
PreparedUnderPresentKey(a) ==
    /\ cache' = IF a.ok /\ selected \in Photos THEN Stored(Key(manifest, selected), a.of) ELSE cache
    /\ UNCHANGED <<tasks, shown, background, missed, op, built>>
Prepared(a) ==
    /\ cache' = IF a.ok /\ selected = active.page /\ Key(manifest, selected) = active.key
                THEN Stored(active.key, a.of) ELSE cache
    /\ UNCHANGED <<tasks, shown, background, missed, op, built>>
AssembledForSave(a) ==
    /\ IF a.ok THEN op' = "publish" /\ built' = [pages |-> active.pages, of |-> a.pages] ELSE op' = "none" /\ UNCHANGED built
    /\ UNCHANGED <<tasks, shown, background, missed, cache>>
Receive(a) ==
    /\ a \in answers /\ Accepts(a) /\ Works
    /\ answers' = answers \ {a} /\ active' = None
    /\ CASE active.stage = "preview" -> Previewed(a)
         [] active.stage = "build" -> BuiltForPreview(a)
         [] active.stage = "background" -> Prepared(a)
         [] active.stage = "assemble" -> AssembledForSave(a)
    /\ UNCHANGED <<view, reloading, timer, known, photo, destroyed>>
Ignore(a) ==
    /\ a \in answers /\ ~Accepts(a) /\ Works
    /\ answers' = answers \ {a}
    /\ UNCHANGED <<view, timer, background, tasks, active, cache, known, photo, shown, missed>> /\ Same

-----------------------------------------------------------------------------
\* upload(): a file becomes a new page, or replaces the selected page's source.
\* Its renderings go on meanwhile; a failure leaves what was added, and no preview.
Upload ==
    /\ Input /\ Idle /\ op' = "upload"
    /\ UNCHANGED <<view, reloading, timer, background, tasks, active, answers, cache, known, photo,
                   shown, missed, built, destroyed>>
Added(m, p) == [q \in DOMAIN m \cup {p} |-> IF q = p THEN [version |-> 0, edit |-> Plain] ELSE m[q]]
NewSource(m, p) == [m EXCEPT ![p] = [version |-> @.version + 1, edit |-> Plain]]
\* The answer is the draft that the file was sent for: one that a reload brought
\* meanwhile gives way to it.  The first page that was added is selected.
Receives(m) ==
    /\ Remember /\ manifest' = m
    /\ photo' = Replaced(photo) /\ missed' = TRUE
    /\ reloading' = IF reloading = "late" THEN "no" ELSE reloading
    /\ UNCHANGED <<compare, timer, background, tasks, active, answers, cache, known, shown, built,
                   destroyed>>
UploadLands ==
    /\ op \in {"upload", "landed"} /\ ~destroyed /\ Works
    /\ \E sent \in IF reloading = "late" THEN Drafts \cup {manifest} ELSE {manifest} :
         \/ /\ op' = "landed"
            /\ \E p \in Pages \ DOMAIN sent : Receives(Added(sent, p)) /\ selected' = p
         \/ /\ op = "upload" /\ op' = "replacing"
            /\ \E p \in IF reloading = "late" THEN DOMAIN sent ELSE DOMAIN sent \cap {selected} :
                 Receives(NewSource(sent, p))
            /\ selected' \in IF reloading = "late" THEN Kept(sent) ELSE {selected}
\* What is selected once the replacement is persisted: no page was added, so the index of
\* the first page that was is the last one's.
SelectedAfterReplacement == IF DOMAIN manifest = {} THEN {None} ELSE DOMAIN manifest
ReplacementSaved ==
    /\ op = "replacing" /\ ~destroyed /\ Works /\ op' = "landed"
    /\ selected' \in SelectedAfterReplacement
    /\ photo' = Release(photo) /\ Reconcile(manifest) /\ missed' = TRUE
    /\ UNCHANGED <<manifest, history, compare, reloading, timer, background, tasks, active, answers,
                   shown, built, destroyed>>
UploadDraws ==
    /\ op = "landed" /\ reloading # "late" /\ ~destroyed /\ Works /\ op' = "drawing"
    /\ UNCHANGED <<view, reloading, built, destroyed>>
    /\ Reconcile(manifest) /\ RenderPreview(photo)
\* The upload waits for its preview, or fails before it, or fails on a later file.
UploadReturns ==
    /\ \/ op = "drawing" /\ ~(\E t \in tasks : t.upload) /\ Works
       \/ op \in {"upload", "replacing", "landed"} /\ Fault
    /\ op' = "none" /\ reloading' = IF reloading = "late" THEN "no" ELSE reloading
    /\ UNCHANGED <<view, timer, background, tasks, active, answers, cache, known, photo,
                   shown, missed, built, destroyed>>

\* save(): the preview is invalidated, the manifest persisted, the pages assembled
\* from what is prepared, and published.  It never renders the preview again.
Save ==
    /\ Input /\ Idle /\ DOMAIN manifest # {} /\ op' = "persist"
    /\ missed' = (missed \/ timer \/ Newest # {})
    /\ tasks' = Stale /\ Stop /\ background' = None /\ timer' = FALSE
    /\ UNCHANGED <<view, reloading, cache, known, photo, shown, built, destroyed>>
Assemble ==
    /\ op = "persist" /\ ~destroyed /\ Works /\ op' = "build"
    /\ LET keys == PhotoKeys(manifest)
       IN /\ Run([stage |-> "assemble",
                  pages |-> [p \in DOMAIN manifest |-> Key(manifest, p)],
                  prepared |-> [key \in keys \cap DOMAIN cache.made |-> cache.made[key]]])
          /\ cache' = Without(keys)
    /\ UNCHANGED <<view, reloading, timer, background, tasks, known, photo, shown, missed, built, destroyed>>
Publish ==
    /\ op = "publish" /\ ~destroyed /\ Works /\ op' = "done"
    /\ UNCHANGED <<view, reloading, timer, background, tasks, active, answers, cache, known, photo,
                   shown, missed, built, destroyed>>
SaveFails ==
    /\ op \in {"persist", "publish"} /\ ~destroyed /\ Fault /\ op' = "none"
    /\ UNCHANGED <<view, reloading, timer, background, tasks, active, answers, cache, known, photo,
                   shown, missed, built, destroyed>>
\* cancel() while the score is assembled.
Cancel ==
    /\ Input /\ op = "build" /\ op' = "none" /\ Stop
    /\ UNCHANGED <<view, reloading, timer, background, tasks, cache, known, photo, shown, missed,
                   built, destroyed>>

\* ngOnDestroy.  What an upload or a save still does then changes nothing here.
Destroy ==
    /\ Input /\ destroyed' = TRUE /\ op' = "none"
    /\ tasks' = Stale /\ Stop /\ background' = None /\ timer' = FALSE
    /\ photo' = Release(photo) /\ cache' = Empty
    /\ UNCHANGED <<view, reloading, known, shown, missed, built>>

Next ==
    \/ \E p \in Pages : Choose(p)
    \/ SetCompare \/ Undo \/ (\E e \in Edits : Edit(e))
    \/ (\E rest \in SUBSET DOMAIN manifest : Rearrange(rest) \/ ResetAll(rest))
    \/ PreviewTimer \/ AskReload \/ Reload
    \/ (\E n \in photo.loads : DecodePhoto(n) \/ DecodeFails(n))
    \/ (\E t \in tasks : Draw(t) \/ DrawFails(t))
    \/ BackgroundTimer \/ WorkerAnswers \/ (\E a \in answers : Receive(a) \/ Ignore(a))
    \/ Upload \/ UploadLands \/ ReplacementSaved \/ UploadDraws \/ UploadReturns
    \/ Save \/ Assemble \/ Publish \/ SaveFails \/ Cancel \/ Destroy

Spec == Init /\ [][Next]_vars

-----------------------------------------------------------------------------
TypeOK ==
    /\ DOMAIN manifest \subseteq Pages /\ \A p \in DOMAIN manifest : manifest[p].edit \in Edits
    /\ selected \in DOMAIN manifest \cup {None}
    /\ op \in {"none", "upload", "replacing", "landed", "drawing", "persist", "build", "publish", "done"}
    /\ reloading \in {"no", "asked", "late"} /\ (reloading = "late" => op \in {"upload", "landed"} \/ destroyed)
    /\ {compare, timer, missed, destroyed} \subseteq BOOLEAN
    /\ Cardinality(Newest) <= 1 /\ Cardinality(Asked) <= 1
    /\ photo.load \in photo.loads \cup {0} /\ photo.held \in photo.urls \cup {0}
    /\ Len(cache.order) <= MaxEntries
    /\ inputs \in 0..MaxInputs /\ faults \in 0..MaxFaults

\* When nothing is under way the preview shows the selected page with its present
\* edit, or its original while comparing, and by a picture that is not revoked:
\* renderPreview's answers arrive in any order, from workers already ended and from
\* photos of pages left meanwhile, and only the newest may be shown.  Apart from what
\* missed records: a rendering that failed, an upload that failed after a page was
\* added, a reload during a save, a save that ended without a new preview.  And a plain
\* photo may be shown by a raster already Revoked, if its rendering joined a decoding
\* that began before the draft was replaced (ShownRasterIsKept).
PreviewShowsSelection ==
    Idle /\ ~timer /\ Newest = {} /\ ~missed /\ ~destroyed =>
        /\ shown.of = IF selected = None THEN None
                      ELSE [Key(manifest, selected) EXCEPT !.edit = IF compare THEN Plain ELSE @]
        /\ shown.url \notin {0, Revoked} => shown.url \in photo.urls

\* "The selected photo, decoded once at display size and kept until another page shows":
\* what the preview shows is never a raster that was revoked.
ShownRasterIsKept == shown.url # Revoked

\* The PDF that save() publishes holds, page by page, the source and edit of the
\* manifest it persisted, whether a page was prepared in the background, before or
\* after other edits, undo and replaced sources, or made by the assembly.
PublishedPagesAreTheManifest == built # None => built.of = built.pages

\* "It owns the object URLs and PDF.js documents it creates and releases them on
\* destroy": once the page is gone and no photo is being decoded, no URL is left.
RastersReleased == destroyed /\ photo.loads = {} => photo.urls = {}

=============================================================================
