------------------------- MODULE PagePreviewProofs -------------------------
(***************************************************************************)
(* The Pages step, for any pages, edits, uploads, undos and failures.      *)
(*                                                                         *)
(* WorkerInv is about the pages the worker makes: what is prepared under a *)
(* key shows that key, and the one answer the page may still take is the   *)
(* one to its present request.  PreviewInv is what the preview rests on:   *)
(* at most one rendering is current, the worker's request is its own if it *)
(* waits for the worker, and unless the view changed without a new         *)
(* rendering, it is of the selected page as that is now, or its picture is *)
(* shown.                                                                  *)
(***************************************************************************)
EXTENDS PagePreview, TLAPS

Kinds == {"preview", "build", "background", "assemble"}

\* What is prepared under a key shows that key, in the cache and in a request.
Shows(made) == \A key \in DOMAIN made : made[key] = key
CacheInv == Shows(cache.made)

RequestOK(request) ==
  /\ request.stage \in Kinds
  /\ request.stage = "assemble" =>
       /\ Shows(request.prepared)
       /\ request.pages = [p \in DOMAIN request.pages |-> request.pages[p]]
RequestInv == active # None => RequestOK(active)

\* The one answer that may be taken is of the present request.
AnswerFields == {"live", "ok", "of", "pages"}
AnswerInv ==
  /\ \A a \in answers : DOMAIN a = AnswerFields
  /\ \A a, b \in answers : a.live /\ b.live => a = b
  /\ \A a \in answers : a.live => /\ active # None
                                  /\ a.of = Made(active).of /\ a.pages = Made(active).pages

WorkerInv == CacheInv /\ RequestInv /\ AnswerInv /\ PublishedPagesAreTheManifest

\* A rendering that waits, as the steps copy and change it.
TaskFields == {"page", "key", "plain", "current", "stage", "load", "of", "upload"}
WellFormed(t) == /\ DOMAIN t = TaskFields
                 /\ t.stage \in {"raster", "canvas", "worker", "draw"}
                 /\ t.stage \in {"worker", "draw"} => ~t.plain
TasksInv == \A t \in tasks : WellFormed(t)

PhotoFields == {"held", "load", "loads", "urls", "fresh", "of"}
PhotoOK(ph) == DOMAIN ph = PhotoFields /\ (ph.held = 0 \/ ph.held \in ph.urls)
PhotoInv == PhotoOK(photo)

\* At most one rendering is current; if it waits for the worker, the worker's
\* request is its own; and no page is prepared in the background before it is shown.
CurrentOf(ts) == {t \in ts : t.current}
OneInv == \A t, u \in CurrentOf(tasks) : t = u
AskedInv == \A t \in CurrentOf(tasks) : t.stage = "worker" =>
              active.stage \in {"preview", "build"} /\ active.key = t.key
DrawnInv == \A t \in CurrentOf(tasks) : t.stage = "draw" => t.of = t.key
BackgroundInv == background # None => CurrentOf(tasks) = {}
SavingInv == Saving => CurrentOf(tasks) = {} /\ background = None /\ ~timer
TaskInv == TasksInv /\ OneInv /\ AskedInv /\ DrawnInv /\ BackgroundInv /\ SavingInv

\* What the preview is to show, and the rendering that will.
View(m, sel, cmp) ==
  IF sel = None THEN None ELSE [Key(m, sel) EXCEPT !.edit = IF cmp THEN Plain ELSE @]
Renders(t, m, sel, cmp) ==
  sel # None /\ t.key = Key(m, sel) /\ (t.plain <=> cmp \/ t.key.edit = Plain)
ShowsView == /\ shown.of = View(manifest, selected, compare)
             /\ shown.url \notin {0, Revoked} => shown.url \in photo.urls
ViewInv ==
  ~timer /\ ~missed /\ ~destroyed =>
    /\ CurrentOf(tasks) = {} => ShowsView
    /\ \A t \in CurrentOf(tasks) : Renders(t, manifest, selected, compare)

PreviewInv == TaskInv /\ PhotoInv /\ ViewInv

----------------------------------------------------------------------------
(***************************************************************************)
(* The pages the worker makes.                                             *)
(***************************************************************************)

\* A worker that ended has no answer that may be taken.
LEMMA EndedAnswers ==
  ASSUME NEW as, \A a \in as : DOMAIN a = AnswerFields
  PROVE  \A a \in Ended(as) : DOMAIN a = AnswerFields /\ ~a.live
BY DEF Ended, AnswerFields

LEMMA MadeAnswer ==
  ASSUME NEW request, NEW a, a = Made(request) \/ a = [Made(request) EXCEPT !.ok = FALSE]
  PROVE  DOMAIN a = AnswerFields /\ a.of = Made(request).of /\ a.pages = Made(request).pages
BY DEF Made, AnswerFields

\* Dropping keys, or keeping a page under the key it shows, keeps the cache true.
LEMMA WithoutShows == ASSUME CacheInv, NEW keys PROVE Shows(Without(keys).made)
BY DEF CacheInv, Shows, Without

LEMMA StoredShows == ASSUME CacheInv, NEW key PROVE Shows(Stored(key, key).made)
<1> DEFINE order == Append(Drop(cache.order, {key}), key)
           evicted == {order[i] : i \in 1..(Len(order) - MaxEntries)}
           made == [k \in (DOMAIN cache.made \cup {key}) \ evicted |->
                      IF k = key THEN key ELSE cache.made[k]]
<1>1. Stored(key, key).made = made
  BY DEF Stored
<1> HIDE DEF order, evicted
<1>2. Shows(made)
  BY DEF CacheInv, Shows
<1> QED
  BY <1>1, <1>2

\* An assembly is of the pages it was asked for.
LEMMA AssembledPages ==
  ASSUME NEW request, RequestOK(request), request.stage = "assemble"
  PROVE  Assembled(request) = request.pages
BY DEF RequestOK, Shows, Assembled

LEMMA RequestIsOK ==
  ASSUME NEW kind \in {"preview", "build", "background"}, NEW t
  PROVE  RequestOK(Request(kind, t)) /\ Request(kind, t).stage # "assemble"
BY DEF RequestOK, Request, Kinds

\* A step that ends requests or makes one for the preview, and leaves the answers alone.
Asks == \/ UNCHANGED <<active, answers>>
        \/ Stop
        \/ \E request : RequestOK(request) /\ request.stage # "assemble" /\ Run(request)

LEMMA ProceedAsks == ASSUME NEW t, NEW rest, NEW url, Proceed(t, rest, url) PROVE Asks
BY RequestIsOK DEF Proceed, WorkerKind, Asks

LEMMA RenderAsks == ASSUME NEW ph, RenderPreview(ph) PROVE Asks
<1> DEFINE t == [page |-> selected', key |-> Key(manifest', selected'),
                 plain |-> compare' \/ Key(manifest', selected').edit = Plain,
                 current |-> TRUE, stage |-> "raster", load |-> 0, of |-> None,
                 upload |-> op = "landed" /\ op' = "drawing"]
<1>1. Stop \/ Proceed(t, Stale, 0) \/ Proceed(t, Stale, ph.held)
  BY DEF RenderPreview, Waits
<1> HIDE DEF t
<1> QED
  BY <1>1, ProceedAsks DEF Asks

LEMMA RunKeeps ==
  ASSUME WorkerInv, NEW request, RequestOK(request), Run(request), Shows(cache'.made), built' = built
  PROVE  WorkerInv'
<1>1. active' = request
  BY DEF Run
<1>2. \A a \in answers' : DOMAIN a = AnswerFields /\ ~a.live
  BY EndedAnswers DEF Run, WorkerInv, AnswerInv
<1> QED
  BY <1>1, <1>2 DEF WorkerInv, CacheInv, RequestInv, AnswerInv, PublishedPagesAreTheManifest

LEMMA AsksKeeps ==
  ASSUME WorkerInv, Asks, Shows(cache'.made), built' = built
  PROVE  WorkerInv'
<1>1. CASE UNCHANGED <<active, answers>>
  BY <1>1 DEF WorkerInv, CacheInv, RequestInv, AnswerInv, PublishedPagesAreTheManifest,
              Made, Assembled
<1>2. CASE Stop
  <2>1. active' = None /\ \A a \in answers' : DOMAIN a = AnswerFields /\ ~a.live
    BY <1>2, EndedAnswers DEF Stop, WorkerInv, AnswerInv
  <2> QED
    BY <2>1 DEF WorkerInv, CacheInv, RequestInv, AnswerInv, PublishedPagesAreTheManifest
<1> QED
  BY <1>1, <1>2, RunKeeps DEF Asks

LEMMA AnswersKeep == ASSUME WorkerInv, WorkerAnswers PROVE WorkerInv'
<1>1. /\ active # None /\ ~\E a \in answers : a.live
      /\ UNCHANGED <<active, cache, built>>
  BY DEF WorkerAnswers, Same
<1>2. PICK new : /\ new = Made(active) \/ new = [Made(active) EXCEPT !.ok = FALSE]
                 /\ answers' = answers \cup {new}
  BY DEF WorkerAnswers
<1>3. DOMAIN new = AnswerFields /\ new.of = Made(active).of /\ new.pages = Made(active).pages
  BY <1>2, MadeAnswer
<1>4. Made(active)' = Made(active)
  BY <1>1 DEF Made, Assembled
<1>5. AnswerInv'
  BY <1>1, <1>2, <1>3, <1>4 DEF WorkerInv, AnswerInv
<1> QED
  BY <1>1, <1>5 DEF WorkerInv, CacheInv, RequestInv, PublishedPagesAreTheManifest

\* An answer that is taken is of the request it answers.
LEMMA ReceiveKeeps == ASSUME WorkerInv, NEW a \in answers, Receive(a) PROVE WorkerInv'
<1>1. /\ a.live /\ active # None /\ answers' = answers \ {a} /\ active' = None
  BY DEF Receive, Accepts
<1>2. /\ a.of = Made(active).of /\ a.pages = Made(active).pages /\ RequestOK(active)
      /\ \A b \in answers' : DOMAIN b = AnswerFields /\ ~b.live
  BY <1>1 DEF WorkerInv, AnswerInv, RequestInv
<1>3. /\ active.stage # "assemble" => a.of = active.key
      /\ active.stage = "assemble" => a.pages = active.pages
  BY <1>2, AssembledPages DEF Made
<1>4. Shows(cache'.made) /\ (built' = built \/ (built'.of = built'.pages))
  <2>1. CASE active.stage = "preview"
    BY <2>1 DEF Receive, Previewed, WorkerInv, CacheInv
  <2>2. CASE active.stage = "build"
    BY <2>2 DEF Receive, BuiltForPreview, WorkerInv, CacheInv
  <2>3. CASE active.stage = "background"
    <3>1. Prepared(a)
      BY <2>3 DEF Receive
    <3>2. built' = built /\ (cache' = cache \/ cache' = Stored(active.key, active.key))
      BY <1>3, <2>3, <3>1 DEF Prepared
    <3> QED
      BY <3>2, StoredShows DEF WorkerInv, CacheInv
  <2>4. CASE active.stage = "assemble"
    <3>1. AssembledForSave(a)
      BY <2>4 DEF Receive
    <3> QED
      BY <1>3, <2>4, <3>1 DEF AssembledForSave, WorkerInv, CacheInv
  <2> QED
    BY <1>2, <2>1, <2>2, <2>3, <2>4 DEF RequestOK, Kinds
<1> QED
  BY <1>1, <1>2, <1>4 DEF WorkerInv, CacheInv, RequestInv, AnswerInv, PublishedPagesAreTheManifest

LEMMA IgnoreKeeps == ASSUME WorkerInv, NEW a \in answers, Ignore(a) PROVE WorkerInv'
<1>1. answers' \subseteq answers /\ UNCHANGED <<active, cache, built>>
  BY DEF Ignore, Same
<1>2. Made(active)' = Made(active)
  BY <1>1 DEF Made, Assembled
<1> QED
  BY <1>1, <1>2
  DEF WorkerInv, CacheInv, RequestInv, AnswerInv, PublishedPagesAreTheManifest

\* save() hands the prepared pages over with the manifest.
LEMMA AssembleKeeps == ASSUME WorkerInv, Assemble PROVE WorkerInv'
<1> DEFINE keys == PhotoKeys(manifest)
           pages == [p \in DOMAIN manifest |-> Key(manifest, p)]
           prepared == [key \in keys \cap DOMAIN cache.made |-> cache.made[key]]
           request == [stage |-> "assemble", pages |-> pages, prepared |-> prepared]
<1>1. Run(request) /\ cache' = Without(keys) /\ built' = built
  BY DEF Assemble
<1>2. Shows(prepared)
  <2> HIDE DEF keys
  <2> QED
    BY DEF WorkerInv, CacheInv, Shows
<1>3. pages = [p \in DOMAIN pages |-> pages[p]]
  OBVIOUS
<1> HIDE DEF keys, pages, prepared
<1>4. RequestOK(request)
  BY <1>2, <1>3 DEF RequestOK, Kinds
<1> HIDE DEF request
<1> QED
  BY <1>1, <1>4, WithoutShows, RunKeeps DEF WorkerInv

\* Every other step.
Quiet ==
  \/ \E p \in Pages : Choose(p)
  \/ SetCompare \/ Undo \/ (\E e \in Edits : Edit(e))
  \/ (\E rest \in SUBSET DOMAIN manifest : Rearrange(rest) \/ ResetAll(rest))
  \/ PreviewTimer \/ AskReload \/ Reload
  \/ (\E n \in photo.loads : DecodePhoto(n) \/ DecodeFails(n))
  \/ (\E t \in tasks : Draw(t) \/ DrawFails(t))
  \/ BackgroundTimer
  \/ Upload \/ UploadLands \/ ReplacementSaved \/ UploadDraws \/ UploadReturns
  \/ Save \/ Publish \/ SaveFails \/ Cancel \/ Destroy

LEMMA QuietCache ==
  Quiet => /\ cache' = cache \/ cache' = Empty \/ \E keys : cache' = Without(keys)
           /\ built' = built
<1> SUFFICES ASSUME Quiet
             PROVE  /\ cache' = cache \/ cache' = Empty \/ \E keys : cache' = Without(keys)
                    /\ built' = built
  OBVIOUS
<1> USE DEF Reconcile, Same
<1>1. CASE (\E p \in Pages : Choose(p)) \/ SetCompare \/ Undo \/ PreviewTimer \/ AskReload
  BY <1>1 DEF Choose, SetCompare, Undo, PreviewTimer, AskReload
<1>2. CASE \/ (\E e \in Edits : Edit(e))
           \/ (\E rest \in SUBSET DOMAIN manifest : Rearrange(rest) \/ ResetAll(rest))
  BY <1>2 DEF Edit, Rearrange, ResetAll, Changed
<1>3. CASE Reload \/ BackgroundTimer
  BY <1>3 DEF Reload, BackgroundTimer
<1>4. CASE \/ (\E n \in photo.loads : DecodePhoto(n) \/ DecodeFails(n))
           \/ (\E t \in tasks : Draw(t) \/ DrawFails(t))
  BY <1>4 DEF DecodePhoto, DecodeFails, Draw, DrawFails
<1>5. CASE Upload \/ UploadLands \/ ReplacementSaved \/ UploadDraws \/ UploadReturns
  BY <1>5 DEF Upload, UploadLands, Receives, ReplacementSaved, UploadDraws, UploadReturns
<1>6. CASE Save \/ Publish \/ SaveFails \/ Cancel \/ Destroy
  BY <1>6 DEF Save, Publish, SaveFails, Cancel, Destroy
<1> QED
  BY <1>1, <1>2, <1>3, <1>4, <1>5, <1>6 DEF Quiet

LEMMA QuietAsks == Quiet => Asks
<1> SUFFICES ASSUME Quiet PROVE Asks
  OBVIOUS
<1>1. CASE \/ (\E p \in Pages : Choose(p)) \/ SetCompare \/ Undo \/ PreviewTimer \/ UploadDraws
  BY <1>1, RenderAsks DEF Choose, SetCompare, Undo, PreviewTimer, UploadDraws
<1>2. CASE \/ (\E e \in Edits : Edit(e)) \/ Save \/ Cancel \/ Destroy
           \/ (\E rest \in SUBSET DOMAIN manifest : Rearrange(rest) \/ ResetAll(rest))
  BY <1>2 DEF Edit, Rearrange, ResetAll, Changed, Save, Cancel, Destroy, Asks
<1>3. CASE Reload
  <2>1. UNCHANGED <<active, answers>> \/ RenderPreview(Replaced(photo))
    BY <1>3 DEF Reload
  <2> QED
    BY <2>1, RenderAsks DEF Asks
<1>4. CASE \E n \in photo.loads : DecodePhoto(n) \/ DecodeFails(n)
  <2> PICK n \in photo.loads : DecodePhoto(n) \/ DecodeFails(n)
    BY <1>4
  <2>1. CASE DecodeFails(n)
    BY <2>1 DEF DecodeFails, Asks
  <2>2. CASE DecodePhoto(n)
    <3>1. UNCHANGED <<active, answers>> \/ \E t, url : Proceed(t, tasks \ Waiting(n), url)
      BY <2>2 DEF DecodePhoto
    <3> QED
      BY <3>1, ProceedAsks DEF Asks
  <2> QED
    BY <2>1, <2>2
<1>5. CASE BackgroundTimer
  BY <1>5, RequestIsOK DEF BackgroundTimer, Asks
<1>6. CASE \/ AskReload \/ (\E t \in tasks : Draw(t) \/ DrawFails(t))
           \/ Upload \/ UploadLands \/ ReplacementSaved \/ UploadReturns \/ Publish \/ SaveFails
  BY <1>6 DEF AskReload, Draw, DrawFails, Upload, UploadLands, Receives, ReplacementSaved,
              UploadReturns, Publish, SaveFails, Asks
<1> QED
  BY <1>1, <1>2, <1>3, <1>4, <1>5, <1>6 DEF Quiet

LEMMA QuietKeeps == ASSUME WorkerInv, Quiet PROVE WorkerInv'
<1>1. Shows(Empty.made)
  BY DEF Shows, Empty
<1>2. Shows(cache.made)
  BY DEF WorkerInv, CacheInv
<1>3. Shows(cache'.made)
  BY <1>1, <1>2, QuietCache, WithoutShows DEF WorkerInv
<1> QED
  BY <1>3, QuietCache, QuietAsks, AsksKeeps

LEMMA WorkerStep == WorkerInv /\ [Next]_vars => WorkerInv'
<1> SUFFICES ASSUME WorkerInv, [Next]_vars PROVE WorkerInv'
  OBVIOUS
<1>1. CASE UNCHANGED vars
  <2>1. UNCHANGED <<cache, active, answers, built>>
    BY <1>1 DEF vars
  <2> QED
    BY <2>1, AsksKeeps DEF Asks, WorkerInv, CacheInv
<1>2. CASE Next
  <2>1. Quiet \/ WorkerAnswers \/ Assemble \/ \E a \in answers : Receive(a) \/ Ignore(a)
    BY <1>2 DEF Next, Quiet
  <2> QED
    BY <2>1, QuietKeeps, AnswersKeep, AssembleKeeps, ReceiveKeeps, IgnoreKeeps
<1> QED
  BY <1>1, <1>2

LEMMA InitWorker == Init => WorkerInv
BY DEF Init, WorkerInv, CacheInv, Shows, Empty, RequestInv, AnswerInv, PublishedPagesAreTheManifest

\* What the worker is asked, answers and prepares, for any pages, edits and cache size: the
\* invariant the next theorem rests on.
THEOREM WorkerInvariant == Spec => []WorkerInv
BY InitWorker, WorkerStep, PTL DEF Spec

\* The PDF that save() publishes holds, page by page, the source and edit of the manifest it
\* persisted, whether a page was prepared in the background, before or after other edits, undo
\* and replaced sources, or made by the assembly (PreparedPageCache, reconcilePreparedKeys, build).
THEOREM PublishedPagesAreThose == Spec => []PublishedPagesAreTheManifest
<1>1. WorkerInv => PublishedPagesAreTheManifest
  BY DEF WorkerInv
<1> QED
  BY <1>1, WorkerInvariant, PTL

----------------------------------------------------------------------------
(***************************************************************************)
(* The renderings.                                                         *)
(***************************************************************************)

LEMMA EndedTask ==
  ASSUME NEW t, WellFormed(t), NEW u, u = [t EXCEPT !.current = FALSE]
  PROVE  WellFormed(u) /\ ~u.current
BY DEF WellFormed, TaskFields

LEMMA StageTask ==
  ASSUME NEW t, WellFormed(t), NEW stage \in {"canvas", "worker"}, stage = "worker" => ~t.plain,
         NEW u, u = [t EXCEPT !.stage = stage]
  PROVE  /\ WellFormed(u) /\ u.key = t.key /\ u.plain = t.plain /\ u.stage = stage
         /\ t.current => u.current
BY DEF WellFormed, TaskFields

LEMMA LoadTask ==
  ASSUME NEW t, WellFormed(t), NEW n, NEW u, u = [t EXCEPT !.load = n]
  PROVE  /\ WellFormed(u) /\ u.key = t.key /\ u.plain = t.plain /\ u.stage = t.stage
         /\ t.current => u.current
BY DEF WellFormed, TaskFields

Drawn(t, of) == [t EXCEPT !.stage = "draw", !.of = of, !.load = 0]
LEMMA DrawTask ==
  ASSUME NEW t, WellFormed(t), ~t.plain, NEW of
  PROVE  /\ WellFormed(Drawn(t, of)) /\ Drawn(t, of).key = t.key /\ Drawn(t, of).plain = t.plain
         /\ Drawn(t, of).stage = "draw" /\ Drawn(t, of).of = of
         /\ t.current => Drawn(t, of).current
BY DEF WellFormed, TaskFields, Drawn

\* Renderings that are well formed and no longer current.
Over(ts) == \A t \in ts : WellFormed(t) /\ ~t.current

LEMMA StaleOver == ASSUME TasksInv PROVE Over(Stale)
BY EndedTask DEF TasksInv, Stale, Over

\* The picture of a rendering is the one its view wants.
LEMMA SeenIsView ==
  ASSUME NEW t, NEW m, NEW sel, NEW cmp, Renders(t, m, sel, cmp)
  PROVE  Seen(t) = View(m, sel, cmp)
<1>1. sel # None /\ t.key = Key(m, sel) /\ (t.plain <=> cmp \/ t.key.edit = Plain)
  BY DEF Renders
<1>2. t.key = [source |-> Source(m, sel), edit |-> m[sel].edit]
  BY <1>1 DEF Key
<1>3. CASE t.plain
  <2>1. Seen(t) = [t.key EXCEPT !.edit = Plain]
    BY <1>3 DEF Seen
  <2>2. View(m, sel, cmp) = [t.key EXCEPT !.edit = Plain]
    BY <1>1, <1>3 DEF View
  <2> QED
    BY <2>1, <2>2
<1>4. CASE ~t.plain
  <2>1. View(m, sel, cmp) = [t.key EXCEPT !.edit = t.key.edit]
    BY <1>1, <1>4 DEF View
  <2>2. [t.key EXCEPT !.edit = t.key.edit] = t.key
    BY <1>2
  <2> QED
    BY <1>4, <2>1, <2>2 DEF Seen
<1> QED
  BY <1>3, <1>4

\* The rendering t ends with its picture, or goes on to wait for a canvas or the worker.
LEMMA ProceedTasks ==
  ASSUME NEW t, WellFormed(t), t.current, NEW rest, Over(rest), NEW url, Proceed(t, rest, url)
  PROVE  \/ /\ Over(tasks') /\ shown' = [of |-> Seen(t), url |-> url] /\ t.page \in Photos
         \/ /\ background' = None
            /\ \E u : /\ WellFormed(u) /\ u.key = t.key /\ u.plain = t.plain /\ u.current
                      /\ tasks' = rest \cup {u} /\ u.stage \in {"canvas", "worker"}
                      /\ u.stage = "worker" =>
                           /\ active' = Request(WorkerKind(t), t)
<1>1. CASE t.plain /\ t.page \in Photos
  BY <1>1 DEF Proceed
<1>2. CASE t.plain /\ t.page \notin Photos
  <2> DEFINE u == [t EXCEPT !.stage = "canvas"]
  <2>1. tasks' = rest \cup {u} /\ background' = None
    BY <1>2 DEF Proceed
  <2>2. WellFormed(u) /\ u.key = t.key /\ u.plain = t.plain /\ u.stage = "canvas" /\ u.current
    BY StageTask
  <2> HIDE DEF u
  <2> QED
    BY <2>1, <2>2
<1>3. CASE ~t.plain
  <2> DEFINE u == [t EXCEPT !.stage = "worker"]
  <2>1. tasks' = rest \cup {u} /\ background' = None /\ active' = Request(WorkerKind(t), t)
    BY <1>3 DEF Proceed, Run
  <2>2. WellFormed(u) /\ u.key = t.key /\ u.plain = t.plain /\ u.stage = "worker" /\ u.current
    BY <1>3, StageTask
  <2> HIDE DEF u
  <2> QED
    BY <2>1, <2>2
<1> QED
  BY <1>1, <1>2, <1>3

\* What holds after a step that leaves no rendering current, or the one task u.
LEMMA NoneCurrent ==
  ASSUME Over(tasks'), Saving' => background' = None /\ ~timer',
         ~timer' /\ ~missed' /\ ~destroyed' => ShowsView'
  PROVE  TaskInv' /\ ViewInv'
<1>1. CurrentOf(tasks') = {}
  BY DEF Over, CurrentOf
<1> QED
  BY <1>1 DEF Over, TaskInv, TasksInv, OneInv, AskedInv, DrawnInv, BackgroundInv, SavingInv, ViewInv

LEMMA SomeCurrent ==
  ASSUME NEW rest, Over(rest), NEW u, WellFormed(u), tasks' = rest \cup {u}, background' = None,
         ~Saving', u.stage = "draw" => u.of = u.key,
         u.stage = "worker" =>
           active'.stage \in {"preview", "build"} /\ active'.key = u.key,
         u.current, ~timer' /\ ~missed' /\ ~destroyed' => Renders(u, manifest', selected', compare')
  PROVE  TaskInv' /\ ViewInv'
<1>1. CurrentOf(tasks') = {u} /\ \A t \in tasks' : WellFormed(t)
  BY DEF Over, CurrentOf
<1>2. TaskInv'
  BY <1>1 DEF TaskInv, TasksInv, OneInv, AskedInv, DrawnInv, BackgroundInv, SavingInv
<1>3. ViewInv'
  BY <1>1 DEF ViewInv
<1> QED
  BY <1>2, <1>3

\* renderPreview for the page t is made for, with the raster the action leaves.
LEMMA ProceedKeeps ==
  ASSUME NEW t, WellFormed(t), t.current, NEW rest, Over(rest), NEW url, Proceed(t, rest, url),
         ~Saving', url \notin {0, Revoked} => url \in photo'.urls,
         ~timer' /\ ~missed' /\ ~destroyed' => Renders(t, manifest', selected', compare')
  PROVE  TaskInv' /\ ViewInv'
<1>1. CASE Over(tasks') /\ shown' = [of |-> Seen(t), url |-> url]
  <2>1. ~timer' /\ ~missed' /\ ~destroyed' => ShowsView'
    BY <1>1, SeenIsView DEF ShowsView
  <2> QED
    BY <1>1, <2>1, NoneCurrent
<1>2. ASSUME background' = None, NEW u, WellFormed(u), u.key = t.key, u.plain = t.plain, u.current,
             tasks' = rest \cup {u}, u.stage \in {"canvas", "worker"},
             u.stage = "worker" => active' = Request(WorkerKind(t), t)
      PROVE  TaskInv' /\ ViewInv'
  <2>1. u.stage = "worker" => active'.stage \in {"preview", "build"} /\ active'.key = u.key
    BY <1>2 DEF Request, WorkerKind
  <2>2. ~timer' /\ ~missed' /\ ~destroyed' => Renders(u, manifest', selected', compare')
    BY <1>2 DEF Renders
  <2> QED
    BY <1>2, <2>1, <2>2, SomeCurrent
<1> QED
  BY <1>1, <1>2, ProceedTasks

LEMMA ReleasedPhoto ==
  ASSUME NEW ph, PhotoOK(ph)
  PROVE  PhotoOK(Release(ph)) /\ Release(ph).held = 0
BY DEF PhotoOK, PhotoFields, Release, Known

LEMMA LoadingPhoto ==
  ASSUME NEW ph, PhotoOK(ph), ph.held = 0, NEW n, NEW of, NEW new,
         new = [ph EXCEPT !.load = n, !.loads = @ \cup {n}, !.fresh = @ \cup {n}, !.of = of]
  PROVE  PhotoOK(new)
BY DEF PhotoOK, PhotoFields

LEMMA RenderStep ==
  ASSUME TaskInv, NEW ph, PhotoOK(ph), RenderPreview(ph), ~Saving'
  PROVE  TaskInv' /\ ViewInv' /\ PhotoInv'
<1>1. Over(Stale)
  BY StaleOver DEF TaskInv
<1>2. CASE selected' = None
  <2>1. shown' = NoShow /\ tasks' = Stale /\ background' = None /\ photo' = ph
    BY <1>2 DEF RenderPreview
  <2>2. ShowsView'
    BY <1>2, <2>1 DEF ShowsView, View, NoShow
  <2> QED
    BY <1>1, <2>1, <2>2, NoneCurrent DEF PhotoInv
<1>3. CASE selected' # None
  <2> DEFINE key == Key(manifest', selected')
  <2>1. PICK t : t = [page |-> selected', key |-> key, plain |-> compare' \/ key.edit = Plain,
                      current |-> TRUE, stage |-> "raster", load |-> 0, of |-> None,
                      upload |-> op = "landed" /\ op' = "drawing"]
    OBVIOUS
  <2>2. WellFormed(t) /\ t.current /\ t.stage = "raster"
    BY <2>1 DEF WellFormed, TaskFields
  <2>3. Renders(t, manifest', selected', compare')
    BY <1>3, <2>1 DEF Renders
  <2>4. \/ (Proceed(t, Stale, 0) \/ (Proceed(t, Stale, ph.held) /\ ph.held # 0)) /\ photo' = ph
        \/ Waits(t, ph.load) /\ photo' = ph
        \/ LET n == Unused(ph)
           IN /\ Waits(t, n)
              /\ photo' = [Release(ph) EXCEPT
                   !.load = n, !.loads = @ \cup {n}, !.fresh = @ \cup {n},
                   !.of = [m \in DOMAIN @ \cup {n} |-> IF m = n THEN key.source ELSE @[m]]]
    BY <1>3, <2>1 DEF RenderPreview
  <2> HIDE DEF key
  <2>5. CASE (Proceed(t, Stale, 0) \/ (Proceed(t, Stale, ph.held) /\ ph.held # 0)) /\ photo' = ph
    <3>1. PhotoInv'
      BY <2>5 DEF PhotoInv
    <3>2. ph.held # 0 => ph.held \in photo'.urls
      BY <2>5 DEF PhotoOK
    <3> QED
      BY <1>1, <2>2, <2>3, <2>5, <3>1, <3>2, ProceedKeeps
  <2>6. ASSUME NEW n, Waits(t, n) PROVE TaskInv' /\ ViewInv'
    <3> DEFINE u == [t EXCEPT !.load = n]
    <3>1. tasks' = Stale \cup {u} /\ background' = None
      BY <2>6 DEF Waits
    <3>2. WellFormed(u) /\ u.key = t.key /\ u.plain = t.plain /\ u.stage = "raster" /\ u.current
      BY <2>2, LoadTask
    <3> HIDE DEF u
    <3>3. Renders(u, manifest', selected', compare')
      BY <2>3, <3>2 DEF Renders
    <3> QED
      BY <1>1, <3>1, <3>2, <3>3, SomeCurrent
  <2>7. CASE Waits(t, ph.load) /\ photo' = ph
    BY <2>6, <2>7 DEF PhotoInv
  <2>8. ASSUME NEW n, NEW of, Waits(t, n),
               photo' = [Release(ph) EXCEPT
                   !.load = n, !.loads = @ \cup {n}, !.fresh = @ \cup {n}, !.of = of]
        PROVE  TaskInv' /\ ViewInv' /\ PhotoInv'
    <3>1. PhotoInv'
      BY <2>8, ReleasedPhoto, LoadingPhoto DEF PhotoInv
    <3> QED
      BY <2>6, <2>8, <3>1
  <2> QED
    BY <2>4, <2>5, <2>7, <2>8
<1> QED
  BY <1>2, <1>3

----------------------------------------------------------------------------
(***************************************************************************)
(* The steps.                                                              *)
(***************************************************************************)

\* The steps that render the preview.
LEMMA RenderingSteps ==
  ASSUME PreviewInv,
         \/ (\E p \in Pages : Choose(p)) \/ SetCompare \/ Undo \/ PreviewTimer \/ UploadDraws
         \/ (Reload /\ ~Saving)
  PROVE  PreviewInv'
<1>1. PhotoOK(photo) /\ TaskInv
  BY DEF PreviewInv, PhotoInv
<1>2. PhotoOK(Replaced(photo)) /\ \A source : PhotoOK(KeepFor(photo, source))
  BY <1>1, ReleasedPhoto DEF Replaced, KeepFor, PhotoOK, PhotoFields
<1>3. PICK ph : PhotoOK(ph) /\ RenderPreview(ph)
  <2>1. CASE \E p \in Pages : Choose(p)
    BY <1>2, <2>1 DEF Choose
  <2>2. CASE SetCompare \/ Undo \/ PreviewTimer \/ UploadDraws
    BY <1>1, <2>2 DEF SetCompare, Undo, PreviewTimer, UploadDraws
  <2>3. CASE Reload /\ ~Saving
    BY <1>2, <2>3 DEF Reload
  <2> QED
    BY <2>1, <2>2, <2>3
<1>4. op' \notin {"persist", "build", "publish"}
  <2>1. CASE \/ (\E p \in Pages : Choose(p)) \/ SetCompare \/ Undo
    BY <2>1 DEF Choose, SetCompare, Undo, Idle, Same, Saving
  <2>2. CASE PreviewTimer
    BY <1>1, <2>2 DEF PreviewTimer, Same, TaskInv, SavingInv, Saving
  <2>3. CASE UploadDraws \/ (Reload /\ ~Saving)
    BY <2>3 DEF UploadDraws, Reload, Saving
  <2> QED
    BY <2>1, <2>2, <2>3
<1>5. ~Saving'
  BY <1>4 DEF Saving
<1> QED
  BY <1>1, <1>3, <1>5, RenderStep DEF PreviewInv

\* The steps that end every rendering.
LEMMA EndingSteps ==
  ASSUME PreviewInv, (\E m : Changed(m)) \/ Save \/ Destroy
  PROVE  PreviewInv'
<1>1. Over(tasks') /\ background' = None
  BY StaleOver DEF PreviewInv, TaskInv, Changed, Save, Destroy
<1>2. PhotoInv'
  BY ReleasedPhoto DEF PreviewInv, PhotoInv, Changed, Save, Destroy
<1>3. Saving' => background' = None /\ ~timer'
  BY DEF Changed, Save, Destroy, Same, Idle, Saving
<1>4. ~timer' /\ ~missed' /\ ~destroyed' => ShowsView'
  <2> SUFFICES ASSUME ~timer', ~missed', ~destroyed' PROVE ShowsView'
    OBVIOUS
  <2>1. CASE Save
    <3>1. ~timer /\ ~missed /\ ~destroyed /\ Newest = {} /\ UNCHANGED <<view, shown, photo>>
      BY <2>1 DEF Save
    <3>2. CurrentOf(tasks) = {}
      BY <3>1 DEF Newest, Current, CurrentOf
    <3>3. ShowsView
      BY <3>1, <3>2 DEF PreviewInv, ViewInv
    <3> QED
      BY <3>1, <3>3 DEF ShowsView, View, Key, Source, view
  <2>2. ASSUME NEW m, Changed(m) PROVE ShowsView'
    BY <2>2 DEF Changed
  <2>3. CASE Destroy
    BY <2>3 DEF Destroy
  <2> QED
    BY <2>1, <2>2, <2>3
<1> QED
  BY <1>1, <1>2, <1>3, <1>4, NoneCurrent DEF PreviewInv

\* Steps that leave the renderings and their requests alone.
LEMMA RestKeeps ==
  ASSUME PreviewInv, PhotoInv', UNCHANGED <<tasks, background>>,
         UNCHANGED active \/ CurrentOf(tasks) = {}, Saving' => Saving, timer' => timer,
         \/ missed' \/ destroyed'
         \/ UNCHANGED <<view, shown, timer, missed, destroyed>> /\ photo'.urls = photo.urls
  PROVE  PreviewInv'
<1>1. TaskInv'
  BY DEF PreviewInv, TaskInv, TasksInv, OneInv, AskedInv, DrawnInv, BackgroundInv, SavingInv
<1>2. ViewInv'
  BY DEF PreviewInv, ViewInv, ShowsView, View, Renders, Key, Source, view
<1> QED
  BY <1>1, <1>2 DEF PreviewInv

LEMMA SavingNone == ASSUME PreviewInv, Saving PROVE CurrentOf(tasks) = {}
BY DEF PreviewInv, TaskInv, SavingInv

LEMMA RestSteps ==
  ASSUME PreviewInv,
         \/ AskReload \/ Upload \/ UploadLands \/ ReplacementSaved \/ UploadReturns
         \/ Assemble \/ Publish \/ SaveFails \/ Cancel \/ (Reload /\ Saving)
         \/ WorkerAnswers \/ \E a \in answers : Ignore(a)
  PROVE  PreviewInv'
<1>1. PhotoOK(photo) /\ PhotoOK(Release(photo)) /\ PhotoOK(Replaced(photo))
  BY ReleasedPhoto DEF PreviewInv, PhotoInv, Replaced, PhotoOK, PhotoFields
<1>2. CASE AskReload \/ Upload \/ UploadReturns \/ Publish \/ SaveFails
  BY <1>1, <1>2, RestKeeps DEF AskReload, Upload, UploadReturns, Publish, SaveFails, PhotoInv, Saving
<1>3. CASE UploadLands
  <2>1. \E m : Receives(m)
    BY <1>3 DEF UploadLands
  <2>2. op' \in {"landed", "replacing"}
    BY <1>3 DEF UploadLands
  <2> QED
    BY <1>1, <2>1, <2>2, RestKeeps DEF Receives, PhotoInv, Saving
<1>4. CASE ReplacementSaved
  BY <1>1, <1>4, RestKeeps DEF ReplacementSaved, PhotoInv, Saving
<1>5. CASE Assemble \/ Cancel
  <2>1. Saving /\ CurrentOf(tasks) = {}
    BY <1>5, SavingNone DEF Assemble, Cancel, Saving
  <2> QED
    BY <1>1, <1>5, <2>1, RestKeeps DEF Assemble, Cancel, PhotoInv
<1>6. CASE Reload /\ Saving
  BY <1>1, <1>6, RestKeeps DEF Reload, PhotoInv, Saving
<1>7. CASE WorkerAnswers \/ \E a \in answers : Ignore(a)
  BY <1>1, <1>7, RestKeeps DEF WorkerAnswers, Ignore, Same, PhotoInv, Saving
<1> QED
  BY <1>2, <1>3, <1>4, <1>5, <1>6, <1>7

LEMMA BackgroundStep == ASSUME PreviewInv, BackgroundTimer PROVE PreviewInv'
<1>1. /\ background # None /\ background' = None
      /\ UNCHANGED <<view, timer, tasks, photo, shown, missed, op, destroyed>>
  BY DEF BackgroundTimer, Same
<1>2. CurrentOf(tasks) = {}
  BY <1>1 DEF PreviewInv, TaskInv, BackgroundInv
<1>3. Over(tasks')
  BY <1>1, <1>2 DEF PreviewInv, TaskInv, TasksInv, Over, CurrentOf
<1>4. Saving' => ~timer'
  BY <1>1 DEF PreviewInv, TaskInv, SavingInv, Saving
<1>5. ~timer' /\ ~missed' /\ ~destroyed' => ShowsView'
  BY <1>1, <1>2 DEF PreviewInv, ViewInv, ShowsView, View, Key, Source, view
<1> QED
  BY <1>1, <1>3, <1>4, <1>5, NoneCurrent DEF PreviewInv, PhotoInv

\* The one rendering that is current, and the others.
LEMMA OthersOver ==
  ASSUME PreviewInv, NEW t \in CurrentOf(tasks)
  PROVE  Over(tasks \ {t}) /\ WellFormed(t) /\ t.current
BY DEF PreviewInv, TaskInv, TasksInv, OneInv, CurrentOf, Over

LEMMA NewestIsCurrent ==
  Newest = IF destroyed THEN {} ELSE CurrentOf(tasks)
BY DEF Newest, Current, CurrentOf

\* A rendering that is not current ends, or the current one where missed tells of it.
LEMMA TaskEnds ==
  ASSUME PreviewInv, PhotoInv', NEW gone, tasks' = tasks \ gone,
         UNCHANGED <<view, shown, timer, background, destroyed>>, photo'.urls = photo.urls,
         Saving' => Saving, UNCHANGED active \/ \A t \in tasks \ gone : t.stage # "worker",
         missed' <=> missed \/ gone \cap Newest # {}
  PROVE  PreviewInv'
<1>1. TaskInv'
  BY DEF PreviewInv, TaskInv, TasksInv, OneInv, AskedInv, DrawnInv, BackgroundInv, SavingInv,
         CurrentOf
<1>2. ViewInv'
  <2> SUFFICES ASSUME ~timer', ~missed', ~destroyed'
               PROVE  /\ CurrentOf(tasks') = {} => ShowsView'
                      /\ \A t \in CurrentOf(tasks') : Renders(t, manifest', selected', compare')
    BY DEF ViewInv
  <2>1. ~timer /\ ~missed /\ ~destroyed /\ gone \cap CurrentOf(tasks) = {}
    BY NewestIsCurrent
  <2>2. CurrentOf(tasks') = CurrentOf(tasks)
    BY <2>1 DEF CurrentOf
  <2> QED
    BY <2>1, <2>2 DEF PreviewInv, ViewInv, ShowsView, View, Renders, Key, Source, view
<1> QED
  BY <1>1, <1>2 DEF PreviewInv

LEMMA LoadedPhoto ==
  ASSUME PreviewInv, NEW n
  PROVE  /\ PhotoOK(Known(Loaded(n))) /\ Known(Loaded(n)).urls = photo.urls
         /\ LET held == [Loaded(n) EXCEPT !.held = n, !.urls = @ \cup {n}]
            IN PhotoOK(held) /\ n \in held.urls
BY DEF PreviewInv, PhotoInv, PhotoOK, PhotoFields, Known, Loaded

LEMMA DecodeFailsStep ==
  ASSUME PreviewInv, NEW n \in photo.loads, DecodeFails(n) PROVE PreviewInv'
<1>1. /\ photo' = Known(Loaded(n)) /\ tasks' = tasks \ Waiting(n)
      /\ missed' = (missed \/ Waiting(n) \cap Newest # {})
      /\ UNCHANGED <<view, timer, background, active, shown, op, destroyed>>
  BY DEF DecodeFails, Same
<1>2. PhotoInv' /\ photo'.urls = photo.urls
  BY <1>1, LoadedPhoto DEF PhotoInv
<1> QED
  BY <1>1, <1>2, TaskEnds DEF Saving

\* A photo's decoding ends: its rendering goes on, if it is the newest.
LEMMA DecodePhotoStep ==
  ASSUME PreviewInv, NEW n \in photo.loads, DecodePhoto(n) PROVE PreviewInv'
<1> DEFINE rest == tasks \ Waiting(n)
<1>1. /\ photo' = IF Wanted(n) THEN [Loaded(n) EXCEPT !.held = n, !.urls = @ \cup {n}]
                  ELSE Known(Loaded(n))
      /\ UNCHANGED <<view, timer, missed, op, destroyed>>
  BY DEF DecodePhoto, Same
<1>2. PhotoInv'
  BY <1>1, LoadedPhoto DEF PhotoInv
<1>3. Wanted(n) => n \in photo'.urls
  BY <1>1, LoadedPhoto
<1>4. \A x \in photo.urls : x \in photo'.urls
  <2>1. DOMAIN photo = PhotoFields
    BY DEF PreviewInv, PhotoInv, PhotoOK
  <2>2. Wanted(n) => photo'.urls = photo.urls \cup {n}
    BY <1>1, <2>1 DEF Loaded, PhotoFields
  <2>3. ~Wanted(n) => photo'.urls = photo.urls
    BY <1>1, LoadedPhoto
  <2> QED
    BY <2>2, <2>3
<1>5. CASE Waiting(n) \cap Newest = {}
  <2>1. tasks' = rest /\ UNCHANGED <<background, active, shown>>
    BY <1>5 DEF DecodePhoto
  <2>2. TaskInv'
    BY <1>1, <2>1
    DEF PreviewInv, TaskInv, TasksInv, OneInv, AskedInv, DrawnInv, BackgroundInv, SavingInv,
        CurrentOf, Saving
  <2>3. ViewInv'
    <3> SUFFICES ASSUME ~timer', ~missed', ~destroyed'
                 PROVE  /\ CurrentOf(tasks') = {} => ShowsView'
                        /\ \A t \in CurrentOf(tasks') : Renders(t, manifest', selected', compare')
      BY DEF ViewInv
    <3>1. ~timer /\ ~missed /\ ~destroyed /\ Waiting(n) \cap CurrentOf(tasks) = {}
      BY <1>1, <1>5, NewestIsCurrent
    <3>2. CurrentOf(tasks') = CurrentOf(tasks)
      BY <2>1, <3>1 DEF CurrentOf
    <3> QED
      BY <1>1, <1>4, <2>1, <3>1, <3>2 DEF PreviewInv, ViewInv, ShowsView, View, Renders, Key, Source, view
  <2> QED
    BY <1>2, <2>2, <2>3 DEF PreviewInv
<1>6. CASE Waiting(n) \cap Newest # {}
  <2> DEFINE url == IF Wanted(n) THEN n ELSE Revoked
  <2>1. PICK t \in Waiting(n) \cap Newest : Proceed(t, rest, url)
    BY <1>6 DEF DecodePhoto
  <2>2. t \in CurrentOf(tasks) /\ ~destroyed
    BY <2>1, NewestIsCurrent
  <2>3. Over(rest) /\ WellFormed(t) /\ t.current
    BY <2>1, <2>2, OthersOver DEF Over
  <2>4. ~Saving'
    BY <1>1, <2>2 DEF PreviewInv, TaskInv, SavingInv, Saving
  <2>5. ~timer' /\ ~missed' /\ ~destroyed' => Renders(t, manifest', selected', compare')
    BY <1>1, <2>2 DEF PreviewInv, ViewInv, Renders, Key, Source, view
  <2>6. url \notin {0, Revoked} => url \in photo'.urls
    BY <1>3
  <2> HIDE DEF url
  <2>7. TaskInv' /\ ViewInv'
    BY <2>1, <2>3, <2>4, <2>5, <2>6, ProceedKeeps
  <2> QED
    BY <1>2, <2>7 DEF PreviewInv
<1> QED
  BY <1>5, <1>6

\* The canvas of a PDF page or the built page is drawn, or is not.
LEMMA DrawStep == ASSUME PreviewInv, NEW t \in tasks, Draw(t) PROVE PreviewInv'
<1>1. /\ tasks' = tasks \ {t} /\ t.stage \in {"canvas", "draw"}
      /\ UNCHANGED <<view, timer, active, photo, missed, op, destroyed>>
  BY DEF Draw, Same
<1>2. CASE ~Current(t)
  <2>1. UNCHANGED <<shown, background>> /\ {t} \cap Newest = {}
    BY <1>2 DEF Draw, Newest
  <2> QED
    BY <1>1, <2>1, TaskEnds DEF PreviewInv, PhotoInv, Saving
<1>3. CASE Current(t)
  <2>1. shown' = [of |-> IF t.stage = "draw" THEN t.of ELSE Seen(t), url |-> 0]
    BY <1>3 DEF Draw
  <2>2. t \in CurrentOf(tasks) /\ ~destroyed
    BY <1>3 DEF Current, CurrentOf
  <2>3. Over(tasks') /\ WellFormed(t)
    BY <1>1, <2>2, OthersOver
  <2>4. ~Saving'
    BY <1>1, <2>2 DEF PreviewInv, TaskInv, SavingInv, Saving
  <2>5. ~timer' /\ ~missed' /\ ~destroyed' => ShowsView'
    <3> SUFFICES ASSUME ~timer', ~missed', ~destroyed' PROVE ShowsView'
      OBVIOUS
    <3>1. Renders(t, manifest, selected, compare)
      BY <1>1, <2>2 DEF PreviewInv, ViewInv
    <3>2. Seen(t) = View(manifest, selected, compare)
      BY <3>1, SeenIsView
    <3>3. t.stage = "draw" => t.of = Seen(t)
      BY <2>2, <2>3 DEF PreviewInv, TaskInv, DrawnInv, WellFormed, Seen
    <3> QED
      BY <1>1, <2>1, <3>2, <3>3 DEF ShowsView, View, Key, Source, view
  <2> QED
    BY <1>1, <2>3, <2>4, <2>5, NoneCurrent DEF PreviewInv, PhotoInv
<1> QED
  BY <1>2, <1>3

LEMMA DrawFailsStep == ASSUME PreviewInv, NEW t \in tasks, DrawFails(t) PROVE PreviewInv'
<1>1. /\ tasks' = tasks \ {t} /\ missed' = (missed \/ Current(t))
      /\ UNCHANGED <<view, timer, background, active, photo, shown, op, destroyed>>
  BY DEF DrawFails, Same
<1>2. Current(t) <=> {t} \cap Newest # {}
  BY DEF Newest
<1> QED
  BY <1>1, <1>2, TaskEnds DEF PreviewInv, PhotoInv, Saving

\* While the worker assembles, save() waits for it.
AssemblyInv == active # None /\ active.stage = "assemble" => op = "build"

LEMMA QuietOp == Quiet => op' = op \/ op # "build" \/ Stop
<1> SUFFICES ASSUME Quiet PROVE op' = op \/ op # "build" \/ Stop
  OBVIOUS
<1> USE DEF Same, Idle
<1>1. CASE (\E p \in Pages : Choose(p)) \/ SetCompare \/ Undo \/ PreviewTimer \/ AskReload
  BY <1>1 DEF Choose, SetCompare, Undo, PreviewTimer, AskReload
<1>2. CASE \/ (\E e \in Edits : Edit(e))
           \/ (\E rest \in SUBSET DOMAIN manifest : Rearrange(rest) \/ ResetAll(rest))
  BY <1>2 DEF Edit, Rearrange, ResetAll, Changed
<1>3. CASE Reload \/ BackgroundTimer
  BY <1>3 DEF Reload, BackgroundTimer
<1>4. CASE \/ (\E n \in photo.loads : DecodePhoto(n) \/ DecodeFails(n))
           \/ (\E t \in tasks : Draw(t) \/ DrawFails(t))
  BY <1>4 DEF DecodePhoto, DecodeFails, Draw, DrawFails
<1>5. CASE Upload \/ UploadLands \/ ReplacementSaved \/ UploadDraws \/ UploadReturns
  BY <1>5 DEF Upload, UploadLands, ReplacementSaved, UploadDraws, UploadReturns
<1>6. CASE Save \/ Publish \/ SaveFails \/ Cancel \/ Destroy
  BY <1>6 DEF Save, Publish, SaveFails, Cancel, Destroy
<1> QED
  BY <1>1, <1>2, <1>3, <1>4, <1>5, <1>6 DEF Quiet

LEMMA AssemblyStep == AssemblyInv /\ [Next]_vars => AssemblyInv'
<1> SUFFICES ASSUME AssemblyInv, [Next]_vars PROVE AssemblyInv'
  OBVIOUS
<1>1. CASE UNCHANGED vars
  BY <1>1 DEF vars, AssemblyInv
<1>2. CASE Quiet
  <2>1. CASE UNCHANGED <<active, answers>>
    BY <1>2, <2>1, QuietOp DEF AssemblyInv, Stop
  <2>2. CASE Stop \/ \E request : RequestOK(request) /\ request.stage # "assemble" /\ Run(request)
    BY <2>2 DEF AssemblyInv, Stop, Run
  <2> QED
    BY <1>2, <2>1, <2>2, QuietAsks DEF Asks
<1>3. CASE WorkerAnswers \/ \E a \in answers : Ignore(a)
  BY <1>3 DEF AssemblyInv, WorkerAnswers, Ignore, Same
<1>4. CASE Assemble \/ \E a \in answers : Receive(a)
  BY <1>4 DEF AssemblyInv, Assemble, Receive
<1> QED
  BY <1>1, <1>2, <1>3, <1>4 DEF Next, Quiet

\* The answer of the worker: the rendering that asked for it, if it is still current,
\* shows it or draws it.
LEMMA ReceiveStep ==
  ASSUME PreviewInv, WorkerInv, AssemblyInv, NEW a \in answers, Receive(a) PROVE PreviewInv'
<1>1. /\ a.live /\ active # None /\ UNCHANGED <<view, timer, photo, destroyed>>
  BY DEF Receive, Accepts
<1>2. RequestOK(active) /\ (active.stage # "assemble" => a.of = active.key)
  BY <1>1 DEF WorkerInv, AnswerInv, RequestInv, Made
<1>3. PhotoInv' /\ photo'.urls = photo.urls
  BY <1>1 DEF PreviewInv, PhotoInv
<1>4. CASE active.stage \in {"background", "assemble"}
  <2>1. \/ active.stage = "background" /\ Prepared(a) /\ op' = op
        \/ active.stage = "assemble" /\ AssembledForSave(a) /\ op = "build"
    <3>1. CASE active.stage = "background"
      BY <1>1, <3>1 DEF Receive, Prepared
    <3>2. CASE active.stage = "assemble"
      BY <1>1, <3>2 DEF Receive, AssemblyInv
    <3> QED
      BY <1>4, <3>1, <3>2
  <2>2. UNCHANGED <<tasks, background, shown, missed>> /\ (Saving' => Saving)
    BY <2>1 DEF Prepared, AssembledForSave, Saving
  <2>3. \A t \in CurrentOf(tasks) : t.stage # "worker"
    BY <1>4 DEF PreviewInv, TaskInv, AskedInv
  <2>4. TaskInv'
    <3>1. (CurrentOf(tasks))' = CurrentOf(tasks)
      BY <2>2 DEF CurrentOf
    <3>2. AskedInv'
      BY <2>3, <3>1 DEF AskedInv
    <3>3. BackgroundInv' /\ SavingInv'
      BY <1>1, <2>2, <3>1 DEF PreviewInv, TaskInv, BackgroundInv, SavingInv
    <3> QED
      BY <2>2, <3>1, <3>2, <3>3 DEF PreviewInv, TaskInv, TasksInv, OneInv, DrawnInv
  <2>5. ViewInv'
    BY <1>1, <2>2 DEF PreviewInv, ViewInv, ShowsView, View, Renders, Key, Source, view
  <2> QED
    BY <1>3, <2>4, <2>5 DEF PreviewInv
<1>5. CASE active.stage \in {"preview", "build"} /\ (~a.ok \/ Asked \cap Newest = {})
  <2>1. /\ tasks' = tasks \ Asked /\ UNCHANGED <<shown, background, op>>
        /\ missed' <=> missed \/ Asked \cap Newest # {}
    BY <1>5 DEF Receive, Previewed, BuiltForPreview
  <2>2. \A t \in tasks \ Asked : t.stage # "worker"
    BY DEF Asked
  <2> QED
    BY <1>1, <1>3, <2>1, <2>2, TaskEnds DEF Saving
<1>6. CASE active.stage \in {"preview", "build"} /\ a.ok /\ Asked \cap Newest # {}
  <2>1. PICK t \in Asked \cap Newest : TRUE
    BY <1>6
  <2>2. t \in CurrentOf(tasks) /\ t.stage = "worker" /\ t.current /\ ~destroyed
    BY <2>1, NewestIsCurrent DEF Asked, CurrentOf
  <2>3. Over(tasks \ Asked) /\ WellFormed(t) /\ Asked \cap Newest = {t}
    BY <2>1, <2>2, OthersOver, NewestIsCurrent
    DEF Over, PreviewInv, TaskInv, OneInv
  <2>4. ~t.plain /\ a.of = t.key
    BY <1>2, <1>6, <2>2, <2>3 DEF PreviewInv, TaskInv, AskedInv, WellFormed
  <2>5. ~Saving' /\ background = None
    <3>1. op' = op
      BY <1>6 DEF Receive, Previewed, BuiltForPreview
    <3>2. ~Saving /\ background = None
      BY <2>2 DEF PreviewInv, TaskInv, SavingInv, BackgroundInv
    <3> QED
      BY <3>1, <3>2 DEF Saving
  <2>6. ~timer /\ ~missed /\ ~destroyed => Renders(t, manifest, selected, compare)
    BY <2>2 DEF PreviewInv, ViewInv
  <2>7. CASE active.stage = "preview"
    <3>1. tasks' = tasks \ Asked /\ shown' = [of |-> a.of, url |-> 0] /\ missed' = missed
      BY <1>6, <2>7 DEF Receive, Previewed
    <3>2. ~timer' /\ ~missed' /\ ~destroyed' => ShowsView'
      <4> SUFFICES ASSUME ~timer', ~missed', ~destroyed' PROVE ShowsView'
        OBVIOUS
      <4>1. Seen(t) = View(manifest, selected, compare)
        BY <1>1, <2>6, <3>1, SeenIsView
      <4>2. shown'.of = View(manifest, selected, compare) /\ shown'.url = 0
        BY <2>4, <3>1, <4>1 DEF Seen
      <4> QED
        BY <1>1, <4>2 DEF ShowsView, View, Key, Source, view
    <3> QED
      BY <1>3, <2>3, <2>5, <3>1, <3>2, NoneCurrent DEF PreviewInv
  <2>8. CASE active.stage = "build"
    <3> DEFINE u == Drawn(t, a.of)
    <3>1. tasks' = (tasks \ Asked) \cup {u} /\ UNCHANGED background /\ (missed' <=> missed)
      <4>1. BuiltForPreview(a)
        BY <2>8 DEF Receive
      <4>2. (IF a.ok THEN Asked \cap Newest ELSE {}) = {t}
        BY <1>6, <2>3
      <4>3. tasks' = (tasks \ Asked) \cup
                       {[v EXCEPT !.stage = "draw", !.of = a.of, !.load = 0] : v \in {t}}
        BY <4>1, <4>2 DEF BuiltForPreview
      <4>4. UNCHANGED background /\ (missed' <=> missed)
        BY <1>6, <2>4, <4>1 DEF BuiltForPreview
      <4> QED
        BY <4>3, <4>4 DEF Drawn
    <3>2. /\ WellFormed(u) /\ u.key = t.key /\ u.plain = t.plain /\ u.stage = "draw"
          /\ u.of = a.of /\ u.current
      BY <2>2, <2>3, <2>4, DrawTask
    <3> HIDE DEF u
    <3>3. ~timer' /\ ~missed' /\ ~destroyed' => Renders(u, manifest', selected', compare')
      BY <1>1, <2>6, <3>1, <3>2 DEF Renders, Key, Source, view
    <3> QED
      BY <1>3, <2>3, <2>4, <2>5, <3>1, <3>2, <3>3, SomeCurrent DEF PreviewInv
  <2> QED
    BY <1>6, <2>7, <2>8
<1> QED
  BY <1>2, <1>4, <1>5, <1>6 DEF RequestOK, Kinds

LEMMA PreviewStep == PreviewInv /\ WorkerInv /\ AssemblyInv /\ [Next]_vars => PreviewInv'
<1> SUFFICES ASSUME PreviewInv, WorkerInv, AssemblyInv, [Next]_vars PROVE PreviewInv'
  OBVIOUS
<1>1. CASE UNCHANGED vars
  <2>1. UNCHANGED <<view, tasks, background, active, op, timer, shown, missed, destroyed, photo>>
    BY <1>1 DEF vars
  <2> QED
    BY <2>1, RestKeeps DEF Saving, PreviewInv, PhotoInv
<1>2. CASE (\E p \in Pages : Choose(p)) \/ SetCompare \/ Undo \/ PreviewTimer \/ UploadDraws
  BY <1>2, RenderingSteps
<1>3. CASE Reload
  BY <1>3, RenderingSteps, RestSteps
<1>4. CASE \/ (\E e \in Edits : Edit(e))
           \/ (\E rest \in SUBSET DOMAIN manifest : Rearrange(rest) \/ ResetAll(rest))
  BY <1>4, EndingSteps DEF Edit, Rearrange, ResetAll
<1>5. CASE Save \/ Destroy
  BY <1>5, EndingSteps
<1>6. CASE \/ AskReload \/ Upload \/ UploadLands \/ ReplacementSaved \/ UploadReturns
           \/ Assemble \/ Publish \/ SaveFails \/ Cancel \/ WorkerAnswers
           \/ \E a \in answers : Ignore(a)
  BY <1>6, RestSteps
<1>7. CASE \/ (\E n \in photo.loads : DecodePhoto(n) \/ DecodeFails(n))
           \/ (\E t \in tasks : Draw(t) \/ DrawFails(t))
  BY <1>7, DecodePhotoStep, DecodeFailsStep, DrawStep, DrawFailsStep
<1>8. CASE BackgroundTimer \/ \E a \in answers : Receive(a)
  BY <1>8, BackgroundStep, ReceiveStep
<1> QED
  BY <1>1, <1>2, <1>3, <1>4, <1>5, <1>6, <1>7, <1>8 DEF Next

LEMMA InitPreview == Init => PreviewInv /\ AssemblyInv
<1> SUFFICES ASSUME Init PROVE PreviewInv /\ AssemblyInv
  OBVIOUS
<1>1. /\ tasks = {} /\ background = None /\ active = None /\ op = "none" /\ timer
      /\ photo = [held |-> 0, load |-> 0, loads |-> {}, urls |-> {}, fresh |-> {}, of |-> <<>>]
  BY DEF Init
<1>2. TaskInv
  BY <1>1 DEF TaskInv, TasksInv, OneInv, AskedInv, DrawnInv, BackgroundInv, SavingInv, CurrentOf, Saving
<1>3. PhotoInv /\ ViewInv /\ AssemblyInv
  BY <1>1 DEF PhotoInv, PhotoOK, PhotoFields, ViewInv, AssemblyInv
<1> QED
  BY <1>2, <1>3 DEF PreviewInv

----------------------------------------------------------------------------
(***************************************************************************)
(* The theorems of the preview.                                            *)
(***************************************************************************)

\* The renderings, whatever order decodings, drawings and answers come in: the invariant
\* the next theorem rests on.
THEOREM PreviewInvariant == Spec => [](PreviewInv /\ AssemblyInv)
BY InitPreview, PreviewStep, AssemblyStep, WorkerInvariant, PTL DEF Spec

\* When nothing is under way the preview shows the selected page with its present edit, or
\* its original while comparing, by a picture that is not revoked, apart from what missed
\* records (renderPreview, invalidatePreview, keepDisplayRasterFor).
THEOREM PreviewShowsTheSelection == Spec => []PreviewShowsSelection
<1>1. PreviewInv => PreviewShowsSelection
  <2> SUFFICES ASSUME PreviewInv, ~timer, Newest = {}, ~missed, ~destroyed
               PROVE  /\ shown.of = IF selected = None THEN None
                                    ELSE [Key(manifest, selected) EXCEPT
                                            !.edit = IF compare THEN Plain ELSE @]
                      /\ shown.url \notin {0, Revoked} => shown.url \in photo.urls
    BY DEF PreviewShowsSelection
  <2>1. ShowsView
    BY NewestIsCurrent DEF PreviewInv, ViewInv
  <2> QED
    BY <2>1 DEF ShowsView, View
<1> QED
  BY <1>1, PreviewInvariant, PTL

=============================================================================
