---------------------------- MODULE ImslpSearch ----------------------------
(***************************************************************************)
(* The IMSLP panel of the Source step: its live search (prepare-imslp.ts)  *)
(* and how a chosen or pasted work fills the draft's title.  A search      *)
(* waits for the typing to stop; a throttled one is sent again after a     *)
(* second, an unavailable one is retried once, quietly, after half a       *)
(* minute; leaving the panel stops all of it.                              *)
(*                                                                         *)
(* A query is a member of Queries, or Short: too short (or too long) to    *)
(* send.  Every query finds a work, and its result list and that work are  *)
(* known by the query.  The title stands for the composer too, which is    *)
(* filled in the same way.  The cache keeps every answer (20 in the code). *)
(* A request number is only compared with the newest one, so a request     *)
(* holds whether it is the newest (current).                               *)
(***************************************************************************)
EXTENDS Naturals

CONSTANTS
    Queries, Short,
    Typed,          \* a title of the user's own
    None,
    MaxInputs,      \* what the user does
    MaxThrottled    \* searches the server throttles

ASSUME SearchAssumption ==
    /\ Short \notin Queries /\ None \notin Queries /\ Typed \notin Queries \cup {None}
    /\ MaxInputs \in Nat /\ MaxThrottled \in Nat

VARIABLES
    query, results, status, stale,
    lastSent,
    timer,       \* what waits: nothing, the debounce, a throttled search or the retry of a query
    stray,       \* whether a debounce runs that another timer has taken the place of
    requests,    \* searches sent and not answered
    cache,       \* queries whose results are kept
    panelOpen,
    link,        \* the work in the link field
    sourceUrl, title, filled, edited,  \* metadata and imslpAutoFill of the draft
    urlEdited,   \* whether the source link was changed on the Details step, and no work linked since
    left,        \* whether the panel was left with results of another query
    quiet, throttled,   \* quiet retries and throttled answers since the user's last input
    inputs, throttles

search == <<query, results, status, stale, lastSent, timer, stray, requests, cache, panelOpen, left>>
draft == <<link, sourceUrl, title, filled, edited, urlEdited>>
searchVars == <<search, draft, quiet, throttled, inputs, throttles>>

Works == Queries
NoTimer == [kind |-> "none", query |-> None]

SearchInit ==
    /\ query = Short /\ results = None /\ status = "idle" /\ stale = FALSE /\ lastSent = None
    /\ timer = NoTimer /\ stray = FALSE /\ requests = {} /\ cache = {} /\ panelOpen = TRUE /\ left = FALSE
    /\ link = None /\ sourceUrl = None /\ title \in {None, Typed} /\ filled = None /\ edited = FALSE
    /\ urlEdited = FALSE /\ quiet = 0 /\ throttled = 0 /\ inputs = 0 /\ throttles = 0

Input == /\ inputs < MaxInputs /\ inputs' = inputs + 1 /\ quiet' = 0 /\ throttled' = 0
         /\ UNCHANGED throttles
Elapses == UNCHANGED <<quiet, throttled, inputs, throttles>>

\* A superseded request is unsubscribed; an answer of it that is on its way is ignored.
Superseded == {[r EXCEPT !.current = FALSE] : r \in requests}

-----------------------------------------------------------------------------
\* Mutant: a search that is stopped still counts as searching.
CancelSilently ==
    /\ timer' = NoTimer /\ requests' = Superseded /\ lastSent' = None /\ stale' = FALSE
    /\ UNCHANGED <<status, results>>
\* cancel() and reset()
Cancel ==
    /\ timer' = NoTimer /\ requests' = Superseded /\ lastSent' = None /\ stale' = FALSE
    /\ status' = IF status \in {"searching", "throttled"}
                 THEN IF results = None THEN "idle" ELSE "ready" ELSE status
    /\ UNCHANGED results
Reset ==
    /\ timer' = NoTimer /\ requests' = Superseded /\ lastSent' = None /\ stale' = FALSE
    /\ status' = "idle" /\ results' = None

\* find(immediate, retry) for the query in the field.
Find(immediate, retry) ==
    \/ query = Short /\ Reset
    \/ /\ query # Short /\ query = lastSent /\ ~immediate
       /\ timer' = NoTimer /\ UNCHANGED <<results, status, stale, lastSent, requests>>
    \/ /\ query # Short /\ (query # lastSent \/ immediate)
       /\ timer' = NoTimer /\ lastSent' = query
       /\ IF query \in cache
          THEN /\ status' = "ready" /\ results' = query /\ stale' = FALSE
               /\ requests' = Superseded
          ELSE /\ status' = IF retry THEN status ELSE "searching"
               /\ requests' = Superseded \cup {[query |-> query, retry |-> retry, current |-> TRUE]}
               /\ UNCHANGED <<results, stale>>

\* input(): each keystroke restarts the debounce.  One that changes only spaces or case
\* leaves the query as it is, and the search under way with it.
NotAnswered(q) == q # lastSent
Type(q) ==
    /\ Input /\ panelOpen /\ query' = q
    /\ IF q = Short THEN Reset
       ELSE /\ timer' = [kind |-> "debounce", query |-> None]
            /\ IF NotAnswered(q)
               THEN requests' = Superseded /\ lastSent' = None /\ stale' = TRUE
               ELSE UNCHANGED <<requests, lastSent, stale>>
            /\ UNCHANGED <<results, status>>
    /\ left' = FALSE
    /\ UNCHANGED <<stray, cache, panelOpen, draft>>

\* enter()
Enter ==
    /\ Input /\ panelOpen /\ Find(TRUE, FALSE) /\ left' = FALSE
    /\ UNCHANGED <<query, stray, cache, panelOpen, draft>>

\* The debounce (350 ms) ends before a throttled search (1 s) or a retry (30 s) is due.
Debounce ==
    /\ timer.kind = "debounce" /\ Elapses
    /\ Find(FALSE, FALSE) /\ UNCHANGED <<query, stray, cache, panelOpen, left, draft>>
StrayDebounce ==
    /\ stray /\ stray' = FALSE /\ Elapses
    /\ Find(FALSE, FALSE) /\ UNCHANGED <<query, cache, panelOpen, left, draft>>
ThrottleEnds ==
    /\ timer.kind = "throttled" /\ ~stray /\ Elapses
    /\ Find(TRUE, FALSE) /\ UNCHANGED <<query, stray, cache, panelOpen, left, draft>>
RetryTimer ==
    /\ timer.kind = "retry" /\ ~stray
    /\ IF query = timer.query /\ panelOpen
       THEN /\ Find(TRUE, TRUE) /\ quiet' = quiet + 1 /\ UNCHANGED <<throttled, inputs, throttles>>
       ELSE timer' = NoTimer /\ Elapses /\ UNCHANGED <<results, status, stale, lastSent, requests>>
    /\ UNCHANGED <<query, stray, cache, panelOpen, left, draft>>

-----------------------------------------------------------------------------
\* Mutant: an older request's answer is taken.
TakenAny(r) == TRUE
\* The answers of searchIMSLP; only the newest request's is taken.
Taken(r) == r.current
Ignored(r) ==
    /\ r \in requests /\ ~Taken(r) /\ Elapses /\ requests' = requests \ {r}
    /\ UNCHANGED <<query, results, status, stale, lastSent, timer, stray, cache, panelOpen, left, draft>>
Ready(r) ==
    /\ r \in requests /\ Taken(r) /\ Elapses /\ requests' = requests \ {r}
    /\ status' = "ready" /\ results' = r.query /\ stale' = FALSE /\ cache' = cache \cup {r.query}
    /\ UNCHANGED <<query, lastSent, timer, stray, panelOpen, left, draft>>
\* A new timer does not clear a debounce that began since the search was sent.
Overtaken == stray' = (stray \/ timer.kind = "debounce")
Throttled(r) ==
    /\ r \in requests /\ Taken(r) /\ requests' = requests \ {r}
    /\ throttles < MaxThrottled /\ throttles' = throttles + 1 /\ throttled' = throttled + 1
    /\ lastSent' = None /\ status' = "throttled" /\ timer' = [kind |-> "throttled", query |-> None]
    /\ Overtaken
    /\ UNCHANGED <<query, results, stale, cache, panelOpen, left, draft, quiet, inputs>>

\* Mutant: a retry schedules another.
RetriesAlways(r) == TRUE
\* Whether an unavailable search is tried once more.
RetriesAfter(r) == ~r.retry
Unavailable(r) ==
    /\ r \in requests /\ Taken(r) /\ Elapses /\ requests' = requests \ {r}
    /\ lastSent' = None /\ status' = "unavailable" /\ results' = None /\ stale' = FALSE
    /\ IF RetriesAfter(r) THEN timer' = [kind |-> "retry", query |-> r.query] /\ Overtaken
       ELSE UNCHANGED <<timer, stray>>
    /\ UNCHANGED <<query, cache, panelOpen, left, draft>>

-----------------------------------------------------------------------------
\* chooseSource() and setStep() leave the panel, if it is open; it is opened again later.
Leave ==
    /\ Input /\ panelOpen' = FALSE /\ Cancel
    /\ left' = (left \/ (results # None /\ results # query))
    /\ UNCHANGED <<query, stray, cache, draft>>
Return ==
    /\ Input /\ ~panelOpen /\ panelOpen' = TRUE
    /\ UNCHANGED <<query, results, status, stale, lastSent, timer, stray, requests, cache, left, draft>>

\* load(), for "Reload draft", whose metadata are saved: it shows the step the draft is at
\* and fills the link field, and stops no search.
ReloadDraft ==
    /\ Input /\ panelOpen' \in BOOLEAN /\ link' = sourceUrl
    /\ UNCHANGED <<query, results, status, stale, lastSent, timer, stray, requests, cache, left>>
    /\ UNCHANGED <<sourceUrl, title, filled, edited, urlEdited>>

\* Mutant: a work that does not fill the title leaves it counted as filled.
PrefillIfEmpty(work) ==
    IF edited \/ title # None THEN UNCHANGED <<title, filled>>
    ELSE title' = work /\ filled' = work
\* prefillIMSLPField: the title is filled unless the user has edited it or it is not
\* the one IMSLP filled.
Prefill(work) ==
    IF edited THEN UNCHANGED <<title, filled>>
    ELSE IF title = None \/ (filled # None /\ title = filled)
    THEN title' = work /\ filled' = work
    ELSE UNCHANGED title /\ filled' = None

\* selectWork(), for a result that resultsStale() does not hold back.
Selectable == panelOpen /\ results # None /\ ~stale /\ status \notin {"searching", "throttled"}
SelectWork ==
    /\ Input /\ Selectable
    /\ link' = results /\ sourceUrl' = results /\ Prefill(results)
    /\ urlEdited' = FALSE
    /\ UNCHANGED <<search, edited>>

\* The link field, and applyIMSLP with linkIMSLPWork whenever the Source step moves on.
PasteLink(w) == /\ Input /\ panelOpen /\ w # link /\ link' = w
                /\ UNCHANGED <<search, sourceUrl, title, filled, edited, urlEdited>>
ApplyLink ==
    /\ Input /\ panelOpen /\ link # None
    /\ sourceUrl' = link
    /\ IF sourceUrl # link \/ (title = None /\ filled = None)
       THEN Prefill(link) /\ urlEdited' = FALSE ELSE UNCHANGED <<title, filled, urlEdited>>
    /\ UNCHANGED <<search, link, edited>>

\* updateMetadata(), on the Details step.
EditTitle(t) ==
    /\ Input /\ ~panelOpen /\ title' = t /\ filled' = None /\ edited' = TRUE
    /\ UNCHANGED <<search, link, sourceUrl, urlEdited>>
EditUrl(w) ==
    /\ Input /\ ~panelOpen /\ w # sourceUrl /\ sourceUrl' = w /\ urlEdited' = TRUE
    /\ UNCHANGED <<search, link, title, filled, edited>>

User ==
    \/ (\E q \in Queries \cup {Short} : Type(q)) \/ Enter \/ Leave \/ Return \/ ReloadDraft \/ SelectWork
    \/ (\E w \in Works : PasteLink(w) \/ EditUrl(w)) \/ ApplyLink
    \/ \E t \in {Typed, None} : EditTitle(t)
Answered(r) == Ignored(r) \/ Ready(r) \/ Unavailable(r)
Timers == Debounce \/ StrayDebounce \/ ThrottleEnds \/ RetryTimer
SearchNext == User \/ Timers \/ \E r \in requests : Answered(r) \/ Throttled(r)

SearchSpec == SearchInit /\ [][SearchNext]_searchVars
\* Timers fire and requests are answered (the server's search has a deadline).
FairSpec == SearchSpec /\ WF_searchVars(Timers) /\ WF_searchVars(\E r \in requests : Ready(r) \/ Unavailable(r))

-----------------------------------------------------------------------------
\* The kinds of values the panel and the draft hold.
SearchTypeOK ==
    /\ query \in Queries \cup {Short}
    /\ results \in Queries \cup {None} /\ lastSent \in Queries \cup {None}
    /\ status \in {"idle", "searching", "throttled", "ready", "unavailable"}
    /\ timer \in [kind : {"none", "debounce", "throttled", "retry"}, query : Queries \cup {None}]
    /\ requests \subseteq [query : Queries, retry : BOOLEAN, current : BOOLEAN]
    /\ cache \subseteq Queries
    /\ stale \in BOOLEAN /\ stray \in BOOLEAN /\ panelOpen \in BOOLEAN /\ left \in BOOLEAN
    /\ edited \in BOOLEAN /\ urlEdited \in BOOLEAN
    /\ link \in Works \cup {None} /\ sourceUrl \in Works \cup {None}
    /\ title \in Works \cup {Typed, None} /\ filled \in Works \cup {None}
    /\ quiet \in Nat /\ throttled \in Nat /\ inputs \in 0..MaxInputs /\ throttles \in 0..MaxThrottled

\* Results that can be opened answer the query in the field: no older answer lands
\* after the query has changed, and results of an earlier query are held back until
\* theirs arrives.  Apart from a panel left, and so cancelled, with such results.
ResultsAnswerQuery == Selectable /\ ~left => results = query

\* "True while the visible results belong to a query the user has since changed", so
\* that "nothing on screen may be opened until the next one" arrives.
ChangedQueryHoldsResults == Selectable => results = query

\* A title that counts as filled from IMSLP is the linked work's: another work chosen
\* or pasted renames it, and one the user typed or cleared is never touched.  Apart
\* from a link the user wrote on the Details step, which names nothing; pasting that
\* same link then does not rename either (changedWork of linkIMSLPWork).
FilledTitleIsTheLinkedWorks ==
    /\ filled # None /\ title = filled /\ ~urlEdited => title = sourceUrl
    /\ edited => title \in {Typed, None}

\* Without the user, an unavailable search is retried once: further retries follow only
\* answers that the server throttled.
OneQuietRetry == quiet <= 1 + throttled

\* A search on screen ends, whatever is throttled, superseded or left meanwhile.
SearchSettles == status \in {"searching", "throttled"} ~> status \notin {"searching", "throttled"}
=============================================================================
