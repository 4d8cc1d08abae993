---------------------------- MODULE ReaderRender ----------------------------
(***************************************************************************)
(* How the reader draws its pages (reader.component.ts) through the PDF    *)
(* service (pdf-document.service.ts).  Page mode draws one page off screen *)
(* and copies it to the visible canvas if it is still the one wanted;      *)
(* scroll mode draws the pages near the viewport into their own canvases,  *)
(* and empties those far from it.  Drawing is slow: the reader turns,      *)
(* zooms, scrolls and changes mode meanwhile.                              *)
(*                                                                         *)
(* Where the pages lie around a scroll position is given by NearAt and     *)
(* KeptAt.  The size stands for the zoom and the stage's size together.    *)
(* Generations and requests are only compared with the present ones: a     *)
(* draw holds whether its page's present request waits for it (owned), and *)
(* whether an earlier one does (others).  A new generation and a change of *)
(* mode forget every request.                                              *)
(***************************************************************************)
EXTENDS Naturals, FiniteSets

CONSTANTS
    Pages, Sizes, Places, None,
    NearAt, KeptAt,  \* the pages near each scroll place, and the ones kept there
    PageAt,          \* the page the counter shows at a scroll place
    MaxRenders       \* draws under way when the reader does something more

ASSUME RenderAssumption ==
    /\ NearAt \in [Places -> SUBSET Pages] /\ KeptAt \in [Places -> SUBSET Pages]
    /\ \A s \in Places : NearAt[s] \subseteq KeptAt[s]
    /\ PageAt \in [Places -> Pages] /\ MaxRenders \in Nat
    /\ None \notin Sizes
    /\ None \notin [page : Pages, size : Sizes] \cup
                   [page : Pages \cup {None}, size : Sizes \cup {None}, current : BOOLEAN]

VARIABLES
    mode, page, size, place,
    scrolled,   \* scrollFrame
    frame,      \* renderFrame
    visible,    \* page mode's canvas: what it shows
    rendered,   \* renderedPage
    job,        \* page mode's draw under way (pageRenderInFlight)
    pending,    \* pageRenderPending
    drawn,      \* scroll mode: the size each page's canvas shows it at, or None
    widths,     \* renderedWidths
    request,    \* scrollRenderRequests: the pages that have one
    renders,    \* the PDF service's draws into scroll mode's canvases
    lost        \* pages whose draw failed or was cut short

layout == <<mode, page, size, place>>
pageVars == <<visible, rendered, job, pending>>
scrollVars == <<drawn, widths, request, renders>>
vars == <<layout, scrolled, frame, pageVars, scrollVars, lost>>

Near == NearAt[place]
Kept == KeptAt[place]

\* Page mode has no scroll place; the variable then holds any one of them.
NoPlace == CHOOSE s \in Places : TRUE

Init ==
    /\ mode \in {"page", "scroll"} /\ page \in Pages /\ size \in Sizes /\ place \in Places
    /\ IF mode = "page" THEN place = NoPlace ELSE PageAt[place] = page
    /\ scrolled = FALSE /\ frame = TRUE    \* load() has opened the document
    /\ visible = None /\ rendered = None /\ job = None /\ pending = FALSE
    /\ drawn = [p \in Pages |-> None] /\ widths = drawn /\ request = {}
    /\ renders = {} /\ lost = {}

-----------------------------------------------------------------------------
\* A new render generation: what is drawn no longer counts, whatever it is.
OldJob == [page |-> None, size |-> None, current |-> FALSE]
Outdated(r) == [r EXCEPT !.owned = FALSE, !.others = @ \/ r.owned]
NewGeneration ==
    /\ rendered' = None
    /\ job' = IF job = None THEN None ELSE OldJob
    /\ widths' = [p \in Pages |-> None] /\ request' = {}

Acts == Cardinality(renders) < MaxRenders

\* changeZoom() and the resize observer
Resize(s) ==
    /\ Acts /\ s # size /\ size' = s
    /\ NewGeneration /\ renders' = {Outdated(r) : r \in renders} /\ frame' = TRUE
    /\ UNCHANGED <<mode, page, place, scrolled, visible, pending, drawn, lost>>

\* turnPage(): the visible canvas is cleared at once.
TurnPage(p) ==
    /\ Acts /\ mode = "page" /\ p # page
    /\ page' = p /\ visible' = None /\ rendered' = None /\ frame' = TRUE
    /\ UNCHANGED <<mode, size, place, scrolled, job, pending, scrollVars, lost>>

\* onStageScroll(), by hand or by the auto-scroll.
Scroll(s) ==
    /\ Acts /\ mode = "scroll" /\ s # place
    /\ place' = s /\ scrolled' = TRUE
    /\ UNCHANGED <<mode, page, size, frame, pageVars, scrollVars, lost>>
ScrollFrame ==
    /\ scrolled /\ scrolled' = FALSE
    /\ page' = IF mode = "scroll" THEN PageAt[place] ELSE page
    /\ frame' = TRUE
    /\ UNCHANGED <<mode, size, place, pageVars, scrollVars, lost>>

\* setMode(): the other mode has canvases of its own, and what is still drawn into the
\* old ones changes nothing any more.  Leaving scroll mode takes the page from the
\* place; entering it scrolls to the page.
SetMode ==
    /\ Acts /\ mode' = IF mode = "page" THEN "scroll" ELSE "page"
    /\ IF mode = "scroll"
       THEN page' = PageAt[place] /\ place' = NoPlace
       ELSE place' \in {s \in Places : PageAt[s] = page} /\ UNCHANGED page
    /\ NewGeneration /\ frame' = TRUE
    /\ visible' = None /\ drawn' = [p \in Pages |-> None] /\ lost' = {}
    /\ renders' = {}
    /\ UNCHANGED <<size, scrolled, pending>>

-----------------------------------------------------------------------------
\* renderVisible() in page mode.
DrawPage ==
    /\ frame /\ mode = "page" /\ frame' = FALSE
    /\ IF job # None
       THEN pending' = TRUE /\ UNCHANGED <<visible, rendered, job>>
       ELSE IF rendered = [page |-> page, size |-> size]
       THEN UNCHANGED pageVars
       ELSE /\ job' = [page |-> page, size |-> size, current |-> TRUE]
            /\ pending' = FALSE /\ visible' = None /\ rendered' = None
    /\ UNCHANGED <<layout, scrolled, scrollVars, lost>>

\* The off-screen draw ends: it is shown if nothing has changed, and drawn again if
\* something has.
\* Mutant: the page is not compared.
StillWantedSize(j) == j.current /\ mode = "page" /\ size = j.size
StillWanted(j) == j.current /\ mode = "page" /\ page = j.page /\ size = j.size
DrawnPage(j) == [page |-> j.page, size |-> j.size]
\* Mutant: nothing is drawn again.
AgainNever(j) == job' = None /\ pending' = FALSE /\ UNCHANGED frame
AgainAfter(j) ==
    /\ job' = None /\ pending' = FALSE
    /\ frame' = (frame \/ pending \/ ~StillWanted(j))
PageDrawn ==
    /\ job # None /\ AgainAfter(job)
    /\ IF StillWanted(job)
       THEN visible' = DrawnPage(job) /\ rendered' = DrawnPage(job) /\ lost' = {}
       ELSE UNCHANGED <<visible, rendered, lost>>
    /\ UNCHANGED <<layout, scrolled, scrollVars>>
PageFails ==
    /\ job # None /\ AgainAfter(job)
    /\ lost' = IF StillWanted(job) THEN lost \cup {job.page} ELSE lost
    /\ UNCHANGED <<layout, scrolled, visible, rendered, scrollVars>>

-----------------------------------------------------------------------------
\* renderVisible() in scroll mode.  A page far away is emptied and its request
\* forgotten; a draw into its canvas that has begun goes on, into an empty canvas.
Cut(r) == [r EXCEPT !.intact = FALSE]
CutsShort(rs) == \E r \in rs : r.active /\ r.stage = "draw"
Far(p) == p \notin Kept
Drawing(p) == {r \in renders : r.page = p}
UnderWay(p) == \E r \in Drawing(p) : r.owned /\ r.size = size
Asks == {p \in Near : widths[p] # size /\ ~UnderWay(p)}

\* renderPage(): an equal draw into the same canvas is shared, another is cancelled.
Shares(r) == r.active /\ r.size = size
Started(p) == [page |-> p, size |-> size, active |-> TRUE, stage |-> "get", intact |-> FALSE,
               owned |-> TRUE, others |-> FALSE]
\* Mutant: each refresh restarts the draw.
AfterRestart(p) ==
    IF p \in Near /\ widths[p] # size
    THEN {[Outdated(r) EXCEPT !.active = FALSE] : r \in Drawing(p)} \cup {Started(p)}
    ELSE Drawing(p)
After(p) ==
    LET rs == Drawing(p)
    IN IF p \in Asks
       THEN IF \E r \in rs : Shares(r)
            THEN {IF Shares(r) THEN [Outdated(r) EXCEPT !.owned = TRUE] ELSE Outdated(r) : r \in rs}
            ELSE {[Outdated(r) EXCEPT !.active = FALSE] : r \in rs} \cup {Started(p)}
       ELSE IF Far(p) THEN {Cut(Outdated(r)) : r \in rs} ELSE rs
DrawNearby ==
    /\ frame /\ mode = "scroll" /\ frame' = FALSE
    /\ drawn' = [p \in Pages |-> IF Far(p) THEN None ELSE drawn[p]]
    /\ widths' = [p \in Pages |-> IF Far(p) THEN None ELSE widths[p]]
    /\ request' = (request \cap Kept) \cup Asks
    /\ renders' = UNION {After(p) : p \in Pages}
    /\ lost' = lost \cup {p \in Pages : Far(p) /\ CutsShort(Drawing(p))}
    /\ UNCHANGED <<layout, scrolled, pageVars>>

\* draw(): the page is there, the canvas gets its size (and is blank) and drawing begins,
\* unless another request has superseded this one.
BeginDraw(r) ==
    /\ r \in renders /\ r.stage = "get" /\ r.active
    /\ renders' = (renders \ {r}) \cup {[r EXCEPT !.stage = "draw", !.intact = TRUE]}
    /\ drawn' = [drawn EXCEPT ![r.page] = None]
    /\ UNCHANGED <<layout, scrolled, frame, pageVars, widths, request, lost>>

\* What each call that waits for the draw does once it ends: the present request of the
\* page marks it rendered, unless it is out of place by now; any other call empties the
\* canvas, unless a newer request owns it.
Succeeds(r) == r.owned /\ mode = "scroll" /\ size = r.size /\ r.page \in Kept
Forgets(r) == r.owned /\ ~Succeeds(r)
\* Mutant: a newer request does not keep its canvas.
EmptiesAnyway(r) == ~Succeeds(r) \/ r.others
Empties(r) == Forgets(r) \/ (r.others /\ r.page \notin request)
EndDraw(r) ==
    /\ r \in renders /\ (r.stage = "draw" \/ ~r.active)
    /\ renders' = {IF q.page = r.page /\ Empties(r) THEN Cut(q) ELSE q : q \in renders \ {r}}
    /\ LET complete == r.stage = "draw" /\ r.active /\ r.intact
           p == r.page
       IN /\ drawn' = [drawn EXCEPT ![p] = IF Empties(r) THEN None ELSE IF complete THEN r.size ELSE @]
          /\ widths' = [widths EXCEPT ![p] = IF Succeeds(r) THEN r.size ELSE IF Forgets(r) THEN None ELSE @]
          /\ request' = IF Forgets(r) THEN request \ {p} ELSE request
          /\ lost' = CASE Empties(r) /\ CutsShort(Drawing(p) \ {r}) -> lost \cup {p}
                       [] complete /\ ~Empties(r) -> lost \ {p}
                       [] OTHER -> lost
    /\ UNCHANGED <<layout, scrolled, frame, pageVars>>

\* The draw fails: the request is forgotten, and a later refresh asks again.
DrawFails(r) ==
    /\ r \in renders /\ r.active
    /\ renders' = renders \ {r}
    /\ request' = IF r.owned THEN request \ {r.page} ELSE request
    /\ lost' = lost \cup {r.page}
    /\ UNCHANGED <<layout, scrolled, frame, pageVars, drawn, widths>>

User == \/ \E s \in Sizes : Resize(s)
        \/ \E p \in Pages : TurnPage(p)
        \/ (\E s \in Places : Scroll(s)) \/ SetMode
Frame == ScrollFrame \/ DrawPage \/ DrawNearby
Next == User \/ Frame \/ PageDrawn \/ PageFails
        \/ \E r \in renders : BeginDraw(r) \/ EndDraw(r) \/ DrawFails(r)

Spec == Init /\ [][Next]_vars

-----------------------------------------------------------------------------
\* A draw into a page's canvas: whether it is the one the service works on, how far it is,
\* and whether the canvas was not emptied since it began.
Draws == [page : Pages, size : Sizes, active : BOOLEAN, stage : {"get", "draw"}, intact : BOOLEAN,
          owned : BOOLEAN, others : BOOLEAN]

\* Types, and: the service works on one draw per canvas.
TypeOK ==
    /\ mode \in {"page", "scroll"} /\ page \in Pages /\ size \in Sizes /\ place \in Places
    /\ scrolled \in BOOLEAN /\ frame \in BOOLEAN /\ pending \in BOOLEAN
    /\ drawn \in [Pages -> Sizes \cup {None}] /\ widths \in [Pages -> Sizes \cup {None}]
    /\ lost \subseteq Pages /\ request \subseteq Pages /\ renders \subseteq Draws
    /\ \A r, q \in renders : r.page = q.page /\ r.active /\ q.active => r = q

AtRest == ~frame /\ ~scrolled /\ job = None /\ renders = {}

\* The page on the screen is never another one than the counter says, however late a
\* draw of an earlier page ends.
VisiblePageIsCurrent == mode = "page" /\ visible # None => visible.page = page

\* When nothing is under way, page mode shows the current page at the present size,
\* unless its draw failed: a draw that ends after a turn, a zoom or a change of mode
\* is thrown away, and the one then due is never forgotten.
PageModeSettles ==
    AtRest /\ mode = "page" /\ lost = {} => visible = [page |-> page, size |-> size]

\* When nothing is under way, scroll mode shows every page near the viewport at the
\* present size, apart from pages whose draw failed or was cut short by emptying its
\* canvas; and every canvas far from it is empty.
ScrollModeSettles ==
    AtRest /\ mode = "scroll" =>
        /\ \A p \in Near \ lost : drawn[p] = size
        /\ \A p \in Pages \ Kept : drawn[p] = None

\* A page that returns to the viewport is rendered again: one marked as rendered is
\* drawn.
MarkedPageIsDrawn == \A p \in Pages : widths[p] # None => drawn[p] = widths[p]

\* The browser runs its frames, and the PDF service ends each draw.
Fairness ==
    /\ WF_vars(ScrollFrame) /\ WF_vars(DrawPage \/ DrawNearby) /\ WF_vars(PageDrawn)
    /\ \A p \in Pages : WF_vars(\E r \in renders : r.page = p /\ (BeginDraw(r) \/ EndDraw(r)))
FairSpec == Spec /\ Fairness

\* A page that stays near the viewport is drawn in the end, however often the reader
\* goes on scrolling: refreshes do not restart its draw.
NearPageIsDrawn ==
    \A p \in Pages : \A s \in Sizes :
        <>[](mode = "scroll" /\ p \in Near /\ size = s /\ p \notin lost) => <>[](drawn[p] = s)
=============================================================================
