------------------------- MODULE ReaderRenderProofs -------------------------
(***************************************************************************)
(* The reader's drawing, for any pages, sizes, scroll places and number of *)
(* draws under way.                                                        *)
(*                                                                         *)
(* Page mode rests on one fact: between two frames, with no draw under way *)
(* and none that failed, the canvas shows what was asked for.              *)
(*                                                                         *)
(* Scroll mode rests on who owns a canvas.  The present request of a page  *)
(* waits for at most one draw, which is its only active one (OwnedDraw); a *)
(* page marked as rendered keeps its request, and no draw into its canvas  *)
(* is active any more (MarkedPage), so that nothing empties it.  A canvas  *)
(* emptied while it was drawn into counts as lost (CutDrawIsLost).  Then,  *)
(* as long as nothing has moved since the last frame, every page near the  *)
(* viewport is marked, drawn into or lost, and no page far from it has a   *)
(* request (NearAndFar).                                                   *)
(***************************************************************************)
EXTENDS ReaderRender, TLAPS

\* Page mode's canvas, and what renderVisible() remembers of it.
Canvas ==
  /\ visible # None => mode = "page" /\ visible.page = page
  /\ rendered # None => visible = rendered
  /\ mode = "page" => renders = {} /\ \A p \in Pages : widths[p] = None
  /\ mode = "page" /\ ~frame /\ job = None /\ lost = {} => visible = [page |-> page, size |-> size]

\* The draw the present request of its page waits for, and the draws of earlier requests.
OwnedDraw(r) ==
  /\ r.owned \/ r.others
  /\ r.owned => r.active /\ r.page \in request /\ widths[r.page] = None
  /\ r.active /\ ~r.owned => r.page \notin request

CutDrawIsLost(r) == r.active /\ r.stage = "draw" /\ ~r.intact => r.page \in lost

MarkedPage(p) ==
  widths[p] # None =>
    /\ widths[p] = size /\ p \in request
    /\ drawn[p] = size \/ p \in lost
    /\ \A r \in Drawing(p) : ~r.active

NearAndFar ==
  mode = "scroll" /\ ~frame /\ ~scrolled =>
    /\ \A p \in Near \ lost : widths[p] = size \/ \E r \in Drawing(p) : r.owned /\ r.size = size
    /\ \A p \in Pages \ Kept : drawn[p] = None /\ p \notin request

RenderInv ==
  /\ TypeOK
  /\ Canvas
  /\ \A r \in renders : OwnedDraw(r) /\ CutDrawIsLost(r)
  /\ \A p \in Pages : MarkedPage(p)
  /\ NearAndFar

----------------------------------------------------------------------------

LEMMA NearIsKept == TypeOK => Near \subseteq Kept /\ Kept \subseteq Pages
BY RenderAssumption DEF TypeOK, Near, Kept

LEMMA OutdatedDraw ==
  ASSUME NEW r \in Draws
  PROVE  /\ Outdated(r) \in Draws
         /\ Outdated(r).page = r.page /\ Outdated(r).size = r.size /\ Outdated(r).active = r.active
         /\ Outdated(r).stage = r.stage /\ Outdated(r).intact = r.intact
         /\ Outdated(r).owned = FALSE /\ Outdated(r).others = (r.others \/ r.owned)
BY DEF Outdated, Draws

LEMMA CutDraw ==
  ASSUME NEW r \in Draws
  PROVE  /\ Cut(r) \in Draws
         /\ Cut(r).page = r.page /\ Cut(r).size = r.size /\ Cut(r).active = r.active
         /\ Cut(r).stage = r.stage /\ Cut(r).intact = FALSE
         /\ Cut(r).owned = r.owned /\ Cut(r).others = r.others
BY DEF Cut, Draws

LEMMA InitRender == Init => RenderInv
<1> SUFFICES ASSUME Init PROVE RenderInv
  OBVIOUS
<1>1. TypeOK
  BY DEF Init, TypeOK
<1>2. Canvas
  BY DEF Init, Canvas
<1>3. \A p \in Pages : MarkedPage(p)
  BY DEF Init, MarkedPage
<1>4. NearAndFar
  BY DEF Init, NearAndFar
<1> QED
  BY <1>1, <1>2, <1>3, <1>4 DEF Init, RenderInv

\* What is left of the draws and canvases of scroll mode when a generation ends.
LEMMA NothingOwned ==
  ASSUME TypeOK', NEW rs \in SUBSET Draws, renders' = {Outdated(r) : r \in rs}, request' = {},
         widths' = [p \in Pages |-> None],
         \A r \in rs : r.owned \/ r.others,
         \A r \in rs : CutDrawIsLost(r), lost' = lost
  PROVE  /\ \A r \in renders' : (OwnedDraw(r) /\ CutDrawIsLost(r))'
         /\ \A p \in Pages : MarkedPage(p)'
<1>1. ASSUME NEW r \in renders' PROVE (OwnedDraw(r) /\ CutDrawIsLost(r))'
  <2>1. PICK q \in rs : r = Outdated(q)
    OBVIOUS
  <2>2. q \in Draws /\ (q.owned \/ q.others) /\ CutDrawIsLost(q)
    OBVIOUS
  <2>3. /\ r.page = q.page /\ r.active = q.active /\ r.stage = q.stage /\ r.intact = q.intact
        /\ r.owned = FALSE /\ r.others
    BY <2>1, <2>2, OutdatedDraw
  <2>4. OwnedDraw(r)'
    BY <2>3 DEF OwnedDraw
  <2>5. CutDrawIsLost(r)'
    BY <2>2, <2>3 DEF CutDrawIsLost
  <2> QED
    BY <2>4, <2>5
<1> QED
  BY <1>1 DEF MarkedPage

LEMMA ResizeKeeps == ASSUME RenderInv, NEW s \in Sizes, Resize(s) PROVE RenderInv'
<1> USE DEF RenderInv
<1>1. /\ renders' = {Outdated(r) : r \in renders} /\ request' = {} /\ rendered' = None
      /\ widths' = [p \in Pages |-> None] /\ frame' = TRUE /\ size' = s
      /\ UNCHANGED <<mode, page, place, scrolled, visible, pending, drawn, lost>>
  BY DEF Resize, NewGeneration
<1>2. TypeOK'
  <2>1. renders' \subseteq Draws
    BY <1>1, OutdatedDraw DEF TypeOK
  <2>2. \A r, q \in renders' : r.page = q.page /\ r.active /\ q.active => r = q
    <3> SUFFICES ASSUME NEW r \in renders, NEW q \in renders, Outdated(r).page = Outdated(q).page,
                        Outdated(r).active, Outdated(q).active
                 PROVE  r = q
      BY <1>1
    <3>1. r \in Draws /\ q \in Draws
      BY DEF TypeOK
    <3>2. r.page = q.page /\ r.active /\ q.active
      BY <3>1, OutdatedDraw
    <3> QED
      BY <3>2 DEF TypeOK
  <2> QED
    BY <1>1, <2>1, <2>2 DEF TypeOK
<1>3. Canvas'
  BY <1>1 DEF Canvas
<1>4. /\ \A r \in renders' : (OwnedDraw(r) /\ CutDrawIsLost(r))'
      /\ \A p \in Pages : MarkedPage(p)'
  BY <1>1, <1>2, NothingOwned DEF TypeOK, OwnedDraw
<1>5. NearAndFar'
  BY <1>1 DEF NearAndFar
<1> QED
  BY <1>2, <1>3, <1>4, <1>5

\* Steps that leave the canvases of scroll mode alone.
LEMMA ScrollPartKept ==
  ASSUME RenderInv, UNCHANGED <<size, drawn, widths, request, renders, lost>>
  PROVE  /\ \A r \in renders' : (OwnedDraw(r) /\ CutDrawIsLost(r))'
         /\ \A p \in Pages : MarkedPage(p)'
<1>1. \A r \in renders : OwnedDraw(r)' /\ CutDrawIsLost(r)'
  BY DEF RenderInv, OwnedDraw, CutDrawIsLost
<1>2. \A p \in Pages : MarkedPage(p)'
  BY DEF RenderInv, MarkedPage, Drawing
<1> QED
  BY <1>1, <1>2

LEMMA TurnPageKeeps == ASSUME RenderInv, NEW p \in Pages, TurnPage(p) PROVE RenderInv'
<1>1. TypeOK'
  BY DEF RenderInv, TypeOK, TurnPage, scrollVars
<1>2. Canvas'
  BY DEF RenderInv, Canvas, TurnPage, scrollVars
<1>3. NearAndFar'
  BY DEF NearAndFar, TurnPage
<1> QED
  BY <1>1, <1>2, <1>3, ScrollPartKept DEF TurnPage, scrollVars, RenderInv

LEMMA ScrollKeeps == ASSUME RenderInv, NEW s \in Places, Scroll(s) PROVE RenderInv'
<1>1. TypeOK'
  BY DEF RenderInv, TypeOK, Scroll, scrollVars, pageVars
<1>2. Canvas'
  BY DEF RenderInv, Canvas, Scroll, scrollVars, pageVars
<1>3. NearAndFar'
  BY DEF NearAndFar, Scroll
<1> QED
  BY <1>1, <1>2, <1>3, ScrollPartKept DEF Scroll, scrollVars, RenderInv

LEMMA ScrollFrameKeeps == ASSUME RenderInv, ScrollFrame PROVE RenderInv'
<1>1. TypeOK'
  BY RenderAssumption DEF RenderInv, TypeOK, ScrollFrame, scrollVars, pageVars
<1>2. Canvas'
  BY DEF RenderInv, Canvas, ScrollFrame, scrollVars, pageVars
<1>3. NearAndFar'
  BY DEF NearAndFar, ScrollFrame
<1> QED
  BY <1>1, <1>2, <1>3, ScrollPartKept DEF ScrollFrame, scrollVars, RenderInv

LEMMA SetModeKeeps == ASSUME RenderInv, SetMode PROVE RenderInv'
<1>1. /\ renders' = {} /\ request' = {} /\ rendered' = None /\ visible' = None /\ lost' = {}
      /\ widths' = [p \in Pages |-> None] /\ drawn' = [p \in Pages |-> None] /\ frame' = TRUE
      /\ UNCHANGED <<size, scrolled, pending>>
  BY DEF SetMode, NewGeneration
<1>2. TypeOK'
  <2>1. mode' \in {"page", "scroll"}
    BY DEF SetMode
  <2>2. page' \in Pages
    BY RenderAssumption DEF SetMode, RenderInv, TypeOK
  <2>3. place' \in Places
    <3>1. NoPlace \in Places
      BY DEF RenderInv, TypeOK, NoPlace
    <3> QED
      BY <3>1 DEF SetMode
  <2> QED
    BY <1>1, <2>1, <2>2, <2>3 DEF RenderInv, TypeOK
<1>3. Canvas'
  BY <1>1 DEF Canvas
<1>4. (\A r \in renders : OwnedDraw(r) /\ CutDrawIsLost(r))'
  BY <1>1
<1>5. (\A p \in Pages : MarkedPage(p))'
  BY <1>1 DEF MarkedPage
<1>6. NearAndFar'
  BY <1>1 DEF NearAndFar
<1> QED
  BY <1>2, <1>3, <1>4, <1>5, <1>6 DEF RenderInv

----------------------------------------------------------------------------

\* A job is never taken for none.
LEMMA JobIsSome ==
  ASSUME NEW p \in Pages, NEW s \in Sizes
  PROVE  [page |-> p, size |-> s] # None /\ [page |-> p, size |-> s, current |-> TRUE] # None
<1>1. /\ [page |-> p, size |-> s] \in [page : Pages, size : Sizes]
      /\ [page |-> p, size |-> s, current |-> TRUE] \in
           [page : Pages \cup {None}, size : Sizes \cup {None}, current : BOOLEAN]
  OBVIOUS
<1> QED
  BY <1>1, RenderAssumption

LEMMA DrawPageKeeps == ASSUME RenderInv, DrawPage PROVE RenderInv'
<1>1. TypeOK'
  BY DEF RenderInv, TypeOK, DrawPage, layout, scrollVars, pageVars
<1>2. Canvas'
  <2> USE DEF RenderInv, DrawPage, layout, scrollVars, pageVars
  <2>1. CASE job # None
    BY <2>1 DEF Canvas
  <2>2. CASE job = None /\ rendered = [page |-> page, size |-> size]
    <3>1. visible = [page |-> page, size |-> size]
      BY <2>2, JobIsSome DEF Canvas, TypeOK
    <3> QED
      BY <2>2, <3>1 DEF Canvas
  <2>3. CASE job = None /\ rendered # [page |-> page, size |-> size]
    <3>1. job' # None
      BY <2>3, JobIsSome DEF TypeOK
    <3> QED
      BY <2>3, <3>1 DEF Canvas
  <2> QED
    BY <2>1, <2>2, <2>3
<1>3. NearAndFar'
  BY DEF NearAndFar, DrawPage, layout
<1> QED
  BY <1>1, <1>2, <1>3, ScrollPartKept DEF DrawPage, layout, scrollVars, RenderInv

\* The page's draw ends, well or not.
LEMMA PageDrawnKeeps == ASSUME RenderInv, PageDrawn PROVE RenderInv'
<1> USE DEF RenderInv, PageDrawn, AgainAfter, layout, scrollVars
<1>1. TypeOK'
  BY DEF TypeOK
<1>2. Canvas'
  <2>1. CASE StillWanted(job)
    BY <2>1 DEF Canvas, StillWanted, DrawnPage
  <2>2. CASE ~StillWanted(job)
    BY <2>2 DEF Canvas
  <2> QED
    BY <2>1, <2>2
<1>3. CASE StillWanted(job)
  <2>1. mode = "page" /\ mode' = "page" /\ renders' = {} /\ \A p \in Pages : widths'[p] = None
    BY <1>3 DEF StillWanted, Canvas
  <2>2. (\A r \in renders : OwnedDraw(r) /\ CutDrawIsLost(r))' /\ (\A p \in Pages : MarkedPage(p))'
    BY <2>1 DEF MarkedPage
  <2>3. NearAndFar'
    BY <2>1 DEF NearAndFar
  <2> QED
    BY <1>1, <1>2, <2>2, <2>3
<1>4. CASE ~StillWanted(job)
  <2>1. NearAndFar'
    BY <1>4 DEF NearAndFar, Drawing, Near, Kept
  <2> QED
    BY <1>1, <1>2, <1>4, <2>1, ScrollPartKept
<1> QED
  BY <1>3, <1>4

LEMMA PageFailsKeeps == ASSUME RenderInv, PageFails PROVE RenderInv'
<1> USE DEF RenderInv, PageFails, AgainAfter, layout, scrollVars
<1>1. lost \subseteq lost' /\ (~StillWanted(job) => lost' = lost) /\ (StillWanted(job) => lost' # {})
  OBVIOUS
<1>2. TypeOK'
  BY DEF TypeOK, StillWanted
<1>3. Canvas'
  BY <1>1 DEF Canvas
<1>4. CASE StillWanted(job)
  <2>1. mode = "page" /\ mode' = "page" /\ renders' = {} /\ \A p \in Pages : widths'[p] = None
    BY <1>4 DEF StillWanted, Canvas
  <2>2. (\A r \in renders : OwnedDraw(r) /\ CutDrawIsLost(r))' /\ (\A p \in Pages : MarkedPage(p))'
    BY <2>1 DEF MarkedPage
  <2>3. NearAndFar'
    BY <2>1 DEF NearAndFar
  <2> QED
    BY <1>2, <1>3, <2>2, <2>3
<1>5. CASE ~StillWanted(job)
  <2>1. NearAndFar'
    BY <1>5 DEF NearAndFar, Drawing, Near, Kept
  <2> QED
    BY <1>2, <1>3, <1>5, <2>1, ScrollPartKept
<1> QED
  BY <1>4, <1>5

----------------------------------------------------------------------------
(***************************************************************************)
(* A refresh of scroll mode, page by page.                                 *)
(***************************************************************************)

SharedOf(r) == [Outdated(r) EXCEPT !.owned = TRUE]
CancelledOf(r) == [Outdated(r) EXCEPT !.active = FALSE]

\* What a draw is after a refresh that does not ask for its page.
Unasked(p, q) ==
  \E r \in Drawing(p) : q = (IF Far(p) THEN Cut(Outdated(r)) ELSE r)

\* What it is after one that asks: the draw already active, at the right size, or a new one;
\* the others are cancelled or no longer owned.
Asked(p, q) ==
  \/ /\ \E r \in Drawing(p) : Shares(r)
     /\ \E r \in Drawing(p) : q = (IF Shares(r) THEN SharedOf(r) ELSE Outdated(r))
  \/ /\ ~\E r \in Drawing(p) : Shares(r)
     /\ \/ q = Started(p)
        \/ \E r \in Drawing(p) : q = CancelledOf(r)

LEMMA AfterIs ==
  ASSUME NEW p \in Pages, NEW q
  PROVE  q \in After(p) <=> IF p \in Asks THEN Asked(p, q) ELSE Unasked(p, q)
<1>1. CASE p \in Asks /\ \E r \in Drawing(p) : Shares(r)
  BY <1>1 DEF After, Asked, SharedOf, CancelledOf
<1>2. CASE p \in Asks /\ ~\E r \in Drawing(p) : Shares(r)
  BY <1>2 DEF After, Asked, SharedOf, CancelledOf
<1>3. CASE p \notin Asks /\ Far(p)
  BY <1>3 DEF After, Unasked
<1>4. CASE p \notin Asks /\ ~Far(p)
  BY <1>4 DEF After, Unasked
<1> QED
  BY <1>1, <1>2, <1>3, <1>4

LEMMA StartedDraw ==
  ASSUME NEW p \in Pages, size \in Sizes
  PROVE  /\ Started(p) \in Draws
         /\ Started(p).page = p /\ Started(p).size = size /\ Started(p).active /\ Started(p).stage = "get"
         /\ Started(p).owned
BY DEF Started, Draws

LEMMA SharedDraw ==
  ASSUME NEW r \in Draws
  PROVE  /\ SharedOf(r) \in Draws /\ SharedOf(r).page = r.page /\ SharedOf(r).size = r.size
         /\ SharedOf(r).active = r.active /\ SharedOf(r).stage = r.stage
         /\ SharedOf(r).intact = r.intact /\ SharedOf(r).owned
<1> DEFINE b == Outdated(r)
<1>1. /\ b \in Draws /\ b.page = r.page /\ b.size = r.size /\ b.active = r.active
      /\ b.stage = r.stage /\ b.intact = r.intact
  BY OutdatedDraw
<1>2. SharedOf(r) = [b EXCEPT !.owned = TRUE]
  BY DEF SharedOf
<1> HIDE DEF b
<1>3. SharedOf(r) \in Draws
  BY <1>1, <1>2 DEF Draws
<1>4. /\ SharedOf(r).page = b.page /\ SharedOf(r).size = b.size /\ SharedOf(r).stage = b.stage
      /\ SharedOf(r).owned = TRUE
  BY <1>1, <1>2 DEF Draws
<1>5. SharedOf(r).active = b.active /\ SharedOf(r).intact = b.intact
  BY <1>1, <1>2 DEF Draws
<1> QED
  BY <1>1, <1>3, <1>4, <1>5

LEMMA CancelledDraw ==
  ASSUME NEW r \in Draws
  PROVE  /\ CancelledOf(r) \in Draws /\ CancelledOf(r).page = r.page
         /\ ~CancelledOf(r).active /\ ~CancelledOf(r).owned
         /\ CancelledOf(r).others = (r.others \/ r.owned)
<1> DEFINE b == Outdated(r)
<1>1. b \in Draws /\ b.page = r.page /\ b.owned = FALSE /\ b.others = (r.others \/ r.owned)
  BY OutdatedDraw
<1>2. CancelledOf(r) = [b EXCEPT !.active = FALSE]
  BY DEF CancelledOf
<1> HIDE DEF b
<1>3. CancelledOf(r) \in Draws
  BY <1>1, <1>2 DEF Draws
<1>4. CancelledOf(r).page = b.page /\ CancelledOf(r).active = FALSE
  BY <1>1, <1>2 DEF Draws
<1>5. CancelledOf(r).owned = b.owned /\ CancelledOf(r).others = b.others
  BY <1>1, <1>2 DEF Draws
<1> QED
  BY <1>1, <1>3, <1>4, <1>5

\* The draws of one page after the refresh.
DrawsAfter(p) ==
  /\ \A q \in After(p) : q \in Draws /\ q.page = p
  /\ \A q, r \in After(p) : q.active /\ r.active => q = r
  /\ \A q \in After(p) : OwnedDraw(q)' /\ CutDrawIsLost(q)'
  /\ p \in Asks => \E q \in After(p) : q.owned /\ q.size = size
  /\ p \notin Asks /\ ~Far(p) => After(p) = Drawing(p)

LEMMA NearbyFacts ==
  ASSUME RenderInv, DrawNearby, NEW p \in Pages
  PROVE  /\ Drawing(p) \subseteq Draws /\ \A r \in Drawing(p) : r.page = p
         /\ \A r, q \in Drawing(p) : r.active /\ q.active => r = q
         /\ \A r \in Drawing(p) : OwnedDraw(r) /\ CutDrawIsLost(r)
         /\ p \in Asks => widths[p] = None /\ widths'[p] = None /\ p \in request' /\ ~Far(p)
         /\ Far(p) => p \notin Asks /\ p \notin request' /\ widths'[p] = None /\ drawn'[p] = None
         /\ ~Far(p) => widths'[p] = widths[p] /\ drawn'[p] = drawn[p]
         /\ ~Far(p) /\ p \notin Asks => (p \in request' <=> p \in request)
         /\ lost \subseteq lost'
<1>1. Drawing(p) \subseteq renders /\ \A r \in Drawing(p) : r.page = p
  BY DEF Drawing
<1>2. p \in Asks => widths[p] = None /\ ~Far(p)
  BY NearIsKept DEF RenderInv, MarkedPage, Asks, Far
<1>3. /\ widths'[p] = (IF Far(p) THEN None ELSE widths[p]) /\ drawn'[p] = (IF Far(p) THEN None ELSE drawn[p])
      /\ request' = (request \cap Kept) \cup Asks /\ lost \subseteq lost'
  BY DEF DrawNearby
<1> QED
  BY <1>1, <1>2, <1>3 DEF RenderInv, TypeOK, Far

LEMMA NearbyPage ==
  ASSUME RenderInv, DrawNearby, NEW p \in Pages
  PROVE  DrawsAfter(p)
<1>1. /\ Drawing(p) \subseteq Draws /\ \A r \in Drawing(p) : r.page = p
      /\ \A r, q \in Drawing(p) : r.active /\ q.active => r = q
      /\ \A r \in Drawing(p) : OwnedDraw(r) /\ CutDrawIsLost(r)
      /\ p \in Asks => widths[p] = None /\ widths'[p] = None /\ p \in request' /\ ~Far(p)
      /\ Far(p) => p \notin Asks /\ p \notin request' /\ widths'[p] = None /\ drawn'[p] = None
      /\ ~Far(p) => widths'[p] = widths[p] /\ drawn'[p] = drawn[p]
      /\ ~Far(p) /\ p \notin Asks => (p \in request' <=> p \in request)
      /\ lost \subseteq lost'
  BY NearbyFacts
<1>s. size \in Sizes
  BY DEF RenderInv, TypeOK
<1>2. CASE p \in Asks /\ \E r \in Drawing(p) : Shares(r)
  <2>1. \A q \in After(p) : \E r \in Drawing(p) :
          q = (IF Shares(r) THEN SharedOf(r) ELSE Outdated(r))
    BY <1>2, AfterIs DEF Asked
  <2>2. ASSUME NEW r \in Drawing(p), NEW q,
               q = (IF Shares(r) THEN SharedOf(r) ELSE Outdated(r))
        PROVE  /\ q \in Draws /\ q.page = p /\ q.active = r.active /\ q.stage = r.stage
               /\ q.intact = r.intact /\ q.size = r.size
               /\ Shares(r) => q.owned
               /\ ~Shares(r) => ~q.owned /\ q.others
    <3>1. r \in Draws /\ r.page = p /\ (r.owned \/ r.others)
      BY <1>1 DEF OwnedDraw
    <3>2. CASE Shares(r)
      BY <2>2, <3>1, <3>2, SharedDraw
    <3>3. CASE ~Shares(r)
      BY <2>2, <3>1, <3>3, OutdatedDraw
    <3> QED
      BY <3>2, <3>3
  <2>3. PICK s \in Drawing(p) : Shares(s)
    BY <1>2
  <2>4. \A r \in Drawing(p) : r.active <=> Shares(r)
    BY <1>1, <2>3 DEF Shares
  <2>5. \A q \in After(p) : q \in Draws /\ q.page = p
    BY <2>1, <2>2
  <2>6. \A q, r \in After(p) : q.active /\ r.active => q = r
    <3> SUFFICES ASSUME NEW q \in After(p), NEW r \in After(p), q.active, r.active PROVE q = r
      OBVIOUS
    <3>1. PICK a \in Drawing(p) : q = (IF Shares(a) THEN SharedOf(a) ELSE Outdated(a))
      BY <2>1
    <3>2. PICK b \in Drawing(p) : r = (IF Shares(b) THEN SharedOf(b) ELSE Outdated(b))
      BY <2>1
    <3>3. a.active /\ b.active
      BY <2>2, <3>1, <3>2
    <3> QED
      BY <1>1, <3>1, <3>2, <3>3
  <2>7. ASSUME NEW q \in After(p) PROVE OwnedDraw(q)' /\ CutDrawIsLost(q)'
    <3>1. PICK r \in Drawing(p) : q = (IF Shares(r) THEN SharedOf(r) ELSE Outdated(r))
      BY <2>1
    <3>2. /\ q.page = p /\ q.active = r.active /\ q.stage = r.stage /\ q.intact = r.intact
          /\ Shares(r) => q.owned
          /\ ~Shares(r) => ~q.owned /\ q.others
      BY <2>2, <3>1
    <3>3. OwnedDraw(q)'
      BY <1>1, <1>2, <2>4, <3>2 DEF OwnedDraw
    <3>4. CutDrawIsLost(q)'
      BY <1>1, <3>2 DEF CutDrawIsLost
    <3> QED
      BY <3>3, <3>4
  <2>8. \E q \in After(p) : q.owned /\ q.size = size
    <3> DEFINE q == SharedOf(s)
    <3>1. q \in After(p)
      BY <1>2, <2>3, AfterIs DEF Asked
    <3>2. q.owned /\ q.size = s.size
      BY <1>1, SharedDraw
    <3> HIDE DEF q
    <3> QED
      BY <2>3, <3>1, <3>2 DEF Shares
  <2> QED
    BY <1>2, <2>5, <2>6, <2>7, <2>8 DEF DrawsAfter
<1>3. CASE p \in Asks /\ ~\E r \in Drawing(p) : Shares(r)
  <2>1. ASSUME NEW q \in After(p), q # Started(p)
        PROVE  q \in Draws /\ q.page = p /\ ~q.active /\ ~q.owned /\ q.others
    <3>1. PICK r \in Drawing(p) : q = CancelledOf(r)
      BY <1>3, <2>1, AfterIs DEF Asked
    <3>2. r \in Draws /\ r.page = p /\ (r.owned \/ r.others)
      BY <1>1 DEF OwnedDraw
    <3> QED
      BY <3>1, <3>2, CancelledDraw
  <2>2. Started(p) \in After(p)
    BY <1>3, AfterIs DEF Asked
  <2>3. /\ Started(p) \in Draws /\ Started(p).page = p /\ Started(p).size = size /\ Started(p).active
        /\ Started(p).stage = "get" /\ Started(p).owned
    BY <1>s, StartedDraw
  <2>4. ASSUME NEW q \in After(p) PROVE OwnedDraw(q)' /\ CutDrawIsLost(q)'
    <3>1. CASE q = Started(p)
      BY <1>1, <1>3, <2>3, <3>1 DEF OwnedDraw, CutDrawIsLost
    <3>2. CASE q # Started(p)
      BY <2>1, <3>2 DEF OwnedDraw, CutDrawIsLost
    <3> QED
      BY <3>1, <3>2
  <2>5. \A q \in After(p) : q \in Draws /\ q.page = p
    BY <2>1, <2>3
  <2>6. \A q, r \in After(p) : q.active /\ r.active => q = r
    BY <2>1
  <2> QED
    BY <1>3, <2>2, <2>3, <2>4, <2>5, <2>6 DEF DrawsAfter
<1>4. CASE p \notin Asks /\ Far(p)
  <2>1. \A q \in After(p) : \E r \in Drawing(p) : q = Cut(Outdated(r))
    BY <1>4, AfterIs DEF Unasked
  <2>2. ASSUME NEW r \in Drawing(p), NEW q, q = Cut(Outdated(r))
        PROVE  /\ q \in Draws /\ q.page = p /\ q.active = r.active /\ q.stage = r.stage
               /\ ~q.owned /\ q.others
    <3>1. r \in Draws /\ r.page = p /\ (r.owned \/ r.others)
      BY <1>1 DEF OwnedDraw
    <3>2. /\ Outdated(r) \in Draws /\ Outdated(r).page = p /\ Outdated(r).active = r.active
          /\ Outdated(r).stage = r.stage /\ ~Outdated(r).owned /\ Outdated(r).others
      BY <3>1, OutdatedDraw
    <3> QED
      BY <2>2, <3>2, CutDraw
  <2>3. \A r \in Drawing(p) : r.active /\ r.stage = "draw" => p \in lost'
    BY <1>4 DEF DrawNearby, CutsShort
  <2>4. ASSUME NEW q \in After(p) PROVE OwnedDraw(q)' /\ CutDrawIsLost(q)'
    <3>1. PICK r \in Drawing(p) : q = Cut(Outdated(r))
      BY <2>1
    <3>2. q.page = p /\ q.active = r.active /\ q.stage = r.stage /\ ~q.owned /\ q.others
      BY <2>2, <3>1
    <3>3. OwnedDraw(q)'
      BY <1>1, <1>4, <3>2 DEF OwnedDraw
    <3>4. CutDrawIsLost(q)'
      BY <2>3, <3>2 DEF CutDrawIsLost
    <3> QED
      BY <3>3, <3>4
  <2>5. \A q, r \in After(p) : q.active /\ r.active => q = r
    <3> SUFFICES ASSUME NEW q \in After(p), NEW r \in After(p), q.active, r.active PROVE q = r
      OBVIOUS
    <3>1. PICK a \in Drawing(p) : q = Cut(Outdated(a))
      BY <2>1
    <3>2. PICK b \in Drawing(p) : r = Cut(Outdated(b))
      BY <2>1
    <3>3. a.active /\ b.active
      BY <2>2, <3>1, <3>2
    <3> QED
      BY <1>1, <3>1, <3>2, <3>3
  <2>6. \A q \in After(p) : q \in Draws /\ q.page = p
    BY <2>1, <2>2
  <2> QED
    BY <1>4, <2>4, <2>5, <2>6 DEF DrawsAfter
<1>5. CASE p \notin Asks /\ ~Far(p)
  <2>1. After(p) = Drawing(p)
    BY <1>5 DEF After
  <2>2. ASSUME NEW q \in Drawing(p) PROVE OwnedDraw(q)' /\ CutDrawIsLost(q)'
    <3>1. q.page = p /\ OwnedDraw(q) /\ CutDrawIsLost(q)
      BY <1>1
    <3>2. OwnedDraw(q)'
      BY <1>1, <1>5, <3>1 DEF OwnedDraw
    <3>3. CutDrawIsLost(q)'
      BY <1>1, <3>1 DEF CutDrawIsLost
    <3> QED
      BY <3>2, <3>3
  <2> QED
    BY <1>1, <1>5, <2>1, <2>2 DEF DrawsAfter
<1> QED
  BY <1>2, <1>3, <1>4, <1>5

LEMMA DrawNearbyKeeps == ASSUME RenderInv, DrawNearby PROVE RenderInv'
<1>1. /\ mode = "scroll" /\ frame' = FALSE /\ UNCHANGED <<layout, scrolled, pageVars>>
      /\ renders' = UNION {After(p) : p \in Pages}
      /\ drawn' = [p \in Pages |-> IF Far(p) THEN None ELSE drawn[p]]
      /\ widths' = [p \in Pages |-> IF Far(p) THEN None ELSE widths[p]]
      /\ request' = (request \cap Kept) \cup Asks
      /\ lost' = lost \cup {p \in Pages : Far(p) /\ CutsShort(Drawing(p))}
  BY DEF DrawNearby
<1>2. \A p \in Pages : DrawsAfter(p)
  BY NearbyPage
<1>3. \A p \in Pages : \A q : q \in renders' /\ q.page = p <=> q \in After(p)
  BY <1>1, <1>2 DEF DrawsAfter
<1>4. \A q \in renders' : q.page \in Pages /\ q \in After(q.page)
  BY <1>1, <1>2 DEF DrawsAfter
<1>5. \A p \in Pages : Drawing(p)' = After(p)
  BY <1>3 DEF Drawing
<1>6. TypeOK'
  <2>1. renders' \subseteq Draws
    BY <1>2, <1>4 DEF DrawsAfter
  <2>2. \A r, q \in renders' : r.page = q.page /\ r.active /\ q.active => r = q
    BY <1>2, <1>4 DEF DrawsAfter
  <2>3. request' \subseteq Pages /\ lost' \subseteq Pages
    BY <1>1, NearIsKept DEF RenderInv, TypeOK, Asks
  <2>4. drawn' \in [Pages -> Sizes \cup {None}] /\ widths' \in [Pages -> Sizes \cup {None}]
    BY <1>1 DEF RenderInv, TypeOK
  <2> QED
    BY <1>1, <2>1, <2>2, <2>3, <2>4 DEF RenderInv, TypeOK, layout, pageVars
<1>7. Canvas'
  BY <1>1 DEF RenderInv, Canvas, layout, pageVars
<1>8. (\A r \in renders : OwnedDraw(r) /\ CutDrawIsLost(r))'
  <2>1. \A q \in renders' : OwnedDraw(q)' /\ CutDrawIsLost(q)'
    BY <1>2, <1>4 DEF DrawsAfter
  <2> QED
    BY <2>1
<1>9. ASSUME NEW p \in Pages PROVE MarkedPage(p)'
  <2>1. /\ p \in Asks => widths'[p] = None
        /\ Far(p) => p \notin Asks /\ widths'[p] = None
        /\ ~Far(p) => widths'[p] = widths[p] /\ drawn'[p] = drawn[p]
        /\ ~Far(p) /\ p \notin Asks => (p \in request' <=> p \in request)
        /\ lost \subseteq lost'
    BY NearbyFacts
  <2>2. CASE p \in Asks \/ Far(p)
    BY <2>1, <2>2 DEF MarkedPage
  <2>3. CASE p \notin Asks /\ ~Far(p)
    <3>1. Drawing(p)' = Drawing(p)
      BY <1>2, <1>5, <2>3 DEF DrawsAfter
    <3>2. MarkedPage(p) /\ size' = size
      BY <1>1 DEF RenderInv, layout
    <3> QED
      BY <2>1, <2>3, <3>1, <3>2 DEF MarkedPage
  <2> QED
    BY <2>2, <2>3
<1>10. NearAndFar'
  <2>1. Near' = Near /\ Kept' = Kept /\ size' = size /\ Near \subseteq Kept /\ Kept \subseteq Pages
        /\ \A p \in Pages : Far(p) <=> p \notin Kept
    BY <1>1, NearIsKept DEF Near, Kept, layout, RenderInv, Far
  <2>2. ASSUME NEW p \in Near, p \notin lost'
        PROVE  widths'[p] = size \/ \E r \in Drawing(p)' : r.owned /\ r.size = size
    <3>1. p \in Pages /\ ~Far(p)
      BY <2>1
    <3>2. CASE p \in Asks
      BY <1>2, <1>5, <3>1, <3>2 DEF DrawsAfter
    <3>3. CASE p \notin Asks
      <4>1. widths[p] = size \/ UnderWay(p)
        BY <3>3 DEF Asks
      <4>2. Drawing(p)' = Drawing(p) /\ widths'[p] = widths[p]
        BY <1>1, <1>2, <1>5, <3>1, <3>3 DEF DrawsAfter
      <4> QED
        BY <4>1, <4>2 DEF UnderWay
    <3> QED
      BY <3>2, <3>3
  <2>3. ASSUME NEW p \in Pages, p \notin Kept PROVE drawn'[p] = None /\ p \notin request'
    BY <2>1, <2>3, NearbyFacts
  <2> QED
    BY <2>1, <2>2, <2>3 DEF NearAndFar
<1> QED
  BY <1>6, <1>7, <1>8, <1>9, <1>10 DEF RenderInv

----------------------------------------------------------------------------
(***************************************************************************)
(* The draws of scroll mode begin and end.                                 *)
(***************************************************************************)

LEMMA BeginDrawKeeps == ASSUME RenderInv, NEW r \in renders, BeginDraw(r) PROVE RenderInv'
<1> DEFINE b == [r EXCEPT !.stage = "draw", !.intact = TRUE]
<1>1. /\ r \in Draws /\ r.active /\ r.page \in Pages
      /\ OwnedDraw(r) /\ MarkedPage(r.page)
      /\ renders \subseteq Draws
  BY DEF BeginDraw, RenderInv, TypeOK, Draws
<1>2. /\ b \in Draws /\ b.page = r.page /\ b.size = r.size /\ b.active = r.active
      /\ b.stage = "draw" /\ b.intact = TRUE /\ b.owned = r.owned /\ b.others = r.others
  BY <1>1 DEF Draws
<1>3. renders' = (renders \ {r}) \cup {b} /\ drawn' = [drawn EXCEPT ![r.page] = None]
      /\ UNCHANGED <<layout, scrolled, frame, pageVars, widths, request, lost>>
  BY DEF BeginDraw
<1> HIDE DEF b
<1>4. TypeOK'
  <2>1. renders' \subseteq Draws
    BY <1>1, <1>2, <1>3
  <2>2. \A p, q \in renders' : p.page = q.page /\ p.active /\ q.active => p = q
    BY <1>1, <1>2, <1>3 DEF RenderInv, TypeOK
  <2>3. drawn' \in [Pages -> Sizes \cup {None}]
    BY <1>3 DEF RenderInv, TypeOK
  <2> QED
    BY <1>3, <2>1, <2>2, <2>3 DEF RenderInv, TypeOK, layout, pageVars
<1>5. Canvas'
  BY <1>1, <1>3 DEF RenderInv, Canvas, layout, pageVars
<1>6. (\A q \in renders : OwnedDraw(q) /\ CutDrawIsLost(q))'
  <2>1. ASSUME NEW q \in renders' PROVE OwnedDraw(q)' /\ CutDrawIsLost(q)'
    <3>1. CASE q = b
      BY <1>1, <1>2, <1>3, <3>1 DEF OwnedDraw, CutDrawIsLost
    <3>2. CASE q # b
      <4>1. OwnedDraw(q) /\ CutDrawIsLost(q)
        BY <1>3, <3>2 DEF RenderInv
      <4> QED
        BY <1>3, <4>1 DEF OwnedDraw, CutDrawIsLost
    <3> QED
      BY <3>1, <3>2
  <2> QED
    BY <2>1
<1>7. widths[r.page] = None
  BY <1>1 DEF MarkedPage, Drawing
<1>8. ASSUME NEW p \in Pages PROVE MarkedPage(p)'
  <2>1. CASE p = r.page
    BY <1>3, <1>7, <2>1 DEF MarkedPage
  <2>2. CASE p # r.page
    <3>1. Drawing(p)' = Drawing(p) /\ drawn'[p] = drawn[p]
      BY <1>2, <1>3, <2>2 DEF Drawing, RenderInv, TypeOK
    <3>2. MarkedPage(p)
      BY DEF RenderInv
    <3> QED
      BY <1>3, <3>1, <3>2 DEF MarkedPage, layout
  <2> QED
    BY <2>1, <2>2
<1>9. NearAndFar'
  <2>1. Near' = Near /\ Kept' = Kept /\ Near \subseteq Pages
    BY <1>3, NearIsKept DEF Near, Kept, layout, RenderInv
  <2>2. ASSUME NEW p \in Pages, NEW q \in Drawing(p), q.owned, q.size = size
        PROVE  \E d \in Drawing(p)' : d.owned /\ d.size = size
    <3>1. CASE q = r
      BY <1>2, <1>3, <2>2, <3>1 DEF Drawing
    <3>2. CASE q # r
      BY <1>3, <2>2, <3>2 DEF Drawing
    <3> QED
      BY <3>1, <3>2
  <2>3. \A p \in Pages : drawn[p] = None => drawn'[p] = None
    BY <1>3 DEF RenderInv, TypeOK
  <2> QED
    BY <1>3, <2>1, <2>2, <2>3 DEF RenderInv, NearAndFar, layout
<1> QED
  BY <1>4, <1>5, <1>6, <1>8, <1>9 DEF RenderInv

LEMMA DrawFailsKeeps == ASSUME RenderInv, NEW r \in renders, DrawFails(r) PROVE RenderInv'
<1>1. /\ r \in Draws /\ r.active /\ r.page \in Pages /\ OwnedDraw(r) /\ MarkedPage(r.page)
      /\ \A q \in renders : q.page = r.page /\ q.active => q = r
  BY DEF DrawFails, RenderInv, TypeOK, Draws
<1>2. /\ renders' = renders \ {r} /\ lost' = lost \cup {r.page}
      /\ request' = (IF r.owned THEN request \ {r.page} ELSE request)
      /\ UNCHANGED <<layout, scrolled, frame, pageVars, drawn, widths>>
  BY DEF DrawFails
<1>3. TypeOK'
  BY <1>1, <1>2 DEF RenderInv, TypeOK, layout, pageVars
<1>4. Canvas'
  BY <1>1, <1>2 DEF RenderInv, Canvas, layout, pageVars
<1>5. (\A q \in renders : OwnedDraw(q) /\ CutDrawIsLost(q))'
  <2>1. ASSUME NEW q \in renders' PROVE OwnedDraw(q)' /\ CutDrawIsLost(q)'
    <3>1. OwnedDraw(q) /\ CutDrawIsLost(q) /\ q \in renders /\ q # r
      BY <1>2 DEF RenderInv
    <3>2. OwnedDraw(q)'
      BY <1>1, <1>2, <3>1 DEF OwnedDraw
    <3>3. CutDrawIsLost(q)'
      BY <1>2, <3>1 DEF CutDrawIsLost
    <3> QED
      BY <3>2, <3>3
  <2> QED
    BY <2>1
<1>6. widths[r.page] = None
  BY <1>1 DEF MarkedPage, Drawing
<1>7. ASSUME NEW p \in Pages PROVE MarkedPage(p)'
  <2>1. CASE p = r.page
    BY <1>2, <1>6, <2>1 DEF MarkedPage
  <2>2. CASE p # r.page
    <3>1. MarkedPage(p)
      BY DEF RenderInv
    <3> QED
      BY <1>2, <2>2, <3>1 DEF MarkedPage, layout, Drawing
  <2> QED
    BY <2>1, <2>2
<1>8. NearAndFar'
  <2>1. Near' = Near /\ Kept' = Kept
    BY <1>2 DEF Near, Kept, layout
  <2>2. \A p : p # r.page => Drawing(p)' = Drawing(p)
    BY <1>2 DEF Drawing
  <2> QED
    BY <1>2, <2>1, <2>2 DEF RenderInv, NearAndFar, layout
<1> QED
  BY <1>3, <1>4, <1>5, <1>7, <1>8 DEF RenderInv

\* The end of a draw, for the other draws of its page: they are as they were, or cut short.
LEMMA DrawsLeft ==
  ASSUME RenderInv, NEW r \in renders, EndDraw(r), NEW q \in renders'
  PROVE  \E d \in renders \ {r} :
           /\ q = (IF d.page = r.page /\ Empties(r) THEN Cut(d) ELSE d)
           /\ q \in Draws /\ q.page = d.page /\ q.size = d.size /\ q.active = d.active
           /\ q.stage = d.stage /\ q.owned = d.owned /\ q.others = d.others
           /\ q.intact = d.intact \/ (d.page = r.page /\ Empties(r))
<1>1. PICK d \in renders \ {r} : q = (IF d.page = r.page /\ Empties(r) THEN Cut(d) ELSE d)
  BY DEF EndDraw
<1>2. d \in Draws
  BY DEF RenderInv, TypeOK
<1>3. CASE d.page = r.page /\ Empties(r)
  <2>1. q = Cut(d)
    BY <1>1, <1>3
  <2> QED
    BY <1>1, <1>2, <1>3, <2>1, CutDraw
<1>4. CASE ~(d.page = r.page /\ Empties(r))
  <2>1. q = d
    BY <1>1, <1>4
  <2> QED
    BY <1>1, <1>2, <2>1
<1> QED
  BY <1>3, <1>4

\* What a draw's end does to its page, in the three cases there are.
EndOf(p) ==
  /\ \A q \in renders' : q.page = p => (OwnedDraw(q) /\ CutDrawIsLost(q))'
  /\ MarkedPage(p)'
  /\ (mode = "scroll" /\ ~frame /\ ~scrolled)' =>
       /\ p \in Near \ lost' => widths'[p] = size \/ \E q \in renders' : q.page = p /\ q.owned /\ q.size = size
       /\ p \notin Kept => drawn'[p] = None /\ p \notin request'

\* The facts of r's page that the three cases use.
LEMMA EndFacts ==
  ASSUME RenderInv, NEW r \in renders, EndDraw(r)
  PROVE  /\ r \in Draws /\ r.page \in Pages /\ OwnedDraw(r) /\ CutDrawIsLost(r) /\ MarkedPage(r.page)
         /\ r.stage = "draw" \/ ~r.active
         /\ \A q \in renders : q.page = r.page /\ q.active /\ r.active => q = r
         /\ drawn'[r.page] = (IF Empties(r) THEN None
                              ELSE IF r.stage = "draw" /\ r.active /\ r.intact THEN r.size ELSE drawn[r.page])
         /\ widths'[r.page] = (IF Succeeds(r) THEN r.size ELSE IF Forgets(r) THEN None ELSE widths[r.page])
         /\ request' = (IF Forgets(r) THEN request \ {r.page} ELSE request)
         /\ UNCHANGED <<layout, scrolled, frame, pageVars>>
         /\ \A p \in Pages \ {r.page} : drawn'[p] = drawn[p] /\ widths'[p] = widths[p]
BY DEF EndDraw, RenderInv, TypeOK, Draws

LEMMA LostAtEnd ==
  ASSUME NEW r \in renders, EndDraw(r)
  PROVE  /\ Empties(r) => lost \subseteq lost'
         /\ Empties(r) /\ CutsShort(Drawing(r.page) \ {r}) => r.page \in lost'
         /\ ~Empties(r) /\ (r.stage # "draw" \/ ~r.active \/ ~r.intact) => lost' = lost
         /\ lost \subseteq lost' \cup {r.page} /\ lost' \subseteq lost \cup {r.page}
<1>1. CASE Empties(r)
  BY <1>1 DEF EndDraw
<1>2. CASE ~Empties(r)
  BY <1>2 DEF EndDraw
<1> QED
  BY <1>1, <1>2

\* The present request's draw ends where it is wanted: the page is marked and drawn.
LEMMA EndSucceeds ==
  ASSUME RenderInv, NEW r \in renders, EndDraw(r), Succeeds(r)
  PROVE  EndOf(r.page)
<1> DEFINE p == r.page
<1>1. /\ r.owned /\ r.active /\ p \in request /\ size = r.size /\ p \in Kept /\ r.stage = "draw" /\ r.page \in Pages
      /\ \A q \in renders : q.page = p /\ q.active => q = r
      /\ r.intact \/ p \in lost
  BY EndFacts DEF Succeeds, OwnedDraw, CutDrawIsLost
<1>2. ~Empties(r) /\ ~Forgets(r)
  BY <1>1 DEF Empties, Forgets
<1>3. /\ widths'[p] = size /\ request' = request
      /\ drawn'[p] = (IF r.intact THEN size ELSE drawn[p])
      /\ size' = size /\ p \in Kept
  BY <1>1, <1>2, EndFacts DEF layout
<1>4. ~r.intact => lost' = lost
  BY <1>2, LostAtEnd
<1>5. ASSUME NEW q \in renders', q.page = p
      PROVE  ~q.active /\ (OwnedDraw(q) /\ CutDrawIsLost(q))'
  <2>1. PICK d \in renders \ {r} : q.page = d.page /\ q.active = d.active /\ q.owned = d.owned /\ q.others = d.others
    BY DrawsLeft
  <2>2. OwnedDraw(d) /\ ~d.active
    BY <1>1, <1>5, <2>1 DEF RenderInv
  <2> QED
    BY <1>5, <2>1, <2>2 DEF OwnedDraw, CutDrawIsLost
<1>6. MarkedPage(p)'
  BY <1>1, <1>3, <1>4, <1>5 DEF MarkedPage, Drawing
<1> QED
  BY <1>3, <1>5, <1>6 DEF EndOf

\* It ends where it is no longer wanted: the page's request and canvas go.
LEMMA EndForgets ==
  ASSUME RenderInv, NEW r \in renders, EndDraw(r), Forgets(r)
  PROVE  EndOf(r.page)
<1> DEFINE p == r.page
<1>1. /\ r.owned /\ r.active /\ widths[p] = None /\ p \in Pages
      /\ \A q \in renders : q.page = p /\ q.active => q = r
  BY EndFacts DEF Forgets, OwnedDraw
<1>2. Empties(r) /\ ~Succeeds(r)
  BY DEF Empties, Forgets
<1>3. /\ widths'[p] = None /\ drawn'[p] = None /\ p \notin request'
      /\ UNCHANGED <<layout, scrolled, frame>> /\ lost \subseteq lost'
  BY <1>2, EndFacts, LostAtEnd
<1>4. ASSUME NEW q \in renders', q.page = p
      PROVE  (OwnedDraw(q) /\ CutDrawIsLost(q))'
  <2>1. PICK d \in renders \ {r} : q.page = d.page /\ q.active = d.active /\ q.owned = d.owned /\ q.others = d.others
    BY DrawsLeft
  <2>2. OwnedDraw(d) /\ ~d.active
    BY <1>1, <1>4, <2>1 DEF RenderInv
  <2> QED
    BY <1>4, <2>1, <2>2 DEF OwnedDraw, CutDrawIsLost
<1>5. MarkedPage(p)'
  BY <1>3 DEF MarkedPage
<1>6. ASSUME mode = "scroll", ~frame, ~scrolled, p \in Near PROVE p \in lost
  <2>1. p \in Kept /\ size # r.size
    BY <1>6, NearIsKept DEF Forgets, Succeeds, RenderInv
  <2>2. \A q \in Drawing(p) : q.owned => q.size # size
    <3> SUFFICES ASSUME NEW q \in Drawing(p), q.owned PROVE q.size # size
      OBVIOUS
    <3>1. q.active /\ q.page = p /\ q \in renders
      BY DEF Drawing, RenderInv, OwnedDraw
    <3> QED
      BY <1>1, <2>1, <3>1
  <2>3. size # None
    BY RenderAssumption DEF RenderInv, TypeOK
  <2> QED
    BY <1>1, <1>6, <2>2, <2>3 DEF RenderInv, NearAndFar
<1> QED
  BY <1>3, <1>4, <1>5, <1>6 DEF EndOf, layout, Near

\* An earlier request's draw ends: it empties the canvas, unless the page has a newer request.
LEMMA EndUnowned ==
  ASSUME RenderInv, NEW r \in renders, EndDraw(r), ~r.owned
  PROVE  EndOf(r.page)
<1> DEFINE p == r.page
<1>1. /\ r.others /\ p \in Pages /\ (r.active => p \notin request) /\ MarkedPage(p)
      /\ r.stage = "draw" \/ ~r.active
  BY EndFacts DEF OwnedDraw
<1>2. ~Succeeds(r) /\ ~Forgets(r) /\ (Empties(r) <=> p \notin request)
  BY <1>1 DEF Succeeds, Forgets, Empties
<1>3. /\ widths'[p] = widths[p] /\ request' = request
      /\ UNCHANGED <<layout, scrolled, frame>>
  BY <1>2, EndFacts
<1>4. CASE p \notin request
  <2>1. Empties(r) /\ widths[p] = None
    BY <1>1, <1>2, <1>4 DEF MarkedPage
  <2>2. drawn'[p] = None /\ lost \subseteq lost'
        /\ (CutsShort(Drawing(p) \ {r}) => p \in lost')
    BY <2>1, EndFacts, LostAtEnd
  <2>3. ASSUME NEW q \in renders', q.page = p
        PROVE  (OwnedDraw(q) /\ CutDrawIsLost(q))'
    <3>1. PICK d \in renders \ {r} : /\ q.page = d.page /\ q.active = d.active /\ q.stage = d.stage
                                     /\ q.owned = d.owned /\ q.others = d.others
      BY DrawsLeft
    <3>2. OwnedDraw(d)
      BY DEF RenderInv
    <3>3. OwnedDraw(q)'
      BY <1>3, <1>4, <2>3, <3>1, <3>2 DEF OwnedDraw
    <3>4. CutDrawIsLost(q)'
      BY <2>2, <2>3, <3>1 DEF CutDrawIsLost, CutsShort, Drawing
    <3> QED
      BY <3>3, <3>4
  <2>4. MarkedPage(p)'
    BY <1>3, <2>1 DEF MarkedPage
  <2>5. ASSUME mode = "scroll", ~frame, ~scrolled, p \in Near PROVE p \in lost
    <3>1. \A q \in Drawing(p) : ~q.owned
      BY <1>4 DEF Drawing, RenderInv, OwnedDraw
    <3>2. size # None
      BY RenderAssumption DEF RenderInv, TypeOK
    <3> QED
      BY <2>1, <2>5, <3>1, <3>2 DEF RenderInv, NearAndFar
  <2> QED
    BY <1>3, <1>4, <2>2, <2>3, <2>4, <2>5 DEF EndOf, layout, Near
<1>5. CASE p \in request
  <2>1. ~r.active /\ ~Empties(r)
    BY <1>1, <1>2, <1>5
  <2>2. drawn'[p] = drawn[p] /\ lost' = lost
    BY <2>1, EndFacts, LostAtEnd
  <2>3. renders' = renders \ {r}
    BY <2>1 DEF EndDraw
  <2>4. ASSUME NEW q \in renders', q.page = p
        PROVE  (OwnedDraw(q) /\ CutDrawIsLost(q))'
    <3>1. OwnedDraw(q) /\ CutDrawIsLost(q)
      BY <2>3 DEF RenderInv
    <3> QED
      BY <1>3, <2>2, <2>4, <3>1 DEF OwnedDraw, CutDrawIsLost
  <2>5. MarkedPage(p)'
    BY <1>1, <1>3, <2>2, <2>3 DEF MarkedPage, Drawing, layout
  <2>6. NearAndFar
    BY DEF RenderInv
  <2> QED
    BY <1>1, <1>3, <2>2, <2>3, <2>4, <2>5, <2>6 DEF EndOf, NearAndFar, Drawing, layout, Near, Kept
<1> QED
  BY <1>4, <1>5

LEMMA EndDrawKeeps == ASSUME RenderInv, NEW r \in renders, EndDraw(r) PROVE RenderInv'
<1>1. EndOf(r.page)
  <2>1. r.owned => Succeeds(r) \/ Forgets(r)
    BY DEF Forgets
  <2> QED
    BY <2>1, EndSucceeds, EndForgets, EndUnowned
<1>2. /\ r \in Draws /\ r.page \in Pages /\ UNCHANGED <<layout, scrolled, frame, pageVars>>
      /\ request' = (IF Forgets(r) THEN request \ {r.page} ELSE request)
      /\ \A p \in Pages \ {r.page} : drawn'[p] = drawn[p] /\ widths'[p] = widths[p]
  BY EndFacts
<1>3. \A p : p # r.page => (p \in lost' <=> p \in lost) /\ (p \in request' <=> p \in request)
  BY <1>2, LostAtEnd
<1>4. \A d \in renders : d.page # r.page => d \in renders'
  BY DEF EndDraw
<1>5. \A q \in renders' : q.page # r.page => q \in renders
  BY DrawsLeft
<1>6. TypeOK'
  <2>1. renders' \subseteq Draws
    BY DrawsLeft
  <2>2. \A q, s \in renders' : q.page = s.page /\ q.active /\ s.active => q = s
    <3> SUFFICES ASSUME NEW q \in renders', NEW s \in renders', q.page = s.page, q.active, s.active
                 PROVE  q = s
      OBVIOUS
    <3>1. PICK c \in renders : /\ q = (IF c.page = r.page /\ Empties(r) THEN Cut(c) ELSE c)
                               /\ q.page = c.page /\ q.active = c.active
      BY DrawsLeft
    <3>2. PICK d \in renders : /\ s = (IF d.page = r.page /\ Empties(r) THEN Cut(d) ELSE d)
                               /\ s.page = d.page /\ s.active = d.active
      BY DrawsLeft
    <3>3. c = d
      BY <3>1, <3>2 DEF RenderInv, TypeOK
    <3> QED
      BY <3>1, <3>2, <3>3
  <2>3. drawn' \in [Pages -> Sizes \cup {None}] /\ widths' \in [Pages -> Sizes \cup {None}]
    BY <1>2 DEF EndDraw, RenderInv, TypeOK, Draws
  <2>4. request' \subseteq Pages /\ lost' \subseteq Pages
    BY <1>2, <1>3, LostAtEnd DEF RenderInv, TypeOK
  <2> QED
    BY <1>2, <2>1, <2>2, <2>3, <2>4 DEF RenderInv, TypeOK, layout, pageVars
<1>7. Canvas'
  BY <1>2 DEF RenderInv, Canvas, layout, pageVars
<1>8. (\A q \in renders : OwnedDraw(q) /\ CutDrawIsLost(q))'
  <2>1. ASSUME NEW q \in renders' PROVE (OwnedDraw(q) /\ CutDrawIsLost(q))'
    <3>1. CASE q.page = r.page
      BY <1>1, <3>1 DEF EndOf
    <3>2. CASE q.page # r.page
      <4>1. OwnedDraw(q) /\ CutDrawIsLost(q) /\ q \in Draws /\ q.page \in Pages
        BY <1>5, <3>2 DEF RenderInv, TypeOK, Draws
      <4> QED
        BY <1>2, <1>3, <3>2, <4>1 DEF OwnedDraw, CutDrawIsLost
    <3> QED
      BY <3>1, <3>2
  <2> QED
    BY <2>1
<1>9. ASSUME NEW p \in Pages, p # r.page PROVE Drawing(p)' = Drawing(p)
  BY <1>4, <1>5, <1>9 DEF Drawing
<1>10. ASSUME NEW p \in Pages PROVE MarkedPage(p)'
  <2>1. CASE p = r.page
    BY <1>1, <2>1 DEF EndOf
  <2>2. CASE p # r.page
    <3>1. MarkedPage(p) /\ Drawing(p)' = Drawing(p) /\ size' = size
      BY <1>2, <1>9, <2>2 DEF RenderInv, layout
    <3> QED
      BY <1>2, <1>3, <2>2, <3>1 DEF MarkedPage
  <2> QED
    BY <2>1, <2>2
<1>11. NearAndFar'
  <2>1. Near' = Near /\ Kept' = Kept /\ UNCHANGED <<mode, size, frame, scrolled>>
        /\ Near \subseteq Pages /\ NearAndFar
    BY <1>2, NearIsKept DEF Near, Kept, layout, RenderInv
  <2> SUFFICES ASSUME mode = "scroll", ~frame, ~scrolled
               PROVE  /\ \A p \in Near \ lost' : widths'[p] = size \/ \E q \in Drawing(p)' : q.owned /\ q.size = size
                      /\ \A p \in Pages \ Kept : drawn'[p] = None /\ p \notin request'
    BY <2>1 DEF NearAndFar
  <2>2. ASSUME NEW p \in Near \ lost'
        PROVE  widths'[p] = size \/ \E q \in Drawing(p)' : q.owned /\ q.size = size
    <3>1. CASE p = r.page
      BY <1>1, <2>1, <3>1 DEF EndOf, Drawing
    <3>2. CASE p # r.page
      BY <1>2, <1>3, <1>9, <2>1, <3>2 DEF NearAndFar
    <3> QED
      BY <3>1, <3>2
  <2>3. ASSUME NEW p \in Pages \ Kept PROVE drawn'[p] = None /\ p \notin request'
    <3>1. CASE p = r.page
      BY <1>1, <2>1, <3>1 DEF EndOf
    <3>2. CASE p # r.page
      BY <1>2, <1>3, <2>1, <3>2 DEF NearAndFar
    <3> QED
      BY <3>1, <3>2
  <2> QED
    BY <2>2, <2>3
<1> QED
  BY <1>6, <1>7, <1>8, <1>10, <1>11 DEF RenderInv

----------------------------------------------------------------------------

LEMMA RenderStutter == ASSUME RenderInv, UNCHANGED vars PROVE RenderInv'
<1>1. TypeOK'
  BY DEF RenderInv, TypeOK, vars, layout, pageVars, scrollVars
<1>2. Canvas'
  BY DEF RenderInv, Canvas, vars, layout, pageVars, scrollVars
<1>3. NearAndFar'
  BY DEF RenderInv, NearAndFar, Drawing, Near, Kept, vars, layout, pageVars, scrollVars
<1> QED
  BY <1>1, <1>2, <1>3, ScrollPartKept DEF vars, layout, scrollVars, RenderInv

\* What the two modes of the reader's drawing rest on: the canvas of page mode is the page
\* asked for, and in scroll mode each canvas belongs to the present request of its page
\* (scrollRenderRequests in renderVisible()), whatever draws of earlier requests still go on
\* in the PDF service (renderPage() and draw()).
THEOREM RenderInvariant == Spec => []RenderInv
<1>1. Init => RenderInv
  BY InitRender
<1>2. RenderInv /\ [Next]_vars => RenderInv'
  <2> SUFFICES ASSUME RenderInv, [Next]_vars PROVE RenderInv'
    OBVIOUS
  <2>1. ASSUME User PROVE RenderInv'
    BY <2>1, ResizeKeeps, TurnPageKeeps, ScrollKeeps, SetModeKeeps DEF User
  <2>2. ASSUME Frame PROVE RenderInv'
    BY <2>2, ScrollFrameKeeps, DrawPageKeeps, DrawNearbyKeeps DEF Frame
  <2>3. ASSUME NEW r \in renders, BeginDraw(r) \/ EndDraw(r) \/ DrawFails(r) PROVE RenderInv'
    BY <2>3, BeginDrawKeeps, EndDrawKeeps, DrawFailsKeeps
  <2>4. CASE UNCHANGED vars
    BY <2>4, RenderStutter
  <2> QED
    BY <2>1, <2>2, <2>3, <2>4, PageDrawnKeeps, PageFailsKeeps DEF Next
<1> QED
  BY <1>1, <1>2, PTL DEF Spec

\* The variables have their types, and the PDF service works on one draw per canvas:
\* renderPage() cancels or shares the one it finds there.
THEOREM RenderTypeCorrect == Spec => []TypeOK
<1>1. RenderInv => TypeOK
  BY DEF RenderInv
<1> QED
  BY <1>1, RenderInvariant, PTL

\* The visible canvas never shows another page than the counter does: turnPage() clears it,
\* and a draw that ends for another page, size or generation is thrown away.
THEOREM OnlyTheCurrentPageIsVisible == Spec => []VisiblePageIsCurrent
<1>1. RenderInv => VisiblePageIsCurrent
  BY DEF RenderInv, Canvas, VisiblePageIsCurrent
<1> QED
  BY <1>1, RenderInvariant, PTL

\* Whatever the reader did while pages were drawn, page mode comes to rest on the page it
\* is at, at its size: pageRenderPending and the comparison at the end of each draw lose none.
THEOREM PageModeShowsThePage == Spec => []PageModeSettles
<1>1. RenderInv => PageModeSettles
  BY DEF RenderInv, Canvas, PageModeSettles, AtRest
<1> QED
  BY <1>1, RenderInvariant, PTL

\* Scroll mode comes to rest with each page near the viewport drawn at the present size and
\* every canvas far from it empty, unless a draw failed or was cut short: no draw of an
\* earlier request empties or overwrites a canvas a newer one owns.
THEOREM ScrollModeShowsThePages == Spec => []ScrollModeSettles
<1>1. RenderInv => ScrollModeSettles
  <2> SUFFICES ASSUME RenderInv, AtRest, mode = "scroll"
               PROVE  /\ \A p \in Near \ lost : drawn[p] = size
                      /\ \A p \in Pages \ Kept : drawn[p] = None
    BY DEF ScrollModeSettles
  <2>1. ASSUME NEW p \in Near \ lost PROVE drawn[p] = size
    <3>1. p \in Pages /\ size # None
      BY NearIsKept, RenderAssumption DEF RenderInv, TypeOK
    <3>2. widths[p] = size
      BY DEF RenderInv, NearAndFar, AtRest, Drawing
    <3> QED
      BY <3>1, <3>2 DEF RenderInv, MarkedPage
  <2> QED
    BY <2>1 DEF RenderInv, NearAndFar, AtRest
<1> QED
  BY <1>1, RenderInvariant, PTL

\* A page marked as rendered (renderedWidths) at a size is drawn at that size, unless its draw
\* was cut short: renderVisible(), which skips a marked page, leaves no other one blank.
THEOREM MarkedPagesAreDrawn ==
  Spec => [](\A p \in Pages \ lost : widths[p] # None => drawn[p] = widths[p])
<1>1. RenderInv => \A p \in Pages \ lost : widths[p] # None => drawn[p] = widths[p]
  BY DEF RenderInv, MarkedPage
<1> QED
  BY <1>1, RenderInvariant, PTL

=============================================================================
