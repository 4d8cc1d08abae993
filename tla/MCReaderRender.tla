--------------------------- MODULE MCReaderRender ---------------------------
(***************************************************************************)
(* Two pages and four scroll places: at the top only page 1 is near and    *)
(* page 2 is far; a little lower page 2 is kept but not near; in the       *)
(* middle both are near; at the end page 1 is far.                         *)
(***************************************************************************)
EXTENDS ReaderRender

MCPlaces == 1..4
MCNear == <<{1}, {1}, {1, 2}, {2}>>
MCKept == <<{1}, {1, 2}, {1, 2}, {2}>>
MCPageAt == <<1, 1, 1, 2>>
=============================================================================
