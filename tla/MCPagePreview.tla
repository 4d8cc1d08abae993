--------------------------- MODULE MCPagePreview ---------------------------
(***************************************************************************)
(* A draft that opens with two photos, to which an upload adds a PDF page. *)
(* The API's draft has the photos it opened with, plain, or has lost       *)
(* either or both: an edit, a replacement or a page added here since is    *)
(* given up by a reload.                                                   *)
(* The photos are interchangeable, with no liveness property checked.      *)
(***************************************************************************)
EXTENDS PagePreview, TLC

StoredDrafts == {[p \in rest |-> [version |-> 0, edit |-> Plain]] : rest \in SUBSET Opened}
PhotoSymmetry == Permutations(Photos)
=============================================================================
