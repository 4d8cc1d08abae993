--------------------------- MODULE MCLibraryView ---------------------------
(* Two accounts and the two parts of the view, which the specification treats alike. *)
EXTENDS LibraryView, TLC

Symmetry == Permutations(Accounts) \cup Permutations(Parts)
=============================================================================
