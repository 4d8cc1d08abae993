--------------------------- MODULE MCScoreIntake ---------------------------
(***************************************************************************)
(* Small instances of ScoreIntake. Ids are fresh UUIDs and any one will do, *)
(* so keys are a symmetry set in the safety runs.                          *)
(***************************************************************************)
EXTENDS ScoreIntake, TLC

CONSTANTS o1, o2, p1, d1, k1

\* One user, with a piece p1 that was saved before preparation existed.
OneUserPieces == [p \in Piece |-> o1]
OneUserDrafts == [d \in Draft |-> o1]

\* Two users: the first has the legacy piece p1, the second starts with nothing.
TwoUserPieces == [p \in Piece |-> IF p = p1 THEN o1 ELSE o2]
TwoUserDrafts == [d \in Draft |-> IF d = d1 THEN o1 ELSE o2]

Legacy == [p \in {p1} |-> k1]

\* Only the legacy PDF's key is told apart from the others.
FreshKeys == Permutations(Key \ {k1})
OneUserIds == Permutations(Key \ {k1}) \cup Permutations(Draft)

============================================================================
