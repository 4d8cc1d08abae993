---------------------------- MODULE MCImslpGate ----------------------------
(***************************************************************************)
(* Small instances of ImslpGate. Calls differ in nothing but their name.   *)
(***************************************************************************)
EXTENDS ImslpGate, TLC

CONSTANTS c1, c2, c3

Calls == Permutations(Call)

============================================================================
