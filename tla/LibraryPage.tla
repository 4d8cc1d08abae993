---------------------------- MODULE LibraryPage ----------------------------
(***************************************************************************)
(* The library page: its rows with their details form, and the account     *)
(* dialog.  They share the page, the server and the user, whose inputs to  *)
(* both are counted together; a modal dialog keeps the user from the rest  *)
(* of the page, never the answers that are still to come.                  *)
(***************************************************************************)
EXTENDS LibraryRows

CONSTANT Issued

ASSUME PageAssumption == Issued \in Nat

VARIABLES token, issued, dialog, shortcut, created, confirming, busy, told, visit, writes,
          reads, write, elsewhere

Account == INSTANCE AccountDialog

accountVars == <<token, issued, dialog, shortcut, created, confirming, busy, told, visit,
                 writes, reads, write, elsewhere>>
vars == <<rowVars, accountVars, inputs, faults>>

PageInit == Init /\ Account!Init

\* A modal dialog takes all the input.  The details form is never below the
\* account dialog, but a slow read may open it above.
RowsStep == RowsNext /\ (dialog.open /\ ~editor.shown => inputs' = inputs) /\ UNCHANGED accountVars
AccountInput == open /\ ~editor.shown /\ Account!UserNext /\ UNCHANGED rowVars
AccountAnswer == Account!AnswerNext /\ UNCHANGED rowVars

Spec == PageInit /\ [][RowsStep \/ AccountInput \/ AccountAnswer]_vars

PageTypeOK == TypeOK /\ Account!TypeOK
TokenShownOnce == Account!TokenShownOnce
DialogShowsTheToken == Account!DialogShowsTheToken
=============================================================================
