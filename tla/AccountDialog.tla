--------------------------- MODULE AccountDialog ---------------------------
(***************************************************************************)
(* The account dialog of the library page: the user's Send to Noted token, *)
(* which the server keeps, and the one dialog that may show its plaintext. *)
(* Tokens are numbered in the order the server issues them; 0 is none.     *)
(***************************************************************************)
EXTENDS Naturals

CONSTANTS
    Issued,      \* tokens issued before the page was opened; the last one is active
    MaxInputs, MaxFaults

VARIABLES
    token,      \* the token the server accepts
    issued,     \* tokens issued so far
    dialog,     \* whether the dialog is open, and how often it was opened
    shortcut,   \* the dialog's copy of the token's state; "loading" before it is known
    created,    \* the plaintext on display (createdToken), and the opening it belongs to
    confirming, \* the inline question
    busy, told, \* shortcutBusy, and whether shortcutError is set
    visit,      \* accountVisit
    writes,     \* shortcutWrites
    reads,      \* status reads under way
    write,      \* the token write under way
    elsewhere,  \* whether another device wrote the token since the last read or write
    inputs, faults

accountVars == <<token, issued, dialog, shortcut, created, confirming, busy, told, visit,
                 writes, reads, write, elsewhere>>

NoToken == [number |-> 0, opening |-> 0]
NoWrite == [kind |-> "none", visit |-> 0, opening |-> 0, answer |-> "none", number |-> 0]

TypeOK ==
    /\ issued \in Nat /\ token \in Nat /\ token <= issued
    /\ dialog \in [open : BOOLEAN, opening : Nat]
    /\ shortcut \in {"loading", "active", "none"}
    /\ created \in [number : Nat, opening : Nat]
    /\ created.number <= issued /\ created.opening <= dialog.opening
    /\ confirming \in {"replace", "off", "none"}
    /\ busy \in BOOLEAN /\ told \in BOOLEAN /\ elsewhere \in BOOLEAN
    /\ visit \in Nat /\ writes \in Nat
    /\ reads \subseteq [visit : Nat, writes : Nat, answer : {"awaited", "none", "active"}]
    /\ \A r \in reads : r.visit <= visit /\ r.writes <= writes
    /\ write \in [kind : {"none", "create", "off"}, visit : Nat, opening : Nat,
                  answer : {"none", "done"}, number : Nat]
    /\ write.visit <= visit /\ write.opening <= dialog.opening /\ write.number <= issued
    /\ busy <=> write # NoWrite

Input == inputs < MaxInputs /\ inputs' = inputs + 1 /\ UNCHANGED faults
Fault == faults < MaxFaults /\ faults' = faults + 1 /\ UNCHANGED inputs
NoBudget == UNCHANGED <<inputs, faults>>

Status(number) == IF number = 0 THEN "none" ELSE "active"

Init ==
    /\ issued = Issued /\ token = Issued
    /\ dialog = [open |-> FALSE, opening |-> 0]
    /\ shortcut = "loading" /\ created = NoToken /\ confirming = "none"
    /\ busy = FALSE /\ told = FALSE /\ visit = 0 /\ writes = 0
    /\ reads = {} /\ write = NoWrite /\ elsewhere = FALSE

-----------------------------------------------------------------------------
\* open: reads the state of the token for this visit.
Open ==
    /\ ~dialog.open /\ Input
    /\ dialog' = [open |-> TRUE, opening |-> dialog.opening + 1]
    /\ visit' = visit + 1 /\ confirming' = "none" /\ told' = FALSE
    /\ reads' = reads \cup {[visit |-> visit + 1, writes |-> writes, answer |-> "awaited"]}
    /\ UNCHANGED <<token, issued, shortcut, created, busy, writes, write, elsewhere>>

\* closed: on every close, so the plaintext is never shown again.
DropToken == created' = NoToken

Closed ==
    /\ dialog.open /\ Input
    /\ dialog' = [dialog EXCEPT !.open = FALSE]
    /\ visit' = visit + 1 /\ confirming' = "none" /\ DropToken
    /\ UNCHANGED <<token, issued, shortcut, busy, told, writes, reads, write, elsewhere>>

Confirm(what) ==
    /\ dialog.open /\ ~busy /\ shortcut = "active" /\ created = NoToken /\ Input
    /\ confirming' = what
    /\ UNCHANGED <<token, issued, dialog, shortcut, created, busy, told, visit, writes, reads,
                   write, elsewhere>>

\* createShortcut and turnOffShortcut: the buttons the dialog shows then.
Write(kind) ==
    /\ dialog.open /\ ~busy /\ NoBudget
    /\ \/ kind = "create" /\ (shortcut = "none" \/ confirming = "replace")
       \/ kind = "off" /\ confirming = "off"
    /\ busy' = TRUE /\ told' = FALSE /\ visit' = visit + 1
    /\ write' = [NoWrite EXCEPT !.kind = kind, !.visit = visit + 1, !.opening = dialog.opening]
    /\ UNCHANGED <<token, issued, dialog, shortcut, created, confirming, writes, reads, elsewhere>>

-----------------------------------------------------------------------------
\* A read counts until another visit begins or a write ends.
CountsInVisit(r) == r.visit = visit
Counts(r) == r.visit = visit /\ r.writes = writes

ServeRead(r) ==
    /\ r.answer = "awaited" /\ NoBudget
    /\ reads' = (reads \ {r}) \cup {[r EXCEPT !.answer = Status(token)]}
    /\ elsewhere' = (elsewhere /\ ~(Counts(r) /\ ~busy))
    /\ UNCHANGED <<token, issued, dialog, shortcut, created, confirming, busy, told, visit,
                   writes, write>>

ServeWrite ==
    /\ write.kind # "none" /\ write.answer = "none" /\ NoBudget
    /\ issued' = IF write.kind = "create" THEN issued + 1 ELSE issued
    /\ token' = IF write.kind = "create" THEN issued' ELSE 0
    /\ write' = [write EXCEPT !.answer = "done", !.number = token']
    /\ elsewhere' = FALSE
    /\ UNCHANGED <<dialog, shortcut, created, confirming, busy, told, visit, writes, reads>>

\* The same account on another device.
OtherDevice ==
    /\ Input
    /\ token # 0 /\ token' = 0
    /\ elsewhere' = TRUE
    /\ UNCHANGED <<issued, dialog, shortcut, created, confirming, busy, told, visit, writes,
                   reads, write>>

-----------------------------------------------------------------------------
ReadAnswered(r) ==
    /\ r.answer # "awaited" /\ NoBudget
    /\ reads' = reads \ {r}
    /\ shortcut' = IF Counts(r) THEN r.answer ELSE shortcut
    /\ UNCHANGED <<token, issued, dialog, created, confirming, busy, told, visit, writes, write,
                   elsewhere>>

ReadFails(r) ==
    /\ Fault /\ reads' = reads \ {r}
    /\ told' = (told \/ Counts(r))
    /\ UNCHANGED <<token, issued, dialog, shortcut, created, confirming, busy, visit, writes,
                   write, elsewhere>>

\* A dialog closed meanwhile never shows the token.
ShowsAnyToken == write.kind = "create"
ShowsToken == write.kind = "create" /\ write.visit = visit

WriteAnswered ==
    /\ write.answer = "done" /\ NoBudget
    /\ shortcut' = Status(write.number) /\ writes' = writes + 1
    /\ created' = IF ShowsToken THEN [number |-> write.number, opening |-> write.opening] ELSE created
    /\ confirming' = IF write.visit = visit THEN "none" ELSE confirming
    /\ busy' = FALSE /\ write' = NoWrite
    /\ UNCHANGED <<token, issued, dialog, told, visit, reads, elsewhere>>

WriteFails ==
    /\ write # NoWrite /\ Fault
    /\ told' = TRUE /\ busy' = FALSE /\ write' = NoWrite
    /\ UNCHANGED <<token, issued, dialog, shortcut, created, confirming, visit, writes, reads,
                   elsewhere>>

\* What the user does in the page, and what happens without the user.
UserNext ==
    \/ Open \/ Closed
    \/ \E what \in {"replace", "off"} : Confirm(what)
    \/ \E kind \in {"create", "off"} : Write(kind)

AnswerNext ==
    \/ \E r \in reads : ServeRead(r) \/ ReadAnswered(r) \/ ReadFails(r)
    \/ ServeWrite \/ WriteAnswered \/ WriteFails
    \/ OtherDevice

-----------------------------------------------------------------------------
\* A token's plaintext is on display only in the opening of the dialog that
\* asked for it ("lives only here, from creation until the dialog closes",
\* createdToken), whichever answers arrive later.
TokenShownOnce ==
    created # NoToken => dialog.open /\ created.opening = dialog.opening

\* With nothing under way and no error told, an open dialog shows whether the
\* server accepts a token: a status read that a write overtook never replaces
\* what the write said (accountVisit, shortcutWrites).
DialogShowsTheToken ==
    dialog.open /\ reads = {} /\ ~busy /\ ~told /\ ~elsewhere => shortcut = Status(token)
=============================================================================
