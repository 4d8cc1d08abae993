---------------------------- MODULE DraftEditor ----------------------------
(***************************************************************************)
(* The saving of a score draft while it is prepared: the editor component  *)
(* (features/prepare/prepare.component.ts), the API that keeps the draft   *)
(* (UpdateImport, attachSource, FinalizeImport and DeleteImport of         *)
(* internal/app/imports.go) and another tab with the same draft.           *)
(*                                                                         *)
(* Abstractions. A draft's content (pages, edits, details) is the number   *)
(* of the change that made it; every change has a new number. A step runs  *)
(* until the code awaits a request or a timer: what follows an await of    *)
(* pendingSave belongs to the step that delivers the save's answer. A      *)
(* request that fails is dropped before the API handles it, or its answer  *)
(* is.                                                                     *)
(***************************************************************************)
EXTENDS Naturals, Sequences, SequencesExt

CONSTANTS
  MaxEdits,     \* bound on changes of the draft's content
  MaxRevision   \* bound on the revision beyond which Reload is not pressed

ASSUME EditorAssumption == MaxEdits \in Nat /\ MaxRevision \in Nat

VARIABLES
  srv,     \* the draft's row, and the content its published PDF was built from
  ed,      \* the editor
  get,     \* its load()
  save,    \* pendingSave: the snapshot that is being saved and who awaits it
  op,      \* the operation that keeps the editor busy
  leave,   \* the route's departure: no, navigating (canLeave is next) or flush (in canLeave)
  edits    \* changes made so far

vars == <<srv, ed, get, save, op, leave, edits>>

----------------------------------------------------------------------------

NoSave == [at |-> "none", rev |-> 0, content |-> 0, callers |-> <<>>]

NoOp == [kind |-> "none", at |-> "none", rev |-> 0, content |-> 0]

NoGet == [at |-> "none", state |-> "open", rev |-> 0, content |-> 0, latest |-> 0]

EditorRow ==
  [phase : {"loading", "open", "gone"},
   content : Nat, rev : Nat,
   sources : BOOLEAN,     \* the draft has a source
   dirty : BOOLEAN, timer : BOOLEAN, finalized : BOOLEAN,
   told : BOOLEAN,        \* history: an error was shown since the last change
   latest : Nat,          \* history: the last change made here that no reload has given up
   spoiled : BOOLEAN]     \* history: discard() forgot a change, a reload's answer met a save or
                          \* overwrote a change made while it was on its way, or an operation
                          \* went on beside a save

Callers == {"timer", "close", "leave", "op"}

Init ==
  /\ srv = [state |-> "open", rev |-> 1, content |-> 0, pdf |-> 0]
  /\ ed \in [phase : {"loading"}, content : {0}, rev : {0}, sources : BOOLEAN,
             dirty : {FALSE}, timer : {FALSE}, finalized : {FALSE},
             told : {FALSE}, latest : {0}, spoiled : {FALSE}]
  /\ get = [NoGet EXCEPT !.at = "asked"]
  /\ save = NoSave /\ op = NoOp
  /\ leave = "no" /\ edits = 0

Idle == ed.phase = "open" /\ op = NoOp

\* An error is shown, unless the editor was left.
Tells == ed.told \/ ed.phase # "gone"

\* discard() sets the flag, and resets it when it is over.
Discarding == op.kind = "discard"

HasUnsavedChanges == ~Discarding /\ (ed.dirty \/ save # NoSave)

----------------------------------------------------------------------------
(***************************************************************************)
(* persist() of editor e by caller c: it joins the save s that is under    *)
(* way, starts one, or returns at once (done). The first of the callers    *)
(* started the save, the others joined it.                                 *)
(***************************************************************************)
Persist(e, s, c) ==
  LET idle == [e EXCEPT !.timer = FALSE]
      joined == IF c \in Range(Tail(s.callers)) THEN s.callers ELSE Append(s.callers, c)
  IN  IF s # NoSave
        THEN [ed |-> idle, save |-> [s EXCEPT !.callers = joined], done |-> FALSE]
      ELSE IF e.dirty /\ ~e.finalized
        THEN [ed |-> [idle EXCEPT !.dirty = FALSE],
              save |-> [at |-> "sent", rev |-> e.rev, content |-> e.content, callers |-> <<c>>],
              done |-> FALSE]
      ELSE [ed |-> idle, save |-> s, done |-> TRUE]

\* What follows the operation's persist(): the upload is sent, or the PDF is built from a
\* clone of the draft; after a replacement nothing is left to do.
Proceed(o, e) ==
  CASE o.kind \in {"upload", "replace"} -> [o EXCEPT !.at = "request", !.rev = e.rev]
    [] o.kind = "publish" -> [o EXCEPT !.at = "build", !.rev = e.rev, !.content = e.content]
    [] o.kind = "replaced" -> NoOp

Gone(e) == [e EXCEPT !.phase = "gone", !.timer = FALSE]

\* A persist() by c from which only the save can follow.
PersistOnly(c) ==
  LET p == Persist(ed, save, c)
  IN  ed' = p.ed /\ save' = p.save

----------------------------------------------------------------------------
(***************************************************************************)
(* The user and the timer.                                                 *)
(***************************************************************************)

\* Every change ends in mark(). The controls are disabled while an operation is under way.
Edit ==
  /\ Idle /\ ~ed.finalized /\ edits < MaxEdits
  /\ edits' = edits + 1
  /\ ed' = [ed EXCEPT !.content = edits', !.latest = edits', !.dirty = TRUE, !.timer = TRUE,
                    !.told = FALSE]
  /\ UNCHANGED <<srv, get, save, op, leave>>

SaveTimerFires ==
  /\ ed.timer
  /\ PersistOnly("timer")
  /\ UNCHANGED <<srv, get, op, leave, edits>>

\* warnBeforeUnload, when the user stays after all, and continue().
FlushNow ==
  /\ ed.phase = "open" /\ HasUnsavedChanges
  /\ PersistOnly("timer")
  /\ UNCHANGED <<srv, get, op, leave, edits>>

\* close() saves before it navigates.
Close ==
  /\ Idle /\ leave = "no" /\ "close" \notin Range(save.callers)
  /\ PersistOnly("close")
  /\ leave' = IF Persist(ed, save, "close").done THEN "navigating" ELSE leave
  /\ UNCHANGED <<srv, get, op, edits>>

Navigate ==
  /\ ed.phase # "gone" /\ leave = "no"
  /\ leave' = "navigating"
  /\ UNCHANGED <<srv, ed, get, save, op, edits>>

\* Once the departure is decided, the operation that asked for it is over.
Decided(o) == IF o.at = "done" THEN NoOp ELSE o

CanLeave ==
  /\ leave = "navigating"
  /\ LET p == Persist(ed, save, "leave")
     IN  IF HasUnsavedChanges /\ ~p.done
           THEN /\ leave' = "flush" /\ ed' = p.ed /\ save' = p.save
                /\ UNCHANGED op
           ELSE /\ leave' = "no" /\ ed' = Gone(ed) /\ op' = Decided(op)
                /\ UNCHANGED save
  /\ UNCHANGED <<srv, get, edits>>

\* "Reload draft" of an error message. It may be pressed while a save is under way.
Reload ==
  /\ ed.phase = "loading" \/ (Idle /\ ~ed.finalized)
  /\ get = NoGet /\ srv.rev < MaxRevision
  /\ get' = [NoGet EXCEPT !.at = "asked", !.latest = ed.latest]
  /\ UNCHANGED <<srv, ed, save, op, leave, edits>>

----------------------------------------------------------------------------
(***************************************************************************)
(* Operations, which make the editor busy.                                 *)
(***************************************************************************)

\* uploadFiles and save() persist first.
Begin(kind) ==
  LET o == [NoOp EXCEPT !.kind = kind, !.at = "persist"]
      p == Persist(ed, save, "op")
  IN  /\ Idle /\ ~ed.finalized
      /\ kind \in {"replace", "publish"} => ed.sources
      /\ ed' = p.ed /\ save' = p.save
      /\ op' = IF p.done THEN Proceed(o, p.ed) ELSE o
      /\ UNCHANGED <<srv, get, leave, edits>>

\* discard() stops the timer and forgets what is unsaved.
Forget(e) ==
  [e EXCEPT !.timer = FALSE, !.dirty = FALSE, !.spoiled = @ \/ e.dirty \/ save # NoSave]

NoWait == "request"

WaitForSave == IF save = NoSave THEN "request" ELSE "wait"

\* It awaits the save that is under way, failed or not, before it deletes the draft.
Discard ==
  /\ Idle /\ ~ed.finalized
  /\ ed' = Forget(ed)
  /\ op' = [NoOp EXCEPT !.kind = "discard", !.at = WaitForSave]
  /\ UNCHANGED <<srv, get, save, leave, edits>>

\* detailsWithoutPDF deletes a draft without sources. Its timer goes on.
DetailsWithoutPDF ==
  /\ Idle /\ ~ed.sources
  /\ op' = [NoOp EXCEPT !.kind = "details", !.at = WaitForSave]
  /\ UNCHANGED <<srv, ed, get, save, leave, edits>>

\* The worker returns the PDF. It is destroyed with the editor, may fail and be cancelled.
Built ==
  /\ op.at = "build" /\ ed.phase = "open"
  /\ op' = [op EXCEPT !.at = "request"]
  /\ UNCHANGED <<srv, ed, get, save, leave, edits>>

----------------------------------------------------------------------------
(***************************************************************************)
(* The API. Every request carries the revision the editor knows.           *)
(***************************************************************************)

MatchesAny(rev) == srv.state = "open"

Matches(rev) == srv.state = "open" /\ srv.rev = rev

\* UpdateImport
HandleSave ==
  /\ save.at = "sent"
  /\ save' = [save EXCEPT !.at = IF Matches(save.rev) THEN "ok" ELSE "refused"]
  /\ srv' = IF Matches(save.rev) THEN [srv EXCEPT !.rev = @ + 1, !.content = save.content] ELSE srv
  /\ UNCHANGED <<ed, get, op, leave, edits>>

\* GetImport
HandleGet ==
  /\ get.at = "asked" /\ srv.state # "deleted"
  /\ get' = [get EXCEPT !.at = "ok", !.state = srv.state, !.rev = srv.rev, !.content = srv.content]
  /\ UNCHANGED <<srv, ed, save, op, leave, edits>>

\* attachSource adds the source's pages to the draft that the API has.
HandleUpload ==
  /\ op.at = "request" /\ op.kind \in {"upload", "replace"}
  /\ \/ /\ Matches(op.rev) /\ edits < MaxEdits
        /\ edits' = edits + 1
        /\ srv' = [srv EXCEPT !.rev = @ + 1, !.content = edits']
        /\ op' = [op EXCEPT !.at = "ok", !.rev = srv'.rev, !.content = edits']
     \/ /\ ~Matches(op.rev)
        /\ op' = [op EXCEPT !.at = "refused"]
        /\ UNCHANGED <<srv, edits>>
  /\ UNCHANGED <<ed, get, save, leave>>

\* FinalizeImport: a retry of a finished publication is answered with its piece.
HandlePublish ==
  /\ op.at = "request" /\ op.kind = "publish"
  /\ LET repeated == srv.state = "finalized" /\ srv.rev = op.rev
     IN  /\ op' = [op EXCEPT !.at = IF Matches(op.rev) \/ repeated THEN "ok" ELSE "refused"]
         /\ srv' = IF Matches(op.rev) THEN [srv EXCEPT !.state = "finalized", !.pdf = op.content]
                                      ELSE srv
  /\ UNCHANGED <<ed, get, save, leave, edits>>

\* DeleteImport, which checks no revision.
HandleDelete ==
  /\ op.at = "request" /\ op.kind \in {"discard", "details"}
  /\ op' = [op EXCEPT !.at = IF srv.state = "open" THEN "ok" ELSE "refused"]
  /\ srv' = IF srv.state = "open" THEN [srv EXCEPT !.state = "deleted"] ELSE srv
  /\ UNCHANGED <<ed, get, save, leave, edits>>

\* Another tab that has just loaded the draft changes it, or it is discarded or expires.
OtherTab ==
  /\ srv.state = "open"
  /\ \/ /\ edits < MaxEdits
        /\ edits' = edits + 1
        /\ srv' = [srv EXCEPT !.rev = @ + 1, !.content = edits']
     \/ /\ srv' = [srv EXCEPT !.state = "deleted"]
        /\ UNCHANGED edits
  /\ UNCHANGED <<ed, get, save, op, leave>>

----------------------------------------------------------------------------
(***************************************************************************)
(* Answers.                                                                *)
(***************************************************************************)

\* What is unsaved was so when the reload was asked for.
GivesUp == ed.dirty /\ ed.latest = get.latest

\* A reload's answer meets a save, or a change that was made after it was asked for.
Overtakes == save # NoSave \/ (ed.dirty /\ ~GivesUp)

\* load() shows the draft, or the piece it has become. It forgets no flag and no timer, but
\* what was not saved is replaced.
Loaded ==
  /\ get.at = "ok"
  /\ get' = NoGet
  /\ IF get.state = "finalized"
       THEN /\ leave' = IF leave = "no" /\ ed.phase # "gone" THEN "navigating" ELSE leave
            /\ UNCHANGED ed
       ELSE /\ ed' = [ed EXCEPT !.phase = IF @ = "loading" THEN "open" ELSE @,
                                !.content = get.content, !.rev = get.rev,
                                !.latest = IF GivesUp THEN 0 ELSE @,
                                !.spoiled = @ \/ Overtakes]
            /\ UNCHANGED leave
  /\ UNCHANGED <<srv, save, op, edits>>

LoadFails ==
  /\ get # NoGet
  /\ get' = NoGet
  /\ ed' = [ed EXCEPT !.told = Tells]
  /\ UNCHANGED <<srv, save, op, leave, edits>>

\* When the save that discard() awaits is over, it forgets the changes once more.
DirtyAfterWait(dirty) == dirty /\ ~(Discarding /\ op.at = "wait")

\* One of those who joined a save starts another one when there are new changes.
JoinersReturn(e, joiners) == [ed |-> e, save |-> NoSave, done |-> TRUE]

JoinersGoOn(e, joiners) ==
  IF e.dirty /\ joiners # <<>> THEN Persist(e, NoSave, Head(joiners))
                               ELSE [ed |-> e, save |-> NoSave, done |-> TRUE]

\* The answer's revision is the draft's. The one who started the save returns without
\* looking for new changes, and so do all joiners but the first.
Saved ==
  LET p == JoinersGoOn([ed EXCEPT !.rev = save.rev + 1], Tail(save.callers))
      goesOn == IF p.save = NoSave THEN {} ELSE {2}
      returned == {save.callers[i] : i \in DOMAIN save.callers \ goesOn}
      e == [p.ed EXCEPT !.dirty = DirtyAfterWait(@),
                        !.spoiled = @ \/ ("op" \in returned /\ p.save # NoSave)]
  IN  /\ save.at = "ok"
      /\ save' = p.save
      /\ ed' = IF "leave" \in returned THEN Gone(e) ELSE e
      /\ leave' = IF "leave" \in returned THEN "no"
                  ELSE IF "close" \in returned /\ leave = "no" /\ ed.phase # "gone" THEN "navigating"
                  ELSE leave
      /\ op' = IF "op" \in returned THEN Proceed(op, p.ed)
               ELSE IF op.at = "wait" THEN [op EXCEPT !.at = "request"]
               ELSE IF "leave" \in returned THEN Decided(op)
               ELSE op
      /\ UNCHANGED <<srv, get, edits>>

NeverDirty == FALSE

\* A save that failed is to be done again, unless the draft is being discarded.
DirtyAfterFailure == ~Discarding

\* Everyone who awaited it fails; a departure asks whether to lose the changes.
SaveFails ==
  LET returned == Range(save.callers)
      failed == [ed EXCEPT !.dirty = DirtyAfterWait(DirtyAfterFailure), !.told = Tells]
  IN  /\ save # NoSave
      /\ save' = NoSave
      /\ \/ /\ "leave" \in returned
            /\ ed' = Gone(failed)
         \/ ed' = failed
      /\ leave' = IF "leave" \in returned THEN "no" ELSE leave
      /\ op' = CASE "op" \in returned -> NoOp
                 [] op.at = "wait" /\ op.kind = "details" -> NoOp
                 [] op.at = "wait" /\ op.kind = "discard" -> [op EXCEPT !.at = "request"]
                 [] OTHER -> IF "leave" \in returned THEN Decided(op) ELSE op
      /\ UNCHANGED <<srv, get, edits>>

----------------------------------------------------------------------------

\* The answer replaces the editor's draft. Then comes the next file, or nothing.
Uploaded ==
  /\ op.at = "ok" /\ op.kind = "upload"
  /\ ed' = [ed EXCEPT !.content = op.content, !.rev = op.rev, !.sources = TRUE]
  /\ op' \in {NoOp, [op EXCEPT !.at = "request"]}
  /\ UNCHANGED <<srv, get, save, leave, edits>>

\* A replacement's page takes the place of the old one in the editor, which saves that.
Replaced ==
  /\ op.at = "ok" /\ op.kind = "replace" /\ edits < MaxEdits
  /\ edits' = edits + 1
  /\ LET p == Persist([ed EXCEPT !.content = edits', !.latest = edits', !.rev = op.rev, !.dirty = TRUE,
                                 !.told = FALSE], save, "op")
     IN  ed' = p.ed /\ save' = p.save
  /\ op' = [op EXCEPT !.kind = "replaced", !.at = "persist"]
  /\ UNCHANGED <<srv, get, leave>>

\* The editor stays when another piece has the same PDF, else it goes to the reader.
Published ==
  /\ op.at = "ok" /\ op.kind = "publish"
  /\ ed' = [ed EXCEPT !.dirty = FALSE, !.finalized = TRUE]
  /\ \/ /\ op' = NoOp
        /\ UNCHANGED leave
     \/ /\ op' = IF ed.phase = "gone" THEN NoOp ELSE [op EXCEPT !.at = "done"]
        /\ leave' = IF ed.phase # "gone" /\ leave = "no" THEN "navigating" ELSE leave
  /\ UNCHANGED <<srv, get, save, edits>>

\* discard() is still discarding when canLeave is asked.
Deleted ==
  /\ op.at = "ok" /\ op.kind \in {"discard", "details"}
  /\ ed' = [ed EXCEPT !.dirty = IF op.kind = "details" THEN FALSE ELSE @]
  /\ op' = IF ed.phase = "gone" THEN NoOp ELSE [op EXCEPT !.at = "done"]
  /\ leave' = IF ed.phase # "gone" /\ leave = "no" THEN "navigating" ELSE leave
  /\ UNCHANGED <<srv, get, save, edits>>

\* An operation's request, its answer or the worker fails. A discard that failed is over, but the
\* changes it forgot are not remembered.
OpFails ==
  /\ op.at \in {"build", "request", "ok", "refused"}
  /\ op' = NoOp
  /\ ed' = [ed EXCEPT !.told = Tells]
  /\ UNCHANGED <<srv, get, save, leave, edits>>

UserStep ==
  \/ Edit
  \/ SaveTimerFires
  \/ FlushNow
  \/ Close
  \/ Navigate
  \/ CanLeave
  \/ Reload
  \/ \E kind \in {"upload", "replace", "publish"} : Begin(kind)
  \/ Discard
  \/ DetailsWithoutPDF
  \/ Built

ServerStep ==
  \/ HandleSave
  \/ HandleGet
  \/ HandleUpload
  \/ HandlePublish
  \/ HandleDelete
  \/ OtherTab

AnswerStep ==
  \/ Loaded
  \/ LoadFails
  \/ Saved
  \/ SaveFails
  \/ Uploaded
  \/ Replaced
  \/ Published
  \/ Deleted
  \/ OpFails

Next == UserStep \/ ServerStep \/ AnswerStep

Spec == Init /\ [][Next]_vars

----------------------------------------------------------------------------
(***************************************************************************)
(* Properties.                                                             *)
(***************************************************************************)

\* Types, and: a save is awaited by the one who started it, a departure or an operation
\* that waits for a save is among its callers.
TypeOK ==
  /\ srv \in [state : {"open", "finalized", "deleted"}, rev : Nat, content : Nat, pdf : Nat]
  /\ ed \in EditorRow
  /\ get \in [at : {"none", "asked", "ok"}, state : {"open", "finalized"}, rev : Nat, content : Nat,
              latest : Nat]
  /\ save \in [at : {"none", "sent", "ok", "refused"}, rev : Nat, content : Nat,
               callers : Seq(Callers)]
  /\ op \in [kind : {"none", "upload", "replace", "replaced", "publish", "discard", "details"},
             at : {"none", "persist", "wait", "build", "request", "ok", "refused", "done"},
             rev : Nat, content : Nat]
  /\ leave \in {"no", "navigating", "flush"}
  /\ edits \in 0..MaxEdits
  /\ save # NoSave => save.callers # <<>>
  /\ leave = "flush" <=> "leave" \in Range(save.callers)
  /\ op.at = "persist" <=> "op" \in Range(save.callers)
  /\ op.at = "wait" => save # NoSave

\* An editor with nothing to save, at the revision the API has, shows the draft the API has,
\* and it has the last change made here: none was lost while a save, an upload or a load was
\* on its way, except that a reload gives up what is unsaved when it is asked for. The ways
\* it goes wrong in the code are left out (spoiled): a discard that failed after it forgot
\* unsaved changes, a reload whose answer met a save, one whose answer overwrote a change
\* made while it was on its way (the old content is saved then), an operation beside a save.
SettledDraftIsSaved ==
  /\ ed.phase # "loading" /\ op = NoOp /\ save = NoSave /\ ~ed.dirty /\ ~ed.spoiled
  /\ srv.state = "open" /\ ed.rev = srv.rev
  => srv.content = ed.content /\ srv.content >= ed.latest

\* An unsaved change is saved by itself: its timer runs or someone awaits the present save
\* and will save again, until an error was shown.
UnsavedChangeIsScheduled ==
  ed.phase = "open" /\ ed.dirty /\ ~ed.told => ed.timer \/ Len(save.callers) > 1

\* Once discard() has sent its delete no save is on its way, so none can arrive after it,
\* and none is left to fail and to ask whether to lose the changes.
NothingSentAfterDiscard ==
  op.kind = "discard" /\ op.at # "wait" => save = NoSave /\ ~ed.dirty /\ ~ed.timer

\* The published PDF was built from the manifest that is stored with it, so that preparing
\* the piece again starts from what is seen. The same ways are left out.
PublishedPdfMatchesManifest == srv.state = "finalized" /\ ~ed.spoiled => srv.pdf = srv.content

\* A publication waits until the latest changes are saved: none is on its way when the PDF
\* is built or sent, where it would change the revision under the publication.
PublicationFlushesFirst ==
  op.kind = "publish" /\ op.at \in {"build", "request"} => save = NoSave

\* Leaving keeps the changes: when the editor is left and nothing is on its way, no change
\* is unsaved, unless an error was shown (and the user agreed to lose it).
LeavingKeepsEdits == ed.phase = "gone" /\ save = NoSave /\ ~ed.told => ~ed.dirty

============================================================================
