-------------------------- MODULE DraftEditorProofs --------------------------
(***************************************************************************)
(* The saving of a draft, for any number of changes and reloads.           *)
(*                                                                         *)
(* Four facts carry the rest.  Revisions: whatever the editor has from     *)
(* the API, with its revision, is what the API had at that revision, so    *)
(* that it is still the draft as long as the revision is the draft's       *)
(* (Revisions).  Saving: content that nothing marks as unsaved is the      *)
(* present save's, or the one the editor got with its revision (Contents). *)
(* Operations: one that is past its persist() finds no save under way and  *)
(* nothing unsaved, unless the draft counts as spoiled (Undisturbed); for  *)
(* this an operation waits at most once for a save, and what it started    *)
(* leaves nothing dirty (SaveRoles).  Changes: the last one made here is   *)
(* in the editor, then in the save on its way, then in the draft, until a  *)
(* reload gives it up (LatestKept).                                        *)
(***************************************************************************)
EXTENDS DraftEditor, TLAPS, SequenceTheorems

GetRow == [at : {"none", "asked", "ok"}, state : {"open", "finalized"}, rev : Nat, content : Nat,
           latest : Nat]

\* The stages of each operation.
OpStages ==
  /\ op.kind = "none" <=> op = NoOp
  /\ op.at = "none" <=> op = NoOp
  /\ op.at = "persist" => op.kind \in {"upload", "replace", "replaced", "publish"}
  /\ op.at = "wait" => op.kind \in {"discard", "details"}
  /\ op.at = "build" => op.kind = "publish"
  /\ op.kind = "replaced" => op.at = "persist"
  /\ op.at = "ok" /\ op.kind \in {"publish", "discard", "details"} => srv.state # "open"
  /\ op.kind \in {"upload", "replace", "replaced", "publish", "discard"} /\ op.at # "done"
     => ~ed.finalized

Once(s, c) == \A i, j \in DOMAIN s : s[i] = c /\ s[j] = c => i = j

\* Who awaits the present save.
SaveRoles ==
  /\ save.at = "none" => save = NoSave
  /\ Once(save.callers, "op") /\ Once(save.callers, "leave")
  /\ save # NoSave /\ save.callers[1] = "op" => ~ed.dirty

EditorFlags ==
  /\ ed.phase = "loading" => save = NoSave /\ op = NoOp /\ ~ed.dirty
  /\ ed.finalized /\ ed.dirty => ed.told \/ ed.phase = "gone"
  /\ Discarding => ~ed.dirty /\ ~ed.timer
  /\ Discarding /\ save # NoSave => op.at = "wait" /\ ed.spoiled
  /\ UnsavedChangeIsScheduled

\* Content of a revision the API had: the draft's, if that is its present revision.
Agrees(rev, content) == rev <= srv.rev /\ (rev = srv.rev => content = srv.content)

Revisions ==
  /\ ed.rev <= srv.rev /\ op.rev <= srv.rev /\ save.rev <= srv.rev
  /\ get.at = "ok" => Agrees(get.rev, get.content)
  /\ save.at = "ok" => Agrees(save.rev + 1, save.content)
  /\ op.at = "ok" /\ op.kind \in {"upload", "replace"} => Agrees(op.rev, op.content)

\* An operation past its persist(), which sends or builds what the editor holds.
PastSaving ==
  op.kind \in {"upload", "replace", "publish"} /\ op.at \in {"build", "request", "ok", "refused"}

Undisturbed == PastSaving /\ ~ed.spoiled => save = NoSave /\ ~ed.dirty

Contents ==
  ~ed.spoiled =>
    /\ srv.state = "open" /\ ~ed.dirty =>
         IF save = NoSave THEN Agrees(ed.rev, ed.content) ELSE ed.content = save.content
    /\ srv.state = "open" /\ op.kind = "publish" /\ op.at \in {"build", "request"} =>
         Agrees(op.rev, op.content)
    /\ srv.state = "finalized" => srv.pdf = srv.content

\* The last change made here is in the editor while it is unsaved, in the save that is on its
\* way, or in the draft.
LatestKept ==
  /\ ed.latest <= edits
  /\ ~ed.spoiled =>
       /\ ed.dirty \/ save # NoSave => ed.content >= ed.latest
       /\ srv.state = "open" /\ ~ed.dirty =>
            IF save.at \in {"sent", "refused"} THEN save.content >= ed.latest
                                              ELSE srv.content >= ed.latest

EditorInv ==
  /\ TypeOK
  /\ OpStages
  /\ SaveRoles
  /\ EditorFlags
  /\ Revisions
  /\ Undisturbed
  /\ Contents
  /\ LatestKept

----------------------------------------------------------------------------
(***************************************************************************)
(* Who awaits a save.                                                      *)
(***************************************************************************)

LEMMA JoinedCallers ==
  ASSUME NEW s \in Seq(Callers), s # <<>>, NEW c \in Callers,
         NEW t, t = IF c \in Range(Tail(s)) THEN s ELSE Append(s, c)
  PROVE  /\ t \in Seq(Callers) /\ t # <<>> /\ Len(t) > 1 /\ t[1] = s[1]
         /\ Range(t) = Range(s) \cup {c}
         /\ \A x : Once(s, x) /\ (x = c => x \notin Range(s)) => Once(t, x)
<1>0. Len(s) \in Nat /\ Len(s) > 0 /\ DOMAIN s = 1 .. Len(s)
  BY EmptySeq
<1>1. CASE c \in Range(Tail(s))
  <2>1. PICK i \in 1 .. Len(s) - 1 : Tail(s)[i] = c
    <3>1. DOMAIN Tail(s) = 1 .. Len(s) - 1
      BY <1>0, HeadTailProperties
    <3> QED
      BY <1>1, <3>1 DEF Range
  <2>2. s[i + 1] = c /\ i + 1 \in DOMAIN s /\ Len(s) > 1
    BY <1>0, <2>1, HeadTailProperties
  <2> QED
    BY <1>1, <2>2 DEF Range
<1>2. CASE c \notin Range(Tail(s))
  <2>1. /\ t \in Seq(Callers) /\ Len(t) = Len(s) + 1 /\ t[Len(s) + 1] = c
        /\ \A i \in 1 .. Len(s) : t[i] = s[i]
    BY <1>2, AppendProperties
  <2>2. DOMAIN t = 1 .. Len(s) + 1
    BY <2>1
  <2>3. Range(t) = Range(s) \cup {c}
    BY <1>0, <2>1, <2>2 DEF Range
  <2>4. ASSUME NEW x, Once(s, x), x = c => x \notin Range(s) PROVE Once(t, x)
    BY <1>0, <2>1, <2>2, <2>4 DEF Once, Range
  <2> QED
    BY <1>0, <2>1, <2>3, <2>4
<1> QED
  BY <1>1, <1>2

LEMMA OneCaller ==
  ASSUME NEW c \in Callers
  PROVE  /\ <<c>> \in Seq(Callers) /\ <<c>> # <<>> /\ <<c>>[1] = c /\ Range(<<c>>) = {c}
         /\ Len(<<c>>) = 1 /\ \A x : Once(<<c>>, x)
BY DEF Range, Once

LEMMA OneLeft ==
  ASSUME NEW s \in Seq(Callers), s # <<>>, Tail(s) = <<>>
  PROVE  Len(s) = 1 /\ DOMAIN s = 1 .. 1
<1>1. Len(s) \in Nat /\ DOMAIN s = 1 .. Len(s) /\ Len(s) # 0
  BY EmptySeq
<1>2. Len(Tail(s)) = Len(s) - 1
  BY HeadTailProperties
<1>3. Len(Tail(s)) = 0
  BY EmptySeq
<1> QED
  BY <1>1, <1>2, <1>3

LEMMA NobodyWaits == NoSave.callers = <<>> /\ Range(NoSave.callers) = {} /\ \A x : Once(NoSave.callers, x)
BY DEF NoSave, Range, Once

\* persist() of the editor as it is: it joins a save, starts one or rests.
Joins(c) ==
  /\ save # NoSave /\ ed' = [ed EXCEPT !.timer = FALSE]
  /\ save' = [save EXCEPT !.callers = IF c \in Range(Tail(@)) THEN @ ELSE Append(@, c)]

Starts(c) ==
  /\ save = NoSave /\ ed.dirty /\ ~ed.finalized
  /\ ed' = [[ed EXCEPT !.timer = FALSE] EXCEPT !.dirty = FALSE]
  /\ save' = [at |-> "sent", rev |-> ed.rev, content |-> ed.content, callers |-> <<c>>]

Rests ==
  /\ save = NoSave /\ (ed.dirty => ed.finalized)
  /\ ed' = [ed EXCEPT !.timer = FALSE] /\ save' = NoSave

LEMMA PersistIs ==
  ASSUME NEW c, ed' = Persist(ed, save, c).ed, save' = Persist(ed, save, c).save
  PROVE  \/ Joins(c) /\ ~Persist(ed, save, c).done
         \/ Starts(c) /\ ~Persist(ed, save, c).done
         \/ Rests /\ Persist(ed, save, c).done
<1>1. CASE save # NoSave
  BY <1>1 DEF Persist, Joins
<1>2. CASE save = NoSave /\ ed.dirty /\ ~ed.finalized
  BY <1>2 DEF Persist, Starts
<1>3. CASE save = NoSave /\ ~(ed.dirty /\ ~ed.finalized)
  BY <1>3 DEF Persist, Rests
<1> QED
  BY <1>1, <1>2, <1>3

\* The editor and the save after each of the three.
SameEditor ==
  /\ ed'.phase = ed.phase /\ ed'.content = ed.content /\ ed'.rev = ed.rev
  /\ ed'.sources = ed.sources /\ ed'.finalized = ed.finalized /\ ed'.told = ed.told
  /\ ed'.spoiled = ed.spoiled /\ ed'.latest = ed.latest

LEMMA AfterJoin ==
  ASSUME TypeOK, NEW c \in Callers, Joins(c), SaveRoles
  PROVE  /\ ed' \in EditorRow /\ SameEditor /\ ed'.dirty = ed.dirty /\ ed'.timer = FALSE
         /\ save' \in [at : {"none", "sent", "ok", "refused"}, rev : Nat, content : Nat, callers : Seq(Callers)]
         /\ save'.at = save.at /\ save'.rev = save.rev /\ save'.content = save.content
         /\ save # NoSave /\ save' # NoSave /\ save'.callers # <<>> /\ Len(save'.callers) > 1
         /\ save'.callers[1] = save.callers[1]
         /\ Range(save'.callers) = Range(save.callers) \cup {c}
         /\ \A x : Once(save.callers, x) /\ (x = c => x \notin Range(save.callers)) => Once(save'.callers, x)
<1>1. ed' \in EditorRow /\ SameEditor /\ ed'.dirty = ed.dirty /\ ed'.timer = FALSE
  BY DEF TypeOK, EditorRow, Joins, SameEditor
<1>2. save.callers \in Seq(Callers) /\ save.callers # <<>> /\ save.at # "none" /\ save # NoSave
  BY DEF TypeOK, Joins, SaveRoles
<1> DEFINE t == IF c \in Range(Tail(save.callers)) THEN save.callers ELSE Append(save.callers, c)
<1>3. save' = [save EXCEPT !.callers = t]
  BY DEF Joins
<1>4. /\ t \in Seq(Callers) /\ t # <<>> /\ Len(t) > 1 /\ t[1] = save.callers[1]
      /\ Range(t) = Range(save.callers) \cup {c}
      /\ \A x : Once(save.callers, x) /\ (x = c => x \notin Range(save.callers)) => Once(t, x)
  BY ZenonT(60), <1>2, JoinedCallers
<1> HIDE DEF t
<1>5. /\ save'.callers = t /\ save'.at = save.at /\ save'.rev = save.rev /\ save'.content = save.content
      /\ save' \in [at : {"none", "sent", "ok", "refused"}, rev : Nat, content : Nat, callers : Seq(Callers)]
  BY <1>3, <1>4 DEF TypeOK
<1>6. save' # NoSave
  BY <1>2, <1>5 DEF NoSave
<1> QED
  BY <1>1, <1>2, <1>4, <1>5, <1>6

LEMMA AfterStart ==
  ASSUME TypeOK, NEW c \in Callers, Starts(c)
  PROVE  /\ ed' \in EditorRow /\ SameEditor /\ ed'.dirty = FALSE /\ ed'.timer = FALSE
         /\ save' \in [at : {"none", "sent", "ok", "refused"}, rev : Nat, content : Nat, callers : Seq(Callers)]
         /\ save'.at = "sent" /\ save'.rev = ed.rev /\ save'.content = ed.content
         /\ save = NoSave /\ save' # NoSave /\ save'.callers # <<>> /\ save'.callers[1] = c
         /\ Range(save'.callers) = {c} /\ Range(save.callers) = {}
         /\ \A x : Once(save'.callers, x)
<1>1. ed' \in EditorRow /\ SameEditor /\ ed'.dirty = FALSE /\ ed'.timer = FALSE
  <2> DEFINE e == [ed EXCEPT !.timer = FALSE]
  <2>1. /\ e \in EditorRow /\ e.phase = ed.phase /\ e.content = ed.content /\ e.rev = ed.rev
        /\ e.sources = ed.sources /\ e.finalized = ed.finalized /\ e.told = ed.told
        /\ e.spoiled = ed.spoiled /\ e.latest = ed.latest /\ e.timer = FALSE
    BY DEF TypeOK, EditorRow
  <2>2. ed' = [e EXCEPT !.dirty = FALSE]
    BY DEF Starts
  <2> HIDE DEF e
  <2> QED
    BY <2>1, <2>2 DEF EditorRow, SameEditor
<1>2. save' = [at |-> "sent", rev |-> ed.rev, content |-> ed.content, callers |-> <<c>>] /\ save = NoSave
  BY DEF Starts
<1>3. ed.rev \in Nat /\ ed.content \in Nat
  BY DEF TypeOK, EditorRow
<1> QED
  BY <1>1, <1>2, <1>3, OneCaller, NobodyWaits DEF NoSave

LEMMA AfterRest ==
  ASSUME TypeOK, Rests
  PROVE  /\ ed' \in EditorRow /\ SameEditor /\ ed'.dirty = ed.dirty /\ ed'.timer = FALSE
         /\ ed.dirty => ed.finalized
         /\ save = NoSave /\ save' = save /\ Range(save.callers) = {}
<1>1. ed' \in EditorRow /\ SameEditor /\ ed'.dirty = ed.dirty /\ ed'.timer = FALSE
  BY DEF TypeOK, EditorRow, Rests, SameEditor
<1> QED
  BY <1>1, NobodyWaits DEF Rests

----------------------------------------------------------------------------
(***************************************************************************)
(* Persist() beside whatever else goes on: the timer, continue(), close()  *)
(* and a departure.                                                        *)
(***************************************************************************)

LEMMA PersistBeside ==
  ASSUME EditorInv, NEW c \in {"timer", "close", "leave"},
         ed' = Persist(ed, save, c).ed, save' = Persist(ed, save, c).save,
         UNCHANGED <<srv, get, op, edits>>,
         c = "leave" => "leave" \notin Range(save.callers),
         leave' \in {"no", "navigating", "flush"},
         leave' = "flush" <=> "leave" \in Range(save'.callers)
  PROVE  EditorInv'
<1> USE DEF EditorInv
<1>c. c \in Callers /\ c # "op"
  BY DEF Callers
<1>1. CASE Joins(c)
  <2>1. /\ ed' \in EditorRow /\ SameEditor /\ ed'.dirty = ed.dirty /\ ed'.timer = FALSE
        /\ save' \in [at : {"none", "sent", "ok", "refused"}, rev : Nat, content : Nat, callers : Seq(Callers)]
        /\ save'.at = save.at /\ save'.rev = save.rev /\ save'.content = save.content
        /\ save # NoSave /\ save' # NoSave /\ save'.callers # <<>> /\ Len(save'.callers) > 1
        /\ save'.callers[1] = save.callers[1]
        /\ Range(save'.callers) = Range(save.callers) \cup {c}
        /\ \A x : Once(save.callers, x) /\ (x = c => x \notin Range(save.callers)) => Once(save'.callers, x)
    BY <1>1, <1>c, AfterJoin
  <2>2. TypeOK'
    BY <1>c, <2>1 DEF TypeOK
  <2>3. OpStages'
    BY <2>1 DEF OpStages, SameEditor
  <2>4. SaveRoles'
    <3>1. Once(save'.callers, "op") /\ Once(save'.callers, "leave")
      BY <1>c, <2>1 DEF SaveRoles
    <3> QED
      BY <2>1, <3>1 DEF SaveRoles
  <2>5. EditorFlags'
    BY <2>1 DEF EditorFlags, SameEditor, Discarding, UnsavedChangeIsScheduled
  <2>6. Revisions'
    BY <2>1 DEF Revisions, SameEditor, Agrees
  <2>7. Undisturbed'
    BY <2>1 DEF Undisturbed, PastSaving, SameEditor
  <2>8. Contents'
    BY <2>1 DEF Contents, SameEditor, Agrees
  <2>kept. LatestKept'
    BY <2>1 DEF LatestKept, SameEditor
  <2> QED
    BY <2>2, <2>3, <2>4, <2>5, <2>6, <2>7, <2>8, <2>kept
<1>2. CASE Starts(c)
  <2>1. /\ ed' \in EditorRow /\ SameEditor /\ ed'.dirty = FALSE /\ ed'.timer = FALSE
        /\ save' \in [at : {"none", "sent", "ok", "refused"}, rev : Nat, content : Nat, callers : Seq(Callers)]
        /\ save'.at = "sent" /\ save'.rev = ed.rev /\ save'.content = ed.content
        /\ save = NoSave /\ save' # NoSave /\ save'.callers # <<>> /\ save'.callers[1] = c
        /\ Range(save'.callers) = {c} /\ Range(save.callers) = {} /\ ed.dirty
        /\ Once(save'.callers, "op") /\ Once(save'.callers, "leave")
    BY <1>2, <1>c, AfterStart DEF Starts
  <2>2. TypeOK'
    BY <1>c, <2>1 DEF TypeOK
  <2>3. OpStages'
    BY <2>1 DEF OpStages, SameEditor
  <2>4. SaveRoles'
    BY <2>1 DEF SaveRoles
  <2>5. EditorFlags'
    BY <2>1 DEF EditorFlags, SameEditor, Discarding, UnsavedChangeIsScheduled
  <2>6. Revisions'
    BY <2>1 DEF Revisions, SameEditor, Agrees
  <2>7. Undisturbed'
    BY <2>1 DEF Undisturbed, PastSaving, SameEditor
  <2>8. Contents'
    BY <2>1 DEF Contents, SameEditor, Agrees
  <2>kept. LatestKept'
    BY <2>1 DEF LatestKept, SameEditor
  <2> QED
    BY <2>2, <2>3, <2>4, <2>5, <2>6, <2>7, <2>8, <2>kept
<1>3. CASE Rests
  <2>1. /\ ed' \in EditorRow /\ SameEditor /\ ed'.dirty = ed.dirty /\ ed'.timer = FALSE
        /\ ed.dirty => ed.finalized
        /\ save = NoSave /\ save' = save /\ Range(save.callers) = {}
    BY <1>3, AfterRest
  <2>2. TypeOK'
    BY <2>1 DEF TypeOK
  <2>3. OpStages'
    BY <2>1 DEF OpStages, SameEditor
  <2>4. SaveRoles'
    BY <2>1 DEF SaveRoles
  <2>5. EditorFlags'
    BY <2>1 DEF EditorFlags, SameEditor, Discarding, UnsavedChangeIsScheduled
  <2>6. Revisions'
    BY <2>1 DEF Revisions, SameEditor, Agrees
  <2>7. Undisturbed'
    BY <2>1 DEF Undisturbed, PastSaving, SameEditor
  <2>8. Contents'
    BY <2>1 DEF Contents, SameEditor, Agrees
  <2>kept. LatestKept'
    BY <2>1 DEF LatestKept, SameEditor
  <2> QED
    BY <2>2, <2>3, <2>4, <2>5, <2>6, <2>7, <2>8, <2>kept
<1> QED
  BY <1>1, <1>2, <1>3, PersistIs

\* Who awaits the save then.
LEMMA WaitersAfter ==
  ASSUME EditorInv, NEW c \in Callers,
         ed' = Persist(ed, save, c).ed, save' = Persist(ed, save, c).save
  PROVE  Range(save'.callers) = IF Persist(ed, save, c).done THEN Range(save.callers)
                                                             ELSE Range(save.callers) \cup {c}
<1> USE DEF EditorInv
<1>1. CASE Joins(c) /\ ~Persist(ed, save, c).done
  BY <1>1, AfterJoin
<1>2. CASE Starts(c) /\ ~Persist(ed, save, c).done
  BY <1>2, AfterStart
<1>3. CASE Rests /\ Persist(ed, save, c).done
  BY <1>3, AfterRest
<1> QED
  BY <1>1, <1>2, <1>3, PersistIs

LEMMA TimerKeeps == ASSUME EditorInv, SaveTimerFires \/ FlushNow PROVE EditorInv'
<1>1. /\ ed' = Persist(ed, save, "timer").ed /\ save' = Persist(ed, save, "timer").save
      /\ UNCHANGED <<srv, get, op, edits>> /\ leave' = leave
  BY DEF SaveTimerFires, FlushNow, PersistOnly
<1>2. leave' = "flush" <=> "leave" \in Range(save'.callers)
  BY <1>1, WaitersAfter DEF EditorInv, TypeOK, Callers
<1> QED
  BY <1>1, <1>2, PersistBeside DEF EditorInv, TypeOK

LEMMA CloseKeeps == ASSUME EditorInv, Close PROVE EditorInv'
<1>1. /\ ed' = Persist(ed, save, "close").ed /\ save' = Persist(ed, save, "close").save
      /\ UNCHANGED <<srv, get, op, edits>> /\ leave = "no" /\ leave' \in {"no", "navigating"}
  BY DEF Close, PersistOnly
<1>2. leave' = "flush" <=> "leave" \in Range(save'.callers)
  BY <1>1, WaitersAfter DEF EditorInv, TypeOK, Callers
<1> QED
  BY <1>1, <1>2, PersistBeside DEF EditorInv

----------------------------------------------------------------------------
(***************************************************************************)
(* The user's other steps.                                                 *)
(***************************************************************************)

LEMMA EditKeeps == ASSUME EditorInv, Edit PROVE EditorInv'
<1> USE DEF EditorInv
<1>1. /\ op = NoOp /\ ed.phase = "open" /\ ~ed.finalized /\ UNCHANGED <<srv, get, save, op, leave>>
      /\ edits' = edits + 1 /\ edits < MaxEdits
  BY DEF Edit, Idle
<1>2. edits \in Nat /\ edits' \in 0 .. MaxEdits /\ edits' \in Nat
  BY <1>1, EditorAssumption DEF TypeOK
<1>3. ed' = [ed EXCEPT !.content = edits', !.latest = edits', !.dirty = TRUE, !.timer = TRUE, !.told = FALSE]
  BY DEF Edit
<1>4. /\ ed' \in EditorRow /\ ed'.phase = ed.phase /\ ed'.rev = ed.rev /\ ed'.finalized = ed.finalized
      /\ ed'.spoiled = ed.spoiled /\ ed'.dirty = TRUE /\ ed'.timer = TRUE /\ ed'.told = FALSE
      /\ ed'.content = edits' /\ ed'.latest = edits'
  BY <1>2, <1>3 DEF TypeOK, EditorRow
<1>n. NoOp.at = "none" /\ NoOp.kind = "none"
  BY DEF NoOp
<1>5. TypeOK'
  BY <1>1, <1>2, <1>4 DEF TypeOK
<1>6. OpStages'
  BY <1>1, <1>4 DEF OpStages
<1>7. SaveRoles'
  <2>1. "op" \notin Range(save.callers)
    BY <1>1, <1>n DEF TypeOK
  <2>2. save # NoSave => save.callers[1] # "op"
    BY <2>1, EmptySeq DEF TypeOK, Range
  <2> QED
    BY <1>1, <2>2 DEF SaveRoles
<1>8. EditorFlags'
  BY <1>1, <1>4, <1>n DEF EditorFlags, Discarding, UnsavedChangeIsScheduled
<1>9. Revisions'
  BY <1>1, <1>4 DEF Revisions, Agrees
<1>10. Undisturbed' /\ Contents'
  BY <1>1, <1>4, <1>n DEF Undisturbed, PastSaving, Contents, Agrees
<1>kept. LatestKept'
  BY <1>1, <1>4, <1>n DEF LatestKept
<1> QED
  BY <1>5, <1>6, <1>7, <1>8, <1>9, <1>10, <1>kept

\* Steps that change only the departure and the request for the draft.
LEMMA NavigateKeeps == ASSUME EditorInv, Navigate PROVE EditorInv'
<1> USE DEF EditorInv, Navigate
<1>1. TypeOK' /\ OpStages' /\ SaveRoles'
  BY DEF TypeOK, OpStages, SaveRoles
<1>2. EditorFlags'
  BY DEF EditorFlags, Discarding, UnsavedChangeIsScheduled
<1>3. Revisions' /\ Undisturbed' /\ Contents'
  BY DEF Revisions, Agrees, Undisturbed, PastSaving, Contents
<1>kept. LatestKept'
  BY DEF LatestKept
<1> QED
  BY <1>1, <1>2, <1>3, <1>kept

LEMMA ReloadKeeps == ASSUME EditorInv, Reload PROVE EditorInv'
<1> USE DEF EditorInv
<1>0. get' = [NoGet EXCEPT !.at = "asked", !.latest = ed.latest] /\ UNCHANGED <<srv, ed, save, op, leave, edits>>
  BY DEF Reload
<1>g. get' \in GetRow
      /\ get'.at = "asked"
  BY <1>0 DEF NoGet, GetRow, TypeOK, EditorRow
<1>1. TypeOK' /\ OpStages' /\ SaveRoles'
  BY <1>0, <1>g DEF TypeOK, GetRow, OpStages, SaveRoles
<1>2. EditorFlags'
  BY <1>0 DEF EditorFlags, Discarding, UnsavedChangeIsScheduled
<1>3. Revisions'
  BY <1>0, <1>g DEF Revisions, Agrees
<1>4. Undisturbed' /\ Contents'
  BY <1>0 DEF Agrees, Undisturbed, PastSaving, Contents
<1>kept. LatestKept'
  BY <1>0 DEF LatestKept
<1> QED
  BY <1>1, <1>2, <1>3, <1>4, <1>kept

OpRow == [kind : {"none", "upload", "replace", "replaced", "publish", "discard", "details"},
          at : {"none", "persist", "wait", "build", "request", "ok", "refused", "done"},
          rev : Nat, content : Nat]

LEMMA NoOpRow ==
  NoOp \in OpRow /\ NoOp.at = "none" /\ NoOp.kind = "none" /\ NoOp.rev = 0 /\ NoOp.content = 0
BY DEF NoOp, OpRow

LEMMA NewOp ==
  ASSUME NEW kind \in {"upload", "replace", "publish"}
  PROVE  LET o == [NoOp EXCEPT !.kind = kind, !.at = "persist"]
         IN  o \in OpRow /\ o.kind = kind /\ o.at = "persist" /\ o.rev = 0 /\ o.content = 0
BY DEF NoOp, OpRow

LEMMA OpAt ==
  ASSUME NEW o \in OpRow, NEW at \in {"build", "request", "ok", "refused", "done"}
  PROVE  LET n == [o EXCEPT !.at = at]
         IN  n \in OpRow /\ n.kind = o.kind /\ n.at = at /\ n.rev = o.rev /\ n.content = o.content
BY DEF OpRow

\* What an operation does once its persist() is over.
LEMMA ProceedIs ==
  ASSUME NEW o \in OpRow, o.kind \in {"upload", "replace", "replaced", "publish"}, NEW e,
         e.rev \in Nat, e.content \in Nat
  PROVE  /\ o.kind \in {"upload", "replace"} =>
              /\ Proceed(o, e) \in OpRow /\ Proceed(o, e).kind = o.kind
              /\ Proceed(o, e).at = "request" /\ Proceed(o, e).rev = e.rev
         /\ o.kind = "publish" =>
              /\ Proceed(o, e) \in OpRow /\ Proceed(o, e).kind = "publish"
              /\ Proceed(o, e).at = "build" /\ Proceed(o, e).rev = e.rev
              /\ Proceed(o, e).content = e.content
         /\ o.kind = "replaced" => Proceed(o, e) = NoOp
<1>1. CASE o.kind \in {"upload", "replace"}
  <2>1. Proceed(o, e) = [o EXCEPT !.at = "request", !.rev = e.rev]
    BY <1>1 DEF Proceed
  <2> QED
    BY <1>1, <2>1 DEF OpRow
<1>2. CASE o.kind = "publish"
  <2>1. Proceed(o, e) = [o EXCEPT !.at = "build", !.rev = e.rev, !.content = e.content]
    BY <1>2 DEF Proceed
  <2> QED
    BY <1>2, <2>1 DEF OpRow
<1>3. CASE o.kind = "replaced"
  BY <1>3 DEF Proceed
<1> QED
  BY <1>1, <1>2, <1>3

LEMMA GoneRow ==
  ASSUME NEW e \in EditorRow
  PROVE  /\ Gone(e) \in EditorRow /\ Gone(e).phase = "gone" /\ Gone(e).content = e.content
         /\ Gone(e).rev = e.rev /\ Gone(e).dirty = e.dirty /\ Gone(e).timer = FALSE
         /\ Gone(e).finalized = e.finalized /\ Gone(e).told = e.told /\ Gone(e).spoiled = e.spoiled /\ Gone(e).latest = e.latest
BY DEF Gone, EditorRow

LEMMA DecidedIs ==
  ASSUME TypeOK, OpStages
  PROVE  /\ Decided(op) \in OpRow /\ Decided(op).rev <= op.rev
         /\ Decided(op) = op \/ (op.at = "done" /\ Decided(op) = NoOp)
BY NoOpRow DEF TypeOK, OpRow, Decided

LEMMA CanLeaveKeeps == ASSUME EditorInv, CanLeave PROVE EditorInv'
<1> USE DEF EditorInv
<1>0. leave = "navigating" /\ UNCHANGED <<srv, get, edits>>
  BY DEF CanLeave
<1>1. CASE HasUnsavedChanges /\ ~Persist(ed, save, "leave").done
  <2>1. /\ ed' = Persist(ed, save, "leave").ed /\ save' = Persist(ed, save, "leave").save
        /\ leave' = "flush" /\ op' = op
    BY <1>1 DEF CanLeave
  <2>2. "leave" \notin Range(save.callers)
    BY <1>0 DEF TypeOK
  <2>3. "leave" \in Range(save'.callers)
    BY <1>1, <2>1, WaitersAfter DEF Callers
  <2> QED
    BY <1>0, <2>1, <2>2, <2>3, PersistBeside
<1>2. CASE ~(HasUnsavedChanges /\ ~Persist(ed, save, "leave").done)
  <2>1. /\ leave' = "no" /\ ed' = Gone(ed) /\ op' = Decided(op) /\ save' = save
    BY <1>2 DEF CanLeave
  <2>2. /\ ed' \in EditorRow /\ ed'.phase = "gone" /\ ed'.content = ed.content
        /\ ed'.rev = ed.rev /\ ed'.dirty = ed.dirty /\ ed'.timer = FALSE
        /\ ed'.finalized = ed.finalized /\ ed'.told = ed.told /\ ed'.spoiled = ed.spoiled /\ ed'.latest = ed.latest
    BY <2>1, GoneRow DEF TypeOK
  <2>3. /\ op' \in OpRow /\ op'.rev <= op.rev
        /\ op' = op \/ (op.at = "done" /\ op' = NoOp)
    BY <2>1, DecidedIs
  <2>4. TypeOK'
    BY <1>0, <2>1, <2>2, <2>3, NoOpRow DEF TypeOK, OpRow
  <2>5. OpStages'
    BY <1>0, <2>2, <2>3, NoOpRow DEF OpStages
  <2>6. SaveRoles'
    BY <2>1, <2>2 DEF SaveRoles
  <2>7. EditorFlags'
    BY <2>1, <2>2, <2>3, NoOpRow DEF EditorFlags, Discarding, UnsavedChangeIsScheduled
  <2>8. Revisions'
    BY <1>0, <2>1, <2>2, <2>3, NoOpRow DEF Revisions, Agrees, TypeOK
  <2>9. Undisturbed'
    BY <2>1, <2>2, <2>3, NoOpRow DEF Undisturbed, PastSaving
  <2>10. Contents'
    BY <1>0, <2>1, <2>2, <2>3, NoOpRow DEF Contents, Agrees
  <2>kept. LatestKept'
    BY <1>0, <2>1, <2>2, <2>3, NoOpRow DEF LatestKept
  <2> QED
    BY <2>4, <2>5, <2>6, <2>7, <2>8, <2>9, <2>10, <2>kept
<1> QED
  BY <1>1, <1>2

LEMMA BeginKeeps ==
  ASSUME EditorInv, NEW kind \in {"upload", "replace", "publish"}, Begin(kind)
  PROVE  EditorInv'
<1> USE DEF EditorInv
<1> DEFINE o == [NoOp EXCEPT !.kind = kind, !.at = "persist"]
           p == Persist(ed, save, "op")
<1>0. /\ op = NoOp /\ ed.phase = "open" /\ ~ed.finalized
      /\ ed' = p.ed /\ save' = p.save /\ op' = (IF p.done THEN Proceed(o, p.ed) ELSE o)
      /\ UNCHANGED <<srv, get, leave, edits>>
  BY DEF Begin, Idle
<1>1. o \in OpRow /\ o.kind = kind /\ o.at = "persist" /\ o.rev = 0 /\ o.content = 0
  BY NewOp
<1> HIDE DEF o
<1>2. /\ "op" \in Callers /\ "op" \notin Range(save.callers)
  BY <1>0, NoOpRow DEF Callers, TypeOK
<1>s. srv.rev \in Nat /\ ed.rev \in Nat /\ ed.content \in Nat
  BY DEF TypeOK, EditorRow
<1>3. CASE Joins("op") /\ ~p.done
  <2>1. /\ ed' \in EditorRow /\ SameEditor /\ ed'.dirty = ed.dirty /\ ed'.timer = FALSE
        /\ save' \in [at : {"none", "sent", "ok", "refused"}, rev : Nat, content : Nat, callers : Seq(Callers)]
        /\ save'.at = save.at /\ save'.rev = save.rev /\ save'.content = save.content
        /\ save # NoSave /\ save' # NoSave /\ save'.callers # <<>> /\ Len(save'.callers) > 1
        /\ save'.callers[1] = save.callers[1]
        /\ Range(save'.callers) = Range(save.callers) \cup {"op"}
        /\ \A x : Once(save.callers, x) /\ (x = "op" => x \notin Range(save.callers)) => Once(save'.callers, x)
    BY <1>2, <1>3, AfterJoin
  <2>2. op' = o
    BY <1>0, <1>3
  <2>3. TypeOK'
    BY <1>0, <1>1, <2>1, <2>2 DEF TypeOK, OpRow
  <2>4. OpStages'
    BY <1>0, <1>1, <2>1, <2>2, NoOpRow DEF OpStages, SameEditor
  <2>5. SaveRoles'
    <3>1. Once(save'.callers, "op") /\ Once(save'.callers, "leave")
      BY <1>2, <2>1 DEF SaveRoles
    <3>2. save.callers[1] # "op"
      BY <1>2, <2>1, EmptySeq DEF TypeOK, Range
    <3> QED
      BY <2>1, <3>1, <3>2 DEF SaveRoles
  <2>6. EditorFlags'
    BY <1>0, <1>1, <2>1, <2>2 DEF EditorFlags, SameEditor, Discarding, UnsavedChangeIsScheduled
  <2>7. Revisions'
    BY <1>0, <1>1, <1>s, <2>1, <2>2 DEF Revisions, SameEditor, Agrees
  <2>8. Undisturbed' /\ Contents'
    BY <1>0, <1>1, <2>1, <2>2 DEF Undisturbed, PastSaving, Contents, SameEditor, Agrees
  <2>kept. LatestKept'
    BY <1>0, <1>1, <2>1, <2>2 DEF LatestKept, SameEditor
  <2> QED
    BY <2>3, <2>4, <2>5, <2>6, <2>7, <2>8, <2>kept
<1>4. CASE Starts("op") /\ ~p.done
  <2>1. /\ ed' \in EditorRow /\ SameEditor /\ ed'.dirty = FALSE /\ ed'.timer = FALSE
        /\ save' \in [at : {"none", "sent", "ok", "refused"}, rev : Nat, content : Nat, callers : Seq(Callers)]
        /\ save'.at = "sent" /\ save'.rev = ed.rev /\ save'.content = ed.content
        /\ save = NoSave /\ save' # NoSave /\ save'.callers # <<>>
        /\ Range(save'.callers) = {"op"} /\ Range(save.callers) = {} /\ ed.dirty
        /\ Once(save'.callers, "op") /\ Once(save'.callers, "leave")
    BY <1>2, <1>4, AfterStart DEF Starts
  <2>2. op' = o
    BY <1>0, <1>4
  <2>3. TypeOK'
    BY <1>0, <1>1, <2>1, <2>2 DEF TypeOK, OpRow
  <2>4. OpStages'
    BY <1>0, <1>1, <2>1, <2>2, NoOpRow DEF OpStages, SameEditor
  <2>5. SaveRoles'
    BY <2>1 DEF SaveRoles
  <2>6. EditorFlags'
    BY <1>0, <1>1, <2>1, <2>2 DEF EditorFlags, SameEditor, Discarding, UnsavedChangeIsScheduled
  <2>7. Revisions'
    BY <1>0, <1>1, <1>s, <2>1, <2>2 DEF Revisions, SameEditor, Agrees
  <2>8. Undisturbed' /\ Contents'
    BY <1>0, <1>1, <2>1, <2>2 DEF Undisturbed, PastSaving, Contents, SameEditor, Agrees
  <2>kept. LatestKept'
    BY <1>0, <1>1, <2>1, <2>2 DEF LatestKept, SameEditor
  <2> QED
    BY <2>3, <2>4, <2>5, <2>6, <2>7, <2>8, <2>kept
<1>5. CASE Rests /\ p.done
  <2>1. /\ ed' \in EditorRow /\ SameEditor /\ ed'.dirty = ed.dirty /\ ed'.timer = FALSE
        /\ ~ed.dirty /\ save = NoSave /\ save' = save /\ Range(save.callers) = {}
    BY <1>0, <1>5, AfterRest
  <2>2. p.ed.rev = ed.rev /\ p.ed.content = ed.content /\ op' = Proceed(o, p.ed)
    BY <1>0, <1>5, <2>1 DEF SameEditor
  <2>3. /\ op' \in OpRow /\ op'.kind = kind /\ op'.rev = ed.rev
        /\ kind = "publish" => op'.at = "build" /\ op'.content = ed.content
        /\ kind # "publish" => op'.at = "request"
    BY <1>1, <1>s, <2>2, ProceedIs
  <2>4. TypeOK'
    BY <1>0, <2>1, <2>3 DEF TypeOK, OpRow
  <2>5. OpStages'
    BY <1>0, <2>1, <2>3, NoOpRow DEF OpStages, SameEditor
  <2>6. SaveRoles'
    BY <2>1 DEF SaveRoles
  <2>7. EditorFlags'
    BY <1>0, <2>1, <2>3 DEF EditorFlags, SameEditor, Discarding, UnsavedChangeIsScheduled
  <2>8. Revisions'
    BY <1>0, <2>1, <2>3 DEF Revisions, SameEditor, Agrees
  <2>9. Undisturbed' /\ Contents'
    BY <1>0, <2>1, <2>3 DEF Undisturbed, PastSaving, Contents, SameEditor, Agrees
  <2>kept. LatestKept'
    BY <1>0, <2>1, <2>3 DEF LatestKept, SameEditor
  <2> QED
    BY <2>4, <2>5, <2>6, <2>7, <2>8, <2>9, <2>kept
<1> QED
  BY <1>0, <1>3, <1>4, <1>5, PersistIs

LEMMA DiscardKeeps == ASSUME EditorInv, Discard PROVE EditorInv'
<1> USE DEF EditorInv
<1>0. /\ op = NoOp /\ ed.phase = "open" /\ ~ed.finalized
      /\ ed' = Forget(ed) /\ op' = [NoOp EXCEPT !.kind = "discard", !.at = WaitForSave]
      /\ UNCHANGED <<srv, get, save, leave, edits>>
  BY DEF Discard, Idle
<1>1. /\ ed' \in EditorRow /\ ed'.phase = ed.phase /\ ed'.content = ed.content /\ ed'.rev = ed.rev
      /\ ed'.finalized = ed.finalized /\ ed'.dirty = FALSE /\ ed'.timer = FALSE /\ ed'.told = ed.told
      /\ ed'.spoiled = (ed.spoiled \/ ed.dirty \/ save # NoSave) /\ ed'.latest = ed.latest
  BY <1>0 DEF Forget, TypeOK, EditorRow
<1>2. WaitForSave \in {"wait", "request"} /\ (WaitForSave = "wait" <=> save # NoSave)
  BY DEF WaitForSave
<1>3. op' \in OpRow /\ op'.kind = "discard" /\ op'.at = WaitForSave /\ op'.rev = 0
  BY <1>0, <1>2 DEF NoOp, OpRow
<1>4. "op" \notin Range(save.callers)
  BY <1>0, NoOpRow DEF TypeOK
<1>5. TypeOK'
  BY <1>0, <1>1, <1>2, <1>3, <1>4 DEF TypeOK, OpRow
<1>6. OpStages'
  BY <1>0, <1>1, <1>2, <1>3, NoOpRow DEF OpStages
<1>7. SaveRoles'
  BY <1>0, <1>1 DEF SaveRoles
<1>8. EditorFlags'
  BY <1>0, <1>1, <1>2, <1>3 DEF EditorFlags, Discarding, UnsavedChangeIsScheduled
<1>9. Revisions'
  BY <1>0, <1>1, <1>2, <1>3 DEF Revisions, Agrees, TypeOK
<1>10. Undisturbed' /\ Contents'
  BY <1>0, <1>1, <1>2, <1>3 DEF Undisturbed, PastSaving, Contents, Agrees
<1>kept. LatestKept'
  BY <1>0, <1>1, <1>2, <1>3 DEF LatestKept
<1> QED
  BY <1>5, <1>6, <1>7, <1>8, <1>9, <1>10, <1>kept

LEMMA DetailsKeeps == ASSUME EditorInv, DetailsWithoutPDF PROVE EditorInv'
<1> USE DEF EditorInv
<1>0. /\ op = NoOp /\ op' = [NoOp EXCEPT !.kind = "details", !.at = WaitForSave]
      /\ UNCHANGED <<srv, ed, get, save, leave, edits>> /\ ed.phase = "open"
  BY DEF DetailsWithoutPDF, Idle
<1>2. WaitForSave \in {"wait", "request"} /\ (WaitForSave = "wait" <=> save # NoSave)
  BY DEF WaitForSave
<1>3. op' \in OpRow /\ op'.kind = "details" /\ op'.at = WaitForSave /\ op'.rev = 0
  BY <1>0, <1>2 DEF NoOp, OpRow
<1>4. "op" \notin Range(save.callers)
  BY <1>0, NoOpRow DEF TypeOK
<1>5. TypeOK'
  BY <1>0, <1>2, <1>3, <1>4 DEF TypeOK, OpRow
<1>6. OpStages'
  BY <1>0, <1>2, <1>3, NoOpRow DEF OpStages
<1>7. SaveRoles'
  BY <1>0 DEF SaveRoles
<1>8. EditorFlags'
  BY <1>0, <1>2, <1>3 DEF EditorFlags, Discarding, UnsavedChangeIsScheduled
<1>9. Revisions'
  BY <1>0, <1>2, <1>3 DEF Revisions, Agrees, TypeOK
<1>10. Undisturbed' /\ Contents'
  BY <1>0, <1>2, <1>3 DEF Undisturbed, PastSaving, Contents, Agrees
<1>kept. LatestKept'
  BY <1>0, <1>2, <1>3 DEF LatestKept
<1> QED
  BY <1>5, <1>6, <1>7, <1>8, <1>9, <1>10, <1>kept

LEMMA BuiltKeeps == ASSUME EditorInv, Built PROVE EditorInv'
<1> USE DEF EditorInv
<1>0. /\ op.at = "build" /\ op' = [op EXCEPT !.at = "request"]
      /\ UNCHANGED <<srv, ed, get, save, leave, edits>> /\ ed.phase = "open"
  BY DEF Built
<1>1. op.kind = "publish"
  BY <1>0 DEF OpStages
<1>2. op' \in OpRow /\ op'.kind = "publish" /\ op'.at = "request" /\ op'.rev = op.rev /\ op'.content = op.content
  BY <1>0, <1>1, OpAt DEF TypeOK, OpRow
<1>5. TypeOK'
  BY <1>0, <1>2 DEF TypeOK, OpRow
<1>6. OpStages'
  BY <1>0, <1>1, <1>2, NoOpRow DEF OpStages
<1>7. SaveRoles'
  BY <1>0 DEF SaveRoles
<1>8. EditorFlags'
  BY <1>0, <1>1, <1>2, NoOpRow DEF EditorFlags, Discarding, UnsavedChangeIsScheduled
<1>9. Revisions'
  BY <1>0, <1>2 DEF Revisions, Agrees
<1>10. Undisturbed' /\ Contents'
  BY <1>0, <1>1, <1>2 DEF Undisturbed, PastSaving, Contents, Agrees
<1>kept. LatestKept'
  BY <1>0, <1>1, <1>2 DEF LatestKept
<1> QED
  BY <1>5, <1>6, <1>7, <1>8, <1>9, <1>10, <1>kept

----------------------------------------------------------------------------
(***************************************************************************)
(* The API.                                                                *)
(***************************************************************************)

\* A new revision of the draft leaves everything the editor knows behind.
NewRevision(content) == srv.state = "open" /\ srv' = [srv EXCEPT !.rev = @ + 1, !.content = content]

LEMMA EditsAfter ==
  ASSUME TypeOK, LatestKept
  PROVE  edits \in Nat /\ ed.latest \in Nat /\ ed.latest <= edits + 1 /\ edits + 1 >= ed.latest
BY EditorAssumption DEF TypeOK, EditorRow, LatestKept

LEMMA AfterRevision ==
  ASSUME TypeOK, NEW content \in Nat, NewRevision(content)
  PROVE  /\ srv' \in [state : {"open", "finalized", "deleted"}, rev : Nat, content : Nat, pdf : Nat]
         /\ srv'.state = srv.state /\ srv'.rev = srv.rev + 1 /\ srv'.content = content
         /\ srv.state = "open" /\ srv.rev \in Nat
<1>1. srv \in [state : {"open", "finalized", "deleted"}, rev : Nat, content : Nat, pdf : Nat]
  BY DEF TypeOK
<1>2. srv.rev + 1 \in Nat /\ srv.rev \in Nat
  BY <1>1
<1>3. srv' = [srv EXCEPT !.rev = srv.rev + 1, !.content = content] /\ srv.state = "open"
  BY DEF NewRevision
<1>4. srv' = [[srv EXCEPT !.rev = srv.rev + 1] EXCEPT !.content = content]
  BY <1>3
<1> DEFINE s == [srv EXCEPT !.rev = srv.rev + 1]
<1>5. /\ s \in [state : {"open", "finalized", "deleted"}, rev : Nat, content : Nat, pdf : Nat]
      /\ s.state = srv.state /\ s.rev = srv.rev + 1
  BY <1>1, <1>2
<1> HIDE DEF s
<1>6. srv' = [s EXCEPT !.content = content]
  BY <1>4 DEF s
<1> QED
  BY <1>2, <1>3, <1>5, <1>6

LEMMA HandleSaveKeeps == ASSUME EditorInv, HandleSave PROVE EditorInv'
<1> USE DEF EditorInv
<1> DEFINE at == IF Matches(save.rev) THEN "ok" ELSE "refused"
<1>0. /\ save.at = "sent" /\ save' = [save EXCEPT !.at = at] /\ UNCHANGED <<ed, get, op, leave, edits>>
      /\ srv' = (IF Matches(save.rev) THEN [srv EXCEPT !.rev = @ + 1, !.content = save.content] ELSE srv)
  BY DEF HandleSave
<1>1. /\ save' \in [at : {"none", "sent", "ok", "refused"}, rev : Nat, content : Nat, callers : Seq(Callers)]
      /\ save'.at = at /\ save'.rev = save.rev /\ save'.content = save.content
      /\ save'.callers = save.callers
  BY <1>0 DEF TypeOK
<1>2. save # NoSave /\ save' # NoSave
  BY <1>0, <1>1 DEF NoSave
<1>3. SaveRoles'
  BY <1>0, <1>1, <1>2 DEF SaveRoles
<1>4. CASE Matches(save.rev)
  <2>1. /\ srv' \in [state : {"open", "finalized", "deleted"}, rev : Nat, content : Nat, pdf : Nat]
        /\ srv'.state = srv.state /\ srv'.rev = srv.rev + 1 /\ srv'.content = save.content
        /\ srv.state = "open" /\ srv.rev \in Nat /\ srv.rev = save.rev
    BY <1>0, <1>4, AfterRevision DEF Matches, NewRevision, TypeOK
  <2>t. ed.rev \in Nat /\ op.rev \in Nat /\ get.rev \in Nat
    BY DEF TypeOK, EditorRow
  <2>2. TypeOK'
    BY <1>0, <1>1, <1>2, <2>1 DEF TypeOK
  <2>3. OpStages'
    BY <1>0, <2>1 DEF OpStages
  <2>4. EditorFlags'
    BY <1>0, <1>1, <1>2 DEF EditorFlags, Discarding, UnsavedChangeIsScheduled
  <2>5. Revisions'
    BY SMTT(20), <1>0, <1>1, <2>1, <2>t DEF Revisions, Agrees
  <2>6. Undisturbed' /\ Contents'
    BY <1>0, <1>1, <1>2, <2>1, <2>t DEF Undisturbed, PastSaving, Contents, Agrees, Revisions
  <2>kept. LatestKept'
    BY <1>0, <1>1, <1>2, <2>1, <2>t DEF LatestKept
  <2> QED
    BY <1>3, <2>2, <2>3, <2>4, <2>5, <2>6, <2>kept
<1>5. CASE ~Matches(save.rev)
  <2>1. srv' = srv /\ save'.at = "refused"
    BY <1>0, <1>1, <1>5
  <2>2. TypeOK'
    BY <1>0, <1>1, <1>2, <2>1 DEF TypeOK
  <2>3. OpStages'
    BY <1>0, <2>1 DEF OpStages
  <2>4. EditorFlags'
    BY <1>0, <1>1, <1>2 DEF EditorFlags, Discarding, UnsavedChangeIsScheduled
  <2>5. Revisions'
    BY <1>0, <1>1, <2>1 DEF Revisions, Agrees
  <2>6. Undisturbed' /\ Contents'
    BY <1>0, <1>1, <1>2, <2>1 DEF Undisturbed, PastSaving, Contents, Agrees
  <2>kept. LatestKept'
    BY <1>0, <1>1, <1>2, <2>1 DEF LatestKept
  <2> QED
    BY <1>3, <2>2, <2>3, <2>4, <2>5, <2>6, <2>kept
<1> QED
  BY <1>4, <1>5

LEMMA HandleGetKeeps == ASSUME EditorInv, HandleGet PROVE EditorInv'
<1> USE DEF EditorInv
<1>0. /\ srv.state # "deleted" /\ UNCHANGED <<srv, ed, save, op, leave, edits>>
      /\ get' = [get EXCEPT !.at = "ok", !.state = srv.state, !.rev = srv.rev, !.content = srv.content]
  BY DEF HandleGet
<1>g. /\ get' \in GetRow
      /\ get'.at = "ok" /\ get'.rev = srv.rev /\ get'.content = srv.content /\ srv.rev \in Nat
  BY <1>0 DEF TypeOK, GetRow
<1>1. TypeOK' /\ OpStages' /\ SaveRoles'
  BY <1>0, <1>g DEF TypeOK, GetRow, OpStages, SaveRoles
<1>2. EditorFlags'
  BY <1>0 DEF EditorFlags, Discarding, UnsavedChangeIsScheduled
<1>3. Revisions'
  BY <1>0, <1>g DEF Revisions, Agrees
<1>4. Undisturbed' /\ Contents'
  BY <1>0 DEF Agrees, Undisturbed, PastSaving, Contents
<1>kept. LatestKept'
  BY <1>0 DEF LatestKept
<1> QED
  BY <1>1, <1>2, <1>3, <1>4, <1>kept

LEMMA OtherTabKeeps == ASSUME EditorInv, OtherTab PROVE EditorInv'
<1> USE DEF EditorInv
<1>0. UNCHANGED <<ed, get, save, op, leave>> /\ srv.state = "open"
  BY DEF OtherTab
<1>t. ed.rev \in Nat /\ op.rev \in Nat /\ get.rev \in Nat /\ save.rev \in Nat /\ srv.rev \in Nat
  BY DEF TypeOK, EditorRow
<1>1. SaveRoles'
  BY <1>0 DEF SaveRoles
<1>2. EditorFlags'
  BY <1>0 DEF EditorFlags, Discarding, UnsavedChangeIsScheduled
<1>3. ASSUME edits < MaxEdits, edits' = edits + 1, srv' = [srv EXCEPT !.rev = @ + 1, !.content = edits']
      PROVE  EditorInv'
  <2>1. edits' \in Nat /\ edits' \in 0 .. MaxEdits
    BY <1>3, EditorAssumption DEF TypeOK
  <2>2. /\ srv' \in [state : {"open", "finalized", "deleted"}, rev : Nat, content : Nat, pdf : Nat]
        /\ srv'.state = srv.state /\ srv'.rev = srv.rev + 1 /\ srv'.content = edits'
    BY <1>0, <1>3, <2>1, AfterRevision DEF NewRevision
  <2>3. TypeOK' /\ OpStages'
    BY <1>0, <2>1, <2>2 DEF TypeOK, OpStages
  <2>5. Revisions'
    BY <1>0, <1>t, <2>2 DEF Revisions, Agrees
  <2>6. Undisturbed' /\ Contents'
    BY <1>0, <1>t, <2>2 DEF Undisturbed, PastSaving, Contents, Agrees, Revisions
  <2>kept. LatestKept'
    BY <1>0, <1>3, <2>2, EditsAfter DEF LatestKept
  <2> QED
    BY <1>1, <1>2, <2>3, <2>5, <2>6, <2>kept
<1>4. ASSUME edits' = edits, srv' = [srv EXCEPT !.state = "deleted"] PROVE EditorInv'
  <2>2. /\ srv' \in [state : {"open", "finalized", "deleted"}, rev : Nat, content : Nat, pdf : Nat]
        /\ srv'.state = "deleted" /\ srv'.rev = srv.rev /\ srv'.content = srv.content
    BY <1>4 DEF TypeOK
  <2>3. TypeOK' /\ OpStages'
    BY <1>0, <1>4, <2>2 DEF TypeOK, OpStages
  <2>5. Revisions'
    BY <1>0, <2>2 DEF Revisions, Agrees
  <2>6. Undisturbed' /\ Contents'
    BY <1>0, <2>2 DEF Undisturbed, PastSaving, Contents, Agrees
  <2>kept. LatestKept'
    BY <1>0, <1>4, <2>2 DEF LatestKept
  <2> QED
    BY <1>1, <1>2, <2>3, <2>5, <2>6, <2>kept
<1> QED
  BY <1>3, <1>4 DEF OtherTab

LEMMA HandleUploadKeeps == ASSUME EditorInv, HandleUpload PROVE EditorInv'
<1> USE DEF EditorInv
<1>0. /\ op.at = "request" /\ op.kind \in {"upload", "replace"} /\ UNCHANGED <<ed, get, save, leave>>
  BY DEF HandleUpload
<1>t. ed.rev \in Nat /\ op.rev \in Nat /\ get.rev \in Nat /\ save.rev \in Nat /\ srv.rev \in Nat
  BY DEF TypeOK, EditorRow
<1>1. SaveRoles'
  BY <1>0 DEF SaveRoles
<1>3. ASSUME Matches(op.rev), edits < MaxEdits, edits' = edits + 1,
             srv' = [srv EXCEPT !.rev = @ + 1, !.content = edits'],
             op' = [op EXCEPT !.at = "ok", !.rev = srv'.rev, !.content = edits']
      PROVE  EditorInv'
  <2>1. edits' \in Nat /\ edits' \in 0 .. MaxEdits
    BY <1>3, EditorAssumption DEF TypeOK
  <2>2. /\ srv' \in [state : {"open", "finalized", "deleted"}, rev : Nat, content : Nat, pdf : Nat]
        /\ srv'.state = srv.state /\ srv'.rev = srv.rev + 1 /\ srv'.content = edits' /\ srv.state = "open"
        /\ srv'.rev \in Nat
    BY <1>3, <1>t, <2>1, AfterRevision DEF NewRevision, Matches
  <2>3. op' \in OpRow /\ op'.kind = op.kind /\ op'.at = "ok" /\ op'.rev = srv'.rev /\ op'.content = srv'.content
    BY <1>3, <2>1, <2>2 DEF TypeOK, OpRow
  <2>4. TypeOK'
    BY <1>0, <2>1, <2>2, <2>3 DEF TypeOK, OpRow
  <2>5. OpStages'
    BY <1>0, <2>2, <2>3, NoOpRow DEF OpStages
  <2>6. EditorFlags'
    BY <1>0, <2>3, NoOpRow DEF EditorFlags, Discarding, UnsavedChangeIsScheduled
  <2>7. Revisions'
    BY <1>0, <1>t, <2>2, <2>3 DEF Revisions, Agrees
  <2>8. Undisturbed' /\ Contents'
    BY <1>0, <1>t, <2>2, <2>3 DEF Undisturbed, PastSaving, Contents, Agrees, Revisions
  <2>kept. LatestKept'
    BY <1>0, <1>3, <2>2, EditsAfter DEF LatestKept
  <2> QED
    BY <1>1, <2>4, <2>5, <2>6, <2>7, <2>8, <2>kept
<1>4. ASSUME op' = [op EXCEPT !.at = "refused"], UNCHANGED <<srv, edits>> PROVE EditorInv'
  <2>3. op' \in OpRow /\ op'.kind = op.kind /\ op'.at = "refused" /\ op'.rev = op.rev /\ op'.content = op.content
    BY <1>4 DEF TypeOK, OpRow
  <2>4. TypeOK'
    BY <1>0, <1>4, <2>3 DEF TypeOK, OpRow
  <2>5. OpStages'
    BY <1>0, <1>4, <2>3, NoOpRow DEF OpStages
  <2>6. EditorFlags'
    BY <1>0, <1>4, <2>3, NoOpRow DEF EditorFlags, Discarding, UnsavedChangeIsScheduled
  <2>7. Revisions'
    BY <1>0, <1>4, <2>3 DEF Revisions, Agrees
  <2>8. Undisturbed' /\ Contents'
    BY <1>0, <1>4, <2>3 DEF Undisturbed, PastSaving, Contents, Agrees
  <2>kept. LatestKept'
    BY <1>0, <1>4, <2>3 DEF LatestKept
  <2> QED
    BY <1>1, <2>4, <2>5, <2>6, <2>7, <2>8, <2>kept
<1> QED
  BY <1>3, <1>4 DEF HandleUpload

LEMMA HandlePublishKeeps == ASSUME EditorInv, HandlePublish PROVE EditorInv'
<1> USE DEF EditorInv
<1> DEFINE ok == Matches(op.rev) \/ (srv.state = "finalized" /\ srv.rev = op.rev)
<1>0. /\ op.at = "request" /\ op.kind = "publish" /\ UNCHANGED <<ed, get, save, leave, edits>>
      /\ op' = [op EXCEPT !.at = IF ok THEN "ok" ELSE "refused"]
      /\ srv' = (IF Matches(op.rev) THEN [srv EXCEPT !.state = "finalized", !.pdf = op.content] ELSE srv)
  BY DEF HandlePublish
<1>1. /\ op' \in OpRow /\ op'.kind = "publish" /\ op'.at \in {"ok", "refused"} /\ (op'.at = "ok" => ok)
      /\ op'.rev = op.rev /\ op.content \in Nat
  BY <1>0 DEF TypeOK, OpRow
<1>2. /\ srv' \in [state : {"open", "finalized", "deleted"}, rev : Nat, content : Nat, pdf : Nat]
      /\ srv'.rev = srv.rev /\ srv'.content = srv.content
      /\ srv' = srv \/ (Matches(op.rev) /\ srv'.state = "finalized" /\ srv'.pdf = op.content)
      /\ ok => srv'.state # "open"
  BY <1>0, <1>1 DEF TypeOK, Matches
<1> HIDE DEF ok
<1>3. TypeOK'
  BY <1>0, <1>1, <1>2 DEF TypeOK, OpRow
<1>4. OpStages'
  BY <1>0, <1>1, <1>2, NoOpRow DEF OpStages
<1>5. SaveRoles'
  BY <1>0 DEF SaveRoles
<1>6. EditorFlags'
  BY <1>0, <1>1, NoOpRow DEF EditorFlags, Discarding, UnsavedChangeIsScheduled
<1>7. Revisions'
  BY <1>0, <1>1, <1>2 DEF Revisions, Agrees
<1>8. Undisturbed'
  BY <1>0, <1>1 DEF Undisturbed, PastSaving
<1>9. Contents'
  <2>1. CASE srv' = srv
    BY <1>0, <1>1, <2>1 DEF Contents, Agrees
  <2>2. CASE Matches(op.rev) /\ srv'.state = "finalized" /\ srv'.pdf = op.content
    BY <1>0, <1>1, <1>2, <2>2 DEF Contents, Agrees, Matches
  <2> QED
    BY <1>2, <2>1, <2>2
<1>kept. LatestKept'
  BY <1>0, <1>2 DEF LatestKept, Matches
<1> QED
  BY <1>3, <1>4, <1>5, <1>6, <1>7, <1>8, <1>9, <1>kept

LEMMA HandleDeleteKeeps == ASSUME EditorInv, HandleDelete PROVE EditorInv'
<1> USE DEF EditorInv
<1>0. /\ op.at = "request" /\ op.kind \in {"discard", "details"} /\ UNCHANGED <<ed, get, save, leave, edits>>
      /\ op' = [op EXCEPT !.at = IF srv.state = "open" THEN "ok" ELSE "refused"]
      /\ srv' = (IF srv.state = "open" THEN [srv EXCEPT !.state = "deleted"] ELSE srv)
  BY DEF HandleDelete
<1>1. /\ op' \in OpRow /\ op'.kind = op.kind /\ op'.at \in {"ok", "refused"} /\ op'.rev = op.rev
  BY <1>0 DEF TypeOK, OpRow
<1>2. /\ srv' \in [state : {"open", "finalized", "deleted"}, rev : Nat, content : Nat, pdf : Nat]
      /\ srv'.rev = srv.rev /\ srv'.content = srv.content /\ srv'.pdf = srv.pdf
      /\ srv'.state # "open" /\ (srv'.state = "finalized" => srv.state = "finalized")
  BY <1>0, <1>1 DEF TypeOK
<1>3. TypeOK'
  BY <1>0, <1>1, <1>2 DEF TypeOK, OpRow
<1>4. OpStages'
  BY <1>0, <1>1, <1>2, NoOpRow DEF OpStages
<1>5. SaveRoles'
  BY <1>0 DEF SaveRoles
<1>6. EditorFlags'
  BY <1>0, <1>1, NoOpRow DEF EditorFlags, Discarding, UnsavedChangeIsScheduled
<1>7. Revisions'
  BY <1>0, <1>1, <1>2 DEF Revisions, Agrees
<1>8. Undisturbed' /\ Contents'
  BY <1>0, <1>1, <1>2 DEF Undisturbed, PastSaving, Contents, Agrees
<1>kept. LatestKept'
  BY <1>0, <1>1, <1>2 DEF LatestKept
<1> QED
  BY <1>3, <1>4, <1>5, <1>6, <1>7, <1>8, <1>kept

----------------------------------------------------------------------------
(***************************************************************************)
(* The answer of a save.                                                   *)
(***************************************************************************)

\* What becomes of the operation when those in R return to the editor e.
LEMMA SavedOp ==
  ASSUME EditorInv, NEW R, NEW e, e.rev \in Nat, e.content \in Nat,
         "op" \in R => op.at = "persist",
         op' = (IF "op" \in R THEN Proceed(op, e)
                ELSE IF op.at = "wait" THEN [op EXCEPT !.at = "request"]
                ELSE IF "leave" \in R THEN Decided(op)
                ELSE op)
  PROVE  /\ op' \in OpRow
         /\ \/ op' = NoOp /\ ("op" \in R \/ op.at # "persist")
            \/ /\ "op" \in R /\ op'.kind = op.kind /\ op'.kind \in {"upload", "replace"}
               /\ op'.at = "request" /\ op'.rev = e.rev
            \/ /\ "op" \in R /\ op.kind = "publish" /\ op'.kind = "publish" /\ op'.at = "build"
               /\ op'.rev = e.rev /\ op'.content = e.content
            \/ /\ "op" \notin R /\ op.at = "wait" /\ op.kind \in {"discard", "details"}
               /\ op'.kind = op.kind /\ op'.at = "request" /\ op'.rev = op.rev
            \/ "op" \notin R /\ op.at # "wait" /\ op' = op
<1>0. op \in OpRow /\ TypeOK /\ OpStages
  BY DEF EditorInv, TypeOK, OpRow
<1>1. CASE "op" \in R
  <2>1. op.kind \in {"upload", "replace", "replaced", "publish"} /\ op' = Proceed(op, e)
    BY <1>0, <1>1 DEF OpStages
  <2> QED
    BY <1>0, <1>1, <2>1, ProceedIs, NoOpRow
<1>2. CASE "op" \notin R /\ op.at = "wait"
  <2>1. op' = [op EXCEPT !.at = "request"] /\ op.kind \in {"discard", "details"}
    BY <1>0, <1>2 DEF OpStages
  <2> QED
    BY <1>0, <1>2, <2>1 DEF OpRow
<1>3. CASE "op" \notin R /\ op.at # "wait"
  BY <1>0, <1>3, DecidedIs
<1> QED
  BY <1>1, <1>2, <1>3

\* The editor after it, before anyone leaves.
LEMMA SavedRow ==
  ASSUME TypeOK
  PROVE  LET e == [ed EXCEPT !.rev = save.rev + 1]
         IN  /\ e \in EditorRow /\ e.phase = ed.phase /\ e.content = ed.content /\ e.rev = save.rev + 1
             /\ e.sources = ed.sources /\ e.dirty = ed.dirty /\ e.timer = ed.timer
             /\ e.finalized = ed.finalized /\ e.told = ed.told /\ e.spoiled = ed.spoiled /\ e.latest = ed.latest
<1>1. save.rev + 1 \in Nat /\ ed \in EditorRow
  BY DEF TypeOK
<1> QED
  BY <1>1 DEF EditorRow

LEMMA IdleRow ==
  ASSUME NEW e \in EditorRow
  PROVE  LET i == [e EXCEPT !.timer = FALSE]
         IN  /\ i \in EditorRow /\ i.phase = e.phase /\ i.content = e.content /\ i.rev = e.rev
             /\ i.sources = e.sources /\ i.dirty = e.dirty /\ i.timer = FALSE
             /\ i.finalized = e.finalized /\ i.told = e.told /\ i.spoiled = e.spoiled /\ i.latest = e.latest
BY DEF EditorRow

LEMMA CleanRow ==
  ASSUME NEW e \in EditorRow
  PROVE  LET i == [e EXCEPT !.dirty = FALSE]
         IN  /\ i \in EditorRow /\ i.phase = e.phase /\ i.content = e.content /\ i.rev = e.rev
             /\ i.sources = e.sources /\ i.dirty = FALSE /\ i.timer = e.timer
             /\ i.finalized = e.finalized /\ i.told = e.told /\ i.spoiled = e.spoiled /\ i.latest = e.latest
BY DEF EditorRow

\* The joiners of the save, if one of them finds new changes.
GoesOn == ed.dirty /\ Tail(save.callers) # <<>> /\ ~ed.finalized

\* What the joiners return.
JoinersResult(p) ==
  /\ p.ed \in EditorRow /\ p.ed.phase = ed.phase /\ p.ed.content = ed.content /\ p.ed.rev = save.rev + 1
  /\ p.ed.finalized = ed.finalized /\ p.ed.told = ed.told /\ p.ed.spoiled = ed.spoiled /\ p.ed.latest = ed.latest
  /\ p.ed.timer => ed.timer
  /\ GoesOn =>
       /\ p.ed.dirty = FALSE
       /\ p.save = [at |-> "sent", rev |-> save.rev + 1, content |-> ed.content,
                    callers |-> <<Head(Tail(save.callers))>>]
  /\ ~GoesOn =>
       /\ p.save = NoSave /\ p.ed.dirty = ed.dirty
       /\ ed.dirty /\ ~ed.finalized => p.ed.timer = ed.timer

LEMMA JoinersIs ==
  ASSUME TypeOK
  PROVE  JoinersResult(JoinersGoOn([ed EXCEPT !.rev = save.rev + 1], Tail(save.callers)))
<1> DEFINE e == [ed EXCEPT !.rev = save.rev + 1]
           joiners == Tail(save.callers)
           p == JoinersGoOn(e, joiners)
           i == [e EXCEPT !.timer = FALSE]
           n == [i EXCEPT !.dirty = FALSE]
<1> SUFFICES JoinersResult(p)
  OBVIOUS
<1>1. /\ e \in EditorRow /\ e.phase = ed.phase /\ e.content = ed.content /\ e.rev = save.rev + 1
      /\ e.dirty = ed.dirty /\ e.timer = ed.timer
      /\ e.finalized = ed.finalized /\ e.told = ed.told /\ e.spoiled = ed.spoiled /\ e.latest = ed.latest
  BY SavedRow
<1> HIDE DEF e
<1>2. /\ i \in EditorRow /\ i.phase = ed.phase /\ i.content = ed.content /\ i.rev = save.rev + 1
      /\ i.dirty = ed.dirty /\ i.timer = FALSE
      /\ i.finalized = ed.finalized /\ i.told = ed.told /\ i.spoiled = ed.spoiled /\ i.latest = ed.latest
  BY <1>1, IdleRow
<1> HIDE DEF i
<1>3. /\ n \in EditorRow /\ n.phase = ed.phase /\ n.content = ed.content /\ n.rev = save.rev + 1
      /\ n.dirty = FALSE /\ n.timer = FALSE
      /\ n.finalized = ed.finalized /\ n.told = ed.told /\ n.spoiled = ed.spoiled /\ n.latest = ed.latest
  BY <1>2, CleanRow
<1> HIDE DEF n
<1>b. ed.dirty \in BOOLEAN /\ ed.finalized \in BOOLEAN
  BY DEF TypeOK, EditorRow
<1>4. CASE GoesOn
  <2>1. e.dirty /\ ~e.finalized /\ joiners # <<>>
    BY <1>1, <1>4 DEF GoesOn
  <2>2. p = Persist(e, NoSave, Head(joiners))
    BY <2>1 DEF JoinersGoOn
  <2>3. /\ p.ed = n
        /\ p.save = [at |-> "sent", rev |-> e.rev, content |-> e.content, callers |-> <<Head(joiners)>>]
    BY <2>1, <2>2 DEF Persist, n, i
  <2> HIDE DEF p
  <2> QED
    BY <1>1, <1>3, <1>4, <2>3 DEF JoinersResult
<1>5. CASE ~GoesOn /\ ed.dirty /\ joiners # <<>>
  <2>1. e.dirty /\ e.finalized /\ ed.finalized
    BY <1>1, <1>5 DEF GoesOn
  <2>2. p = Persist(e, NoSave, Head(joiners))
    BY <1>5, <2>1 DEF JoinersGoOn
  <2>3. p = [ed |-> i, save |-> NoSave, done |-> TRUE]
    BY <2>1, <2>2 DEF Persist, i
  <2> HIDE DEF p
  <2> QED
    BY <1>2, <1>5, <2>1, <2>3 DEF JoinersResult
<1>6. CASE ~GoesOn /\ ~(ed.dirty /\ joiners # <<>>)
  <2>1. ~(e.dirty /\ joiners # <<>>)
    BY <1>1, <1>6
  <2>2. p.ed = e /\ p.save = NoSave
    BY <2>1 DEF JoinersGoOn
  <2> HIDE DEF p
  <2> QED
    BY <1>1, <1>6, <2>2 DEF JoinersResult
<1> QED
  BY <1>4, <1>5, <1>6

\* Who returns when a save has been answered.
Returned == {save.callers[i] : i \in DOMAIN save.callers \ (IF GoesOn THEN {2} ELSE {})}

\* The state after the answer: ed', save', leave' and op'.
AfterSaved ==
  /\ ed' \in EditorRow /\ ed'.phase \in {ed.phase, "gone"} /\ ed'.content = ed.content
  /\ ed'.rev = save.rev + 1 /\ ed'.finalized = ed.finalized /\ ed'.told = ed.told
  /\ ed'.timer => ed.timer
  /\ ed'.spoiled = (ed.spoiled \/ (GoesOn /\ "op" \in Returned)) /\ ed'.latest = ed.latest
  /\ GoesOn =>
       /\ ed'.dirty = FALSE
       /\ save' = [at |-> "sent", rev |-> save.rev + 1, content |-> ed.content,
                   callers |-> <<Head(Tail(save.callers))>>]
  /\ ~GoesOn =>
       /\ save' = NoSave /\ ed'.dirty = ed.dirty
       /\ ed'.phase # "gone" /\ ed.dirty /\ ~ed.finalized => ed'.timer = ed.timer
  /\ leave' = (IF "leave" \in Returned THEN "no"
               ELSE IF "close" \in Returned /\ leave = "no" /\ ed.phase # "gone" THEN "navigating"
               ELSE leave)
  /\ \E e : /\ e.rev = save.rev + 1 /\ e.content = ed.content
            /\ op' = (IF "op" \in Returned THEN Proceed(op, e)
                      ELSE IF op.at = "wait" THEN [op EXCEPT !.at = "request"]
                      ELSE IF "leave" \in Returned THEN Decided(op)
                      ELSE op)

LEMMA SavedIs == ASSUME TypeOK, EditorFlags, Saved PROVE AfterSaved
<1> DEFINE p == JoinersGoOn([ed EXCEPT !.rev = save.rev + 1], Tail(save.callers))
           goesOn == IF p.save = NoSave THEN {} ELSE {2}
           returned == {save.callers[i] : i \in DOMAIN save.callers \ goesOn}
           b == "op" \in returned /\ p.save # NoSave
           e == [p.ed EXCEPT !.dirty = DirtyAfterWait(@), !.spoiled = @ \/ b]
<1>1. /\ save' = p.save
      /\ ed' = (IF "leave" \in returned THEN Gone(e) ELSE e)
      /\ leave' = (IF "leave" \in returned THEN "no"
                   ELSE IF "close" \in returned /\ leave = "no" /\ ed.phase # "gone" THEN "navigating"
                   ELSE leave)
      /\ op' = (IF "op" \in returned THEN Proceed(op, p.ed)
                ELSE IF op.at = "wait" THEN [op EXCEPT !.at = "request"]
                ELSE IF "leave" \in returned THEN Decided(op)
                ELSE op)
  BY DEF Saved
<1>2. JoinersResult(p)
  BY JoinersIs
<1> HIDE DEF p
<1>3. p.save = NoSave <=> ~GoesOn
  BY <1>2 DEF JoinersResult, NoSave
<1>4. returned = Returned
  BY <1>3 DEF Returned
<1>5. b \in BOOLEAN /\ b = (GoesOn /\ "op" \in Returned)
  BY <1>3, <1>4 DEF GoesOn
<1> HIDE DEF returned, b
<1>d. DirtyAfterWait(p.ed.dirty) = p.ed.dirty /\ p.ed.dirty \in BOOLEAN
  <2>1. p.ed.dirty \in BOOLEAN /\ (Discarding => p.ed.dirty = FALSE)
    BY <1>2 DEF JoinersResult, EditorFlags, EditorRow, TypeOK
  <2> QED
    BY <2>1 DEF DirtyAfterWait
<1>6. /\ e \in EditorRow /\ e.phase = ed.phase /\ e.content = ed.content /\ e.rev = save.rev + 1
      /\ e.finalized = ed.finalized /\ e.told = ed.told /\ e.spoiled = (p.ed.spoiled \/ b)
      /\ e.latest = ed.latest
      /\ e.dirty = p.ed.dirty /\ e.timer = p.ed.timer
  <2>1. p.ed \in EditorRow
    BY <1>2 DEF JoinersResult
  <2>2. /\ p.ed.phase = ed.phase /\ p.ed.content = ed.content /\ p.ed.rev = save.rev + 1
        /\ p.ed.finalized = ed.finalized /\ p.ed.told = ed.told /\ p.ed.latest = ed.latest
    BY <1>2 DEF JoinersResult
  <2>3. e = [p.ed EXCEPT !.dirty = p.ed.dirty, !.spoiled = @ \/ b]
    BY <1>d
  <2> HIDE DEF e
  <2> QED
    <3> DEFINE d == p.ed.dirty
               r == p.ed
    <3>1. r \in EditorRow /\ d \in BOOLEAN /\ b \in BOOLEAN /\ e = [r EXCEPT !.dirty = d, !.spoiled = @ \/ b]
      BY <1>5, <1>d, <2>1, <2>3
    <3> HIDE DEF d, r
    <3>2. /\ e \in EditorRow /\ e.phase = r.phase /\ e.content = r.content /\ e.rev = r.rev
          /\ e.dirty = d /\ e.timer = r.timer /\ e.finalized = r.finalized /\ e.told = r.told
          /\ e.spoiled = (r.spoiled \/ b) /\ e.latest = r.latest
      BY <3>1 DEF EditorRow
    <3> QED
      BY <2>2, <3>2 DEF d, r
<1> HIDE DEF e
<1>7. /\ ed' \in EditorRow /\ ed'.phase \in {ed.phase, "gone"} /\ ed'.content = ed.content
      /\ ed'.rev = save.rev + 1 /\ ed'.finalized = ed.finalized /\ ed'.told = ed.told
      /\ ed'.spoiled = e.spoiled /\ ed'.latest = e.latest /\ ed'.dirty = p.ed.dirty
      /\ ed'.timer => p.ed.timer
      /\ ed'.phase # "gone" => ed'.timer = p.ed.timer
  BY <1>1, <1>6, GoneRow
<1>8. ed'.spoiled = (ed.spoiled \/ (GoesOn /\ "op" \in Returned)) /\ ed'.latest = ed.latest
  BY <1>2, <1>5, <1>6, <1>7 DEF JoinersResult
<1>9. \E r : /\ r.rev = save.rev + 1 /\ r.content = ed.content
             /\ op' = (IF "op" \in Returned THEN Proceed(op, r)
                       ELSE IF op.at = "wait" THEN [op EXCEPT !.at = "request"]
                       ELSE IF "leave" \in Returned THEN Decided(op)
                       ELSE op)
  BY <1>1, <1>2, <1>4 DEF JoinersResult
<1>10. leave' = (IF "leave" \in Returned THEN "no"
                 ELSE IF "close" \in Returned /\ leave = "no" /\ ed.phase # "gone" THEN "navigating"
                 ELSE leave)
  BY <1>1, <1>4
<1>11. ed'.timer => ed.timer
  BY <1>2, <1>7 DEF JoinersResult
<1>12. GoesOn => /\ ed'.dirty = FALSE
                 /\ save' = [at |-> "sent", rev |-> save.rev + 1, content |-> ed.content,
                             callers |-> <<Head(Tail(save.callers))>>]
  BY <1>1, <1>2, <1>7 DEF JoinersResult
<1>13. ~GoesOn => /\ save' = NoSave /\ ed'.dirty = ed.dirty
                  /\ ed'.phase # "gone" /\ ed.dirty /\ ~ed.finalized => ed'.timer = ed.timer
  BY <1>1, <1>2, <1>7 DEF JoinersResult
<1> QED
  BY <1>7, <1>8, <1>9, <1>10, <1>11, <1>12, <1>13 DEF AfterSaved

LEMMA SavedKeeps == ASSUME EditorInv, Saved PROVE EditorInv'
<1> USE DEF EditorInv
<1>1. AfterSaved
  BY SavedIs
<1>2. save.at = "ok" /\ UNCHANGED <<srv, get, edits>>
  BY DEF Saved
<1>3. /\ save # NoSave /\ save.callers # <<>> /\ save.callers \in Seq(Callers) /\ save.rev \in Nat
      /\ save.content \in Nat /\ ed.content \in Nat /\ srv.rev \in Nat /\ ed \in EditorRow
      /\ Agrees(save.rev + 1, save.content) /\ op \in OpRow
      /\ "op" \in Range(save.callers) => op.at = "persist"
  BY <1>2 DEF TypeOK, NoSave, Revisions, EditorRow, OpRow
<1>4. Returned \subseteq Range(save.callers)
  BY DEF Returned, Range
<1>5. /\ op' \in OpRow
      /\ \/ op' = NoOp /\ ("op" \in Returned \/ op.at # "persist")
         \/ /\ "op" \in Returned /\ op'.kind = op.kind /\ op'.kind \in {"upload", "replace"}
            /\ op'.at = "request" /\ op'.rev = save.rev + 1
         \/ /\ "op" \in Returned /\ op.kind = "publish" /\ op'.kind = "publish" /\ op'.at = "build"
            /\ op'.rev = save.rev + 1 /\ op'.content = ed.content
         \/ /\ "op" \notin Returned /\ op.at = "wait" /\ op.kind \in {"discard", "details"}
            /\ op'.kind = op.kind /\ op'.at = "request" /\ op'.rev = op.rev
         \/ "op" \notin Returned /\ op.at # "wait" /\ op' = op
  <2>1. PICK e : /\ e.rev = save.rev + 1 /\ e.content = ed.content
                 /\ op' = (IF "op" \in Returned THEN Proceed(op, e)
                           ELSE IF op.at = "wait" THEN [op EXCEPT !.at = "request"]
                           ELSE IF "leave" \in Returned THEN Decided(op)
                           ELSE op)
    BY <1>1 DEF AfterSaved
  <2>2. "op" \in Returned => op.at = "persist"
    BY <1>3, <1>4
  <2>3. e.rev \in Nat /\ e.content \in Nat
    BY <1>3, <2>1
  <2> QED
    BY <2>1, <2>2, <2>3, SavedOp
<1>6. "op" \in Range(save.callers) => ~ed.finalized
  BY <1>3 DEF OpStages
<1>7. OpStages'
  <2>1. op'.at = "ok" => op' = op
    BY <1>5, NoOpRow
  <2>2. /\ op'.kind = "none" <=> op' = NoOp
        /\ op'.at = "none" <=> op' = NoOp
        /\ op'.at = "persist" => op'.kind \in {"upload", "replace", "replaced", "publish"}
        /\ op'.at = "wait" => op'.kind \in {"discard", "details"}
        /\ op'.at = "build" => op'.kind = "publish"
        /\ op'.kind = "replaced" => op'.at = "persist"
    BY <1>5, NoOpRow DEF OpStages
  <2>3. op'.kind \in {"upload", "replace", "replaced", "publish", "discard"} /\ op'.at # "done"
        => ~ed'.finalized
    <3>1. ed'.finalized = ed.finalized
      BY <1>1 DEF AfterSaved
    <3> QED
      BY <1>4, <1>5, <1>6, <3>1, NoOpRow DEF OpStages
  <2> QED
    BY <1>2, <2>1, <2>2, <2>3 DEF OpStages
<1>8. CASE GoesOn
  <2> DEFINE c == Head(Tail(save.callers))
  <2>1. Len(save.callers) \in Nat /\ Len(save.callers) >= 2 /\ DOMAIN save.callers = 1 .. Len(save.callers)
    BY <1>3, <1>8, EmptySeq, HeadTailProperties DEF GoesOn
  <2>2. c = save.callers[2]
    BY <1>3, <2>1, HeadTailProperties
  <2> HIDE DEF c
  <2>3. /\ Range(save.callers) = Returned \cup {c} /\ c \in Callers
        /\ save.callers[1] \in Returned
    BY <1>3, <1>8, <2>1, <2>2 DEF Range, Returned
  <2>4. \A x : Once(save.callers, x) /\ x = c => x \notin Returned
    BY <1>8, <2>1, <2>2 DEF Once, Returned
  <2>5. Once(save.callers, "op") /\ Once(save.callers, "leave")
    BY DEF SaveRoles
  <2>6. /\ ed' \in EditorRow /\ ed'.phase \in {ed.phase, "gone"} /\ ed'.content = ed.content
        /\ ed'.rev = save.rev + 1 /\ ed'.finalized = ed.finalized /\ ed'.dirty = FALSE
        /\ ed'.spoiled = (ed.spoiled \/ "op" \in Returned) /\ ed'.latest = ed.latest
    BY <1>1, <1>8 DEF AfterSaved
  <2>7. save' = [at |-> "sent", rev |-> save.rev + 1, content |-> ed.content, callers |-> <<c>>]
    BY <1>1, <1>8 DEF AfterSaved, c
  <2>8. /\ save' \in [at : {"none", "sent", "ok", "refused"}, rev : Nat, content : Nat, callers : Seq(Callers)]
        /\ save'.at = "sent" /\ save'.rev = save.rev + 1 /\ save'.content = ed.content
        /\ save'.callers = <<c>> /\ save' # NoSave
    BY <1>3, <2>3, <2>7 DEF NoSave
  <2>9. /\ Range(save'.callers) = {c} /\ save'.callers # <<>> /\ save'.callers[1] = c
        /\ Once(save'.callers, "op") /\ Once(save'.callers, "leave")
    BY <2>3, <2>8, OneCaller
  <2>10. op'.at = "persist" <=> "op" = c
    BY <1>3, <1>5, <2>3, <2>4, <2>5, NoOpRow DEF TypeOK
  <2>11. leave' \in {"no", "navigating", "flush"} /\ (leave' = "flush" <=> "leave" = c)
    BY <1>1, <2>3, <2>4, <2>5 DEF AfterSaved, TypeOK
  <2>12. op'.at # "wait"
    BY <1>5, NoOpRow
  <2>13. TypeOK'
    BY <1>2, <1>5, <2>6, <2>8, <2>9, <2>10, <2>11, <2>12 DEF TypeOK, OpRow
  <2>14. SaveRoles'
    BY <2>6, <2>8, <2>9 DEF SaveRoles
  <2>15. op.kind # "discard"
    BY <1>8 DEF GoesOn, EditorFlags, Discarding
  <2>16. op'.kind # "discard"
    BY <1>5, <2>15, NoOpRow
  <2>17. EditorFlags'
    BY <1>3, <2>6, <2>8, <2>16 DEF EditorFlags, Discarding, UnsavedChangeIsScheduled
  <2>18. Revisions'
    BY <1>2, <1>3, <1>5, <2>6, <2>8, NoOpRow DEF Revisions, Agrees
  <2>19. Undisturbed'
    BY <1>3, <1>5, <2>6, NoOpRow DEF Undisturbed, PastSaving
  <2>20. Contents'
    <3>1. ASSUME ~ed'.spoiled PROVE ~(op'.kind = "publish" /\ op'.at \in {"build", "request"})
      BY <1>3, <1>5, <2>6, <3>1, NoOpRow DEF Undisturbed, PastSaving
    <3> QED
      BY <1>2, <2>6, <2>8, <3>1 DEF Contents, Agrees
  <2>kept. LatestKept'
    BY <1>2, <1>3, <1>8, <2>6, <2>8 DEF LatestKept, GoesOn
  <2> QED
    BY <1>7, <2>13, <2>14, <2>17, <2>18, <2>19, <2>20, <2>kept
<1>9. CASE ~GoesOn
  <2>1. Returned = Range(save.callers)
    BY <1>9 DEF Returned, Range
  <2>2. /\ ed' \in EditorRow /\ ed'.phase \in {ed.phase, "gone"} /\ ed'.content = ed.content
        /\ ed'.rev = save.rev + 1 /\ ed'.finalized = ed.finalized /\ ed'.told = ed.told
        /\ ed'.dirty = ed.dirty /\ ed'.spoiled = ed.spoiled /\ ed'.latest = ed.latest
        /\ ed'.timer => ed.timer
        /\ ed'.phase # "gone" /\ ed.dirty /\ ~ed.finalized => ed'.timer = ed.timer
        /\ save' = NoSave
    <3>1. ed.spoiled \in BOOLEAN
      BY DEF TypeOK, EditorRow
    <3>2. ed'.spoiled = ed.spoiled
      BY <1>1, <1>9, <3>1 DEF AfterSaved
    <3> QED
      BY <1>1, <1>9, <3>2 DEF AfterSaved
  <2>3. /\ save' \in [at : {"none", "sent", "ok", "refused"}, rev : Nat, content : Nat, callers : Seq(Callers)]
        /\ save'.at = "none" /\ save'.rev = 0 /\ Range(save'.callers) = {}
        /\ Once(save'.callers, "op") /\ Once(save'.callers, "leave")
    BY <2>2, NobodyWaits DEF NoSave
  <2>4. op'.at \notin {"persist", "wait"}
    BY <1>3, <1>5, <2>1, NoOpRow DEF TypeOK
  <2>5. leave' \in {"no", "navigating", "flush"} /\ leave' # "flush"
    BY <1>1, <2>1 DEF AfterSaved, TypeOK
  <2>6. TypeOK'
    BY <1>2, <1>5, <2>2, <2>3, <2>4, <2>5 DEF TypeOK, OpRow
  <2>7. SaveRoles'
    BY <2>2, <2>3 DEF SaveRoles
  <2>8. EditorFlags'
    <3>1. ed'.phase # "loading"
      BY <1>3, <2>2 DEF EditorFlags
    <3>2. ed'.finalized /\ ed'.dirty => ed'.told \/ ed'.phase = "gone"
      BY <2>2 DEF EditorFlags
    <3>3. op'.kind = "discard" => op.kind = "discard"
      BY <1>5, NoOpRow
    <3>4. UnsavedChangeIsScheduled'
      <4> SUFFICES ASSUME ed'.phase = "open", ed'.dirty, ~ed'.told PROVE ed'.timer
        BY DEF UnsavedChangeIsScheduled
      <4>1. ed.phase = "open" /\ ed.dirty /\ ~ed.told /\ ~ed.finalized
        BY <2>2 DEF EditorFlags
      <4>2. Tail(save.callers) = <<>>
        BY <1>9, <4>1 DEF GoesOn
      <4>3. Len(save.callers) = 1
        BY <1>3, <4>2, OneLeft
      <4> QED
        BY <2>2, <4>1, <4>3 DEF EditorFlags, UnsavedChangeIsScheduled
    <3> QED
      BY <2>2, <3>1, <3>2, <3>3, <3>4 DEF EditorFlags, Discarding
  <2>9. Revisions'
    BY <1>2, <1>3, <1>5, <2>2, <2>3, NoOpRow DEF Revisions, Agrees
  <2>10. "op" \in Returned => ~ed.dirty
    <3> SUFFICES ASSUME "op" \in Range(save.callers), ed.dirty PROVE FALSE
      BY <2>1
    <3>1. Tail(save.callers) = <<>>
      BY <1>6, <1>9 DEF GoesOn
    <3>2. Len(save.callers) = 1 /\ DOMAIN save.callers = 1 .. 1
      BY <1>3, <3>1, OneLeft
    <3>3. save.callers[1] = "op"
      BY <3>2 DEF Range
    <3> QED
      BY <1>3, <3>3 DEF SaveRoles
  <2>11. Undisturbed'
    BY <1>3, <1>5, <2>2, <2>10, NoOpRow DEF Undisturbed, PastSaving
  <2>12. Contents'
    <3> SUFFICES ASSUME ~ed.spoiled PROVE Contents'
      BY <2>2 DEF Contents
    <3>1. srv.state = "open" /\ ~ed.dirty => Agrees(ed'.rev, ed'.content)
      BY <1>3, <2>2 DEF Contents
    <3>2. srv.state = "open" /\ op'.kind = "publish" /\ op'.at \in {"build", "request"}
          => Agrees(op'.rev, op'.content)
      BY <1>3, <1>5, <2>2, <2>10, <3>1, NoOpRow DEF Contents
    <3> QED
      BY <1>2, <2>2, <3>1, <3>2 DEF Contents, Agrees
  <2>kept. LatestKept'
    BY <1>2, <1>3, <2>2, <2>3 DEF LatestKept
  <2> QED
    BY <1>7, <2>6, <2>7, <2>8, <2>9, <2>11, <2>12, <2>kept
<1> QED
  BY <1>8, <1>9

\* The save fails: everyone who awaited it fails with it.
LEMMA SaveFailsKeeps == ASSUME EditorInv, SaveFails PROVE EditorInv'
<1> USE DEF EditorInv
<1> DEFINE returned == Range(save.callers)
           f == [ed EXCEPT !.dirty = DirtyAfterWait(DirtyAfterFailure), !.told = Tells]
<1>1. /\ save # NoSave /\ save' = NoSave /\ UNCHANGED <<srv, get, edits>>
      /\ ("leave" \in returned /\ ed' = Gone(f)) \/ ed' = f
      /\ leave' = (IF "leave" \in returned THEN "no" ELSE leave)
      /\ op' = CASE "op" \in returned -> NoOp
                 [] op.at = "wait" /\ op.kind = "details" -> NoOp
                 [] op.at = "wait" /\ op.kind = "discard" -> [op EXCEPT !.at = "request"]
                 [] OTHER -> IF "leave" \in returned THEN Decided(op) ELSE op
  BY DEF SaveFails
<1>2. /\ f \in EditorRow /\ f.phase = ed.phase /\ f.content = ed.content /\ f.rev = ed.rev
      /\ f.finalized = ed.finalized /\ f.spoiled = ed.spoiled /\ f.latest = ed.latest /\ f.timer = ed.timer
      /\ f.dirty = DirtyAfterFailure /\ f.told = Tells
  <2>1. /\ DirtyAfterFailure \in BOOLEAN /\ Tells \in BOOLEAN
        /\ DirtyAfterWait(DirtyAfterFailure) = DirtyAfterFailure
    BY DEF DirtyAfterWait, DirtyAfterFailure, Tells, TypeOK, EditorRow
  <2> QED
    BY <2>1 DEF TypeOK, EditorRow
<1> HIDE DEF f
<1>3. /\ ed' \in EditorRow /\ ed'.phase \in {ed.phase, "gone"} /\ ed'.content = ed.content
      /\ ed'.rev = ed.rev /\ ed'.finalized = ed.finalized /\ ed'.spoiled = ed.spoiled /\ ed'.latest = ed.latest
      /\ ed'.dirty = DirtyAfterFailure /\ ed'.told = Tells
      /\ ed'.timer => ed.timer
  <2>1. CASE ed' = f
    BY <1>2, <2>1
  <2>2. CASE ed' = Gone(f)
    BY <1>2, <2>2, GoneRow
  <2> QED
    BY <1>1, <2>1, <2>2
<1>4. /\ op' \in OpRow
      /\ \/ op' = NoOp
         \/ op.at = "wait" /\ op.kind = "discard" /\ op'.kind = "discard" /\ op'.at = "request"
            /\ op'.rev = op.rev
         \/ "op" \notin returned /\ op.at # "wait" /\ op' = op
  <2>1. op \in OpRow
    BY DEF TypeOK, OpRow
  <2>2. CASE "op" \in returned
    <3>1. op.at = "persist"
      BY <2>2 DEF TypeOK
    <3> QED
      BY <1>1, <2>2, <3>1, NoOpRow
  <2>3. CASE "op" \notin returned /\ op.at = "wait"
    <3>1. op.kind = "details" \/ op.kind = "discard"
      BY <2>3 DEF OpStages
    <3>2. CASE op.kind = "details"
      BY <1>1, <2>3, <3>2, NoOpRow
    <3>3. CASE op.kind = "discard"
      <4>1. op' = [op EXCEPT !.at = "request"]
        BY <1>1, <2>3, <3>3
      <4> QED
        BY <2>1, <2>3, <3>3, <4>1, OpAt
    <3> QED
      BY <3>1, <3>2, <3>3
  <2>4. CASE "op" \notin returned /\ op.at # "wait"
    <3>1. op' = (IF "leave" \in returned THEN Decided(op) ELSE op)
      BY <1>1, <2>4
    <3> QED
      BY <2>1, <2>4, <3>1, DecidedIs
  <2> QED
    BY <2>2, <2>3, <2>4
<1>5. /\ save' \in [at : {"none", "sent", "ok", "refused"}, rev : Nat, content : Nat, callers : Seq(Callers)]
      /\ save'.at = "none" /\ save'.rev = 0 /\ Range(save'.callers) = {}
      /\ Once(save'.callers, "op") /\ Once(save'.callers, "leave")
  BY <1>1, NobodyWaits DEF NoSave
<1>6. op'.at \notin {"persist", "wait"}
  BY <1>4, NoOpRow DEF TypeOK
<1>7. leave' \in {"no", "navigating"}
  BY <1>1 DEF TypeOK
<1>d. op.kind = "discard" <=> Discarding
  BY DEF Discarding
<1>8. TypeOK'
  BY <1>1, <1>3, <1>4, <1>5, <1>6, <1>7 DEF TypeOK, OpRow
<1>9. OpStages'
  BY <1>1, <1>3, <1>4, NoOpRow DEF OpStages
<1>10. SaveRoles'
  BY <1>1, <1>5 DEF SaveRoles
<1>11. EditorFlags'
  <2>1. ed'.phase # "loading"
    BY <1>1, <1>3 DEF EditorFlags
  <2>2. ed'.told \/ ed'.phase = "gone"
    BY <1>3 DEF Tells
  <2>3. op'.kind = "discard" => ~ed'.dirty /\ ~ed'.timer
    <3>1. op'.kind = "discard" => op.kind = "discard"
      BY <1>4, NoOpRow
    <3> QED
      BY <1>3, <3>1 DEF EditorFlags, Discarding, DirtyAfterFailure
  <2> QED
    BY <1>1, <2>1, <2>2, <2>3 DEF EditorFlags, Discarding, UnsavedChangeIsScheduled
<1>12. Revisions'
  BY <1>1, <1>3, <1>4, <1>5, NoOpRow DEF Revisions, Agrees, TypeOK
<1>13a. ed.spoiled \/ (ed'.dirty /\ ~(op'.kind = "publish" /\ op'.at \in {"build", "request"})
                         /\ ~(op'.kind \in {"upload", "replace", "publish"}
                               /\ op'.at \in {"build", "request", "ok", "refused"}))
  <2>1. Discarding => ed.spoiled
    BY <1>1 DEF EditorFlags
  <2>2. PastSaving => ed.spoiled
    BY <1>1 DEF Undisturbed
  <2> QED
    BY <1>3, <1>4, <2>1, <2>2, NoOpRow DEF PastSaving, DirtyAfterFailure
<1>13. Undisturbed' /\ Contents'
  BY <1>1, <1>3, <1>13a DEF Undisturbed, PastSaving, Contents, Agrees
<1>kept. LatestKept'
  BY <1>1, <1>3, <1>5, <1>13a DEF LatestKept
<1> QED
  BY <1>8, <1>9, <1>10, <1>11, <1>12, <1>13, <1>kept

----------------------------------------------------------------------------
(***************************************************************************)
(* The other answers.                                                      *)
(***************************************************************************)

LEMMA LoadedKeeps == ASSUME EditorInv, Loaded PROVE EditorInv'
<1> USE DEF EditorInv
<1>0. /\ get.at = "ok" /\ get' = NoGet /\ UNCHANGED <<srv, save, op, edits>>
  BY DEF Loaded
<1>g. /\ get' \in GetRow
      /\ get'.at = "none" /\ get.rev \in Nat /\ get.content \in Nat /\ Agrees(get.rev, get.content)
  BY <1>0 DEF NoGet, GetRow, TypeOK, Revisions
<1>1. CASE get.state = "finalized"
  <2>1. ed' = ed /\ leave' \in {leave, "navigating"} /\ (leave' # leave => leave = "no")
    BY <1>1 DEF Loaded
  <2>2. TypeOK' /\ OpStages' /\ SaveRoles'
    BY <1>0, <1>g, <2>1 DEF TypeOK, GetRow, OpStages, SaveRoles
  <2>3. EditorFlags'
    BY <1>0, <2>1 DEF EditorFlags, Discarding, UnsavedChangeIsScheduled
  <2>4. Revisions'
    BY <1>0, <1>g, <2>1 DEF Revisions, Agrees
  <2>5. Undisturbed' /\ Contents'
    BY <1>0, <2>1 DEF Undisturbed, PastSaving, Contents, Agrees
  <2>kept. LatestKept'
    BY <1>0, <2>1 DEF LatestKept
  <2> QED
    BY <2>2, <2>3, <2>4, <2>5, <2>kept
<1>2. CASE get.state # "finalized"
  <2> DEFINE phase == IF ed.phase = "loading" THEN "open" ELSE ed.phase
             latest == IF GivesUp THEN 0 ELSE ed.latest
  <2>1. /\ leave' = leave
        /\ ed' = [ed EXCEPT !.phase = phase, !.content = get.content, !.rev = get.rev,
                            !.latest = latest, !.spoiled = @ \/ Overtakes]
    BY <1>2 DEF Loaded
  <2>2. phase \in {"open", "gone"} /\ (phase = ed.phase \/ ed.phase = "loading")
    BY DEF TypeOK, EditorRow
  <2>l. /\ latest \in Nat /\ latest <= ed.latest
        /\ ~Overtakes => save = NoSave /\ (ed.dirty => latest = 0) /\ (~ed.dirty => latest = ed.latest)
    BY DEF TypeOK, EditorRow, GivesUp, Overtakes
  <2>o. Overtakes \in BOOLEAN /\ (save # NoSave => Overtakes)
    BY DEF TypeOK, EditorRow, Overtakes
  <2> HIDE DEF phase, latest
  <2>3. /\ ed' \in EditorRow /\ ed'.phase = phase /\ ed'.content = get.content /\ ed'.rev = get.rev
        /\ ed'.finalized = ed.finalized /\ ed'.told = ed.told /\ ed'.dirty = ed.dirty
        /\ ed'.timer = ed.timer /\ ed'.spoiled = (ed.spoiled \/ Overtakes)
        /\ ed'.latest = latest
    BY <1>g, <2>1, <2>2, <2>l, <2>o DEF TypeOK, EditorRow
  <2>4. TypeOK' /\ OpStages' /\ SaveRoles'
    BY <1>0, <1>g, <2>1, <2>3 DEF TypeOK, GetRow, OpStages, SaveRoles
  <2>5. EditorFlags'
    BY <1>0, <2>2, <2>3, NobodyWaits DEF EditorFlags, Discarding, UnsavedChangeIsScheduled
  <2>6. Revisions'
    BY <1>0, <1>g, <2>3 DEF Revisions, Agrees
  <2>7. Undisturbed' /\ Contents'
    BY <1>0, <1>g, <2>3, <2>o DEF Undisturbed, PastSaving, Contents, Agrees
  <2>kept. LatestKept'
    <3>1. ed.latest \in Nat /\ edits \in Nat
      BY EditorAssumption DEF TypeOK, EditorRow
    <3>2. ASSUME ~ed'.spoiled PROVE ~ed.spoiled /\ ~Overtakes
      BY <2>3, <3>2
    <3>3. ASSUME ~ed'.spoiled PROVE ed'.dirty \/ save' # NoSave => ed'.content >= ed'.latest
      BY <1>0, <1>g, <2>3, <2>l, <3>2, <3>3
    <3> QED
      BY <1>0, <2>3, <2>l, <3>1, <3>2, <3>3 DEF LatestKept
  <2> QED
    BY <2>4, <2>5, <2>6, <2>7, <2>kept
<1> QED
  BY <1>1, <1>2

\* An error is shown.
LEMMA TellsRow ==
  ASSUME TypeOK, ed' = [ed EXCEPT !.told = Tells]
  PROVE  /\ ed' \in EditorRow /\ ed'.phase = ed.phase /\ ed'.content = ed.content /\ ed'.rev = ed.rev
         /\ ed'.finalized = ed.finalized /\ ed'.dirty = ed.dirty
         /\ ed'.timer = ed.timer /\ ed'.spoiled = ed.spoiled /\ ed'.latest = ed.latest
         /\ ed'.told \/ ed.phase = "gone"
<1>1. Tells \in BOOLEAN /\ (Tells \/ ed.phase = "gone")
  BY DEF Tells, TypeOK, EditorRow
<1> QED
  BY <1>1 DEF TypeOK, EditorRow

LEMMA LoadFailsKeeps == ASSUME EditorInv, LoadFails PROVE EditorInv'
<1> USE DEF EditorInv
<1>0. /\ get' = NoGet /\ ed' = [ed EXCEPT !.told = Tells] /\ UNCHANGED <<srv, save, op, leave, edits>>
  BY DEF LoadFails
<1>g. /\ get' \in GetRow
      /\ get'.at = "none"
  BY <1>0 DEF NoGet, GetRow, TypeOK, EditorRow
<1>1. /\ ed' \in EditorRow /\ ed'.phase = ed.phase /\ ed'.content = ed.content /\ ed'.rev = ed.rev
      /\ ed'.finalized = ed.finalized /\ ed'.dirty = ed.dirty
      /\ ed'.timer = ed.timer /\ ed'.spoiled = ed.spoiled /\ ed'.latest = ed.latest
      /\ ed'.told \/ ed.phase = "gone"
  BY <1>0, TellsRow
<1>2. TypeOK' /\ OpStages' /\ SaveRoles'
  BY <1>0, <1>g, <1>1 DEF TypeOK, GetRow, OpStages, SaveRoles
<1>3. EditorFlags'
  BY <1>0, <1>1 DEF EditorFlags, Discarding, UnsavedChangeIsScheduled
<1>4. Revisions'
  BY <1>0, <1>g, <1>1 DEF Revisions, Agrees
<1>5. Undisturbed' /\ Contents'
  BY <1>0, <1>1 DEF Undisturbed, PastSaving, Contents, Agrees
<1>kept. LatestKept'
  BY <1>0, <1>1 DEF LatestKept
<1> QED
  BY <1>2, <1>3, <1>4, <1>5, <1>kept

LEMMA UploadedKeeps == ASSUME EditorInv, Uploaded PROVE EditorInv'
<1> USE DEF EditorInv
<1>0. /\ op.at = "ok" /\ op.kind = "upload" /\ UNCHANGED <<srv, get, save, leave, edits>>
      /\ ed' = [ed EXCEPT !.content = op.content, !.rev = op.rev, !.sources = TRUE]
      /\ op' = NoOp \/ op' = [op EXCEPT !.at = "request"]
  BY DEF Uploaded
<1>1. op \in OpRow /\ op.rev \in Nat /\ op.content \in Nat /\ Agrees(op.rev, op.content)
  BY <1>0 DEF TypeOK, OpRow, Revisions
<1>2. /\ ed' \in EditorRow /\ ed'.phase = ed.phase /\ ed'.content = op.content /\ ed'.rev = op.rev
      /\ ed'.finalized = ed.finalized /\ ed'.dirty = ed.dirty /\ ed'.told = ed.told
      /\ ed'.timer = ed.timer /\ ed'.spoiled = ed.spoiled /\ ed'.latest = ed.latest
  BY <1>0, <1>1 DEF TypeOK, EditorRow
<1>3. /\ op' \in OpRow
      /\ op' = NoOp \/ (op'.kind = "upload" /\ op'.at = "request" /\ op'.rev = op.rev)
  <2>1. CASE op' = NoOp
    BY <2>1, NoOpRow
  <2>2. CASE op' = [op EXCEPT !.at = "request"]
    BY <1>0, <1>1, <2>2, OpAt
  <2> QED
    BY <1>0, <2>1, <2>2
<1>4. TypeOK'
  BY <1>0, <1>2, <1>3, NoOpRow DEF TypeOK, OpRow
<1>5. OpStages'
  BY <1>0, <1>2, <1>3, NoOpRow DEF OpStages
<1>6. SaveRoles'
  BY <1>0, <1>2 DEF SaveRoles
<1>7. EditorFlags'
  BY <1>0, <1>2, <1>3, NoOpRow DEF EditorFlags, Discarding, UnsavedChangeIsScheduled
<1>8. Revisions'
  BY <1>0, <1>1, <1>2, <1>3, NoOpRow DEF Revisions, Agrees, TypeOK
<1>9. PastSaving
  BY <1>0 DEF PastSaving
<1>10. Undisturbed'
  BY <1>0, <1>2, <1>9 DEF Undisturbed
<1>11. Contents'
  BY <1>0, <1>1, <1>2, <1>3, <1>9, NoOpRow DEF Undisturbed, Contents, Agrees
<1>kept. LatestKept'
  BY <1>0, <1>2, <1>9 DEF LatestKept, Undisturbed
<1> QED
  BY <1>4, <1>5, <1>6, <1>7, <1>8, <1>10, <1>11, <1>kept

LEMMA PublishedKeeps == ASSUME EditorInv, Published PROVE EditorInv'
<1> USE DEF EditorInv
<1>0. /\ op.at = "ok" /\ op.kind = "publish" /\ UNCHANGED <<srv, get, save, edits>>
      /\ ed' = [ed EXCEPT !.dirty = FALSE, !.finalized = TRUE]
      /\ op' = NoOp \/ op' = [op EXCEPT !.at = "done"]
      /\ leave' = leave \/ (leave' = "navigating" /\ leave = "no")
  BY DEF Published
<1>1. op \in OpRow /\ srv.state # "open"
  BY <1>0 DEF TypeOK, OpRow, OpStages
<1>2. /\ ed' \in EditorRow /\ ed'.phase = ed.phase /\ ed'.content = ed.content /\ ed'.rev = ed.rev
      /\ ed'.finalized = TRUE /\ ed'.dirty = FALSE /\ ed'.told = ed.told
      /\ ed'.timer = ed.timer /\ ed'.spoiled = ed.spoiled /\ ed'.latest = ed.latest
  BY <1>0, <1>1 DEF TypeOK, EditorRow
<1>3. /\ op' \in OpRow
      /\ op' = NoOp \/ (op'.kind = "publish" /\ op'.at = "done" /\ op'.rev = op.rev)
  <2>1. CASE op' = NoOp
    BY <2>1, NoOpRow
  <2>2. CASE op' = [op EXCEPT !.at = "done"]
    BY <1>0, <1>1, <2>2, OpAt
  <2> QED
    BY <1>0, <2>1, <2>2
<1>4. TypeOK'
  BY <1>0, <1>2, <1>3, NoOpRow DEF TypeOK, OpRow
<1>5. OpStages'
  BY <1>0, <1>2, <1>3, NoOpRow DEF OpStages
<1>6. SaveRoles'
  BY <1>0, <1>2 DEF SaveRoles
<1>7. EditorFlags'
  BY <1>0, <1>2, <1>3, NoOpRow DEF EditorFlags, Discarding, UnsavedChangeIsScheduled
<1>8. Revisions'
  BY <1>0, <1>1, <1>2, <1>3, NoOpRow DEF Revisions, Agrees, TypeOK
<1>9. Undisturbed' /\ Contents'
  BY <1>0, <1>1, <1>2, <1>3, NoOpRow DEF Undisturbed, PastSaving, Contents, Agrees
<1>kept. LatestKept'
  BY <1>0, <1>1, <1>2, <1>3, NoOpRow DEF LatestKept
<1> QED
  BY <1>4, <1>5, <1>6, <1>7, <1>8, <1>9, <1>kept

LEMMA DeletedKeeps == ASSUME EditorInv, Deleted PROVE EditorInv'
<1> USE DEF EditorInv
<1>0. /\ op.at = "ok" /\ op.kind \in {"discard", "details"} /\ UNCHANGED <<srv, get, save, edits>>
      /\ ed' = [ed EXCEPT !.dirty = IF op.kind = "details" THEN FALSE ELSE @]
      /\ op' = NoOp \/ op' = [op EXCEPT !.at = "done"]
      /\ leave' = leave \/ (leave' = "navigating" /\ leave = "no")
  BY DEF Deleted
<1>1. op \in OpRow /\ srv.state # "open"
  BY <1>0 DEF TypeOK, OpRow, OpStages
<1>2. /\ ed' \in EditorRow /\ ed'.phase = ed.phase /\ ed'.content = ed.content /\ ed'.rev = ed.rev
      /\ ed'.finalized = ed.finalized /\ ed'.told = ed.told
      /\ ed'.timer = ed.timer /\ ed'.spoiled = ed.spoiled /\ ed'.latest = ed.latest
      /\ ed'.dirty => ed.dirty
  BY <1>0, <1>1 DEF TypeOK, EditorRow
<1>3. /\ op' \in OpRow
      /\ op' = NoOp \/ (op'.kind = op.kind /\ op'.at = "done" /\ op'.rev = op.rev)
  <2>1. CASE op' = NoOp
    BY <2>1, NoOpRow
  <2>2. CASE op' = [op EXCEPT !.at = "done"]
    BY <1>0, <1>1, <2>2, OpAt
  <2> QED
    BY <1>0, <2>1, <2>2
<1>4. TypeOK'
  BY <1>0, <1>2, <1>3, NoOpRow DEF TypeOK, OpRow
<1>5. OpStages'
  BY <1>0, <1>2, <1>3, NoOpRow DEF OpStages
<1>6. SaveRoles'
  BY <1>0, <1>2 DEF SaveRoles
<1>7. EditorFlags'
  BY <1>0, <1>2, <1>3, NoOpRow DEF EditorFlags, Discarding, UnsavedChangeIsScheduled
<1>8. Revisions'
  BY <1>0, <1>1, <1>2, <1>3, NoOpRow DEF Revisions, Agrees, TypeOK
<1>9. Undisturbed' /\ Contents'
  BY <1>0, <1>1, <1>2, <1>3, NoOpRow DEF Undisturbed, PastSaving, Contents, Agrees
<1>kept. LatestKept'
  BY <1>0, <1>1, <1>2, <1>3, NoOpRow DEF LatestKept
<1> QED
  BY <1>4, <1>5, <1>6, <1>7, <1>8, <1>9, <1>kept

LEMMA OpFailsKeeps == ASSUME EditorInv, OpFails PROVE EditorInv'
<1> USE DEF EditorInv
<1>0. /\ op.at \in {"build", "request", "ok", "refused"} /\ op' = NoOp
      /\ ed' = [ed EXCEPT !.told = Tells] /\ UNCHANGED <<srv, get, save, leave, edits>>
  BY DEF OpFails
<1>1. /\ ed' \in EditorRow /\ ed'.phase = ed.phase /\ ed'.content = ed.content /\ ed'.rev = ed.rev
      /\ ed'.finalized = ed.finalized /\ ed'.dirty = ed.dirty
      /\ ed'.timer = ed.timer /\ ed'.spoiled = ed.spoiled /\ ed'.latest = ed.latest
      /\ ed'.told \/ ed.phase = "gone"
  BY <1>0, TellsRow
<1>2. TypeOK' /\ OpStages' /\ SaveRoles'
  BY <1>0, <1>1, NoOpRow DEF TypeOK, OpRow, OpStages, SaveRoles
<1>3. EditorFlags'
  BY <1>0, <1>1, NoOpRow DEF EditorFlags, Discarding, UnsavedChangeIsScheduled
<1>4. Revisions'
  BY <1>0, <1>1, NoOpRow DEF Revisions, Agrees, TypeOK
<1>5. Undisturbed' /\ Contents'
  BY <1>0, <1>1, NoOpRow DEF Undisturbed, PastSaving, Contents, Agrees
<1>kept. LatestKept'
  BY <1>0, <1>1, NoOpRow DEF LatestKept
<1> QED
  BY <1>2, <1>3, <1>4, <1>5, <1>kept

LEMMA ReplacedKeeps == ASSUME EditorInv, Replaced PROVE EditorInv'
<1> USE DEF EditorInv
<1> DEFINE e == [ed EXCEPT !.content = edits', !.latest = edits', !.rev = op.rev, !.dirty = TRUE, !.told = FALSE]
           p == Persist(e, save, "op")
           t == IF "op" \in Range(Tail(save.callers)) THEN save.callers ELSE Append(save.callers, "op")
           i == [e EXCEPT !.timer = FALSE]
           n == [i EXCEPT !.dirty = FALSE]
<1>0. /\ op.at = "ok" /\ op.kind = "replace" /\ edits' = edits + 1 /\ edits < MaxEdits
      /\ ed' = p.ed /\ save' = p.save /\ UNCHANGED <<srv, get, leave>>
      /\ op' = [op EXCEPT !.kind = "replaced", !.at = "persist"]
  BY DEF Replaced
<1>1. /\ edits' \in Nat /\ edits' \in 0 .. MaxEdits /\ op \in OpRow /\ op.rev \in Nat /\ op.rev <= srv.rev
      /\ ~ed.finalized /\ "op" \notin Range(save.callers) /\ "op" \in Callers
  BY <1>0, EditorAssumption DEF TypeOK, OpRow, Revisions, OpStages, Callers
<1>2. /\ e \in EditorRow /\ e.phase = ed.phase /\ e.content = edits' /\ e.rev = op.rev
      /\ e.finalized = ed.finalized /\ e.dirty = TRUE /\ e.told = FALSE /\ e.spoiled = ed.spoiled
      /\ e.latest = edits'
  BY <1>1 DEF TypeOK, EditorRow
<1> HIDE DEF e
<1>3. /\ i \in EditorRow /\ i.phase = ed.phase /\ i.content = edits' /\ i.rev = op.rev
      /\ i.finalized = ed.finalized /\ i.dirty = TRUE /\ i.told = FALSE /\ i.spoiled = ed.spoiled
      /\ i.latest = edits'
      /\ i.timer = FALSE
  BY <1>2, IdleRow
<1> HIDE DEF i
<1>4. /\ n \in EditorRow /\ n.phase = ed.phase /\ n.content = edits' /\ n.rev = op.rev
      /\ n.finalized = ed.finalized /\ n.dirty = FALSE /\ n.told = FALSE /\ n.spoiled = ed.spoiled
      /\ n.latest = edits'
      /\ n.timer = FALSE
  BY <1>3, CleanRow
<1> HIDE DEF n, p
<1>5. op' \in OpRow /\ op'.kind = "replaced" /\ op'.at = "persist" /\ op'.rev = op.rev
  BY <1>0, <1>1 DEF OpRow
<1>6. PastSaving /\ ed.phase # "loading"
  BY <1>0, NoOpRow DEF PastSaving, EditorFlags
<1>7. CASE save # NoSave
  <2>1. ed' = i /\ save' = [save EXCEPT !.callers = t]
    BY <1>0, <1>7 DEF p, Persist, i
  <2>2. save.callers \in Seq(Callers) /\ save.callers # <<>> /\ save.at # "none"
    BY <1>7 DEF TypeOK, SaveRoles
  <2>3. /\ t \in Seq(Callers) /\ t # <<>> /\ Len(t) > 1 /\ t[1] = save.callers[1]
        /\ Range(t) = Range(save.callers) \cup {"op"}
        /\ \A x : Once(save.callers, x) /\ (x = "op" => x \notin Range(save.callers)) => Once(t, x)
    <3> DEFINE c == "op"
               s == save.callers
               Longer(d, v) ==
                 /\ v \in Seq(Callers) /\ v # <<>> /\ Len(v) > 1 /\ v[1] = s[1]
                 /\ Range(v) = Range(s) \cup {d}
                 /\ \A x : Once(s, x) /\ (x = d => x \notin Range(s)) => Once(v, x)
    <3>1. c \in Callers /\ t = IF c \in Range(Tail(s)) THEN s ELSE Append(s, c)
      BY <1>1
    <3> HIDE DEF c, t
    <3>2. \A d \in Callers : \A v :
             v = (IF d \in Range(Tail(s)) THEN s ELSE Append(s, d)) => Longer(d, v)
      BY <2>2, JoinedCallers
    <3>3. Longer(c, t)
      <4> HIDE DEF Longer, s
      <4> QED
        BY <3>1, <3>2
    <3> QED
      BY <3>3 DEF c
  <2> HIDE DEF t
  <2>4. /\ save'.callers = t /\ save'.at = save.at /\ save'.rev = save.rev /\ save'.content = save.content
        /\ save' \in [at : {"none", "sent", "ok", "refused"}, rev : Nat, content : Nat, callers : Seq(Callers)]
    BY <2>1, <2>3 DEF TypeOK
  <2>5. save' # NoSave
    BY <2>2, <2>4 DEF NoSave
  <2>6. TypeOK'
    <3>1. ("leave" \in Range(save'.callers)) <=> ("leave" \in Range(save.callers))
      BY <2>3, <2>4
    <3>2. "op" \in Range(save'.callers)
      BY <2>3, <2>4
    <3> QED
      <4>1. srv' = srv /\ get' = get /\ leave' = leave /\ edits' \in 0 .. MaxEdits
        BY <1>0, <1>1
      <4>2. save'.callers # <<>>
        BY <2>3, <2>4
      <4> QED
        BY <1>3, <1>5, <1>7, <2>1, <2>4, <2>5, <3>1, <3>2, <4>1, <4>2 DEF TypeOK, OpRow
  <2>7. OpStages'
    BY <1>0, <1>1, <1>3, <1>5, <2>1, NoOpRow DEF OpStages
  <2>8. SaveRoles'
    <3>1. Once(save'.callers, "op") /\ Once(save'.callers, "leave")
      BY <1>1, <2>3, <2>4 DEF SaveRoles
    <3>2. save'.callers[1] # "op"
      BY <1>1, <2>2, <2>3, <2>4, EmptySeq DEF Range
    <3> QED
      BY <2>2, <2>4, <3>1, <3>2 DEF SaveRoles
  <2>9. EditorFlags'
    BY <1>1, <1>3, <1>5, <1>6, <2>1, <2>3, <2>4 DEF EditorFlags, Discarding, UnsavedChangeIsScheduled
  <2>10. Revisions'
    BY <1>0, <1>1, <1>3, <1>5, <2>1, <2>4 DEF Revisions, Agrees
  <2>11. Undisturbed' /\ Contents'
    BY <1>3, <1>5, <1>6, <1>7, <2>1 DEF Undisturbed, PastSaving, Contents
  <2>kept. LatestKept'
    BY <1>1, <1>3, <1>6, <1>7, <2>1 DEF LatestKept, Undisturbed
  <2> QED
    BY <2>6, <2>7, <2>8, <2>9, <2>10, <2>11, <2>kept
<1>8. CASE save = NoSave
  <2>0. e.dirty /\ ~e.finalized
    BY <1>1, <1>2
  <2>1. ed' = n /\ save' = [at |-> "sent", rev |-> e.rev, content |-> e.content, callers |-> <<"op">>]
    BY <1>0, <1>8, <2>0 DEF p, Persist, n, i
  <2>2. /\ save' \in [at : {"none", "sent", "ok", "refused"}, rev : Nat, content : Nat, callers : Seq(Callers)]
        /\ save'.at = "sent" /\ save'.rev = op.rev /\ save'.content = edits'
        /\ save'.callers = <<"op">> /\ save' # NoSave
    BY <1>1, <1>2, <2>1 DEF NoSave
  <2>3. /\ Range(save'.callers) = {"op"} /\ save'.callers # <<>> /\ Range(save.callers) = {}
        /\ Once(save'.callers, "op") /\ Once(save'.callers, "leave")
    BY <1>1, <1>8, <2>2, OneCaller, NobodyWaits
  <2>4. TypeOK'
    BY <1>0, <1>1, <1>4, <1>5, <2>1, <2>2, <2>3 DEF TypeOK, OpRow
  <2>5. OpStages'
    BY <1>0, <1>1, <1>4, <1>5, <2>1, NoOpRow DEF OpStages
  <2>6. SaveRoles'
    BY <1>4, <2>1, <2>2, <2>3 DEF SaveRoles
  <2>7. EditorFlags'
    BY <1>4, <1>5, <1>6, <2>1 DEF EditorFlags, Discarding, UnsavedChangeIsScheduled
  <2>8. Revisions'
    BY <1>0, <1>1, <1>4, <1>5, <2>1, <2>2 DEF Revisions, Agrees
  <2>9. Undisturbed'
    BY <1>5 DEF Undisturbed, PastSaving
  <2>10. Contents'
    BY <1>0, <1>4, <1>5, <2>1, <2>2 DEF Contents, Agrees
  <2>kept. LatestKept'
    BY <1>0, <1>4, <1>5, <2>1, <2>2 DEF LatestKept
  <2> QED
    BY <2>4, <2>5, <2>6, <2>7, <2>8, <2>9, <2>10, <2>kept
<1> QED
  BY <1>7, <1>8

----------------------------------------------------------------------------

LEMMA InitEditor == Init => EditorInv
<1> SUFFICES ASSUME Init PROVE EditorInv
  OBVIOUS
<1>1. /\ srv = [state |-> "open", rev |-> 1, content |-> 0, pdf |-> 0]
      /\ get = [NoGet EXCEPT !.at = "asked"] /\ save = NoSave /\ op = NoOp /\ leave = "no" /\ edits = 0
  BY DEF Init
<1>2. /\ ed \in EditorRow /\ ed.phase = "loading" /\ ed.content = 0 /\ ed.rev = 0
      /\ ~ed.dirty /\ ~ed.timer /\ ~ed.finalized /\ ~ed.spoiled /\ ed.latest = 0
  <2>1. ed \in [phase : {"loading"}, content : {0}, rev : {0}, sources : BOOLEAN,
                 dirty : {FALSE}, timer : {FALSE}, finalized : {FALSE}, told : {FALSE},
                 latest : {0}, spoiled : {FALSE}]
    BY DEF Init
  <2> QED
    <3>1. /\ ed.phase = "loading" /\ ed.content = 0 /\ ed.rev = 0 /\ ed.sources \in BOOLEAN
          /\ ed.dirty = FALSE /\ ed.timer = FALSE /\ ed.finalized = FALSE /\ ed.told = FALSE /\ ed.spoiled = FALSE
          /\ ed.latest = 0
      BY <2>1
    <3>2. PICK shown \in BOOLEAN :
            ed = [phase |-> "loading", content |-> 0, rev |-> 0, sources |-> shown, dirty |-> FALSE,
                  timer |-> FALSE, finalized |-> FALSE, told |-> FALSE, latest |-> 0, spoiled |-> FALSE]
      BY <2>1
    <3> QED
      BY <3>1, <3>2 DEF EditorRow
<1>3. /\ get \in GetRow
      /\ get.at = "asked"
  BY <1>1 DEF NoGet, GetRow
<1>4. /\ save \in [at : {"none", "sent", "ok", "refused"}, rev : Nat, content : Nat, callers : Seq(Callers)]
      /\ save.at = "none" /\ save.rev = 0
  BY <1>1, EmptySeq DEF NoSave
<1>5. TypeOK
  BY <1>1, <1>2, <1>3, <1>4, NoOpRow, NobodyWaits, EditorAssumption DEF TypeOK, OpRow, GetRow
<1>6. OpStages /\ SaveRoles
  BY <1>1, <1>2, NoOpRow, NobodyWaits DEF OpStages, SaveRoles
<1>7. EditorFlags
  BY <1>1, <1>2, NoOpRow DEF EditorFlags, Discarding, UnsavedChangeIsScheduled
<1>8. Revisions /\ Undisturbed /\ Contents
  BY <1>1, <1>2, <1>3, <1>4, NoOpRow DEF Revisions, Agrees, Undisturbed, PastSaving, Contents
<1>9. LatestKept
  BY <1>1, <1>2, <1>4 DEF LatestKept
<1> QED
  BY <1>5, <1>6, <1>7, <1>8, <1>9 DEF EditorInv

LEMMA EditorStutter == ASSUME EditorInv, UNCHANGED vars PROVE EditorInv'
<1> USE DEF EditorInv, vars
<1>1. TypeOK' /\ OpStages' /\ SaveRoles'
  BY DEF TypeOK, OpStages, SaveRoles
<1>2. EditorFlags'
  BY DEF EditorFlags, Discarding, UnsavedChangeIsScheduled
<1>3. Revisions' /\ Undisturbed' /\ Contents'
  BY DEF Revisions, Agrees, Undisturbed, PastSaving, Contents
<1>kept. LatestKept'
  BY DEF LatestKept
<1> QED
  BY <1>1, <1>2, <1>3, <1>kept

\* What the saving of a draft rests on: revisions the editor knows never run ahead of the
\* API's (UpdateImport, attachSource and FinalizeImport raise or check them), what is marked
\* as saved is what the API has at that revision, and an operation past its persist() runs
\* beside no save of prepare.component.ts, unless the draft counts as spoiled.
THEOREM EditorInvariant == Spec => []EditorInv
<1>1. Init => EditorInv
  BY InitEditor
<1>2. EditorInv /\ [Next]_vars => EditorInv'
  <2> SUFFICES ASSUME EditorInv, [Next]_vars PROVE EditorInv'
    OBVIOUS
  <2>1. ASSUME UserStep PROVE EditorInv'
    BY <2>1, EditKeeps, TimerKeeps, CloseKeeps, NavigateKeeps, CanLeaveKeeps, ReloadKeeps, BeginKeeps,
       DiscardKeeps, DetailsKeeps, BuiltKeeps
    DEF UserStep
  <2>2. ASSUME ServerStep PROVE EditorInv'
    BY <2>2, HandleSaveKeeps, HandleGetKeeps, HandleUploadKeeps, HandlePublishKeeps, HandleDeleteKeeps,
       OtherTabKeeps
    DEF ServerStep
  <2>3. ASSUME AnswerStep PROVE EditorInv'
    BY <2>3, LoadedKeeps, LoadFailsKeeps, SavedKeeps, SaveFailsKeeps, UploadedKeeps, ReplacedKeeps,
       PublishedKeeps, DeletedKeeps, OpFailsKeeps
    DEF AnswerStep
  <2> QED
    BY <2>1, <2>2, <2>3, EditorStutter DEF Next
<1> QED
  BY <1>1, <1>2, PTL DEF Spec

\* The variables have their types; a departure or an operation that waits for a save is among
\* those pendingSave answers, and a save is always awaited by somebody.
THEOREM EditorTypeCorrect == Spec => []TypeOK
<1>1. EditorInv => TypeOK
  BY DEF EditorInv
<1> QED
  BY <1>1, EditorInvariant, PTL

\* An editor with nothing to save, at the revision the API has, shows the draft the API has,
\* and that has the last change made here, unless a reload asked for later gave it up or the
\* draft counts as spoiled (the ways persist() and load() do lose one).
THEOREM SettledEditorAgreesWithDraft == Spec => []SettledDraftIsSaved
<1>1. EditorInv => SettledDraftIsSaved
  <2> SUFFICES ASSUME EditorInv, ed.phase # "loading", op = NoOp, save = NoSave, ~ed.dirty, ~ed.spoiled,
                      srv.state = "open", ed.rev = srv.rev
               PROVE  srv.content = ed.content /\ srv.content >= ed.latest
    BY DEF SettledDraftIsSaved
  <2>1. srv.content = ed.content
    BY DEF EditorInv, Contents, Agrees
  <2>2. srv.content >= ed.latest
    BY DEF EditorInv, LatestKept, NoSave
  <2> QED
    BY <2>1, <2>2
<1> QED
  BY <1>1, EditorInvariant, PTL

\* A change is saved without another act of the user: the timer of mark() runs, or somebody
\* awaits the present save and saves again, until an error was shown.
THEOREM ChangesAreScheduled == Spec => []UnsavedChangeIsScheduled
<1>1. EditorInv => UnsavedChangeIsScheduled
  BY DEF EditorInv, EditorFlags
<1> QED
  BY <1>1, EditorInvariant, PTL

\* discard() awaits the present save before it deletes, and stops the timer, so that no save
\* follows the delete.
THEOREM NoSaveFollowsDiscard == Spec => []NothingSentAfterDiscard
<1>1. EditorInv => NothingSentAfterDiscard
  BY DEF EditorInv, EditorFlags, Discarding, NothingSentAfterDiscard
<1> QED
  BY <1>1, EditorInvariant, PTL

\* save() publishes the PDF of the manifest that FinalizeImport stores with it: the revision
\* it sends is the one whose draft was built.
THEOREM PublishedPdfIsTheManifests == Spec => []PublishedPdfMatchesManifest
<1>1. EditorInv => PublishedPdfMatchesManifest
  BY DEF EditorInv, Contents, PublishedPdfMatchesManifest
<1> QED
  BY <1>1, EditorInvariant, PTL

\* What persist() gives the operations that start with it: until one ends, unless the draft
\* counts as spoiled, no save is under way beside it and nothing is unsaved; and a publication
\* that is built or sent carries the content its revision has, so that FinalizeImport either
\* refuses it or stores the PDF of the manifest it has.
FlushedOperation ==
  ~ed.spoiled =>
    /\ PastSaving => save = NoSave /\ ~ed.dirty
    /\ srv.state = "open" /\ op.kind = "publish" /\ op.at \in {"build", "request"} =>
         Agrees(op.rev, op.content)

\* uploadFiles() and save() flush first: see FlushedOperation.
THEOREM OperationsFlushFirst == Spec => []FlushedOperation
<1>1. EditorInv => FlushedOperation
  BY DEF EditorInv, Undisturbed, Contents, FlushedOperation
<1> QED
  BY <1>1, EditorInvariant, PTL

=============================================================================
