--------------------------- MODULE ReaderSession ---------------------------
(***************************************************************************)
(* A reader component with its screen wake lock: ReaderSync and WakeLock   *)
(* joined at the calls reader.component.ts makes (wakeLock.start when the  *)
(* view is created and on Reload, wakeLock.stop when a load fails and on   *)
(* destruction) and at the events both listen to: a page turn is a key or  *)
(* pointer event, and hiding the page both saves the place and drops the   *)
(* lock. The tab shows one reader, so there is one wake lock.              *)
(***************************************************************************)
EXTENDS ReaderSync

CONSTANT MaxGeneration

VARIABLES active, visible, generation, pending, sentinel, outstanding, kept, refused

Wake == INSTANCE WakeLock WITH requests <- outstanding

lockVars == <<active, visible, generation, pending, sentinel, outstanding, kept, refused>>

sessionVars == <<pdf, place, reader, requests, active, visible, generation, pending, sentinel,
                 outstanding, kept, refused>>

SessionInit == Init /\ Wake!Init

----------------------------------------------------------------------------

LockUnchanged == UNCHANGED lockVars

\* start() and stop() of an instance that is already started or stopped do nothing.
LockStarts == Wake!Start \/ (active /\ LockUnchanged)
LockStops == Wake!Stop \/ (~active /\ LockUnchanged)

SessionOpens(r) == (Open(r) \/ Reload(r)) /\ LockStarts

LockOutlivesFailure == LockUnchanged

\* The catch of load() stops the lock, whatever made the load fail.
LockOnLoadFailure == LockStops

SessionLoads(r) ==
  \/ (FetchPiece(r) \/ FetchState(r) \/ LoadDocument(r)) /\ LockUnchanged
  \/ Compare(r) /\ IF reader'[r].phase = "failed" THEN LockOnLoadFailure ELSE LockUnchanged
  \/ LoadFails(r) /\ LockOnLoadFailure

\* A key or a pointer reaches the lock's listeners too.
LockSeesActivity == Wake!Activity \/ (~active /\ LockUnchanged)

\* Auto-scroll and the wheel turn pages without either.
SessionMoves(r) ==
  \/ (\E page \in Pages : Turn(r, page)) /\ (LockSeesActivity \/ LockUnchanged)
  \/ StrayKey(r) /\ LockSeesActivity

SessionTimers(r) ==
  ((\E n \in {1, 2} : SaveTimerFires(r, n)) \/ CheckpointFires(r)) /\ LockUnchanged

\* A pause or a change of mode; auto-scroll pauses by itself on the last page.
SessionSaves(r) == SaveNow(r) /\ (LockSeesActivity \/ LockUnchanged)

\* visibilitychange: the reader saves when it is hidden and can save.
SessionHides ==
  /\ Wake!Hide
  /\ IF \E r \in Readers : CanSave(reader[r])
       THEN \E r \in Readers : SaveNow(r)
       ELSE UNCHANGED vars

SessionEnds(r) == Destroy(r) /\ LockStops

LockEvent ==
  /\ \/ Wake!Show
     \/ Wake!Activity
     \/ Wake!TakeBack
     \/ \E g \in outstanding : Wake!Grant(g) \/ Wake!Deny(g)
  /\ UNCHANGED vars

SessionStep(r) ==
  \/ SessionOpens(r)
  \/ SessionLoads(r)
  \/ SessionMoves(r)
  \/ SessionTimers(r)
  \/ SessionSaves(r)
  \/ SessionEnds(r)

SessionNext ==
  \/ \E r \in Readers : SessionStep(r)
  \/ SessionHides
  \/ LockEvent
  \/ (RequestStep \/ Publish) /\ LockUnchanged

SessionSpec == SessionInit /\ [][SessionNext]_sessionVars

\* As in ReaderSync: neither timers nor answers depend on the lock.
SessionFairness ==
  /\ \A r \in Readers, n \in {1, 2} : WF_sessionVars(SaveTimerFires(r, n) /\ LockUnchanged)
  /\ \A r \in Readers : WF_sessionVars(CheckpointFires(r) /\ LockUnchanged)
  /\ WF_sessionVars(RequestStep /\ LockUnchanged)

FairSession == SessionSpec /\ SessionFairness

----------------------------------------------------------------------------

SessionTypeOK == TypeOK /\ Wake!TypeOK

Showing == \E r \in Readers : reader[r].phase \in {"loading", "document", "open"}

\* The screen is kept awake for a score only: not while the page is hidden, before a reader
\* opens, after it is left, or once its load has failed (an open score that was replaced
\* keeps it). No lock that the browser granted late is left behind.
LockOnlyForScore ==
  /\ Wake!KeptLockIsHeld
  /\ Wake!NoLockWithoutReader
  /\ kept # {} => Showing \/ \E r \in Readers : reader[r].phase = "failed" /\ reader[r].blocked

\* A visible score that is loading or open has its lock, or a request for it under way,
\* unless the browser refused the last attempt.
LockForScore == Wake!LockForActiveReader /\ (Showing => active)

============================================================================
