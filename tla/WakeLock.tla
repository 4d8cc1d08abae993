----------------------------- MODULE WakeLock -----------------------------
(***************************************************************************)
(* The screen wake lock of an open reader: ScreenWakeLock of               *)
(* features/reader/screen-wake-lock.ts. The browser answers request() at   *)
(* any later moment, in any order, and may take a lock back. A lock is     *)
(* named by the generation of the request it answers. The generation       *)
(* counter is capped by MaxGeneration.                                     *)
(***************************************************************************)
EXTENDS Naturals

CONSTANT MaxGeneration

VARIABLES
  active,      \* between start() and stop()
  visible,     \* document.visibilityState
  generation,
  pending,     \* pendingGeneration
  sentinel,    \* the lock the class holds
  requests,    \* requests the browser has not answered
  kept,        \* locks granted, not taken back, whose release() was not called
  refused      \* history: the last attempt ended without a lock, or its lock was taken back

vars == <<active, visible, generation, pending, sentinel, requests, kept, refused>>

None == 0

Init ==
  /\ active = FALSE /\ visible \in BOOLEAN
  /\ generation = 0 /\ pending = None /\ sentinel = None
  /\ requests = {} /\ kept = {} /\ refused = FALSE

----------------------------------------------------------------------------

\* acquire(), with the values active and visible have by then. request() may throw.
Acquire(isActive, isVisible) ==
  IF isActive /\ isVisible /\ sentinel = None /\ pending = None
    THEN /\ generation < MaxGeneration
         /\ generation' = generation + 1
         /\ \/ /\ pending' = generation'
               /\ requests' = requests \cup {generation'}
               /\ refused' = FALSE
            \/ /\ refused' = TRUE
               /\ UNCHANGED <<pending, requests>>
    ELSE UNCHANGED <<generation, pending, requests, refused>>

ForgetHeldLock == sentinel' = None /\ kept' = kept

\* releaseHeldLock
ReleaseHeldLock == sentinel' = None /\ kept' = kept \ {sentinel}

\* invalidatePendingRequest and releaseHeldLock
GiveUp ==
  /\ generation < MaxGeneration
  /\ generation' = generation + 1
  /\ pending' = None
  /\ ReleaseHeldLock
  /\ UNCHANGED <<requests, refused>>

Start ==
  /\ ~active
  /\ active' = TRUE
  /\ Acquire(TRUE, visible)
  /\ UNCHANGED <<visible, sentinel, kept>>

Stop ==
  /\ active
  /\ active' = FALSE
  /\ GiveUp
  /\ UNCHANGED visible

\* onVisibilityChange, which listens only while the class is active.
Show ==
  /\ ~visible
  /\ visible' = TRUE
  /\ Acquire(active, TRUE)
  /\ UNCHANGED <<active, sentinel, kept>>

Hide ==
  /\ visible
  /\ visible' = FALSE
  /\ IF active THEN GiveUp
               ELSE UNCHANGED <<generation, pending, sentinel, requests, kept, refused>>
  /\ UNCHANGED active

\* onReaderActivity
Activity ==
  /\ active
  /\ Acquire(TRUE, visible)
  /\ UNCHANGED <<active, visible, sentinel, kept>>

----------------------------------------------------------------------------

PendingKept(g) == pending

AnswerClearsPending(g) == None

\* Only the answer of the latest request makes room for another one.
PendingAfter(g) == IF pending = g THEN None ELSE pending

WantedWhenNoneHeld(g) == sentinel = None

\* acceptSentinel keeps the lock of the latest request of a reader that is still there.
Wanted(g) == g = generation /\ active /\ visible /\ sentinel = None

\* The browser grants a lock. Listening to its release may throw, and then it is released.
Grant(g) ==
  /\ g \in requests
  /\ requests' = requests \ {g}
  /\ pending' = PendingAfter(g)
  /\ \/ /\ Wanted(g)
        /\ sentinel' = g /\ kept' = kept \cup {g}
        /\ UNCHANGED refused
     \/ /\ refused' = (refused \/ Wanted(g))
        /\ UNCHANGED <<sentinel, kept>>
  /\ UNCHANGED <<active, visible, generation>>

Deny(g) ==
  /\ g \in requests
  /\ requests' = requests \ {g}
  /\ pending' = PendingAfter(g)
  /\ refused' = (refused \/ pending = g)
  /\ UNCHANGED <<active, visible, generation, sentinel, kept>>

\* The browser takes the held lock back: its release listener forgets it.
TakeBack ==
  /\ sentinel # None
  /\ sentinel' = None
  /\ kept' = kept \ {sentinel}
  /\ refused' = TRUE
  /\ UNCHANGED <<active, visible, generation, pending, requests>>

Next ==
  \/ Start
  \/ Stop
  \/ Show
  \/ Hide
  \/ Activity
  \/ \E g \in requests : Grant(g) \/ Deny(g)
  \/ TakeBack

Spec == Init /\ [][Next]_vars

----------------------------------------------------------------------------

TypeOK ==
  /\ active \in BOOLEAN /\ visible \in BOOLEAN /\ refused \in BOOLEAN
  /\ generation \in Nat
  /\ pending \in requests \cup {None}
  /\ requests \subseteq 1..generation
  /\ kept \subseteq 1..generation
  /\ sentinel \in kept \cup {None}

\* Of all the locks the browser granted, late or out of order, none is left that the class
\* would not release: there is at most one, and it is the one it holds.
KeptLockIsHeld == \A g \in kept : g = sentinel

\* No lock survives the reader: hidden or left, it keeps the screen awake no longer.
NoLockWithoutReader == (~active \/ ~visible) => kept = {}

\* A reader that is there has a lock or a request that will be answered, whatever happened
\* before, unless the browser refused its last attempt or took the lock back.
LockForActiveReader == active /\ visible /\ ~refused => sentinel # None \/ pending # None

============================================================================
