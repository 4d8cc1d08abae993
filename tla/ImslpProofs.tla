----------------------------- MODULE ImslpProofs -----------------------------
(***************************************************************************)
(* IMSLP on both sides of the API: the proxy's gate, ImslpGate, for any    *)
(* number of calls and slots, any burst, cooldown and Retry-After; and the *)
(* search panel, ImslpSearch, for any queries and any number of inputs,    *)
(* requests and throttled answers.                                         *)
(*                                                                         *)
(* The four invariants of the gate are inductive once one fact is added,   *)
(* IdleHoldsNoProbe: a call that makes no attempt has not kept the probe   *)
(* of its last one.                                                        *)
(***************************************************************************)
EXTENDS ImslpGate, ImslpSearch, FiniteSetTheorems, TLAPS

IdleHoldsNoProbe == \A c \in Call : call[c].pc = "none" => ~call[c].probe

GateInv ==
  /\ TypeOK
  /\ IdleHoldsNoProbe
  /\ ProbeIsHandedBack
  /\ SlotsAccounted
  /\ SentWithinRate

----------------------------------------------------------------------------
(***************************************************************************)
(* Counting the calls at one point of their attempt.                       *)
(***************************************************************************)

\* The calls whose attempt is at pc.
At(pc) == {c \in Call : call[c].pc = pc}

LEMMA AtIsFinite == ASSUME NEW pc PROVE IsFiniteSet(At(pc)) /\ Cardinality(At(pc)) \in Nat
<1>1. At(pc) \in SUBSET Call BY DEF At
<1>2. IsFiniteSet(At(pc)) BY <1>1, GateAssumption, FS_Subset
<1>3. QED BY <1>2, FS_CardinalityType

\* A call that arrives at pc is counted once more ...
LEMMA Arrives ==
  ASSUME NEW pc, NEW c \in Call, call[c].pc # pc, call'[c].pc = pc,
         \A d \in Call \ {c} : call'[d].pc = call[d].pc
  PROVE  Cardinality(At(pc)') = Cardinality(At(pc)) + 1
<1>1. At(pc)' = At(pc) \cup {c} BY DEF At
<1>2. c \notin At(pc) BY DEF At
<1>3. QED BY ZenonT(60), <1>1, <1>2, AtIsFinite, FS_AddElement

\* ... one that goes on is counted no more, and was counted before ...
LEMMA Departs ==
  ASSUME NEW pc, NEW c \in Call, call[c].pc = pc, call'[c].pc # pc,
         \A d \in Call \ {c} : call'[d].pc = call[d].pc
  PROVE  /\ Cardinality(At(pc)') = Cardinality(At(pc)) - 1
         /\ Cardinality(At(pc)) >= 1
<1>1. At(pc)' = At(pc) \ {c} BY DEF At
<1>2. c \in At(pc) BY DEF At
<1>3. Cardinality(At(pc)') = Cardinality(At(pc)) - 1
  BY ZenonT(60), <1>1, <1>2, AtIsFinite, FS_RemoveElement
<1>4. Cardinality(At(pc)) # 0 BY <1>2, AtIsFinite, FS_EmptySet
<1>5. QED BY <1>3, <1>4, AtIsFinite

\* ... and the others do not change the count.
LEMMA Stays ==
  ASSUME NEW pc, NEW c \in Call, call[c].pc # pc, call'[c].pc # pc,
         \A d \in Call \ {c} : call'[d].pc = call[d].pc
  PROVE  At(pc)' = At(pc)
BY DEF At

LEMMA Counts == SlotsAccounted <=> slots = Cardinality(At("sent"))
BY DEF SlotsAccounted, At

LEMMA ReservedIsAt == Reserved = Cardinality(At("waiting"))
BY DEF Reserved, At

\* reserve and refund keep the bucket between its debt and its burst.
LEMMA LesserGreater ==
  ASSUME NEW a \in Int, NEW b \in Int
  PROVE  /\ Lesser(a, b) \in {a, b} /\ Lesser(a, b) <= a /\ Lesser(a, b) <= b
         /\ Greater(a, b) \in {a, b}
BY DEF Lesser, Greater

----------------------------------------------------------------------------
(***************************************************************************)
(* What a step does to the attempts, and what becomes of the probe.        *)
(***************************************************************************)

\* Call c goes on as attempt a.
GoesOn(c, a) == call' = [call EXCEPT ![c] = a]

LEMMA OneCallGoesOn ==
  ASSUME TypeOK, NEW c \in Call, NEW a \in Attempt, GoesOn(c, a)
  PROVE  /\ call' \in [Call -> Attempt]
         /\ call'[c] = a
         /\ \A d \in Call \ {c} : call'[d] = call[d]
BY DEF TypeOK, GoesOn

LEMMA NoAttemptIsAttempt ==
  /\ NoAttempt \in Attempt /\ NoAttempt.pc = "none" /\ NoAttempt.probe = FALSE
BY DEF NoAttempt, Attempt

\* An attempt that ends hands its probe back; the breaker may close only with it.
LEMMA EndedAttempt ==
  ASSUME GateInv, NEW c \in Call, GoesOn(c, NoAttempt), probing' = ProbeAbandoned(c),
         probing' => open'
  PROVE  IdleHoldsNoProbe' /\ ProbeIsHandedBack'
<1> USE NoAttemptIsAttempt, OneCallGoesOn DEF GateInv
<1>1. IdleHoldsNoProbe' BY DEF IdleHoldsNoProbe
<1>2. probing' <=> \E d \in Call : call'[d].probe BY DEF ProbeIsHandedBack, ProbeAbandoned
<1>3. \A d, e \in Call : call'[d].probe /\ call'[e].probe => d = e BY DEF ProbeIsHandedBack
<1>4. QED BY <1>1, <1>2, <1>3 DEF ProbeIsHandedBack

\* An attempt that goes on keeps the probe it has.
LEMMA OngoingAttempt ==
  ASSUME GateInv, NEW c \in Call, NEW a \in Attempt, GoesOn(c, a),
         a.probe = call[c].probe, a.pc # "none", UNCHANGED <<probing, open>>
  PROVE  IdleHoldsNoProbe' /\ ProbeIsHandedBack'
<1> USE OneCallGoesOn DEF GateInv
<1>1. IdleHoldsNoProbe' BY DEF IdleHoldsNoProbe
<1>2. \A d \in Call : call'[d].probe = call[d].probe OBVIOUS
<1>3. ProbeIsHandedBack' BY <1>2 DEF ProbeIsHandedBack
<1>4. QED BY <1>1, <1>3

----------------------------------------------------------------------------

LEMMA InitGate == Init => GateInv
<1> SUFFICES ASSUME Init PROVE GateInv OBVIOUS
<1>1. TypeOK
  <2>1. call \in [Call -> Attempt] BY NoAttemptIsAttempt DEF Init
  <2>2. open \in BOOLEAN /\ probing \in BOOLEAN BY DEF Init
  <2>3. /\ failures \in 0..BreakerFailures /\ tokens \in Int /\ tokens <= Burst
        /\ slots \in 0..Slots /\ now \in Nat /\ openUntil \in Nat /\ paused \in Nat /\ sent \in Nat
    BY GateAssumption DEF Init
  <2>4. QED BY <2>1, <2>2, <2>3 DEF TypeOK
<1>2. At("sent") = {} /\ At("waiting") = {} BY DEF Init, At, NoAttempt
<1>3. SlotsAccounted BY <1>2, FS_EmptySet, Counts DEF Init
<1>4. SentWithinRate
  BY <1>2, FS_EmptySet, ReservedIsAt, GateAssumption DEF Init, SentWithinRate
<1>5. IdleHoldsNoProbe /\ ProbeIsHandedBack
  BY DEF Init, NoAttempt, IdleHoldsNoProbe, ProbeIsHandedBack
<1>6. QED BY <1>1, <1>3, <1>4, <1>5 DEF GateInv

LEMMA AdmitGate == ASSUME GateInv, NEW c \in Call, Admit(c) PROVE GateInv'
<1> DEFINE a == [NoAttempt EXCEPT !.pc = "admitted"]
           b == [NoAttempt EXCEPT !.pc = "admitted", !.probe = TRUE]
<1>1. a \in Attempt /\ a.pc = "admitted" /\ a.probe = FALSE BY DEF Attempt, NoAttempt
<1>2. b \in Attempt /\ b.pc = "admitted" /\ b.probe = TRUE BY DEF Attempt, NoAttempt
<1>3. PICK x \in {a, b} : GoesOn(c, x) BY DEF Admit, GoesOn
<1>4. x \in Attempt /\ x.pc = "admitted" BY <1>1, <1>2
<1>5. /\ call' \in [Call -> Attempt] /\ call'[c] = x
      /\ \A d \in Call \ {c} : call'[d] = call[d]
  BY <1>3, <1>4, OneCallGoesOn DEF GateInv
<1>6. TypeOK' BY <1>5 DEF GateInv, TypeOK, Admit
<1>7. At("sent")' = At("sent") /\ At("waiting")' = At("waiting")
  BY <1>4, <1>5, Stays DEF Admit
<1>8. SlotsAccounted' BY <1>7, Counts DEF GateInv, Admit, SlotsAccounted, At
<1>9. SentWithinRate' BY <1>7 DEF GateInv, Admit, SentWithinRate, Reserved, At
<1>10. IdleHoldsNoProbe' BY <1>4, <1>5 DEF GateInv, IdleHoldsNoProbe
<1>11. ProbeIsHandedBack'
  <2>1. ~call[c].probe BY DEF GateInv, IdleHoldsNoProbe, Admit
  <2>2. CASE ~open
    <3>1. call' = [call EXCEPT ![c] = a] /\ UNCHANGED <<probing, open>> BY <2>2 DEF Admit
    <3>2. call'[c] = a BY <3>1 DEF GateInv, TypeOK
    <3>3. \A d \in Call : call'[d].probe <=> call[d].probe BY <1>1, <1>5, <2>1, <3>2
    <3>4. QED BY <3>1, <3>3 DEF GateInv, ProbeIsHandedBack
  <2>3. CASE open
    <3>1. /\ call' = [call EXCEPT ![c] = b] /\ ~probing /\ probing' = TRUE /\ open'
      BY <2>3 DEF Admit
    <3>2. call'[c].probe BY <1>2, <3>1 DEF GateInv, TypeOK
    <3>3. \A d \in Call \ {c} : ~call'[d].probe
      BY <1>5, <3>1 DEF GateInv, ProbeIsHandedBack
    <3>4. QED BY <3>1, <3>2, <3>3 DEF ProbeIsHandedBack
  <2>4. QED BY <2>2, <2>3
<1>12. QED BY <1>6, <1>8, <1>9, <1>10, <1>11 DEF GateInv

\* reserve() counts the token before the request is sent.
LEMMA ReserveGate == ASSUME GateInv, NEW c \in Call, Reserve(c) PROVE GateInv'
<1> DEFINE a == [call[c] EXCEPT !.pc = "waiting", !.ready = now + Wait,
                                !.deadline = now + MaxWait]
<1>1. Wait \in Nat BY DEF GateInv, TypeOK, Wait
<1>2. a \in Attempt /\ a.pc = "waiting" /\ a.probe = call[c].probe
  <2>1. call[c] \in Attempt BY DEF GateInv, TypeOK
  <2>2. now + Wait \in Nat /\ now + MaxWait \in Nat BY <1>1, GateAssumption DEF GateInv, TypeOK
  <2>3. QED BY <2>1, <2>2 DEF Attempt
<1>3. GoesOn(c, a) BY DEF Reserve, GoesOn
<1>4. /\ call' \in [Call -> Attempt] /\ call'[c] = a
      /\ \A d \in Call \ {c} : call'[d] = call[d]
  BY <1>2, <1>3, OneCallGoesOn DEF GateInv
<1>5. TypeOK' BY <1>4, GateAssumption DEF GateInv, TypeOK, Reserve, breaker
<1>6. At("sent")' = At("sent") BY <1>2, <1>4, Stays DEF Reserve
<1>7. SlotsAccounted' BY <1>6, Counts DEF GateInv, Reserve, SlotsAccounted, At
<1>8. Cardinality(At("waiting")') = Cardinality(At("waiting")) + 1
  BY <1>2, <1>4, Arrives DEF Reserve
<1>9. Reserved' = Reserved + 1 BY <1>8, ReservedIsAt DEF Reserved, At
<1>10. SentWithinRate'
  BY <1>9, ReservedIsAt, AtIsFinite, GateAssumption
  DEF GateInv, TypeOK, Reserve, SentWithinRate
<1>11. IdleHoldsNoProbe' /\ ProbeIsHandedBack'
  BY <1>2, <1>3, OngoingAttempt DEF Reserve, breaker
<1>12. QED BY <1>5, <1>7, <1>10, <1>11 DEF GateInv

LEMMA RefuseLongWaitGate == ASSUME GateInv, NEW c \in Call, RefuseLongWait(c) PROVE GateInv'
<1>1. GoesOn(c, NoAttempt) BY DEF RefuseLongWait, GoesOn
<1>2. /\ call' \in [Call -> Attempt] /\ call'[c] = NoAttempt
      /\ \A d \in Call \ {c} : call'[d] = call[d]
  BY <1>1, NoAttemptIsAttempt, OneCallGoesOn DEF GateInv
<1>3. TypeOK'
  BY <1>2, NoAttemptIsAttempt DEF GateInv, TypeOK, RefuseLongWait, ProbeAbandoned, Attempt
<1>4. At("sent")' = At("sent") /\ At("waiting")' = At("waiting")
  BY <1>2, NoAttemptIsAttempt, Stays DEF RefuseLongWait
<1>5. SlotsAccounted' BY <1>4 DEF GateInv, RefuseLongWait, SlotsAccounted, At
<1>6. SentWithinRate' BY <1>4 DEF GateInv, RefuseLongWait, SentWithinRate, Reserved, At
<1>7. IdleHoldsNoProbe' /\ ProbeIsHandedBack'
  BY <1>1, EndedAttempt DEF RefuseLongWait, GateInv, ProbeIsHandedBack, ProbeAbandoned
<1>8. QED BY <1>3, <1>5, <1>6, <1>7 DEF GateInv

\* The request is counted as sent and no longer as reserved.
LEMMA SendGate == ASSUME GateInv, NEW c \in Call, Send(c) PROVE GateInv'
<1> DEFINE a == [call[c] EXCEPT !.pc = "sent"]
<1>1. a \in Attempt /\ a.pc = "sent" /\ a.probe = call[c].probe
  BY DEF GateInv, TypeOK, Attempt
<1>2. GoesOn(c, a) BY DEF Send, GoesOn
<1>3. /\ call' \in [Call -> Attempt] /\ call'[c] = a
      /\ \A d \in Call \ {c} : call'[d] = call[d]
  BY <1>1, <1>2, OneCallGoesOn DEF GateInv
<1>4. TypeOK' BY <1>3, GateAssumption DEF GateInv, TypeOK, Send, breaker
<1>5. Cardinality(At("sent")') = Cardinality(At("sent")) + 1
  BY <1>1, <1>3, Arrives DEF Send
<1>6. SlotsAccounted' BY <1>5 DEF GateInv, Send, SlotsAccounted, At
<1>7. Cardinality(At("waiting")') = Cardinality(At("waiting")) - 1
  BY <1>1, <1>3, Departs DEF Send
<1>8. Reserved' = Reserved - 1 BY <1>7, ReservedIsAt DEF Reserved, At
<1>9. SentWithinRate'
  BY <1>8, ReservedIsAt, AtIsFinite, GateAssumption
  DEF GateInv, TypeOK, Send, SentWithinRate
<1>10. IdleHoldsNoProbe' /\ ProbeIsHandedBack'
  BY <1>1, <1>2, OngoingAttempt DEF Send, breaker
<1>11. QED BY <1>4, <1>6, <1>9, <1>10 DEF GateInv

\* The token handed back is one that was counted as reserved.
LEMMA TimeOutGate == ASSUME GateInv, NEW c \in Call, TimeOut(c) PROVE GateInv'
<1>1. GoesOn(c, NoAttempt) BY DEF TimeOut, GoesOn
<1>2. /\ call' \in [Call -> Attempt] /\ call'[c] = NoAttempt
      /\ \A d \in Call \ {c} : call'[d] = call[d]
  BY <1>1, NoAttemptIsAttempt, OneCallGoesOn DEF GateInv
<1>3. tokens' \in Int /\ tokens' <= Burst /\ tokens' <= tokens + 1
  BY LesserGreater, GateAssumption DEF GateInv, TypeOK, TimeOut, TokenRefunded
<1>4. TypeOK' BY <1>2, <1>3 DEF GateInv, TypeOK, TimeOut, ProbeAbandoned
<1>5. At("sent")' = At("sent") BY <1>2, NoAttemptIsAttempt, Stays DEF TimeOut
<1>6. SlotsAccounted' BY <1>5 DEF GateInv, TimeOut, SlotsAccounted, At
<1>7. Cardinality(At("waiting")') = Cardinality(At("waiting")) - 1
  BY <1>2, NoAttemptIsAttempt, Departs DEF TimeOut
<1>8. Reserved' = Reserved - 1 BY <1>7, ReservedIsAt DEF Reserved, At
<1>9. SentWithinRate'
  BY <1>3, <1>8, ReservedIsAt, AtIsFinite, GateAssumption
  DEF GateInv, TypeOK, TimeOut, SentWithinRate
<1>10. IdleHoldsNoProbe' /\ ProbeIsHandedBack'
  BY <1>1, EndedAttempt DEF TimeOut, GateInv, ProbeIsHandedBack, ProbeAbandoned
<1>11. QED BY <1>4, <1>6, <1>9, <1>10 DEF GateInv

\* What record() does to the attempt, its slot and its probe, for either answer.
LEMMA FinishGate ==
  ASSUME GateInv, NEW c \in Call, Finish(c), probing' => open'
  PROVE  /\ call' \in [Call -> Attempt] /\ probing' \in BOOLEAN /\ slots' \in 0..Slots
         /\ SlotsAccounted' /\ SentWithinRate' /\ IdleHoldsNoProbe' /\ ProbeIsHandedBack'
<1>1. GoesOn(c, NoAttempt) BY DEF Finish, GoesOn
<1>2. /\ call' \in [Call -> Attempt] /\ call'[c] = NoAttempt
      /\ \A d \in Call \ {c} : call'[d] = call[d]
  BY <1>1, NoAttemptIsAttempt, OneCallGoesOn DEF GateInv
<1>3. probing' \in BOOLEAN BY DEF Finish, ProbeAbandoned
<1>4. /\ Cardinality(At("sent")') = Cardinality(At("sent")) - 1
      /\ Cardinality(At("sent")) >= 1
  BY <1>2, NoAttemptIsAttempt, Departs DEF Finish
<1>5. slots = Cardinality(At("sent")) BY Counts DEF GateInv
<1>6. slots' \in 0..Slots BY <1>4, <1>5, GateAssumption DEF GateInv, TypeOK, Finish
<1>7. SlotsAccounted' BY <1>4, <1>5 DEF Finish, SlotsAccounted, At
<1>8. At("waiting")' = At("waiting") BY <1>2, NoAttemptIsAttempt, Stays DEF Finish
<1>9. SentWithinRate' BY <1>8 DEF GateInv, Finish, SentWithinRate, Reserved, At
<1>10. IdleHoldsNoProbe' /\ ProbeIsHandedBack' BY <1>1, EndedAttempt DEF Finish
<1>11. QED BY <1>2, <1>3, <1>6, <1>7, <1>9, <1>10

LEMMA SuccessGate == ASSUME GateInv, NEW c \in Call, Success(c) PROVE GateInv'
<1>1. Finish(c) BY DEF Success
<1>2. probing' => open'
  <2>1. CASE call[c].probe BY <1>1, <2>1 DEF Finish, ProbeAbandoned
  <2>2. CASE ~call[c].probe /\ ~open
    BY <1>1, <2>2 DEF Finish, ProbeAbandoned, GateInv, ProbeIsHandedBack
  <2>3. CASE ~call[c].probe /\ open BY <2>3 DEF Success, MayClose
  <2>4. QED BY <2>1, <2>2, <2>3
<1>3. open' \in BOOLEAN /\ failures' \in 0..BreakerFailures
  <2>1. open \in BOOLEAN /\ failures \in 0..BreakerFailures BY DEF GateInv, TypeOK
  <2>2. CASE open' = FALSE /\ failures' = 0
    <3>1. open' \in BOOLEAN BY <2>2, Zenon
    <3>2. 0 \in 0..BreakerFailures BY GateAssumption
    <3>3. QED BY <2>2, <3>1, <3>2
  <2>3. CASE UNCHANGED <<open, failures>> BY <2>1, <2>3
  <2>4. QED BY <2>2, <2>3 DEF Success
<1>4. TypeOK' BY <1>1, <1>2, <1>3, FinishGate DEF TypeOK, GateInv, Success, Finish
<1>5. QED BY <1>1, <1>2, <1>4, FinishGate DEF GateInv

LEMMA FailureGate ==
  ASSUME GateInv, NEW c \in Call, NEW retryAfter \in 0..MaxRetryAfter, Failure(c, retryAfter)
  PROVE  GateInv'
<1>1. Finish(c) BY DEF Failure
<1>2. probing' => open'
  BY <1>1 DEF Failure, Finish, ProbeAbandoned, Opens, GateInv, ProbeIsHandedBack
<1>3. open' \in BOOLEAN BY DEF Failure, GateInv, TypeOK
<1>4. failures' \in 0..BreakerFailures
  BY GateAssumption DEF Failure, GateInv, TypeOK, Lesser
<1>5. openUntil' \in Nat /\ paused' \in Nat
  BY GateAssumption, LesserGreater DEF Failure, GateInv, TypeOK, Greater
<1>6. TypeOK' BY <1>1, <1>2, <1>3, <1>4, <1>5, FinishGate DEF TypeOK, GateInv, Failure, Finish
<1>7. QED BY <1>1, <1>2, <1>6, FinishGate DEF GateInv

LEMMA TickGate == ASSUME GateInv, Tick PROVE GateInv'
<1>1. tokens' \in Int /\ tokens' <= Burst /\ tokens' <= tokens + 1
  BY LesserGreater, GateAssumption DEF GateInv, TypeOK, Tick
<1>2. TypeOK' BY <1>1 DEF GateInv, TypeOK, Tick, breaker
<1>3. Reserved' = Reserved /\ Reserved \in Nat BY ReservedIsAt, AtIsFinite DEF Tick, Reserved
<1>4. SentWithinRate'
  BY <1>1, <1>3, GateAssumption DEF GateInv, TypeOK, Tick, SentWithinRate
<1>5. SlotsAccounted' BY DEF GateInv, Tick, SlotsAccounted
<1>6. IdleHoldsNoProbe' /\ ProbeIsHandedBack'
  BY DEF GateInv, Tick, breaker, IdleHoldsNoProbe, ProbeIsHandedBack
<1>7. QED BY <1>2, <1>4, <1>5, <1>6 DEF GateInv

----------------------------------------------------------------------------

\* The strengthened invariant holds however the calls' attempts interleave.
THEOREM GateInvariant == Spec => []GateInv
<1>1. GateInv /\ [Next]_vars => GateInv'
  <2> SUFFICES ASSUME GateInv, [Next]_vars PROVE GateInv' OBVIOUS
  <2>1. ASSUME NEW c \in Call, Admit(c) PROVE GateInv' BY <2>1, AdmitGate
  <2>2. ASSUME NEW c \in Call, Reserve(c) PROVE GateInv' BY <2>2, ReserveGate
  <2>3. ASSUME NEW c \in Call, RefuseLongWait(c) PROVE GateInv' BY <2>3, RefuseLongWaitGate
  <2>4. ASSUME NEW c \in Call, Send(c) PROVE GateInv' BY <2>4, SendGate
  <2>5. ASSUME NEW c \in Call, TimeOut(c) PROVE GateInv' BY <2>5, TimeOutGate
  <2>6. ASSUME NEW c \in Call, Success(c) PROVE GateInv' BY <2>6, SuccessGate
  <2>7. ASSUME NEW c \in Call, NEW retryAfter \in 0..MaxRetryAfter, Failure(c, retryAfter)
        PROVE  GateInv'
    BY <2>7, FailureGate
  <2>8. CASE Tick BY <2>8, TickGate
  <2>9. CASE UNCHANGED vars
    BY <2>9 DEF vars, GateInv, TypeOK, IdleHoldsNoProbe, ProbeIsHandedBack, SlotsAccounted,
                SentWithinRate, Reserved
  <2>10. QED BY <2>1, <2>2, <2>3, <2>4, <2>5, <2>6, <2>7, <2>8, <2>9 DEF Next
<1>2. QED BY <1>1, InitGate, PTL DEF Spec

\* Types; the bucket never holds more than its burst, the slots are never overdrawn.
THEOREM GateTypeCorrect == Spec => []TypeOK
<1>1. GateInv => TypeOK BY DEF GateInv
<1>2. QED BY <1>1, GateInvariant, PTL

\* Every path of an attempt (refused by the bucket, timed out, answered) returns the probe
\* it was given, so admit() never waits for a probe that nobody makes.
THEOREM ProbeNeverLost == Spec => []ProbeIsHandedBack
<1>1. GateInv => ProbeIsHandedBack BY DEF GateInv
<1>2. QED BY <1>1, GateInvariant, PTL

\* acquireOutbound's slots are released once per request, whatever its answer.
THEOREM SlotsNeverLeak == Spec => []SlotsAccounted
<1>1. GateInv => SlotsAccounted BY DEF GateInv
<1>2. QED BY <1>1, GateInvariant, PTL

\* However reservations, refunds and refills interleave, IMSLP gets no more requests than
\* the burst and the rate allow, and the bucket never has more than a burst for it.
THEOREM OutboundRateNeverExceeded == Spec => []OutboundRateKept
<1>1. GateInv => OutboundRateKept BY DEF GateInv, TypeOK, OutboundRateKept
<1>2. QED BY <1>1, GateInvariant, PTL

----------------------------------------------------------------------------
(***************************************************************************)
(* The search panel.  AnswersInv says what makes late answers harmless: a  *)
(* current request is the only one and asks for the query last sent, which *)
(* is the query in the field; QuietInv accounts for each quiet retry.      *)
(***************************************************************************)

\* The query last sent is the one in the field, or there is none.
SentIsQuery == lastSent # None => lastSent = query

\* One request at most is current: that for the query last sent.
CurrentIsSent ==
  \A r \in requests : r.current => /\ r.query = lastSent
                                   /\ \A s \in requests : s.current => s = r

\* Results of another query are faded, or an answer is awaited, or the panel was left.
Foreign == results # None /\ results # query

ForeignAreHeld == Foreign => left \/ stale \/ status \in {"searching", "throttled"}

\* While a search is out they are held back even for a panel that was left.
SearchHoldsForeign == Foreign /\ lastSent # None => stale \/ status = "searching"

\* A retry waits only after an unavailable search, which left no results.
RetryHasNoResults ==
  timer.kind = "retry" => results = None /\ \A r \in requests : ~r.current

AnswersInv ==
  /\ SentIsQuery
  /\ CurrentIsSent
  /\ ForeignAreHeld
  /\ SearchHoldsForeign
  /\ RetryHasNoResults

----------------------------------------------------------------------------
(***************************************************************************)
(* The types, of the search and of the draft.                              *)
(***************************************************************************)

Request == [query : Queries, retry : BOOLEAN, current : BOOLEAN]
Timer == [kind : {"none", "debounce", "throttled", "retry"}, query : Queries \cup {None}]
Statuses == {"idle", "searching", "throttled", "ready", "unavailable"}

LEMMA SupersededRequests ==
  ASSUME SearchTypeOK
  PROVE  Superseded \subseteq Request /\ \A r \in Superseded : ~r.current
<1>1. ASSUME NEW r \in requests
      PROVE  /\ [r EXCEPT !.current = FALSE] \in Request
             /\ ~[r EXCEPT !.current = FALSE].current
  BY <1>1 DEF SearchTypeOK, Request
<1>2. QED BY <1>1 DEF Superseded

LEMMA NoTimerIsTimer == NoTimer \in Timer /\ NoTimer.kind = "none"
BY DEF NoTimer, Timer

\* What the search changes, typed.
SearchTypes ==
  /\ results \in Queries \cup {None} /\ lastSent \in Queries \cup {None}
  /\ status \in Statuses /\ timer \in Timer /\ requests \subseteq Request
  /\ stale \in BOOLEAN

LEMMA ResetTypes == ASSUME SearchTypeOK, Reset PROVE SearchTypes'
BY SupersededRequests, NoTimerIsTimer DEF Reset, SearchTypes, Statuses

LEMMA CancelTypes == ASSUME SearchTypeOK, Cancel PROVE SearchTypes'
BY SupersededRequests, NoTimerIsTimer DEF Cancel, SearchTypes, Statuses, SearchTypeOK

LEMMA FindTypes ==
  ASSUME SearchTypeOK, NEW immediate \in BOOLEAN, NEW retry \in BOOLEAN, Find(immediate, retry)
  PROVE  SearchTypes'
<1>1. CASE query = Short /\ Reset BY <1>1, ResetTypes
<1>2. CASE query # Short /\ UNCHANGED <<results, status, stale, lastSent, requests>> /\ timer' = NoTimer
  BY <1>2, NoTimerIsTimer DEF SearchTypeOK, SearchTypes, Statuses, Request
<1>3. CASE /\ query # Short /\ timer' = NoTimer /\ lastSent' = query /\ status' = "ready"
           /\ results' = query /\ stale' = FALSE /\ requests' = Superseded
  BY <1>3, SupersededRequests, NoTimerIsTimer DEF SearchTypeOK, SearchTypes, Statuses
<1>4. CASE /\ query # Short /\ timer' = NoTimer /\ lastSent' = query
           /\ status' \in {status, "searching"}
           /\ requests' = Superseded \cup {[query |-> query, retry |-> retry, current |-> TRUE]}
           /\ UNCHANGED <<results, stale>>
  <2>1. [query |-> query, retry |-> retry, current |-> TRUE] \in Request
    BY <1>4 DEF SearchTypeOK, Request
  <2>2. QED
    BY <1>4, <2>1, SupersededRequests, NoTimerIsTimer DEF SearchTypeOK, SearchTypes, Statuses
<1>5. QED BY <1>1, <1>2, <1>3, <1>4 DEF Find

\* What the user's work on the draft changes, typed.
DraftTypes ==
  /\ link \in Works \cup {None} /\ sourceUrl \in Works \cup {None}
  /\ title \in Works \cup {Typed, None} /\ filled \in Works \cup {None}
  /\ edited \in BOOLEAN /\ urlEdited \in BOOLEAN

BudgetTypes ==
  /\ quiet \in Nat /\ throttled \in Nat /\ inputs \in 0..MaxInputs /\ throttles \in 0..MaxThrottled

PanelTypes ==
  /\ query \in Queries \cup {Short} /\ cache \subseteq Queries
  /\ stray \in BOOLEAN /\ panelOpen \in BOOLEAN /\ left \in BOOLEAN

LEMMA TypeParts ==
  /\ SearchTypeOK <=> PanelTypes /\ SearchTypes /\ DraftTypes /\ BudgetTypes
  /\ SearchTypeOK' <=> PanelTypes' /\ SearchTypes' /\ DraftTypes' /\ BudgetTypes'
BY DEF PanelTypes, SearchTypeOK, SearchTypes, DraftTypes, BudgetTypes, Statuses, Timer, Request

LEMMA InputTypes == ASSUME SearchTypeOK, Input PROVE BudgetTypes'
BY SearchAssumption DEF SearchTypeOK, Input, BudgetTypes

LEMMA PrefillTypes ==
  ASSUME SearchTypeOK, NEW work \in Works, Prefill(work)
  PROVE  title' \in Works \cup {Typed, None} /\ filled' \in Works \cup {None}
BY DEF SearchTypeOK, Prefill

LEMMA TypeStep == SearchTypeOK /\ [SearchNext]_searchVars => SearchTypeOK'
<1> SUFFICES ASSUME SearchTypeOK, [SearchNext]_searchVars PROVE SearchTypeOK' OBVIOUS
<1> USE TypeParts
<1>1. ASSUME NEW q \in Queries \cup {Short}, Type(q) PROVE SearchTypeOK'
  <2>1. SearchTypes'
    <3>1. CASE q = Short BY <1>1, <3>1, ResetTypes DEF Type
    <3>2. CASE q # Short
      <4>1. [kind |-> "debounce", query |-> None] \in Timer BY DEF Timer
      <4>2. QED BY <1>1, <3>2, <4>1, SupersededRequests DEF Type, SearchTypes
    <3>3. QED BY <3>1, <3>2
  <2>2. BudgetTypes' BY <1>1, InputTypes DEF Type
  <2>3. left' \in BOOLEAN /\ stray' \in BOOLEAN /\ panelOpen' \in BOOLEAN
    BY <1>1, Zenon DEF Type, PanelTypes
  <2>4. DraftTypes' BY <1>1 DEF Type, draft, DraftTypes
  <2>5. QED BY <1>1, <2>1, <2>2, <2>3, <2>4 DEF Type, PanelTypes
<1>2. CASE Enter
  <2>1. SearchTypes' BY <1>2, FindTypes DEF Enter
  <2>2. BudgetTypes' BY <1>2, InputTypes DEF Enter
  <2>3. left' \in BOOLEAN /\ stray' \in BOOLEAN /\ panelOpen' \in BOOLEAN
    BY <1>2, Zenon DEF Enter, PanelTypes
  <2>4. DraftTypes' BY <1>2 DEF Enter, draft, DraftTypes
  <2>5. QED BY <1>2, <2>1, <2>2, <2>3, <2>4 DEF Enter, PanelTypes
<1>3. CASE Leave
  <2>1. SearchTypes' BY <1>3, CancelTypes DEF Leave
  <2>2. BudgetTypes' BY <1>3, InputTypes DEF Leave
  <2>3. left' \in BOOLEAN /\ stray' \in BOOLEAN /\ panelOpen' \in BOOLEAN
    BY <1>3, Zenon DEF Leave, PanelTypes
  <2>4. DraftTypes' BY <1>3 DEF Leave, draft, DraftTypes
  <2>5. QED BY <1>3, <2>1, <2>2, <2>3, <2>4 DEF Leave, PanelTypes
<1>4. CASE Return
  <2>1. SearchTypes' /\ DraftTypes' BY <1>4 DEF Return, draft, SearchTypes, DraftTypes
  <2>2. BudgetTypes' BY <1>4, InputTypes DEF Return
  <2>3. left' \in BOOLEAN /\ stray' \in BOOLEAN /\ panelOpen' \in BOOLEAN
    BY <1>4, Zenon DEF Return, PanelTypes
  <2>4. QED BY <1>4, <2>1, <2>2, <2>3 DEF Return, PanelTypes
<1>4a. CASE ReloadDraft
  <2>1. panelOpen' \in BOOLEAN /\ SearchTypes' BY <1>4a DEF ReloadDraft, SearchTypes
  <2>2. DraftTypes' BY <1>4a DEF ReloadDraft, DraftTypes
  <2>3. BudgetTypes' BY <1>4a, InputTypes DEF ReloadDraft
  <2>4. QED BY <1>4a, <2>1, <2>2, <2>3 DEF ReloadDraft, PanelTypes
<1>5. CASE SelectWork
  <2>1. results \in Works
    BY <1>5 DEF SelectWork, Selectable, Works, SearchTypes
  <2>2. DraftTypes'
    <3>1. urlEdited' \in BOOLEAN BY <1>5, Zenon DEF SelectWork
    <3>2. QED BY <1>5, <2>1, <3>1, PrefillTypes DEF SelectWork, DraftTypes
  <2>3. BudgetTypes' BY <1>5, InputTypes DEF SelectWork
  <2>4. QED BY <1>5, <2>2, <2>3 DEF SelectWork, PanelTypes, search, SearchTypes
<1>6. ASSUME NEW w \in Works, PasteLink(w) PROVE SearchTypeOK'
  BY <1>6, InputTypes DEF PasteLink, PanelTypes, search, SearchTypes, DraftTypes
<1>7. ASSUME NEW w \in Works, EditUrl(w) PROVE SearchTypeOK'
  <2>1. urlEdited' \in BOOLEAN BY <1>7, Zenon DEF EditUrl
  <2>2. QED
    BY <1>7, <2>1, InputTypes DEF EditUrl, PanelTypes, search, SearchTypes, DraftTypes
<1>8. CASE ApplyLink
  <2>1. link \in Works BY <1>8 DEF ApplyLink, DraftTypes
  <2>2. urlEdited' \in BOOLEAN
    <3>1. urlEdited' = FALSE \/ urlEdited' = urlEdited BY <1>8 DEF ApplyLink
    <3>2. QED BY <3>1, Zenon DEF DraftTypes
  <2>3. title' \in Works \cup {Typed, None} /\ filled' \in Works \cup {None}
    BY <1>8, <2>1, PrefillTypes DEF ApplyLink, DraftTypes
  <2>4. DraftTypes' BY <1>8, <2>1, <2>2, <2>3 DEF ApplyLink, DraftTypes
  <2>5. QED BY <1>8, <2>4, InputTypes DEF ApplyLink, PanelTypes, search, SearchTypes
<1>9. ASSUME NEW t \in {Typed, None}, EditTitle(t) PROVE SearchTypeOK'
  <2>1. edited' \in BOOLEAN BY <1>9, Zenon DEF EditTitle
  <2>2. QED
    BY <1>9, <2>1, InputTypes DEF EditTitle, PanelTypes, search, SearchTypes, DraftTypes
<1>10. CASE Debounce
  <2>1. SearchTypes' BY <1>10, FindTypes DEF Debounce
  <2>2. QED
    BY <1>10, <2>1 DEF Debounce, PanelTypes, Elapses, draft, DraftTypes,
                       BudgetTypes
<1>11. CASE StrayDebounce
  <2>1. SearchTypes' BY <1>11, FindTypes DEF StrayDebounce
  <2>2. stray' \in BOOLEAN BY <1>11, Zenon DEF StrayDebounce, PanelTypes
  <2>3. QED
    BY <1>11, <2>1, <2>2 DEF StrayDebounce, PanelTypes, Elapses, draft,
                             DraftTypes, BudgetTypes
<1>12. CASE ThrottleEnds
  <2>1. SearchTypes' BY <1>12, FindTypes DEF ThrottleEnds
  <2>2. QED
    BY <1>12, <2>1 DEF ThrottleEnds, PanelTypes, Elapses, draft, DraftTypes,
                       BudgetTypes
<1>13. CASE RetryTimer
  <2>1. SearchTypes'
    <3>1. CASE query = timer.query /\ panelOpen BY <1>13, <3>1, FindTypes DEF RetryTimer
    <3>2. CASE ~(query = timer.query /\ panelOpen)
      BY <1>13, <3>2, NoTimerIsTimer DEF RetryTimer, SearchTypes
    <3>3. QED BY <3>1, <3>2
  <2>2. BudgetTypes'
    <3>1. CASE quiet' = quiet + 1 /\ UNCHANGED <<throttled, inputs, throttles>>
      BY <3>1 DEF BudgetTypes
    <3>2. CASE Elapses BY <3>2 DEF Elapses, BudgetTypes
    <3>3. QED BY <1>13, <3>1, <3>2 DEF RetryTimer
  <2>3. QED BY <1>13, <2>1, <2>2 DEF RetryTimer, PanelTypes, draft, DraftTypes
<1>14. ASSUME NEW r \in requests, Ignored(r) PROVE SearchTypeOK'
  BY <1>14 DEF Ignored, PanelTypes, Elapses, draft, SearchTypes, DraftTypes,
               BudgetTypes
<1>15. ASSUME NEW r \in requests, Ready(r) PROVE SearchTypeOK'
  <2>1. r.query \in Queries BY DEF SearchTypes, Request
  <2>2. stale' \in BOOLEAN BY <1>15, Zenon DEF Ready
  <2>3. SearchTypes' BY <1>15, <2>1, <2>2 DEF Ready, SearchTypes, Statuses
  <2>4. QED
    BY <1>15, <2>1, <2>3 DEF Ready, PanelTypes, Elapses, draft, DraftTypes,
                             BudgetTypes
<1>16. ASSUME NEW r \in requests, Throttled(r) PROVE SearchTypeOK'
  <2>1. stray' \in BOOLEAN BY <1>16 DEF Throttled, PanelTypes, Overtaken
  <2>2. [kind |-> "throttled", query |-> None] \in Timer BY DEF Timer
  <2>3. SearchTypes' BY <1>16, <2>2 DEF Throttled, SearchTypes, Statuses
  <2>4. BudgetTypes' BY <1>16, SearchAssumption DEF Throttled, BudgetTypes
  <2>5. QED BY <1>16, <2>1, <2>3, <2>4 DEF Throttled, PanelTypes, draft, DraftTypes
<1>17. ASSUME NEW r \in requests, Unavailable(r) PROVE SearchTypeOK'
  <2>1. r.query \in Queries BY DEF SearchTypes, Request
  <2>2. [kind |-> "retry", query |-> r.query] \in Timer BY <2>1 DEF Timer
  <2>3. stray' \in BOOLEAN BY <1>17 DEF Unavailable, PanelTypes, Overtaken
  <2>4. stale' \in BOOLEAN BY <1>17, Zenon DEF Unavailable
  <2>5. timer' \in Timer BY <1>17, <2>2 DEF Unavailable, SearchTypes
  <2>6. SearchTypes' BY <1>17, <2>4, <2>5 DEF Unavailable, SearchTypes, Statuses
  <2>7. QED
    BY <1>17, <2>3, <2>6 DEF Unavailable, PanelTypes, Elapses, draft, DraftTypes,
                             BudgetTypes
<1>18. CASE UNCHANGED searchVars
  BY <1>18 DEF searchVars, PanelTypes, search, draft, SearchTypes, DraftTypes,
               BudgetTypes
<1>19. QED
  BY <1>1, <1>2, <1>3, <1>4, <1>5, <1>6, <1>7, <1>8, <1>9, <1>10, <1>11, <1>12, <1>13, <1>14,
     <1>15, <1>16, <1>17, <1>18, <1>4a DEF SearchNext, User, Timers, Answered

LEMMA InitTypes == SearchInit => SearchTypeOK
<1> SUFFICES ASSUME SearchInit PROVE SearchTypeOK OBVIOUS
<1>1. PanelTypes
  <2>1. panelOpen \in BOOLEAN /\ stray \in BOOLEAN /\ left \in BOOLEAN BY Zenon DEF SearchInit
  <2>2. QED BY <2>1 DEF SearchInit, PanelTypes
<1>2. SearchTypes
  <2>1. stale \in BOOLEAN BY Zenon DEF SearchInit
  <2>2. QED BY <2>1, NoTimerIsTimer DEF SearchInit, SearchTypes, Statuses
<1>3. DraftTypes
  <2>1. edited \in BOOLEAN /\ urlEdited \in BOOLEAN BY Zenon DEF SearchInit
  <2>2. QED BY <2>1 DEF SearchInit, DraftTypes
<1>4. BudgetTypes BY SearchAssumption DEF SearchInit, BudgetTypes
<1>5. QED BY <1>1, <1>2, <1>3, <1>4, TypeParts

\* The panel's and the draft's values have their types throughout.
THEOREM SearchTypeCorrect == SearchSpec => []SearchTypeOK
BY InitTypes, TypeStep, PTL DEF SearchSpec

----------------------------------------------------------------------------
(***************************************************************************)
(* Late answers.                                                           *)
(***************************************************************************)

LEMMA SupersededAnswers ==
  ASSUME SearchTypeOK, requests' = Superseded
  PROVE  CurrentIsSent' /\ \A r \in requests' : ~r.current
BY SupersededRequests DEF CurrentIsSent

\* find() keeps the invariant for the query in the field: a search replaces every request,
\* and the results on screen are marked as searched for again.
LEMMA FindAnswers ==
  ASSUME SearchTypeOK, AnswersInv, NEW immediate \in BOOLEAN, NEW retry \in BOOLEAN,
         Find(immediate, retry), query' = query, retry => results = None,
         immediate \/ left' = left
  PROVE  AnswersInv'
<1> USE DEF AnswersInv
<1>0. timer'.kind # "retry" BY NoTimerIsTimer DEF Find, Reset
<1>1. CASE query = Short /\ Reset
  BY <1>0, <1>1, SupersededAnswers
  DEF Reset, SentIsQuery, ForeignAreHeld, SearchHoldsForeign, RetryHasNoResults, Foreign
<1>2. CASE ~immediate /\ UNCHANGED <<results, status, stale, lastSent, requests>>
  BY <1>0, <1>2
  DEF SentIsQuery, CurrentIsSent, ForeignAreHeld, SearchHoldsForeign, RetryHasNoResults, Foreign
<1>3. CASE lastSent' = query /\ results' = query /\ requests' = Superseded
  BY <1>0, <1>3, SupersededAnswers
  DEF SentIsQuery, ForeignAreHeld, SearchHoldsForeign, RetryHasNoResults, Foreign
<1>4. CASE /\ lastSent' = query /\ UNCHANGED <<results, stale>>
           /\ status' = IF retry THEN status ELSE "searching"
           /\ requests' = Superseded \cup {[query |-> query, retry |-> retry, current |-> TRUE]}
  <2>1. CurrentIsSent'
    <3> DEFINE new == [query |-> query, retry |-> retry, current |-> TRUE]
    <3>1. \A s \in requests' : s.current => s = new BY <1>4, SupersededRequests
    <3>2. new.query = lastSent' BY <1>4
    <3> HIDE DEF new
    <3>3. QED BY <3>1, <3>2 DEF CurrentIsSent
  <2>2. CASE retry
    BY <1>0, <1>4, <2>1, <2>2
    DEF SentIsQuery, ForeignAreHeld, SearchHoldsForeign, RetryHasNoResults, Foreign
  <2>3. CASE ~retry
    BY <1>0, <1>4, <2>1, <2>3
    DEF SentIsQuery, ForeignAreHeld, SearchHoldsForeign, RetryHasNoResults, Foreign
  <2>4. QED BY <2>2, <2>3
<1>5. QED BY <1>1, <1>2, <1>3, <1>4 DEF Find

\* A keystroke that leaves the query as it was keeps the search that is out, whose results
\* are held back already; another query makes those on screen stale.
LEMMA TypeAnswers ==
  ASSUME SearchTypeOK, AnswersInv, NEW q \in Queries \cup {Short}, Type(q)
  PROVE  AnswersInv'
<1> USE DEF AnswersInv
<1>1. CASE q = Short
  <2>1. Reset /\ query' = q BY <1>1 DEF Type
  <2>2. timer'.kind # "retry" BY <2>1, NoTimerIsTimer DEF Reset
  <2>3. QED
    BY <2>1, <2>2, SupersededAnswers
    DEF Reset, SentIsQuery, ForeignAreHeld, SearchHoldsForeign, RetryHasNoResults, Foreign
<1>2. CASE q # Short /\ q # lastSent
  <2>1. /\ requests' = Superseded /\ lastSent' = None /\ stale' = TRUE /\ query' = q
        /\ timer'.kind = "debounce"
    BY <1>2 DEF Type, NotAnswered
  <2>2. QED
    BY <2>1, SupersededAnswers
    DEF SentIsQuery, ForeignAreHeld, SearchHoldsForeign, RetryHasNoResults, Foreign
<1>3. CASE q # Short /\ q = lastSent
  <2>1. /\ UNCHANGED <<requests, lastSent, stale, results, status>> /\ query' = q
        /\ timer'.kind = "debounce"
    BY <1>3 DEF Type, NotAnswered
  <2>2. lastSent # None BY <1>3, SearchAssumption
  <2>3. query' = query BY <1>3, <2>1, <2>2 DEF SentIsQuery
  <2>4. QED
    BY <2>1, <2>2, <2>3
    DEF SentIsQuery, CurrentIsSent, ForeignAreHeld, SearchHoldsForeign, RetryHasNoResults, Foreign
<1>4. QED BY <1>1, <1>2, <1>3

LEMMA LeaveAnswers == ASSUME SearchTypeOK, AnswersInv, Leave PROVE AnswersInv'
<1>1. /\ timer' = NoTimer /\ requests' = Superseded /\ lastSent' = None
      /\ UNCHANGED <<results, query>> /\ (Foreign => left')
  BY DEF Leave, Cancel, Foreign
<1>2. timer'.kind # "retry" BY <1>1, NoTimerIsTimer
<1>3. QED
  BY <1>1, <1>2, SupersededAnswers
  DEF AnswersInv, SentIsQuery, ForeignAreHeld, SearchHoldsForeign, RetryHasNoResults, Foreign

\* The answer taken is that of the query in the field.
LEMMA TakenAnswer ==
  ASSUME SearchTypeOK, AnswersInv, NEW r \in requests, Taken(r), requests' = requests \ {r}
  PROVE  /\ r.query = query
         /\ timer.kind # "retry"
         /\ \A s \in requests' : ~s.current
<1>1. r.query \in Queries BY DEF SearchTypeOK
<1>2. r.query # None BY <1>1, SearchAssumption
<1>3. QED BY <1>2 DEF Taken, AnswersInv, CurrentIsSent, SentIsQuery, RetryHasNoResults

LEMMA AnsweredAnswers ==
  ASSUME SearchTypeOK, AnswersInv, NEW r \in requests,
         Ignored(r) \/ Ready(r) \/ Throttled(r) \/ Unavailable(r)
  PROVE  AnswersInv'
<1> USE DEF AnswersInv
<1>1. CASE Ignored(r)
  BY <1>1
  DEF Ignored, SentIsQuery, CurrentIsSent, ForeignAreHeld, SearchHoldsForeign,
      RetryHasNoResults, Foreign
<1>2. CASE Ready(r)
  <2>1. /\ results' = query' /\ timer' = timer /\ timer.kind # "retry"
        /\ UNCHANGED <<query, lastSent>> /\ \A s \in requests' : ~s.current
    BY <1>2, TakenAnswer DEF Ready
  <2>2. QED
    BY <2>1 DEF SentIsQuery, CurrentIsSent, ForeignAreHeld, SearchHoldsForeign,
                RetryHasNoResults, Foreign
<1>3. CASE Throttled(r)
  <2>1. /\ lastSent' = None /\ status' = "throttled" /\ timer'.kind = "throttled"
        /\ \A s \in requests' : ~s.current
    BY <1>3, TakenAnswer DEF Throttled
  <2>2. QED
    BY <2>1 DEF SentIsQuery, CurrentIsSent, ForeignAreHeld, SearchHoldsForeign, RetryHasNoResults
<1>4. CASE Unavailable(r)
  <2>1. lastSent' = None /\ results' = None /\ \A s \in requests' : ~s.current
    BY <1>4, TakenAnswer DEF Unavailable
  <2>2. QED
    BY <2>1 DEF SentIsQuery, CurrentIsSent, ForeignAreHeld, SearchHoldsForeign,
                RetryHasNoResults, Foreign
<1>5. QED BY <1>1, <1>2, <1>3, <1>4

LEMMA SameSearch ==
  ASSUME AnswersInv, UNCHANGED <<query, results, status, stale, lastSent, timer, requests, left>>
  PROVE  AnswersInv'
BY DEF AnswersInv, SentIsQuery, CurrentIsSent, ForeignAreHeld, SearchHoldsForeign,
       RetryHasNoResults, Foreign

LEMMA TimersAnswers == ASSUME SearchTypeOK, AnswersInv, Timers PROVE AnswersInv'
<1>1. CASE Debounce BY <1>1, FindAnswers DEF Debounce
<1>2. CASE StrayDebounce BY <1>2, FindAnswers DEF StrayDebounce
<1>3. CASE ThrottleEnds BY <1>3, FindAnswers DEF ThrottleEnds
<1>4. CASE RetryTimer
  <2>1. CASE query = timer.query /\ panelOpen
    <3>1. results = None BY <1>4 DEF RetryTimer, AnswersInv, RetryHasNoResults
    <3>2. QED BY <1>4, <2>1, <3>1, FindAnswers DEF RetryTimer
  <2>2. CASE ~(query = timer.query /\ panelOpen)
    <3>1. /\ timer'.kind # "retry"
          /\ UNCHANGED <<query, results, status, stale, lastSent, requests, left>>
      BY <1>4, <2>2, NoTimerIsTimer DEF RetryTimer
    <3>2. QED
      BY <3>1 DEF AnswersInv, SentIsQuery, CurrentIsSent, ForeignAreHeld, SearchHoldsForeign,
                  RetryHasNoResults, Foreign
  <2>3. QED BY <2>1, <2>2
<1>5. QED BY <1>1, <1>2, <1>3, <1>4 DEF Timers

LEMMA AnswersStep == SearchTypeOK /\ AnswersInv /\ [SearchNext]_searchVars => AnswersInv'
<1> SUFFICES ASSUME SearchTypeOK, AnswersInv, [SearchNext]_searchVars PROVE AnswersInv' OBVIOUS
<1>1. ASSUME NEW q \in Queries \cup {Short}, Type(q) PROVE AnswersInv' BY <1>1, TypeAnswers
<1>2. CASE Enter BY <1>2, FindAnswers DEF Enter
<1>3. CASE Leave BY <1>3, LeaveAnswers
<1>4. CASE Return \/ ReloadDraft BY <1>4, SameSearch DEF Return, ReloadDraft
<1>5. CASE \/ SelectWork \/ ApplyLink \/ \E w \in Works : PasteLink(w) \/ EditUrl(w)
           \/ \E t \in {Typed, None} : EditTitle(t)
  <2>1. UNCHANGED search
    BY <1>5 DEF SelectWork, ApplyLink, PasteLink, EditUrl, EditTitle
  <2>2. QED BY <2>1, SameSearch DEF search
<1>6. CASE Timers BY <1>6, TimersAnswers
<1>7. ASSUME NEW r \in requests, Answered(r) \/ Throttled(r) PROVE AnswersInv'
  BY <1>7, AnsweredAnswers DEF Answered
<1>8. CASE UNCHANGED searchVars BY <1>8, SameSearch DEF searchVars, search
<1>9. QED BY <1>1, <1>2, <1>3, <1>4, <1>5, <1>6, <1>7, <1>8 DEF SearchNext, User

LEMMA InitAnswers == SearchInit => AnswersInv
BY DEF SearchInit, NoTimer, AnswersInv, SentIsQuery, CurrentIsSent, ForeignAreHeld,
       SearchHoldsForeign, RetryHasNoResults, Foreign

\* What can be opened answers the query in the field, however requests, throttles, retries
\* and keystrokes interleave; apart from a panel left with results it was to replace.
THEOREM LateAnswersHarmless == SearchSpec => []ResultsAnswerQuery
<1>1. AnswersInv => ResultsAnswerQuery
  BY DEF AnswersInv, ForeignAreHeld, Foreign, ResultsAnswerQuery, Selectable
<1>2. QED BY <1>1, InitAnswers, AnswersStep, SearchTypeCorrect, PTL DEF SearchSpec

----------------------------------------------------------------------------
(***************************************************************************)
(* Quiet retries.  Whatever may lead to another one - a timer, a debounce, *)
(* a search that is not itself a retry - starts when there are no more of  *)
(* them than throttled answers.                                            *)
(***************************************************************************)

QuietInv ==
  /\ OneQuietRetry
  /\ stray \/ timer.kind # "none" => quiet <= throttled
  /\ \A r \in requests : r.current /\ ~r.retry => quiet <= throttled

LEMMA InputQuiet == ASSUME SearchTypeOK, Input PROVE QuietInv'
BY DEF SearchTypeOK, Input, QuietInv, OneQuietRetry

\* find() at the end of a timer sends no retry of its own unless it is told to.
LEMMA FindQuiet ==
  ASSUME SearchTypeOK, QuietInv, NEW immediate \in BOOLEAN, NEW retry \in BOOLEAN,
         Find(immediate, retry), throttled' = throttled, quiet <= throttled,
         quiet' = IF retry THEN quiet + 1 ELSE quiet,
         retry => immediate /\ ~stray,
         stray' => stray
  PROVE  QuietInv'
<1>1. quiet' <= 1 + throttled' BY DEF SearchTypeOK
<1>2. timer'.kind = "none" BY NoTimerIsTimer DEF Find, Reset
<1>3. stray' => quiet' <= throttled' OBVIOUS
<1>4. \A r \in requests' : r.current /\ ~r.retry => quiet' <= throttled'
  <2>1. CASE ~retry BY <2>1
  <2>2. CASE retry
    <3>1. \/ requests' = Superseded
          \/ requests' = Superseded \cup {[query |-> query, retry |-> retry, current |-> TRUE]}
      BY <2>2 DEF Find, Reset
    <3>2. QED BY <2>2, <3>1, SupersededRequests
  <2>3. QED BY <2>1, <2>2
<1>5. QED BY <1>1, <1>2, <1>3, <1>4 DEF QuietInv, OneQuietRetry

LEMMA TimersQuiet == ASSUME SearchTypeOK, QuietInv, Timers PROVE QuietInv'
<1>1. CASE Debounce BY <1>1, FindQuiet DEF Debounce, Elapses, QuietInv
<1>2. CASE StrayDebounce BY <1>2, FindQuiet DEF StrayDebounce, Elapses, QuietInv
<1>3. CASE ThrottleEnds BY <1>3, FindQuiet DEF ThrottleEnds, Elapses, QuietInv
<1>4. CASE RetryTimer /\ query = timer.query /\ panelOpen
  BY <1>4, FindQuiet DEF RetryTimer, QuietInv
<1>5. CASE RetryTimer /\ ~(query = timer.query /\ panelOpen)
  BY <1>5, NoTimerIsTimer DEF RetryTimer, Elapses, QuietInv, OneQuietRetry
<1>6. QED BY <1>1, <1>2, <1>3, <1>4, <1>5 DEF Timers

\* A throttled answer allows one more; an unavailable one schedules the retry of a search
\* that was not one.
LEMMA AnsweredQuiet ==
  ASSUME SearchTypeOK, AnswersInv, QuietInv, NEW r \in requests,
         Ignored(r) \/ Ready(r) \/ Throttled(r) \/ Unavailable(r)
  PROVE  QuietInv'
<1>1. CASE Ignored(r) \/ Ready(r)
  BY <1>1 DEF Ignored, Ready, Elapses, QuietInv, OneQuietRetry
<1>2. CASE Throttled(r)
  BY <1>2 DEF Throttled, SearchTypeOK, QuietInv, OneQuietRetry
<1>3. CASE Unavailable(r)
  <2>1. UNCHANGED <<quiet, throttled>> BY <1>3 DEF Unavailable, Elapses
  <2>2. \A s \in requests' : ~s.current BY <1>3, TakenAnswer DEF Unavailable
  <2>3. CASE r.retry
    BY <1>3, <2>1, <2>2, <2>3 DEF Unavailable, RetriesAfter, QuietInv,
                                  OneQuietRetry
  <2>4. CASE ~r.retry
    <3>1. quiet <= throttled BY <1>3, <2>4 DEF Unavailable, Taken, QuietInv
    <3>2. QED BY <2>1, <2>2, <3>1 DEF QuietInv, OneQuietRetry
  <2>5. QED BY <2>3, <2>4
<1>4. QED BY <1>1, <1>2, <1>3

LEMMA QuietStep == SearchTypeOK /\ AnswersInv /\ QuietInv /\ [SearchNext]_searchVars => QuietInv'
<1> SUFFICES ASSUME SearchTypeOK, AnswersInv, QuietInv, [SearchNext]_searchVars
             PROVE  QuietInv'
  OBVIOUS
<1>1. CASE User
  <2>1. Input
    BY <1>1 DEF User, Type, Enter, Leave, Return, ReloadDraft, SelectWork,
                PasteLink, EditUrl, ApplyLink,
                EditTitle
  <2>2. QED BY <2>1, InputQuiet
<1>2. CASE Timers BY <1>2, TimersQuiet
<1>3. ASSUME NEW r \in requests, Answered(r) \/ Throttled(r) PROVE QuietInv'
  BY <1>3, AnsweredQuiet DEF Answered
<1>4. CASE UNCHANGED searchVars BY <1>4 DEF searchVars, search, QuietInv, OneQuietRetry
<1>5. QED BY <1>1, <1>2, <1>3, <1>4 DEF SearchNext

LEMMA InitQuiet == SearchInit => QuietInv
BY DEF SearchInit, NoTimer, QuietInv, OneQuietRetry

\* An unavailable search is retried once without the user, and once more for each answer
\* that was throttled, however the timers and answers interleave.
THEOREM QuietRetriesBounded == SearchSpec => []OneQuietRetry
<1>1. QuietInv => OneQuietRetry BY DEF QuietInv
<1>2. SearchTypeOK /\ AnswersInv /\ [SearchNext]_searchVars => AnswersInv' BY AnswersStep
<1>3. QED
  BY <1>1, <1>2, InitAnswers, InitQuiet, QuietStep, SearchTypeCorrect, PTL DEF SearchSpec

----------------------------------------------------------------------------
(***************************************************************************)
(* The title filled from IMSLP.                                            *)
(***************************************************************************)

TitleInv == FilledTitleIsTheLinkedWorks /\ (edited => filled = None)

LEMMA PrefillNames ==
  ASSUME TitleInv, NEW work \in Works, Prefill(work), sourceUrl' = work, edited' = edited
  PROVE  TitleInv'
BY SearchAssumption DEF TitleInv, FilledTitleIsTheLinkedWorks, Prefill,
                              Works

LEMMA TitleStep == SearchTypeOK /\ TitleInv /\ [SearchNext]_searchVars => TitleInv'
<1> SUFFICES ASSUME SearchTypeOK, TitleInv, [SearchNext]_searchVars PROVE TitleInv' OBVIOUS
<1> USE DEF TitleInv, FilledTitleIsTheLinkedWorks
<1>1. CASE SelectWork
  <2>1. results \in Works
    BY <1>1 DEF SelectWork, Selectable, SearchTypeOK, Works
  <2>2. QED BY <1>1, <2>1, PrefillNames DEF SelectWork
<1>2. ASSUME NEW w \in Works, PasteLink(w) \/ EditUrl(w) PROVE TitleInv'
  BY <1>2 DEF PasteLink, EditUrl
<1>3. CASE ApplyLink
  <2>1. link \in Works BY <1>3 DEF ApplyLink, SearchTypeOK
  <2>2. CASE Prefill(link) BY <1>3, <2>1, <2>2, PrefillNames DEF ApplyLink
  <2>3. CASE sourceUrl = link /\ UNCHANGED <<title, filled, urlEdited>>
    BY <1>3, <2>3 DEF ApplyLink
  <2>4. QED BY <1>3, <2>2, <2>3 DEF ApplyLink
<1>4. ASSUME NEW t \in {Typed, None}, EditTitle(t) PROVE TitleInv' BY <1>4 DEF EditTitle
<1>5. CASE UNCHANGED draft BY <1>5 DEF draft
<1>6. CASE SearchNext /\ ~UNCHANGED draft
  <2>1. \/ SelectWork \/ ApplyLink \/ \E w \in Works : PasteLink(w) \/ EditUrl(w)
        \/ \E t \in {Typed, None} : EditTitle(t)
        \/ ReloadDraft
    BY <1>6 DEF SearchNext, User, Timers, Answered, Type, Enter,
                Leave, Return, Debounce,
                StrayDebounce, ThrottleEnds, RetryTimer, Ignored, Ready,
                Throttled, Unavailable
  <2>2. CASE ReloadDraft BY <2>2 DEF ReloadDraft
  <2>3. QED BY <2>1, <2>2, <1>1, <1>2, <1>3, <1>4
<1>7. QED BY <1>5, <1>6 DEF searchVars

LEMMA InitTitle == SearchInit => TitleInv
BY DEF SearchInit, TitleInv, FilledTitleIsTheLinkedWorks

\* A title the user typed or cleared is never touched; one that counts as filled names the
\* work the draft is linked to.
THEOREM FilledTitleFollowsLink == SearchSpec => []FilledTitleIsTheLinkedWorks
<1>1. TitleInv => FilledTitleIsTheLinkedWorks BY DEF TitleInv
<1>2. QED BY <1>1, InitTitle, TitleStep, SearchTypeCorrect, PTL DEF SearchSpec

==============================================================================
