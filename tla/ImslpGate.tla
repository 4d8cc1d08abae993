----------------------------- MODULE ImslpGate -----------------------------
(***************************************************************************)
(* What stands between the users' searches and IMSLP: the circuit breaker, *)
(* the shared token bucket and the outbound slots (attempt, admit,         *)
(* acquireOutbound, record and abandonProbe of internal/app/imslp.go, with *)
(* the tokenBucket of internal/app/ratelimit.go).                          *)
(*                                                                         *)
(* An attempt is one request to IMSLP; a search makes one or two of them,  *)
(* and resolving a file one. A call is a goroutine that makes attempts one *)
(* after the other. Time is counted in ticks, in each of which the bucket  *)
(* gains one token; it is filled at each tick instead of when it is next   *)
(* used, which gives the same number of tokens at every use. MaxTime       *)
(* bounds the clock and MaxSent the requests that reach IMSLP.             *)
(***************************************************************************)
EXTENDS Integers, FiniteSets

CONSTANTS
  Call,             \* goroutines that make attempts
  Slots,            \* OutboundConcurrency
  Burst,            \* OutboundBurst
  MaxWait,          \* OutboundMaxWait
  BreakerFailures,
  BreakerCooldown,
  MaxRetryAfter,    \* a Retry-After is 1..MaxRetryAfter ticks
  MaxTime, MaxSent

ASSUME GateAssumption ==
  /\ IsFiniteSet(Call)
  /\ Slots \in Nat \ {0} /\ Burst \in Nat \ {0}
  /\ MaxWait \in Nat /\ BreakerFailures \in Nat \ {0} /\ BreakerCooldown \in Nat \ {0}
  /\ MaxRetryAfter \in Nat /\ MaxTime \in Nat /\ MaxSent \in Nat

VARIABLES
  now,
  open, probing, failures, openUntil,  \* the breaker
  tokens,                              \* the outbound bucket; negative when reserved ahead
  slots,                               \* slots taken
  call,                                \* the attempt each call is making
  sent,                                \* history: requests that went to IMSLP
  paused                               \* history: the end of the latest Retry-After

vars == <<now, open, probing, failures, openUntil, tokens, slots, call, sent, paused>>

breaker == <<open, probing, failures, openUntil>>

\* pc: no attempt, admitted by the breaker, waiting with a token until its turn, sent
Attempt == [pc : {"none", "admitted", "waiting", "sent"}, probe : BOOLEAN,
            ready : Nat, deadline : Nat]

NoAttempt == [pc |-> "none", probe |-> FALSE, ready |-> 0, deadline |-> 0]

Init ==
  /\ now = 0
  /\ open = FALSE /\ probing = FALSE /\ failures = 0 /\ openUntil = 0
  /\ tokens = Burst
  /\ slots = 0
  /\ call = [c \in Call |-> NoAttempt]
  /\ sent = 0 /\ paused = 0

Lesser(a, b) == IF a < b THEN a ELSE b
Greater(a, b) == IF a < b THEN b ELSE a

----------------------------------------------------------------------------

\* admit: an open breaker lets one probe through after its pause.
Admit(c) ==
  /\ call[c].pc = "none"
  /\ \/ /\ ~open
        /\ call' = [call EXCEPT ![c] = [NoAttempt EXCEPT !.pc = "admitted"]]
        /\ UNCHANGED probing
     \/ /\ open /\ now >= openUntil /\ ~probing
        /\ probing' = TRUE
        /\ call' = [call EXCEPT ![c] = [NoAttempt EXCEPT !.pc = "admitted", !.probe = TRUE]]
  /\ UNCHANGED <<now, open, failures, openUntil, tokens, slots, sent, paused>>

ProbeKept(c) == probing

\* abandonProbe
ProbeAbandoned(c) == probing /\ ~call[c].probe

\* How long a reservation made now has to wait for its token.
Wait == IF tokens >= 1 THEN 0 ELSE 1 - tokens

\* reserve: a token now or soon, or none.
Reserve(c) ==
  /\ call[c].pc = "admitted" /\ Wait <= MaxWait
  /\ tokens' = tokens - 1
  /\ call' = [call EXCEPT ![c].pc = "waiting", ![c].ready = now + Wait,
                          ![c].deadline = now + MaxWait]
  /\ UNCHANGED <<now, breaker, slots, sent, paused>>

RefuseLongWait(c) ==
  /\ call[c].pc = "admitted" /\ Wait > MaxWait
  /\ call' = [call EXCEPT ![c] = NoAttempt]
  /\ probing' = ProbeAbandoned(c)
  /\ UNCHANGED <<now, open, failures, openUntil, tokens, slots, sent, paused>>

\* The token's time has come and a slot is free: the request goes out.
Send(c) ==
  /\ call[c].pc = "waiting" /\ now >= call[c].ready /\ now <= call[c].deadline
  /\ slots < Slots /\ sent < MaxSent
  /\ slots' = slots + 1
  /\ sent' = sent + 1
  /\ call' = [call EXCEPT ![c].pc = "sent"]
  /\ UNCHANGED <<now, breaker, tokens, paused>>

TokenRefundedTwice == Lesser(Burst, tokens + 2)

\* refund
TokenRefunded == Lesser(Burst, tokens + 1)

\* The deadline passes while it sleeps or waits for a slot: the token is handed back.
TimeOut(c) ==
  /\ call[c].pc = "waiting" /\ now >= call[c].deadline
  /\ tokens' = TokenRefunded
  /\ call' = [call EXCEPT ![c] = NoAttempt]
  /\ probing' = ProbeAbandoned(c)
  /\ UNCHANGED <<now, open, failures, openUntil, slots, sent, paused>>

----------------------------------------------------------------------------
(***************************************************************************)
(* record, then the slot is released.                                      *)
(***************************************************************************)

FinishHoldsSlot(c) ==
  /\ call[c].pc = "sent"
  /\ call' = [call EXCEPT ![c] = NoAttempt]
  /\ probing' = ProbeAbandoned(c)
  /\ UNCHANGED <<now, tokens, slots, sent>>

Finish(c) ==
  /\ call[c].pc = "sent"
  /\ call' = [call EXCEPT ![c] = NoAttempt]
  /\ probing' = ProbeAbandoned(c)
  /\ slots' = slots - 1
  /\ UNCHANGED <<now, tokens, sent>>

\* Only the probe's success may close an open breaker.
MayClose(c) == ~open \/ call[c].probe

Success(c) ==
  /\ Finish(c)
  /\ IF MayClose(c) THEN open' = FALSE /\ failures' = 0
                    ELSE UNCHANGED <<open, failures>>
  /\ UNCHANGED <<openUntil, paused>>

Opens(retryAfter) == open \/ failures + 1 >= BreakerFailures \/ retryAfter > 0

\* A failure, with a Retry-After or (0) without one.
Failure(c, retryAfter) ==
  /\ Finish(c)
  /\ failures' = Lesser(failures + 1, BreakerFailures)
  /\ IF Opens(retryAfter)
       THEN /\ open' = TRUE
            /\ openUntil' = Greater(openUntil,
                              now + (IF retryAfter > 0 THEN retryAfter ELSE BreakerCooldown))
       ELSE UNCHANGED <<open, openUntil>>
  /\ paused' = IF retryAfter > 0 THEN Greater(paused, now + retryAfter) ELSE paused

Tick ==
  /\ now < MaxTime
  /\ now' = now + 1
  /\ tokens' = Lesser(Burst, tokens + 1)
  /\ UNCHANGED <<breaker, slots, call, sent, paused>>

Next ==
  \/ \E c \in Call :
       \/ Admit(c)
       \/ Reserve(c)
       \/ RefuseLongWait(c)
       \/ Send(c)
       \/ TimeOut(c)
       \/ Success(c)
       \/ \E retryAfter \in 0..MaxRetryAfter : Failure(c, retryAfter)
  \/ Tick

Spec == Init /\ [][Next]_vars

----------------------------------------------------------------------------

TypeOK ==
  /\ now \in Nat /\ openUntil \in Nat /\ paused \in Nat /\ sent \in Nat
  /\ open \in BOOLEAN /\ probing \in BOOLEAN
  /\ failures \in 0..BreakerFailures
  /\ tokens \in Int /\ tokens <= Burst
  /\ slots \in 0..Slots
  /\ call \in [Call -> Attempt]

\* The breaker's probe is in the hands of exactly one attempt, or handed back, on every
\* path: refused by the bucket, timed out for a slot, answered. A lost one would refuse
\* every search for ever.
ProbeIsHandedBack ==
  /\ probing <=> \E c \in Call : call[c].probe
  /\ \A c, d \in Call : call[c].probe /\ call[d].probe => c = d
  /\ probing => open

\* Every slot taken belongs to a request that IMSLP has not answered.
SlotsAccounted == slots = Cardinality({c \in Call : call[c].pc = "sent"})

\* IMSLP never gets more requests than the burst and the rate allow since the start: no
\* token is counted twice, however reservations, refusals and timeouts interleave. And
\* after a quiet time, or refunds, no more than one burst is waiting to be sent at once.
Reserved == Cardinality({c \in Call : call[c].pc = "waiting"})

SentWithinRate == sent + Reserved + tokens <= Burst + now

OutboundRateKept == SentWithinRate /\ tokens <= Burst

\* Once IMSLP says Retry-After, the breaker is open for that time.
RetryAfterHonoured == now < paused => open

============================================================================
