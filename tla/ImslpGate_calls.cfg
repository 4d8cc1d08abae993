SPECIFICATION Spec
CONSTANTS
  c1 = c1
  c2 = c2
  c3 = c3
  Call = {c1, c2, c3}
  Slots = 1
  Burst = 2
  MaxWait = 1
  BreakerFailures = 2
  BreakerCooldown = 2
  MaxRetryAfter = 1
  MaxTime = 5
  MaxSent = 6
SYMMETRY Calls
INVARIANTS
  ProbeIsHandedBack
  SlotsAccounted
  OutboundRateKept
CHECK_DEADLOCK FALSE
