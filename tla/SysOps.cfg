CONSTANTS
  p1 = p1  p2 = p2  a1 = a1  a2 = a2  w1 = w1  w2 = w2
  Payloads <- TwoPayloads
  Anon <- TwoIds
  NoOp = NoOp
  Workers <- TwoWorkers
  Lease = 2
  TTL = 3
  Backoff = 1
  MaxTime = 5
  MaxStay = 1
  MaxFaults = 1
SYMMETRY Symmetry
SPECIFICATION Spec
CHECK_DEADLOCK FALSE
INVARIANTS
  TypeOK
  ClaimIsExclusive
  
  SucceededMeansExecuted
  
