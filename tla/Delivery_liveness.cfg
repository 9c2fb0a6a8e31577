SPECIFICATION FairSpec
CONSTANTS
  d1 = d1
  d2 = d2
  w1 = w1
  w2 = w2
  Delivery = {d1, d2}
  Worker = {w1, w2}
  Batch = 1
  MaxAttempts = 2
  Answers <- OnlyHttp
  MaxInterrupts = 0
INVARIANTS
  TypeOK
  VerdictsAreEarned
PROPERTIES
  EveryDeliverySettles
CHECK_DEADLOCK FALSE
