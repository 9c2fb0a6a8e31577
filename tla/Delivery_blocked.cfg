SPECIFICATION FairSpec
CONSTANTS
  d1 = d1
  d2 = d2
  w1 = w1
  w2 = w2
  Delivery = {d1, d2}
  Worker = {w1, w2}
  Batch = 2
  MaxAttempts = 2
  Answers <- NeverHttp
  MaxInterrupts = 0
PROPERTIES
  EveryDeliverySettles
CHECK_DEADLOCK FALSE
