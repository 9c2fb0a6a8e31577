SPECIFICATION Spec
CONSTANTS
  d1 = d1
  d2 = d2
  w1 = w1
  w2 = w2
  Delivery = {d1, d2}
  Worker = {w1}
  Batch = 2
  MaxAttempts = 3
  Answers <- AnyAnswer
  MaxInterrupts = 2
INVARIANTS
  AttemptsAreCounted
PROPERTIES
  SettledIsFinal
CHECK_DEADLOCK FALSE
