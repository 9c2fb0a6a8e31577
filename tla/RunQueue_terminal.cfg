SPECIFICATION Spec
CONSTANTS
  r1 = r1
  r2 = r2
  w1 = w1
  w2 = w2
  c1 = c1
  Run = {r1}
  Worker = {w1, w2}
  Client = {c1}
  None = None
  Lease = 1
  MaxAttempts = 2
  StageCount <- MCStageCount
  Accepts <- AnyKind
  Skew <- OneClock
  Floor <- MCFloor
  MaxDisruptions = 2
PROPERTIES
  TerminalIsFinal
CHECK_DEADLOCK FALSE
