SPECIFICATION MCSpec
CONSTANTS
  Scenarios = {"cancels"}
  r1 = r1
  r2 = r2
  b1 = b1
  parsed = parsed
  extracted = extracted
  Run = {r1, r2}
  Blob = {b1}
  Artifact = {parsed, extracted}
  Worker = {w1}
  Sweeper = {p1, p2}
  Eraser = {}
  Document <- OneDocument
  Extracts = {r2}
  Chain <- SharedParse
  Deadline <- InTurn
  Sweepable = {r1, r2}
  Batch = 1
  HeedsChecks = FALSE
  Outside = {}
  Erasable = {}
  MaxInterrupts = 0
  None = None
INVARIANTS
  NothingIsStranded
CHECK_DEADLOCK FALSE
