SPECIFICATION MCSpec
CONSTANTS
  Scenarios = {"cancels", "stops", b1, "tenant"}
  r1 = r1
  r2 = r2
  b1 = b1
  parsed = parsed
  extracted = extracted
  Run = {r1, r2}
  Blob = {b1}
  Artifact = {parsed, extracted}
  Worker = {w1}
  Sweeper = {p1}
  Eraser = {p1}
  Document <- OneDocument
  Extracts = {r1, r2}
  Chain <- Twins
  Deadline <- InTurn
  Sweepable = {r1, r2}
  Batch = 1
  HeedsChecks = TRUE
  Outside = {extracted}
  Erasable = {b1, "tenant"}
  MaxInterrupts = 1
  None = None
INVARIANTS
  TypeOK
  OutsideContentStays
  ContentOutlivesRemovals
  NothingIsStranded
  CheckedRunsAreKept
PROPERTIES
  OnlyEndedRunsAreSwept
CHECK_DEADLOCK FALSE
