SPECIFICATION Spec
CONSTANTS
  r1 = r1
  r2 = r2
  w1 = w1
  w2 = w2
  c1 = c1
  Run = {r1}
  Worker = {w1, w2}
  Client = {c1}
  None = None
  Lease = 1
  MaxAttempts = 2
  StageCount <- MCStageCount
  Accepts <- ExtractionOnW1
  Skew <- W1Ahead
  Floor <- MCFloor
  MaxDisruptions = 3
INVARIANTS
  TypeOK
  OwnershipIsCurrent
  NoRunBecomesInvisible
  PoisonIsBounded
  CancelledWasAsked
  WithdrawnNeverSucceeds
  DeliveryMatchesVerdict
PROPERTIES
  ImplementsLifecycle
  SucceededIsFinal
  LostAttemptsWriteNothing
  CancelNeverStopsALiveAttempt
CHECK_DEADLOCK FALSE
