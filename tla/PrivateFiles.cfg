CONSTANTS
  Workers = {w1, w2}
  None = None
  MaxAttempts = 2
  MaxFaults = 2
SPECIFICATION Spec
INVARIANTS TypeOK ErasedMeansGone HeldIsKept ScanAccounted
PROPERTY JobsEnd
CHECK_DEADLOCK FALSE
