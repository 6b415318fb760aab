\* Two attempts, one execution at a time, and one thing that goes wrong.
SPECIFICATION FairSpec
CONSTANTS
  Generations = 2
  Workers = {w1}
  None = None
  MaxFailures = 2
  MaxIncidents = 1
INVARIANTS TypeOK ValidMeansHeld ReleasePlanned
PROPERTIES RowNeverGoesBack AuthorizedWhileWanted DisputedDepositKept EventuallyReleased
CHECK_DEADLOCK FALSE
