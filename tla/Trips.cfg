\* A claim or dispute and an incident, and a super administrator.
SPECIFICATION Spec
CONSTANTS
  r1 = r1
  r2 = r2
  c1 = c1
  c2 = c2
  Reservations = {r1, r2}
  Cases = {c1, c2}
  Concerns <- OnFirst
  KindsOf <- OneOfEach
  Agents = {}
  SuperAdmins = {s1}
  Affiliates = {}
  NoOne = NoOne
  MaxTurns = 1
INVARIANTS TypeOK OutstandingMeansReview DatesExclusive
PROPERTIES TripKeepsDeposit IndependentDecision SafeToDrive
CONSTRAINT FirstReleases
CHECK_DEADLOCK FALSE
