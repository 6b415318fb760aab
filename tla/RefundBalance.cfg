\* Two refunds of the application that each take the whole payment, or one of
\* them next to one made at the dashboard.
SPECIFICATION Spec
CONSTANTS
  f1 = f1
  f2 = f2
  f3 = f3
  w1 = w1
  w2 = w2
  None = None
  Amount <- MCAmount
  Refunds = {f1, f2, f3}
  External = {f3}
  Captured = 1
  Workers = {w1}
  Hooks = {h1}
  Lease = 1
  Replay = 0
  Wire = 1
  Retention = 3
  MaxFailures = 2
  Reversible = TRUE
  MaxCrashes = 0
INVARIANTS BalanceCovers
PROPERTIES ImplementsRefundPromise
SYMMETRY Ours
CONSTRAINT TwoAtATime
