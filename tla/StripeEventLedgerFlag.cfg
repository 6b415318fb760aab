\* Handlers of payment events that fail twice, FlagAfter being two.
CONSTANTS
  Events = {e1}
  PaymentEvents = {e1}
  Crons = {c1}
  Hooks = {h1}
  Steps = 1
  Stale = 2
  Backoff <- OneDelay
  FlagAfter = 2
  MaxFaults <- ErrorsOnly
SPECIFICATION Spec
INVARIANT RepeatedFailuresFlagged
CHECK_DEADLOCK FALSE
