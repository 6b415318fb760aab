\* Two recovery workers and a webhook: a failing handler, a crash and a lease
\* that runs out under a live handler, in any order.
CONSTANTS
  Events = {e1}
  PaymentEvents = {}
  Crons = {c1, c2}
  Hooks = {h1}
  Steps = 2
  Stale = 1
  Backoff <- OneDelay
  FlagAfter = 2
  MaxFaults <- OneOfEach
SPECIFICATION FairSpec
INVARIANTS SingleLiveHandler
PROPERTIES ImplementsFencedTask EventuallyProcessed
CHECK_DEADLOCK FALSE
