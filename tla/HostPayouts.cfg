\* An earning, a refund, a batch and its replacement, a payout and its retry.
SPECIFICATION Spec
CONSTANTS
  e1 = e1
  f1 = f1
  Earnings = {e1}
  Net <- TwoEach
  Refunds = {f1}
  RefundOf <- OfFirst
  Cents <- OneEach
  MaxBatches = 2
  MaxGenerations = 2
INVARIANTS TypeOK FundsCovered TransferredOnce OverpaymentRecorded
PROPERTIES SentWhatIsOwed
CHECK_DEADLOCK FALSE
