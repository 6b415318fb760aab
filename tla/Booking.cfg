CONSTANTS
  Customers = {alice, bob}
  Reservations = {r1, r2}
  Windows <- TwoWindows
  Drafts = {web, phone}
  None = None
  DraftOwner <- SameOwner
  MaxRevision = 2
  HoldTTL = 1
  CheckoutTTL = 1
  RecoveryTTL = 1
SYMMETRY Symmetry
SPECIFICATION Spec
INVARIANTS NoDoubleBooking ConfirmedIsPaid CapturedAccounted DraftMatchesHold
PROPERTY ImplementsCalendar
CONSTRAINT DraftsOrPayments
