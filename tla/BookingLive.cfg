CONSTANTS
  Customers = {alice}
  Reservations = {r1, r2}
  Windows <- OneWindow
  Drafts = {}
  None = None
  DraftOwner <- NoOwners
  MaxRevision = 1
  HoldTTL = 1
  CheckoutTTL = 1
  RecoveryTTL = 1
SPECIFICATION FairSpec
PROPERTY PaidIsAccounted
