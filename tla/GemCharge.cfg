SPECIFICATION FairSpec
CONSTANTS
  o1 = o1
  NoOrder = NoOrder  NoUser = NoUser
  Users = {u1, u2}
  Orders = {o1, o2}
  Catalogue = {o1, o2}
  CustomCatalogue = {o1}
  Handlers = {h1, h2}
  ServerOf <- OneServer
  TotalGems <- Sizes
  ConsumeAmounts = {2}
  RowsAtStart = {}
  MaxHistories = 3
  MaxRequests = 2
  MaxFailures = 1
INVARIANTS ChargesArePaid LedgerExplainsBalance PaymentsAreRecorded
PROPERTIES CancelledStaysUncharged FulfilsOnlyPaid WebhookLeadsToCharge
\* The bound on requests lets every behaviour stop.
CHECK_DEADLOCK FALSE
