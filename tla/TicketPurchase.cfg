SPECIFICATION FairSpec
CONSTANTS
  NoOrder = NoOrder  NoUser = NoUser
  Users = {u1, u2}
  Orders = {o1, o2}
  Handlers = {h1, h2}
  Readable = {o1, o2}
  RematchOrders = {o1}
  Count <- Counts
  MaxHistories = 2
  MaxRequests = 3
  MaxFailures = 1
INVARIANTS
  TicketsArePaid OneIssuePerDelivery
PROPERTIES FulfilsOnlyPaid WebhookLeadsToTickets
\* The bound on requests lets every behaviour stop.
CHECK_DEADLOCK FALSE
