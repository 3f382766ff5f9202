SPECIFICATION Spec
CONSTANTS
  o1 = o1
  NoOrder = NoOrder  NoUser = NoUser
  Users = {u1, u2}
  Orders = {o1}
  Catalogue = {o1}
  CustomCatalogue = {o1}
  Handlers = {h1, h2}
  ServerOf <- OneServer
  TotalGems <- Sizes
  ConsumeAmounts = {}
  RowsAtStart = {u1, u2}
  MaxHistories = 1
  MaxRequests = 1
  MaxFailures = 0
PROPERTIES OwnRowOnly
\* The bound on requests lets every behaviour stop.
CHECK_DEADLOCK FALSE
