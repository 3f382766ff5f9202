SPECIFICATION HotSpec
CONSTANTS
  u1 = u1  u2 = u2  j1 = j1  r1 = r1  r2 = r2  x1 = x1
  Null = Null
  Users = {u1, u2}
  Admins = {}
  Texts = {x1}
  Jobs = {j1}
  Runs = {r1, r2}
  Threshold = 25
  Syncs = {15}
  MaxViews = 15
  MaxArticles = 1
  MaxComments = 1
  MaxRequests = 3
  MaxFailures = 1
INVARIANTS HotOnce DeletedNotHot
PROPERTIES PopularTurnsHot
\* The bound on requests lets every behaviour stop.
CHECK_DEADLOCK FALSE
