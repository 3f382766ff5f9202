SPECIFICATION BoardSpec
CONSTANTS
  u1 = u1  u2 = u2  j1 = j1  j2 = j2  x1 = x1  x2 = x2
  Null = Null
  Users = {u1, u2}
  Admins = {u2}
  Texts = {x1, x2}
  Jobs = {j1, j2}
  MaxArticles = 3
  MaxComments = 2
  MaxRequests = 4
  MaxFailures = 1
SYMMETRY Symmetry
INVARIANTS LikersCountOnce
PROPERTIES NoInstantRepeat
\* The bound on requests lets every behaviour stop.
CHECK_DEADLOCK FALSE
