SPECIFICATION Spec
CONSTANTS
  Horizon <- PastSunday
  AskTicks <- AroundTheDay
  MaxMatches = 3
INVARIANTS
  NoPeek ReleasedIsShown
PROPERTIES
  ShownStays
\* The clock stops at the horizon.
CHECK_DEADLOCK FALSE
