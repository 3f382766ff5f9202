SPECIFICATION Spec
CONSTANTS
    f1 = f1
    f2 = f2
    m1 = m1
    x1 = x1
    x2 = x2
    Seekers = {m1}
    Null = Null
    Users = {f1, f2, m1}
    Genders = {"female", "male"}
    GenderOf <- SexOf
    Ranks = {"A", "UNKNOWN"}
    Mbtis = {x1, x2}
    Prefs = {"peer", "smokes"}
    Jobs = {"j1", "j2"}
    Searches = {"s1"}
    Types = {"scheduled", "rematching"}
    Unwanted <- PutsOff
    AgePrefs = {"peer"}
    MaxRequests = 2
    MaxFailures = 1
SYMMETRY Symmetry
INVARIANTS SearchSound SearchExact IndexFollows
CHECK_DEADLOCK FALSE
