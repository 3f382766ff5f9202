SPECIFICATION Spec
CONSTANTS
    u1 = u1
    c1 = c1
    c2 = c2
    Null = Null
    Users <- TheUsers
    Clients <- TheClients
    Owner <- TheOwner
    Requests = {r1, r2}
    AccessLife = 1
    RefreshLife = 2
    MaxTime = 2
    MaxFailures = 1
INVARIANTS
    AnswerIsStored
    ClientInStep
PROPERTIES
    LoggedOutStays
SYMMETRY Symmetry
CHECK_DEADLOCK FALSE
