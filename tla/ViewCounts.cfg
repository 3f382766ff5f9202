SPECIFICATION FairSpec
CONSTANTS
    u1 = u1
    c1 = c1
    c2 = c2
    Nobody = Nobody
    Articles = {a1}
    Users <- TheUsers
    Clients <- TheClients
    Owner <- TheOwner
    Runs = {r1, r2}
    MaxViews = 2
    MaxFailures = 1
    MaxExpiries = 1
INVARIANTS
    LostOnlyWhileHeld
    NeverMoreThanViews
    OncePerMark
PROPERTY
    WorkedIn
CHECK_DEADLOCK FALSE
