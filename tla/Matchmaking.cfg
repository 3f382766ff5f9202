SPECIFICATION FairSpec
CONSTANTS
  f1 = f1  m1 = m1  h1 = h1
  NoUser = NoUser  NoTicket = NoTicket
  Users = {f1, m1}
  Members = {f1, m1}
  RestMembers = {f1}
  Eligible <- TheMan
  Tickets = {t1}
  Owner <- HerTickets
  Handlers = {h1, h2}
  ServerOf <- TwoServers
  BatchHandlers = {h1, h2}
  MaxRequests = 2
  MaxFailures = 1
  MaxCrashes = 1
INVARIANTS ForwardAfterReverse FreshPartner TicketsBuyMatches BatchesApart
PROPERTIES EveryMemberGetsTurn
\* The bound on requests lets every behaviour stop.
CHECK_DEADLOCK FALSE
