SPECIFICATION CloseSpec
CONSTANTS
  t1 = t1
  t2 = t2
  account = account
  winners = winners
  NoTicket = NoTicket
  Tickets <- MCTickets
  Closers <- MCClosers
  Wanted <- MCWanted
  Filter <- MCFilter
  MaxRounds = 2
  MaxInflight = 2
INVARIANTS
  Consistent
  OkMeansMatchedGone
PROPERTIES
  CloseReturns
CHECK_DEADLOCK FALSE
