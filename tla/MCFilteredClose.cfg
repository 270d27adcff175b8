SPECIFICATION CloseSpec
CONSTANTS
  t1 = t1
  t2 = t2
  account = account
  winners = winners
  NoTicket = NoTicket
  Tickets <- JustOne
  Closers <- JustWinners
  Wanted <- MCWanted
  Filter <- MCFilter
  MaxRounds = 2
  MaxInflight = 2
INVARIANT FailedIsRetried
CHECK_DEADLOCK FALSE
