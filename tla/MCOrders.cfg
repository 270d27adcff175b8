SPECIFICATION OrdersSpec
CONSTANTS
  NoSide = NoSide
  SignalModes <- Alone
  Sides <- MCSides
  Enabled = 2
  MinAgree = 1
  MinMargin = 1
  Need = 2
  MlNeed = 2
  LastBar = 3
  gold = gold
  silver = silver
  worker1 = worker1
  worker2 = worker2
  supervisor = supervisor
  None = None
  Symbols <- MCSymbols
  Tasks <- MCTasks
  Cancellable = {}
  OnlyIfFlat = FALSE
  MaxOpen = 2
  MaxPerDay = 1
  MaxBook = 1
  Modes = {"interval"}
  MaxBar = 2
  trend = trend
  dca = dca
  old = old
  new = new
  NoJob = NoJob
  Jobs <- MCJobs
  Workers <- MCWorkers
  SideOf <- MCSideOf
  Direction <- MCDirection
  Prices <- MCPrices
  Count = 2
  Spacing = 1
  Delay = 1
  LastTime = 2
  MaxSpoiled = 1
INVARIANTS
  StreaksAreEarned
  LiveIsReplayed
  DailyOvershootIsBounded
  CountIsKept
  SpacingIsKept
CHECK_DEADLOCK FALSE
