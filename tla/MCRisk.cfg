SPECIFICATION Spec
CONSTANTS
  spawned = spawned
  supervisor = supervisor
  ticket = ticket
  None = None
  Callers <- MCCallers
  Tickets <- MCTickets
  Configs <- MCConfigs
  Totals <- MCTotals
  Prices <- MCPrices
  ArmUsd = 3
  GiveUsd = 2
  ArmPct = 2
  GivePct = 3
  CloseAt = 1
  LastTick = 5
  InitialStop = 1
  BreakEven = 2
  BreakEvenArm = 4
  TrailArm = 4
  Distance = 2
  MaxLate = 1
  MaxStarts = 2
INVARIANTS
  OneEvaluates
  TrailingIsFounded
  TimedCloseIsDaily
PROPERTIES
  StopsOnlyTighten
SYMMETRY Symmetry
CHECK_DEADLOCK FALSE
