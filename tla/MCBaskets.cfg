SPECIFICATION BasketsSpec
CONSTANTS
  worker = worker
  supervisor = supervisor
  None = None
  Callers <- MCCallers
  Limit <- MCLimit
  Ladder = FALSE
  MaxPerBasket = 3
  MaxRounds = 2
  MaxTickets = 4
INVARIANTS
  LadderIsCounted
  GateIsHeld
PROPERTIES
  CountersSurvive
SYMMETRY Symmetry
CHECK_DEADLOCK FALSE
