SPECIFICATION StreamsSpec
CONSTANTS
  evaluator = evaluator
  request = request
  Tickets = {t1, t2}
  Waiters <- MCWaiters
  Evaluators <- MCEvaluators
  Nobody = Nobody
  MaxBacklog = 1
  MaxLinks = 2
  Positions = {p1, p2}
  MaxDeals = 3
  MaxRuns = 2
INVARIANTS
  StoreWasReal
  MissedOnlyIfSuperseded
  NoDealIsForgotten
  AnnouncedOncePerRun
PROPERTIES
  NobodyIsStuck
  ImplementsChannel
  RowsNeverFall
CHECK_DEADLOCK FALSE
