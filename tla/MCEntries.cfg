SPECIFICATION Spec
CONSTANTS
  worker = worker
  evicted = evicted
  supervisor = supervisor
  None = None
  Symbols = {gold}
  Tasks <- MCTasks
  Cancellable <- MCCancellable
  OnlyIfFlat = FALSE
  MaxOpen = 1
  MaxPerDay = 1
  MaxBook = 1
  Modes <- MCModes
  MaxBar = 2
INVARIANT Consistent
PROPERTIES
  OneEntryPerSignal
  PausesHoldUnlessOvertaken
  EvaluationsReturn
CHECK_DEADLOCK FALSE
