SPECIFICATION SignalsSpec
CONSTANTS
  NoSide = NoSide
  SignalModes <- Combined
  Sides <- MCSides
  Enabled = 2
  MinAgree = 1
  MinMargin = 1
  Need = 2
  MlNeed = 2
  LastBar = 3
INVARIANT LiveIsReplayed
CHECK_DEADLOCK FALSE
