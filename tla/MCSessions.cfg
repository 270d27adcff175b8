SPECIFICATION SessionsSpec
CONSTANTS
  MaxClients = 3
  Accounts = {a1, a2}
  NoAccount = NoAccount
INVARIANTS
  OneOpenClientUnlessRaced
  OfflineOnlyByTeardown
PROPERTIES
  EveryoneIsServed
CHECK_DEADLOCK FALSE
