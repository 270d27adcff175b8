SPECIFICATION Spec
CONSTANTS
  chat = chat
  stranger = stranger
  first = first
  second = second
  worker = worker
  poller = poller
  web = web
  None = None
  Worker <- MCWorker
  Poller <- MCPoller
  Senders <- MCSenders
  Chats <- MCChats
  Strangers <- MCStrangers
  Accounts <- MCAccounts
  QueueMax = 1
  MaxRetry = 1
  MaxNotes = 2
  MaxUpdates = 2
  MaxRestarts = 1
INVARIANTS
  NoCommandIsLost
  RepeatedOnlyByRestart
PROPERTIES
  ThrottleIsKept
  TradesForItsChat
SYMMETRY Symmetry
CHECK_DEADLOCK FALSE
