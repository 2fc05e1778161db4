CONSTANTS
  MaxAnswers = 2
  SilentReplies = FALSE
  ConnectRetries = 10
  SendFailLimit = 10
  MaxMessages = 1
  SessionDrops = FALSE
  OptionEntries <- MCOptionEntries
SPECIFICATION Spec
INVARIANTS
  UbusLiveWhenUsed
  CrashOnlyOutOfMemory
  EndsClean
  RetryBackoff
  ServesConnected
  TrueMeansSent
PROPERTIES
  KeepsReporting
  LostUbusStops
