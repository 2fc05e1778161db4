CONSTANTS
  MaxAnswers = 2
  SilentReplies = FALSE
  ConnectRetries = 2
  SendFailLimit = 3
  MaxMessages = 2
  SessionDrops = TRUE
  OptionEntries <- MCOptionEntries
SPECIFICATION Spec
INVARIANTS
  UbusLiveWhenUsed
