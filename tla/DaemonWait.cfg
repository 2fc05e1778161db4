CONSTANTS
  MaxAnswers = 2
  SilentReplies = FALSE
  ConnectRetries = 2
  SendFailLimit = 3
  MaxMessages = 1
  SessionDrops = FALSE
  OptionEntries <- MCOptionEntries
SPECIFICATION Spec
PROPERTIES
  ConnectPhaseEnds
