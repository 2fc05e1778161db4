CONSTANTS
  MaxAnswers = 2
  SilentReplies = TRUE
  ConnectRetries = 2
  SendFailLimit = 2
  MaxMessages = 1
  SessionDrops = TRUE
  OptionEntries <- MCOptionEntries
SPECIFICATION Spec
INVARIANTS
  TypeOK
  UciOutlivesClient
  ClientUnlessInitFailed
  StopBound
  StatusTellsWhy
  LeaksAreLate
PROPERTIES
  KeepsPromise
  SignalStops
