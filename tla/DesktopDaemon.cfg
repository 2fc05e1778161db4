CONSTANTS
  Strings = {s1, s2}
  Literal = literal
  Texts <- MCTexts
  BufSize = 200
  Prefix = 9
  ConnectRetries = 10
  SetupLoops = 5
  SendFailLimit = 3
  MaxMessages = 1
  SessionDrops = TRUE
SPECIFICATION Spec
INVARIANTS
  TypeOK
  EndsClean
  NeverWithoutCredentials
  StopBound
  OwnedByOneSide
  DiesOfDataOnly
  FitsBuffer
  RefusedForLength
PROPERTIES
  KeepsPromise
  SignalStops
  KeepsReporting
