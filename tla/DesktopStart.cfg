CONSTANTS
  Values = {v1}
  Null = null
  MaxItems = 3
  MaxFd = 3
SPECIFICATION StartSpec
INVARIANTS
  StrangersRefused
  TypeOK
  DaemonDetached
  OneGoesOn
PROPERTIES
  EndsAccountable
