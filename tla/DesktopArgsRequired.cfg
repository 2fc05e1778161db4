CONSTANTS
  Values = {v1}
  Null = null
  MaxItems = 3
SPECIFICATION ArgsSpec
INVARIANTS
  RequiredGiven
