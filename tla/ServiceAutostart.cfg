CONSTANTS
  Levels = {4}
  MaxEdits = 1
  MaxStarts = 0
SPECIFICATION Spec
INVARIANTS
  AutostartDecides
