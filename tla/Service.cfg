CONSTANTS
  Levels = {0}
  MaxEdits = 2
  MaxStarts = 1
SPECIFICATION Spec
INVARIANTS
  RunsCurrent
  FormAccepted
PROPERTIES
  EditsTakeEffect
