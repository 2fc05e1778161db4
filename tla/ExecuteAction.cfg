CONSTANT
  Bits = 3
SPECIFICATION Spec
INVARIANTS
  DoesWhatIsAsked
  TreeFreed
  RightPin
