CONSTANTS
  Entries <- MCEntries
SPECIFICATION Spec
INVARIANTS
  LevelIsIndex
  RefusedForAReason
