SPECIFICATION MCFairSpec
CONSTANTS
  a = a
  b = b
  Files = {a, b}
  Edited = {a}
  MaxPending = 1
  MaxContent = 4
  MaxIntakes = 2
  Unread = Unread
  Untouched = Untouched
  NoBatch = NoBatch
INVARIANTS
  TypeOK
  WindowHasTimer
  WindowTellsTheDisk
  
  OpenDocumentsAreShown
PROPERTIES
  ChangesAreWorkedOff
CHECK_DEADLOCK FALSE
