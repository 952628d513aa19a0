SPECIFICATION MCSpec
CONSTANTS
  a = a
  b = b
  Files = {a, b}
  Edited = {a}
  MaxPending = 1
  MaxContent = 4
  MaxIntakes = 2
  Unread = Unread
  Untouched = Untouched
  NoBatch = NoBatch
PROPERTIES
  WatcherLeavesOpenDocuments
CHECK_DEADLOCK FALSE
