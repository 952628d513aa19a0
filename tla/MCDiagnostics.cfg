SPECIFICATION FairSpec
CONSTANTS
  Docs = {a, b}
  Writers = {watcher, indexer}
  MaxEdits = 3
  MaxChanges = 2
  Nothing = Nothing
  NoTimer = NoTimer
INVARIANTS
  TypeOK
  NoOrphanTimers
  ClosedDocumentsShowNothing
PROPERTIES
  FullDiagnosticsArrive
CHECK_DEADLOCK FALSE
