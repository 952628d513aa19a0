SPECIFICATION Spec
CONSTANTS
  orphan = orphan
  window = window
  app = app
  Workspace = Workspace
  NoFile = NoFile
  Torn = Torn
  NoCall = NoCall
  Rebuild = Rebuild
  Docs <- MCDocs
  Projects <- MCProjects
  ProjectOf <- MCProjectOf
  MaxEdits = 2
  MaxPending = 1
  MaxJournal = 1
  Overlapping = FALSE
INVARIANTS
  TypeOK
  JournalsAreValid
  
  
