SPECIFICATION InvalidationSpec
CONSTANTS
  u1 = u1
  u2 = u2
  u3 = u3
  a = a
  b = b
  NoState = NoState
  NoRead = NoRead
  Uris <- MCUris
  Ids <- MCIds
  Contributions <- MCContributions
  MaxDepth = 1
  MaxEpoch = 3
SYMMETRY Documents
VIEW WithoutOutput
CHECK_DEADLOCK FALSE
PROPERTIES
  OpenedDocumentReachesDependents
