SPECIFICATION Spec
CONSTANTS
  u1 = u1
  u2 = u2
  a = a
  b = b
  NoState = NoState
  Uris <- MCUris
  Ids <- MCIds
  Contributions <- MCContributions
  MaxDepth = 2
  MaxEpoch = 2
INVARIANTS
  TypeOK
  IndexesConsistent
PROPERTIES
  EditsReplaceOneDocument
  BatchesAreAtomic
