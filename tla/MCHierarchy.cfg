SPECIFICATION HierarchySpec
SYMMETRY Symmetry
CONSTANTS
  a = a
  b = b
  c = c
  powerobject = powerobject
  window = window
  mdiframe = mdiframe
  NoBase = NoBase
  Infinity = 99
  TypeNames <- MCTypeNames
  Natives <- MCNatives
  NativeParent <- MCNativeParent
  Members <- MCMembers
  MaxTypes = 3
  MaxMembers = 2
INVARIANTS
  HierarchyTypeOK
  AncestorsAreTheClosure
  DistanceCountsSteps
  DescendantsInvertAncestors
  ClosureIsConsistent
