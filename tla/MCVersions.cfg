CONSTANTS
  o1 = o1
  o2 = o2
SPECIFICATION Spec
INVARIANTS
  VersionOrder
