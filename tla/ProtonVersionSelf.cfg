CONSTANTS
  o1 = o1
  o2 = o2
  Objects = {o1, o2}
  TypeBits = 3
  MaxIncrement = 2
SPECIFICATION Spec
INVARIANT LessIrreflexive
