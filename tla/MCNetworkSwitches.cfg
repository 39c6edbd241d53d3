CONSTANTS
  n1 = n1
  n2 = n2
  p1 = p1
  p2 = p2
  Names <- MCNames
  Procs <- MCOneProc
SPECIFICATION Spec
INVARIANTS
  OneOperation
