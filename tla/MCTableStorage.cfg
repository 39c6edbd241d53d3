CONSTANTS
  e0 = e0
  e1 = e1
  e2 = e2
  Values <- MCValues
  Default = e0
  Uninit = Uninit
  MaxDim = 2
SPECIFICATION Spec
INVARIANT
  RowMajorLayout
