CONSTANTS
  e0 = e0
  e1 = e1
  e2 = e2
  Values = {e0, e1, e2}
  Default = e0
  MaxDim = 2
  Self = Self
  SelfAssignment = TRUE
  Garbage = Garbage
SPECIFICATION Spec
INVARIANTS
  
  IndexBijection
  
  IterationMatchesAt
PROPERTIES
  ResizeKeeps
