CONSTANTS
  Keys <- MCKeys
  Values = {v1, v2}
  Footprint = 1
  InletSize = 2
  Extent = 7
  Contention = 60
  FootprintBits = 8
SPECIFICATION Spec
INVARIANTS
  LookupResponsible
  SplitMergeRoundTrip
