CONSTANTS
  Keys <- MCKeys
  Values = {v1}
  v1 = v1
  NodeIds <- MCNodeIds
  QuillFootprint = 1
  QuillInletSize = 2
  QuillExtent = 5
  SeamFootprint = 1
  SeamInletSize = 2
  SeamExtent = 16
  Contention = 80
  FootprintBits = 8
  NoAddress = NoAddress
SPECIFICATION Spec
PROPERTY
  NoMayorOfEmptyQuill
VIEW SealedView
