CONSTANTS
  c1 = c1
  a1 = a1
  a2 = a2
  b1 = b1
  b2 = b2
  NoBlock = NoBlock
  Actors = {c1}
  Addresses = {a1, a2}
  Blocks = {b1, b2}
  MaxTranscript = 3
SPECIFICATION Spec
PROPERTY ReplayedOnce
