SPECIFICATION Spec
CONSTANTS
  DEPTH = 2
  CYCLE = 2
  Byte = {0, 1}
  BITS = 2
  HALF = 2
  Lengths = {1, 7}
  ClkDivs = {3}
  MaxResets = 1
INVARIANTS
  BytesInOrder
  StatusTrue
