SPECIFICATION ClientSpec
CONSTANTS
  Dim = 1
  Bytes = {0, 1, 2}
  TagSpace = 2
  Late = {FALSE, TRUE}
  ClientFlits <- MCFlits
  MaxFlits = 2
INVARIANTS WorksOnHead
PROPERTIES ServesInOrder
