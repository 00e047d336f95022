SPECIFICATION Spec
CONSTANTS
  small = small
  large = large
  m1 = m1
  m2 = m2
  b1 = b1
  b2 = b2
  b3 = b3
  b4 = b4
  v1 = v1
  v2 = v2
  Functions <- MCFunctions
  Blocks <- MCBlocks
  Values <- MCValues
  Size <- MCSize
  Modules <- MCOne
  Module <- MCTogether
  NULL = NULL
  MaxCalls = 3
INVARIANT BlockFits
