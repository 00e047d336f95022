SPECIFICATION Spec
CONSTANTS
  small = small
  large = large
  m1 = m1
  m2 = m2
  b1 = b1
  b2 = b2
  b3 = b3
  b4 = b4
  v1 = v1
  v2 = v2
  Functions <- MCFunctions
  Blocks <- MCBlocks
  Values <- MCValues
  Size <- MCSize
  Modules <- MCModules
  Module <- MCApart
  NULL = NULL
  MaxCalls = 3
SYMMETRY Symmetric
INVARIANT TypeOK
INVARIANT OneReference
INVARIANT AllFreed
INVARIANT BlockFits
PROPERTY KeepsActivations
