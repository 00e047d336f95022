SPECIFICATION Spec
CONSTANTS
  std = std
  anon = anon
  odd = odd
  quote = quote
  read = read
  Modules <- MCModules
  Functions <- MCFunctions
  Disk <- MCDisk
  StdModule = std
  Defaults <- MCDefaults
  MaxOpens = 1
  MaxTokens = 2
  MaxOps = 1
  MaxLines = 1
  MaxExprs = 1
  MaxNest = 1
  MaxBuf = 2
  Wrap = 3
INVARIANT TypeOK
INVARIANT ContextsBalanced
INVARIANT AtMostOneLate
INVARIANT LibrariesExact
PROPERTY FormsInOrder
PROPERTY QuitEnds
