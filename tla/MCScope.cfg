CONSTANTS
    Symbols <- MCSymbols
    Pairs = {P1, P2}
    Atoms = {A1}
    Nil = Nil
    v = v
    Data <- MCData
    Params <- MCParams
    None = None
    MaxDepth = 2
SPECIFICATION Spec
INVARIANTS TypeOK CacheExact
PROPERTIES LastArgumentsWin EnvSpec
SYMMETRY PairSymmetry
VIEW View
