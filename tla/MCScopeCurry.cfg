CONSTANTS
    Symbols <- MCSymbols
    Pairs = {P1, P2, P3}
    Atoms = {A1}
    Nil = Nil
    v = v
    Data <- MCData
    Params <- MCParams
    None = None
    MaxDepth = 1
SPECIFICATION Spec
PROPERTY CurriedArgumentsWin
SYMMETRY PairSymmetry
VIEW View
