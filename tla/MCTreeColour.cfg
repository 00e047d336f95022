SPECIFICATION MCSpec
CONSTANTS
    MaxKey = 4
    SmallKey = 4
    Window = 1
    Vals = {v1}
    Missing = Missing
    Node <- MCNode
    Nil = Nil
    Top = Top
INVARIANT NoRedRed
