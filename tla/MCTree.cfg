\* Three symbols in any order with updates, then up to eight, the next one among
\* the three smallest that are not bound.
SPECIFICATION MCSpec
CONSTANTS
    MaxKey = 8
    SmallKey = 3
    Window = 3
    Vals = {v1, v2}
    Missing = Missing
    Node <- MCNode
    Nil = Nil
    Top = Top
INVARIANTS
    RootOwnsTop
    LinksAgree
    GrandparentExists
    DfsInOrder
PROPERTIES
    MapSpec
    Terminates
