SPECIFICATION Spec
CONSTANTS
    Cell = {c1, c2, c3, c4}
    Nowhere = Nowhere
    MaxHold = 2
SYMMETRY CellSymmetry
INVARIANTS
    TypeOK
    RefsExact
    NoDangling
    OnlyCyclesLeak
\* When every cell is in a circular list that nobody holds, nothing is left.
CHECK_DEADLOCK FALSE
