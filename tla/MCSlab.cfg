\* One cell per page and a region of 4 pages: two expansions, then refusal.
SPECIFICATION Spec
CONSTANTS
    InitPages = 1
    CellsPerPage = 1
    SlabPages = 4
    MaxRefs = 2
    AllocBound = 7
INVARIANTS
    TypeOK
    CommittedCells
    FreeListExact
    Accounting
PROPERTY PoolSpec
\* The process ends when the slab is deleted or exhausted.
CHECK_DEADLOCK FALSE
