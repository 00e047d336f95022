CONSTANTS
    Own = f
    Names = {f}
    Symbols = {f}
    Lengths = {1}
    MaxArg = 3
    Exprs <- MCExprs
    Height <- MCHeight
    Programs <- MCPrograms
SPECIFICATION TCSpec
INVARIANTS RecordsReturned TightLoop
PROPERTIES TailCallIsCall Terminates
CHECK_DEADLOCK FALSE
