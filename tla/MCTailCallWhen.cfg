CONSTANTS
    Own = f
    Names = {f}
    Symbols = {f}
    Lengths = {2}
    MaxArg = 2
    Exprs <- SmallExprs
    Height <- MCHeight
    Programs <- SmallPrograms
SPECIFICATION TCSpec
PROPERTY TailCallIsCall
CHECK_DEADLOCK FALSE
