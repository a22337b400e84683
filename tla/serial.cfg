SPECIFICATION Spec
CONSTANTS
    Callers = {c1, c2}
    MaxInstalls = 2
    LineMax = 2
    CommandsMax = 1
    OutputMax = 2
    PieceMax = 2
    TxMax = 2
    Tries = 2
    MaxTyped = 5
    MaxPrinted = 4
INVARIANTS ConsoleTypeOK OneStack OutputInOrder
PROPERTIES LinesWhole OutputDrains
CHECK_DEADLOCK FALSE
