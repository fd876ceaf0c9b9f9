SPECIFICATION Spec
CONSTANTS
    b1 = b1
    b2 = b2
    r1 = r1
    w1 = w1
    w2 = w2
    NoOwner = NoOwner
    Backend = {b1, b2}
    Runner = {r1}
    Worker = {w1, w2}
    RunnerOf <- MCOneRunner
    Window = 2
    MaxGeneration = 3
    MaxFaults = 1
SYMMETRY MCSymmetry
CHECK_DEADLOCK FALSE
INVARIANTS
    AtMostOneSend
    BooksAgree
    CancelledNeverSucceeds
    NoForeignExecution
PROPERTIES
    OutputsAreFinal
