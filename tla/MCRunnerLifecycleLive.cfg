SPECIFICATION FairSpec
CONSTANTS
    b1 = b1
    b2 = b2
    r1 = r1
    w1 = w1
    w2 = w2
    NoOwner = NoOwner
    Backend = {b1, b2}
    Runner = {r1}
    Worker = {w1}
    RunnerOf <- MCSingle
    Window = 1
    MaxGeneration = 3
    MaxFaults = 1
CHECK_DEADLOCK FALSE
PROPERTIES
    EverythingEnds
