SPECIFICATION FairSpec
CONSTANTS
    a = a
    b = b
    c = c
    d = d
    Order <- MCOrder
    Dependencies <- MCDependencies
    Delay <- MCDelay
    DueAt <- MCDueAt
    Modes <- MCModes
    MaxAge = 2
    MaxRedeliveries = 1
INVARIANTS LoopInvariant
PROPERTIES CooldownKept RunEnds
CHECK_DEADLOCK FALSE
