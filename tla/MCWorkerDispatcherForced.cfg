SPECIFICATION Spec
CONSTANTS
    r1 = r1 r2 = r2 r3 = r3
    s1 = s1 s2 = s2 s3 = s3 s4 = s4
    child = child parent = parent
    Runner = {r1, r2, r3}
    Step = {s1, s2, s3, s4}
    RunnerOf <- MCRunnerOf
    Runtime = {child, parent}
    RuntimesOf <- MCRuntimesOf
    RuntimeLimit <- MCLimit
    Capacity = 2
    Slot = Slot
INVARIANTS RuntimeCeiling
SYMMETRY MCSymmetry
CHECK_DEADLOCK FALSE
