SPECIFICATION FairSpec
CONSTANTS
    r1 = r1 r2 = r2 r3 = r3
    q1 = q1 q2 = q2 q3 = q3 q4 = q4 q5 = q5
    Runner = {r1, r2, r3}
    Request = {q1, q2, q3, q4, q5}
    RunnerOf <- MCBacklog
    Actors = 2
    Limit = 2
    MaxRequests = 3
    MaxPending = 3
INVARIANT RouterInvariant
PROPERTIES WaitingEnds
