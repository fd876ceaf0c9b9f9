SPECIFICATION FairSpec
CONSTANTS
    a1 = a1
    a2 = a2
    b1 = b1
    A = A
    B = B
    Slot = Slot
    NoRunner = NoRunner
    Runner = {a1, a2, b1}
    Campaign = {A, B}
    TaskRunner = {b1}
    CampaignOf <- Campaigns
    RoundOf <- Rounds
    MaxRunners = 2
    ReadyCapacity = 1
    MaxFaults = 1
INVARIANT AdmissionInvariant
PROPERTY QueuedIsServed
CHECK_DEADLOCK FALSE
