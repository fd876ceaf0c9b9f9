SPECIFICATION FairSpec
CONSTANTS
    Message = {1, 2, 3}
    Capacity = 2
    BatchLimit = 2
INVARIANTS BufferConsistent AtMostOneRedelivery
PROPERTIES Delivery
CHECK_DEADLOCK FALSE
