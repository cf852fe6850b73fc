SPECIFICATION Spec
CONSTANTS
    w1 = w1
    w2 = w2
    Workers <- Two
    Timeouts = {1, 3}
    ClientIds = FALSE
    PollMax = 1
    MaxRequests = 2
    MaxNow = 5
    MaxWrites = 1
SYMMETRY Contexts
PROPERTY
    NoEarlyCancel
CHECK_DEADLOCK FALSE
