SPECIFICATION Spec
CONSTANTS
    Worker = {w1, w2}
    None = None
    Lease = 3
    RenewEvery = 1
    Margin = 1
    Slack = 0
    MaxAttempts = 2
    MaxTime = 5
SYMMETRY Symmetry
INVARIANTS
    WorkIsCovered
    OneWorker
CHECK_DEADLOCK FALSE
