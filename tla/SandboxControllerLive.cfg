SPECIFICATION ControllerFairSpec
CONSTANTS
    Sandbox = {s1}
    Op = {o1, o2}
    Worker = {w1}
    Backend = {b1, b2}
    Grant = {}
    RunGrant = {}
    None = None
    WithSources = {}
    WithRequired = {}
    MaxAttempts = 2
PROPERTIES
    EveryOperationEnds
CHECK_DEADLOCK FALSE
