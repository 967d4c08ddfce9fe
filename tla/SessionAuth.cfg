SPECIFICATION Spec
CONSTANTS
    Proc = {p1, p2}
    Device = {d1, d2}
    None = None
    MaxCommands = 3
    MaxFaults = 2
    MaxRotations = 2
SYMMETRY Symmetry
INVARIANTS
    LiveIsReachable
    OneBackend
    RotationIsSerialized
CHECK_DEADLOCK FALSE
