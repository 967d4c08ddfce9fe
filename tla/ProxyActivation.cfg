SPECIFICATION Spec
CONSTANTS
    Proc = {p1, p2}
    Activation = {a1, a2}
    Name = {n1, n2}
    UserValue = {u}
    None = None
    MaxCommands = 2
    MaxFaults = 2
    MaxEdits = 1
SYMMETRY Symmetry
INVARIANTS
    PairIsBound
    PublishedIsDurable
PROPERTIES
    ImplementsPublication
CHECK_DEADLOCK FALSE
