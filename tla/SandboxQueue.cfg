\* One sandbox, with sources and a required artifact or with neither; a user's grant, a Run's.
SPECIFICATION Spec
CONSTANTS
    Sandbox = {s1, s2}
    Op = {o1, o2, o3, o4}
    Worker = {w1, w2}
    Backend = {b1, b2}
    Grant = {g1, g2}
    RunGrant = {g2}
    None = None
    WithSources = {s1}
    WithRequired = {s1}
    MaxAttempts = 2
SYMMETRY Symmetry
CONSTRAINT OneSandbox
INVARIANTS
    EveryOperationIsCurrent
    BackendIsNeverForgotten
    ReadyIsEvidenced
    DeletedIsProven
    NoAccessAfterStop
PROPERTIES
    TerminalIsForever
CHECK_DEADLOCK FALSE
