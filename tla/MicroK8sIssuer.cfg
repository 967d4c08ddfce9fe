SPECIFICATION Spec
CONSTANTS
    Issuance = {i1}
    Term = {t1, t2}
    Workspace = {w1, w2}
    None = None
    MaxFaults = 2
    MaxChanges = 5
    MaxUid = 2
SYMMETRY Symmetry
INVARIANTS
    LiveTokenIsRecorded
    OtherTokensAreKept
    ReturnIsNoticed
PROPERTIES
    LeavingIsFinal
