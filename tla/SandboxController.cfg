\* Two workers on one sandbox with a source and a required artifact, two operations.
SPECIFICATION ControllerSpec
CONSTANTS
    Sandbox = {s1}
    Op = {o1, o2}
    Worker = {w1, w2}
    Backend = {b1, b2}
    Grant = {}
    RunGrant = {}
    None = None
    WithSources = {s1}
    WithRequired = {s1}
    MaxAttempts = 2
SYMMETRY Symmetry
INVARIANTS
    DestroyedMeansGone
    ReadyIsRunning
    NoArtifactLost
PROPERTIES
    ImplementsQueue
CHECK_DEADLOCK FALSE
