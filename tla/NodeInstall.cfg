\* A host with or without MicroK8s; four commands, two faults.
SPECIFICATION Spec
CONSTANTS
    None = None
    MaxCommands = 4
    MaxFaults = 2
INVARIANTS
    EveryChangeIsOwned
    CapacityNeedsGrant
    RetiredBeforeForgotten
PROPERTIES
    WritesStayAuthorized
CHECK_DEADLOCK FALSE
