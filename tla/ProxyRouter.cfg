\* One call, one reasoning item, two output indexes, four lines of upstream stream.
SPECIFICATION RouterSpec
CONSTANTS
    c1 = c1
    r1 = r1
    Call = {c1}
    Thought = {r1}
    MaxIndex = 1
    MaxLines = 4
    RetryableReasons <- MCRetryable
    MaxLostWrites = 1
INVARIANTS
    AttemptOwnsItsResources
    CompleteIsComplete
PROPERTY
    NoFallbackAfterFirstByte
