SPECIFICATION Spec
CONSTANTS
    Message = {1}
    None = None
    MaxStepsPerTurn = 2
    MaxRestarts = 1
    MaxFaults = 2
    MaxNames = 5
    Instruction = {"cancel", "shutdown", "invalid"}
INVARIANTS
    OnlyCrashesLoseTurns
    AnswerFits
    DeliveredIsAnswered
    SequencesNeverRepeat
CHECK_DEADLOCK FALSE
