SPECIFICATION WorkerSpec
CONSTANTS
  QueueCap = 1
  MaxRecords = 3
  Rewritten = {"patch"}
  MaxHops = 3
  MaxRounds = 3
INVARIANTS
  SuccessIsEarned
  NoSurvivors
PROPERTY
  EveryRunEnds
CHECK_DEADLOCK FALSE
