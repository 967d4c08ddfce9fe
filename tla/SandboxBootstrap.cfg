SPECIFICATION Spec
CONSTANTS
  File = {"a", "b"}
  Slot = {1, 2}
  MaxPods = 2
  MaxKills = 1
  w1 = w1
  w2 = w2
  Worker = {w1, w2}
  NoWorker = NoWorker
  NoPod = NoPod
  MaxClaims = 2
  MaxForeign = 1
INVARIANTS
  SourcesAreWhole
  EgressIsClosed
  RecordIsTrue
SYMMETRY Symmetry
CHECK_DEADLOCK FALSE
