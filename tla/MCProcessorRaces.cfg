SPECIFICATION Spec
CONSTANTS
  r1 = r1
  r2 = r2
  Runner = {r1, r2}
  Callable <- AllCalls
  CompleteFrom = "Settled"
  Reliable = FALSE
  Overloaded = FALSE
  FaultBound = 1
  CrashBound = 0
  LossBound = 0
  RequestBound = 1
INVARIANTS NothingStranded
PROPERTIES LastRunEnds
CONSTRAINT RaceBounds
SYMMETRY RunnerSymmetry
CHECK_DEADLOCK FALSE
