SPECIFICATION Spec
CONSTANTS
  r1 = r1
  r2 = r2
  Runner = {r1}
  Callable <- AllCalls
  CompleteFrom = "Settled"
  Reliable = TRUE
  Overloaded = FALSE
  FaultBound = 0
  CrashBound = 0
  LossBound = 0
  RequestBound = 1
PROPERTIES OnlyCreatedCancelled
CHECK_DEADLOCK FALSE
