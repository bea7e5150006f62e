SPECIFICATION FairSpec
CONSTANTS
  r1 = r1
  r2 = r2
  Runner = {r1}
  Callable <- RepositoryCalls
  CompleteFrom = "Rewarded"
  Reliable = TRUE
  Overloaded = FALSE
  FaultBound = 0
  CrashBound = 0
  LossBound = 0
  RequestBound = 0
PROPERTIES ClaimCompletes
CHECK_DEADLOCK FALSE
