SPECIFICATION FairSpec
CONSTANTS
  r1 = r1
  r2 = r2
  Runner = {r1}
  Callable <- AllCalls
  CompleteFrom = "Settled"
  Reliable = FALSE
  Overloaded = TRUE
  FaultBound = 3
  CrashBound = 1
  LossBound = 2
  RequestBound = 1
INVARIANTS PaidOnceIfHeard NotAheadOfChain SettlementMatchesPayout
PROPERTIES EveryFetchedEnds KeepsTransferPromise
CONSTRAINT FaultBounds
CHECK_DEADLOCK FALSE
