SPECIFICATION LifecycleSpec
CONSTANTS
  Job = job
  JobOwner = owner
  Request <- MCRequested
  Owner <- MCOwned
  Local <- MCRequested
  Provider = {}
  Budget <- MCBudget
  GroupLimit = 0
  Amount = {0}
  Caller = {}
  Receipt = {}
  ChargeKind = {}
  MaxAttempts = 2
  MaxRevision = 12
  NoOwner = NoOwner
  NoCost = NoCost
  Retrier = {t1, t2}
  Canceller = {}
  Prober = {}
  MaxCrashes = 0
PROPERTIES
  CompletedNotReset
CHECK_DEADLOCK FALSE
