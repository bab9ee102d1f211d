SPECIFICATION Spec
CONSTANTS
  Request = {r1}
  Local = {r1}
  Provider = {}
  BudgetOf = 0
  Budget <- MCBudget
  GroupLimit = 0
  Amount = {0, 1}
  Owner = {o1, o2}
  Caller = {c1}
  Receipt = {e1}
  ChargeKind = {"settled", "unsettled", "released"}
  MaxAttempts = 2
  MaxRevision = 3
  NoOwner = NoOwner
  NoCost = NoCost
INVARIANTS
  TypeOK
  OneLiveAttempt
  UnknownNotReconciled
  CancelWindsDown
  ViewFresh
PROPERTIES
  ReplayHarmless
  KnownChargesKept
CONSTRAINT ReadsMayCommit
SYMMETRY Owners
CHECK_DEADLOCK FALSE
