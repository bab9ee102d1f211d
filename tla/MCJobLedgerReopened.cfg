SPECIFICATION Spec
CONSTANTS
  Request = {r1}
  Local = {}
  Provider = {}
  BudgetOf = 1
  Budget <- MCBudget
  GroupLimit = 2
  Amount = {0, 1}
  Owner = {o1}
  Caller = {c1}
  Receipt = {}
  ChargeKind = {}
  MaxAttempts = 2
  MaxRevision = 3
  NoOwner = NoOwner
  NoCost = NoCost
INVARIANTS
  BudgetAtAllTimes
CHECK_DEADLOCK FALSE
