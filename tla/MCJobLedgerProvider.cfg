SPECIFICATION Spec
CONSTANTS
  Request = {r1, r2}
  Local = {}
  Provider = {r1, r2}
  BudgetOf = 2
  Budget <- MCBudget
  GroupLimit = 2
  Amount = {0, 1, 2}
  Owner = {o1}
  Caller = {c1}
  Receipt = {e1}
  ChargeKind = {}
  MaxAttempts = 2
  MaxRevision = 2
  NoOwner = NoOwner
  NoCost = NoCost
INVARIANTS BudgetRespected GroupRespected
PROPERTIES UnknownNeedsInvoice AdmittedOnlyWhenSettled
CONSTRAINT TwoAttempts
SYMMETRY Requests
CHECK_DEADLOCK FALSE
