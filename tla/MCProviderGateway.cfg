SPECIFICATION GatewaySpec
CONSTANTS
  r1 = r1
  Request <- MCRequest
  Provider <- MCRequest
  Local = {}
  Budget <- MCBudget
  GroupLimit = 2
  Amount = {1}
  Owner = {c1, c2, c3}
  Caller = {c1, c2, c3}
  Receipt = {c1, c2, c3}
  ChargeKind = {}
  MaxAttempts = 2
  MaxRevision = 8
  NoOwner = NoOwner
  NoCost = NoCost
  Asks <- MCAsks
  MaxChanges = 1
  MaxCrashes = 1
  Nobody = Nobody
INVARIANTS CalledOnce FreeWasNotCalled InvoiceFirst OneAnswer
PROPERTIES CurrentOnly ImplementsLedger
SYMMETRY Callers
CHECK_DEADLOCK FALSE
