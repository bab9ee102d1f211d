SPECIFICATION FairRemote
CONSTANTS
  Job = job
  JobOwner = owner
  Worker = worker
  Api = api
  Prober = prober
  Request <- MCRequest
  Owner <- MCOwner
  Caller <- MCCaller
  Local = {}
  Provider = {}
  Budget <- MCBudget
  GroupLimit = 0
  Amount = {1}
  Receipt = {e1}
  ChargeKind = {}
  MaxAttempts = 1
  MaxRevision = 14
  NoOwner = NoOwner
  NoCost = NoCost
  MaxFaults = 1
INVARIANTS UnsettledUntilInvoice DeletedBeforeImport StoresAgree
PROPERTIES CancelConfirmed
CHECK_DEADLOCK FALSE
