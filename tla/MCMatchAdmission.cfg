SPECIFICATION FairSpec
CONSTANTS
  p1 = p1
  p2 = p2
  p3 = p3
  other = other
  key = key
  fresh = fresh
  None = None
  Post <- MCPost
  Token <- MCToken
  Carries <- MCCarries
  MaxFaults = 3
  MaxCrashes = 1
INVARIANTS UploadsAgree
PROPERTIES ImplementsAcceptance DispatchShown
CHECK_DEADLOCK FALSE
