SPECIFICATION FairSpec
CONSTANTS
  p1 = p1
  p2 = p2
  c1 = c1
  r1 = r1
  t1 = t1
  MaxGeneration = 5
  Past = 3
  Publisher <- MCPublisher
  Corrector <- MCCorrector
  Recoverer <- MCRecoverer
  Reader <- MCReader
  Retainer <- MCRetainer
INVARIANTS TypeOK NeededIsWhole
PROPERTIES IndexFollowsPointer ImplementsRegister EveryoneEnds
CHECK_DEADLOCK FALSE
