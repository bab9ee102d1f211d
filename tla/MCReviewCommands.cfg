SPECIFICATION FairReviewSpec
CONSTANTS
  swap = swap
  edit = edit
  undo = undo
  NoCommand = NoCommand
  MaxGeneration = 6
  Past = 1
  Reader <- MCReader
  Command <- MCCommand
  UndoOf <- MCUndoOf
  MaxFaults = 3
INVARIANTS ReviewTypeOK AppliedIsShown FailedIsNotListed
PROPERTIES AppliedOnce RestartSettles
CHECK_DEADLOCK FALSE
