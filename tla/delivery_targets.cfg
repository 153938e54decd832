SPECIFICATION Spec
CONSTANTS
  MaxAttempts = 2
  Jobs <- TwoJobs
  Workers = {w1}
  Operators = {o1, o2}
  Kind <- CopyDelete
  Source <- SameSource
  NeedsApproval <- NoApproval
  NoTarget = NoTarget
  TryBound = 3
  FaultBound = 0
INVARIANTS
  SuccessIsReal
  MapNamesRealMessage
  SucceededIsMapped
