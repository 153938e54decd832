SPECIFICATION FairSpec
CONSTANTS
  MaxAttempts = 2
  Jobs <- OneJob
  Workers = {w1, w2}
  Operators = {o1}
  Kind <- CopyOnly
  Source <- OneSource
  NeedsApproval <- NoApproval
  NoTarget = NoTarget
  TryBound = 3
  FaultBound = 1
INVARIANTS
  LogIsGapless
  DuplicatesAreAccounted
  SucceededHasAttempt
  GivesUpLate
PROPERTIES
  
  ChangesAreEdges
  SendingIsResolved
  KeepsTheLedger
