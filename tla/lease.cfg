SPECIFICATION FairSpec
CONSTANTS
  Accounts = {a1}
  Workers = {w1, w2}
  Nobody = Nobody
  GenBound = 3
  FaultBound = 1
INVARIANTS
  GenerationIsExclusive
  HostsBehindRow
PROPERTIES
  LiveLeaseIsKept
  GenerationCounts
  
  HaltedIsReleased
