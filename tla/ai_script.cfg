SPECIFICATION FairSpec
CONSTANTS
  m1 = m1  m2 = m2  w1 = w1  w2 = w2
  Members = {m1, m2}  Versions <- TwoVersions  MaxPlays = 2  MaxTasks = 2  MaxTalk = 1  MaxRepeats = 1
  Workers = {w1, w2}  Nobody = Nobody
INVARIANTS LinesInOrder
PROPERTIES OldPlayIsSilent PlayEnds
CHECK_DEADLOCK FALSE
