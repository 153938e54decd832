SPECIFICATION FairSpec
CONSTANTS
  r1 = r1  r2 = r2  r3 = r3  h1 = h1  h2 = h2  v1 = v1  v2 = v2
  Runs = {r1, r2, r3}  Engine <- Others  MaxSeq = 1
  Handlers = {}  Reviewers = {v1, v2}
  AutoApprove = {r1}  KeyedScope = TRUE  Nobody = Nobody
INVARIANTS OneReplyPerTrigger
PROPERTIES DecisionStands JobIsApproved RunEnds
CHECK_DEADLOCK FALSE
