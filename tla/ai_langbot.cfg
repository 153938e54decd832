SPECIFICATION Spec
CONSTANTS
  r1 = r1  r2 = r2  r3 = r3  h1 = h1  h2 = h2  v1 = v1  v2 = v2
  Runs = {r1, r2}  Engine <- AllLangbot  MaxSeq = 2
  Handlers = {h1, h2}  Reviewers = {}
  AutoApprove = {}  KeyedScope = TRUE  Nobody = Nobody
INVARIANTS CandidateIsWhole 
PROPERTIES EndedStaysEnded
CHECK_DEADLOCK FALSE
