SPECIFICATION Spec
CONSTANTS
  a1 = a1  a2 = a2  w1 = w1  w2 = w2  m1 = m1  r1 = r1
  Accounts = {a1, a2}  Workers = {w1}  Messages = {m1}  Small = {}
  Rules <- OneRule  Listen <- Listener  Pool <- Shares  Accepts <- TakesAll
  SyncEdit = {r1}  SyncDelete = {r1}
  Top = 2  Nobody = Nobody  BatchLimit = 2  MoveBound = 0
INVARIANTS JobsAreUnique CopiesAreTheListeners EventIsPlanned
CHECK_DEADLOCK FALSE
