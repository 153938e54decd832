SPECIFICATION FairSpec
CONSTANTS
  a1 = a1  a2 = a2  w1 = w1  w2 = w2  m1 = m1  r1 = r1
  Accounts = {a1}  Workers = {w1}  Messages = {m1}  Small = {}
  Rules <- OneRule  Listen <- Listener  Pool <- Alone  Accepts <- TakesAll
  SyncEdit = {r1}  SyncDelete = {}
  Top = 3  Nobody = Nobody  BatchLimit = 1  MoveBound = 2
PROPERTIES InboxDrains
CHECK_DEADLOCK FALSE
