SPECIFICATION FairSpec
CONSTANTS
  u1 = u1  q1 = q1  l1 = l1  c1 = c1  c2 = c2  h1 = h1  h2 = h2
  Identities = {u1}  Unknown = Unknown  Imports = {q1}  Package <- OnePackage
  Logins = {l1}  LoginAs <- OwnNumber  Completions = {c1, c2}  For <- Twice
  Hosts = {h1, h2}  Nobody = Nobody  MaxActs = 1  MaxFaults = 1
INVARIANTS IdentityIsUnique RowHasSession
PROPERTIES StopArrives
CHECK_DEADLOCK FALSE
