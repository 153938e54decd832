SPECIFICATION Spec
CONSTANTS
  a1 = a1  a2 = a2  b1 = b1  b2 = b2  h1 = h1  h2 = h2
  Accounts = {a1, a2}  Bindings = {b1, b2}  Account <- OwnBinding  Handlers = {h1, h2}
  ReplyMax = 1  ChainMax = 1  CacheSize = 2  MaxRoom = 3  MaxTaken = 4  Calls <- NoneOrAll
  Others = {"person", "clone"}  Nobody = Nobody
SYMMETRY HandlersAlike
INVARIANTS TypeOK  TalkDiesDown
CHECK_DEADLOCK FALSE
