SPECIFICATION FairSpec
CONSTANTS
  r1 = r1  a1 = a1  a2 = a2  h1 = h1  h2 = h2  p1 = p1  p2 = p2
  Rules = {r1}  Accounts = {a1, a2}  Hosts = {h1}  First <- ListenerA1  Publishers = {p1, p2}
  MaxChanges = 4  MaxCommands = 1  MaxFaults = 1  Nobody = Nobody
PROPERTIES SnapshotsStand HostsFallInStep 
CHECK_DEADLOCK FALSE
