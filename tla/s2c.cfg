SPECIFICATION Spec
CONSTANTS
  s1 = s1
  s2 = s2
  a1 = a1
  b1 = b1
  c1 = c1
  SessionIds = {s1, s2}
  Addrs = {a1, b1, c1}
  NoAddr = noAddr
  NoIndex = noIndex
  FirstAddr <- MCFirstAddr
  Reach <- MCReach
  MaxInserted = 3
  MaxRebinds = 2
INVARIANTS
  TablesAgree
  NoPanic
  SentToOwner
PROPERTIES
  Settles
