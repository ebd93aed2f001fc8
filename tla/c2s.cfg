SPECIFICATION Spec
CONSTANTS
  s1 = s1
  s2 = s2
  m1 = m1
  m2 = m2
  a1 = a1
  a2 = a2
  a3 = a3
  b1 = b1
  b2 = b2
  SessionIds = {s1, s2}
  Mirrorings = {m1, m2}
  Addrs = {a1, a2, a3, b1, b2}
  NoAddr = noAddr
  NoIndex = noIndex
  FirstAddr <- MCFirstAddr
  Reach <- MCReach
  MaxInserted = 3
  MaxRebinds = 2
INVARIANTS
  TablesAgree
  NoPanic
  RoutedToSender
PROPERTIES
  Settles
