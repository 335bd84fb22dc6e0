SPECIFICATION FairSpec
CONSTANTS
  s1 = s1  s2 = s2  a1 = a1  a2 = a2  c1 = c1  bad = bad
  Sessions    = {s1}
  Clients     = {a1}
  Channels    = {c1}
  BadChannels = {bad}
  NoChannel   = NoChannel
  GuestWrites = {"SerWriteM"}
  MaxBytes    = 2
  MaxBurst    = 2
PROPERTIES InboxDrains
