SPECIFICATION FairSpec
CONSTANTS
  s1 = s1  s2 = s2  a1 = a1  a2 = a2  c1 = c1  bad = bad
  Sessions    = {s1, s2}
  Clients     = {a1, a2}
  Channels    = {c1}
  BadChannels = {bad}
  NoChannel   = NoChannel
  GuestWrites = {"FastWrite", "SerWrite", "SerWriteM"}
  MaxBytes    = 3
  MaxBurst    = 2
INVARIANTS TypeOK NoLostWakeup WaitersParked ExactlyOnce InOrder OneBatchLost
PROPERTIES PushesDrain
