SPECIFICATION Spec
CONSTANTS
  s1 = s1  s2 = s2  a1 = a1  a2 = a2  c1 = c1  bad = bad
  Sessions    = {s1}
  Clients     = {a1, a2}
  Channels    = {c1}
  BadChannels = {}
  NoChannel   = NoChannel
  GuestWrites = {"FastWrite"}
  MaxBytes    = 2
  MaxBurst    = 0
PROPERTIES ReturnedTakesNothing
