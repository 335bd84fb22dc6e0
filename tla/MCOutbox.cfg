SPECIFICATION FairSpec
CONSTANTS
  g1 = g1  g2 = g2  a1 = a1  a2 = a2
  Guests          = {g1, g2}
  Clients         = {a1, a2}
  NoGuest         = NoGuest
  NoClient        = NoClient
  VserialChannels = 16
  ClientChannels  <- LowAndHigh
  MaxCount        = 2
  MaxTyped        = 3
INVARIANTS TypeOK ExactlyOnce InOrder NoPadding
PROPERTIES PolledOut
CHECK_DEADLOCK FALSE
