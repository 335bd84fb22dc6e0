SPECIFICATION FairSpec
CONSTANTS
  g1 = g1  g2 = g2  a1 = a1  a2 = a2
  Guests          = {g1}
  Clients         = {a1}
  NoGuest         = NoGuest
  NoClient        = NoClient
  VserialChannels = 16
  ClientChannels  <- Fifteen
  MaxCount        = 3
  MaxTyped        = 3
PROPERTIES PolledOut
CHECK_DEADLOCK FALSE
