SPECIFICATION FairSpec
CONSTANTS
  Requests = {k1}
  Watched = k1
  Guests = {g1, g2}
  Channels = {0}
  Nobody = nobody
  MaxQueued = 1
INVARIANTS TypeOK
PROPERTIES StatusRows Answered GuestServed
CHECK_DEADLOCK FALSE
