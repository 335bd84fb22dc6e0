SPECIFICATION FairSpec
CONSTANTS
  ReadBuf   = 2
  DrainBuf  = 3
  Rooms     = {1, 3}
  WriteLens = {1, 2}
  MaxIn     = 4
  MaxOut    = 4
INVARIANTS TypeOK Accounted
PROPERTIES IsByteStream GoesOut DeadPortEnds ReadOn ProbeEnds
CHECK_DEADLOCK FALSE
