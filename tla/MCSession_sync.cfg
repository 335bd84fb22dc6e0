SPECIFICATION FairSpec
CONSTANTS
  SectorSize   = 2
  ComStLen     = 3
  GuestOps     <- AllOps
  PayloadBytes = {82}
  Counts       = {0, 2}
  MaxPipeline  = 2
  MaxDrops     = 0
INVARIANTS TypeOK InSync RightReply
PROPERTIES Completes
