SPECIFICATION FairSpec
CONSTANTS
  SectorSize   = 1
  ComStLen     = 3
  GuestOps     = {"Nop", "ReadEx", "SerWriteM", "SerSetStat"}
  PayloadBytes = {82}
  Counts       = {2}
  MaxPipeline  = 1
  MaxDrops     = 1
PROPERTIES FlushResyncs
