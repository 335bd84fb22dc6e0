SPECIFICATION Spec
CONSTANTS
  SectorSize   = 2
  ComStLen     = 3
  GuestOps     = {"Nop", "Read", "ReadEx", "Write", "Reset1"}
  PayloadBytes = {0, 3}
  Counts       = {0, 2}
  MaxPipeline  = 1
  MaxDrops     = 1
INVARIANTS ResetResyncs
