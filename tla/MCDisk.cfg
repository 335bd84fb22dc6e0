SPECIFICATION Spec
CONSTANTS
  g1 = g1  g2 = g2  k1 = k1  k2 = k2  f1 = f1  f2 = f2  d1 = d1  d2 = d2
  NoDisk = NoDisk  NoGuest = NoGuest  NoFile = NoFile  NoSlot = NoSlot  NoReq = NoReq
  Guests      = {g1, g2}
  Controls    = {k1, k2}
  Slots       = {0}
  Files       = {f1, f2}
  Disks       = {d1, d2}
  SectorCount = 2
  SectorSize  = 2
  Bytes       = {0, 1}
  LsnBytes    <- EdgeLsns
  WriteData   <- OneSector
  MaxAsks     = 1
  MaxFlips    = 1
  MaxFaults   = 1
INVARIANTS TypeOK SeekStands MutexExact
PROPERTIES WritesLand Implements
SYMMETRY Symmetry
CHECK_DEADLOCK FALSE
