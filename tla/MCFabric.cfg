\* Cycles of the core and of the DMA engine through all the buses.
SPECIFICATION FairSpec
CONSTANTS
  Order <- McOrder
  Bdf <- McBdf
  BarSize <- McBarSize
  Settings <- McSettings
  Windows <- McWindows
  SbWindows <- McSbWindows
  Endpoints = {"fuse"}
  Addrs <- McAddrs
  DmaAddrs <- McDmaAddrs
  RomBase = 3
  HmBound = 4
  IoTop = 2
  Cf8 = 0
  Cfc = 1
  Ecam <- McEcam
  CfgWindow <- McCfgWindow
  Targets <- McTargets
  CoreLat = 3
  DmaLat = 3
  AttLat = 2
  Subtractive = 1
  Misaligned <- McMisaligned
  NoRegister <- McNoRegister
  Iommu = FALSE
  AddrMod = 24
  ExtMod = 48
  Boot <- McBoot
INVARIANTS OneTarget FailedDoesNothing
PROPERTIES RightCell AccessReturns
