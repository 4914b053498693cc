\* Every place and order of the include sections.
SPECIFICATION FairSpec
CONSTANTS
  FileSystems <- McFileSystems
  Root = "bup"
  MaxDepth = 2
  DeviceTypes <- McDeviceTypes
  Wanted = {"loader", "romlib", "syslib"}
INVARIANTS ListIsExpansion BootsIfBootable
PROPERTIES StillLinked BootEnds
CHECK_DEADLOCK FALSE
