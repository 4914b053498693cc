\* A file that ends with an include section is included.
SPECIFICATION Spec
CONSTANTS
  FileSystems <- McFileSystems
  Root = "bup"
  MaxDepth = 2
  DeviceTypes <- McDeviceTypes
  Wanted = {"loader", "romlib", "syslib"}
INVARIANT AllSectionsInserted
CHECK_DEADLOCK FALSE
