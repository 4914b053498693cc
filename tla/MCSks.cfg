\* Keys in and out of the slots.  It stops where a wild pointer is followed.
SPECIFICATION Spec
CONSTANTS
  Half = 2
  SlotWrites <- McSlotWrites
  CmdWrites <- McCmdWrites
  AtrWrites <- McAtrWrites
  MaxFresh = 2
INVARIANTS StoreHolds KeyDataUsedOnce
PROPERTY HashKeyIsLoaded
CHECK_DEADLOCK FALSE
