\* Modules of every shape, thunks in each other's way, every kind of call.
SPECIFICATION BenchSpec
CONSTANTS
  Lists <- McLists
  Header = 2
  BufSize = 20
  Width = 16
  IntSize = 3
  SizeMod = 64
  ReadSizes = {0, 1, 2, 5, 63}
  ParSizes = {0, 2, 3}
  Table <- McTable
  Page = 32
  Space = 768
  Low = 64
  Setups <- McSetups
  Handlers <- McHandlers
  Selectors = {7, 12, 15, 20}
  Offsets <- McOffsets
  Counts <- McCounts
  Strays = {3, 500}
  Poison = 12
  Depths = {0, 1, 3}
  Tables = {"t1", "t2"}
  Buffers = {"a", "b"}
INVARIANTS RangesApart ThunksLand TlsIsOwn InSegment ReadIsStream WalkIsBlocks
CHECK_DEADLOCK FALSE
