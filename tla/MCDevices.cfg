\* The flash controller, the sideband devices and the functions of the PCH.
SPECIFICATION BenchSpec
CONSTANTS
  Bits = {1}
  FlashSize = 3
  FifoSize = 2
  Image <- McImage
  MaxAddr = 3
  Data <- McData
  Jedec <- McJedec
  CellBytes = 4
  Devs = {"fuse", "dfx", "exi"}
  Type <- SbType
  Endpoints <- SbEndpoints
  Sai <- SbSai
  Entry <- SbEntry
  Targets = {1, 2, 3}
  Writes <- SbWrites
  Reads <- SbReads
  PciSai <- McPciSai
  D31id = {1}
  FakeProbe = TRUE
  PciWrites <- McPciWrites
  PciReads <- McPciReads
INVARIANTS FifoShowsFlash ReadsLastWrite OneSensePerStart LogTellsStatus CellsHold
PROPERTIES OnlyClears ConsentHolds
