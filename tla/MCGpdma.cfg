\* DMA between the bus and the hash unit, turn by turn.
SPECIFICATION FairSpec
CONSTANTS
  BufLen = 2
  Mapped <- McMapped
  x = x
  y = y
  Values = {x, y}
  Addrs <- McAddrs
  Sizes <- McSizes
INVARIANTS UnitGetsSource UnitGetsSize
PROPERTY TransactionEnds
