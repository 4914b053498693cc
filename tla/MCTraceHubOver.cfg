\* Packets after one that overflowed the buffer.
SPECIFICATION Spec
CONSTANTS
  Channels <- McChannels
  Size = 5
  Packets <- McPackets
INVARIANT OverflowDropsPacket
