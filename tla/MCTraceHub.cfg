\* Two channels that write between each other's messages.
SPECIFICATION Spec
CONSTANTS
  Channels <- McChannels
  Size = 5
  Packets <- McPackets
INVARIANTS DecodedIsSent UndisturbedIsDecoded
