\* Firmware that keeps to the protocol: long messages, put aside and resumed.
SPECIFICATION FairSpec
CONSTANTS
  BlockLen = 4
  LenLen = 2
  DigestLen = 2
  a = a
  b = b
  Bytes = {a, b}
  Keys = {k1}
  Chunks <- ShortAndLong
  MaxMsg = 5
  MaxStray = 0
INVARIANTS NothingLost DigestCorrect
PROPERTIES ImplementsHashSpec AccessReturns
