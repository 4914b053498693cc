\* Firmware that leaves the protocol and changes keys: shorter messages.
SPECIFICATION Spec
CONSTANTS
  BlockLen = 4
  LenLen = 2
  DigestLen = 2
  a = a
  b = b
  Bytes = {a, b}
  Keys = {k1, k2}
  Chunks <- OneLong
  MaxMsg = 0
  MaxStray = 1
INVARIANTS IInv DoneIsDone
