\* Formats of every conversion, and files as meant and with one mistake.
SPECIFICATION BenchFairSpec
CONSTANTS
  Formats <- McFormats
  Args <- McArgs
  CharMod = 8
  ShortMod = 16
  IntMod = 64
  SignedBuf = 13
  UnsignedBuf = 9
  NfBuf = 13
  BufSizes = {4, 12}
  Levels = {0, 2, 5}
  LogLevel = 2
  Words = {"", "f", "cfg", "include", "device", "a", "b", "x", "y", "p", "q"}
  Files <- McFiles
  Spare <- McSpare
  Modulus = 256
INVARIANTS FormatsAsMeant MessageIsShown OnlyTheGrammar SourceIsRead
PROPERTY TextEnds
CHECK_DEADLOCK FALSE
