------------------------------- MODULE MCDevices -------------------------------
(***************************************************************************)
(* The register devices that share no state: the flash controller, the     *)
(* sideband with its three devices, and the functions of the PCH.  A       *)
(* behaviour puts one of them on the bench and leaves the others alone, so *)
(* that their states add up instead of multiplying.                        *)
(*                                                                         *)
(* SpiFlash: bytes of one bit, a file of three cells, a buffer of two and  *)
(* addresses that reach past the file.  Sideband: endpoints that clash,    *)
(* and one that takes more than its byte.  PciRegs: words that differ in   *)
(* one bit of a field, in several fields and outside of them, and writes   *)
(* of two bytes.                                                           *)
(***************************************************************************)
EXTENDS SpiFlash, Sideband, PciRegs

VARIABLE bench

McImage == [a \in 0 .. FlashSize - 1 |-> IF a = 0 THEN {} ELSE Bits]
McData == SUBSET Bits
McJedec == <<Bits, Bits>>

-----------------------------------------------------------------------------
SbType == [fuse |-> "fusectl", dfx |-> "dfxagg", exi |-> "exi"]
SbEndpoints == [fuse |-> {1}, dfx |-> {2, 257}, exi |-> {2}]
SbSai == [fuse |-> 36, dfx |-> 46, exi |-> 47]
SbEntry == [fuse |-> {}, dfx |-> {2}, exi |-> {}]

SbRead(bar, off, count) == [op |-> 6, bar |-> bar, off |-> off, count |-> count]
SbWrite(bar, off, words) ==
  {[op |-> 7, bar |-> bar, off |-> off, count |-> 4, word |-> w] : w \in words}

SbReads ==
  {SbRead(4, 0, 4), SbRead(4, 20, 4), SbRead(4, \h1024, 4), SbRead(1, \h404, 4),
   SbRead(0, 0, 4), SbRead(0, 4, 4), SbRead(0, 16, 4)}
SbWrites ==
  SbWrite(4, 0, {{17, 0}, {17, 18}}) \cup SbWrite(4, 20, {{23}, {24}})
    \cup SbWrite(4, \h80, {{1}, {31}}) \cup SbWrite(4, \h1024, {{0}})
    \cup SbWrite(1, \h1024, {{1}}) \cup SbWrite(0, 0, {{0}, {}})
    \cup SbWrite(0, 4, {{}, {0}, {30}, {0, 30}}) \cup SbWrite(0, 16, {{0}})
    \cup {[op |-> 6, bar |-> 0, off |-> 0, count |-> 4, word |-> {}],
          [op |-> 7, bar |-> 0, off |-> 4, count |-> 2, word |-> {1}]}

-----------------------------------------------------------------------------
McPciSai == [heci |-> 0, pmc |-> 20]

ReadOf(fn, bar, off, count) == [fn |-> fn, bar |-> bar, off |-> off, count |-> count]
WritesOf(fn, bar, off, count, words) ==
  {[fn |-> fn, bar |-> bar, off |-> off, count |-> count, word |-> w] : w \in words}

McPciReads ==
  {ReadOf("heci", 0, o, 4) : o \in {\h4, \h10, \h14, \hC}}
    \cup {ReadOf("thub", 0, o, 4) : o \in {\h10, \h84, \hE0}}
    \cup {ReadOf("thub", 3, 8, 4), ReadOf("thub", 1, 8, 4)}
    \cup {ReadOf("pmc", 0, \h20, 4), ReadOf("pmc", 0, \h310, 4), ReadOf("pmc", 1, 0, 4)}
    \cup {ReadOf("aes", 0, o, 1) : o \in {\h58, \h5C}}
McPciWrites ==
  WritesOf("heci", 0, \h4, 4, {{0, 2, 12}, {0, 9, 13}, {9, 12, 16, 31}})
    \cup WritesOf("heci", 0, \h4, 2, {{1}})
    \cup WritesOf("heci", 0, \h10, 4, {{28, 29}, {29, 16}, {1, 31, 20}})
    \cup WritesOf("heci", 0, \h14, 4, {{1}})
    \cup WritesOf("thub", 0, \h10, 4, {{1}}) \cup WritesOf("thub", 0, \h10, 2, {{3}})
    \cup WritesOf("thub", 0, 4, 4, {{3}})
    \cup UNION {WritesOf("thub", 0, o, 4, {{2}}) : o \in {\h84, \h88, \hE0}}
    \cup WritesOf("pmc", 0, \h20, 4, {{3}}) \cup WritesOf("pmc", 1, \h20, 4, {{3}})
    \cup WritesOf("aes", 0, \h5C, 4, {{0}})

-----------------------------------------------------------------------------
(* A device that is not on the bench stays as it starts. *)
BenchInit ==
  /\ bench \in {"spi", "sideband", "pci"}
  /\ Init
  /\ SbInit
  /\ bench = "sideband" \/ watched = [ep |-> 1, msg |-> SbRead(4, 0, 4)]
  /\ PciInit
  /\ bench = "pci" \/ pciWatched = ReadOf("heci", 0, Fs, 4)

BenchNext ==
  /\ UNCHANGED bench
  /\ \/ bench = "spi" /\ Next /\ UNCHANGED <<sbVars, pciVars>>
     \/ bench = "sideband" /\ SbNext /\ UNCHANGED <<vars, pciVars>>
     \/ bench = "pci" /\ PciNext /\ UNCHANGED <<vars, sbVars>>

BenchSpec == BenchInit /\ [][BenchNext]_<<bench, vars, sbVars, pciVars>>

(* The assumptions of the other modules hold for the values above.         *)
ASSUME BenchAssumption == SidebandAssumption /\ PciRegsAssumption
=============================================================================
