-------------------------------- MODULE PciRegs --------------------------------
(***************************************************************************)
(* The registers behind the BARs of the functions of the PCH: HECI         *)
(* (periph/gasket/heci), the power management controller (periph/pmc) and  *)
(* the global block of the trace hub (periph/tracehub/gth.c, rs1.c); and   *)
(* those of the AES unit of the crypto subsystem (periph/ocs/aes), which   *)
(* has no state.                                                           *)
(*                                                                         *)
(* A message is what pci_simple_mem_read and pci_simple_mem_write hand to  *)
(* the function (CallSimple of Fabric): a BAR, an offset in it and a size. *)
(* HECI logs every change of a field of its two status registers, which is *)
(* all that a user sees of the boot.  A word is the set of its bits.       *)
(***************************************************************************)
EXTENDS Integers, FiniteSets

CONSTANTS
  PciSai,     (* the entries sai of HECI ("heci") and PMC ("pmc")          *)
  D31id,      (* the entry d31id of PMC                                    *)
  FakeProbe,  (* the entry fake_probe of the trace hub is not zero         *)
  PciWrites,  (* the writes of firmware: [fn, bar, off, count, word] ...   *)
  PciReads    (* ... and its reads: [fn, bar, off, count]                  *)

Functions == {"heci", "pmc", "thub", "aes"}
Message == [fn : Functions, bar : 0 .. 3, off : Nat, count : Nat]

PciRegsAssumption ==
  /\ PciSai \in [{"heci", "pmc"} -> Nat]
  /\ D31id \in SUBSET (0 .. 31)
  /\ FakeProbe \in BOOLEAN
  /\ PciReads \subseteq Message
  /\ \A m \in PciWrites :
       /\ [fn |-> m.fn, bar |-> m.bar, off |-> m.off, count |-> m.count] \in Message
       /\ m.word \in SUBSET (0 .. 31)

VARIABLES
  pciRegs,    (* the registers, by function and offset                     *)
  pciRet,     (* what the last message was answered with                   *)
  pciValue,   (* what the caller of the last read has in its buffer        *)
  told,       (* what the log said last of each status field               *)
  pciWatched, (* history: one cell, ...                                    *)
  pciSeen     (* ... and the last word that was written to it, in a set    *)

pciVars == <<pciRegs, pciRet, pciValue, told, pciWatched, pciSeen>>

Declined == -1

HeciOffsets == {\h4, \h10, \h14, \h18, \h1C, \h20, \h24, \h28, \h5C}
Fs == \h4
Gs1 == \h10

(* gth_scrpd0 and gth_swdest[32]. *)
Scrpd0 == \hE0
SwDest == {8 + 4 * i : i \in 0 .. 31}
GthOffsets == SwDest \cup {Scrpd0}
GthEnd == \h2000   (* TRACEHUB_TSCU_OFFSET *)
FtmrEnd == \h400000
AesSize == \h1000

Offsets(fn) ==
  CASE fn = "heci" -> HeciOffsets [] fn = "thub" -> GthOffsets [] OTHER -> {}

(* The logged fields: the register, the name, the first bit and the last. *)
Fields ==
  {<<Fs, "state", 0, 3>>, <<Fs, "mfg_mode", 4, 4>>, <<Fs, "partition_valid", 5, 5>>,
   <<Fs, "opstate", 6, 8>>, <<Fs, "init_complete", 9, 9>>, <<Fs, "bup_failure", 10, 10>>,
   <<Fs, "bit11", 11, 11>>, <<Fs, "error", 12, 15>>, <<Fs, "opmode", 16, 19>>,
   <<Gs1, "icc", 1, 2>>, <<Gs1, "fs_corrupted", 6, 6>>, <<Gs1, "progress", 16, 23>>,
   <<Gs1, "bits27_24", 24, 27>>, <<Gs1, "module", 28, 31>>}

FieldBits(f) == f[3] .. f[4]

(* tracehub_fake_probe, or zero. *)
Reset(fn, o) ==
  CASE fn = "thub" /\ FakeProbe /\ o = Scrpd0 -> {24}
    [] fn = "thub" /\ FakeProbe /\ o = 16 -> {3, 7, 11, 15, 19}
    [] OTHER -> {}

PciInit ==
  /\ pciRegs = [fn \in Functions |-> [o \in Offsets(fn) |-> Reset(fn, o)]]
  /\ pciRet = 0 /\ pciValue = {}
  /\ told = [f \in Fields |-> {}]
  /\ pciWatched \in PciReads /\ pciSeen = {}

(* Mutant of PciNamed: the size is not checked. *)
PciNamedAnySize(m) == IF m.bar = 0 THEN {m.off} \cap Offsets(m.fn) ELSE {}

(* The register that a message names, if any: words only, in BAR 0. *)
PciNamed(m) == IF m.bar = 0 /\ m.count = 4 THEN {m.off} \cap Offsets(m.fn) ELSE {}

(* The answers: HECI and PMC give their sai to whatever they are asked in   *)
(* the BARs they know, the trace hub 1 in BAR 0 and in its trace memory.   *)
Answer(m, rw) ==
  CASE m.fn = "heci" -> IF m.bar = 0 THEN PciSai["heci"] ELSE Declined
    [] m.fn = "pmc" -> IF m.bar = 0 \/ (m.bar = 1 /\ rw = "read") THEN PciSai["pmc"]
                       ELSE Declined
    [] m.fn = "thub" -> IF m.bar = 0 THEN 1
                        ELSE IF m.bar = 3 THEN (IF m.off < FtmrEnd THEN 1 ELSE 0)
                        ELSE Declined
    [] m.fn = "aes" -> IF m.off < AesSize THEN 1 ELSE 0

(* PMC has two cells that can be read, and none that can be written. *)
PmcGives(m) ==
  IF m.bar = 0 /\ m.count = 4 /\ m.off = \h20 THEN D31id
  ELSE IF m.bar = 0 /\ m.count = 4 /\ m.off = \h310 THEN {3}
  ELSE {}

(* A status of the AES unit, of which the whole word is given to a read of *)
(* any size.                                                               *)
AesGives(m) == IF m.off = \h5C THEN {1} ELSE {}

(* What a read puts into the buffer, which holds zero before. *)
PciGives(m) ==
  CASE m.fn = "pmc" -> PmcGives(m)
    [] m.fn = "aes" -> AesGives(m)
    [] OTHER -> UNION {pciRegs[m.fn][o] : o \in PciNamed(m)}

PciRead(m) ==
  /\ pciRet' = Answer(m, "read") /\ pciValue' = PciGives(m)
  /\ UNCHANGED <<pciRegs, told, pciWatched, pciSeen>>

(* Mutant of Changed: the mask of a field is its lowest bit. *)
ChangedLow(f, old, word) == f[3] \in (old \ word) \cup (word \ old)

(* heci_handle_fs_change, heci_handle_gs1_change: a field in which a bit    *)
(* differs is logged, with its new value.  The texts of a field are        *)
(* different, so that they tell its value: the entry of a table (of        *)
(* fs_error and fs_opmode the last one is a null pointer), or the number.  *)
Changed(f, old, word) == FieldBits(f) \cap ((old \ word) \cup (word \ old)) # {}

Log(o, word) ==
  [f \in Fields |-> IF f[1] = o /\ Changed(f, pciRegs["heci"][o], word)
                      THEN FieldBits(f) \cap word ELSE told[f]]

(* The change is logged before the word is stored. *)
PciWrite(m) ==
  /\ pciRet' = Answer(m, "write") /\ pciValue' = {}
  /\ pciRegs' = IF PciNamed(m) = {} THEN pciRegs
                ELSE [pciRegs EXCEPT ![m.fn][m.off] = m.word]
  /\ told' = IF m.fn = "heci" /\ PciNamed(m) \cap {Fs, Gs1} # {} THEN Log(m.off, m.word)
             ELSE told
  /\ pciSeen' = IF PciNamed(m) # {} /\ <<m.fn, m.bar, m.off, m.count>> =
                <<pciWatched.fn, pciWatched.bar, pciWatched.off, pciWatched.count>>
               THEN {m.word} ELSE pciSeen
  /\ UNCHANGED pciWatched

PciNext ==
  \/ \E m \in PciReads : PciRead(m)
  \/ \E m \in PciWrites : PciWrite(m)

PciSpec == PciInit /\ [][PciNext]_pciVars

-----------------------------------------------------------------------------
(* Properties. *)

PciTypeOK ==
  /\ DOMAIN pciRegs = Functions
  /\ \A fn \in Functions : pciRegs[fn] \in [Offsets(fn) -> SUBSET (0 .. 31)]
  /\ told \in [Fields -> SUBSET (0 .. 31)]
  /\ pciWatched \in PciReads

(* Who keeps the last message of the log for every field knows the status  *)
(* registers, after any writes, of whole words and of other sizes: a change *)
(* is never missed, and never told of another field                        *)
(* (heci_handle_fs_change, heci_handle_gs1_change).                        *)
LogTellsStatus ==
  \A f \in Fields : told[f] = pciRegs["heci"][f[1]] \cap FieldBits(f)

(* A cell of HECI or of the trace hub gives the last word that was written  *)
(* to it, or its reset value, whatever was written elsewhere or in another *)
(* size; what is no cell gives nothing, however it was written             *)
(* (heci_bar_write, tracehub_gth_write).                                   *)
CellsHold ==
  pciWatched.fn \in {"heci", "thub"} =>
    PciGives(pciWatched) =
      IF pciSeen = {} /\ PciNamed(pciWatched) # {} THEN Reset(pciWatched.fn, pciWatched.off)
                                                ELSE UNION pciSeen
=============================================================================
