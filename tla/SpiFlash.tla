-------------------------------- MODULE SpiFlash --------------------------------
(***************************************************************************)
(* The fast SPI controller: periph/spi/spi.c.                              *)
(*                                                                         *)
(* The hardware sequencer runs inside the register write that starts it,   *)
(* on the image file, which it seeks, reads and writes.  The software      *)
(* sequencer runs no cycle but says that it did.  A byte of the flash is   *)
(* the set of its bits that are one; the file has the cells of Flash, and  *)
(* a read or a write that goes over its end, or that the system refuses,   *)
(* comes up short.                                                         *)
(***************************************************************************)
EXTENDS Integers, SequencesExt, FiniteSetsExt

CONSTANTS
  Bits,       (* the bits of a byte                                        *)
  FlashSize,  (* the length of the image file                              *)
  FifoSize,   (* the length of spi_buffer: 64 in the code                  *)
  Image,      (* what the file holds                                       *)
  MaxAddr,    (* the addresses that firmware uses: 0 .. MaxAddr            *)
  Data,       (* the bytes that firmware writes                            *)
  Jedec,      (* the entries jedec_00, jedec_01, ... of the configuration  *)
  CellBytes   (* the bytes of one of them in spi_jedec_id: 4               *)

ASSUME SpiAssumption ==
  /\ {FlashSize, FifoSize, CellBytes} \subseteq Nat \ {0}
  /\ MaxAddr \in Nat
  /\ Image \in [0 .. FlashSize - 1 -> SUBSET Bits]
  /\ Data \subseteq SUBSET Bits /\ Jedec \in Seq(SUBSET Bits)

VARIABLES
  hsflctl,    (* [done, err, cycle, count]                                 *)
  faddr,
  ssfdone,    (* the done flag of SSFSTS_CTL                               *)
  fifo,       (* spi_buffer                                                *)
  flash,      (* the image file                                            *)
  last,       (* history: the outcome of the last cycle, ...               *)
  cleared,    (* ... whether its start cleared the flags, ...              *)
  shown       (* ... and the cells of the flash that the FIFO shows        *)

vars == <<hsflctl, faddr, ssfdone, fifo, flash, last, cleared, shown>>

Cycles == {"Read", "Write", "Erase4K", "ReadJEDEC", "ReadStatus"}

Byte == SUBSET Bits
Blank == {}

-----------------------------------------------------------------------------
Init ==
  /\ hsflctl = [done |-> FALSE, err |-> FALSE, cycle |-> "Read", count |-> 1]
  /\ faddr = 0 /\ ssfdone = FALSE
  /\ fifo = [i \in 1 .. FifoSize |-> Blank]
  /\ flash = Image
  /\ last = "none" /\ cleared = FALSE /\ shown = [i \in 1 .. FifoSize |-> -1]

(* The cells that a transfer of n bytes from faddr reaches. *)
Reached(n) == {i \in 1 .. n : faddr + i - 1 < FlashSize}

(* Mutant of Cell: the file is not sought first. *)
CellUnsought(i) == flash[i - 1]

Cell(i) == flash[faddr + i - 1]

(* spi_jedec_id as memory: the first byte of every cell holds the value. *)
JedecByte(i) ==
  IF (i - 1) % CellBytes = 0 /\ (i - 1) \div CellBytes + 1 \in DOMAIN Jedec
    THEN Jedec[(i - 1) \div CellBytes + 1]
    ELSE Blank

(* A cycle ends well, or with a flash error. *)
Outcome(ctl, ok) ==
  IF ok THEN [ctl EXCEPT !.done = TRUE] ELSE [ctl EXCEPT !.err = TRUE]

Ends(ctl, ok) ==
  hsflctl' = Outcome(ctl, ok) /\ last' = IF ok THEN "ok" ELSE "error"

(* The cells that came are in the buffer, also of a read that is short. *)
ReadCycle(ctl) ==
  \E got \in {Reached(ctl.count)} \cup {{}} :
    /\ fifo' = [i \in DOMAIN fifo |-> IF i \in got THEN Cell(i) ELSE fifo[i]]
    /\ shown' = [i \in DOMAIN fifo |-> IF i \in got THEN faddr + i - 1 ELSE shown[i]]
    /\ Ends(ctl, Cardinality(got) = ctl.count)
    /\ UNCHANGED flash

(* Mutant of Programmed: the file takes what the buffer holds. *)
ProgrammedOver(i) == fifo[i]

(* A bit that is zero stays zero. *)
Programmed(i) == fifo[i] \cap Cell(i)

(* The old cells are read first, and the write is not tried when they are   *)
(* not all there; the buffer then holds what is written.                   *)
WriteCycle(ctl) ==
  \/ /\ Ends(ctl, FALSE)
     /\ UNCHANGED <<fifo, flash, shown>>
  \/ /\ Cardinality(Reached(ctl.count)) = ctl.count
     /\ fifo' = [i \in DOMAIN fifo |-> IF i <= ctl.count THEN Programmed(i) ELSE fifo[i]]
     /\ \E wrote \in 0 .. ctl.count :
          /\ flash' = [a \in DOMAIN flash |->
                         IF a - faddr \in 0 .. wrote - 1 THEN Programmed(a - faddr + 1)
                                                         ELSE flash[a]]
          /\ shown' = [i \in DOMAIN fifo |->
                         IF i <= wrote THEN faddr + i - 1
                         ELSE IF i <= ctl.count \/ shown[i] \in faddr .. faddr + wrote - 1 THEN -1
                         ELSE shown[i]]
          /\ Ends(ctl, wrote = ctl.count)

JedecCycle(ctl) ==
  /\ fifo' = [i \in DOMAIN fifo |-> IF i <= ctl.count THEN JedecByte(i) ELSE fifo[i]]
  /\ shown' = [i \in DOMAIN fifo |-> IF i <= ctl.count THEN -1 ELSE shown[i]]
  /\ Ends(ctl, TRUE)
  /\ UNCHANGED flash

(* The other cycles do nothing, and end well. *)
OtherCycle(ctl) == Ends(ctl, TRUE) /\ UNCHANGED <<fifo, flash, shown>>

-----------------------------------------------------------------------------
(* Register accesses. *)

(* The flags that are written as one go. *)
Flags(ctl, clear) ==
  [ctl EXCEPT !.done = @ /\ "done" \notin clear, !.err = @ /\ "err" \notin clear]

(* CSXE_HSFLCTL without F_GO: the flags and the fields. *)
WriteControl(clear, cycle, count) ==
  /\ hsflctl' = [Flags(hsflctl, clear) EXCEPT !.cycle = cycle, !.count = count]
  /\ cleared' = FALSE
  /\ UNCHANGED <<faddr, ssfdone, fifo, flash, last, shown>>

(* CSXE_HSFLCTL with F_GO: the cycle runs before the write returns. *)
Go(clear, cycle, count) ==
  LET ctl == [Flags(hsflctl, clear) EXCEPT !.cycle = cycle, !.count = count] IN
  /\ \/ cycle = "Read" /\ ReadCycle(ctl)
     \/ cycle = "Write" /\ WriteCycle(ctl)
     \/ cycle = "ReadJEDEC" /\ JedecCycle(ctl)
     \/ cycle \in {"Erase4K", "ReadStatus"} /\ OtherCycle(ctl)
  /\ cleared' = ({"done", "err"} \subseteq clear)
  /\ UNCHANGED <<faddr, ssfdone>>

WriteAddress(a) ==
  /\ faddr' = a
  /\ UNCHANGED <<hsflctl, ssfdone, fifo, flash, last, cleared, shown>>

(* The data registers: a transfer over the end of the buffer is not made,   *)
(* and no sequencer is looked at.                                          *)
WriteData(i, byte) ==
  /\ i <= FifoSize
  /\ fifo' = [fifo EXCEPT ![i] = byte]
  /\ shown' = [shown EXCEPT ![i] = -1]
  /\ UNCHANGED <<hsflctl, faddr, ssfdone, flash, last, cleared>>

(* CSXE_SSFSTS_CTL: the flag that is written as one goes, and the software  *)
(* sequencer says at once that it is done.                                 *)
WriteSoftware(clear, go) ==
  /\ ssfdone' = (go \/ (ssfdone /\ ~ clear))
  /\ UNCHANGED <<hsflctl, faddr, fifo, flash, last, cleared, shown>>

Next ==
  \/ \E clear \in SUBSET {"done", "err"}, cycle \in Cycles, count \in 1 .. FifoSize :
       WriteControl(clear, cycle, count) \/ Go(clear, cycle, count)
  \/ \E a \in 0 .. MaxAddr : WriteAddress(a)
  \/ \E i \in 1 .. FifoSize + 1, byte \in Data : WriteData(i, byte)
  \/ \E clear, go \in BOOLEAN : WriteSoftware(clear, go)

Spec == Init /\ [][Next]_vars

-----------------------------------------------------------------------------
(* Properties. *)

TypeOK ==
  /\ hsflctl \in [done : BOOLEAN, err : BOOLEAN, cycle : Cycles, count : 1 .. FifoSize]
  /\ faddr \in 0 .. MaxAddr /\ ssfdone \in BOOLEAN
  /\ fifo \in [1 .. FifoSize -> Byte]
  /\ flash \in [0 .. FlashSize - 1 -> Byte]
  /\ shown \in [1 .. FifoSize -> -1 .. FlashSize - 1]

(* The data registers show the flash: a cell that a cycle brought into the  *)
(* buffer is the cell of the flash until firmware or a cycle replaces it,  *)
(* also after later cycles elsewhere, failed and short ones among them.    *)
FifoShowsFlash ==
  \A i \in 1 .. FifoSize : shown[i] # -1 => fifo[i] = flash[shown[i]]

(* Firmware that clears both flags when it starts a cycle reads from them   *)
(* how this cycle ended, and nothing of the cycles before.                 *)
StatusIsLast ==
  cleared => /\ hsflctl.done = (last = "ok")
             /\ hsflctl.err = (last = "error")

(* Flash memory: no cycle sets a bit of the file, and none changes a cell   *)
(* outside of its address and count, or any cell when the old contents     *)
(* could not be read.                                                      *)
OnlyClears ==
  [][ \A a \in DOMAIN flash :
        /\ flash'[a] \subseteq flash[a]
        /\ flash'[a] # flash[a] =>
             /\ hsflctl'.cycle = "Write"
             /\ a \in faddr .. faddr + hsflctl'.count - 1
             /\ faddr + hsflctl'.count <= FlashSize ]_vars
=============================================================================
