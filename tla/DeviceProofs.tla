----------------------------- MODULE DeviceProofs -----------------------------
(***************************************************************************)
(* What firmware may rely on of the register devices.                      *)
(*                                                                         *)
(* SpiFlash, for any file, any buffer and any addresses: what the data      *)
(* registers show, what the flags say, and what a cycle may do to the file. *)
(*                                                                         *)
(* Sideband, for every choice of devices, endpoints, entries and messages:  *)
(* Settled is why.  Whatever was written, no command, no start bit and no   *)
(* clear bit is left in the fuse controller when a write has been answered, *)
(* so that no later write does over what was done.                         *)
(*                                                                         *)
(* PciRegs, for every set of messages: a write changes one cell, and what   *)
(* the log is told is compared with that cell before it is changed.        *)
(***************************************************************************)
EXTENDS SpiFlash, Sideband, PciRegs, FiniteSetTheorems, TLAPS

-----------------------------------------------------------------------------
(* The flash controller (module SpiFlash). *)

Controls == [done : BOOLEAN, err : BOOLEAN, cycle : Cycles, count : 1 .. FifoSize]
Fifos == [1 .. FifoSize -> Byte]
Files == [0 .. FlashSize - 1 -> Byte]
Places == [1 .. FifoSize -> -1 .. FlashSize - 1]

Inv == TypeOK /\ FifoShowsFlash /\ StatusIsLast

-----------------------------------------------------------------------------
(* What the parts of a cycle return. *)

(* A transfer that reaches all of its cells ends in the file. *)
LEMMA WholeReach ==
  ASSUME TypeOK, NEW n \in 1 .. FifoSize
  PROVE  Cardinality(Reached(n)) = n => Reached(n) = 1 .. n /\ faddr + n <= FlashSize
<1> SUFFICES ASSUME Cardinality(Reached(n)) = n
             PROVE  Reached(n) = 1 .. n /\ faddr + n <= FlashSize
  OBVIOUS
<1>1. Reached(n) \in SUBSET (1 .. n)
  BY DEF Reached
<1>2. IsFiniteSet(1 .. n) /\ Cardinality(1 .. n) = n
  BY SpiAssumption, FS_Interval
<1>3. Reached(n) = 1 .. n
  BY <1>1, <1>2, FS_Subset
<1>4. n \in Reached(n)
  BY <1>3, SpiAssumption
<1> QED BY <1>3, <1>4, SpiAssumption DEF Reached, TypeOK

(* A cell that is reached is one of the file. *)
LEMMA ReachedCell ==
  ASSUME TypeOK, NEW n \in 1 .. FifoSize, NEW i \in Reached(n)
  PROVE  faddr + i - 1 \in 0 .. FlashSize - 1 /\ Cell(i) \in Byte
  BY SpiAssumption DEF Reached, TypeOK, Cell

LEMMA JedecType ==
  ASSUME NEW i \in 1 .. FifoSize
  PROVE  JedecByte(i) \in Byte
  BY SpiAssumption DEF JedecByte, Byte, Blank

LEMMA EndsType ==
  ASSUME NEW ctl \in Controls, NEW ok, Ends(ctl, ok)
  PROVE  hsflctl' \in Controls
<1>1. CASE ok
  BY <1>1 DEF Ends, Outcome, Controls
<1>2. CASE ~ ok
  BY <1>2 DEF Ends, Outcome, Controls
<1> QED BY <1>1, <1>2

(* With both flags clear before, they say how the cycle ended. *)
LEMMA EndsStatus ==
  ASSUME NEW ctl \in Controls, NEW ok, Ends(ctl, ok), ~ ctl.done, ~ ctl.err
  PROVE  hsflctl'.done = (last' = "ok") /\ hsflctl'.err = (last' = "error")
<1>1. CASE ok
  BY <1>1 DEF Ends, Outcome, Controls
<1>2. CASE ~ ok
  BY <1>2 DEF Ends, Outcome, Controls
<1> QED BY <1>1, <1>2

(* The control register that a write leaves, before its cycle. *)
FlashStart(clear, cycle, count) ==
  [Flags(hsflctl, clear) EXCEPT !.cycle = cycle, !.count = count]

LEMMA StartControl ==
  ASSUME TypeOK, NEW clear \in SUBSET {"done", "err"}, NEW cycle \in Cycles,
         NEW count \in 1 .. FifoSize
  PROVE  /\ FlashStart(clear, cycle, count) \in Controls
         /\ FlashStart(clear, cycle, count).count = count
         /\ FlashStart(clear, cycle, count).cycle = cycle
         /\ {"done", "err"} \subseteq clear =>
              ~ FlashStart(clear, cycle, count).done /\ ~ FlashStart(clear, cycle, count).err
<1>1. hsflctl \in Controls
  BY DEF TypeOK, Controls
<1>2. Flags(hsflctl, clear) = [hsflctl EXCEPT !.done = @ /\ "done" \notin clear,
                                              !.err = @ /\ "err" \notin clear]
  BY DEF Flags
<1>3. Flags(hsflctl, clear) \in Controls
  BY <1>1, <1>2 DEF Controls
<1>4. /\ FlashStart(clear, cycle, count) \in Controls
      /\ FlashStart(clear, cycle, count).count = count
      /\ FlashStart(clear, cycle, count).cycle = cycle
      /\ FlashStart(clear, cycle, count).done = Flags(hsflctl, clear).done
      /\ FlashStart(clear, cycle, count).err = Flags(hsflctl, clear).err
  BY <1>3 DEF Controls, FlashStart
<1>5. {"done", "err"} \subseteq clear =>
        ~ Flags(hsflctl, clear).done /\ ~ Flags(hsflctl, clear).err
  BY <1>1, <1>2 DEF Controls
<1> QED BY <1>4, <1>5

-----------------------------------------------------------------------------
(* What a cycle does to the buffer and the file. *)

FlashShows == \A i \in 1 .. FifoSize : shown'[i] # -1 => fifo'[i] = flash'[shown'[i]]

LEMMA ReadData ==
  ASSUME Inv, NEW ctl \in Controls, ReadCycle(ctl)
  PROVE  fifo' \in Fifos /\ flash' \in Files /\ shown' \in Places /\ FlashShows
<1>1. PICK got \in {Reached(ctl.count)} \cup {{}} :
        /\ fifo' = [i \in DOMAIN fifo |-> IF i \in got THEN Cell(i) ELSE fifo[i]]
        /\ shown' = [i \in DOMAIN fifo |-> IF i \in got THEN faddr + i - 1 ELSE shown[i]]
        /\ UNCHANGED flash
  BY DEF ReadCycle
<1>2. TypeOK /\ FifoShowsFlash /\ ctl.count \in 1 .. FifoSize
  BY DEF Inv, Controls
<1>3. fifo \in Fifos /\ flash \in Files /\ shown \in Places
  BY <1>2 DEF TypeOK, Fifos, Files, Places
<1>4. ASSUME NEW i \in got
      PROVE  faddr + i - 1 \in 0 .. FlashSize - 1 /\ Cell(i) \in Byte
  BY <1>2, <1>4, ReachedCell
<1>5. fifo' \in Fifos
  BY <1>1, <1>3, <1>4 DEF Fifos
<1>6. shown' \in Places
  <2>1. ASSUME NEW i \in 1 .. FifoSize
        PROVE  (IF i \in got THEN faddr + i - 1 ELSE shown[i]) \in -1 .. FlashSize - 1
    <3>1. CASE i \in got
      BY <3>1, <1>4, SpiAssumption
    <3>2. CASE i \notin got
      BY <3>2, <1>3 DEF Places
    <3> QED BY <3>1, <3>2
  <2> QED BY <1>1, <1>3, <2>1 DEF Fifos, Places
<1>7. FlashShows
  <2> SUFFICES ASSUME NEW i \in 1 .. FifoSize, shown'[i] # -1
               PROVE  fifo'[i] = flash'[shown'[i]]
    BY DEF FlashShows
  <2>1. CASE i \in got
    BY <1>1, <1>3, <2>1 DEF Fifos, Cell
  <2>2. CASE i \notin got
    BY <1>1, <1>2, <1>3, <2>2 DEF Fifos, FifoShowsFlash
  <2> QED BY <2>1, <2>2
<1> QED BY <1>1, <1>3, <1>5, <1>6, <1>7

LEMMA ProgramData ==
  ASSUME Inv, NEW ctl \in Controls, WriteCycle(ctl)
  PROVE  /\ fifo' \in Fifos /\ flash' \in Files /\ shown' \in Places /\ FlashShows
         /\ \A a \in DOMAIN flash :
              /\ flash'[a] \subseteq flash[a]
              /\ flash'[a] # flash[a] =>
                   a \in faddr .. faddr + ctl.count - 1 /\ faddr + ctl.count <= FlashSize
<1>1. TypeOK /\ FifoShowsFlash /\ ctl.count \in 1 .. FifoSize
  BY DEF Inv, Controls
<1>2. fifo \in Fifos /\ flash \in Files /\ shown \in Places /\ faddr \in Nat
  BY <1>1, SpiAssumption DEF TypeOK, Fifos, Files, Places
<1>3. CASE UNCHANGED <<fifo, flash, shown>>
  <2>1. FlashShows
    BY <1>1, <1>3 DEF FlashShows, FifoShowsFlash
  <2> QED BY <1>2, <1>3, <2>1
<1>4. CASE ~ UNCHANGED <<fifo, flash, shown>>
  <2>1. /\ Cardinality(Reached(ctl.count)) = ctl.count
        /\ fifo' = [i \in DOMAIN fifo |-> IF i <= ctl.count THEN Programmed(i) ELSE fifo[i]]
    BY <1>4 DEF WriteCycle
  <2>2. PICK wrote \in 0 .. ctl.count :
          /\ flash' = [a \in DOMAIN flash |->
                         IF a - faddr \in 0 .. wrote - 1 THEN Programmed(a - faddr + 1)
                                                         ELSE flash[a]]
          /\ shown' = [i \in DOMAIN fifo |->
                         IF i <= wrote THEN faddr + i - 1
                         ELSE IF i <= ctl.count \/ shown[i] \in faddr .. faddr + wrote - 1 THEN -1
                         ELSE shown[i]]
    BY <1>4 DEF WriteCycle
  <2>3. Reached(ctl.count) = 1 .. ctl.count /\ faddr + ctl.count <= FlashSize
    BY <1>1, <2>1, WholeReach
  <2>4. ASSUME NEW i \in 1 .. ctl.count
        PROVE  /\ faddr + i - 1 \in 0 .. FlashSize - 1
               /\ Programmed(i) \in Byte /\ Programmed(i) \subseteq flash[faddr + i - 1]
    <3>1. faddr + i - 1 \in 0 .. FlashSize - 1 /\ Cell(i) \in Byte
      BY <1>1, <2>3, ReachedCell
    <3> QED BY <3>1 DEF Programmed, Byte, Cell
  <2>5. fifo' \in Fifos
    <3>1. ASSUME NEW i \in 1 .. FifoSize
          PROVE  (IF i <= ctl.count THEN Programmed(i) ELSE fifo[i]) \in Byte
      BY <1>1, <1>2, <2>4 DEF Fifos
    <3> QED BY <1>2, <2>1, <3>1 DEF Fifos
  <2>6. ASSUME NEW a \in 0 .. FlashSize - 1
        PROVE  /\ flash'[a] \in Byte /\ flash'[a] \subseteq flash[a]
               /\ flash'[a] # flash[a] => a \in faddr .. faddr + ctl.count - 1
    <3>1. CASE a - faddr \in 0 .. wrote - 1
      <4>1. a - faddr + 1 \in 1 .. ctl.count /\ faddr + (a - faddr + 1) - 1 = a
        BY <1>1, <1>2, <3>1
      <4>2. flash'[a] = Programmed(a - faddr + 1)
        BY <1>2, <2>2, <3>1 DEF Files
      <4>3. Programmed(a - faddr + 1) \in Byte /\ Programmed(a - faddr + 1) \subseteq flash[a]
        BY <2>4, <4>1
      <4>4. a \in faddr .. faddr + ctl.count - 1
        BY <1>1, <1>2, <4>1
      <4> QED BY <4>2, <4>3, <4>4
    <3>2. CASE a - faddr \notin 0 .. wrote - 1
      BY <1>2, <2>2, <3>2 DEF Files
    <3> QED BY <3>1, <3>2
  <2>7. flash' \in Files
    BY <1>2, <2>2, <2>6 DEF Files
  <2>8. shown' \in Places
    <3>1. ASSUME NEW i \in 1 .. FifoSize
          PROVE  (IF i <= wrote THEN faddr + i - 1
                  ELSE IF i <= ctl.count \/ shown[i] \in faddr .. faddr + wrote - 1 THEN -1
                  ELSE shown[i]) \in -1 .. FlashSize - 1
      <4>1. CASE i <= wrote
        <5>1. i \in 1 .. ctl.count
          BY <1>1, <4>1
        <5>2. faddr + i - 1 \in 0 .. FlashSize - 1
          BY <2>4, <5>1
        <5> QED BY <4>1, <5>2, SpiAssumption
      <4>2. CASE ~ (i <= wrote)
        <5>1. shown[i] \in -1 .. FlashSize - 1 /\ -1 \in -1 .. FlashSize - 1
          BY <1>2, SpiAssumption DEF Places
        <5> QED BY <4>2, <5>1
      <4> QED BY <4>1, <4>2
    <3> QED BY <1>2, <2>2, <3>1 DEF Fifos, Places
  <2>9. FlashShows
    <3> SUFFICES ASSUME NEW i \in 1 .. FifoSize, shown'[i] # -1
                 PROVE  fifo'[i] = flash'[shown'[i]]
      BY DEF FlashShows
    <3>1. CASE i <= wrote
      <4>1. i \in 1 .. ctl.count
        BY <1>1, <3>1
      <4>2. shown'[i] = faddr + i - 1 /\ fifo'[i] = Programmed(i)
        BY <1>2, <2>1, <2>2, <3>1, <4>1 DEF Fifos
      <4>3. /\ faddr + i - 1 \in 0 .. FlashSize - 1
            /\ (faddr + i - 1) - faddr \in 0 .. wrote - 1
            /\ (faddr + i - 1) - faddr + 1 = i
        BY <1>2, <2>4, <3>1, <4>1
      <4>4. flash'[faddr + i - 1] = Programmed(i)
        BY <1>2, <2>2, <4>3 DEF Files
      <4> QED BY <4>2, <4>4
    <3>2. CASE ~ (i <= wrote)
      <4>1. /\ ~ (i <= ctl.count) /\ shown'[i] = shown[i] /\ fifo'[i] = fifo[i]
            /\ shown[i] \notin faddr .. faddr + wrote - 1
        BY <1>2, <2>1, <2>2, <3>2 DEF Fifos
      <4>2. shown[i] \in 0 .. FlashSize - 1 /\ fifo[i] = flash[shown[i]]
        BY <1>1, <1>2, <4>1, SpiAssumption DEF FifoShowsFlash, Places
      <4>3. shown[i] - faddr \notin 0 .. wrote - 1
        BY <1>2, <4>1, <4>2
      <4>4. flash'[shown[i]] = flash[shown[i]]
        BY <1>2, <2>2, <4>2, <4>3 DEF Files
      <4> QED BY <4>1, <4>2, <4>4
    <3> QED BY <3>1, <3>2
  <2> QED BY <1>2, <2>3, <2>5, <2>6, <2>7, <2>8, <2>9 DEF Files
<1> QED BY <1>3, <1>4

LEMMA JedecData ==
  ASSUME Inv, NEW ctl \in Controls, JedecCycle(ctl)
  PROVE  fifo' \in Fifos /\ flash' \in Files /\ shown' \in Places /\ FlashShows
<1>1. TypeOK /\ FifoShowsFlash
  BY DEF Inv
<1>2. fifo \in Fifos /\ flash \in Files /\ shown \in Places
  BY <1>1 DEF TypeOK, Fifos, Files, Places
<1>3. /\ fifo' = [i \in 1 .. FifoSize |-> IF i <= ctl.count THEN JedecByte(i) ELSE fifo[i]]
      /\ shown' = [i \in 1 .. FifoSize |-> IF i <= ctl.count THEN -1 ELSE shown[i]]
      /\ flash' = flash
  BY <1>2 DEF JedecCycle, Fifos
<1>4. fifo' \in Fifos
  BY <1>2, <1>3, JedecType DEF Fifos
<1>5. shown' \in Places
  <2>1. -1 \in -1 .. FlashSize - 1
    BY SpiAssumption
  <2> QED BY <1>2, <1>3, <2>1 DEF Places
<1>6. FlashShows
  BY <1>1, <1>3 DEF FlashShows, FifoShowsFlash
<1> QED BY <1>2, <1>3, <1>4, <1>5, <1>6

-----------------------------------------------------------------------------
(* The specification. *)

LEMMA InitInv == Init => Inv
<1> SUFFICES ASSUME Init PROVE Inv
  OBVIOUS
<1>1. fifo \in [1 .. FifoSize -> Byte] /\ shown \in [1 .. FifoSize -> -1 .. FlashSize - 1]
  <2>1. -1 \in -1 .. FlashSize - 1 /\ Blank \in Byte
    BY SpiAssumption DEF Blank, Byte
  <2> QED BY <2>1 DEF Init
<1>2. hsflctl \in [done : BOOLEAN, err : BOOLEAN, cycle : Cycles, count : 1 .. FifoSize]
  <2>1. 1 \in 1 .. FifoSize /\ "Read" \in Cycles
    BY SpiAssumption DEF Cycles
  <2> QED BY <2>1 DEF Init
<1>3. faddr \in 0 .. MaxAddr /\ ssfdone \in BOOLEAN /\ flash \in [0 .. FlashSize - 1 -> Byte]
  <2>1. faddr \in 0 .. MaxAddr
    BY SpiAssumption DEF Init
  <2>2. ssfdone \in BOOLEAN
    BY DEF Init
  <2>3. flash \in [0 .. FlashSize - 1 -> Byte]
    BY SpiAssumption DEF Init, Byte
  <2> QED BY <2>1, <2>2, <2>3
<1>4. TypeOK
  BY <1>1, <1>2, <1>3 DEF TypeOK
<1>5. FifoShowsFlash
  BY DEF Init, FifoShowsFlash
<1>6. StatusIsLast
  BY DEF Init, StatusIsLast
<1> QED BY <1>4, <1>5, <1>6 DEF Inv

(* A cycle. *)
LEMMA GoStep ==
  ASSUME Inv, NEW clear \in SUBSET {"done", "err"}, NEW cycle \in Cycles,
         NEW count \in 1 .. FifoSize, Go(clear, cycle, count)
  PROVE  /\ Inv'
         /\ \A a \in DOMAIN flash :
              /\ flash'[a] \subseteq flash[a]
              /\ flash'[a] # flash[a] =>
                   /\ hsflctl'.cycle = "Write"
                   /\ a \in faddr .. faddr + hsflctl'.count - 1
                   /\ faddr + hsflctl'.count <= FlashSize
<1> DEFINE ctl == FlashStart(clear, cycle, count)
<1>1. /\ ctl \in Controls /\ ctl.count = count /\ ctl.cycle = cycle
      /\ {"done", "err"} \subseteq clear => ~ ctl.done /\ ~ ctl.err
  BY StartControl DEF Inv
<1>2. /\ \/ cycle = "Read" /\ ReadCycle(ctl)
         \/ cycle = "Write" /\ WriteCycle(ctl)
         \/ cycle = "ReadJEDEC" /\ JedecCycle(ctl)
         \/ cycle \in {"Erase4K", "ReadStatus"} /\ OtherCycle(ctl)
      /\ cleared' = ({"done", "err"} \subseteq clear)
      /\ UNCHANGED <<faddr, ssfdone>>
  BY DEF Go, FlashStart
<1> HIDE DEF ctl
<1>3. PICK ok : Ends(ctl, ok)
  BY <1>2 DEF ReadCycle, WriteCycle, JedecCycle, OtherCycle
<1>4. /\ hsflctl' \in Controls
      /\ hsflctl'.cycle = cycle /\ hsflctl'.count = count
  <2>1. hsflctl' \in Controls
    BY <1>1, <1>3, EndsType
  <2>2. hsflctl' = [ctl EXCEPT !.done = TRUE] \/ hsflctl' = [ctl EXCEPT !.err = TRUE]
    BY <1>3 DEF Ends, Outcome
  <2>3. hsflctl'.cycle = ctl.cycle /\ hsflctl'.count = ctl.count
    BY <1>1, <2>2 DEF Controls
  <2> QED BY <1>1, <2>1, <2>3
<1>5. fifo' \in Fifos /\ flash' \in Files /\ shown' \in Places /\ FlashShows
  <2>1. CASE OtherCycle(ctl)
    BY <2>1 DEF OtherCycle, Inv, TypeOK, FifoShowsFlash, Fifos, Files, Places, FlashShows
  <2> QED BY <1>1, <1>2, <2>1, ReadData, ProgramData, JedecData
<1>6. TypeOK'
  <2>1. TypeOK
    BY DEF Inv
  <2> QED BY <1>2, <1>4, <1>5, <2>1 DEF TypeOK, Controls, Fifos, Files, Places
<1>7. FifoShowsFlash'
  BY <1>5 DEF FlashShows, FifoShowsFlash
<1>8. StatusIsLast'
  BY <1>1, <1>2, <1>3, EndsStatus DEF StatusIsLast
<1>9. ASSUME NEW a \in DOMAIN flash
      PROVE  /\ flash'[a] \subseteq flash[a]
             /\ flash'[a] # flash[a] =>
                  /\ hsflctl'.cycle = "Write"
                  /\ a \in faddr .. faddr + hsflctl'.count - 1
                  /\ faddr + hsflctl'.count <= FlashSize
  <2>1. CASE cycle = "Write" /\ WriteCycle(ctl)
    BY <1>1, <1>4, <2>1, ProgramData
  <2>2. CASE UNCHANGED flash
    BY <2>2
  <2> QED BY <1>2, <2>1, <2>2 DEF ReadCycle, JedecCycle, OtherCycle
<1> QED BY <1>6, <1>7, <1>8, <1>9 DEF Inv

LEMMA NextInv == Inv /\ [Next]_vars => Inv'
<1> SUFFICES ASSUME Inv, [Next]_vars PROVE Inv'
  OBVIOUS
<1>1. TypeOK /\ FifoShowsFlash /\ StatusIsLast
  BY DEF Inv
<1>2. ASSUME NEW clear \in SUBSET {"done", "err"}, NEW cycle \in Cycles,
             NEW count \in 1 .. FifoSize, WriteControl(clear, cycle, count)
      PROVE  Inv'
  <2>1. hsflctl' \in Controls
    <3>1. hsflctl' = FlashStart(clear, cycle, count)
      BY <1>2 DEF WriteControl, FlashStart
    <3> QED BY <1>1, <3>1, StartControl
  <2>2. TypeOK'
    BY <1>1, <1>2, <2>1 DEF WriteControl, TypeOK, Controls
  <2>3. FifoShowsFlash' /\ StatusIsLast'
    BY <1>1, <1>2 DEF WriteControl, FifoShowsFlash, StatusIsLast
  <2> QED BY <2>2, <2>3 DEF Inv
<1>3. ASSUME NEW clear \in SUBSET {"done", "err"}, NEW cycle \in Cycles,
             NEW count \in 1 .. FifoSize, Go(clear, cycle, count)
      PROVE  Inv'
  BY <1>3, GoStep
<1>4. ASSUME NEW a \in 0 .. MaxAddr, WriteAddress(a) PROVE Inv'
  BY <1>1, <1>4 DEF WriteAddress, Inv, TypeOK, FifoShowsFlash, StatusIsLast
<1>5. ASSUME NEW i \in 1 .. FifoSize + 1, NEW byte \in Data, WriteData(i, byte) PROVE Inv'
  <2>1. i \in 1 .. FifoSize /\ byte \in Byte
    BY <1>5, SpiAssumption DEF WriteData, Byte
  <2>2. fifo' \in [1 .. FifoSize -> Byte] /\ shown' \in [1 .. FifoSize -> -1 .. FlashSize - 1]
    <3>1. -1 \in -1 .. FlashSize - 1
      BY SpiAssumption
    <3> QED BY <1>1, <1>5, <2>1, <3>1 DEF WriteData, TypeOK
  <2>3. TypeOK'
    BY <1>1, <1>5, <2>2 DEF WriteData, TypeOK
  <2>4. FifoShowsFlash'
    BY <1>1, <1>5, <2>1 DEF WriteData, TypeOK, FifoShowsFlash
  <2>5. StatusIsLast'
    BY <1>1, <1>5 DEF WriteData, StatusIsLast
  <2> QED BY <2>3, <2>4, <2>5 DEF Inv
<1>6. ASSUME NEW clear \in BOOLEAN, NEW go \in BOOLEAN, WriteSoftware(clear, go) PROVE Inv'
  <2>1. ssfdone' \in BOOLEAN
    BY <1>1, <1>6 DEF WriteSoftware, TypeOK
  <2>2. TypeOK'
    BY <1>1, <1>6, <2>1 DEF WriteSoftware, TypeOK
  <2>3. FifoShowsFlash' /\ StatusIsLast'
    BY <1>1, <1>6 DEF WriteSoftware, FifoShowsFlash, StatusIsLast
  <2> QED BY <2>2, <2>3 DEF Inv
<1>7. CASE UNCHANGED vars
  BY <1>1, <1>7 DEF vars, Inv, TypeOK, FifoShowsFlash, StatusIsLast
<1> QED BY <1>2, <1>3, <1>4, <1>5, <1>6, <1>7 DEF Next

-----------------------------------------------------------------------------

(* The registers and the buffer stay in their ranges. *)
THEOREM TypeCorrect == Spec => []TypeOK
<1>1. Inv => TypeOK
  BY DEF Inv
<1> QED BY <1>1, InitInv, NextInv, PTL DEF Spec

(* What a cycle brought into the data registers is the flash until it is   *)
(* replaced, whatever cycles follow and however they end.                  *)
THEOREM RegistersShowFlash == Spec => []FifoShowsFlash
<1>1. Inv => FifoShowsFlash
  BY DEF Inv
<1> QED BY <1>1, InitInv, NextInv, PTL DEF Spec

(* The flags that were cleared at the start of a cycle say how it ended.   *)
THEOREM FlagsAreLast == Spec => []StatusIsLast
<1>1. Inv => StatusIsLast
  BY DEF Inv
<1> QED BY <1>1, InitInv, NextInv, PTL DEF Spec

(* Only a write changes the file: it clears bits, where it was asked to.   *)
THEOREM CyclesOnlyClear == Spec => OnlyClears
<1> DEFINE Clears ==
  \A a \in DOMAIN flash :
    /\ flash'[a] \subseteq flash[a]
    /\ flash'[a] # flash[a] =>
         /\ hsflctl'.cycle = "Write"
         /\ a \in faddr .. faddr + hsflctl'.count - 1
         /\ faddr + hsflctl'.count <= FlashSize
<1>1. Inv /\ [Next]_vars => [Clears]_vars
  <2> SUFFICES ASSUME Inv, Next PROVE Clears
    OBVIOUS
  <2>1. CASE UNCHANGED flash
    BY <2>1
  <2>2. ASSUME NEW clear \in SUBSET {"done", "err"}, NEW cycle \in Cycles,
               NEW count \in 1 .. FifoSize, Go(clear, cycle, count)
        PROVE  Clears
    BY <2>2, GoStep
  <2> HIDE DEF Clears
  <2> QED BY <2>1, <2>2 DEF Next, WriteControl, WriteAddress, WriteData, WriteSoftware
<1> QED BY <1>1, InitInv, NextInv, PTL DEF Spec, OnlyClears

-----------------------------------------------------------------------------
(* The sideband devices (module Sideband). *)

Typed ==
  /\ regs = [d \in Devs |-> regs[d]]
  /\ \A d \in Devs : regs[d] \in [Names(Type[d]) -> SUBSET (0 .. 63)]
  /\ sensed \subseteq Devs

Listed ==
  /\ sbdev_list \in Seq([dev : Devs, endpoint : 0 .. 255])
  /\ \A i, j \in DOMAIN sbdev_list : sbdev_list[i].dev = sbdev_list[j].dev => i = j

Settled ==
  \A d \in Devs : Type[d] = "fusectl" =>
    /\ {Cmd1, Cmd2} \cap regs[d].control = {}
    /\ {Start, Stop} \cap regs[d].intel_fsm_ctrl = {}
    /\ ClearAll \notin regs[d].intel_debug_status

SbInv == Typed /\ Listed /\ Settled /\ OneSensePerStart

(* Nothing is written before the firmware runs, and then the registered    *)
(* devices stay as they are.                                               *)
ShowsInv == (seen # {} => running) /\ ReadsLastWrite

-----------------------------------------------------------------------------
(* The names of the cells. *)

LEMMA FuseNames ==
  Names("fusectl") = {"control", "intel_global_ctrl", "intel_kar", "intel_address", "intel_size",
                      "intel_fsm_ctrl", "intel_hd_counter", "intel_debug_status",
                      "unknown_1020", "unknown_1024"}
BY DEF Names, Cells

LEMMA DfxNames == Names("dfxagg") = {"personality", "consent", "status", "puid"}
BY DEF Names, Cells

LEMMA NamedIsName == ASSUME NEW type, NEW m PROVE Named(type, m) \subseteq Names(type)
BY DEF Named, Names

-----------------------------------------------------------------------------
(* A write, of the register alone. *)

(* A cell when the word has been put, before fusectl_process.              *)
Put(d, q, r, word) == IF q = r THEN word ELSE regs[d][q]
Cleared(status) == IF ClearAll \in status THEN {} ELSE status

LEMMA ThreeCells ==
  ASSUME NEW S, NEW f, f = [q \in S |-> f[q]], NEW a, NEW b, NEW c,
         {"control", "intel_debug_status", "intel_fsm_ctrl"} \subseteq S
  PROVE  [f EXCEPT !.control = a, !.intel_debug_status = b, !.intel_fsm_ctrl = c] =
           [q \in S |-> IF q = "control" THEN a
                         ELSE IF q = "intel_debug_status" THEN b
                         ELSE IF q = "intel_fsm_ctrl" THEN c
                         ELSE f[q]]
OBVIOUS

LEMMA Processed ==
  ASSUME NEW f, f = [q \in Names("fusectl") |-> f[q]]
  PROVE  /\ Process(f) = [q \in Names("fusectl") |-> Process(f)[q]]
         /\ Process(f).control = Control(f.control)
         /\ Process(f).intel_fsm_ctrl = f.intel_fsm_ctrl \ {Start, Stop}
         /\ Process(f).intel_debug_status =
              IF Start \in f.intel_fsm_ctrl THEN Cleared(f.intel_debug_status) \cup {SenseDone}
                                            ELSE Cleared(f.intel_debug_status)
         /\ \A q \in Names("fusectl") \ {"control", "intel_fsm_ctrl", "intel_debug_status"} :
              Process(f)[q] = f[q]
<1> DEFINE a == Control(f.control)
           b == IF Start \in f.intel_fsm_ctrl THEN Cleared(f.intel_debug_status) \cup {SenseDone}
                                              ELSE Cleared(f.intel_debug_status)
           c == f.intel_fsm_ctrl \ {Start, Stop}
<1>1. Process(f) = [f EXCEPT !.control = a, !.intel_debug_status = b, !.intel_fsm_ctrl = c]
  BY Zenon DEF Process, Cleared
<1> HIDE DEF a, b, c
<1>2. {"control", "intel_debug_status", "intel_fsm_ctrl"} \subseteq Names("fusectl")
  BY FuseNames
<1>3. Process(f) = [q \in Names("fusectl") |-> IF q = "control" THEN a
                                              ELSE IF q = "intel_debug_status" THEN b
                                              ELSE IF q = "intel_fsm_ctrl" THEN c
                                              ELSE f[q]]
  BY <1>1, <1>2, ThreeCells
<1>4. /\ Process(f) = [q \in Names("fusectl") |-> Process(f)[q]]
      /\ Process(f).control = a /\ Process(f).intel_fsm_ctrl = c
      /\ Process(f).intel_debug_status = b
      /\ \A q \in Names("fusectl") \ {"control", "intel_fsm_ctrl", "intel_debug_status"} :
           Process(f)[q] = f[q]
  BY <1>2, <1>3
<1> QED BY <1>4 DEF a, b, c

LEMMA StoredFuse ==
  ASSUME Typed, NEW d \in Devs, Type[d] = "fusectl",
         NEW r \in Names("fusectl"), NEW word
  PROVE  /\ Stored(d, r, word).control = Control(Put(d, "control", r, word))
         /\ Stored(d, r, word).intel_fsm_ctrl = Put(d, "intel_fsm_ctrl", r, word) \ {Start, Stop}
         /\ Stored(d, r, word).intel_debug_status =
              IF Start \in Put(d, "intel_fsm_ctrl", r, word)
                THEN Cleared(Put(d, "intel_debug_status", r, word)) \cup {SenseDone}
                ELSE Cleared(Put(d, "intel_debug_status", r, word))
         /\ \A q \in Names("fusectl") \ {"control", "intel_fsm_ctrl", "intel_debug_status"} :
              Stored(d, r, word)[q] = Put(d, q, r, word)
<1> DEFINE f == [regs[d] EXCEPT ![r] = word]
<1>1. Stores(regs[d], r, word)
  BY FuseNames DEF Stores
<1>2. regs[d] \in [Names("fusectl") -> SUBSET (0 .. 63)]
  BY DEF Typed
<1>3. Stored(d, r, word) = Process(f)
  BY <1>1 DEF Stored
<1>4. DOMAIN f = Names("fusectl") /\ \A q \in Names("fusectl") : f[q] = Put(d, q, r, word)
  BY <1>2 DEF Put
<1>5. f = [q \in Names("fusectl") |-> f[q]]
  BY <1>2
<1>6. /\ f.control = Put(d, "control", r, word)
      /\ f.intel_fsm_ctrl = Put(d, "intel_fsm_ctrl", r, word)
      /\ f.intel_debug_status = Put(d, "intel_debug_status", r, word)
  BY <1>4, FuseNames
<1> HIDE DEF f
<1> QED BY <1>3, <1>4, <1>5, <1>6, Processed

LEMMA StoredTyped ==
  ASSUME Typed, NEW d \in Devs, NEW r \in Names(Type[d]), NEW word \in SUBSET (0 .. 31)
  PROVE  Stored(d, r, word) \in [Names(Type[d]) -> SUBSET (0 .. 63)]
<1> DEFINE f == [regs[d] EXCEPT ![r] = word]
<1>1. regs[d] \in [Names(Type[d]) -> SUBSET (0 .. 63)]
  BY DEF Typed
<1>2. word \in SUBSET (0 .. 63)
  OBVIOUS
<1>3. f \in [Names(Type[d]) -> SUBSET (0 .. 63)]
  BY <1>1, <1>2
<1>4. CASE Stores(regs[d], r, word) /\ Type[d] = "fusectl"
  <2> HIDE DEF f
  <2>1. Stored(d, r, word) = Process(f)
    BY <1>4 DEF Stored, f
  <2>2. /\ f.control \in SUBSET (0 .. 63) /\ f.intel_fsm_ctrl \in SUBSET (0 .. 63)
        /\ f.intel_debug_status \in SUBSET (0 .. 63)
    BY <1>3, <1>4, FuseNames
  <2>3. Control(f.control) \in SUBSET (0 .. 63)
    BY <2>2 DEF Control, AckBits
  <2>4. /\ Cleared(f.intel_debug_status) \cup {SenseDone} \in SUBSET (0 .. 63)
        /\ Cleared(f.intel_debug_status) \in SUBSET (0 .. 63)
        /\ f.intel_fsm_ctrl \ {Start, Stop} \in SUBSET (0 .. 63)
    BY <2>2 DEF Cleared, SenseDone
  <2>5. f = [q \in Names("fusectl") |-> f[q]]
    BY <1>3, <1>4
  <2>6. \A q \in Names("fusectl") : Process(f)[q] \in SUBSET (0 .. 63)
    <3>1. TAKE q \in Names("fusectl")
    <3>2. CASE q \in {"control", "intel_fsm_ctrl", "intel_debug_status"}
      <4>1. /\ Process(f).control = Control(f.control)
            /\ Process(f).intel_fsm_ctrl = f.intel_fsm_ctrl \ {Start, Stop}
            /\ Process(f).intel_debug_status \in
                 {Cleared(f.intel_debug_status) \cup {SenseDone}, Cleared(f.intel_debug_status)}
        BY <2>5, Processed
      <4>2. CASE q = "control"
        BY <2>3, <4>1, <4>2
      <4>3. CASE q = "intel_fsm_ctrl"
        BY <2>4, <4>1, <4>3
      <4>4. CASE q = "intel_debug_status"
        BY <2>4, <4>1, <4>4, Zenon
      <4> QED BY <3>2, <4>2, <4>3, <4>4
    <3>3. CASE q \notin {"control", "intel_fsm_ctrl", "intel_debug_status"}
      <4>1. Process(f)[q] = f[q]
        BY <2>5, <3>3, Processed
      <4> QED BY <1>3, <1>4, <4>1
    <3> QED BY <3>2, <3>3
  <2>7. Process(f) \in [Names("fusectl") -> SUBSET (0 .. 63)]
    BY <2>5, <2>6, Processed
  <2> QED BY <1>4, <2>1, <2>7
<1> QED BY <1>1, <1>3, <1>4 DEF Stored

(* What a write of a cell leaves. *)
LEMMA CellWritten ==
  ASSUME SbInv, NEW d \in Devs, NEW m, m.word \in SUBSET (0 .. 31), WriteCell(d, m)
  PROVE  /\ Typed' /\ Settled' /\ OneSensePerStart' /\ ConsentStep
         /\ \A e \in Devs \ {d} : regs'[e] = regs[e]
<1>1. CASE Named(Type[d], m) = {}
  <2>1. regs' = regs /\ sensed' = sensed
    BY <1>1 DEF WriteCell
  <2> QED BY <2>1 DEF SbInv, Typed, Settled, OneSensePerStart, ConsentStep
<1>2. CASE Named(Type[d], m) # {}
  <2>1. PICK r \in Named(Type[d], m) : /\ regs' = [regs EXCEPT ![d] = Stored(d, r, m.word)]
                                       /\ sensed' = Sensed(d, r, m.word)
    BY <1>2 DEF WriteCell
  <2>2. r \in Names(Type[d])
    BY NamedIsName
  <2>3. Typed
    BY DEF SbInv
  <2>4. /\ \A e \in Devs \ {d} : regs'[e] = regs[e]
        /\ regs'[d] = Stored(d, r, m.word)
        /\ regs' = [e \in Devs |-> regs'[e]]
    BY <2>1, <2>3 DEF Typed
  <2>5. Typed'
    <3>1. sensed' \subseteq Devs
      BY <2>1, <2>3 DEF Sensed, Typed
    <3>2. Stored(d, r, m.word) \in [Names(Type[d]) -> SUBSET (0 .. 63)]
      BY <2>2, <2>3, StoredTyped
    <3> QED BY <2>3, <2>4, <3>1, <3>2 DEF Typed
  <2>6. ASSUME Type[d] = "fusectl"
        PROVE  /\ {Cmd1, Cmd2} \cap regs'[d].control = {}
               /\ {Start, Stop} \cap regs'[d].intel_fsm_ctrl = {}
               /\ ClearAll \notin regs'[d].intel_debug_status
               /\ (SenseDone \in regs'[d].intel_debug_status) = (d \in sensed')
    <3> DEFINE status == Put(d, "intel_debug_status", r, m.word)
               fsm == Put(d, "intel_fsm_ctrl", r, m.word)
               control == Put(d, "control", r, m.word)
    <3>1. r \in Names("fusectl")
      BY <2>2, <2>6
    <3>3. /\ regs'[d].control = Control(control)
          /\ regs'[d].intel_debug_status = IF Start \in fsm THEN Cleared(status) \cup {SenseDone}
                                                             ELSE Cleared(status)
          /\ regs'[d].intel_fsm_ctrl = fsm \ {Start, Stop}
      <4>1. ASSUME NEW word
            PROVE  /\ Stored(d, r, word).control = Control(Put(d, "control", r, word))
                   /\ Stored(d, r, word).intel_fsm_ctrl = Put(d, "intel_fsm_ctrl", r, word) \ {Start, Stop}
                   /\ Stored(d, r, word).intel_debug_status =
                        IF Start \in Put(d, "intel_fsm_ctrl", r, word)
                          THEN Cleared(Put(d, "intel_debug_status", r, word)) \cup {SenseDone}
                          ELSE Cleared(Put(d, "intel_debug_status", r, word))
        BY <2>3, <2>6, <3>1, StoredFuse
      <4> QED BY <2>4, <4>1
    <3> HIDE DEF control
    <3>4. {Cmd1, Cmd2} \cap Control(control) = {}
      BY DEF Control, AckBits, Cmd1, Cmd2
    <3>5. /\ {Start, Stop} \cap regs[d].intel_fsm_ctrl = {}
          /\ ClearAll \notin regs[d].intel_debug_status
          /\ (SenseDone \in regs[d].intel_debug_status) = (d \in sensed)
      BY <2>6 DEF SbInv, Settled, OneSensePerStart
    <3>6. ClearAll \notin regs'[d].intel_debug_status
      BY <3>3 DEF Cleared, ClearAll, SenseDone
    <3>7. (SenseDone \in regs'[d].intel_debug_status) = (d \in sensed')
      <4>1. CASE r = "intel_fsm_ctrl"
        <5>1. status = regs[d].intel_debug_status /\ Cleared(status) = status /\ fsm = m.word
          BY <3>5, <4>1 DEF Put, Cleared
        <5>2. sensed' = IF Start \in m.word THEN sensed \cup {d} ELSE sensed
          BY <2>1, <4>1 DEF Sensed
        <5> QED BY <3>3, <3>5, <5>1, <5>2
      <4>2. CASE r = "intel_debug_status"
        <5>1. status = m.word /\ Start \notin fsm
          BY <3>5, <4>2 DEF Put
        <5>2. sensed' = IF SenseDone \in m.word /\ ClearAll \notin m.word
                          THEN sensed \cup {d} ELSE sensed \ {d}
          BY <2>1, <4>2 DEF Sensed
        <5> QED BY <3>3, <5>1, <5>2 DEF Cleared, SenseDone, ClearAll
      <4>3. CASE r \notin {"intel_fsm_ctrl", "intel_debug_status"}
        <5>1. status = regs[d].intel_debug_status /\ Cleared(status) = status /\ Start \notin fsm
          BY <3>5, <4>3 DEF Put, Cleared
        <5>2. sensed' = sensed
          BY <2>1, <4>3 DEF Sensed
        <5> QED BY <3>3, <3>5, <5>1, <5>2
      <4> QED BY <4>1, <4>2, <4>3
    <3> QED BY <3>3, <3>4, <3>6, <3>7
  <2>7. Settled'
    BY <2>4, <2>6 DEF SbInv, Settled
  <2>8. \A e \in Devs \ {d} : (e \in sensed') = (e \in sensed)
    BY <2>1 DEF Sensed
  <2>9. OneSensePerStart'
    BY <2>4, <2>6, <2>8 DEF SbInv, OneSensePerStart
  <2>10. ASSUME Type[d] = "dfxagg"
         PROVE  /\ regs'[d].personality # regs[d].personality => PrivacyOpt \in regs[d].consent
                /\ Lock \in regs[d].consent => regs'[d].consent = regs[d].consent
    <3>1. regs[d] \in [Names("dfxagg") -> SUBSET (0 .. 63)]
      BY <2>3, <2>10 DEF Typed
    <3>2. regs'[d] = IF Stores(regs[d], r, m.word) THEN [regs[d] EXCEPT ![r] = m.word] ELSE regs[d]
      BY <2>4, <2>10 DEF Stored
    <3>3. CASE r = "personality"
      BY <3>1, <3>2, <3>3, DfxNames DEF Stores
    <3>4. CASE r = "consent"
      BY <3>1, <3>2, <3>4, DfxNames DEF Stores
    <3>5. CASE r \notin {"personality", "consent"}
      BY <3>1, <3>2, <3>5, DfxNames
    <3> QED BY <3>3, <3>4, <3>5
  <2>11. ConsentStep
    BY <2>4, <2>10 DEF ConsentStep
  <2> QED BY <2>4, <2>5, <2>7, <2>9, <2>11
<1> QED BY <1>1, <1>2

-----------------------------------------------------------------------------
(* The cells of a type are at different places and have different names.   *)

Types == {"fusectl", "dfxagg", "exi"}
Triple(m) == <<m.bar, m.off, m.count>>

LEMMA CellsApart ==
  ASSUME NEW type \in Types, NEW c \in Cells(type), NEW e \in Cells(type)
  PROVE  /\ c[4] = e[4] <=> <<c[1], c[2], c[3]>> = <<e[1], e[2], e[3]>>
         /\ c[1] # 1
<1>1. CASE type = "fusectl"
  BY <1>1 DEF Cells
<1>2. CASE type = "dfxagg"
  BY <1>2 DEF Cells
<1>3. CASE type = "exi"
  BY <1>3 DEF Cells
<1> QED BY <1>1, <1>2, <1>3 DEF Types

LEMMA NamedPlace ==
  ASSUME NEW type \in Types, NEW m, NEW r \in Named(type, m)
  PROVE  /\ \E c \in Cells(type) : r = c[4] /\ Triple(m) = <<c[1], c[2], c[3]>>
         /\ m.bar # 1
<1>1. PICK c \in Cells(type) : r = c[4] /\ Triple(m) = <<c[1], c[2], c[3]>>
  BY DEF Named, Triple
<1>2. m.bar = c[1]
  BY <1>1 DEF Triple
<1> QED BY <1>1, <1>2, CellsApart

LEMMA NamedOne ==
  ASSUME NEW type \in Types, NEW m, NEW n, NEW r \in Named(type, m)
  PROVE  /\ \A q \in Named(type, m) : q = r
         /\ r \in Named(type, n) <=> Triple(n) = Triple(m)
<1>1. PICK c \in Cells(type) : r = c[4] /\ Triple(m) = <<c[1], c[2], c[3]>>
  BY NamedPlace
<1>2. ASSUME NEW q \in Named(type, m) PROVE q = r
  <2>1. PICK e \in Cells(type) : q = e[4] /\ Triple(m) = <<e[1], e[2], e[3]>>
    BY NamedPlace
  <2> QED BY <1>1, <2>1, CellsApart
<1>3. ASSUME r \in Named(type, n) PROVE Triple(n) = Triple(m)
  <2>1. PICK e \in Cells(type) : r = e[4] /\ Triple(n) = <<e[1], e[2], e[3]>>
    BY <1>3, NamedPlace
  <2> QED BY <1>1, <2>1, CellsApart
<1>4. ASSUME Triple(n) = Triple(m) PROVE r \in Named(type, n)
  BY <1>1, <1>4 DEF Named, Triple
<1> QED BY <1>2, <1>3, <1>4

LEMMA FuseWordCell ==
  ASSUME NEW m
  PROVE  "unknown_1024" \in Named("fusectl", m) <=> Triple(m) = <<4, \h1024, 4>>
<1>1. "fusectl" \in Types
  BY DEF Types
<1>2. <<4, \h1024, 4, "unknown_1024">> \in Cells("fusectl")
  BY DEF Cells
<1>3. ASSUME "unknown_1024" \in Named("fusectl", m) PROVE Triple(m) = <<4, \h1024, 4>>
  <2>1. PICK c \in Cells("fusectl") : "unknown_1024" = c[4] /\ Triple(m) = <<c[1], c[2], c[3]>>
    BY <1>1, <1>3, NamedPlace
  <2> QED BY <1>1, <1>2, <2>1, CellsApart
<1>4. ASSUME Triple(m) = <<4, \h1024, 4>> PROVE "unknown_1024" \in Named("fusectl", m)
  BY <1>2, <1>4 DEF Named, Triple
<1> QED BY <1>3, <1>4

(* A read gives a register, and that is the one that a write of the same   *)
(* place, or of the place of the fuse words, names.                        *)
LEMMA GivesPlace ==
  ASSUME NEW d, Type[d] \in Types, NEW g, NEW r \in Gives(d, g), NEW m
  PROVE  r \in Named(Type[d], m) <=>
           Triple(m) = IF g.bar = 1 THEN <<4, \h1024, 4>> ELSE Triple(g)
<1>1. CASE Type[d] = "fusectl" /\ IsFuseWord(g)
  <2>1. r = "unknown_1024" /\ g.bar = 1
    BY <1>1 DEF Gives, IsFuseWord
  <2> QED BY <1>1, <2>1, FuseWordCell
<1>2. CASE ~ (Type[d] = "fusectl" /\ IsFuseWord(g))
  <2>1. r \in Named(Type[d], g)
    BY <1>2 DEF Gives
  <2>2. g.bar # 1
    BY <2>1, NamedPlace
  <2> QED BY <2>1, <2>2, NamedOne
<1> QED BY <1>1, <1>2

-----------------------------------------------------------------------------
(* What a write shows and what it keeps. *)

LEMMA ExiNames == Names("exi") = {"emecc", "ectrl"}
BY DEF Names, Cells

LEMMA Shown ==
  ASSUME Typed, NEW d \in Devs, Type[d] \in Types, NEW r \in Names(Type[d]),
         NEW word \in SUBSET (0 .. 31)
  PROVE  Shows(r, word, Stored(d, r, word)[r])
<1>1. CASE Type[d] = "fusectl"
  <2>1. r \in Names("fusectl")
    BY <1>1
  <2>a. /\ Stored(d, r, word).control = Control(Put(d, "control", r, word))
        /\ Stored(d, r, word).intel_fsm_ctrl = Put(d, "intel_fsm_ctrl", r, word) \ {Start, Stop}
        /\ \A p \in Names("fusectl") \ {"control", "intel_fsm_ctrl", "intel_debug_status"} :
             Stored(d, r, word)[p] = Put(d, p, r, word)
    BY <1>1, <2>1, StoredFuse
  <2>2. CASE r = "control"
    <3>1. Stored(d, r, word)[r] = Control(word)
      BY <2>1, <2>a, <2>2 DEF Put
    <3> QED BY <2>2, <3>1 DEF Shows, Control, AckBits, Cmd1, Cmd2
  <2>3. CASE r = "intel_fsm_ctrl"
    <3>1. Stored(d, r, word)[r] = word \ {Start, Stop}
      BY <2>1, <2>a, <2>3 DEF Put
    <3> QED BY <2>3, <3>1 DEF Shows
  <2>4. CASE r = "intel_debug_status"
    BY <2>4 DEF Shows
  <2>5. CASE r \notin {"control", "intel_fsm_ctrl", "intel_debug_status"}
    <3>1. Stored(d, r, word)[r] = word
      BY <2>1, <2>a, <2>5 DEF Put
    <3> QED BY <2>5, <3>1 DEF Shows
  <2> QED BY <2>2, <2>3, <2>4, <2>5
<1>2. CASE Type[d] = "dfxagg"
  BY <1>2, DfxNames DEF Shows
<1>3. CASE Type[d] = "exi"
  <2>1. r \in {"emecc", "ectrl"} /\ regs[d] \in [Names(Type[d]) -> SUBSET (0 .. 63)]
    BY <1>3, ExiNames DEF Typed
  <2>2. Stores(regs[d], r, word)
    BY <2>1 DEF Stores
  <2>3. Stored(d, r, word)[r] = word
    BY <1>3, <2>1, <2>2 DEF Stored
  <2> QED BY <2>1, <2>3 DEF Shows
<1> QED BY <1>1, <1>2, <1>3 DEF Types

LEMMA Kept ==
  ASSUME Typed, Settled, NEW d \in Devs, NEW r \in Names(Type[d]), NEW word \in SUBSET (0 .. 31),
         NEW q \in Names(Type[d]), q # r, q # "intel_debug_status"
  PROVE  Stored(d, r, word)[q] = regs[d][q]
<1>1. CASE Type[d] = "fusectl"
  <2>1. r \in Names("fusectl") /\ q \in Names("fusectl")
    BY <1>1
  <2>a. /\ Stored(d, r, word).control = Control(Put(d, "control", r, word))
        /\ Stored(d, r, word).intel_fsm_ctrl = Put(d, "intel_fsm_ctrl", r, word) \ {Start, Stop}
        /\ \A p \in Names("fusectl") \ {"control", "intel_fsm_ctrl", "intel_debug_status"} :
             Stored(d, r, word)[p] = Put(d, p, r, word)
    BY <1>1, <2>1, StoredFuse
  <2>2. CASE q = "control"
    <3>1. Stored(d, r, word)[q] = Control(regs[d].control)
      BY <2>1, <2>a, <2>2 DEF Put
    <3>2. Cmd1 \notin regs[d].control /\ Cmd2 \notin regs[d].control
      BY <1>1 DEF Settled
    <3> QED BY <2>2, <3>1, <3>2 DEF Control
  <2>3. CASE q = "intel_fsm_ctrl"
    <3>1. Stored(d, r, word)[q] = regs[d].intel_fsm_ctrl \ {Start, Stop}
      BY <2>1, <2>a, <2>3 DEF Put
    <3>2. Start \notin regs[d].intel_fsm_ctrl /\ Stop \notin regs[d].intel_fsm_ctrl
      BY <1>1 DEF Settled
    <3> QED BY <2>3, <3>1, <3>2
  <2>4. CASE q \notin {"control", "intel_fsm_ctrl"}
    BY <2>1, <2>a, <2>4 DEF Put
  <2> QED BY <2>2, <2>3, <2>4
<1>2. CASE Type[d] # "fusectl"
  <2>1. regs[d] \in [Names(Type[d]) -> SUBSET (0 .. 63)]
    BY DEF Typed
  <2> QED BY <1>2, <2>1 DEF Stored
<1> QED BY <1>1, <1>2

-----------------------------------------------------------------------------
(* The devices of an endpoint. *)

LEMMA AtDevs ==
  ASSUME Listed, NEW ep, NEW d \in At(ep)
  PROVE  d \in Devs
<1>1. PICK i \in DOMAIN sbdev_list : d = sbdev_list[i].dev
  BY DEF At
<1> DEFINE S == [dev : Devs, endpoint : 0 .. 255]
<1>2. sbdev_list \in Seq(S)
  BY DEF Listed
<1> HIDE DEF S
<1>3. sbdev_list[i] \in S
  BY <1>2
<1> QED BY <1>1, <1>3 DEF S

LEMMA AtOne ==
  ASSUME Listed, NEW ep, NEW other, NEW d \in At(ep)
  PROVE  /\ \A e \in At(ep) : e = d
         /\ d \in At(other) => other = ep
<1>1. /\ DOMAIN sbdev_list = 1 .. Len(sbdev_list) /\ Len(sbdev_list) \in Nat
      /\ \A i, j \in DOMAIN sbdev_list : sbdev_list[i].dev = sbdev_list[j].dev => i = j
  BY DEF Listed
<1>2. PICK i \in DOMAIN sbdev_list :
        /\ sbdev_list[i].endpoint = ep /\ sbdev_list[i].dev = d
        /\ \A k \in 1 .. i - 1 : sbdev_list[k].endpoint # ep
  BY DEF At
<1>3. ASSUME NEW e \in At(ep) PROVE e = d
  <2>1. PICK j \in DOMAIN sbdev_list :
          /\ sbdev_list[j].endpoint = ep /\ sbdev_list[j].dev = e
          /\ \A k \in 1 .. j - 1 : sbdev_list[k].endpoint # ep
    BY <1>3 DEF At
  <2>2. i = j
    BY <1>1, <1>2, <2>1
  <2> QED BY <1>2, <2>1, <2>2
<1>4. ASSUME d \in At(other) PROVE other = ep
  <2>1. PICK j \in DOMAIN sbdev_list : sbdev_list[j].endpoint = other /\ sbdev_list[j].dev = d
    BY <1>4 DEF At
  <2> QED BY <1>1, <1>2, <2>1
<1> QED BY <1>3, <1>4

-----------------------------------------------------------------------------
(* The steps. *)

LEMMA SbInvInit == ASSUME SidebandAssumption, SbInit PROVE SbInv /\ ShowsInv
<1>1. Typed
  <2>1. \A d \in Devs : Entry[d] \in SUBSET (0 .. 63)
    BY DEF SidebandAssumption
  <2> QED BY <2>1 DEF Typed, SbInit
<1>2. Listed
  BY DEF Listed, SbInit
<1>3. ASSUME NEW d \in Devs, Type[d] = "fusectl"
      PROVE  regs[d].control = {} /\ regs[d].intel_fsm_ctrl = {} /\ regs[d].intel_debug_status = {}
  BY <1>3, FuseNames DEF SbInit
<1>4. Settled
  BY <1>3 DEF Settled
<1>5. OneSensePerStart
  BY <1>3 DEF OneSensePerStart, SbInit
<1>6. ShowsInv
  BY DEF ShowsInv, ReadsLastWrite, SbInit
<1> QED BY <1>1, <1>2, <1>4, <1>5, <1>6 DEF SbInv

LEMMA SpawnStep ==
  ASSUME Listed, NEW d \in Devs, NEW n \in Nat, Spawn(d, n)
  PROVE  Listed'
<1> DEFINE new == [dev |-> d, endpoint |-> Endpoint(n)]
<1>1. Endpoint(n) \in 0 .. 255
  BY DEF Endpoint
<1>2. new \in [dev : Devs, endpoint : 0 .. 255]
  BY <1>1
<1> HIDE DEF new
<1>3. sbdev_list \in Seq([dev : Devs, endpoint : 0 .. 255])
  BY DEF Listed
<1>4. sbdev_list' = <<new>> \o sbdev_list
  BY DEF Spawn, new
<1>5. /\ sbdev_list' \in Seq([dev : Devs, endpoint : 0 .. 255])
      /\ Len(sbdev_list) \in Nat /\ DOMAIN sbdev_list = 1 .. Len(sbdev_list)
      /\ DOMAIN sbdev_list' = 1 .. Len(sbdev_list) + 1
      /\ sbdev_list'[1] = new
      /\ \A i \in 2 .. Len(sbdev_list) + 1 : sbdev_list'[i] = sbdev_list[i - 1]
  BY <1>2, <1>3, <1>4
<1>6. new.dev = d /\ \A i \in DOMAIN sbdev_list : sbdev_list[i].dev # d
  BY DEF Spawn, new
<1>7. \A i, j \in DOMAIN sbdev_list' : sbdev_list'[i].dev = sbdev_list'[j].dev => i = j
  <2>1. TAKE i, j \in DOMAIN sbdev_list'
  <2>2. CASE i = 1 /\ j # 1
    <3>1. j - 1 \in DOMAIN sbdev_list /\ sbdev_list'[j] = sbdev_list[j - 1]
      BY <1>5, <2>2
    <3> QED BY <1>5, <1>6, <2>2, <3>1
  <2>3. CASE i # 1 /\ j = 1
    <3>1. i - 1 \in DOMAIN sbdev_list /\ sbdev_list'[i] = sbdev_list[i - 1]
      BY <1>5, <2>3
    <3> QED BY <1>5, <1>6, <2>3, <3>1
  <2>4. CASE i # 1 /\ j # 1
    <3>1. i - 1 \in DOMAIN sbdev_list /\ j - 1 \in DOMAIN sbdev_list
      BY <1>5, <2>4
    <3>2. sbdev_list'[i] = sbdev_list[i - 1] /\ sbdev_list'[j] = sbdev_list[j - 1]
      BY <1>5, <2>4
    <3>3. sbdev_list[i - 1].dev = sbdev_list[j - 1].dev => i - 1 = j - 1
      BY <3>1 DEF Listed
    <3> QED BY <1>5, <3>2, <3>3
  <2> QED BY <2>2, <2>3, <2>4
<1> QED BY <1>5, <1>7 DEF Listed

LEMMA WriteStep ==
  ASSUME SidebandAssumption, SbInv, ShowsInv, NEW ep \in Targets, NEW m \in Writes, Write(ep, m)
  PROVE  SbInv' /\ ShowsInv' /\ ConsentStep
<1>1. m.word \in SUBSET (0 .. 31)
  BY DEF SidebandAssumption
<1>2. sbdev_list' = sbdev_list /\ running' = running /\ running /\ watched' = watched
  BY DEF Write
<1>3. Listed /\ Typed /\ Settled /\ Listed'
  BY <1>2 DEF SbInv, Listed
<1>4. \A e : At(e)' = At(e)
  BY <1>2 DEF At
<1>5. CASE \E d \in At(ep) : Answers(d, m, 7)
  <2>1. PICK d \in At(ep) : WriteCell(d, m) /\ seen' = IF IsWatched(ep, m) THEN {m.word} ELSE seen
    BY <1>5 DEF Write
  <2>2. d \in Devs
    BY <1>3, AtDevs
  <2>3. Type[d] \in Types
    BY <2>2 DEF SidebandAssumption, Types
  <2>4. /\ Typed' /\ Settled' /\ OneSensePerStart' /\ ConsentStep
        /\ \A e \in Devs \ {d} : regs'[e] = regs[e]
    BY <1>1, <2>1, <2>2, CellWritten
  <2>5. SbInv'
    BY <1>3, <2>4 DEF SbInv
  <2>6. ASSUME NEW word \in seen'
        PROVE  /\ At(watched.ep) # {}
               /\ \A e \in At(watched.ep) : \A r \in Gives(e, watched.msg) : Shows(r, word, regs'[e][r])
    <3>1. CASE IsWatched(ep, m)
      <4>1. word = m.word /\ watched.ep = ep
        BY <2>1, <2>6, <3>1 DEF IsWatched
      <4>2. \A e \in At(ep) : e = d
        BY <1>3, AtOne
      <4>3. ASSUME NEW r \in Gives(d, watched.msg) PROVE Shows(r, word, regs'[d][r])
        <5>1. Triple(m) = IF watched.msg.bar = 1 THEN <<4, \h1024, 4>> ELSE Triple(watched.msg)
          BY <3>1 DEF IsWatched, Triple
        <5>2. r \in Named(Type[d], m)
          BY <2>3, <5>1, GivesPlace
        <5>3. PICK q \in Named(Type[d], m) : regs' = [regs EXCEPT ![d] = Stored(d, q, m.word)]
          BY <2>1, <5>2 DEF WriteCell
        <5>4. q = r
          BY <2>3, <5>2, <5>3, NamedOne
        <5>5. regs'[d] = Stored(d, r, m.word)
          BY <1>3, <2>2, <5>3, <5>4 DEF Typed
        <5>6. r \in Names(Type[d])
          BY <5>2, NamedIsName
        <5> QED BY <1>1, <1>3, <2>2, <2>3, <4>1, <5>5, <5>6, Shown
      <4> QED BY <4>1, <4>2, <4>3
    <3>2. CASE ~ IsWatched(ep, m)
      <4>1. word \in seen
        BY <2>1, <2>6, <3>2
      <4>2. At(watched.ep) # {}
        BY <4>1 DEF ShowsInv, ReadsLastWrite
      <4>3. ASSUME NEW e \in At(watched.ep), NEW r \in Gives(e, watched.msg)
            PROVE  Shows(r, word, regs'[e][r])
        <5>1. Shows(r, word, regs[e][r])
          BY <4>1, <4>3 DEF ShowsInv, ReadsLastWrite
        <5>2. e \in Devs
          BY <1>3, AtDevs
        <5>3. CASE e # d
          BY <2>4, <5>1, <5>2, <5>3
        <5>4. CASE e = d /\ Named(Type[d], m) = {}
          BY <2>1, <5>1, <5>4 DEF WriteCell
        <5>5. CASE e = d /\ Named(Type[d], m) # {}
          <6>1. PICK q \in Named(Type[d], m) : regs' = [regs EXCEPT ![d] = Stored(d, q, m.word)]
            BY <2>1, <5>5 DEF WriteCell
          <6>2. regs'[d] = Stored(d, q, m.word)
            BY <1>3, <2>2, <6>1 DEF Typed
          <6>3. watched.ep = ep
            BY <1>3, <5>5, AtOne
          <6>4. q # r
            <7>1. SUFFICES ASSUME q = r PROVE FALSE
              OBVIOUS
            <7>2. r \in Named(Type[d], m) /\ r \in Gives(d, watched.msg)
              BY <5>5, <6>1, <7>1
            <7>3. Triple(m) = IF watched.msg.bar = 1 THEN <<4, \h1024, 4>> ELSE Triple(watched.msg)
              BY <2>3, <7>2, GivesPlace
            <7> QED BY <3>2, <6>3, <7>3 DEF IsWatched, Triple
          <6>5. q \in Names(Type[d])
            BY <6>1, NamedIsName
          <6>6. r \in Names(Type[d])
            <7>1. (r = "unknown_1024" /\ Type[d] = "fusectl") \/ r \in Named(Type[d], watched.msg)
              BY <5>5, <4>3 DEF Gives
            <7> QED BY <7>1, NamedIsName, FuseNames
          <6>7. CASE r = "intel_debug_status"
            BY <6>7 DEF Shows
          <6>8. CASE r # "intel_debug_status"
            <7>1. regs'[d][r] = regs[d][r]
              BY <1>1, <1>3, <2>2, <6>2, <6>4, <6>5, <6>6, <6>8, Kept
            <7> QED BY <5>1, <5>5, <7>1
          <6> QED BY <6>7, <6>8
        <5> QED BY <5>3, <5>4, <5>5
      <4> QED BY <4>2, <4>3
    <3> QED BY <3>1, <3>2
  <2>7. \A e : Gives(e, watched.msg)' = Gives(e, watched.msg)
    BY <1>2 DEF Gives
  <2>8. ReadsLastWrite'
    BY <1>2, <1>4, <2>6, <2>7 DEF ReadsLastWrite
  <2> QED BY <1>2, <2>4, <2>5, <2>8 DEF ShowsInv
<1>6. CASE ~ \E d \in At(ep) : Answers(d, m, 7)
  <2>1. regs' = regs /\ seen' = seen /\ sensed' = sensed
    BY <1>6 DEF Write
  <2>2. SbInv' /\ ConsentStep
    BY <1>3, <2>1 DEF SbInv, Typed, Settled, OneSensePerStart, ConsentStep
  <2>3. ReadsLastWrite' /\ (seen # {} => running)'
    BY <1>2, <1>4, <2>1 DEF ShowsInv, ReadsLastWrite, Gives
  <2> QED BY <2>2, <2>3 DEF ShowsInv
<1> QED BY <1>5, <1>6

LEMMA SbInvNext ==
  ASSUME SidebandAssumption, SbInv, ShowsInv, [SbNext]_sbVars
  PROVE  SbInv' /\ ShowsInv' /\ (ConsentStep \/ UNCHANGED sbVars)
<1>1. ASSUME NEW d \in Devs, NEW n \in Endpoints[d], Spawn(d, n)
      PROVE  SbInv' /\ ShowsInv' /\ ConsentStep
  <2>1. n \in Nat
    BY DEF SidebandAssumption
  <2>2. Listed'
    BY <1>1, <2>1, SpawnStep DEF SbInv
  <2>3. regs' = regs /\ sensed' = sensed /\ seen' = seen /\ ~ running /\ running' = running
    BY <1>1 DEF Spawn, history
  <2>4. SbInv' /\ ConsentStep
    BY <2>2, <2>3 DEF SbInv, Typed, Settled, OneSensePerStart, ConsentStep
  <2>5. ShowsInv'
    BY <2>3 DEF ShowsInv, ReadsLastWrite
  <2> QED BY <2>4, <2>5
<1>2. ASSUME UNCHANGED <<sbdev_list, regs, history>>, running => running'
      PROVE  SbInv' /\ ShowsInv' /\ ConsentStep
  <2>1. /\ regs' = regs /\ sensed' = sensed /\ seen' = seen /\ sbdev_list' = sbdev_list
        /\ watched' = watched
    BY <1>2 DEF history
  <2>2. SbInv' /\ ConsentStep
    BY <2>1 DEF SbInv, Typed, Listed, Settled, OneSensePerStart, ConsentStep
  <2>3. \A e : At(e)' = At(e) /\ Gives(e, watched.msg)' = Gives(e, watched.msg)
    BY <2>1 DEF At, Gives
  <2>4. ShowsInv'
    BY <1>2, <2>1, <2>3 DEF ShowsInv, ReadsLastWrite
  <2> QED BY <2>2, <2>4
<1>3. CASE Boot
  BY <1>2, <1>3 DEF Boot
<1>4. ASSUME NEW ep \in Targets, NEW m \in Reads, Read(ep, m)
      PROVE  SbInv' /\ ShowsInv' /\ ConsentStep
  BY <1>2, <1>4 DEF Read
<1>5. ASSUME NEW ep \in Targets, NEW m \in Writes, Write(ep, m)
      PROVE  SbInv' /\ ShowsInv' /\ ConsentStep
  BY <1>5, WriteStep
<1>6. CASE UNCHANGED sbVars
  BY <1>2, <1>6 DEF sbVars
<1> QED BY <1>1, <1>3, <1>4, <1>5, <1>6 DEF SbNext

-----------------------------------------------------------------------------
(* Every write that a device answers is read back through its endpoint     *)
(* (fusectl_write, dfxagg_write, exi_write), whatever devices there are and *)
(* however their endpoints clash.                                          *)
THEOREM WritesAreReadBack == ASSUME SidebandAssumption PROVE SbSpec => []ReadsLastWrite
<1>1. SbInit => SbInv /\ ShowsInv
  BY SbInvInit
<1>2. SbInv /\ ShowsInv /\ [SbNext]_sbVars => (SbInv /\ ShowsInv)'
  BY SbInvNext
<1>3. SbInv /\ ShowsInv => ReadsLastWrite
  BY DEF ShowsInv
<1> QED BY <1>1, <1>2, <1>3, PTL DEF SbSpec

(* A sense operation is reported once for every start (fusectl_process).   *)
THEOREM SensesOnce == ASSUME SidebandAssumption PROVE SbSpec => []OneSensePerStart
<1>1. SbInit => SbInv /\ ShowsInv
  BY SbInvInit
<1>2. SbInv /\ ShowsInv /\ [SbNext]_sbVars => (SbInv /\ ShowsInv)'
  BY SbInvNext
<1>3. SbInv /\ ShowsInv => OneSensePerStart
  BY DEF SbInv
<1> QED BY <1>1, <1>2, <1>3, PTL DEF SbSpec

(* The consent of the owner holds, by any messages (dfxagg_write).         *)
THEOREM OwnerConsents == ASSUME SidebandAssumption PROVE SbSpec => ConsentHolds
<1>1. SbInit => SbInv /\ ShowsInv
  BY SbInvInit
<1>2. SbInv /\ ShowsInv /\ [SbNext]_sbVars => (SbInv /\ ShowsInv)'
  BY SbInvNext
<1>3. SbInv /\ ShowsInv /\ [SbNext]_sbVars => [ConsentStep]_sbVars
  BY SbInvNext
<1> QED BY <1>1, <1>2, <1>3, PTL DEF SbSpec, ConsentHolds

-----------------------------------------------------------------------------
(* The functions of the PCH: the log keeps up with the status registers and *)
(* a cell keeps what it was given (module PciRegs).                        *)

PciTyped ==
  /\ pciRegs = [fn \in Functions |-> pciRegs[fn]]
  /\ \A fn \in Functions : pciRegs[fn] \in [Offsets(fn) -> SUBSET (0 .. 31)]
  /\ told \in [Fields -> SUBSET (0 .. 31)]
  /\ pciWatched \in PciReads

PciInv == PciTyped /\ LogTellsStatus /\ CellsHold

LEMMA StatusFields ==
  /\ Fs # Gs1 /\ Fs \in Offsets("heci") /\ Gs1 \in Offsets("heci") /\ "heci" \in Functions
  /\ \A f \in Fields : f[1] \in {Fs, Gs1}
BY DEF Fs, Gs1, Offsets, HeciOffsets, Functions, Fields

LEMMA PciStart == ASSUME PciInit PROVE PciInv
<1>1. PciTyped
  <2>1. \A fn, o : Reset(fn, o) \in SUBSET (0 .. 31)
    BY DEF Reset
  <2> QED BY <2>1 DEF PciInit, PciTyped
<1>2. LogTellsStatus
  <2>1. \A o \in Offsets("heci") : pciRegs["heci"][o] = {}
    BY StatusFields DEF PciInit, Reset
  <2> QED BY <2>1, StatusFields DEF PciInit, LogTellsStatus
<1>3. CellsHold
  <2> SUFFICES ASSUME pciWatched.fn \in {"heci", "thub"}
               PROVE  PciGives(pciWatched) =
                        IF PciNamed(pciWatched) # {} THEN Reset(pciWatched.fn, pciWatched.off) ELSE {}
    BY DEF PciInit, CellsHold
  <2>1. PciGives(pciWatched) = UNION {pciRegs[pciWatched.fn][o] : o \in PciNamed(pciWatched)}
    BY DEF PciGives
  <2>2. CASE PciNamed(pciWatched) = {}
    BY <2>1, <2>2
  <2>3. CASE PciNamed(pciWatched) # {}
    <3>1. PciNamed(pciWatched) = {pciWatched.off} /\ pciWatched.off \in Offsets(pciWatched.fn)
      BY <2>3 DEF PciNamed
    <3>2. pciRegs[pciWatched.fn][pciWatched.off] = Reset(pciWatched.fn, pciWatched.off)
      BY <3>1 DEF PciInit, Functions
    <3> QED BY <2>1, <3>1, <3>2
  <2> QED BY <2>2, <2>3
<1> QED BY <1>1, <1>2, <1>3 DEF PciInv

(* What a write leaves in the cells: the word in the one that it names. *)
LEMMA CellsAfter ==
  ASSUME PciTyped, PciRegsAssumption, NEW m \in PciWrites, PciWrite(m)
  PROVE  /\ pciRegs' = [fn \in Functions |-> pciRegs'[fn]]
         /\ \A fn \in Functions :
              /\ pciRegs'[fn] \in [Offsets(fn) -> SUBSET (0 .. 31)]
              /\ \A o \in Offsets(fn) :
                   pciRegs'[fn][o] = IF fn = m.fn /\ o \in PciNamed(m) THEN m.word ELSE pciRegs[fn][o]
<1>1. m.word \in SUBSET (0 .. 31) /\ m.fn \in Functions
  BY DEF PciRegsAssumption, Message
<1>2. CASE PciNamed(m) = {}
  BY <1>2 DEF PciWrite, PciTyped
<1>3. CASE PciNamed(m) # {}
  <2>1. PciNamed(m) = {m.off} /\ m.off \in Offsets(m.fn)
    BY <1>3 DEF PciNamed
  <2>2. pciRegs' = [pciRegs EXCEPT ![m.fn][m.off] = m.word]
    BY <1>3 DEF PciWrite
  <2>3. pciRegs' = [fn \in Functions |->
                     IF fn = m.fn THEN [pciRegs[fn] EXCEPT ![m.off] = m.word] ELSE pciRegs[fn]]
    BY <1>1, <2>2 DEF PciTyped
  <2> QED BY <1>1, <2>1, <2>3 DEF PciTyped
<1> QED BY <1>2, <1>3

LEMMA LogKeepsUp ==
  ASSUME PciTyped, LogTellsStatus, PciRegsAssumption, NEW m \in PciWrites, PciWrite(m)
  PROVE  LogTellsStatus' /\ told' \in [Fields -> SUBSET (0 .. 31)]
<1>1. m.word \in SUBSET (0 .. 31) /\ m.fn \in Functions
  BY DEF PciRegsAssumption, Message
<1>2. \A f \in Fields : pciRegs'["heci"][f[1]] =
         IF "heci" = m.fn /\ f[1] \in PciNamed(m) THEN m.word ELSE pciRegs["heci"][f[1]]
  BY CellsAfter, StatusFields
<1>3. CASE m.fn = "heci" /\ PciNamed(m) \cap {Fs, Gs1} # {}
  <2>1. PciNamed(m) = {m.off} /\ m.off \in {Fs, Gs1} /\ told' = Log(m.off, m.word)
    BY <1>3 DEF PciNamed, PciWrite
  <2>2. \A f \in Fields : told'[f] = pciRegs'["heci"][f[1]] \cap FieldBits(f)
    <3> TAKE f \in Fields
    <3> DEFINE old == pciRegs["heci"][f[1]]
    <3>1. told[f] = old \cap FieldBits(f)
      BY DEF LogTellsStatus
    <3>2. told'[f] = IF f[1] = m.off /\ Changed(f, old, m.word) THEN FieldBits(f) \cap m.word ELSE told[f]
      BY <2>1 DEF Log
    <3>3. pciRegs'["heci"][f[1]] = IF f[1] = m.off THEN m.word ELSE old
      BY <1>2, <1>3, <2>1
    <3> HIDE DEF old
    <3>4. CASE f[1] = m.off /\ ~ Changed(f, old, m.word)
      <4>1. \A b \in FieldBits(f) : b \in old <=> b \in m.word
        BY <3>4 DEF Changed
      <4> QED BY <3>1, <3>2, <3>3, <3>4, <4>1
    <3> QED BY <3>1, <3>2, <3>3, <3>4
  <2>3. told' \in [Fields -> SUBSET (0 .. 31)]
    BY <1>1, <2>1 DEF Log, PciTyped
  <2> QED BY <2>2, <2>3 DEF LogTellsStatus
<1>4. CASE ~ (m.fn = "heci" /\ PciNamed(m) \cap {Fs, Gs1} # {})
  <2>1. told' = told
    BY <1>4 DEF PciWrite
  <2>2. \A f \in Fields : pciRegs'["heci"][f[1]] = pciRegs["heci"][f[1]]
    BY <1>2, <1>4, StatusFields
  <2> QED BY <2>1, <2>2 DEF LogTellsStatus, PciTyped
<1> QED BY <1>3, <1>4

LEMMA CellsKeep ==
  ASSUME PciTyped, CellsHold, PciRegsAssumption, NEW m \in PciWrites, PciWrite(m)
  PROVE  CellsHold'
<1> DEFINE w == pciWatched
<1> SUFFICES ASSUME w.fn \in {"heci", "thub"}
             PROVE  PciGives(w)' =
                      IF pciSeen' = {} /\ PciNamed(w) # {} THEN Reset(w.fn, w.off) ELSE UNION pciSeen'
  BY DEF CellsHold, PciWrite, PciNamed
<1>1. /\ w' = w /\ w.fn \in Functions
      /\ PciGives(w) = UNION {pciRegs[w.fn][o] : o \in PciNamed(w)}
      /\ PciGives(w)' = UNION {pciRegs'[w.fn][o] : o \in PciNamed(w)}
  BY DEF PciWrite, PciGives, PciNamed, Functions
<1>2. \A o \in Offsets(w.fn) :
        pciRegs'[w.fn][o] = IF w.fn = m.fn /\ o \in PciNamed(m) THEN m.word ELSE pciRegs[w.fn][o]
  BY <1>1, CellsAfter
<1>3. PciGives(w) = IF pciSeen = {} /\ PciNamed(w) # {} THEN Reset(w.fn, w.off) ELSE UNION pciSeen
  BY DEF CellsHold
<1>4. w \in Message /\ m.bar \in 0 .. 3 /\ m.off \in Nat /\ m.count \in Nat
  BY DEF PciTyped, PciRegsAssumption, Message
<1>5. pciSeen' = IF PciNamed(m) # {} /\ <<m.fn, m.bar, m.off, m.count>> = <<w.fn, w.bar, w.off, w.count>>
                   THEN {m.word} ELSE pciSeen
  BY DEF PciWrite
<1>6. CASE PciNamed(m) # {} /\ <<m.fn, m.bar, m.off, m.count>> = <<w.fn, w.bar, w.off, w.count>>
  <2>1. m.fn = w.fn /\ m.bar = w.bar /\ m.off = w.off /\ m.count = w.count
    BY <1>6
  <2>2. PciNamed(w) = {w.off} /\ PciNamed(m) = {w.off} /\ w.off \in Offsets(w.fn)
    BY <1>6, <2>1 DEF PciNamed
  <2>3. PciGives(w)' = m.word
    BY <1>1, <1>2, <2>1, <2>2
  <2>4. pciSeen' = {m.word}
    BY <1>5, <1>6
  <2> QED BY <2>3, <2>4
<1>7. CASE ~ (PciNamed(m) # {} /\ <<m.fn, m.bar, m.off, m.count>> = <<w.fn, w.bar, w.off, w.count>>)
  <2>1. pciSeen' = pciSeen
    BY <1>5, <1>7
  <2>2. \A o \in PciNamed(w) : pciRegs'[w.fn][o] = pciRegs[w.fn][o]
    <3> SUFFICES ASSUME NEW o \in PciNamed(w), w.fn = m.fn, o \in PciNamed(m) PROVE FALSE
      BY <1>2 DEF PciNamed
    <3>1. /\ w.bar = 0 /\ w.count = 4 /\ o = w.off
          /\ m.bar = 0 /\ m.count = 4 /\ o = m.off
      BY DEF PciNamed
    <3> QED BY <1>7, <3>1
  <2>3. PciGives(w)' = PciGives(w)
    BY <1>1, <2>2
  <2> QED BY <1>3, <2>1, <2>3
<1> QED BY <1>6, <1>7

LEMMA PciStays ==
  ASSUME PciInv, UNCHANGED <<pciRegs, told, pciWatched, pciSeen>>
  PROVE  PciInv'
<1>1. PciTyped' /\ LogTellsStatus'
  BY DEF PciInv, PciTyped, LogTellsStatus
<1>2. PciNamed(pciWatched)' = PciNamed(pciWatched)
  BY DEF PciNamed
<1>3. PciGives(pciWatched)' = PciGives(pciWatched)
  BY <1>2 DEF PciGives, PmcGives, AesGives
<1>4. CellsHold'
  BY <1>2, <1>3 DEF PciInv, CellsHold
<1> QED BY <1>1, <1>4 DEF PciInv

LEMMA PciStep == ASSUME PciRegsAssumption, PciInv, [PciNext]_pciVars PROVE PciInv'
<1>1. ASSUME NEW m \in PciReads, PciRead(m) PROVE PciInv'
  BY <1>1, PciStays DEF PciRead
<1>2. ASSUME NEW m \in PciWrites, PciWrite(m) PROVE PciInv'
  <2>1. LogTellsStatus' /\ told' \in [Fields -> SUBSET (0 .. 31)]
    BY <1>2, LogKeepsUp DEF PciInv
  <2>2. CellsHold'
    BY <1>2, CellsKeep DEF PciInv
  <2>3. PciTyped'
    BY <1>2, <2>1, CellsAfter DEF PciInv, PciTyped, PciWrite
  <2> QED BY <2>1, <2>2, <2>3 DEF PciInv
<1>3. CASE UNCHANGED pciVars
  BY <1>3, PciStays DEF pciVars
<1> QED BY <1>1, <1>2, <1>3 DEF PciNext

(* The log and the status registers of HECI agree (heci_handle_fs_change,   *)
(* heci_handle_gs1_change).                                                *)
THEOREM LogIsComplete == ASSUME PciRegsAssumption PROVE PciSpec => []LogTellsStatus
<1>1. PciInit => PciInv
  BY PciStart
<1>2. PciInv /\ [PciNext]_pciVars => PciInv'
  BY PciStep
<1>3. PciInv => LogTellsStatus
  BY DEF PciInv
<1> QED BY <1>1, <1>2, <1>3, PTL DEF PciSpec

(* A cell of a function of the PCH holds what was written to it last        *)
(* (heci_bar_write, tracehub_gth_write).                                   *)
THEOREM CellsKeepWords == ASSUME PciRegsAssumption PROVE PciSpec => []CellsHold
<1>1. PciInit => PciInv
  BY PciStart
<1>2. PciInv /\ [PciNext]_pciVars => PciInv'
  BY PciStep
<1>3. PciInv => CellsHold
  BY DEF PciInv
<1> QED BY <1>1, <1>2, <1>3, PTL DEF PciSpec
=============================================================================
