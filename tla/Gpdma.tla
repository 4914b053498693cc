-------------------------------- MODULE Gpdma --------------------------------
(***************************************************************************)
(* The general purpose DMA engine of the hash unit (periph/ocs/dma/gpdma.c *)
(* with the callbacks ocs_spawn and hash_init give it): firmware writes    *)
(* its registers and a transaction moves cells, a buffer full a turn,      *)
(* between the bus and the unit.  Every register write ends in             *)
(* gpdma_run_transaction; one action is one half of a turn of its loop.    *)
(*                                                                         *)
(* The memory behind the bus is mem, a function on the addresses a device  *)
(* answers to; a transfer that leaves it is answered by nobody.  Cells are *)
(* counted instead of bytes.                                               *)
(***************************************************************************)
EXTENDS Integers, Sequences

CONSTANTS
  BufLen,    (* cells in gpdma_buffer: 64 bytes in the code                *)
  Mapped,    (* the addresses that a device on the bus answers to          *)
  Values,    (* the contents of a cell of memory                           *)
  Addrs,     (* the addresses firmware writes; 0 is the unit itself        *)
  Sizes      (* the sizes firmware writes                                  *)

ASSUME BufLenAssumption == BufLen \in Nat \ {0}
ASSUME AddrAssumption == Mapped \subseteq Nat \ {0} /\ Addrs \subseteq Nat
ASSUME SizesAssumption == Sizes \subseteq Nat

VARIABLES
  src_addr, dst_addr, src_size, dst_size,
  go,           (* bit 31 of control                                       *)
  gpdma_buffer,
  pc,           (* "idle", "fetch" or "store": where in the loop           *)
  pos, count,   (* the locals of gpdma_run_transaction                     *)
  mem,          (* the memory behind the bus                               *)
  ran,          (* history: the last access of firmware ran a transaction  *)
  received      (* history: what it has given to the hash unit             *)

regs == <<src_addr, dst_addr, src_size, dst_size>>
vars == <<regs, go, gpdma_buffer, pc, pos, count, mem, ran, received>>

-----------------------------------------------------------------------------

Window(a, n) == a .. a + n - 1

(* Mutant of Larger: the destination's size is not looked at. *)
LargerFirst(m, n) == m

(* The count: the source's size, unless the destination's is larger. *)
Larger(m, n) == IF n > m THEN n ELSE m

(* Mutant of TurnSize: masked, not capped. *)
TurnMasked == IF count > BufLen THEN BufLen ELSE count % BufLen

TurnSize == IF count > BufLen THEN BufLen ELSE count

(* Mutant of Fetched: every turn reads from the start of the source. *)
FetchedFromStart(buf, a, n) ==
  IF Window(src_addr, n) \subseteq Mapped
    THEN [i \in 1 .. BufLen |-> IF i <= n THEN mem[src_addr + i - 1] ELSE buf[i]]
    ELSE buf

(* ocs_dma_read: a read of the bus into the buffer, which keeps what it    *)
(* held when no device answers for the whole of it.                        *)
Fetched(buf, a, n) ==
  IF Window(a, n) \subseteq Mapped
    THEN [i \in 1 .. BufLen |-> IF i <= n THEN mem[a + i - 1] ELSE buf[i]]
    ELSE buf

(* gpdma_run_transaction up to its loop, with bit 31 of control at g. *)
BeginIfGo(g) ==
  /\ go' = FALSE
  /\ ran' = g
  /\ received' = << >>
  /\ IF g
       THEN /\ pos' = 0
            /\ count' = Larger(src_size', dst_size')
            /\ pc' = IF count' = 0 THEN "idle" ELSE "fetch"
       ELSE UNCHANGED <<pos, count, pc>>

Init ==
  /\ src_addr = 0 /\ dst_addr = 0 /\ src_size = 0 /\ dst_size = 0
  /\ go = FALSE
  /\ gpdma_buffer = [i \in 1 .. BufLen |-> "clean"]
  /\ pc = "idle" /\ pos = 0 /\ count = 0
  /\ mem \in [Mapped -> Values]
  /\ ran = FALSE
  /\ received = << >>

-----------------------------------------------------------------------------
(* gpdma_write, one action per register, and firmware's own stores. *)

WriteSrcAddr(a) ==
  /\ pc = "idle"
  /\ src_addr' = a
  /\ UNCHANGED <<dst_addr, src_size, dst_size, gpdma_buffer, mem>>
  /\ BeginIfGo(go)

WriteDstAddr(a) ==
  /\ pc = "idle"
  /\ dst_addr' = a
  /\ UNCHANGED <<src_addr, src_size, dst_size, gpdma_buffer, mem>>
  /\ BeginIfGo(go)

WriteSrcSize(n) ==
  /\ pc = "idle"
  /\ src_size' = n
  /\ UNCHANGED <<src_addr, dst_addr, dst_size, gpdma_buffer, mem>>
  /\ BeginIfGo(go)

WriteDstSize(n) ==
  /\ pc = "idle"
  /\ dst_size' = n
  /\ UNCHANGED <<src_addr, dst_addr, src_size, gpdma_buffer, mem>>
  /\ BeginIfGo(go)

WriteControl(g) ==
  /\ pc = "idle"
  /\ UNCHANGED <<regs, gpdma_buffer, mem>>
  /\ BeginIfGo(g)

(* STATUS and the registers that are only logged. *)
WriteOther ==
  /\ pc = "idle"
  /\ UNCHANGED <<regs, gpdma_buffer, mem>>
  /\ BeginIfGo(go)

(* Between two accesses firmware stores to memory. *)
StoreMem(a, v) ==
  /\ pc = "idle"
  /\ mem' = [mem EXCEPT ![a] = v]
  /\ ran' = FALSE
  /\ received' = << >>
  /\ UNCHANGED <<regs, go, gpdma_buffer, pc, pos, count>>

(* The first half of a turn: the bus, or hash_dma_read, which only logs. *)
Fetch ==
  /\ pc = "fetch"
  /\ pc' = "store"
  /\ gpdma_buffer' = IF src_addr # 0
                       THEN Fetched(gpdma_buffer, src_addr + pos, TurnSize)
                       ELSE gpdma_buffer
  /\ UNCHANGED <<regs, go, pos, count, mem, ran, received>>

(* The second half: ocs_dma_write, which reads the bus into the buffer as  *)
(* ocs_dma_read does, or hash_dma_write.                                   *)
Store ==
  /\ pc = "store"
  /\ pos' = pos + TurnSize
  /\ count' = count - TurnSize
  /\ pc' = IF count' = 0 THEN "idle" ELSE "fetch"
  /\ IF dst_addr # 0
       THEN /\ gpdma_buffer' = Fetched(gpdma_buffer, dst_addr + pos, TurnSize)
            /\ UNCHANGED received
       ELSE /\ received' = received \o SubSeq(gpdma_buffer, 1, TurnSize)
            /\ UNCHANGED gpdma_buffer
  /\ UNCHANGED <<regs, go, mem, ran>>

Access ==
  \/ \E a \in Addrs : WriteSrcAddr(a)
  \/ \E a \in Addrs : WriteDstAddr(a)
  \/ \E n \in Sizes : WriteSrcSize(n)
  \/ \E n \in Sizes : WriteDstSize(n)
  \/ \E g \in BOOLEAN : WriteControl(g)
  \/ WriteOther
  \/ \E a \in Mapped, v \in Values : StoreMem(a, v)

Turn == Fetch \/ Store

Next == Access \/ Turn

Spec == Init /\ [][Next]_vars

(* The loop runs to its end inside the register access. *)
FairSpec == Spec /\ WF_vars(Turn)

-----------------------------------------------------------------------------
(* Properties. *)

(* The loop never moves more than its buffer holds nor more than is asked. *)
TypeOK ==
  /\ src_addr \in Addrs \cup {0} /\ dst_addr \in Addrs \cup {0}
  /\ src_size \in Sizes \cup {0} /\ dst_size \in Sizes \cup {0}
  /\ go \in BOOLEAN /\ ran \in BOOLEAN
  /\ gpdma_buffer \in [1 .. BufLen -> Values \cup {"clean"}]
  /\ pc \in {"idle", "fetch", "store"}
  /\ pos \in Nat /\ count \in Nat
  /\ mem \in [Mapped -> Values]
  /\ received \in Seq(Values \cup {"clean"})

ToUnit == ran /\ dst_addr = 0
Size == IF src_size < dst_size THEN dst_size ELSE src_size

(* What the hash unit is given is the source, in order, each cell once,    *)
(* across the turns of the loop, however the size divides into them, when  *)
(* a device answers for all of it.                                         *)
UnitGetsSource ==
  ToUnit /\ src_addr # 0 /\ Window(src_addr, Size) \subseteq Mapped =>
    received = [i \in 1 .. pos |-> mem[src_addr + i - 1]]

(* A transaction that has ended has given the unit the larger of the two   *)
(* sizes, even when no device answered: the results of the bus callbacks   *)
(* are ignored, and the unit counts the cells of an earlier turn.          *)
UnitGetsSize ==
  ToUnit /\ pc = "idle" => Len(received) = Size

(* Only a write of CONTROL runs a transaction: bit 31 is taken back before *)
(* the loop, so that a later write of an address or a size, which calls    *)
(* gpdma_run_transaction too, does not run it again.                       *)
RunsOnOrder == [][~ UNCHANGED regs => ~ ran']_vars

(* A transaction ends: the register access that runs it returns. *)
TransactionEnds == pc # "idle" ~> pc = "idle"
=============================================================================
