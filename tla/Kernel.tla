-------------------------------- MODULE Kernel --------------------------------
(***************************************************************************)
(* What the emulator does for firmware that runs, other than the snowball  *)
(* (module Snowball): user/kernel/threads.c, memory.c, grant.c, dma.c and   *)
(* select.c, user/romlib/mmio.c and user/syslib/tls.c.                     *)
(*                                                                         *)
(* Firmware calls functions of the ROM and system libraries.  Those that a  *)
(* thunk leads to the emulator (module Loader) read and write segments on   *)
(* the bus, find the storage of a thread, or are kernel calls: they tell   *)
(* where the table of memory grants is and lock a grant for DMA.           *)
(***************************************************************************)
EXTENDS Loader

CONSTANTS
  Selectors,  (* the selectors that firmware uses                           *)
  Offsets,    (* the offsets that it uses, as signed integers               *)
  Counts,     (* the counts that it passes to read_seg and write_seg        *)
  Strays,     (* what a variable that was never set may hold                *)
  Poison,     (* the selector whose unanswered reads show: 0x3B             *)
  Depths,     (* how far down its stack firmware is when it calls            *)
  Tables,     (* where firmware keeps a table of grants                     *)
  Buffers     (* the buffers that it grants                                 *)

KernelAssumption ==
  /\ Selectors \subseteq Nat /\ Poison \in Nat /\ Strays \subseteq Address /\ Depths \subseteq Nat
  /\ 4 < Space \div 2 /\ Offsets \cup Counts \subseteq -(Space \div 2) .. (Space \div 2) - 1
  /\ "null" \notin Tables
  /\ \A s \in Setups : s.cpu \in {"unnamed", "missing", "alone", "wired"}

VARIABLES
  words,     (* what start_thread put on the stack: from address to value   *)
  access,    (* the last access that came to the bus, or NoAccess           *)
  value,     (* what the last read of a segment gave                        *)
  tls,       (* the last slot of thread-local storage asked for: [slot, ptr] *)
  grants,    (* the tables of grants in firmware's memory                   *)
  mg_list,   (* the table the kernel knows, or "null", ...                  *)
  mg_count,  (* ... and its length                                          *)
  address_out (* the buffer that the last lock gave                         *)

NoAccess == [seg |-> 0, offset |-> 0, count |-> 0, lad |-> 0]
NoSlot == [slot |-> -1, ptr |-> 0]

kernel == <<words, access, value, tls, grants, mg_list, mg_count, address_out>>

KernelInit ==
  /\ LoaderInit /\ words = << >> /\ access = NoAccess /\ value = "zero" /\ tls = NoSlot
  /\ grants \in [Tables -> Seq(Buffers) \cap UNION {[1 .. n -> Buffers] : n \in 1 .. 2}]
  /\ mg_list = "null" /\ mg_count = 0 /\ address_out = "none"

-----------------------------------------------------------------------------
(* Threads. *)

Thread == module.threads[1]
TlsOf(t) == t.stack_top - 4

ArgsSize == 8
(* Mutant of ArgsAt: the place for thread-local storage is not left.        *)
ArgsAtTop(t) == t.stack_top - ArgsSize

ArgsAt(t) == t.stack_top - 20 - ArgsSize

(* The rest of main: without its CPU the program ends with a message or,   *)
(* when no device has the name, with none.  start_thread puts the arguments *)
(* of main, a return address of 0 and the number of the thread, on the     *)
(* stack after the pointer of the storage to itself.                       *)
StartThread ==
  /\ stage = "devices"
  /\ \/ setup.cpu = "unnamed" /\ End("aborted") /\ UNCHANGED words
     \/ setup.cpu = "missing" /\ End("crashed") /\ UNCHANGED words
     \/ /\ setup.cpu \in {"alone", "wired"}
        /\ words' = [a \in {TlsOf(Thread), ArgsAt(Thread), ArgsAt(Thread) + 4} |->
                       CASE a = ArgsAt(Thread) -> 0
                         [] a = ArgsAt(Thread) + 4 -> Thread.thread_id
                         [] OTHER -> a]
        /\ End("running")
  /\ UNCHANGED <<access, value, tls, grants, mg_list, mg_count, address_out>>

Crashes == End("crashed") /\ UNCHANGED kernel

(* Firmware comes to a function of the emulator where its thunk leads.      *)
Calls(name) == stage = "running" /\ \E n \in Named : n.name = name /\ Lands(n.at, n.name)

(* get_current_thread_id: the first thread whose stack esp is in.           *)
Within(t, esp) == esp >= t.stack_top - t.stack_size /\ esp <= t.stack_top
CurrentThread(esp) ==
  CHOOSE i \in DOMAIN module.threads :
    /\ Within(module.threads[i], esp)
    /\ \A j \in 1 .. i - 1 : ~ Within(module.threads[j], esp)

GetTlsPtr(i) ==
  /\ Calls("get_tls_ptr")
  /\ \E depth \in Depths :
       LET esp == ArgsAt(Thread) - depth
       IN  /\ Within(Thread, esp)
           /\ tls' = [slot |-> i, ptr |-> TlsOf(module.threads[CurrentThread(esp)]) - 4 * i]
  /\ UNCHANGED <<loading, words, access, value, grants, mg_list, mg_count, address_out>>

-----------------------------------------------------------------------------
(* Segments. *)

IsLocal(seg) == (seg \div 4) % 2 = 1
Index(seg) == (seg \div 8) + 1

(* Mutant of Fault: the end of the access is not looked at.                *)
FaultStart(seg, offset, count) ==
  Index(seg) <= Len(module.segments) =>
    offset % Space > module.segments[Index(seg)].limit

(* The sum of the offset and the count wraps around: an offset that is      *)
(* negative passes when the count brings it back.                          *)
Fault(seg, offset, count) ==
  Index(seg) <= Len(module.segments) =>
    (offset + count) % Space > module.segments[Index(seg)].limit

(* krnl_deref_seg: of a global selector nothing is looked up.               *)
Linear(seg, offset) ==
  IF IsLocal(seg) THEN {(module.segments[Index(seg)].base + offset) % Space} ELSE Strays

Writes == {"write_seg_32", "write_seg_16", "write_seg_8", "write_seg"}
Reads == {"read_seg_32", "read_seg_16", "read_seg_8", "read_seg"}
Sizes(op) ==
  CASE op \in {"write_seg_32", "read_seg_32"} -> {4}
    [] op \in {"write_seg_16", "read_seg_16"} -> {2}
    [] op \in {"write_seg_8", "read_seg_8"} -> {1}
    [] OTHER -> Counts

(* What a read leaves that no device answers.                              *)
Preset(op, seg) ==
  CASE op = "read_seg_32" /\ seg = Poison -> "poison"
    [] op = "read_seg" -> "buffer"
    [] OTHER -> "zero"

(* A CPU that no system agent is wired to has no functions to call.         *)
SegAccess(op, seg, offset, count) ==
  /\ Calls(op)
  /\ \/ IsLocal(seg) /\ Fault(seg, offset, count) /\ Crashes
     \/ /\ ~ (IsLocal(seg) /\ Fault(seg, offset, count))
        /\ \/ setup.cpu = "alone" /\ Crashes
           \/ /\ setup.cpu = "wired"
              /\ \E lad \in Linear(seg, offset) :
                   access' = [seg |-> seg, offset |-> offset, count |-> count % Space, lad |-> lad]
              /\ \/ op \in Writes /\ UNCHANGED value
                 \/ op \in Reads /\ value' \in {Preset(op, seg), "answer"}
              /\ UNCHANGED <<loading, words, tls, grants, mg_list, mg_count, address_out>>

-----------------------------------------------------------------------------
(* Kernel calls.  sys_dma_unlock, sys_select_receive and tstamp_read give  *)
(* a fixed answer and change nothing.                                      *)

SyncList(table, size) ==
  /\ Calls("kernelcall")
  /\ mg_list' = table /\ mg_count' = size
  /\ UNCHANGED <<loading, words, access, value, tls, grants, address_out>>

(* The grant is not checked: of one beyond the table, what is there in     *)
(* memory is the buffer.                                                   *)
DmaLockEx(grant) ==
  /\ Calls("kernelcall")
  /\ \/ mg_list = "null" /\ Crashes
     \/ /\ mg_list # "null"
        /\ address_out' \in IF grant < Len(grants[mg_list]) THEN {grants[mg_list][grant + 1]} ELSE Buffers
        /\ UNCHANGED <<loading, words, access, value, tls, grants, mg_list, mg_count>>

(* Firmware keeps its tables itself.                                       *)
Grant(table, grant, buffer) ==
  /\ stage = "running" /\ grant < Len(grants[table])
  /\ grants' = [grants EXCEPT ![table][grant + 1] = buffer]
  /\ UNCHANGED <<loading, words, access, value, tls, mg_list, mg_count, address_out>>

Load == LoaderNext /\ UNCHANGED kernel
CallTls == \E i \in 0 .. 4 : GetTlsPtr(i)
CallSeg ==
  \E op \in Writes \cup Reads, seg \in Selectors, offset \in Offsets : \E count \in Sizes(op) :
    SegAccess(op, seg, offset, count)
CallSync == \E table \in Tables : SyncList(table, Len(grants[table]))
CallLock == \E grant \in 0 .. 2 : DmaLockEx(grant)
KeepTable == \E table \in Tables, grant \in 0 .. 1, b \in Buffers : Grant(table, grant, b)

KernelNext == Load \/ StartThread \/ CallTls \/ CallSeg \/ CallSync \/ CallLock \/ KeepTable

KernelSpec == KernelInit /\ [][KernelNext]_<<loading, kernel>>

-----------------------------------------------------------------------------
(* Properties. *)

KernelTypeOK ==
  /\ LoaderTypeOK /\ DOMAIN words \subseteq Address
  /\ access.lad \in Address /\ access.count \in Address
  /\ value \in {"zero", "poison", "buffer", "answer"}
  /\ tls.slot \in -1 .. 4 /\ mg_list \in Tables \cup {"null"} /\ mg_count \in Nat
  /\ address_out \in Buffers \cup {"none"}

(* Firmware that asks for its thread-local storage, wherever in its stack   *)
(* it is, gets a place of its own stack that main's arguments do not use,   *)
(* and the first slot holds the address of itself.                         *)
TlsIsOwn ==
  tls # NoSlot =>
    /\ tls.ptr \in Thread.stack_top - Thread.stack_size .. Thread.stack_top - 4
    /\ tls.ptr \notin {ArgsAt(Thread), ArgsAt(Thread) + 4}
    /\ tls.slot = 0 => words[tls.ptr] = tls.ptr

(* The bytes that a local selector lets firmware come to are those of its   *)
(* segment, unless the offset or the count is negative: those may come     *)
(* anywhere.                                                               *)
InSegment ==
  (IsLocal(access.seg) /\ access.offset >= 0 /\ access.count < Space \div 2) =>
    LET s == module.segments[Index(access.seg)]
    IN  {(access.lad + k) % Space : k \in 0 .. access.count - 1}
          \subseteq {(s.base + k) % Space : k \in 0 .. s.limit - 1}
=============================================================================
