------------------------------- MODULE MCKernel -------------------------------
(***************************************************************************)
(* Two parts of the program that share no state: a behaviour exercises one *)
(* of them, and of the kernel one kind of call.                            *)
(*                                                                         *)
(* Loader and Kernel: an address space of 24 pages of 32 bytes, the ROM in  *)
(* pages 20 and 21, the system library in pages 16 to 18; modules with      *)
(* ranges of whole pages and of parts of pages, of no size, that come over  *)
(* the library and that wrap around; manifests with an extension missing    *)
(* or of no length; thunks that are in each other's way.                   *)
(*                                                                         *)
(* Snowball: up to three sections of every kind, of which some do not fit  *)
(* and some are refused, and a table of two implemented calls.             *)
(***************************************************************************)
EXTENDS Snowball, Kernel, TLC

VARIABLE bench

Process(base, bss, heap) ==
  [type |-> 5, length |-> 68, priv_code_base_address |-> base, bss_size |-> bss,
   default_heap_size |-> heap, main_thread_id |-> 7, main_thread_entry |-> base]
ThreadInfo(sizes) == [type |-> 6, length |-> 8 + 12 * Len(sizes), stack_size |-> sizes]
McSegments == <<[base |-> 100, limit |-> 8], [base |-> 760, limit |-> 16]>>
Mmio(ranges) == [type |-> 8, length |-> 8 + 12 * Len(ranges), ranges |-> ranges]
ModAttr(size) == [type |-> 10, length |-> 156, uncompressed_size |-> size]
Shared(ctx, total) ==
  [type |-> 4, length |-> 28, context_size |-> ctx, total_alloc_virtual_space |-> total]
Locked(n) ==
  [type |-> 11, length |-> 8 + 8 * n, ranges |-> [i \in 1 .. n |-> [base |-> 512, size |-> 32]]]

ModMet(base, size, sizes, heap, bss) ==
  <<ModAttr(size), ThreadInfo(sizes), Process(base, bss, heap), Mmio(McSegments)>>
LibMet(ctx, total) == <<Shared(ctx, total), ModAttr(64), Locked(1)>>

Section(base, met, image, thunks) ==
  [found |-> TRUE, base |-> base, size |-> 40, met |-> met, jumps |-> image, thunks |-> thunks]

RomThunksAt == "read_seg_32" :> 644 @@ "write_seg" :> 650 @@ "read_seg_16" :> 660
McRom == Section(640, << >>, << >>, RomThunksAt)
McLib == Section(-1, LibMet(32, 96), 12 :> 1, "kernelcall" :> 516 @@ "get_tls_ptr" :> 524)
McMod == Section(-1, ModMet(64, 64, <<32, 64>>, 32, 20), << >>,
                 "read_seg" :> 70 @@ "write_seg_8" :> 80)
Good == [rom |-> McRom, lib |-> McLib, mod |-> McMod, cpu |-> "wired"]

SnowSection(kind, given, len) == [kind |-> kind, given |-> given, len |-> len]

(* Every length of every range. *)
Shapes ==
  {[Good EXCEPT !.mod.met = ModMet(base, size, sizes, heap, bss)] :
     base \in {64, 68, 448}, size \in {32, 48, 64},
     sizes \in {<<32>>, <<32, 64>>, <<40>>, <<40, 24>>, <<32, 40>>, <<704>>, <<32, 736>>, <<224, 416>>},
     heap \in {0, 24, 32, 760}, bss \in {0, 20, 736}}

(* Manifests that lack an extension, or with one of no length. *)
Without(met, i) == SubSeq(met, 1, i - 1) \o SubSeq(met, i + 1, Len(met))
Faulty ==
  {[Good EXCEPT !.mod.met = Without(@, i)] : i \in 1 .. 4}
  \cup {[Good EXCEPT !.mod.met[i].length = 0] : i \in 1 .. 4}
  \cup {[Good EXCEPT !.lib.met = Without(@, i)] : i \in 1 .. 3}
  \cup {[Good EXCEPT !.lib.met = Append(Without(@, 3), Locked(0))],
        [Good EXCEPT !.lib.met = LibMet(0, 64)], [Good EXCEPT !.lib.met = LibMet(768 - 32, 32)],
        [Good EXCEPT !.lib.met[1].length = 0], [Good EXCEPT !.rom.base = -1], [Good EXCEPT !.rom.base = 650],
        [Good EXCEPT !.rom.found = FALSE], [Good EXCEPT !.lib.found = FALSE],
        [Good EXCEPT !.mod.found = FALSE], [Good EXCEPT !.cpu = "unnamed"],
        [Good EXCEPT !.cpu = "missing"]}

(* Thunks beside each other, on each other, outside of what is mapped, and *)
(* a jump to follow that is not there or that leads outside.               *)
Crossed ==
  {[Good EXCEPT !.lib.thunks = "kernelcall" :> k @@ "get_tls_ptr" :> t] :
     k \in {507, 516, 519, 524, 528, 530, 535}, t \in {524, 525, 560, 610}}
  \cup {[Good EXCEPT !.lib.jumps = 12 :> op] : op \in {0, 100, 751, 758, 763, 765}}
  \cup {[Good EXCEPT !.mod.thunks = "get_tls_ptr" :> 524, !.lib.thunks = "read_seg" :> 540]}

McSetups == {Good, [Good EXCEPT !.cpu = "alone"]} \cup Shapes \cup Faulty \cup Crossed

Names == <<"tstamp_read", "write_seg_32", "write_seg_16", "write_seg_8", "read_seg_32", "read_seg_16",
           "read_seg_8", "write_seg", "read_seg", "kernelcall", "get_tls_ptr">>
McHandlers == [n \in {Names[i] : i \in 1 .. 11} |-> CHOOSE i \in 1 .. 11 : Names[i] = n]

McOffsets == {-2, 0, 3, 4, 8, 12}
McCounts == {-4, 0, 2, 5}

-----------------------------------------------------------------------------
McSection ==
  { SnowSection("string", -1, 3), SnowSection("string", 2, 1), SnowSection("string", 3, 1),
    SnowSection("file", -1, 9), SnowSection("file", -1, 14), SnowSection("empty", 1, 0),
    SnowSection("empty", -1, 0), SnowSection("int", 2, 0), SnowSection("int", 4, 0) }
McLists == UNION {[1 .. n -> McSection] : n \in 0 .. 3}
McTable == << [size |-> 3, impl |-> "read"], [size |-> 0, impl |-> "none"],
              [size |-> 2, impl |-> "other"] >>

(* The assumptions of the other modules hold for the values above.         *)
ASSUME BenchAssumption == LoaderAssumption /\ KernelAssumption

-----------------------------------------------------------------------------
(* What is not on the bench stays as it starts. *)
BenchInit ==
  /\ bench \in {"load", "tls", "segments", "grants", "snowball"}
  /\ Init
  /\ bench = "snowball" \/ sections = << >>
  /\ setup \in IF bench = "load" THEN Setups
                ELSE IF bench = "snowball" THEN {Good} ELSE {Good, [Good EXCEPT !.cpu = "alone"]}
  /\ KernelInit
  /\ bench = "grants" \/ \A t \in DOMAIN grants : grants[t] = <<"a">>

KernelStep ==
  /\ bench # "snowball"
  /\ \/ Load
     \/ StartThread
     \/ bench = "tls" /\ CallTls
     \/ bench = "segments" /\ CallSeg
     \/ bench = "grants" /\ (CallSync \/ CallLock \/ KeepTable)
  /\ UNCHANGED <<bench, vars>>
SnowballStep == bench = "snowball" /\ Next /\ UNCHANGED <<bench, loading, kernel>>

BenchSpec ==
  BenchInit /\ [][KernelStep \/ SnowballStep]_<<bench, vars, loading, kernel>>
=============================================================================
