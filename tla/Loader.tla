-------------------------------- MODULE Loader --------------------------------
(***************************************************************************)
(* How firmware comes into memory: user/loader/meloader.c, map.c,          *)
(* manifest.c and me_abi.c, user/romlib/thunks.c and user/syslib/thunks.c. *)
(*                                                                         *)
(* The ROM library, the system library and the module are loaded one after *)
(* the other: the manifest is searched for the extensions that give the    *)
(* ranges, the ranges are mapped, each over whatever was there, and then   *)
(* the functions that the configuration names get a jump to the emulator's *)
(* own.  Addresses are bytes and wrap at Space, as those of an i386 do.     *)
(***************************************************************************)
EXTENDS Integers, Sequences, FiniteSets

CONSTANTS
  Page,       (* the bytes of a page: 4096                                  *)
  Space,      (* the address space: 2^32                                    *)
  Low,        (* the lowest address that mmap gives out                     *)
  Setups,     (* what may be loaded: [rom, lib, mod], a section each        *)
  Handlers    (* where the emulator's own functions are: by name, an address *)

(* The manifest's extensions, with the fields that decide what the loader   *)
(* does.  Each says its length, and the next one begins where it ends.     *)
Address == 0 .. Space - 1
ProcessExt == [type : {5}, length : Nat, priv_code_base_address : Address,
               bss_size : Address, default_heap_size : Address,
               main_thread_id : Nat, main_thread_entry : Address]
ThreadsExt == [type : {6}, length : Nat, stack_size : Seq(Address)]
MmioExt == [type : {8}, length : Nat, ranges : Seq([base : Address, limit : Address])]
ModAttrExt == [type : {10}, length : Nat, uncompressed_size : Address]
SharedLibExt == [type : {4}, length : Nat, context_size : Address,
                 total_alloc_virtual_space : Address]
LockedExt == [type : {11}, length : Nat, ranges : Seq([base : Address, size : Address])]

ManExt == 8
ThreadSize == 12
MmioSize == 12
LockedSize == 8
Counted(e, n, size) == e.length \in {0, ManExt + n * size}

RomThunks == <<"tstamp_read", "write_seg_32", "write_seg_16", "write_seg_8", "read_seg_32",
               "read_seg_16", "read_seg_8", "write_seg", "read_seg">>
Thunks == RomThunks \o <<"kernelcall", "get_tls_ptr">>
IsRecursive(name) == name = "get_tls_ptr"

(* A section: whether it and its files are there, the base and the size of *)
(* a ROM, the manifest of another, the jumps that are in the image, from   *)
(* offset to operand, and the addresses of the thunks.                     *)
IsSection(s) ==
  /\ s.found \in BOOLEAN /\ s.base \in Address \cup {-1} /\ s.size \in Address
  /\ s.met \in Seq(ProcessExt \cup ThreadsExt \cup MmioExt \cup ModAttrExt
                   \cup SharedLibExt \cup LockedExt)
  /\ \A i \in DOMAIN s.met :
       /\ s.met[i].type = 6 => s.met[i].stack_size # << >>
                               /\ Counted(s.met[i], Len(s.met[i].stack_size), ThreadSize)
       /\ s.met[i].type = 8 => Counted(s.met[i], Len(s.met[i].ranges), MmioSize)
       /\ s.met[i].type = 11 => Counted(s.met[i], Len(s.met[i].ranges), LockedSize)
  /\ \A o \in DOMAIN s.jumps : o \in Address /\ s.jumps[o] \in Address
  /\ \A n \in DOMAIN s.thunks : n \in {Thunks[i] : i \in DOMAIN Thunks} /\ s.thunks[n] \in Address

(* mmap gives out no page at the bottom, by default none below 64 KiB: a    *)
(* guard page that wraps around takes what follows it below Low.            *)
LoaderAssumption ==
  /\ Page \in Nat \ {0} /\ Space \in Nat \ {0} /\ Space % Page = 0 /\ Low \in Nat /\ Page < Low
  /\ \A s \in Setups : IsSection(s.rom) /\ IsSection(s.lib) /\ IsSection(s.mod)
  /\ Handlers \in [{Thunks[i] : i \in DOMAIN Thunks} -> Address]

VARIABLES
  setup,   (* the sections of the configuration                             *)
  stage,   (* what is loaded now, "devices", "running", or how it ended:    *)
           (*   "aborted", "crashed", "hung"                                *)
  todo,    (* how many of the stage's thunks have been looked for           *)
  mapped,  (* of each page that is mapped, the range it belongs to          *)
  jumps,   (* of each address with a jump, its operand                      *)
  lib,     (* context_size of the system library                            *)
  module   (* the threads and segments of the module                        *)

loading == <<setup, stage, todo, mapped, jumps, lib, module>>

Stages == <<"rom", "lib", "mod">>
NoModule == [threads |-> << >>, segments |-> << >>, entry_point |-> 0]

LoaderInit ==
  /\ setup \in Setups /\ stage = "rom" /\ todo = 0
  /\ mapped = << >> /\ jumps = << >> /\ lib = 0 /\ module = NoModule

-----------------------------------------------------------------------------
(* The manifest. *)

(* man_ext_find: an extension of no length is come to again and again.      *)
Comes(met, type) == {i \in DOMAIN met : met[i].type = type /\ \A j \in 1 .. i - 1 : met[j].type # type}
Endless(met, type) ==
  \E j \in DOMAIN met : met[j].length = 0 /\ \A i \in 1 .. j : met[i].type # type
Has(met, type) == Comes(met, type) # {}
Ext(met, type) == met[CHOOSE i \in Comes(met, type) : TRUE]

Span(owner, base, size) == [owner |-> owner, base |-> base, size |-> size]

(* Mutant of StackTop: no page is left out below a stack.                  *)
StackTopTight(base, sizes) ==
  LET top[k \in 0 .. Len(sizes)] ==
        IF k = 0 THEN base ELSE (top[k - 1] + sizes[k]) % Space
  IN  top

(* Where the stacks end: below each is a guard page.                       *)
StackTop(base, sizes) ==
  LET top[k \in 0 .. Len(sizes)] ==
        IF k = 0 THEN base ELSE (top[k - 1] + Page + sizes[k]) % Space
  IN  top

(* The ranges in the order in which they are mapped.                       *)
RomRanges(s) == <<Span("rom", s.base, s.size)>>

LibRanges(s) ==
  LET base == Ext(s.met, 11).ranges[1].base
      size == Ext(s.met, 10).uncompressed_size
      bss_size == (Ext(s.met, 4).total_alloc_virtual_space - size) % Space
      bss == Span("lib bss", (base + size) % Space, bss_size)
  IN  <<Span("lib", base, size)>> \o (IF bss_size = 0 THEN << >> ELSE <<bss>>)

(* populate_ranges_mod: text_size cancels out of the size of what is       *)
(* mapped and of the base of what follows.                                 *)
ModThreads(s) ==
  LET p == Ext(s.met, 5)
      sizes == Ext(s.met, 6).stack_size
      n == (Ext(s.met, 6).length - ManExt) \div ThreadSize
      top == StackTop((p.priv_code_base_address + Ext(s.met, 10).uncompressed_size) % Space, sizes)
  IN  [i \in 1 .. n |-> [stack_top |-> top[i], stack_size |-> sizes[i],
                         thread_id |-> p.main_thread_id + i - 1]]

ModRanges(s) ==
  LET p == Ext(s.met, 5)
      threads == ModThreads(s)
      heap_base == threads[Len(threads)].stack_top
      bss_base == (heap_base + p.default_heap_size) % Space
  IN  <<Span("text", p.priv_code_base_address, Ext(s.met, 10).uncompressed_size),
        Span("heap", heap_base, p.default_heap_size),
        Span("bss", bss_base, (p.bss_size + lib) % Space)>>
      \o [i \in 1 .. Len(threads) |->
            Span("stack", (threads[i].stack_top - threads[i].stack_size) % Space,
                  threads[i].stack_size)]

ModSegments(s) ==
  SubSeq(Ext(s.met, 8).ranges, 1, (Ext(s.met, 8).length - ManExt) \div MmioSize)

-----------------------------------------------------------------------------
(* Memory. *)

JumpSize == 5
Bytes(a) == a .. a + JumpSize - 1

Pages(r) == (r.base \div Page) .. ((r.base + r.size - 1) \div Page)
PageOf(a) == a \div Page

(* mmap at a fixed place: not for a base within a page, not for nothing.    *)
Mappable(r) == r.base % Page = 0 /\ r.size > 0 /\ r.base >= Low /\ r.base + r.size <= Space

(* A range goes over whatever was in its pages.                            *)
Overlay(ranges) ==
  LET pages == UNION {Pages(ranges[i]) : i \in DOMAIN ranges}
      last(p) == CHOOSE i \in DOMAIN ranges :
                   p \in Pages(ranges[i]) /\ \A j \in DOMAIN ranges : p \in Pages(ranges[j]) => j <= i
  IN  [p \in DOMAIN mapped \cup pages |-> IF p \in pages THEN ranges[last(p)].owner ELSE mapped[p]]

(* The jumps of the image come with the pages of the file that are mapped.  *)
JumpsAfter(ranges, image) ==
  LET over(a) == \E i \in DOMAIN ranges, b \in Bytes(a) : PageOf(b) \in Pages(ranges[i])
      own == {a \in {ranges[1].base + o : o \in DOMAIN image} :
                \A b \in Bytes(a) : PageOf(b) \in Pages(ranges[1])}
  IN  [a \in {b \in DOMAIN jumps : ~ over(b)} \cup own |->
         IF a \in own THEN image[a - ranges[1].base] ELSE jumps[a]]

End(how) == stage' = how /\ UNCHANGED <<setup, todo, mapped, jumps, lib, module>>

(* A stage: the section, the extensions that it needs, its ranges, and the *)
(* thunks afterwards.                                                      *)
Needs == [rom |-> << >>, lib |-> <<10, 4, 11>>, mod |-> <<10, 6, 5, 8>>]

(* Every extension is looked for before the first is missed.               *)
Hangs(s, types) == \E i \in DOMAIN types : Endless(s.met, types[i])
Lacks(s, types) == \E i \in DOMAIN types : ~ Has(s.met, types[i])
LocksNothing(s) == Has(s.met, 11) /\ Ext(s.met, 11).length < ManExt + LockedSize

Map(ranges, image, context_size, mod) ==
  \/ (\E i \in DOMAIN ranges : ~ Mappable(ranges[i])) /\ End("aborted")
  \/ /\ \A i \in DOMAIN ranges : Mappable(ranges[i])
     /\ mapped' = Overlay(ranges) /\ jumps' = JumpsAfter(ranges, image)
     /\ lib' = context_size /\ module' = mod
     /\ todo' = 1 /\ UNCHANGED <<setup, stage>>

LoadRom ==
  /\ stage = "rom" /\ todo = 0
  /\ \/ (~ setup.rom.found \/ setup.rom.base = -1) /\ End("aborted")
     \/ /\ setup.rom.found /\ setup.rom.base # -1
        /\ Map(RomRanges(setup.rom), setup.rom.jumps, lib, module)

LoadSyslib ==
  /\ stage = "lib" /\ todo = 0
  /\ LET s == setup.lib
     IN  \/ ~ s.found /\ End("aborted")
         \/ s.found /\ Hangs(s, Needs.lib) /\ End("hung")
         \/ /\ s.found /\ ~ Hangs(s, Needs.lib)
            /\ Lacks(s, Needs.lib) \/ LocksNothing(s)
            /\ End("aborted")
         \/ /\ s.found /\ ~ Hangs(s, Needs.lib) /\ ~ Lacks(s, Needs.lib) /\ ~ LocksNothing(s)
            /\ Map(LibRanges(s), s.jumps, Ext(s.met, 4).context_size, module)

(* The count of an extension of no length wraps around: no memory is had    *)
(* for as many threads or segments.                                        *)
Overcounts(s) == \E type \in {6, 8} : Ext(s.met, type).length < ManExt

Laid(s) == [threads |-> ModThreads(s), segments |-> ModSegments(s),
            entry_point |-> Ext(s.met, 5).main_thread_entry]

LoadModule ==
  /\ stage = "mod" /\ todo = 0
  /\ LET s == setup.mod
     IN  \/ ~ s.found /\ End("aborted")
         \/ s.found /\ Hangs(s, Needs.mod) /\ End("hung")
         \/ s.found /\ ~ Hangs(s, Needs.mod) /\ Lacks(s, Needs.mod) /\ End("aborted")
         \/ /\ s.found /\ ~ Hangs(s, Needs.mod) /\ ~ Lacks(s, Needs.mod)
            /\ \/ Overcounts(s) /\ End("crashed")
               \/ ~ Overcounts(s) /\ Map(ModRanges(s), s.jumps, lib, Laid(s))

-----------------------------------------------------------------------------
(* Thunks. *)

Writable(a) == \A b \in Bytes(a) : PageOf(b) \in DOMAIN mapped

(* Where the jump at an address leads to.                                  *)
Leads(js, a) == (js[a] + a + JumpSize) % Space

(* insert_thunk: what it writes breaks any other jump that it touches.      *)
Insert(wr, target) ==
  IF Writable(wr)
    THEN /\ jumps' = [a \in {b \in DOMAIN jumps : Bytes(b) \cap Bytes(wr) = {}} \cup {wr} |->
                        IF a = wr THEN (target - wr - JumpSize) % Space ELSE jumps[a]]
         /\ todo' = todo + 1
         /\ UNCHANGED <<setup, stage, mapped, lib, module>>
    ELSE End("crashed")

(* Mutant of InsertRec: the jump itself is replaced.                       *)
InsertRecHere(wr, target) == Insert(wr, target)

(* insert_thunk_rec: the jump that is there is followed, not replaced.      *)
InsertRec(wr, target) ==
  IF PageOf(wr) \notin DOMAIN mapped THEN End("crashed")
  ELSE IF wr \notin DOMAIN jumps THEN End("aborted")
  ELSE Insert(Leads(jumps, wr), target)

InstallThunk ==
  /\ stage \in {"rom", "lib", "mod"} /\ todo \in 1 .. Len(Thunks)
  /\ LET name == Thunks[todo]
         at == setup[stage].thunks
     IN  IF name \notin DOMAIN at
           THEN todo' = todo + 1 /\ UNCHANGED <<setup, stage, mapped, jumps, lib, module>>
           ELSE IF IsRecursive(name) THEN InsertRec(at[name], Handlers[name])
                                     ELSE Insert(at[name], Handlers[name])

Loaded ==
  /\ stage \in {"rom", "lib", "mod"} /\ todo > Len(Thunks)
  /\ stage' = [rom |-> "lib", lib |-> "mod", mod |-> "devices"][stage]
  /\ todo' = 0 /\ UNCHANGED <<setup, mapped, jumps, lib, module>>

LoaderNext == LoadRom \/ LoadSyslib \/ LoadModule \/ InstallThunk \/ Loaded

LoaderSpec == LoaderInit /\ [][LoaderNext]_loading

-----------------------------------------------------------------------------
(* Properties. *)

LoaderTypeOK ==
  /\ setup \in Setups /\ todo \in 0 .. Len(Thunks) + 1
  /\ stage \in {"rom", "lib", "mod", "devices", "running", "aborted", "crashed", "hung"}
  /\ DOMAIN mapped \subseteq 0 .. (Space \div Page) - 1
  /\ \A a \in DOMAIN jumps : a \in Address /\ jumps[a] \in Address
  /\ lib \in Address /\ module.entry_point \in Address

IsLoaded == stage \in {"devices", "running"}

(* The page below a stack belongs to no range of the module: a thread that *)
(* runs over its stack faults and overwrites nothing.                      *)
GuardsFree ==
  \A i \in DOMAIN module.threads :
    LET t == module.threads[i]
        guard == PageOf(t.stack_top - t.stack_size) - 1
    IN  guard \in DOMAIN mapped => mapped[guard] \in {"rom", "lib", "lib bss"}

(* Whatever sizes a manifest has, also ones that are no whole pages or that *)
(* wrap around, the module comes up with each range in pages of its own    *)
(* and a guard page below every stack, or it does not come up at all.      *)
RangesApart ==
  IsLoaded =>
    LET ranges == ModRanges(setup.mod)
    IN  /\ \A i, j \in DOMAIN ranges : i # j => Pages(ranges[i]) \cap Pages(ranges[j]) = {}
        /\ GuardsFree

(* The thunks as the configuration names them, in the order in which they  *)
(* are put in: [stage, name, at].                                          *)
Named ==
  {[stage |-> x[1], order |-> x[2], name |-> Thunks[x[2]], at |-> setup[Stages[x[1]]].thunks[Thunks[x[2]]]] :
     x \in {y \in (1 .. 3) \X (1 .. Len(Thunks)) : Thunks[y[2]] \in DOMAIN setup[Stages[y[1]]].thunks}}

(* The call of a function at a place comes to the emulator's own, directly  *)
(* or, of a recursive one, over the jump that was there.                   *)
Lands(a, name) ==
  a \in DOMAIN jumps /\
    IF IsRecursive(name)
      THEN Leads(jumps, a) \in DOMAIN jumps /\ Leads(jumps, Leads(jumps, a)) = Handlers[name]
      ELSE Leads(jumps, a) = Handlers[name]

(* Where the jump at the place of a recursive function leads, by the image  *)
(* of its section or of one that was loaded before.                        *)
ImageBase ==
  <<setup.rom.base, Ext(setup.lib.met, 11).ranges[1].base,
    Ext(setup.mod.met, 5).priv_code_base_address>>
ImageOf(i) == setup[Stages[i]].jumps
Beyond(n) ==
  {(ImageOf(i)[n.at - ImageBase[i]] + n.at + JumpSize) % Space :
     i \in {j \in 1 .. n.stage : IsRecursive(n.name) /\ n.at - ImageBase[j] \in DOMAIN ImageOf(j)}}

(* Where thunks are put: no two of them are in each other's way.            *)
Places(n) == {n.at} \cup Beyond(n)
Clash(a, b) == Bytes(a) \cap Bytes(b) # {}
PlacesApart ==
  /\ \A m, n \in Named : m # n => \A a \in Places(m), b \in Places(n) : ~ Clash(a, b)
  /\ \A n \in Named : \A a \in Beyond(n) : ~ Clash(n.at, a)

(* A later section lies over a place of the function.                      *)
Later == <<{"lib", "lib bss", "text", "heap", "bss", "stack"}, {"text", "heap", "bss", "stack"}, {}>>
Covered(n) ==
  \E a \in Places(n) : \E b \in Bytes(a) :
    PageOf(b) \in DOMAIN mapped /\ mapped[PageOf(b)] \in Later[n.stage]

(* A call of a function that a section names comes to the emulator's own   *)
(* function of that name, directly or over the jump that was there, unless *)
(* the places of two functions are one in the other or a section that came  *)
(* later was mapped over them.                                             *)
ThunksLand ==
  (IsLoaded /\ PlacesApart) => \A n \in Named : Covered(n) \/ Lands(n.at, n.name)
=============================================================================
