# A formal model of meloader

meloader runs the firmware modules of the Intel Management Engine (ME) as native 32-bit x86 code and
emulates the hardware around them: it reads a configuration file, builds the devices and buses that it
names, maps the module, and turns every device access of the module into a call of the device's model.
The program is written in C, runs on one thread and never gives way inside an access. Its hard
behaviour is therefore not concurrency of threads but

* **protocols**: firmware reaches the devices by long sequences of register accesses, in any order, and the
  devices keep state between them (a half-filled hash block, a DMA transaction, a key in a buffer, a trace
  packet of another channel, a pushed-back token);
* **loops inside loops**: a register write runs a DMA transaction, whose turns run cycles on a bus, whose
  bridges run cycles on further buses; the hash unit pads a message in a loop that calls itself;
* **boundaries**: blocks, buffers, BARs, windows and size fields;
* **partial failure**: a cycle nobody answers, a short read of the flash image, a section that does not fit,
  a file that is cut off;
* **text and layout**: formats that are read by a machine of fallthroughs, manifests of any sizes that decide what
  is mapped where.

The modules here translate that code into TLA+, TLC checks them on small instances, and TLAPS proves the
most important invariants for every value of the constants.

## 1. Inventory

Paths are relative to `src/`.

| component | state it keeps | operations | modelled by |
|---|---|---|---|
| **Hash unit (HCU)** `periph/ocs/hash` | mode, key, 64-byte block, digest words, byte count, read pointer, done bit | register reads and writes, DMA writes, flush with padding, HMAC, key load | `Hcu` (all) |
| **GPDMA engine** `periph/ocs/dma` | two addresses, two sizes, control, one static bounce buffer | five register writes, each ending in `gpdma_run_transaction` | `Gpdma` (all) |
| **Secure key storage (SKS)** `periph/ocs/sks` | 22 slots with attributes, data buffer, command, status | register accesses, each write ending in `sks_do_operation` | `Sks` (all) |
| **Crypto subsystem (OCS)** `periph/ocs/dev.c` | the units, a PCI function | dispatch of a cycle to a unit, DMA callbacks | `Fabric`, `Gpdma` (partly: not the choice of the unit by its page) |
| **AES** `periph/ocs/aes` (there is no RSA code) | none | answers a read with a constant | `PciRegs` (all) |
| **PCI** `periph/pci` | per function: BARs, command register | memory, configuration and I/O cycles over a list of functions and simulated clocks | `Fabric` (all) |
| **MISA system agent** `periph/misa` | bounds and target registers, CF8 | routing of a core access, DMA target, SAI check | `Fabric` (partly) |
| **Gasket** `periph/gasket` | primary and sideband windows | bridging, address translation | `Fabric` (partly) |
| **Sideband** `periph/sideband` | table of endpoints | registration, look-up, access | `Fabric`, `Sideband` (all) |
| **Fuse controller, DFx aggregator, ExI** `periph/{fuse,dfxagg,exi}` | register files with commands, acknowledge and lock bits, the fuse array | sideband accesses | `Sideband` (all) |
| **Configuration parser** `config/cfgparser.c` (1–460) | position, pushed-back token | tokenise, accept a file, a section, an entry | `CfgParser` (all) |
| **Configuration loader, device registry** `config`, `user/loader` | list of sections, registered devices | include files, splice, look up, spawn | `CfgLoader` (all) |
| **Fast SPI** `periph/spi` | sequencer flags, address, data FIFO, region rights, image file | register accesses; a cycle runs inside one | `SpiFlash` (partly) |
| **Trace Hub, trace decoder** `periph/tracehub`, `util/trace.c` | one message buffer for all channels | a message; a FLAG decodes and prints | `TraceHub` (all) |
| **ROM handoff ("snowball"), kernel calls** `user/kernel`, `user/syslib` | buffer with write and read pointer | put blocks at boot; read; dispatch a call | `Snowball` (all) |
| **HECI, PMC, Trace Hub registers** `periph/{gasket/heci,pmc,tracehub}` | registers; HECI logs each change of a status field | accesses of every size | `PciRegs` (all), `Fabric` as PCI functions |
| **Module loader** `user/loader` | mapped pages, thunks, layout of threads and segments | find manifest extensions, map ranges, patch functions | `Loader` (all) |
| **Kernel emulation, CPU stub** `user/kernel`, `user/romlib`, `user/syslib` | segments, thread storage, table of grants | start the thread, segment accesses, kernel calls | `Kernel` (all) |
| **Logging, printf, number formatting** `util` | position in a format, buffer of a message | format, filter, print, end the program | `Printf` (all) |

How they interact:

    firmware --access--> MISA bunit --cycle--> primary bus --> OCS --> HCU, GPDMA, SKS, AES
                            |                     |             \--DMA cycle--> primary bus --> MISA --> memory
                            |                     \--> gasket bridge --> HECI, ATT --> PCH bus (PMC, Trace Hub)
                            |                                             \--> sideband --> fuses, DFx, ExI
    firmware --thunk--> segment access --cycle--> MISA bunit
    firmware --thunk--> kernelcall --> snowball_read, list of grants, DMA lock
    main --> loader (ROM, system library, module) --> devices --> thread of the module
    every component --message--> log --> printf --> numfmt
    configuration file --> CfgParser --> CfgLoader --> spawn of every device, snowball sections

All of these are calls on one thread. A call that comes back from a callee is the only way that state read
earlier can be stale when it is used.

What makes the components correct, and where it could go wrong, is listed line by line under `hazards` in
`PROJECT.json`, each with the property that would catch it or the reason why none does.

## 2. Modules

| module | contents |
|---|---|
| `HashTerms` | block arithmetic, padding, and the compression function as a free constructor; shared by specification and unit |
| `HashSpec` | *abstract*: what the hash unit promises to firmware that follows the register protocol |
| `Hcu` | the hash unit: one action per register access and one per turn of a loop; `Abstract == INSTANCE HashSpec` |
| `HcuInv` | the inductive invariant of `Hcu` |
| `HcuProofs` | its theorems, and that it implements `HashSpec` |
| `Gpdma`, `GpdmaProofs` | the DMA engine; its theorems |
| `Sks`, `SksProofs` | the key store; its theorems |
| `Fabric`, `FabricProofs` | *composition*: core, MISA, primary bus, OCS, gasket bridge, HECI, ATT, PCH bus, sideband; its theorems |
| `CfgParser` | from text to tokens to sections |
| `CfgLoader` | from sections to a spawned machine |
| `SpiFlash` | sequencer, FIFO, image file |
| `TraceHub`, `TraceHubProofs` | message buffer, packet check, decoding; its theorems |
| `Sideband` | the sideband network and its three devices |
| `PciRegs` | the registers behind the BARs of HECI, PMC, Trace Hub and AES |
| `DeviceProofs` | the theorems of `SpiFlash`, `Sideband` and `PciRegs`, which share no state |
| `Snowball` | ROM handoff and kernel calls |
| `Loader` | the loading of ROM, system library and module: manifest, ranges, pages, thunks |
| `Kernel` | EXTENDS `Loader`: *composition* of what is loaded with the thread, the segments and the kernel calls |
| `KernelProofs` | the theorems of `Loader`, `Kernel` and `Snowball` |
| `Printf` | formats, numbers, messages |
| `TextProofs` | the theorems of `CfgParser` and `Printf`, which share no state |
| `MC*` | instances for TLC: values for constants that a `.cfg` cannot write |

`MCDevices`, `MCText` and `MCKernel` are benches: the components in each share no state, so that a behaviour picks
one of them (`bench`) and leaves the others as they start; the states of the components add up instead of multiplying.

The proof modules EXTEND the module they are about. `map` in `PROJECT.json` names, for every definition that
models code, the lines it translates.

### How state and actions correspond to the code

* **Registers keep their names** (`hash_count`, `src_addr`, `sks_databuf`, `snowball_rdptr`), reduced to the bits
  that the code looks at. A write that can trigger work is one action up to the loop that it enters; each turn
  of a loop is an action of its own (`Copy`, `FillZero`, `Fetch`, `Store`, one callback of a bus), guarded by `pc` or by
  the stack of loops under way. A new access begins only when none is under way: that is the one thread.
* **Handlers with no loop are one action**, with everything that they call: `Sks` runs `sks_do_operation` inside the
  write, `SpiFlash` runs the cycle inside `Go`, `TraceHub` appends and decodes inside `Write`.
* **History variables** (`phase`, `msg`, `skey`, `stray`, `fw*` in `Hcu`; `ran`, `received` in `Gpdma`; `asked`, `hits`
  in `Fabric`; `last`, `cleared`, `shown` in `SpiFlash`; `packet`, `alone`, `ended`, `decoded` in `TraceHub`; `got`, `refused` in
  `Snowball`; `watched`, `seen`, `sensed` in `Sideband`; `pciWatched`, `pciSeen` in `PciRegs`; `meant`, `shown` in `Printf`; `access`, `tls` in
  `Kernel`) record what was asked and what came back. No guard that stands for code reads them; where a guard of
  the environment does (firmware's saved hash context, the packet that a channel is in the middle of), the
  variable is firmware's own memory. `told` of `PciRegs` is what a reader of the log knows.
* **Data are abstract.** The compression function of SHA-256 is a constructor: `Compress(st, block)` is equal to another
  exactly when its arguments are, so that a digest says which blocks it was made of and in which order. Keys are
  fresh values named by their origin. A byte of flash is the set of its one bits. A token is a record. Lengths
  that are multiples of a unit are counted in that unit: a cell stands for 4 or 16 bytes where the code
  treats them together.

### Each module in short

**`Hcu`.** `WriteMode` runs `hash_round_init`; `Start` remembers the key and compresses the inner key block of an HMAC; `Data`
and `Copy` are `hash_dma_write` and its loop; `Flush`, `FillZero`, `FillLength`, `OuterHash` and `Finish` are `hash_round_finish`, its fill loop
and the nested call for the outer hash. `ReadHash`, `WriteHash`, `WriteCount` let firmware take a digest, or the intermediate
value of a message at a block boundary, and put it back. `LoadKey` is what the key store calls. A move of firmware
that leaves the protocol sets `phase` to `"none"` (`stray` counts them), from which nothing is promised until a mode is chosen again.

**`Gpdma`.** The engine as it is wired by `ocs_spawn` and `hash_init`: a read of the bus fills the bounce buffer when a device
answers for all of it, a "write" of the bus reads it too (`ocs/dev.c:237`), address 0 is the unit.

**`Sks`.** Slots of one or two key halves, attributes, the four sources and targets of a command, and the refusals with
the order in which the code tests them. Slot 22, which the check lets through, is memory behind the store: the
model stops there (`fault`), and the run is without deadlock check for that reason.

**`Fabric`.** `stack` holds the loops under way, innermost first; a frame is one of `pci_bus_mem_*`'s loops over clocks and functions.
A callback returns `Declined`, `Aborted` or a SAI in `ret`; a bridge pushes a loop. `hits` records what was touched. The end of a window (`WinEnd`)
is a sum of 32 bits that wraps (`prim_bus.c:16-18`, `sb_master.c:16-18`), so that a window whose end wraps takes only what lies between its base and that end, which is nothing; the
translated address wraps at 64 bits. `Covers` and `Translated`, by which the properties say what a window claims and where it leads, are written without `FindWin`.

**`CfgParser`.** Tokens with the pushback of `return_rawchar`, the nest of `accept_file`, `accept_section`, `accept_entry`, and every error exit.
**`CfgLoader`.** `stack` holds the calls of `load_config`; `next` is `section->next`; `Splice` re-links. Then `LookUp`, `Skip`, `Spawn`, `Start` are `main` and
`initialize_devices`. The `next` of the last section and of the last entry of a file is never set after `malloc` (`cfgparser.c:392`, `:351`): it is whatever the
memory held (`Unset`), null or not. `zeroed`, chosen at the start, says whether memory reads as zero, as fresh pages of the system do; without it a walk that comes to the end of
a list may leave it (`Stray`), after which nothing is followed (`pc = "wild"`). An unknown device type, and one that is missing, end the start (`devreg.c:56-65`).

**`Sideband`.** `Spawn` registers a device in front of those before it, `Read` and `Write` go to the first one that has the endpoint.
`Process` is `fusectl_process`, which every write of the fuse controller runs, also one of another cell; `Stores` are the locks of the DFx aggregator.
`watched` is one cell of one endpoint, chosen at the start, and `seen` the last answered write of it.

**`PciRegs`.** `Write` logs what differs from the stored word and stores the new one; cells are found by BAR, offset and size.

**`Loader`.** `stage` goes through `"rom"`, `"lib"`, `"mod"`; `Map` overlays the pages of a range on whatever was there, `InstallThunk` writes a jump
(`Insert`), or one to follow a jump (`InsertRec`). Each missing file or extension ends in `"aborted"`, a store where nothing is mapped in `"crashed"`,
an extension of no length in `"hung"`. **`Kernel`.** `StartThread` lays out the top of the stack; a call can be made only where a thunk leads to the emulator.

**`Printf`.** A format is spelled from its directives and then read a character a step, by one action per case of `mel_vpprintf`
with its fallthroughs (`WidthStates`, `PrecStates`, `LengthStates`). The reference is `After`: what the first directives of a format say, the arguments that they
leave and whether the program gets past them, computed from the directives and not from the characters; `Meaning` is that of all of them. The number that a
directive means (`ValueOf`) is so many bits in two's complement, computed apart from what the cases of `mel_vpprintf` read (`Argument`). The signs are those of the types that the source names: a
`size_t` has none, also with `%zd` (`printf.c:165-168`), where the C standard would take the signed type of that size, and a `ptrdiff_t` has one, also with `%tu`. The least number of
64 bits (`%lld`, `%jd`) has no negative: `numfmt_signed` then takes digits from in front of its table, and the model stops (`Overrun`, `phase = "wild"`).

**`SpiFlash`.** `Go` runs `spi_do_hwseq`: seek, read or write of the image, flags. Reads and writes come short at the end of the file or when
the system refuses. **`TraceHub`.** One buffer with the channel it belongs to. **`Snowball`.** `AddSection` per section at boot, then `KernelCall`. `Turn` computes with
the `int` that the size becomes (`snowball.c:48`): from 2^31 on it is negative, `memcpy` is asked for nearly all of memory and the model ends in a crash.

## 3. Runs

| run | question | answer |
|---|---|---|
| `hcu` | Is what firmware reads from HASH the FIPS 180 digest (or HMAC) of what it sent, however cut, and also when put aside and resumed? Do the copy and fill loops end from every position? Does the unit implement `HashSpec`? | yes |
| `hcu_stray` | Does the inductive invariant hold, and does the done bit stay honest, when firmware leaves the protocol and keys are loaded at any time? | yes |
| `gpdma` | Does the unit get the source in order, each cell once, and the larger of the two sizes in all? Does every transaction end? | yes |
| `sks` | Do slots keep what they were given, is a key given out of the buffer once, does the hash unit get the key of the slot? | yes |
| `fabric` | Does an access of the core touch at most one target, at the right cell? Does it fail only where no device claims the cell, and then touch nothing? Do the nested loops end? | yes, but for the first cell of a BAR that follows another (below) |
| `cfg_loader` | Is the list the expansion of the root file, does the machine boot exactly with bootable configurations, does loading end? | yes, for files of which no included one ends with an include section; if memory does not read as zero, up to where a walk leaves a list at its end |
| `cfg_loader_doc` | and for the others, as the comment at `cfgparser.c:470` says? | **no** |
| `devices` | Do the data registers of the flash controller show the flash, and does the image lose bits only where a write was ordered? Are sideband writes read back, and commands acknowledged, whatever endpoints clash; is a sense operation reported once for every start; does consent hold once locked? Does the log tell the status registers, and do cells hold through writes of other sizes? | yes |
| `text` | Is a format understood as it is meant, does each directive take its own arguments, is a message printed whole or cut at its buffer? Is what the configuration parser accepts of the grammar and read as meant? Do both stop with every text? | yes; with the least number of 64 bits the formatter leaves its table |
| `trace_hub` | Is what is decoded one packet of one channel, whole? Is a packet that nobody disturbs decoded, whatever was dropped or refused before? | yes, until a packet is too long for the buffer |
| `trace_hub_over` | and after that, as the message at `trace.c:139` says ("dropping packet!")? | **no** |
| `kernel` | Does whatever comes up lie in pages of its own, with guard pages? Do calls of patched functions come to the emulator? Does a thread find its own storage, and do local selectors reach their segments only? Does firmware get the snowball stream and find every block by the sizes in the headers? | yes, unless the offset or the count of a segment access is negative; for blocks below 2^16 |

Each property of the passing runs has a mutant of a mapped definition in `PROJECT.json` with which TLC finds it violated: a
plausible mistake in the code (a dropped wrap, a missing rewind, an off-by-one in a bound, a swapped link).

The two runs that end in a violation are disagreements of the code with its own comments and messages:

* `cfg_loader_doc`: `load_config` links the rest of the including file behind `last_section` of the included file
  (`cfgparser.c:513`), which is the last section *of its own text*. When that is an include section, what was inserted
  behind it comes off the list. No shipped file ends so.
* `trace_hub_over`: `trace_msg` tests `tbuf_pos > TRACEBUF_SIZE` before it looks at the channel, and returns
  without setting `tbuf_pos` back (`trace.c:138-141`): after one packet that is too long, nothing of any channel is decoded any more.
  By then it has put one message behind the array (`TypeOK` allows `Size + 1`).

Writing the models turned up further places where the code does not do what a name or a comment says. The modules
have the code as it is; no run is spent on a fact that one line shows:

| place | what is said | what the code does |
|---|---|---|
| `gpdma.c:57` | `hash.c:43`: a size of 0 selects the unit | an address of 0 does |
| `ocs/dev.c:237` | `gpdma.h:27`: `bus_write` of `const void *data` | reads the bus into the buffer |
| `hash.c:247` | `sks.c:96`: output not ready is refused | `hash_get_result` always succeeds |
| `sks.c:79` | 22 slots | slot 22 passes |
| `simplefunc.c:105` | `simplefunc.c:109`: the access hit a BAR | the cell after a BAR ends the search: the first cell of a BAR that follows another BAR of the function is answered by nobody |
| `bus_target.c:76` | `master.c:185`: SAI when successful | a DMA access to memory succeeds and returns -1 |
| `bus_target.c:54` | checked as a byte offset | `&registers + off` counts in register files |
| `cfgparser.c:458` | `cfgparser.c:426`: `{ <section> ; ... }` | a comma is wanted |
| `meloader.c:125` | "Could not find CPU" | looks at another pointer |
| `spi.c:214` | `spi.c:12`: Erase4K | nothing, and done |
| `spi.c:212` | `spt_lp.cfg:39-41`: three bytes of ID | one byte and zeros |
| `spi/dev.c:48` | `spt_lp.cfg:38`: `csme_writeable` | `csme_writable` is read |
| `trace.c:35` | `print_multiline` | the first line |
| `snowball.c:42` | `snowball.c:16`: size of the block | modulo 2^16 |
| `heci/status.c:229`, `:232` | "%i" | the argument is a string, and a null pointer for the last value |
| `printf.c:279-289` | a precision | only as `*`: with digits the program aborts |
| `numfmt.c` | flag `0` | zeros come before the sign, and a number is cut to 63 characters |
| `manifest.h:111-114`, `map.c` | sizes are free | a heap or a bss of no size, and a stack that is no whole pages, end the start |
| `cfgparser.c:392`, `:351` | `:501`, `:505` walk to a null `next` | the last one is never set |
| `printf.c:165` | `%zd` | shows a `size_t`: what is negative comes out as a large number |
| `hash.c:241` | the key is loaded | the tail of a longer one before it stays |
| `fusectl.c:57` | two commands | the second overwrites the control word, and what came with it |
| `aes.c:18` | a read of `count` bytes | always 4 bytes are put |
| `memory.c:24` | out of the segment | a negative offset, or a count that wraps, passes |
| `kernelcall.c:57` | `kernelcall.c:54`: not implemented | with no parameters, a null function is called |

## 4. Bounds, and why they are enough

Every bound is a constant of a module or a set in an `MC` module.

* **Hash unit**: blocks of 4 cells (64 bytes in the code), a length field of 2 (8), digests of 2 words (8); two byte
  values; transfers of 1 and of 5 cells; messages that have up to `MaxMsg` 5 cells when a transfer is added to them (0 in `hcu_stray`, that is one transfer); `MaxStray` 0 and 1 moves outside of the protocol. A
  message can end at every position of a block, so that the length field fits, does not fit and fits exactly;
  a transfer can start at every position and span two blocks. The code treats positions only modulo the block.
  With a digest shorter than a block the outer hash of an HMAC takes every path too. The theorems cover all sizes.
* **GPDMA**: a buffer of 2 cells (64 bytes) and sizes 0, 1, 2, 5: no turn, part of a turn, exactly one, two and a half; memory
  with an end that a transfer can cross. Sizes are natural numbers, in the theorems too, where the code has an `int`
  (`gpdma.c:42`): what is checked and proved is about sizes below 2^31.
* **Key store**: two short and two long slots (11 and 11), slot numbers up to two past the last, `MaxFresh` 2 fresh halves:
  enough for two keys to be in the store, the buffer and the unit at once. The slots are independent of
  each other except for the arithmetic of `key_data`, whose boundary between short and long slots is in.
* **Fabric**: one-cell accesses; a map of 23 cells, of a space of `AddrMod` 24 (2^32), and behind the windows one of `ExtMod` 48 (2^64), in which windows and BARs touch, overlap and leave holes, with an address
  that is misaligned and one where a BAR has no register; DMA goes to 9 of them, at least one behind each bridge and window; two
  functions per bus behind the bridges; latencies 3, 3 and 2 for 16, 15 and 14: what matters is their order and that the
  inner one is not zero. MISA takes from clock 1 on what nobody claimed (10 in the code). Two ATT windows and
  one sideband window are programmable, on or off, the first with a size of 1, 3 or 10: with the last its end wraps around the
  space and it takes nothing. With the others its translation wraps from 47 to 0, where a device of the PCH bus is. The theorems cover every topology, map and latency, and windows of every base and size.
* **Parser**: files of one and two sections with one and two entries, numbers of every form (sign, three radixes, one to three
  digits, and what is no number), and one token lost, doubled or replaced at every place, or the file cut off
  there. Integers wrap at `Modulus` 256 (2^64). Every state of the parser is reached with every token. The theorem covers all files, names and moduli. Whitespace,
  which the code skips wherever it may stand (it knows no comments), and character literals, another spelling of a number, are left out.
* **Configuration loader**: the shipped files shortened to their include structure, with include sections at every place of
  their files, of one to three files in both orders, twice the same, or of one that is not there; devices of two types, of one that is not registered, and of none; memory that reads as zero and that does not. `MaxDepth` 2. There is no include
  cycle: the code would load until memory ends (the hazard at `cfgparser.c:511` in `PROJECT.json`).
* **SPI**: bytes of one bit (a write is a bitwise AND, each bit on its own), a file of 3 cells, a buffer of 2 (64), addresses up to one past the end.
* **Sideband**: a device of each kind, the DFx aggregator with an endpoint of its own (2, that of the ExI, which clashes) or one that is beyond
  a byte (257, the fuse controller's); three addressed endpoints, one of them of nobody; words with both commands, start and stop,
  the clear bit, lock and opt-in; a write of two bytes and a write with the operation of a read. The theorems cover all of it.
* **PCI registers**: words that differ in one bit of a field, in several fields and outside of them, at each of the two status registers;
  cells at the ends of the tables, and writes of 2 bytes, of another BAR and of cells that nobody has. The theorems cover all words and messages.
* **Module loader, kernel**: an address space of 24 pages of 32 bytes (2^20 of 4096). Modules in which each size is a whole page, part of a page,
  nothing or so large that the sum wraps; every extension missing or of no length in turn; thunks beside each other, on each other and
  outside of what is mapped. Two threads, two segments of which one ends where addresses wrap, negative offsets and counts. The system
  maps nothing below `Low`, two pages (16 at `mmap_min_addr`); that it is more than a page is what keeps a guard page that wraps from being overlaid.
  The theorems cover all sizes, manifests and places.
* **Printf**: every conversion with flags, widths 0, 4, 12 and from the arguments, precisions and lengths, followed by text or by another
  conversion that would take a misplaced argument. `CharMod` 8, `ShortMod` 16, `IntMod` 64 (2^8, 2^16, 2^32); arguments with and without a sign, that are cut by the shorter lengths, and two places that hold the
  least number of 64 bits; buffers of numbers of 13 and 9 cells
  (65 and 33), of messages of 4 and 12 (40 to 1024), so that some are cut and some not. The theorems cover every format of directives, every
argument, level and size.
* **Trace Hub**: two channels of one master; a buffer of 5 messages (64); packets that just fill it, that leave room for a
  message, and that are two messages too long.
* **Snowball**: all lists of up to three sections of nine shapes, `Header` 2 (18 bytes), `BufSize` 20, `Width` 16 (2^16); reads of 0, 1, 2, 5 and 63 bytes, of
  which the last is negative as an int (`SizeMod` 64 for 2^32). The theorems cover all sizes of reads, and of blocks below 2^16 for `BlocksAreFound`.

Deadlock is checked except where the program really may stop: `text` and `cfg_loader` (what they run ends), `sks` and
`kernel` (the model ends where the code follows a wild pointer, and boot may abort).

## 5. Fairness

`FairSpec` asks weak fairness of the steps *inside* an access and of nothing else: `WF_vars(Turn)` in `Hcu` and `Gpdma`,
`WF_vars(Callback)` in `Fabric`. The loops of the code run on the thread that made the access, without
blocking and without giving way, so that an enabled turn is taken. Firmware's own accesses are not fair: nothing is
promised about whether the module ever flushes a hash. In the runs `text` and `cfg_loader` the whole step is weakly fair: the parser, the loader and a
call of `printf` are straight-line programs that run until they return.

## 6. What is proved

TLAPS checks the following for every value of the constants that satisfies the named assumptions (which
TLC evaluates on the instances): `SizesAssumption` of `HashTerms` (the length field and a digest are shorter than a block),
`ChunksAssumption` and `BoundsAssumption` of `Hcu`, `BufLenAssumption`, `AddrAssumption` and `SizesAssumption` of `Gpdma`, `SnowballAssumption`,
`HalfAssumption` and `WritesAssumption` of `Sks`, `SpiAssumption`, `TraceAssumption` and `PacketsAssumption` of `TraceHub` (a packet has as many pieces as its length takes),
`LatAssumption`, `TopologyAssumption`, `RangeAssumption` and `ValueAssumption` of `Fabric` (no inner loop has more clocks than the core's; the bridges are on their
buses and each function on one bus; the two address spaces have a cell, and registers hold numbers of their width), `PrintfAssumption` of `Printf` (formats are written from directives whose width is an `int`; arguments are words of 32 bits; behind the arguments of a call, of which a directive takes
four at most, there is more of the stack).
The theorems about `Sideband`, `PciRegs`, `Loader`, `Kernel` and `CfgParser` have `SidebandAssumption`, `PciRegsAssumption`, `LoaderAssumption`, `KernelAssumption`
and `CfgAssumption` as hypotheses, because a bench instantiates these modules with others; `BenchAssumption` of `MCDevices`, `MCKernel` and `MCText`
has TLC evaluate them. They give the constants their types, and say of the loader that what `mmap` gives out begins more than a page above 0, of its
`Setups` that they have sections as the configuration can have them, and of the files that the parser is given that they are meant in the grammar: a section
at least and an entry in each, numbers in the digits of their radix, and no decimal one that starts with a zero (which would be an octal one). Which texts come of them
is not restricted: every spelling with quotes or without, and every edit.

| theorem | statement | argument |
|---|---|---|
| `HcuProofs!TypeCorrect` | `Spec => []TypeOK` | `TypeOK` is inductive; one step per action |
| `HcuProofs!Inductive` | `Spec => []IInv` | see below |
| `HcuProofs!NothingIsLost`, `DigestIsCorrect`, `DigestIsReadable`, `DoneOnlyWhenDone` | the invariants of runs `hcu`, `hcu_stray`, and that the digest is read in order | each follows from `IInv` |
| `HcuProofs!UnitRefinesHashSpec` | `Spec => ImplementsHashSpec` | see below |
| `GpdmaProofs!TypeCorrect`, `SourceArrives`, `SizeArrives`, `OnlyOnOrder` | the invariants of run `gpdma`; a write of an address or a size runs nothing | loop invariant: what was received so far, and what is in the bounce buffer between the halves of a turn |
| `FabricProofs!FabricInv` | `Spec => []IInv` | see below |
| `FabricProofs!TouchesOneTarget`, `FailureIsClean`, `TouchesRightCell` | `OneTarget`, `FailedDoesNothing` and `RightCell` of run `fabric` | the first two follow from `IInv`; the last is a step property under it |
| `KernelProofs!TypeCorrect`, `StreamIsRead`, `BlocksAreFound` | the snowball invariants of run `kernel` | `TypeOK /\ ReadIsStream /\ WalkIsBlocks` is inductive |
| `SksProofs!TypeCorrect`, `SlotsHold`, `DataIsUsedOnce`, `LoadedIsKey`, `RefusedIsNoStep` | the invariants of run `sks`; a refused command changes nothing | see below |
| `DeviceProofs!TypeCorrect`, `RegistersShowFlash`, `FlagsAreLast`, `CyclesOnlyClear` | the flash properties of run `devices`; the flags are those of the last cycle | `TypeOK /\ FifoShowsFlash /\ StatusIsLast` is inductive; one lemma per cycle for the data, one for the flags |
| `TraceHubProofs!TypeCorrect`, `OnlySentIsDecoded`, `UndisturbedGetsThrough` | the invariants of run `trace_hub` | see below |
| `DeviceProofs!WritesAreReadBack`, `SensesOnce`, `OwnerConsents` | the sideband properties of run `devices` | see below |
| `DeviceProofs!LogIsComplete`, `CellsKeepWords` | `LogTellsStatus` and `CellsHold` of run `devices` | see below |
| `KernelProofs!SegmentsConfine` | `InSegment` of run `kernel` | see below |
| `KernelProofs!NothingOverlaps`, `CallsArrive`, `StorageIsOwn` | `RangesApart`, `ThunksLand` and `TlsIsOwn` of run `kernel` | see below |
| `TextProofs!ParsesOnlyTheGrammar` | `OnlyTheGrammar` of run `text` | see below |
| `TextProofs!ReadsTheSource` | `SourceIsRead` of run `text` | see below |
| `TextProofs!FormatsHold`, `MessagesShown` | `FormatsAsMeant` and `MessageIsShown` of run `text` | see below |

**The invariant of the hash unit.** That a digest is right when it is there says nothing about the steps before, so
that it is not inductive. `IInv` (module `HcuInv`) says *where every cell of the open message is*: `OpenInv`: its whole blocks are in
`hash_state`, the rest of what was copied is at the start of `hash_buffer`, and what is left of the transfer in `todo`;
`FlushInv`: at every position of the padding loops, what is compressed and what is in the buffer is a prefix of the padded message, of the inner
or of the outer hash; `SavedInv`: what firmware has put aside is the state of a message at a block boundary;
`ModeInv` and `DoneInv` tie the rest of the registers to the phase. It is stated cell by cell, without recursion, so that the
prover can follow a single cell through a step. The step lemmas are one per action; what they need of
`Put`, `Take`, `Wrapped` and the block arithmetic are lemmas of their own.

TLC checked `IInv` as an invariant of run `hcu_stray` first.

**The refinement.** `Abstract!vars` are the history of the unit, its mode and, for the digest, `hash_state`. Under `IInv` an access is the move
of the protocol that its guard admits, or `Abandon`; the turns of the loops are stutters, because `hash_state` is the abstract digest only when the flush has ended; and
`Finish` is the abstract one because `DoneInv` holds after it. Each action is a case of `StepRefines`.

**The interconnect.** A loop calls every function of its bus once in each clock, so that "one target" depends on what happens when a function that declined is
called again in a later clock, with loops inside loops. `Declines` says, from the registers alone, which functions decline an address, down through
the bridges; `Settled`: whoever a loop under way has called would decline its address again. `Chain` says for whom each loop inside a callback runs, at
which address. `Unheard` and `DmaHits`: while the core's loops go on nothing has been touched for it, and the DMA engine has touched nothing but memory,
which happens once per clock, always at the same cell, after everybody declined. `Returned` says what the return value of an inner loop means to the callback around it.
A return value of 0 or 1 goes out through all the loops and calls nobody any more, so that all but the types is asked only before it (`Done`).
For `FailedDoesNothing`: when the outermost loop ends without an answer, `Settled` says that every function declined in its last clock, and a cell that
an enabled BAR holds is one that its function does not decline.

**The registers of the PCH.** A write changes one cell (the cells of a function are apart), and the two status registers of HECI are compared with the stored
word before that is changed, so that the log has the word after it. `CellsHold` is about HECI and the Trace Hub, whose writes store what is
written.

**The loader.** `StackTop` adds stacks and guard pages by a recursive function of the number of threads. That it is what its definition says for every number of
threads follows from the well-foundedness of < on the numbers (a least number at which it is not would have a predecessor at which it is), and
likewise that the tops rise, each with a page below its stack. The module comes up only if every range is accepted by `mmap`, so that none is empty, misaligned or
beyond the space; sums that wrap end below `Low` and are refused, so that the ranges follow each other (`InOrder`), which gives `RangesApart`.
`LoadInv` carries the layout through the stages.

**The thunks.** `JumpInv`: each jump in memory is there from an image or at the place of a thunk that was put in, and each thunk put in leads to the emulator unless
a section that came later was mapped over it. Because the places of two functions do not touch each other (`PlacesApart`, without which the code makes no such promise),
putting one in leaves the others, and a jump that is followed (`insert_thunk_rec`) is still the one of the image.

**The thread storage.** `TlsInv`: while firmware runs, the word at the end of the first thread's stack holds its own address. The arguments of
`main` lie below it, by the arithmetic of `start_thread`.

**The parser.** `OnlyTheGrammar` says of a file that was accepted that its tokens are those which the grammar gives for what was built. The invariant `GrammarInv` says
this of the file *built so far*: rendered by the grammar up to the point at which the pending call stands (`TokensOf`, one case per call), it gives the tokens behind
the parser, one by one. A file is rendered by flattening nested sequences, a recursive function; the lemmas before the theorem unfold it, so that
each step of the parser needs only what one more entry, or one more section, adds. That the text is a written file with one edit gives the
types of its tokens.

`SourceIsRead` is the other direction: a file that nobody disturbed is accepted to its last token, with everything that was meant. Its invariant `SourceInv` looks ahead
where `GrammarInv` looks back: what is left of the text is what the pending call and the rest of the meant file render to (`LeftFor`, one case per call),
and the file built so far is the start of the meant one (`SoFar`). So no call meets a token it does not expect, and no error exit is reached. The rendering has to be unfolded from
the front for this, where `FlattenSeq` is defined from the back (`FlatFirst`, `FromSection`, `FromEntry`). Each of the calls is one lemma (`FileNameReads` and so on).
The number of an entry is a lemma of its own: `SpelledIsAccepted` says that `accept_int` takes the spelling of a number to its last character, whatever sign and
radix it has, and gives its meaning, which is the sum of its digits by their weights; the parser accumulates digit by digit and wraps each
time (`AccumulatedIsMeant`). Before the k-th digit the two are related by a factor of the weight that is still to come, which
the well-foundedness of < extends to every length of a number.

TLC checked `SourceInv` on run `text` first.

**The formatter.** `FormatsAsMeant` and `MessageIsShown` speak of the end of a format. `PrintfInv` says the same of every character before it. Between two directives
the format in front is spelled from the ones left, and the buffer and the arguments are those of `After` for the ones before (`Between`). Inside a directive (`Within`)
there is one case per place at which the machine can be: `FlagsLeft`, `WidthLeft`, `PrecLeft`, `LenLeft`, `LenHalf`, `ConvLeft` say which
part of it is in `nflags`, `width` and `size` and which is in front, and `PrecRead`, `PrecLost` that a precision of digits leads nowhere but to the abort.
A width is read digit by digit: the number so far has as its numeral the digits that were read (`Numeral(width, 10) \o q`), so that it is complete when there are none
left; that a numeral grows so, for every number, follows from its definition by the well-foundedness of <. Each
character is one lemma, by the action that reads it. `Buffered` and `Ended` say what a message leaves in a buffer of any length, and `MessageIsShown` follows from them.

TLC checked this invariant on run `text` first.

**The sideband devices.** `Settled` is the invariant behind all three: when a write has been answered, the fuse controller has no command, no
start or stop and no clear bit left, so that `fusectl_process`, which the next write of any cell runs again, does nothing over. For what is read back,
a cell is named by one place (`CellsApart`, `NamedOne`), and the device that answers an endpoint does not change once firmware runs.

**The segments.** An access is recorded only while firmware runs, when `module.segments` does not change any more. For an offset and a count
that are not negative the sum does not wrap, so that the check means what it says; where it wraps `InSegment` promises nothing.

**The key store.** Two lemmas of arithmetic carry the theorem of the slots: a key lies in the store (`KeyInStore`), and the keys of two slots
have no half in common (`KeysApart`). For `KeyDataUsedOnce` the invariant `DataOnce` adds what is in the data buffer: its
halves are in their own places, older than the next that enters, and in no slot. All register writes go through the lemma
`OperateInv`, as they go through `sks_do_operation`.

**The Trace Hub.** `DecodedIsSent` is about the moment of a FLAG only. The invariant says what the buffer holds before: the last messages
that its channel has written, none of a packet that has ended (`BufferInv`); a channel that was not disturbed has all
that it wrote in it (`AloneInv`). A buffer that begins with a header and ends with a FLAG is then the whole packet, because only the first
message of a packet is a header and only its last a FLAG (`FirstAndLast`). Both parts hold until the buffer has overflowed; after that nothing is decoded at all, which is the finding of run `trace_hub_over`.

## 7. What is only model-checked

* Liveness (`AccessReturns`, `TransactionEnds`, `TextEnds`, `BootEnds`): ENABLED and fairness are out of the prover's reach.
* What recursive definitions compute, where no proof unfolds them yet. Induction on an operator is out of the prover's reach, but a recursive *function* on the numbers
  can be unfolded by the well-foundedness of <, one step at a time, which is what the proofs of `Hash` (one block), of the loader, of the parser and of the formatter do. Still with TLC are
  `ListIsExpansion`, `StillLinked` and
  `BootsIfBootable` (the list of sections and the expansion of included files).

## 8. What is not modelled, and why

* **RSA**: there is no code.
* **Dispatch inside the OCS BAR** (`ocs/dev.c:133-230`): a table from page to unit, without state.
* **Registers of MISA, and of the gasket beyond one window of each kind**, that are stored and logged only: no state that another step reads.
* **Files that are shorter than their mapping** (`user/loader/map.c`): a page of a file beyond its end faults in the system.
* **Kernel calls with a fixed answer** (`sys_dma_unlock`, `sys_select_receive`, `tstamp_read`), negative selectors, and reading memory that a wild pointer finds.
* **SPI region rights and limits, opcode menu, parameter table**: stored and read back; no cycle looks at them.
* **What the trace decoder prints**: wording.
* **A DMA transfer whose bus side is the BAR of the crypto subsystem itself**: both directions of the callback read
  (`ocs/dev.c:232-238`), so that such a turn reads registers and starts nothing; that it moves the read pointer of HASH, and
  that the engines share one bounce buffer, is left out of the composition, as the engines are modelled one at a time.
* **DMA sizes from 2^31 on**, which `int count` (`gpdma.c:42`) makes negative.
* **Character literals and whitespace** of configuration files; there are no comments in their grammar.
* **What follows when a pointer or an index leaves its object**: the states `"fault"` of `Sks`, `"wild"` of `CfgLoader` and `Printf`, and the crashes of `Snowball` and `Kernel` are ends.
* **IOMMU**: no code loads its entries; `Fabric` takes the translation as absent.

## 9. Plan

Done: the hash unit with its specification, proofs and refinement; GPDMA, key store, SPI, Trace Hub, ROM handoff and sideband devices with
proofs; fabric, module loader, kernel, PCI registers, configuration parser and printf with proofs; configuration loader.

What is left, in this order:

1. Proofs for `CfgLoader`: that the list is a chain without a cycle in which the sections of every file being loaded come in order (`StillLinked`).
2. `Ocs`: HCU, GPDMA and SKS composed over one register window, with the static bounce buffer (`gpdma.c:35`) shared.
