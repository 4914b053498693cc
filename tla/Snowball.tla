-------------------------------- MODULE Snowball --------------------------------
(***************************************************************************)
(* The data that the ROM hands to the firmware ("snowball"), and the       *)
(* kernel call that reads it: user/kernel/snowball.c and                   *)
(* user/syslib/kernelcall.c.                                               *)
(*                                                                         *)
(* At boot the snowball sections of the configuration are put one after    *)
(* the other into snowball_buffer, each as a block of a header and data.   *)
(* Firmware then reads the buffer as a stream, in pieces of its own sizes, *)
(* and finds the next block by the size that a header gives.                   *)
(***************************************************************************)
EXTENDS Integers, Sequences

CONSTANTS
  Lists,      (* what a configuration may have as its snowball sections:    *)
              (*   sequences of [kind, given, len], the value of the key    *)
              (*   "size", or -1, and the length of the file or string      *)
  Header,     (* the bytes of a romhandoff_block: 18 in the code            *)
  BufSize,    (* the bytes of snowball_buffer: 0x1FE000 in the code         *)
  Width,      (* the values of a uint16_t: 65536                            *)
  IntSize,    (* the bytes of an integer value: 8                           *)
  SizeMod,    (* the values of a uint32_t: 2^32                             *)
  ReadSizes,  (* the sizes that firmware reads                              *)
  Table,      (* kctable, from 0: [size, impl]; impl is "read", "other",    *)
              (*   which changes nothing here, or "none"                    *)
  ParSizes    (* the parameter sizes that firmware passes                   *)

Kinds == {"file", "string", "int", "empty"}

ASSUME SnowballAssumption ==
  /\ Header \in Nat \ {0} /\ BufSize \in Nat /\ Width \in Nat \ {0} /\ IntSize \in Nat
  /\ SizeMod \in Nat /\ 2 * BufSize <= SizeMod
  /\ ReadSizes \subseteq 0 .. SizeMod - 1
  /\ Lists \subseteq Seq([kind : Kinds, given : -1 .. Width - 1, len : Nat])

VARIABLES
  phase,            (* "boot", "running", "aborted" or "crashed"            *)
  sections,         (* the snowball sections of the configuration           *)
  next,             (* the section that snowball_init comes to next         *)
  snowball_buffer,  (* its cells so far: <<section, position in the block>> *)
  snowball_wrptr,
  snowball_rdptr,
  blocks,           (* of each block: [at, size, total], its place, what    *)
                    (*   its header says, and the bytes it takes            *)
  got,              (* history: the cells that firmware has read, ...       *)
  refused           (* ... and whether its last call was refused            *)

vars == <<phase, sections, next, snowball_buffer, snowball_wrptr, snowball_rdptr, blocks, got, refused>>

-----------------------------------------------------------------------------
(* Boot. *)

Init ==
  /\ phase = "boot" /\ next = 1 /\ sections \in Lists
  /\ snowball_buffer = <<>> /\ snowball_wrptr = 0 /\ snowball_rdptr = 0
  /\ blocks = <<>> /\ got = <<>> /\ refused = FALSE

(* A section with no size that needs one, or with one too large for its    *)
(* value: the program ends.                                                *)
Aborts(s) ==
  \/ s.kind \in {"empty", "int"} /\ s.given = -1
  \/ s.kind = "int" /\ s.given > IntSize
  \/ s.kind = "string" /\ s.given > s.len + 1

(* The bytes of data: of a file or a string the length, as a uint16_t.      *)
DataSize(s) ==
  IF s.kind = "file" \/ (s.kind = "string" /\ s.given = -1) THEN s.len % Width ELSE s.given

Total(s) == DataSize(s) + Header

(* Mutant of SizeField: the header is not counted.                         *)
SizeFieldData(s) == DataSize(s)

SizeField(s) == Total(s) % Width

Fits(s) == Total(s) + snowball_wrptr < BufSize

Cells(n, size) == [k \in 1 .. size |-> <<n, k>>]

(* snowball_add: a block that does not fit is left out.                    *)
Add(s) ==
  \/ /\ ~ Fits(s)
     /\ UNCHANGED <<snowball_buffer, snowball_wrptr, blocks>>
  \/ /\ Fits(s)
     /\ snowball_buffer' = snowball_buffer \o Cells(next, Total(s))
     /\ snowball_wrptr' = snowball_wrptr + Total(s)
     /\ blocks' = Append(blocks, [at |-> snowball_wrptr, size |-> SizeField(s),
                                  total |-> Total(s)])

AddSection ==
  /\ phase = "boot" /\ next <= Len(sections)
  /\ \/ /\ Aborts(sections[next])
        /\ phase' = "aborted"
        /\ UNCHANGED <<sections, next, snowball_buffer, snowball_wrptr, blocks>>
     \/ /\ ~ Aborts(sections[next])
        /\ Add(sections[next])
        /\ next' = next + 1
        /\ UNCHANGED phase
  /\ UNCHANGED <<sections, snowball_rdptr, got, refused>>

Boot ==
  /\ phase = "boot" /\ next > Len(sections)
  /\ phase' = "running"
  /\ UNCHANGED <<sections, next, snowball_buffer, snowball_wrptr, snowball_rdptr, blocks, got, refused>>

-----------------------------------------------------------------------------
(* Kernel calls. *)

(* Mutant of Turn: a read over the end advances by what was asked for.      *)
TurnAsked(size) == size

(* A uint32_t that is taken as an int.                                     *)
AsInt(size) == IF 2 * size < SizeMod THEN size ELSE size - SizeMod

Turn(size) ==
  LET avail == snowball_wrptr - snowball_rdptr
  IN  IF avail < AsInt(size) THEN avail ELSE AsInt(size)

(* The buffer is zero beyond what was put.                                 *)
Byte(k) == IF k <= Len(snowball_buffer) THEN snowball_buffer[k] ELSE <<0, 0>>

Served(size, size2) == size = size2 /\ snowball_wrptr # snowball_rdptr

(* snowball_read: only with the same size twice, and while there is data.   *)
(* A size that is negative as an int is not cut to what there is, and is a  *)
(* copy of half the address space or more, which ends the program.          *)
Read(size, size2) ==
  /\ \/ /\ ~ Served(size, size2)
        /\ UNCHANGED <<phase, got, snowball_rdptr>>
     \/ /\ Served(size, size2) /\ Turn(size) >= 0
        /\ got' = got \o [k \in 1 .. Turn(size) |-> Byte(snowball_rdptr + k)]
        /\ snowball_rdptr' = snowball_rdptr + Turn(size)
        /\ UNCHANGED phase
     \/ /\ Served(size, size2) /\ Turn(size) < 0
        /\ phase' = "crashed"
        /\ UNCHANGED <<got, snowball_rdptr>>
  /\ refused' = FALSE
  /\ UNCHANGED <<sections, next, snowball_buffer, snowball_wrptr, blocks>>

Refuse ==
  /\ refused' = TRUE
  /\ UNCHANGED <<phase, sections, next, snowball_buffer, snowball_wrptr, snowball_rdptr, blocks, got>>

Return ==
  /\ refused' = FALSE
  /\ UNCHANGED <<phase, sections, next, snowball_buffer, snowball_wrptr, snowball_rdptr, blocks, got>>

Crash ==
  /\ phase' = "crashed"
  /\ UNCHANGED <<sections, next, snowball_buffer, snowball_wrptr, snowball_rdptr, blocks, got, refused>>

(* kernelcall: an entry with no name has size 0 and a null function.  The    *)
(* entry after the last is looked at too: what is there may have any size  *)
(* and any function.                                                       *)
KernelCall(id, par_sz, size, size2) ==
  /\ phase = "running"
  /\ \/ id > Len(Table) /\ Refuse
     \/ id = Len(Table) /\ (Refuse \/ Crash)
     \/ id < Len(Table) /\ par_sz # Table[id + 1].size /\ Refuse
     \/ /\ id < Len(Table) /\ par_sz = Table[id + 1].size
        /\ \/ Table[id + 1].impl = "read" /\ Read(size, size2)
           \/ Table[id + 1].impl = "other" /\ Return
           \/ Table[id + 1].impl = "none" /\ Crash

(* The calls, up to two beyond the table. *)
Call ==
  \E id \in 0 .. Len(Table) + 1, par_sz \in ParSizes, size, size2 \in ReadSizes :
    KernelCall(id, par_sz, size, size2)

Next == AddSection \/ Boot \/ Call

Spec == Init /\ [][Next]_vars

-----------------------------------------------------------------------------
(* Properties. *)

TypeOK ==
  /\ phase \in {"boot", "running", "aborted", "crashed"}
  /\ sections \in Lists /\ next \in 1 .. Len(sections) + 1
  /\ snowball_wrptr \in 0 .. BufSize /\ snowball_rdptr \in 0 .. snowball_wrptr
  /\ snowball_buffer \in Seq(Nat \X Nat) /\ Len(snowball_buffer) = snowball_wrptr
  /\ blocks \in Seq([at : Nat, size : Nat, total : Nat])
  /\ got \in Seq(Nat \X Nat) /\ refused \in BOOLEAN

(* The calls hand out the stream: in order, each byte once, none left out   *)
(* between two reads, for every size that firmware asks for.  The sizes     *)
(* that are negative as an int never come back with a part of it: they end  *)
(* the emulator.                                                           *)
ReadIsStream ==
  /\ Len(got) = snowball_rdptr /\ snowball_rdptr <= snowball_wrptr
  /\ \A k \in 1 .. snowball_rdptr : got[k] = snowball_buffer[k]

(* Adding up the sizes in the headers leads from block to block, ...       *)
Walkable ==
  /\ IF blocks = <<>> THEN snowball_wrptr = 0
     ELSE /\ blocks[1].at = 0
          /\ blocks[Len(blocks)].at + blocks[Len(blocks)].size = snowball_wrptr
  /\ \A i \in 2 .. Len(blocks) : blocks[i - 1].at + blocks[i - 1].size = blocks[i].at

(* ... so that firmware comes to each block and at last to the end of the  *)
(* stream, also past a block that was left out, when none of them is too   *)
(* long for the size field.                                                *)
WalkIsBlocks == (\A i \in 1 .. Len(blocks) : blocks[i].total < Width) => Walkable
=============================================================================
