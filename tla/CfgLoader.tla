------------------------------- MODULE CfgLoader -------------------------------
(***************************************************************************)
(* load_config of config/cfgparser.c, which links the sections of included *)
(* files into the list of the file that includes them, and what main does  *)
(* with the list: it looks sections up, and initialize_devices of          *)
(* config/devreg.c spawns the devices in the order of the list.            *)
(*                                                                         *)
(* A section is [type, name, entries, device, sparse, needs, makes]: the   *)
(* entries of an include section are file names and other values; a device *)
(* names its device type, needs the buses and devices that its entries     *)
(* name to be there when it is spawned, and makes itself and the bus       *)
(* behind it; a section is sparse when an entry is looked for that it does *)
(* not have.  Includes form no cycle.                                      *)
(*                                                                         *)
(* The next of the last section of a file and of the last entry of a       *)
(* section is never set after malloc: the lists end where that memory      *)
(* reads as zero.  Where it does not, the program follows it to anywhere,  *)
(* and the model stops ("wild").                                           *)
(***************************************************************************)
EXTENDS Integers, SequencesExt, FiniteSetsExt, TLC

CONSTANTS
  FileSystems,(* the files of a machine: from their names to their sections *)
  Root,       (* the file on the command line                              *)
  MaxDepth,   (* no include is nested deeper                               *)
  DeviceTypes,(* the device types that are registered                      *)
  Wanted      (* the sections that main looks up: loader, romlib, ...      *)

VARIABLES
  fs,         (* the files                                                 *)
  zeroed,     (* whether all memory that malloc gives reads as zero        *)
  pc,
  stack,      (* the calls of load_config under way, the innermost first   *)
  returned,   (* the file that the last call returned, until it is linked  *)
  loads,      (* how many files have been loaded                           *)
  next,       (* section->next                                             *)
  at,         (* the section that main or initialize_devices is at         *)
  found,      (* the names of the sections that main has passed            *)
  made        (* the devices and buses that are registered                 *)

vars == <<fs, zeroed, pc, stack, returned, loads, next, at, found, made>>

Null == [load |-> 0, path |-> "", i |-> 0]
Wild == [load |-> 0, path |-> "", i |-> 1]

(* What a next that is never set may hold. *)
Unset == IF zeroed THEN {Null} ELSE {Null, Wild}

Section(n) == fs[n.path][n.i]

(* A file as accept_file returns it: its sections are linked in order, and  *)
(* the next of the last one is not set.                                    *)
Parsed(load, path) ==
  [first |-> [load |-> load, path |-> path, i |-> 1],
   last |-> [load |-> load, path |-> path, i |-> Len(fs[path])]]

Links(load, path, end) ==
  [n \in {[load |-> load, path |-> path, i |-> i] : i \in DOMAIN fs[path]} |->
     IF n.i = Len(fs[path]) THEN end ELSE [n EXCEPT !.i = @ + 1]]

-----------------------------------------------------------------------------
(* Lists. *)

(* The nodes from n on, not more of them than there are. *)
From(links, n) ==
  LET Walk[list \in Seq(DOMAIN links)] ==
        LET after == links[Last(list)] IN
        IF after \in DOMAIN links /\ Len(list) < Cardinality(DOMAIN links)
          THEN Walk[Append(list, after)]
          ELSE list
  IN Walk[<<n>>]

RootFirst == [load |-> 1, path |-> Root, i |-> 1]
List == From(next, RootFirst)

-----------------------------------------------------------------------------

Init ==
  /\ fs \in FileSystems /\ zeroed \in BOOLEAN
  /\ pc = "load" /\ stack = << >> /\ returned = << >>
  /\ loads = 0 /\ next = << >>
  /\ at = Null /\ found = {} /\ made = {}

Top == Head(stack)
SetTop(frame) == stack' = <<frame>> \o Tail(stack)

(* fopen, accept_file, and the first turn of the loop over the sections. *)
Open(path) ==
  IF path \in DOMAIN fs
    THEN /\ loads' = loads + 1
         /\ \E end \in Unset : next' = Links(loads + 1, path, end) @@ next
         /\ stack' = <<[file |-> Parsed(loads + 1, path), entry |-> 0,
                        section |-> Parsed(loads + 1, path).first,
                        after |-> Null, insert |-> Null]>> \o stack
         /\ UNCHANGED pc
    ELSE pc' = "fatal" /\ UNCHANGED <<loads, next, stack>>

LoadRoot ==
  /\ pc = "load" /\ loads = 0
  /\ Open(Root)
  /\ UNCHANGED <<fs, zeroed, returned, at, found, made>>

Looping == pc = "load" /\ stack # << >> /\ returned = << >>

(* The next section of the innermost file: an include section starts a loop *)
(* over its entries.                                                       *)
Visit ==
  /\ Looping /\ Top.entry = 0 /\ Top.section \in DOMAIN next
  /\ LET after == next[Top.section] IN
     IF Section(Top.section).type = "include"
       THEN SetTop([Top EXCEPT !.after = after, !.insert = Top.section, !.entry = 1])
       ELSE SetTop([Top EXCEPT !.after = after, !.section = after])
  /\ UNCHANGED <<fs, zeroed, pc, returned, loads, next, at, found, made>>

Entries == Section(Top.section).entries

IgnoreEntry ==
  /\ Looping /\ Top.entry > 0 /\ Top.entry \in DOMAIN Entries
  /\ Entries[Top.entry].type # "string"
  /\ SetTop([Top EXCEPT !.entry = @ + 1])
  /\ UNCHANGED <<fs, zeroed, pc, returned, loads, next, at, found, made>>

Include ==
  /\ Looping /\ Top.entry > 0 /\ Top.entry \in DOMAIN Entries
  /\ Entries[Top.entry].type = "string"
  /\ Open(Entries[Top.entry].path)
  /\ UNCHANGED <<fs, zeroed, returned, at, found, made>>

(* Mutant of Advance: the section after an include section is read when its *)
(* entries have been linked.                                               *)
AdvanceRead(frame) == [frame EXCEPT !.section = next[frame.section], !.entry = 0]

Advance(frame) == [frame EXCEPT !.section = frame.after, !.entry = 0]

EndOfEntries ==
  /\ Looping /\ Top.entry > 0 /\ Top.entry \notin DOMAIN Entries
  /\ SetTop(Advance(Top))
  /\ UNCHANGED <<fs, zeroed, pc, returned, loads, next, at, found, made>>

Return ==
  /\ Looping /\ Top.entry = 0 /\ Top.section = Null
  /\ stack' = Tail(stack)
  /\ IF Tail(stack) = << >>
       THEN pc' = "lookup" /\ at' = Top.file.first /\ UNCHANGED returned
       ELSE returned' = <<Top.file>> /\ UNCHANGED <<pc, at>>
  /\ UNCHANGED <<fs, zeroed, loads, next, found, made>>

(* Mutants of Linked: what followed the insert point is dropped; the        *)
(* included sections end where they start.                                 *)
LinkedDrop(links, insert, file) == [links EXCEPT ![insert] = file.first]

LinkedLoop(links, insert, file) ==
  [links EXCEPT ![file.last] = file.first, ![insert] = file.first]

Linked(links, insert, file) ==
  [links EXCEPT ![file.last] = links[insert], ![insert] = file.first]

(* The file that was included is linked in after the insert point. *)
Splice ==
  /\ pc = "load" /\ returned # << >>
  /\ next' = Linked(next, Top.insert, returned[1])
  /\ SetTop([Top EXCEPT !.insert = returned[1].last, !.entry = @ + 1])
  /\ returned' = << >>
  /\ UNCHANGED <<fs, zeroed, pc, loads, at, found, made>>

-----------------------------------------------------------------------------
(* main *)

(* cfg_find_section, for all the sections that are looked up by their names *)
(* before anything is spawned.                                             *)
LookUp ==
  /\ pc = "lookup" /\ at \in DOMAIN next
  /\ found' = found \cup {Section(at).name}
  /\ at' = next[at]
  /\ UNCHANGED <<fs, zeroed, pc, stack, returned, loads, next, made>>

LookedUp ==
  /\ pc = "lookup" /\ at = Null
  /\ IF Wanted \subseteq found
       THEN pc' = "spawn" /\ at' = RootFirst
       ELSE pc' = "fatal" /\ UNCHANGED at
  /\ UNCHANGED <<fs, zeroed, stack, returned, loads, next, found, made>>

Skip ==
  /\ pc = "spawn" /\ at \in DOMAIN next
  /\ Section(at).type # "device"
  /\ at' = next[at]
  /\ UNCHANGED <<fs, zeroed, pc, stack, returned, loads, next, found, made>>

(* Mutant of Fits: a second device of the name takes the place of the first. *)
FitsAgain(section, registered) ==
  section.device \in DeviceTypes /\ section.needs \subseteq registered

(* The section names a device type that exists, what the device needs is   *)
(* registered, and nothing by the names it makes.                          *)
Fits(section, registered) ==
  /\ section.device \in DeviceTypes
  /\ section.needs \subseteq registered /\ section.makes \cap registered = {}

Spawn ==
  /\ pc = "spawn" /\ at \in DOMAIN next
  /\ Section(at).type = "device"
  /\ IF Fits(Section(at), made)
       THEN made' = made \cup Section(at).makes /\ at' = next[at] /\ UNCHANGED pc
       ELSE pc' = "fatal" /\ UNCHANGED <<made, at>>
  /\ UNCHANGED <<fs, zeroed, stack, returned, loads, next, found>>

(* The loops of cfg_find_string and its like go past the last entry of the  *)
(* section: of a device that is spawned, or of one that main looked up,     *)
(* from load_rom to the look-up of the trace dictionary.                   *)
MissesEntry ==
  \/ pc = "spawn" /\ at \in DOMAIN next /\ Section(at).type = "device" /\ Section(at).sparse
  \/ /\ pc \in {"lookup", "spawn"} /\ at = Null /\ Wanted \subseteq found
     /\ \E n \in ToSet(List) : Section(n).name \in Wanted /\ Section(n).sparse

(* A next that was never set is followed: by the loop over the sections, by *)
(* the loop over the entries of an include section, or by a look-up.        *)
Stray ==
  /\ Wild \in Unset
  /\ \/ Looping /\ Top.entry = 0 /\ Top.section = Wild
     \/ Looping /\ Top.entry > 0 /\ Top.entry \notin DOMAIN Entries
     \/ MissesEntry
  /\ pc' = "wild"
  /\ UNCHANGED <<fs, zeroed, stack, returned, loads, next, at, found, made>>

(* The firmware starts.  The assertion after device_find, which is about the *)
(* CPU, looks at another variable and always holds.                        *)
Start ==
  /\ pc = "spawn" /\ at = Null
  /\ pc' = "started"
  /\ UNCHANGED <<fs, zeroed, stack, returned, loads, next, at, found, made>>

Next ==
  \/ LoadRoot \/ Visit \/ IgnoreEntry \/ Include \/ EndOfEntries \/ Return \/ Splice
  \/ LookUp \/ LookedUp \/ Skip \/ Spawn \/ Stray \/ Start

Spec == Init /\ [][Next]_vars

(* main runs until it has started the machine, has given up or is astray. *)
FairSpec == Spec /\ WF_vars(Next)

-----------------------------------------------------------------------------
(* Properties. *)

(* The sections of a file, each include section followed by what it names. *)
Expand[n \in 0 .. MaxDepth] ==
  [p \in DOMAIN fs |->
     FlattenSeq([i \in DOMAIN fs[p] |->
       <<[path |-> p, i |-> i]>> \o
       (IF n = 0 \/ fs[p][i].type # "include" THEN << >>
        ELSE FlattenSeq([j \in DOMAIN fs[p][i].entries |->
               LET e == fs[p][i].entries[j] IN
               IF e.type = "string" /\ e.path \in DOMAIN fs THEN Expand[n - 1][e.path]
               ELSE << >>]))])]

Expansion == Expand[MaxDepth][Root]

Contents(list) == [k \in DOMAIN list |-> [path |-> list[k].path, i |-> list[k].i]]

(* No file that is included ends with an include section. *)
EndsPlain ==
  \A p \in DOMAIN fs \ {Root} : Last(fs[p]).type # "include"

(* The list is the expansion of the root file: every section of every file  *)
(* that is included is in it, once for each include, in the order of the   *)
(* files and of their sections.                                            *)
ListIsExpansion ==
  EndsPlain /\ pc \in {"lookup", "spawn", "started"} => Contents(List) = Expansion

(* While a file is being linked in, no section comes off the list of a file *)
(* that is still being loaded, and their order does not change.            *)
StillLinked ==
  [][ \A k \in 0 .. Len(stack) - 1 : k < Len(stack') =>
        LET f == stack[Len(stack) - k].file.first
            old == From(next, f)
            new == From(next', f)
        IN stack'[Len(stack') - k].file.first = f =>
             SelectSeq(new, LAMBDA n : n \in ToSet(old)) = old ]_vars

(* The expansion, read in order, has every device after what it needs and   *)
(* of a type that exists, no two things of a name, and the sections that    *)
(* main looks up.                                                          *)
Devices == SelectSeq(Expansion, LAMBDA c : fs[c.path][c.i].type = "device")

Device(k) == fs[Devices[k].path][Devices[k].i]

Complete ==
  \A k \in DOMAIN Expansion :
    LET s == fs[Expansion[k].path][Expansion[k].i] IN
    s.type = "include" =>
      \A j \in DOMAIN s.entries : s.entries[j].type = "string" => s.entries[j].path \in DOMAIN fs

Bootable ==
  /\ Complete
  /\ Wanted \subseteq {fs[Expansion[k].path][Expansion[k].i].name : k \in DOMAIN Expansion}
  /\ \A k \in DOMAIN Devices :
       /\ Device(k).device \in DeviceTypes
       /\ Device(k).needs \subseteq UNION {Device(j).makes : j \in 1 .. k - 1}
       /\ \A j \in 1 .. k - 1 : Device(j).makes \cap Device(k).makes = {}

(* The machine starts with a configuration that can be booted and gives up  *)
(* with any other, when it comes to either.                                *)
BootsIfBootable ==
  EndsPlain => /\ pc = "started" => Bootable
               /\ pc = "fatal" => ~ Bootable

(* Loading and spawning come to an end, with the machine started or given   *)
(* up, where what malloc gives reads as zero; where it may not, they may    *)
(* also go astray, as nothing sets the next of the last of a list.          *)
BootEnds == <>(pc \in {"started", "fatal"} \/ (pc = "wild" /\ ~ zeroed))

(* cfgparser.c:470 "it will load all config files referenced by it and      *)
(* insert their sections after the include section."                       *)
AllSectionsInserted ==
  pc \in {"lookup", "spawn"} => Contents(List) = Expansion
=============================================================================
