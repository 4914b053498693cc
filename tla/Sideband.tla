-------------------------------- MODULE Sideband --------------------------------
(***************************************************************************)
(* The sideband network and the devices on it: periph/sideband/sbdev.c,    *)
(* periph/fuse/fusectl.c, periph/dfxagg/dev.c and periph/exi/dev.c.        *)
(*                                                                         *)
(* A message names an endpoint, an operation, a BAR and an offset; sbwin   *)
(* of the address translation device (Fabric) makes it of a memory cycle.  *)
(* A word of a register is the set of its bits that are one.               *)
(***************************************************************************)
EXTENDS Integers, SequencesExt

CONSTANTS
  Devs,       (* the sideband devices of the configuration, ...            *)
  Type,       (* ... "fusectl", "dfxagg" or "exi", ...                     *)
  Endpoints,  (* ... the values their entries endpoint may have, ...       *)
  Sai,        (* ... of their entries sai, ...                             *)
  Entry,      (* ... and the word of their entries puid or ectrl           *)
  Targets,    (* the endpoints that firmware addresses, ...                *)
  Writes,     (* ... its writes: [op, bar, off, count, word] ...           *)
  Reads       (* ... and its reads: [op, bar, off, count]                  *)

(* misa and the gasket take 0 for a bus error, so no sai is 0. *)
SidebandAssumption ==
  /\ Type \in [Devs -> {"fusectl", "dfxagg", "exi"}]
  /\ Endpoints \in [Devs -> SUBSET Nat]
  /\ Targets \subseteq 0 .. 255
  /\ Entry \in [Devs -> SUBSET (0 .. 63)]
  /\ Reads \subseteq [op : Nat, bar : 0 .. 7, off : Nat, count : Nat]
  /\ Writes \subseteq [op : Nat, bar : 0 .. 7, off : Nat, count : Nat,
                      word : SUBSET (0 .. 31)]
  /\ Sai \in [Devs -> Nat \ {0}]

VARIABLES
  sbdev_list, (* the registered devices: [dev, endpoint], the latest first *)
  running,    (* all devices have been spawned and the firmware runs       *)
  regs,       (* the register files                                        *)
  ret,        (* what the last message was answered with                   *)
  value,      (* what the caller of the last read has in its buffer        *)
  watched,    (* history: one cell of one endpoint, ...                    *)
  seen,       (* ... the last answered write of it, in a set, ...          *)
  sensed      (* ... and the devices whose sense operation has been done   *)

history == <<watched, seen, sensed>>
sbVars == <<sbdev_list, running, regs, ret, value, history>>

Refused == -2

(* The register cells of every type: BAR, offset, size and name. *)
Cells(type) ==
  CASE type = "fusectl" ->
         {<<4, 0, 4, "control">>, <<4, 4, 4, "intel_global_ctrl">>,
          <<4, 8, 4, "intel_kar">>, <<4, 12, 4, "intel_address">>,
          <<4, 16, 4, "intel_size">>, <<4, 20, 4, "intel_fsm_ctrl">>,
          <<4, 28, 4, "intel_hd_counter">>, <<4, \h80, 4, "intel_debug_status">>,
          <<4, \h1020, 4, "unknown_1020">>, <<4, \h1024, 4, "unknown_1024">>}
    [] type = "dfxagg" ->
         {<<0, 0, 4, "personality">>, <<0, 4, 4, "consent">>,
          <<0, 8, 8, "status">>, <<0, 24, 8, "puid">>}
    [] type = "exi" -> {<<0, 0, 4, "emecc">>, <<0, 4, 4, "ectrl">>}

Names(type) == {c[4] : c \in Cells(type)}

(* The words of the fuse array, all read from one register. *)
IsFuseWord(m) == m.bar = 1 /\ m.count = 4 /\ m.off \in 0 .. \h7FF /\ m.off % 4 = 0

(* The register that a message to a device of this type names, if any. *)
Named(type, m) == {c[4] : c \in {d \in Cells(type) : <<m.bar, m.off, m.count>> = <<d[1], d[2], d[3]>>}}

(* sb.endpoint is one byte. *)
Endpoint(n) == n % 256

SbInit ==
  /\ sbdev_list = << >> /\ running = FALSE
  /\ regs = [d \in Devs |-> [r \in Names(Type[d]) |->
                IF r \in {"puid", "ectrl"} THEN Entry[d] ELSE {}]]
  /\ ret = 0 /\ value = {}
  /\ watched \in [ep : Targets, msg : Reads] /\ seen = {} /\ sensed = {}

(* fusectl_spawn, dfxagg_spawn, exi_spawn and sb_register. *)
Spawn(d, n) ==
  /\ ~ running
  /\ \A i \in DOMAIN sbdev_list : sbdev_list[i].dev # d
  /\ sbdev_list' = <<[dev |-> d, endpoint |-> Endpoint(n)]>> \o sbdev_list
  /\ UNCHANGED <<running, regs, ret, value, history>>

(* The firmware starts when the devices of the file have been spawned.      *)
Boot ==
  /\ ~ running /\ running' = TRUE
  /\ Devs = {sbdev_list[i].dev : i \in DOMAIN sbdev_list}
  /\ UNCHANGED <<sbdev_list, regs, ret, value, history>>

(* The device that answers for an endpoint: the last one that registered.   *)
At(ep) == {sbdev_list[i].dev : i \in {j \in DOMAIN sbdev_list :
             /\ sbdev_list[j].endpoint = ep
             /\ \A k \in 1 .. j - 1 : sbdev_list[k].endpoint # ep}}

-----------------------------------------------------------------------------
(* Reads.  A message that is not answered, or that is answered for a cell   *)
(* that is none, leaves the caller's zero (read_seg_32) in the buffer.     *)

Gives(d, m) ==
  IF Type[d] = "fusectl" /\ IsFuseWord(m) THEN {"unknown_1024"} ELSE Named(Type[d], m)

(* The fuse controller refuses cells that are none; the others look at the  *)
(* BAR only.                                                               *)
Answers(d, m, op) ==
  /\ m.op = op
  /\ IF Type[d] = "fusectl"
       THEN (IF op = 6 THEN Gives(d, m) ELSE Named(Type[d], m)) # {}
       ELSE m.bar = 0

Read(ep, m) ==
  /\ running
  /\ IF \E d \in At(ep) : Answers(d, m, 6)
       THEN \E d \in At(ep) :
              /\ ret' = Sai[d]
              /\ value' = UNION {regs[d][r] : r \in Gives(d, m)}
       ELSE ret' = Refused /\ value' = {}
  /\ UNCHANGED <<sbdev_list, running, regs, history>>

-----------------------------------------------------------------------------
(* Writes. *)

Cmd1 == 17
Cmd2 == 18
AckBits == {4, 7}
SenseDone == 1
Start == 23
Stop == 24
ClearAll == 31

(* Mutant of Control: the commands are tried in the other order. *)
ControlFirst(word) ==
  IF Cmd1 \in word THEN (word \ {Cmd1}) \cup AckBits
  ELSE IF Cmd2 \in word THEN AckBits
  ELSE word

(* The first command is acknowledged in the word, the second in its place. *)
Control(word) ==
  IF Cmd2 \in word THEN AckBits
  ELSE IF Cmd1 \in word THEN (word \ {Cmd1}) \cup AckBits
  ELSE word

(* Mutant of Process: the start bit stays. *)
ProcessAgain(f) ==
  LET cleared == IF ClearAll \in f.intel_debug_status THEN {} ELSE f.intel_debug_status IN
  [f EXCEPT !.control = Control(@),
            !.intel_debug_status = IF Start \in f.intel_fsm_ctrl THEN cleared \cup {SenseDone}
                                                                 ELSE cleared]

(* fusectl_process *)
Process(f) ==
  LET cleared == IF ClearAll \in f.intel_debug_status THEN {} ELSE f.intel_debug_status IN
  [f EXCEPT !.control = Control(@),
            !.intel_debug_status = IF Start \in f.intel_fsm_ctrl THEN cleared \cup {SenseDone}
                                                                 ELSE cleared,
            !.intel_fsm_ctrl = @ \ {Start, Stop}]

PrivacyOpt == 0
Lock == 30

(* Mutant of Stores: the lock keeps the consent register only from being   *)
(* written without it.                                                     *)
StoresUnlocked(f, r, word) ==
  CASE r = "personality" -> PrivacyOpt \in f.consent
    [] r = "consent" -> Lock \notin f.consent \/ Lock \in word
    [] r \in {"status", "puid"} -> FALSE
    [] OTHER -> TRUE

(* The DFx aggregator stores the personality with consent only and the     *)
(* consent until it is locked; it has no write of its other cells.         *)
Stores(f, r, word) ==
  CASE r = "personality" -> PrivacyOpt \in f.consent
    [] r = "consent" -> Lock \notin f.consent
    [] r \in {"status", "puid"} -> FALSE
    [] OTHER -> TRUE

Stored(d, r, word) ==
  IF ~ Stores(regs[d], r, word) THEN regs[d]
  ELSE LET f == [regs[d] EXCEPT ![r] = word] IN
       IF Type[d] = "fusectl" THEN Process(f) ELSE f

(* The write m of endpoint ep goes to the watched cell, or to the register  *)
(* that the watched word of the fuse array is read from.                   *)
IsWatched(ep, m) ==
  /\ watched.ep = ep
  /\ <<m.bar, m.off, m.count>> =
       IF watched.msg.bar = 1 THEN <<4, \h1024, 4>>
                              ELSE <<watched.msg.bar, watched.msg.off, watched.msg.count>>

(* A start, or the bit itself, tells firmware of a sense operation until it *)
(* writes the status again.                                                *)
Sensed(d, r, word) ==
  IF \/ r = "intel_fsm_ctrl" /\ Start \in word
     \/ r = "intel_debug_status" /\ SenseDone \in word /\ ClearAll \notin word
    THEN sensed \cup {d}
  ELSE IF r = "intel_debug_status" THEN sensed \ {d}
  ELSE sensed

WriteCell(d, m) ==
  IF Named(Type[d], m) = {}
    THEN UNCHANGED <<regs, sensed>>
    ELSE \E r \in Named(Type[d], m) :
           /\ regs' = [regs EXCEPT ![d] = Stored(d, r, m.word)]
           /\ sensed' = Sensed(d, r, m.word)

Write(ep, m) ==
  /\ running
  /\ IF \E d \in At(ep) : Answers(d, m, 7)
       THEN \E d \in At(ep) :
              /\ ret' = Sai[d]
              /\ WriteCell(d, m)
              /\ seen' = IF IsWatched(ep, m) THEN {m.word} ELSE seen
       ELSE ret' = Refused /\ UNCHANGED <<regs, seen, sensed>>
  /\ value' = {}
  /\ UNCHANGED <<sbdev_list, running, watched>>

SbNext ==
  \/ \E d \in Devs : \E n \in Endpoints[d] : Spawn(d, n)
  \/ Boot
  \/ \E ep \in Targets : \/ \E m \in Reads : Read(ep, m)
                        \/ \E m \in Writes : Write(ep, m)

SbSpec == SbInit /\ [][SbNext]_sbVars

-----------------------------------------------------------------------------
(* Properties. *)

SbTypeOK ==
  /\ sbdev_list \in Seq([dev : Devs, endpoint : 0 .. 255])
  /\ running \in BOOLEAN
  /\ DOMAIN regs = Devs
  /\ \A d \in Devs : regs[d] \in [Names(Type[d]) -> SUBSET (0 .. 63)]
  /\ ret \in {Refused, 0} \cup {Sai[d] : d \in Devs}
  /\ sensed \subseteq Devs

(* What firmware must read from a register r after it wrote word: a command *)
(* is acknowledged and gone, the start and stop bits are gone, the rest is  *)
(* what was written; but the second command leaves nothing else.  Of the    *)
(* cells that decide themselves what they take nothing is said.            *)
Shows(r, word, read) ==
  CASE r = "control" ->
         /\ {Cmd1, Cmd2} \cap read = {}
         /\ {Cmd1, Cmd2} \cap word # {} => AckBits \subseteq read
         /\ Cmd2 \notin word => word \ {Cmd1} \subseteq read
    [] r = "intel_fsm_ctrl" -> read = word \ {Start, Stop}
    [] r \in {"intel_debug_status", "personality", "consent", "status", "puid"} -> TRUE
    [] OTHER -> read = word

(* The last answered write of any cell is read back, through the endpoint *)
(* it went to, whatever else was written since, to this or to another      *)
(* device (fusectl_write, exi_write); a command is acknowledged by the     *)
(* access that gives it (fusectl_process); and the words of the fuse array *)
(* follow the register that they are read from.                            *)
ReadsLastWrite ==
  \A word \in seen :
    /\ At(watched.ep) # {}
    /\ \A d \in At(watched.ep) : \A r \in Gives(d, watched.msg) : Shows(r, word, regs[d][r])

(* A sense operation is reported once for every start, until firmware      *)
(* writes the status: no other access starts it again, or hides it.        *)
OneSensePerStart ==
  \A d \in Devs : Type[d] = "fusectl" =>
    (SenseDone \in regs[d].intel_debug_status) = (d \in sensed)

ConsentStep ==
  \A d \in Devs : Type[d] = "dfxagg" =>
    /\ regs'[d].personality # regs[d].personality => PrivacyOpt \in regs[d].consent
    /\ Lock \in regs[d].consent => regs'[d].consent = regs[d].consent

(* The owner's consent: the personality changes only while the consent     *)
(* register opts in, and once it is locked neither it nor, without the opt- *)
(* in, the personality ever changes, whoever writes (dfxagg_write).        *)
ConsentHolds == [][ConsentStep]_sbVars
=============================================================================
