--------------------------------- MODULE Sks ---------------------------------
(***************************************************************************)
(* The secure key store of the offload and crypto subsystem                *)
(* (periph/ocs/sks/sks.c), with the functions of the hash and AES units it *)
(* calls.  Every register write ends in sks_do_operation.                  *)
(*                                                                         *)
(* Key material is counted in half keys (16 bytes): a short slot holds     *)
(* one, a long slot two, and so do sks_databuf, the result of the hash     *)
(* unit and the part of its key that is ever loaded.  Every half that      *)
(* enters the system is a new one: <<origin, number, which half>>.         *)
(***************************************************************************)
EXTENDS Integers, Sequences

CONSTANTS
  Half,        (* the short slots, and the long ones: 11 each in the code  *)
  SlotWrites,  (* the slot numbers firmware writes, ...                    *)
  CmdWrites,   (* ... the commands ...                                     *)
  AtrWrites,   (* ... and the slots whose attributes it writes             *)
  MaxFresh     (* bound: half keys that enter the system                   *)

Slots == 0 .. 2 * Half - 1
Sources == {"none", "cpu", "aes", "hash"}
Targets == {"none", "aes", "hash", "both"}
Commands ==
  [go : BOOLEAN, produce : BOOLEAN, source : Sources, target : Targets]

ASSUME HalfAssumption == Half \in Nat \ {0} /\ MaxFresh \in Nat
ASSUME WritesAssumption ==
  SlotWrites \subseteq Nat /\ CmdWrites \subseteq Commands /\ AtrWrites \subseteq Slots

VARIABLES
  sks_slot,
  sks_command,   (* [go, produce, source, target]                          *)
  sks_status,    (* [busy, errr]                                           *)
  valid,         (* bit 0 of key_atr1, for every slot                      *)
  sks_databuf,
  sks_keystore,  (* the halves of all slots, from 0                        *)
  hash_state,    (* the hash unit: its result as it stands, ...            *)
  hash_key,      (* ... and its key                                        *)
  fault,         (* a wild pointer has been followed: the model ends there *)
  fresh,         (* the halves that have entered the system                *)
  held,          (* history: what each slot was last given, ...            *)
  loaded         (* ... and what the hash unit was last given              *)

vars == <<sks_slot, sks_command, sks_status, valid, sks_databuf, sks_keystore,
          hash_state, hash_key, fault, fresh, held, loaded>>

-----------------------------------------------------------------------------

ZeroHalf == <<"zero", 0, 0>>
ZeroKey == <<ZeroHalf, ZeroHalf>>

(* keysize. *)
KeySize(s) == IF s >= Half THEN 2 ELSE 1

(* Mutant of KeyAt: the long slots begin one half key too early. *)
KeyAtEarly(s) == IF s < Half THEN s ELSE Half - 1 + 2 * (s - Half)

(* key_data: where the key of a slot is in sks_keystore. *)
KeyAt(s) == IF s < Half THEN s ELSE Half + 2 * (s - Half)

KeyOf(store, s) == [i \in 1 .. KeySize(s) |-> store[KeyAt(s) + i - 1]]

PutKey(store, s, key) ==
  [h \in DOMAIN store |->
     IF h \in KeyAt(s) .. KeyAt(s) + KeySize(s) - 1
       THEN key[h - KeyAt(s) + 1] ELSE store[h]]

(* hash_load_key: memset and memcpy of keysize bytes. *)
LoadKey(old, key) ==
  [i \in 1 .. 2 |-> IF i <= Len(key) THEN key[i] ELSE old[i]]

Init ==
  /\ sks_slot = 0
  /\ sks_command = [go |-> FALSE, produce |-> FALSE,
                    source |-> "none", target |-> "none"]
  /\ sks_status = [busy |-> FALSE, errr |-> FALSE]
  /\ valid = [s \in Slots |-> s = 2 * Half - 1]
  /\ sks_databuf = ZeroKey
  /\ sks_keystore = [h \in 0 .. 3 * Half - 1 |-> ZeroHalf]
  /\ hash_state = ZeroKey
  /\ hash_key = ZeroKey
  /\ fault = FALSE
  /\ fresh = 0
  /\ held = [s \in Slots |-> SubSeq(ZeroKey, 1, KeySize(s))]
  /\ loaded = << >>

-----------------------------------------------------------------------------
(* sks_do_operation, on a slot s, a command c, a data buffer db and        *)
(* attributes at.                                                          *)

(* The slot check lets through the number after the last slot, whose entry *)
(* of sks_keys overlaps sks_slot and sks_command: its key_data is the      *)
(* command taken as a pointer.                                             *)
OffTheEnd(s) == s = 2 * Half

(* What ends at the label err. *)
Refused(s, c) ==
  \/ s > 2 * Half
  \/ c.produce /\ c.source \in {"none", "aes"}  (* aes_get_result returns 0 *)

(* The command touches key_data: aes_load_key does not. *)
Moves(c) == c.produce \/ c.target = "hash"

NoTransfer(db, at) ==
  /\ valid' = at
  /\ sks_databuf' = db
  /\ UNCHANGED <<sks_keystore, held, hash_key, loaded>>

Produce(s, key, db, at) ==
  /\ sks_keystore' = PutKey(sks_keystore, s, key)
  /\ held' = [held EXCEPT ![s] = SubSeq(key, 1, KeySize(s))]
  /\ valid' = [at EXCEPT ![s] = TRUE]
  /\ sks_databuf' = db
  /\ UNCHANGED <<hash_key, loaded>>

(* Mutant of Consume: always the 32 bytes of the hash unit's key. *)
ConsumeWhole(s, db, at) ==
  /\ hash_key' = [i \in 1 .. 2 |->
                    IF KeyAt(s) + i - 1 \in DOMAIN sks_keystore
                      THEN sks_keystore[KeyAt(s) + i - 1] ELSE ZeroHalf]
  /\ loaded' = held[s]
  /\ valid' = at
  /\ sks_databuf' = db
  /\ UNCHANGED <<sks_keystore, held>>

Consume(s, db, at) ==
  /\ hash_key' = LoadKey(hash_key, KeyOf(sks_keystore, s))
  /\ loaded' = held[s]
  /\ valid' = at
  /\ sks_databuf' = db
  /\ UNCHANGED <<sks_keystore, held>>

(* Mutant of Transfer: the data buffer keeps the key it gave away. *)
TransferKeepData(s, c, db, at) ==
  \/ c.produce /\ c.source = "cpu"  /\ Produce(s, db, db, at)
  \/ c.produce /\ c.source = "hash" /\ Produce(s, hash_state, db, at)
  \/ ~ c.produce /\ Consume(s, db, at)

Transfer(s, c, db, at) ==
  \/ c.produce /\ c.source = "cpu"  /\ Produce(s, db, ZeroKey, at)
  \/ c.produce /\ c.source = "hash" /\ Produce(s, hash_state, db, at)
  \/ ~ c.produce /\ Consume(s, db, at)

Err(s, db, at) ==
  /\ sks_status' = [busy |-> FALSE, errr |-> TRUE]
  /\ NoTransfer(db, at)

Operate(s, c, st, db, at) ==
  /\ sks_slot' = s
  /\ sks_command' = [c EXCEPT !.go = FALSE]
  /\ fault' = (c.go /\ ~ Refused(s, c) /\ Moves(c) /\ OffTheEnd(s))
  /\ \/ ~ c.go /\ NoTransfer(db, at) /\ sks_status' = st
     \/ c.go /\ Refused(s, c) /\ Err(s, db, at)
     \/ /\ c.go /\ ~ Refused(s, c)
        /\ sks_status' = [st EXCEPT !.busy = FALSE]
        /\ IF Moves(c) /\ ~ OffTheEnd(s)
             THEN Transfer(s, c, db, at)
             ELSE NoTransfer(db, at)

-----------------------------------------------------------------------------
(* sks_write, one action per register. *)

WriteSlot(s) ==
  /\ ~ fault
  /\ Operate(s, sks_command, sks_status, sks_databuf, valid)
  /\ UNCHANGED <<hash_state, fresh>>

WriteCommand(c) ==
  /\ ~ fault
  /\ Operate(sks_slot, c, sks_status, sks_databuf, valid)
  /\ UNCHANGED <<hash_state, fresh>>

(* Ones written to STATUS clear its bits. *)
WriteStatus(ones) ==
  /\ ~ fault
  /\ Operate(sks_slot, sks_command,
             [busy |-> sks_status.busy /\ ~ ones.busy,
              errr |-> sks_status.errr /\ ~ ones.errr],
             sks_databuf, valid)
  /\ UNCHANGED <<hash_state, fresh>>

(* A half of DATA; a write that leaves DATA is dropped before any of this. *)
WriteData(h) ==
  /\ ~ fault
  /\ fresh < MaxFresh
  /\ fresh' = fresh + 1
  /\ Operate(sks_slot, sks_command, sks_status,
             [sks_databuf EXCEPT ![h] = <<"data", fresh', h>>], valid)
  /\ UNCHANGED hash_state

WriteAtr(s, v) ==
  /\ ~ fault
  /\ Operate(sks_slot, sks_command, sks_status, sks_databuf,
             [valid EXCEPT ![s] = v])
  /\ UNCHANGED <<hash_state, fresh>>

(* A register of the unit that is only logged, a write dropped after its   *)
(* checks: sks_do_operation, no more.                                      *)
WriteOther ==
  /\ ~ fault
  /\ Operate(sks_slot, sks_command, sks_status, sks_databuf, valid)
  /\ UNCHANGED <<hash_state, fresh>>

(* Meanwhile the hash unit compresses a block, or finishes: hash_state is  *)
(* an intermediate value or a digest, which hash_get_result does not tell   *)
(* apart.                                                                  *)
HashRuns ==
  /\ ~ fault
  /\ fresh < MaxFresh
  /\ fresh' = fresh + 1
  /\ hash_state' = [h \in 1 .. 2 |-> <<"hash", fresh', h>>]
  /\ UNCHANGED <<sks_slot, sks_command, sks_status, valid, sks_databuf,
                 sks_keystore, hash_key, fault, held, loaded>>

Next ==
  \/ \E s \in SlotWrites : WriteSlot(s)
  \/ \E c \in CmdWrites : WriteCommand(c)
  \/ \E busy, errr \in BOOLEAN : WriteStatus([busy |-> busy, errr |-> errr])
  \/ \E h \in 1 .. 2 : WriteData(h)
  \/ \E s \in AtrWrites, v \in BOOLEAN : WriteAtr(s, v)
  \/ WriteOther
  \/ HashRuns

Spec == Init /\ [][Next]_vars

-----------------------------------------------------------------------------
(* Properties. *)

Halves == {ZeroHalf} \cup {"data", "hash"} \X (1 .. MaxFresh) \X (1 .. 2)

(* Between two accesses no command is pending and the unit is not busy:    *)
(* every path of sks_do_operation, those through err too, ends the command *)
(* it took.  The rest is the ranges of the variables.                      *)
TypeOK ==
  /\ sks_slot \in SlotWrites \cup {0}
  /\ sks_command \in Commands /\ ~ sks_command.go
  /\ sks_status \in [busy : {FALSE}, errr : BOOLEAN]
  /\ valid \in [Slots -> BOOLEAN]
  /\ sks_databuf \in [1 .. 2 -> Halves]
  /\ sks_keystore \in [0 .. 3 * Half - 1 -> Halves]
  /\ hash_state \in [1 .. 2 -> Halves]
  /\ hash_key \in [1 .. 2 -> Halves]
  /\ fault \in BOOLEAN
  /\ fresh \in 0 .. MaxFresh

(* Every slot holds the key it was last given, whatever has been put into  *)
(* the others since: the short and the long slots do not overlap in        *)
(* sks_keystore, and the last one ends with it.                            *)
StoreHolds == \A s \in Slots : KeyOf(sks_keystore, s) = held[s]

(* A key given through DATA is in one slot at most: the buffer is cleared  *)
(* when the key leaves it, so that a later command cannot store it again.  *)
KeyDataUsedOnce ==
  \A g, h \in DOMAIN sks_keystore :
    sks_keystore[g][1] = "data" /\ sks_keystore[g] = sks_keystore[h] => g = h

(* The hash unit's key begins with the key of the slot it was loaded from, *)
(* whole, as that slot was then.  The load changes nothing else of it:     *)
(* behind a short key stays what was there, which is the tail of the key   *)
(* of another slot if a longer one was loaded before (hash_load_key).      *)
HashKeyIsLoaded ==
  [][ loaded' # loaded =>
        /\ SubSeq(hash_key', 1, Len(loaded')) = loaded'
        /\ \A i \in Len(loaded') + 1 .. 2 : hash_key'[i] = hash_key[i] ]_vars

(* A command that is refused gives no slot a key, marks none as valid,     *)
(* does not load the hash unit and leaves DATA for another attempt.        *)
RefusedChangesNothing ==
  [][ ~ sks_status.errr /\ sks_status'.errr =>
        UNCHANGED <<sks_keystore, valid, sks_databuf, hash_key>> ]_vars
=============================================================================
