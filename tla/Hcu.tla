--------------------------------- MODULE Hcu ---------------------------------
(***************************************************************************)
(* The hash unit of the offload and crypto subsystem                       *)
(* (periph/ocs/hash/hash.c), one action per register access and one per    *)
(* turn of the two loops an access may run (hash_dma_write, and            *)
(* hash_round_finish with its nested call).  pc says where in an access    *)
(* the unit is; a new access begins only when pc is "idle".                *)
(*                                                                         *)
(* Byte counts and buffer positions are counted in cells (HashTerms).      *)
(*                                                                         *)
(* phase, msg, skey, stray and fw are history: what firmware has asked of  *)
(* the unit so far and what it has read back.  No guard of the unit reads them *)
(* (fw is firmware's memory, and is where the words it writes come from).  *)
(***************************************************************************)
EXTENDS HashTerms

CONSTANTS
  Chunks,   (* the byte sequences one data transfer may carry              *)
  MaxMsg,   (* bound: length of a message before a further transfer        *)
  MaxStray  (* bound: accesses in a behaviour that leave the protocol      *)

ASSUME ChunksAssumption == Chunks \subseteq Seq(Bytes) \ {<< >>}
ASSUME BoundsAssumption == MaxMsg \in Nat /\ MaxStray \in Nat

VARIABLES
  hash_mode,      (* [hmac, sha256]: the bits of MODE the code looks at    *)
  hash_key, hash_buffer, hash_state,
  hash_count,
  hash_stateptr,  (* in words                                              *)
  hash_done,      (* bit 2 of hash_status1                                 *)
  pc,             (* "idle", "data", "zero" or "tail"                      *)
  todo,           (* hash_dma_write: the bytes not yet copied              *)
  round,          (* hash_round_finish: its argument r                     *)
  bufpos, len,    (* hash_round_finish: curBufferPos and lenInBits         *)
  phase, msg, skey, stray,
  fwWords, fwHave, fwCount, fwContext, fwBack

core == <<hash_mode, hash_key, hash_buffer, hash_state, hash_count,
          hash_stateptr, hash_done>>
loop == <<pc, todo, round, bufpos, len>>
fw == <<fwWords, fwHave, fwCount, fwContext, fwBack>>
hist == <<phase, msg, skey, stray, fw>>
vars == <<core, loop, hist>>

-----------------------------------------------------------------------------

HashMode == [hmac : BOOLEAN, sha256 : BOOLEAN]

(* Mutant of Put: it begins one position early. *)
PutEarly(buf, at, cells) ==
  [i \in 1 .. BlockLen |->
     IF i \in at .. at + Len(cells) - 1 THEN cells[i - at + 1] ELSE buf[i]]

Put(buf, at, cells) ==
  [i \in 1 .. BlockLen |->
     IF i \in at + 1 .. at + Len(cells) THEN cells[i - at] ELSE buf[i]]

(* hash_round_process on a buffer that holds buf: only SHA256 is there. *)
Process(st, buf) == IF hash_mode.sha256 THEN Compress(st, buf) ELSE st

(* Mutant of RoundInitState: the state of the previous hash is kept. *)
RoundKeepState(m) == hash_state

RoundInitState(m) == IF m.sha256 THEN IV ELSE hash_state

(* Mutants of Take: all that is left, and one cell too few. *)
TakeAll(left, bp) == left
TakeShort(left, bp) == IF left + bp > BlockLen THEN BlockLen - 1 - bp ELSE left

(* The cells a turn of hash_dma_write copies, at position bp of the block. *)
Take(left, bp) == IF left + bp > BlockLen THEN BlockLen - bp ELSE left

(* The fill position, back at the start of the buffer when it is full. *)
Wrapped(pos) == pos % BlockLen

(* What the protocol says of the message after an access. *)
Enter(p) ==
  /\ phase' = p
  /\ stray' = IF p = "none" THEN stray + 1 ELSE stray
  /\ stray' <= MaxStray

(* The open message, when firmware may put it aside now. *)
Context ==
  IF phase = "open" /\ Len(msg) % BlockLen = 0
    THEN {[hmac |-> hash_mode.hmac, key |-> skey, msg |-> msg]}
    ELSE {}

Init ==
  /\ hash_mode = [hmac |-> FALSE, sha256 |-> FALSE]
  /\ hash_key \in Keys
  /\ hash_buffer = Zeros(BlockLen)
  /\ hash_state = Zeros(DigestLen)
  /\ hash_count = 0
  /\ hash_stateptr = 0
  /\ hash_done = FALSE
  /\ pc = "idle" /\ todo = << >> /\ round = 0 /\ bufpos = 0 /\ len = 0
  /\ phase = "none" /\ msg = << >> /\ skey = hash_key /\ stray = 0
  /\ fwWords = Zeros(DigestLen) /\ fwHave = 0 /\ fwCount = 0
  /\ fwContext = {} /\ fwBack = 0

-----------------------------------------------------------------------------
(* Register accesses. *)

(* Mutant of WriteMode: hash_round_init is not called. *)
WriteModeAlone(m) ==
  /\ pc = "idle"
  /\ hash_mode' = m
  /\ hash_stateptr' = 0
  /\ Enter(IF m.sha256 THEN "mode" ELSE "none")
  /\ msg' = << >>
  /\ fwBack' = 0
  /\ UNCHANGED <<hash_key, hash_buffer, hash_state, hash_count, hash_done,
                 loop, skey, fwWords, fwHave, fwCount, fwContext>>

(* MODE: hash_stateptr is reset and hash_round_init runs. *)
WriteMode(m) ==
  /\ pc = "idle"
  /\ hash_mode' = m
  /\ hash_stateptr' = 0
  /\ hash_count' = 0
  /\ hash_done' = FALSE
  /\ hash_state' = RoundInitState(m)
  /\ Enter(IF m.sha256 THEN "mode" ELSE "none")
  /\ msg' = << >>
  /\ fwBack' = 0
  /\ UNCHANGED <<hash_key, hash_buffer, loop, skey,
                 fwWords, fwHave, fwCount, fwContext>>

(* CMD = HASH_CMD_START_DATA. *)
Start ==
  /\ pc = "idle"
  /\ IF hash_mode.hmac
       THEN LET block == KeyBlock(hash_key, "ipad") IN
            /\ hash_buffer' = block
            /\ hash_count' = BlockLen
            /\ hash_stateptr' = 0
            /\ hash_state' = Process(hash_state, block)
       ELSE /\ hash_count' = hash_count - (hash_count % BlockLen)
            /\ UNCHANGED <<hash_buffer, hash_stateptr, hash_state>>
  /\ Enter(IF phase = "mode" /\ fwBack = 0 THEN "open" ELSE "none")
  /\ msg' = << >>
  /\ skey' = hash_key
  /\ UNCHANGED <<hash_mode, hash_key, hash_done, loop, fw>>

(* DATA, or a turn of the DMA engine into the unit: hash_dma_write begins. *)
Data(d) ==
  /\ pc = "idle"
  /\ phase = "open" => Len(msg) <= MaxMsg
  /\ pc' = "data"
  /\ todo' = d
  /\ Enter(IF phase = "open" THEN "open" ELSE "none")
  /\ msg' = IF phase = "open" THEN msg \o DataCells(d) ELSE msg
  /\ UNCHANGED <<core, round, bufpos, len, skey, fw>>

(* One turn of its loop: what fits in the block is copied, and a full *)
(* block is processed.                                                *)
Copy ==
  LET bp == hash_count % BlockLen
      rc == Take(Len(todo), bp)
      buf == Put(hash_buffer, bp, DataCells(SubSeq(todo, 1, rc)))
      full == (hash_count + rc) % BlockLen = 0
  IN
  /\ pc = "data"
  /\ hash_buffer' = buf
  /\ hash_count' = hash_count + rc
  /\ hash_state' = IF full THEN Process(hash_state, buf) ELSE hash_state
  /\ hash_stateptr' = IF full THEN 0 ELSE hash_stateptr
  /\ todo' = SubSeq(todo, rc + 1, Len(todo))
  /\ pc' = IF rc = Len(todo) THEN "idle" ELSE "data"
  /\ UNCHANGED <<hash_mode, hash_key, hash_done, round, bufpos, len, hist>>

(* hash_round_finish up to its loop, on a buffer buf and a count n. *)
EnterFinish(r, buf, n) ==
  /\ round' = r
  /\ len' = n
  /\ IF hash_mode.sha256
       THEN /\ pc' = "zero"
            /\ hash_buffer' = Put(buf, n % BlockLen, <<One>>)
            /\ bufpos' = (n % BlockLen) + 1
       ELSE /\ pc' = "tail"
            /\ hash_buffer' = buf
            /\ UNCHANGED bufpos

(* CMD = HASH_CMD_FLUSH_DATA.  The key the message was started with has to *)
(* be in place: hash_round_finish reads hash_key again for the outer hash. *)
Flush ==
  /\ pc = "idle"
  /\ EnterFinish(0, hash_buffer, hash_count)
  /\ Enter(IF phase = "open" /\ (hash_mode.hmac => hash_key = skey)
             THEN "flush" ELSE "none")
  /\ UNCHANGED <<hash_mode, hash_key, hash_state, hash_count, hash_stateptr,
                 hash_done, todo, msg, skey, fw>>

(* One turn of the loop that fills the block with zeros, ... *)
FillZero ==
  LET wrap == Wrapped(bufpos) = 0 IN
  /\ pc = "zero"
  /\ bufpos # BlockLen - LenLen
  /\ hash_state' = IF wrap THEN Process(hash_state, hash_buffer) ELSE hash_state
  /\ hash_stateptr' = IF wrap THEN 0 ELSE hash_stateptr
  /\ hash_buffer' = Put(hash_buffer, Wrapped(bufpos), <<Zero>>)
  /\ bufpos' = Wrapped(bufpos) + 1
  /\ UNCHANGED <<hash_mode, hash_key, hash_count, hash_done,
                 pc, todo, round, len, hist>>

(* ... and what follows it: the length field and the last block. *)
FillLength ==
  LET buf == Put(hash_buffer, bufpos, LenField(len)) IN
  /\ pc = "zero"
  /\ bufpos = BlockLen - LenLen
  /\ hash_buffer' = buf
  /\ hash_state' = Process(hash_state, buf)
  /\ hash_stateptr' = 0
  /\ bufpos' = BlockLen
  /\ pc' = "tail"
  /\ UNCHANGED <<hash_mode, hash_key, hash_count, hash_done,
                 todo, round, len, hist>>

(* The inner hash is done: hash_round_init, the outer key block, and the    *)
(* inner digest as the data of a nested hash_round_finish( h, 1 ).          *)
OuterHash ==
  LET block == KeyBlock(hash_key, "opad") IN
  /\ pc = "tail"
  /\ hash_mode.hmac /\ round = 0
  /\ hash_state' = Process(RoundInitState(hash_mode), block)
  /\ hash_stateptr' = 0
  /\ hash_count' = BlockLen + DigestLen
  /\ hash_done' = FALSE
  /\ EnterFinish(1, Put(block, 0, hash_state), BlockLen + DigestLen)
  /\ UNCHANGED <<hash_mode, hash_key, todo, hist>>

(* hash_round_finish returns; a nested call returns to one that sets the    *)
(* same bit and returns too.                                                *)
Finish ==
  /\ pc = "tail"
  /\ ~ (hash_mode.hmac /\ round = 0)
  /\ hash_done' = TRUE
  /\ pc' = "idle"
  /\ phase' = IF phase = "flush" THEN "done" ELSE phase
  /\ UNCHANGED <<hash_mode, hash_key, hash_buffer, hash_state, hash_count,
                 hash_stateptr, todo, round, bufpos, len, msg, skey, stray, fw>>

(* A read of HASH: the next word, until the words are used up.  Firmware    *)
(* keeps what it reads in fw, with COUNT, which it reads along.             *)
ReadHash ==
  /\ pc = "idle"
  /\ hash_stateptr < DigestLen
  /\ hash_stateptr' = hash_stateptr + 1
  /\ fwWords' = [i \in 1 .. DigestLen |->
                   CASE i <= hash_stateptr -> fwWords[i]
                     [] i = hash_stateptr + 1 -> hash_state[i]
                     [] OTHER -> Zero]
  /\ fwHave' = hash_stateptr + 1
  /\ IF hash_stateptr = 0
       THEN fwCount' = hash_count /\ fwContext' = Context
       ELSE /\ UNCHANGED fwCount
            /\ fwContext' = IF fwHave = hash_stateptr /\ fwContext = Context
                              THEN Context ELSE {}
  /\ UNCHANGED <<hash_mode, hash_key, hash_buffer, hash_state, hash_count,
                 hash_done, loop, phase, msg, skey, stray, fwBack>>

(* A write of HASH with the word of firmware's copy that belongs there.     *)
WriteHash ==
  LET restoring == phase = "mode" /\ hash_stateptr = fwBack IN
  /\ pc = "idle"
  /\ hash_stateptr < DigestLen
  /\ hash_stateptr < fwHave
  /\ hash_state' = [hash_state EXCEPT ![hash_stateptr + 1] =
                                        fwWords[hash_stateptr + 1]]
  /\ hash_stateptr' = hash_stateptr + 1
  /\ Enter(IF restoring THEN "mode" ELSE "none")
  /\ fwBack' = IF restoring THEN fwBack + 1 ELSE fwBack
  /\ UNCHANGED <<hash_mode, hash_key, hash_buffer, hash_count, hash_done,
                 loop, msg, skey, fwWords, fwHave, fwCount, fwContext>>

(* COUNTL and COUNTH with the count of firmware's copy.  When all its words *)
(* are back, the message they were saved from is open again.                *)
WriteCount ==
  /\ pc = "idle"
  /\ hash_count' = fwCount
  /\ LET back == {c \in fwContext :
                    /\ phase = "mode"
                    /\ fwBack = DigestLen /\ fwHave = DigestLen
                    /\ c.hmac = hash_mode.hmac} IN
     IF back = {}
       THEN /\ Enter("none")
            /\ UNCHANGED <<msg, skey>>
       ELSE /\ Enter("open")
            /\ \E c \in back : msg' = c.msg /\ skey' = c.key
  /\ UNCHANGED <<hash_mode, hash_key, hash_buffer, hash_state, hash_stateptr,
                 hash_done, loop, fw>>

(* STS1: a one clears the bit. *)
ClearDone ==
  /\ pc = "idle"
  /\ hash_done' = FALSE
  /\ UNCHANGED <<hash_mode, hash_key, hash_buffer, hash_state, hash_count,
                 hash_stateptr, loop, hist>>

(* hash_load_key, called by the secure key store at any time between two    *)
(* accesses of the unit.                                                    *)
LoadKey(k) ==
  /\ pc = "idle"
  /\ hash_key' = k
  /\ UNCHANGED <<hash_mode, hash_buffer, hash_state, hash_count,
                 hash_stateptr, hash_done, loop, hist>>

Access ==
  \/ \E m \in HashMode : WriteMode(m)
  \/ Start
  \/ \E d \in Chunks : Data(d)
  \/ Flush
  \/ ReadHash
  \/ WriteHash
  \/ WriteCount
  \/ ClearDone
  \/ \E k \in Keys : LoadKey(k)

Turn == Copy \/ FillZero \/ FillLength \/ OuterHash \/ Finish

Next == Access \/ Turn

Spec == Init /\ [][Next]_vars

(* The emulated core waits for every access to return, and the loops run   *)
(* without giving way.                                                     *)
FairSpec == Spec /\ WF_vars(Turn)

-----------------------------------------------------------------------------
(* Properties. *)

Phases == {"none", "mode", "open", "flush", "done"}

ContextSet ==
  [hmac : BOOLEAN, key : Keys, msg : Seq({<<"byte", b>> : b \in Bytes})]

(* Every register and local variable stays in the range its C type and its *)
(* use give it: hash_buffer and hash_state keep their sizes, the positions *)
(* of the copy and fill loops stay inside the 64-byte buffer, and the word *)
(* pointer inside the digest.                                              *)
RegsOK ==
  /\ hash_mode \in HashMode
  /\ hash_key \in Keys
  /\ hash_count \in Nat
  /\ hash_stateptr \in 0 .. DigestLen
  /\ hash_done \in BOOLEAN
  /\ hash_buffer = [i \in 1 .. BlockLen |-> hash_buffer[i]]
  /\ hash_state = [i \in 1 .. DigestLen |-> hash_state[i]]

LoopOK ==
  /\ pc \in {"idle", "data", "zero", "tail"}
  /\ todo \in Seq(Bytes)
  /\ round \in {0, 1}
  /\ bufpos \in 0 .. BlockLen
  /\ len \in Nat
  /\ pc = "zero" => bufpos # 0
  /\ pc = "data" <=> todo # << >>

HistOK ==
  /\ phase \in Phases
  /\ msg \in Seq({<<"byte", b>> : b \in Bytes})
  /\ skey \in Keys
  /\ stray \in 0 .. MaxStray
  /\ fwWords = [i \in 1 .. DigestLen |-> fwWords[i]]
  /\ fwHave \in 0 .. DigestLen
  /\ fwCount \in Nat
  /\ fwContext \in SUBSET ContextSet
  /\ fwBack \in 0 .. DigestLen

TypeOK == RegsOK /\ LoopOK /\ HistOK

(* The unit loses, repeats and reorders nothing, however the message was   *)
(* cut into transfers and whether or not it was put aside and taken up     *)
(* again: what was compressed, then what waits in the buffer, then what is *)
(* still to be copied, is the HMAC key block and the message so far        *)
(* (hash_dma_write, hash_hmac_round1_init, the COUNT and HASH registers).  *)
NothingLost ==
  phase = "open" =>
    Absorbed(hash_state)
      \o SubSeq(hash_buffer, 1, hash_count % BlockLen)
      \o DataCells(todo)
    = Prefix(hash_mode.hmac, skey) \o msg

(* When firmware followed the protocol, the words it finds in HASH after a *)
(* flush are the FIPS 180 digest of what it sent, or its HMAC              *)
(* (hash_round_finish).                                                    *)
DigestCorrect ==
  phase = "done" => hash_state = Digest(hash_mode.hmac, skey, msg)

(* And they can be read, in order and each once, starting at the first     *)
(* (hash_read, HASH_REG_HASH).                                             *)
DigestReadable ==
  phase = "done" =>
    \A i \in 1 .. hash_stateptr :
      fwWords[i] = Digest(hash_mode.hmac, skey, msg)[i]

(* hash.c:34-35 "Status 1, Bit 2: Hashing done": firmware that polls the   *)
(* bit during a message sees it only when the digest is there.             *)
DoneIsDone ==
  phase \in {"open", "flush"} => ~ hash_done

(* Every access returns: the copy and the fill loops end for every         *)
(* position they start from (the fill loop's condition is an inequality).  *)
AccessReturns == pc # "idle" ~> pc = "idle"

(* The unit implements the protocol of HashSpec. *)
Abstract ==
  INSTANCE HashSpec WITH
    hmac <- hash_mode.hmac,
    key <- skey,
    digest <- IF phase = "done" THEN hash_state ELSE << >>,
    saved <- IF fwHave = DigestLen THEN fwContext ELSE {}
ImplementsHashSpec == Abstract!Spec
=============================================================================
