-------------------------------- MODULE HcuInv -------------------------------
(***************************************************************************)
(* The inductive invariant of Hcu: where every cell of the open message is *)
(* at every point of a register access.  It is stated pointwise, so that   *)
(* the runs can evaluate it and the proofs (HcuProofs) can use it.         *)
(***************************************************************************)
EXTENDS Hcu

(* The cells fed to the innermost hash: the key block and the message. *)
Message(h, k, m) == Prefix(h, k) \o m
Fed == Message(hash_mode.hmac, skey, msg)

(* The message hash_round_finish is padding: in its nested call, the outer *)
(* key block and the inner digest.                                         *)
Current ==
  IF round = 0 THEN Fed ELSE KeyBlock(skey, "opad") \o Hash(Fed)

Whole(n) == n - (n % BlockLen)

(* A mode has been written: the initial value is there, but for the words  *)
(* firmware has put back.                                                  *)
ModeInv ==
  phase = "mode" =>
    /\ hash_mode.sha256
    /\ hash_count = 0
    /\ pc = "idle"
    /\ ~ hash_done
    /\ fwBack = 0 => hash_state = IV
    /\ fwContext # {} =>
         \A i \in 1 .. fwBack : hash_state[i] = fwWords[i]

(* A message is open: its whole blocks are in hash_state, the rest of what *)
(* was copied is at the start of hash_buffer, and the rest is in todo.     *)
OpenInv ==
  phase = "open" =>
    /\ hash_mode.sha256
    /\ pc \in {"idle", "data"}
    /\ ~ hash_done
    /\ Len(Fed) = hash_count + Len(todo)
    /\ hash_state = StateOf(SubSeq(Fed, 1, Whole(hash_count)))
    /\ \A i \in 1 .. hash_count % BlockLen :
         hash_buffer[i] = Fed[Whole(hash_count) + i]
    /\ \A i \in 1 .. Len(todo) : <<"byte", todo[i]>> = Fed[hash_count + i]

(* A message is being padded: base cells are in hash_state, the next       *)
(* bufpos in hash_buffer, and both agree with the padded message.          *)
FlushInv ==
  phase = "flush" =>
    /\ hash_mode.sha256
    /\ hash_mode.hmac => hash_key = skey
    /\ round = 1 => hash_mode.hmac
    /\ pc \in {"zero", "tail"}
    /\ ~ hash_done
    /\ pc = "tail" => /\ hash_state = Hash(Current)
                      /\ hash_stateptr = 0
    /\ pc = "zero" =>
         /\ len = Len(Current)
         /\ \E base \in {Whole(len), Whole(len) + BlockLen} :
              /\ len < base + bufpos
              /\ base + bufpos <= len + 1 + FillLen(len)
              /\ hash_state = StateOf(SubSeq(Padded(Current), 1, base))
              /\ \A i \in 1 .. bufpos :
                   hash_buffer[i] = Padded(Current)[base + i]

DoneInv ==
  phase = "done" =>
    /\ pc = "idle"
    /\ hash_state = Digest(hash_mode.hmac, skey, msg)
    /\ \A i \in 1 .. hash_stateptr : fwWords[i] = hash_state[i]

(* What firmware has saved is a message at a block boundary. *)
SavedInv ==
  \A c \in fwContext :
    LET t == Message(c.hmac, c.key, c.msg) IN
    /\ Len(t) % BlockLen = 0
    /\ fwCount = Len(t)
    /\ \A i \in 1 .. fwHave : fwWords[i] = StateOf(t)[i]

IInv ==
  /\ TypeOK
  /\ ModeInv
  /\ OpenInv
  /\ FlushInv
  /\ DoneInv
  /\ SavedInv
=============================================================================
