------------------------------- MODULE HashSpec ------------------------------
(***************************************************************************)
(* What the hash unit promises to firmware that follows the register       *)
(* protocol of the comment at the head of hash.c: choose a mode, start,    *)
(* write data, flush, read the digest.  A message may be put aside at a    *)
(* block boundary (its HASH and COUNT registers saved) and taken up again. *)
(* Nothing is promised while phase is "none": firmware left the protocol.  *)
(***************************************************************************)
EXTENDS HashTerms

CONSTANT Chunks   (* the byte sequences one data transfer may carry        *)

VARIABLES
  phase,   (* "none", "mode", "open", "flush" or "done"                    *)
  hmac,    (* the mode chosen                                              *)
  key,     (* the key the open message is authenticated with               *)
  msg,     (* the cells fed to the open message so far                     *)
  digest,  (* the digest of the finished message, or << >>                 *)
  saved    (* the message put aside: {} or one context                     *)

vars == <<phase, hmac, key, msg, digest, saved>>

(* The open message, when it stands at a block boundary. *)
Context ==
  IF phase = "open" /\ Len(msg) % BlockLen = 0
    THEN {[hmac |-> hmac, key |-> key, msg |-> msg]}
    ELSE {}

Init ==
  /\ phase = "none"
  /\ hmac = FALSE
  /\ key \in Keys
  /\ msg = << >>
  /\ digest = << >>
  /\ saved = {}

(* A mode is written: the message that was open, if any, is given up. *)
Choose(h) ==
  /\ phase # "flush"
  /\ phase' = "mode"
  /\ hmac' = h
  /\ msg' = << >>
  /\ digest' = << >>
  /\ UNCHANGED <<key, saved>>

Start(k) ==
  /\ phase = "mode"
  /\ phase' = "open"
  /\ key' = k
  /\ msg' = << >>
  /\ UNCHANGED <<hmac, digest, saved>>

Feed(d) ==
  /\ phase = "open"
  /\ msg' = msg \o DataCells(d)
  /\ UNCHANGED <<phase, hmac, key, digest, saved>>

Flush ==
  /\ phase = "open"
  /\ phase' = "flush"
  /\ UNCHANGED <<hmac, key, msg, digest, saved>>

Finish ==
  /\ phase = "flush"
  /\ phase' = "done"
  /\ digest' = Digest(hmac, key, msg)
  /\ UNCHANGED <<hmac, key, msg, saved>>

(* The open message is put aside, at a block boundary only, ... *)
Suspend ==
  /\ Context # {}
  /\ saved' = Context
  /\ UNCHANGED <<phase, hmac, key, msg, digest>>

(* ... what was put aside is forgotten, ... *)
Forget ==
  /\ saved' = {}
  /\ UNCHANGED <<phase, hmac, key, msg, digest>>

(* ... or it becomes the open message again, under the mode it had. *)
Resume ==
  /\ phase = "mode"
  /\ \E c \in saved :
       /\ c.hmac = hmac
       /\ key' = c.key
       /\ msg' = c.msg
  /\ phase' = "open"
  /\ UNCHANGED <<hmac, digest, saved>>

(* Firmware left the protocol: nothing is promised until it chooses again. *)
Abandon ==
  /\ phase # "flush"
  /\ phase' = "none"
  /\ hmac' \in BOOLEAN
  /\ key' \in Keys
  /\ msg' \in {msg, << >>}
  /\ digest' = << >>
  /\ UNCHANGED saved

Next ==
  \/ \E h \in BOOLEAN : Choose(h)
  \/ \E k \in Keys : Start(k)
  \/ \E d \in Chunks : Feed(d)
  \/ Flush
  \/ Finish
  \/ Suspend
  \/ Forget
  \/ Resume
  \/ Abandon

Spec == Init /\ [][Next]_vars
=============================================================================
