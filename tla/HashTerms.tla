------------------------------ MODULE HashTerms ------------------------------
(***************************************************************************)
(* The data of the OCS hash unit, as free terms.  A cell stands for one    *)
(* byte of the 64-byte block buffer or for one word of the 32-byte digest. *)
(* The compression function is the free one: a chaining value is the       *)
(* sequence of the cells absorbed since the initial value, so two digests  *)
(* are equal here only when every compression function makes them equal.   *)
(***************************************************************************)
EXTENDS Integers, Sequences

CONSTANTS
  BlockLen,   (* cells in a block: sizeof hash_buffer, 64 in the code      *)
  LenLen,     (* cells of the length field: 8 in the code                  *)
  DigestLen,  (* words in a digest: sizeof hash_state                      *)
  Bytes,      (* the data bytes                                            *)
  Keys        (* the contents of hash_key                                  *)

ASSUME SizesAssumption ==
  /\ BlockLen \in Nat
  /\ LenLen \in Nat \ {0}
  /\ DigestLen \in Nat \ {0}
  /\ LenLen < BlockLen
  /\ DigestLen < BlockLen

-----------------------------------------------------------------------------
(* Cells. *)

DataCells(d) == [i \in 1 .. Len(d) |-> <<"byte", d[i]>>]
One == <<"one", 0>>
Zero == <<"zero", 0>>
Zeros(n) == [i \in 1 .. n |-> Zero]
LenField(n) == [i \in 1 .. LenLen |-> <<"len", n, i>>]
KeyBlock(k, pad) == [i \in 1 .. BlockLen |-> <<pad, k, i>>]

(* The words of the chaining value reached by absorbing the cells t. *)
StateOf(t) == [i \in 1 .. DigestLen |-> <<"state", t, i>>]
IV == StateOf(<< >>)

(* What was absorbed to reach the words w.  Words that do not belong to one *)
(* chaining value are a term of their own, which no message reaches.        *)
Absorbed(w) ==
  IF \A i \in 1 .. DigestLen : w[i] = <<"state", w[1][2], i>>
    THEN w[1][2]
    ELSE << <<"mixed", w>> >>

Compress(w, block) == StateOf(Absorbed(w) \o block)

-----------------------------------------------------------------------------
(* The reference: FIPS 180 padding and the HMAC construction. *)

FillLen(n) == (2 * BlockLen - 1 - LenLen - (n % BlockLen)) % BlockLen
Padded(t) == t \o <<One>> \o Zeros(FillLen(Len(t))) \o LenField(Len(t))
Hash(t) == StateOf(Padded(t))

Prefix(hmac, k) == IF hmac THEN KeyBlock(k, "ipad") ELSE << >>
Digest(hmac, k, t) ==
  IF hmac THEN Hash(KeyBlock(k, "opad") \o Hash(KeyBlock(k, "ipad") \o t))
          ELSE Hash(t)
=============================================================================
