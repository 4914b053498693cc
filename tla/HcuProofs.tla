------------------------------- MODULE HcuProofs ------------------------------
(***************************************************************************)
(* IInv is inductive, so the unit loses nothing and its digest is right    *)
(* for every block, length and digest size, every message and every way to *)
(* cut it into transfers: the arithmetic of block positions, the types,    *)
(* then one lemma for each part of IInv that an action can disturb. From   *)
(* IInv follow the safety properties and that the unit implements HashSpec.*)
(***************************************************************************)
EXTENDS HcuInv, SequenceTheorems, TLAPS

-----------------------------------------------------------------------------
(* Arithmetic of block positions. *)

LEMMA ModRange ==
  ASSUME NEW n \in Nat, NEW m \in Nat \ {0}
  PROVE  n % m \in 0 .. m - 1 /\ n % m <= n
  OBVIOUS

LEMMA ModUnique ==
  ASSUME NEW q \in Nat, NEW m \in Nat \ {0}, NEW r \in 0 .. m - 1
  PROVE  (q * m + r) % m = r
  OBVIOUS

LEMMA BlockPositive == BlockLen \in Nat \ {0}
  BY SizesAssumption

(* Whole(n) is the multiple of the block length that n has reached. *)
LEMMA WholeFacts ==
  ASSUME NEW n \in Nat
  PROVE  /\ Whole(n) \in Nat
         /\ n = Whole(n) + (n % BlockLen)
         /\ n % BlockLen \in 0 .. BlockLen - 1
         /\ Whole(n) % BlockLen = 0
         /\ \E q \in Nat : Whole(n) = q * BlockLen
<1>1. n \div BlockLen \in Nat
  BY BlockPositive
<1>2. n = (n \div BlockLen) * BlockLen + (n % BlockLen)
  BY BlockPositive
<1>3. n % BlockLen \in 0 .. BlockLen - 1
  BY BlockPositive, ModRange
<1>4. Whole(n) = (n \div BlockLen) * BlockLen
  BY <1>1, <1>2, <1>3, BlockPositive DEF Whole
<1>5. ((n \div BlockLen) * BlockLen + 0) % BlockLen = 0
  BY <1>1, ModUnique, BlockPositive
<1>6. (n \div BlockLen) * BlockLen \in Nat
  BY <1>1, BlockPositive
<1>7. n = Whole(n) + (n % BlockLen)
  BY <1>3 DEF Whole
<1>8. Whole(n) % BlockLen = 0
  BY <1>4, <1>5, <1>6
<1>9. \E q \in Nat : Whole(n) = q * BlockLen
  BY <1>1, <1>4
<1> QED BY <1>3, <1>4, <1>6, <1>7, <1>8, <1>9

(* Adding less than a block to a multiple of the block length. *)
LEMMA PlusWithin ==
  ASSUME NEW a \in Nat, a % BlockLen = 0, NEW r \in 0 .. BlockLen - 1
  PROVE  (a + r) % BlockLen = r /\ Whole(a + r) = a
<1>1. PICK q \in Nat : a = q * BlockLen
  BY WholeFacts DEF Whole
<1>2. (a + r) % BlockLen = r
  BY <1>1, ModUnique, BlockPositive
<1> QED BY <1>2, BlockPositive DEF Whole

(* The next multiple. *)
LEMMA PlusBlock ==
  ASSUME NEW a \in Nat, a % BlockLen = 0
  PROVE  (a + BlockLen) % BlockLen = 0
<1>1. PICK q \in Nat : a = q * BlockLen
  BY WholeFacts DEF Whole
<1>2. a + BlockLen = (q + 1) * BlockLen + 0
  BY <1>1, BlockPositive
<1>3. ((q + 1) * BlockLen + 0) % BlockLen = 0
  BY ModUnique, BlockPositive
<1> QED BY <1>2, <1>3

(* The zeros that are needed: to the length field of this block when there *)
(* is room for it, else to that of the next.                               *)
LEMMA FillLenCases ==
  ASSUME NEW n \in Nat
  PROVE  FillLen(n) = IF (n % BlockLen) + 1 + LenLen <= BlockLen
                        THEN BlockLen - 1 - LenLen - (n % BlockLen)
                        ELSE 2 * BlockLen - 1 - LenLen - (n % BlockLen)
<1> DEFINE r == n % BlockLen
<1>1. r \in 0 .. BlockLen - 1
  BY WholeFacts
<1>2. CASE r + 1 + LenLen <= BlockLen
  <2>1. BlockLen - 1 - LenLen - r \in 0 .. BlockLen - 1
    BY <1>1, <1>2, SizesAssumption
  <2>2. (1 * BlockLen + (BlockLen - 1 - LenLen - r)) % BlockLen
          = BlockLen - 1 - LenLen - r
    BY <2>1, ModUnique, BlockPositive
  <2>3. 2 * BlockLen - 1 - LenLen - r = 1 * BlockLen + (BlockLen - 1 - LenLen - r)
    BY <1>1, SizesAssumption
  <2> QED BY <1>2, <2>2, <2>3 DEF FillLen
<1>3. CASE ~ (r + 1 + LenLen <= BlockLen)
  <2>1. 2 * BlockLen - 1 - LenLen - r \in 0 .. BlockLen - 1
    BY <1>1, <1>3, SizesAssumption
  <2>2. (0 * BlockLen + (2 * BlockLen - 1 - LenLen - r)) % BlockLen
          = 2 * BlockLen - 1 - LenLen - r
    BY <2>1, ModUnique, BlockPositive
  <2>3. 2 * BlockLen - 1 - LenLen - r = 0 * BlockLen + (2 * BlockLen - 1 - LenLen - r)
    BY <1>1, SizesAssumption
  <2> QED BY <1>3, <2>2, <2>3 DEF FillLen
<1> QED BY <1>2, <1>3

LEMMA FillLenNat ==
  ASSUME NEW n \in Nat
  PROVE  FillLen(n) \in Nat
<1>1. n % BlockLen \in 0 .. BlockLen - 1
  BY WholeFacts
<1>2. 2 * BlockLen - 1 - LenLen - (n % BlockLen) \in Nat
  BY <1>1, SizesAssumption
<1> QED BY <1>2, ModRange, BlockPositive DEF FillLen

(* The fill loop stops exactly where the length field begins. *)
LEMMA FillStops ==
  ASSUME NEW n \in Nat, NEW base \in {Whole(n), Whole(n) + BlockLen},
         NEW p \in 1 .. BlockLen,
         n < base + p, base + p <= n + 1 + FillLen(n)
  PROVE  /\ p = BlockLen - LenLen <=> base + p = n + 1 + FillLen(n)
         /\ p = BlockLen /\ p # BlockLen - LenLen => base = Whole(n)
         /\ base \in Nat /\ base % BlockLen = 0
         /\ FillLen(n) \in Nat
<1>1. /\ Whole(n) \in Nat /\ n = Whole(n) + (n % BlockLen)
      /\ n % BlockLen \in 0 .. BlockLen - 1 /\ Whole(n) % BlockLen = 0
  BY WholeFacts
<1>2. base % BlockLen = 0
  BY <1>1, PlusBlock
<1>3. CASE (n % BlockLen) + 1 + LenLen <= BlockLen
  <2>1. FillLen(n) = BlockLen - 1 - LenLen - (n % BlockLen)
    BY <1>3, FillLenCases
  <2> QED BY <1>1, <1>2, <1>3, <2>1, SizesAssumption
<1>4. CASE ~ ((n % BlockLen) + 1 + LenLen <= BlockLen)
  <2>1. FillLen(n) = 2 * BlockLen - 1 - LenLen - (n % BlockLen)
    BY <1>4, FillLenCases
  <2> QED BY <1>1, <1>2, <1>4, <2>1, SizesAssumption
<1> QED BY <1>3, <1>4
-----------------------------------------------------------------------------
(* Cells and sequences of cells. *)

PadCells ==
  {One, Zero} \cup {<<"len", n, i>> : n \in Nat, i \in 1 .. LenLen}

LEMMA ZerosFacts ==
  ASSUME NEW n \in Nat
  PROVE  Zeros(n) \in Seq({Zero}) /\ Len(Zeros(n)) = n
  BY DEF Zeros

LEMMA LenFieldFacts ==
  ASSUME NEW n \in Nat
  PROVE  /\ LenField(n) \in Seq({<<"len", n, i>> : i \in 1 .. LenLen})
         /\ Len(LenField(n)) = LenLen
  BY SizesAssumption DEF LenField

(* Concatenation, cell by cell. *)
LEMMA ConcatCells ==
  ASSUME NEW S, NEW s \in Seq(S), NEW t \in Seq(S)
  PROVE  /\ s \o t \in Seq(S)
         /\ Len(s \o t) = Len(s) + Len(t)
         /\ \A i \in 1 .. Len(s) : (s \o t)[i] = s[i]
         /\ \A i \in 1 .. Len(t) : (s \o t)[Len(s) + i] = t[i]
<1>1. Len(s) \in Nat /\ Len(t) \in Nat
  BY LenProperties
<1>2. /\ s \o t \in Seq(S)
      /\ Len(s \o t) = Len(s) + Len(t)
      /\ \A i \in 1 .. Len(s) + Len(t) : (s \o t)[i] =
           IF i <= Len(s) THEN s[i] ELSE t[i - Len(s)]
  BY ConcatProperties
<1>3. \A i \in 1 .. Len(s) : (s \o t)[i] = s[i]
  BY <1>1, <1>2
<1>4. ASSUME NEW i \in 1 .. Len(t)
      PROVE  (s \o t)[Len(s) + i] = t[i]
  <2>1. Len(s) + i \in 1 .. Len(s) + Len(t) /\ ~ (Len(s) + i <= Len(s))
    BY <1>1
  <2>2. (s \o t)[Len(s) + i] = t[(Len(s) + i) - Len(s)]
    BY <1>2, <2>1
  <2>3. (Len(s) + i) - Len(s) = i
    BY <1>1
  <2> QED BY <2>2, <2>3
<1> QED BY <1>2, <1>3, <1>4

(* What each cell of a padded message is. *)
LEMMA PaddedFacts ==
  ASSUME NEW S, NEW t \in Seq(S), NEW n \in Nat, n = Len(t),
         NEW z \in Nat, z = FillLen(n)
  PROVE  /\ Padded(t) \in Seq(S \cup PadCells)
         /\ Len(Padded(t)) = n + 1 + z + LenLen
         /\ \A i \in 1 .. n : Padded(t)[i] = t[i]
         /\ Padded(t)[n + 1] = One
         /\ \A i \in 1 .. z : Padded(t)[n + 1 + i] = Zero
         /\ \A i \in 1 .. LenLen :
              Padded(t)[n + 1 + z + i] = <<"len", n, i>>
<1> DEFINE C == S \cup PadCells
           u == t \o <<One>>
           v == u \o Zeros(z)
<1>1. t \in Seq(C) /\ LenLen \in Nat \ {0}
  BY SeqMonotonic, LenProperties, SizesAssumption
<1>2. <<One>> \in Seq(C) /\ Len(<<One>>) = 1 /\ <<One>>[1] = One
  BY DEF PadCells
<1>3. /\ Zeros(z) \in Seq(C) /\ Len(Zeros(z)) = z
      /\ \A i \in 1 .. z : Zeros(z)[i] = Zero
  <2>1. Zeros(z) \in Seq({Zero}) /\ Len(Zeros(z)) = z
    BY ZerosFacts
  <2>2. {Zero} \subseteq C
    BY DEF PadCells
  <2>3. Zeros(z) \in Seq(C)
    BY <2>1, <2>2, SeqMonotonic
  <2> QED BY <2>1, <2>3 DEF Zeros
<1>4. /\ LenField(n) \in Seq(C) /\ Len(LenField(n)) = LenLen
      /\ \A i \in 1 .. LenLen : LenField(n)[i] = <<"len", n, i>>
  <2>1. /\ LenField(n) \in Seq({<<"len", n, i>> : i \in 1 .. LenLen})
        /\ Len(LenField(n)) = LenLen
    BY <1>1, LenFieldFacts
  <2>2. {<<"len", n, i>> : i \in 1 .. LenLen} \subseteq C
    BY <1>1 DEF PadCells
  <2>3. LenField(n) \in Seq(C)
    BY <2>1, <2>2, SeqMonotonic
  <2> QED BY <2>1, <2>3 DEF LenField
<1> HIDE DEF C
<1>5. /\ u \in Seq(C) /\ Len(u) = n + 1
      /\ \A i \in 1 .. n : u[i] = t[i]
      /\ u[n + 1] = One
  <2>1. /\ u \in Seq(C) /\ Len(u) = Len(t) + Len(<<One>>)
        /\ \A i \in 1 .. Len(t) : u[i] = t[i]
        /\ \A i \in 1 .. Len(<<One>>) : u[Len(t) + i] = <<One>>[i]
    BY <1>1, <1>2, ConcatCells
  <2> QED BY <1>2, <2>1
<1> HIDE DEF u
<1>6. /\ v \in Seq(C) /\ Len(v) = n + 1 + z
      /\ \A i \in 1 .. n + 1 : v[i] = u[i]
      /\ \A i \in 1 .. z : v[n + 1 + i] = Zeros(z)[i]
  <2>1. /\ v \in Seq(C) /\ Len(v) = Len(u) + Len(Zeros(z))
        /\ \A i \in 1 .. Len(u) : v[i] = u[i]
        /\ \A i \in 1 .. Len(Zeros(z)) : v[Len(u) + i] = Zeros(z)[i]
    <3>1. u \in Seq(C) /\ Zeros(z) \in Seq(C)
      BY <1>3, <1>5
    <3> QED BY <3>1, ConcatCells
  <2> HIDE DEF v
  <2> QED BY <1>3, <1>5, <2>1
<1>7. Padded(t) = v \o LenField(n)
  BY DEF Padded, u
<1> HIDE DEF v
<1>8. /\ Padded(t) \in Seq(C) /\ Len(Padded(t)) = n + 1 + z + LenLen
      /\ \A i \in 1 .. n + 1 + z : Padded(t)[i] = v[i]
      /\ \A i \in 1 .. LenLen : Padded(t)[n + 1 + z + i] = LenField(n)[i]
  <2>1. /\ Padded(t) \in Seq(C) /\ Len(Padded(t)) = Len(v) + Len(LenField(n))
        /\ \A i \in 1 .. Len(v) : Padded(t)[i] = v[i]
        /\ \A i \in 1 .. Len(LenField(n)) :
             Padded(t)[Len(v) + i] = LenField(n)[i]
    <3>1. v \in Seq(C) /\ LenField(n) \in Seq(C)
      BY <1>4, <1>6
    <3> QED BY <1>7, <3>1, ConcatCells
  <2> QED BY <1>4, <1>6, <2>1
<1>9. /\ \A i \in 1 .. n : Padded(t)[i] = t[i]
      /\ Padded(t)[n + 1] = One
  <2>1. n + 1 \in 1 .. n + 1 /\ n + 1 \in 1 .. n + 1 + z
    BY <1>1
  <2>2. \A i \in 1 .. n : i \in 1 .. n + 1 /\ i \in 1 .. n + 1 + z
    BY <1>1
  <2> QED BY <1>5, <1>6, <1>8, <2>1, <2>2
<1>10. ASSUME NEW i \in 1 .. z
       PROVE  Padded(t)[n + 1 + i] = Zero
  <2>1. n + 1 + i \in 1 .. n + 1 + z
    BY <1>1
  <2> QED BY <1>3, <1>6, <1>8, <2>1
<1>11. \A i \in 1 .. LenLen : Padded(t)[n + 1 + z + i] = <<"len", n, i>>
  BY <1>4, <1>8
<1> QED BY <1>8, <1>9, <1>10, <1>11 DEF C

(* The words of a chaining value tell what was absorbed. *)
LEMMA AbsorbedOfState ==
  ASSUME NEW t
  PROVE  Absorbed(StateOf(t)) = t
<1>1. 1 \in 1 .. DigestLen
  BY SizesAssumption
<1> QED BY <1>1 DEF Absorbed, StateOf

(* A sequence that agrees with the next b cells of p completes its prefix. *)
LEMMA PrefixPlus ==
  ASSUME NEW S, NEW p \in Seq(S), NEW a \in Nat, NEW b \in Nat,
         a + b <= Len(p), NEW q \in Seq(S), Len(q) = b,
         \A i \in 1 .. b : q[i] = p[a + i]
  PROVE  SubSeq(p, 1, a) \o q = SubSeq(p, 1, a + b)
<1> DEFINE r == SubSeq(p, a + 1, a + b)
<1>1. Len(p) \in Nat /\ \A i \in 1 .. Len(p) : p[i] \in S
  BY LenProperties, ElementOfSeq
<1>2. \A i \in a + 1 .. a + b : p[i] \in S
  BY <1>1
<1>3. /\ r \in Seq(S)
      /\ Len(r) = IF a + 1 <= a + b THEN (a + b) - (a + 1) + 1 ELSE 0
      /\ \A i \in 1 .. (a + b) - (a + 1) + 1 : r[i] = p[(a + 1) + i - 1]
  BY <1>2, SubSeqProperties
<1>4. Len(r) = b /\ \A i \in 1 .. b : r[i] = p[a + i]
  <2>1. (a + b) - (a + 1) + 1 = b /\ \A i \in 1 .. b : (a + 1) + i - 1 = a + i
    OBVIOUS
  <2>2. Len(r) = b
    BY <1>3, <2>1
  <2>3. ASSUME NEW i \in 1 .. b PROVE r[i] = p[a + i]
    BY <1>3, <2>1
  <2> QED BY <2>2, <2>3
<1> HIDE DEF r
<1>5. q = r
  BY <1>3, <1>4, SeqEqual
<1>6. 1 \in 1 .. Len(p) + 1 /\ a \in 1 - 1 .. Len(p) /\ a + b \in a .. Len(p)
  BY <1>1
<1>7. SubSeq(p, 1, a) \o r = SubSeq(p, 1, a + b)
  BY <1>6, ConcatAdjacentSubSeq DEF r
<1> QED BY <1>5, <1>7

(* Compressing a buffer that holds the next block of p. *)
LEMMA CompressNext ==
  ASSUME NEW S, NEW p \in Seq(S), NEW a \in Nat, a + BlockLen <= Len(p),
         NEW buf, buf = [i \in 1 .. BlockLen |-> buf[i]],
         \A i \in 1 .. BlockLen : buf[i] = p[a + i]
  PROVE  Compress(StateOf(SubSeq(p, 1, a)), buf)
           = StateOf(SubSeq(p, 1, a + BlockLen))
<1>1. Len(p) \in Nat /\ \A i \in 1 .. Len(p) : p[i] \in S
  BY LenProperties, ElementOfSeq
<1>2. BlockLen \in Nat
  BY BlockPositive
<1>3. \A i \in 1 .. BlockLen : buf[i] \in S
  BY <1>1, <1>2
<1>4. buf \in [1 .. BlockLen -> S]
  BY <1>3
<1>5. buf \in Seq(S) /\ Len(buf) = BlockLen
  BY <1>2, <1>4
<1>6. SubSeq(p, 1, a) \o buf = SubSeq(p, 1, a + BlockLen)
  BY <1>2, <1>5, PrefixPlus
<1> QED BY <1>6, AbsorbedOfState DEF Compress

-----------------------------------------------------------------------------
(* Type correctness. *)

LEMMA StateOfIsFunction ==
  ASSUME NEW t
  PROVE  StateOf(t) = [i \in 1 .. DigestLen |-> StateOf(t)[i]]
  BY DEF StateOf

LEMMA ZerosIsFunction ==
  ASSUME NEW n
  PROVE  Zeros(n) = [i \in 1 .. n |-> Zeros(n)[i]]
  BY DEF Zeros

LEMMA PutIsFunction ==
  ASSUME NEW buf, NEW at, NEW cells
  PROVE  Put(buf, at, cells)
           = [i \in 1 .. BlockLen |-> Put(buf, at, cells)[i]]
  BY DEF Put

LEMMA ProcessIsFunction ==
  ASSUME NEW st, NEW buf, st = [i \in 1 .. DigestLen |-> st[i]]
  PROVE  Process(st, buf) = [i \in 1 .. DigestLen |-> Process(st, buf)[i]]
  BY StateOfIsFunction DEF Process, Compress

LEMMA DataCellsType ==
  ASSUME NEW d \in Seq(Bytes)
  PROVE  /\ DataCells(d) \in Seq({<<"byte", b>> : b \in Bytes})
         /\ Len(DataCells(d)) = Len(d)
         /\ \A i \in 1 .. Len(d) : DataCells(d)[i] = <<"byte", d[i]>>
<1>1. Len(d) \in Nat /\ \A i \in 1 .. Len(d) : d[i] \in Bytes
  BY LenProperties, ElementOfSeq
<1> QED BY <1>1 DEF DataCells

LEMMA InitTypeOK == Init => TypeOK
<1> SUFFICES ASSUME Init PROVE TypeOK
  OBVIOUS
<1> USE SizesAssumption, BoundsAssumption
<1>1. RegsOK
  <2>1. /\ hash_buffer = [i \in 1 .. BlockLen |-> hash_buffer[i]]
        /\ hash_state = [i \in 1 .. DigestLen |-> hash_state[i]]
    BY ZerosIsFunction DEF Init
  <2>2. hash_mode \in HashMode
    BY DEF Init, HashMode
  <2>3. hash_done \in BOOLEAN
    BY DEF Init
  <2>4. hash_key \in Keys /\ hash_count = 0 /\ hash_stateptr = 0
    BY DEF Init
  <2> QED BY <2>1, <2>2, <2>3, <2>4 DEF RegsOK
<1>2. LoopOK
  BY DEF Init, LoopOK
<1>3. HistOK
  BY ZerosIsFunction DEF Init, HistOK, Phases
<1> QED BY <1>1, <1>2, <1>3 DEF TypeOK

LEMMA NextTypeOK == TypeOK /\ [Next]_vars => TypeOK'
<1> SUFFICES ASSUME RegsOK, LoopOK, HistOK, [Next]_vars
             PROVE  RegsOK' /\ LoopOK' /\ HistOK'
  BY DEF TypeOK
<1> USE SizesAssumption, BoundsAssumption
<1>1. ASSUME NEW m \in HashMode, WriteMode(m)
      PROVE  RegsOK' /\ LoopOK' /\ HistOK'
  <2>1. RegsOK'
    <3>1. hash_state' = [i \in 1 .. DigestLen |-> hash_state'[i]]
      <4>1. hash_state' = IV \/ hash_state' = hash_state
        BY <1>1 DEF WriteMode, RoundInitState
      <4>2. IV = [i \in 1 .. DigestLen |-> IV[i]]
        BY StateOfIsFunction DEF IV
      <4>3. hash_state = [i \in 1 .. DigestLen |-> hash_state[i]]
        BY DEF RegsOK
      <4> HIDE DEF IV
      <4> QED BY <4>1, <4>2, <4>3
    <3>2. hash_done' \in BOOLEAN
      BY <1>1 DEF WriteMode
    <3>3. /\ hash_mode' = m /\ hash_count' = 0 /\ hash_stateptr' = 0
          /\ UNCHANGED <<hash_key, hash_buffer>>
      BY <1>1 DEF WriteMode
    <3> QED BY <3>1, <3>2, <3>3 DEF RegsOK
  <2>2. LoopOK'
    BY <1>1 DEF WriteMode, LoopOK, loop
  <2>3. HistOK'
    BY <1>1 DEF WriteMode, HistOK, Enter, Phases
  <2> QED BY <2>1, <2>2, <2>3
<1>2. ASSUME Start
      PROVE  RegsOK' /\ LoopOK' /\ HistOK'
  <2>1. RegsOK'
    <3>1. hash_count' \in Nat
      BY <1>2, WholeFacts DEF Start, RegsOK, Whole
    <3>2. hash_state' = [i \in 1 .. DigestLen |-> hash_state'[i]]
      BY <1>2, ProcessIsFunction DEF Start, RegsOK
    <3>3. hash_buffer' = [i \in 1 .. BlockLen |-> hash_buffer'[i]]
      BY <1>2 DEF Start, RegsOK, KeyBlock
    <3>4. hash_stateptr' \in 0 .. DigestLen
      BY <1>2 DEF Start, RegsOK
    <3> QED BY <1>2, <3>1, <3>2, <3>3, <3>4 DEF Start, RegsOK
  <2>2. LoopOK'
    BY <1>2 DEF Start, LoopOK, loop
  <2>3. HistOK'
    BY <1>2 DEF Start, HistOK, RegsOK, Enter, Phases, fw
  <2> QED BY <2>1, <2>2, <2>3
<1>3. ASSUME NEW d \in Chunks, Data(d)
      PROVE  RegsOK' /\ LoopOK' /\ HistOK'
  <2>1. d \in Seq(Bytes)
    BY ChunksAssumption
  <2>2. RegsOK'
    BY <1>3 DEF Data, RegsOK, core
  <2>3. LoopOK'
    <3>1. d # << >>
      BY ChunksAssumption
    <3> QED BY <1>3, <2>1, <3>1 DEF Data, LoopOK
  <2>4. msg' \in Seq({<<"byte", b>> : b \in Bytes})
    BY <1>3, <2>1, DataCellsType, ConcatProperties DEF Data, HistOK
  <2>5. HistOK'
    BY <1>3, <2>4 DEF Data, HistOK, Enter, Phases, fw
  <2> QED BY <2>2, <2>3, <2>5
<1>4. ASSUME Copy
      PROVE  RegsOK' /\ LoopOK' /\ HistOK'
  <2> DEFINE bp == hash_count % BlockLen
             rc == IF Len(todo) + bp > BlockLen THEN BlockLen - bp ELSE Len(todo)
             buf == Put(hash_buffer, bp, DataCells(SubSeq(todo, 1, rc)))
  <2>1. Len(todo) \in Nat /\ bp \in 0 .. BlockLen - 1
    BY WholeFacts, LenProperties DEF RegsOK, LoopOK
  <2>2. rc \in 0 .. Len(todo)
    BY <2>1
  <2>3. /\ hash_buffer' = buf
        /\ hash_count' = hash_count + rc
        /\ hash_state' = Process(hash_state, buf) \/ hash_state' = hash_state
        /\ hash_stateptr' = 0 \/ hash_stateptr' = hash_stateptr
        /\ todo' = SubSeq(todo, rc + 1, Len(todo))
        /\ pc' \in {"idle", "data"}
    BY <1>4 DEF Copy, Take
  <2>4. UNCHANGED <<hash_mode, hash_key, hash_done, round, bufpos, len, hist>>
    BY <1>4 DEF Copy, Take
  <2> HIDE DEF rc, bp
  <2>5. RegsOK'
    <3>1. hash_state' = [i \in 1 .. DigestLen |-> hash_state'[i]]
      <4>1. hash_state = [i \in 1 .. DigestLen |-> hash_state[i]]
        BY DEF RegsOK
      <4>2. Process(hash_state, buf)
              = [i \in 1 .. DigestLen |-> Process(hash_state, buf)[i]]
        BY <4>1, ProcessIsFunction
      <4> HIDE DEF buf
      <4> QED BY <2>3, <4>1, <4>2
    <3>2. hash_buffer' = [i \in 1 .. BlockLen |-> hash_buffer'[i]]
      BY <2>3, PutIsFunction
    <3>3. hash_count' \in Nat
      BY <2>1, <2>2, <2>3 DEF RegsOK
    <3> HIDE DEF buf
    <3> QED BY <2>3, <2>4, <3>1, <3>2, <3>3 DEF RegsOK
  <2>6. LoopOK'
    <3>1. \A i \in rc + 1 .. Len(todo) : todo[i] \in Bytes
      BY <2>1, <2>2, ElementOfSeq DEF LoopOK
    <3>2. SubSeq(todo, rc + 1, Len(todo)) \in Seq(Bytes)
      BY <2>1, <2>2, <3>1, SubSeqProperties
    <3>3. pc' = IF rc = Len(todo) THEN "idle" ELSE "data"
      BY <1>4 DEF Copy, Take, rc, bp
    <3>4. /\ rc = Len(todo) => SubSeq(todo, rc + 1, Len(todo)) = << >>
          /\ rc # Len(todo) => Len(SubSeq(todo, rc + 1, Len(todo))) # 0
      BY <2>1, <2>2, <3>1, SubSeqProperties, SubSeqEmpty
    <3>5. Len(<< >>) = 0
      OBVIOUS
    <3>6. pc' = "data" <=> todo' # << >>
      BY <2>3, <3>3, <3>4, <3>5
    <3>7. pc' # "zero" /\ UNCHANGED <<round, bufpos, len>>
      BY <2>3, <2>4
    <3> QED BY <2>3, <3>2, <3>6, <3>7 DEF LoopOK
  <2>7. HistOK'
    BY <2>4 DEF HistOK, hist, fw
  <2> QED BY <2>5, <2>6, <2>7
<1>5. ASSUME Flush
      PROVE  RegsOK' /\ LoopOK' /\ HistOK'
  <2>1. hash_count % BlockLen \in 0 .. BlockLen - 1
    BY WholeFacts DEF RegsOK
  <2>2. RegsOK'
    BY <1>5, PutIsFunction DEF Flush, EnterFinish, RegsOK
  <2>3. LoopOK'
    BY <1>5, <2>1 DEF Flush, EnterFinish, LoopOK, RegsOK
  <2>4. HistOK'
    BY <1>5 DEF Flush, HistOK, Enter, Phases, fw
  <2> QED BY <2>2, <2>3, <2>4
<1>6. ASSUME FillZero
      PROVE  RegsOK' /\ LoopOK' /\ HistOK'
  <2>1. bufpos % BlockLen \in 0 .. BlockLen - 1
    <3>1. bufpos \in Nat
      BY DEF LoopOK
    <3> QED BY <3>1, ModRange
  <2>2. RegsOK'
    <3>1. hash_state = [i \in 1 .. DigestLen |-> hash_state[i]]
      BY DEF RegsOK
    <3>2. Process(hash_state, hash_buffer)
            = [i \in 1 .. DigestLen |-> Process(hash_state, hash_buffer)[i]]
      BY <3>1, ProcessIsFunction
    <3>3. hash_state' = [i \in 1 .. DigestLen |-> hash_state'[i]]
      BY <1>6, <3>1, <3>2 DEF FillZero, Wrapped
    <3>4. hash_buffer' = [i \in 1 .. BlockLen |-> hash_buffer'[i]]
      BY <1>6, PutIsFunction DEF FillZero, Wrapped
    <3> QED BY <1>6, <3>3, <3>4 DEF FillZero, Wrapped, RegsOK
  <2>3. LoopOK'
    BY <1>6, <2>1 DEF FillZero, Wrapped, LoopOK
  <2>4. HistOK'
    BY <1>6 DEF FillZero, Wrapped, HistOK, hist, fw
  <2> QED BY <2>2, <2>3, <2>4
<1>7. ASSUME FillLength
      PROVE  RegsOK' /\ LoopOK' /\ HistOK'
  <2>1. RegsOK'
    <3> DEFINE buf == Put(hash_buffer, bufpos, LenField(len))
    <3>1. hash_buffer' = buf /\ hash_state' = Process(hash_state, buf)
      BY <1>7 DEF FillLength
    <3>2. hash_buffer' = [i \in 1 .. BlockLen |-> hash_buffer'[i]]
      BY <3>1, PutIsFunction
    <3> HIDE DEF buf
    <3>3. hash_state = [i \in 1 .. DigestLen |-> hash_state[i]]
      BY DEF RegsOK
    <3>4. Process(hash_state, buf)
            = [i \in 1 .. DigestLen |-> Process(hash_state, buf)[i]]
      BY <3>3, ProcessIsFunction
    <3>5. hash_state' = [i \in 1 .. DigestLen |-> hash_state'[i]]
      BY <3>1, <3>4
    <3> QED BY <1>7, <3>2, <3>5 DEF FillLength, RegsOK
  <2>2. LoopOK'
    BY <1>7 DEF FillLength, LoopOK
  <2>3. HistOK'
    BY <1>7 DEF FillLength, HistOK, hist, fw
  <2> QED BY <2>1, <2>2, <2>3
<1>8. ASSUME OuterHash
      PROVE  RegsOK' /\ LoopOK' /\ HistOK'
  <2>1. RegsOK'
    <3> DEFINE st == RoundInitState(hash_mode)
               block == KeyBlock(hash_key, "opad")
    <3>1. st = [i \in 1 .. DigestLen |-> st[i]]
      BY StateOfIsFunction DEF RoundInitState, IV, RegsOK
    <3>2. hash_state' = Process(st, block)
      BY <1>8 DEF OuterHash
    <3> HIDE DEF st, block
    <3>3. Process(st, block) = [i \in 1 .. DigestLen |-> Process(st, block)[i]]
      BY <3>1, ProcessIsFunction
    <3>4. hash_state' = [i \in 1 .. DigestLen |-> hash_state'[i]]
      BY <3>2, <3>3
    <3>5. hash_buffer' = [i \in 1 .. BlockLen |-> hash_buffer'[i]]
      BY <1>8, PutIsFunction DEF OuterHash, EnterFinish
    <3>6. /\ UNCHANGED <<hash_mode, hash_key>>
          /\ hash_count' = BlockLen + DigestLen
          /\ hash_stateptr' = 0
      BY <1>8 DEF OuterHash
    <3>7. hash_done' \in BOOLEAN
      BY <1>8 DEF OuterHash
    <3> QED BY <3>4, <3>5, <3>6, <3>7 DEF RegsOK
  <2>2. LoopOK'
    <3>1. (BlockLen + DigestLen) % BlockLen \in 0 .. BlockLen - 1
      BY ModRange
    <3> QED BY <1>8, <3>1 DEF OuterHash, EnterFinish, LoopOK
  <2>3. HistOK'
    BY <1>8 DEF OuterHash, HistOK, hist, fw
  <2> QED BY <2>1, <2>2, <2>3
<1>9. ASSUME Finish
      PROVE  RegsOK' /\ LoopOK' /\ HistOK'
  BY <1>9 DEF Finish, RegsOK, LoopOK, HistOK, Phases, fw
<1>10. ASSUME ReadHash
       PROVE  RegsOK' /\ LoopOK' /\ HistOK'
  <2>1. RegsOK'
    BY <1>10 DEF ReadHash, RegsOK
  <2>2. LoopOK'
    BY <1>10 DEF ReadHash, LoopOK, loop
  <2>3. Context \in SUBSET ContextSet
    BY DEF RegsOK, HistOK, Context, ContextSet, HashMode
  <2>4. fwWords' = [i \in 1 .. DigestLen |-> fwWords'[i]]
    BY <1>10 DEF ReadHash
  <2>5. fwContext' \in SUBSET ContextSet
    BY <1>10, <2>3 DEF ReadHash
  <2>6. HistOK'
    BY <1>10, <2>4, <2>5 DEF ReadHash, HistOK, RegsOK
  <2> QED BY <2>1, <2>2, <2>6
<1>11. ASSUME WriteHash
       PROVE  RegsOK' /\ LoopOK' /\ HistOK'
  <2>1. RegsOK'
    <3>1. hash_state' = [i \in 1 .. DigestLen |-> hash_state'[i]]
      BY <1>11 DEF WriteHash, RegsOK
    <3> QED BY <1>11, <3>1 DEF WriteHash, RegsOK
  <2>2. LoopOK'
    BY <1>11 DEF WriteHash, LoopOK, loop
  <2>3. HistOK'
    BY <1>11 DEF WriteHash, HistOK, RegsOK, Enter, Phases
  <2> QED BY <2>1, <2>2, <2>3
<1>12. ASSUME WriteCount
       PROVE  RegsOK' /\ LoopOK' /\ HistOK'
  <2>1. RegsOK'
    BY <1>12 DEF WriteCount, RegsOK, HistOK
  <2>2. LoopOK'
    BY <1>12 DEF WriteCount, LoopOK, loop
  <2>3. msg' \in Seq({<<"byte", b>> : b \in Bytes}) /\ skey' \in Keys
    BY <1>12 DEF WriteCount, HistOK, ContextSet
  <2>4. HistOK'
    BY <1>12, <2>3 DEF WriteCount, HistOK, Enter, Phases, fw
  <2> QED BY <2>1, <2>2, <2>4
<1>13. ASSUME ClearDone
       PROVE  RegsOK' /\ LoopOK' /\ HistOK'
  BY <1>13 DEF ClearDone, RegsOK, LoopOK, HistOK, loop, hist, fw
<1>14. ASSUME NEW k \in Keys, LoadKey(k)
       PROVE  RegsOK' /\ LoopOK' /\ HistOK'
  BY <1>14 DEF LoadKey, RegsOK, LoopOK, HistOK, loop, hist, fw
<1>15. ASSUME UNCHANGED vars
       PROVE  RegsOK' /\ LoopOK' /\ HistOK'
  BY <1>15 DEF vars, core, loop, hist, fw, RegsOK, LoopOK, HistOK
<1> QED BY <1>1, <1>2, <1>3, <1>4, <1>5, <1>6, <1>7, <1>8, <1>9, <1>10, <1>11,
           <1>12, <1>13, <1>14, <1>15 DEF Next, Access, Turn

(* Every register and loop variable keeps its type and range: the copy and *)
(* the fill loops of hash_dma_write and hash_round_finish stay inside the  *)
(* buffer, and HASH accesses inside the digest, for every block, length    *)
(* and digest size and whatever firmware does.                             *)
THEOREM TypeCorrect == Spec => []TypeOK
  BY InitTypeOK, NextTypeOK, PTL DEF Spec

-----------------------------------------------------------------------------
(* The message that is being hashed, cell by cell. *)

ByteCells == {<<"byte", b>> : b \in Bytes}
MessageCells(k) ==
  ByteCells \cup {<<"ipad", k, i>> : i \in 1 .. BlockLen}

LEMMA KeyBlockFacts ==
  ASSUME NEW k, NEW pad
  PROVE  /\ KeyBlock(k, pad) \in Seq({<<pad, k, i>> : i \in 1 .. BlockLen})
         /\ Len(KeyBlock(k, pad)) = BlockLen
         /\ KeyBlock(k, pad) = [i \in 1 .. BlockLen |-> KeyBlock(k, pad)[i]]
  BY BlockPositive DEF KeyBlock

LEMMA PrefixFacts ==
  ASSUME NEW h \in BOOLEAN, NEW k
  PROVE  /\ Prefix(h, k) \in Seq(MessageCells(k))
         /\ Len(Prefix(h, k)) = IF h THEN BlockLen ELSE 0
<1>1. KeyBlock(k, "ipad") \in Seq(MessageCells(k))
  <2>1. KeyBlock(k, "ipad") \in Seq({<<"ipad", k, i>> : i \in 1 .. BlockLen})
    BY KeyBlockFacts
  <2>2. {<<"ipad", k, i>> : i \in 1 .. BlockLen} \subseteq MessageCells(k)
    BY DEF MessageCells
  <2> QED BY <2>1, <2>2, SeqMonotonic
<1>2. << >> \in Seq(MessageCells(k)) /\ Len(<< >>) = 0
  OBVIOUS
<1>3. Len(KeyBlock(k, "ipad")) = BlockLen
  BY KeyBlockFacts
<1> QED BY <1>1, <1>2, <1>3 DEF Prefix

LEMMA MessageFacts ==
  ASSUME NEW h \in BOOLEAN, NEW k, NEW m \in Seq(ByteCells)
  PROVE  /\ Message(h, k, m) \in Seq(MessageCells(k))
         /\ Len(Message(h, k, m)) = (IF h THEN BlockLen ELSE 0) + Len(m)
         /\ Len(Message(h, k, m)) \in Nat
         /\ Len(m) \in Nat
<1>1. m \in Seq(MessageCells(k)) /\ Len(m) \in Nat
  BY SeqMonotonic, LenProperties DEF MessageCells
<1>2. Message(h, k, m) \in Seq(MessageCells(k))
  BY <1>1, PrefixFacts, ConcatProperties DEF Message
<1>3. Len(Message(h, k, m)) = Len(Prefix(h, k)) + Len(m)
  BY <1>1, PrefixFacts, ConcatProperties DEF Message
<1> QED BY <1>1, <1>2, <1>3, PrefixFacts, BlockPositive

LEMMA MessageAppend ==
  ASSUME NEW h \in BOOLEAN, NEW k, NEW m \in Seq(ByteCells),
         NEW d \in Seq(ByteCells)
  PROVE  Message(h, k, m \o d) = Message(h, k, m) \o d
<1>1. m \in Seq(MessageCells(k)) /\ d \in Seq(MessageCells(k))
  BY SeqMonotonic DEF MessageCells
<1> QED BY <1>1, PrefixFacts, ConcatAssociative DEF Message

LEMMA HashFacts ==
  ASSUME NEW t
  PROVE  /\ Hash(t) \in Seq({<<"state", Padded(t), i>> : i \in 1 .. DigestLen})
         /\ Len(Hash(t)) = DigestLen
  BY SizesAssumption DEF Hash, StateOf

FedCells == MessageCells(skey)
OuterCells ==
  {<<"opad", skey, i>> : i \in 1 .. BlockLen}
    \cup {<<"state", Padded(Fed), i>> : i \in 1 .. DigestLen}

LEMMA FedFacts ==
  ASSUME TypeOK
  PROVE  Fed \in Seq(FedCells) /\ Len(Fed) \in Nat
  BY MessageFacts DEF TypeOK, RegsOK, HistOK, HashMode, Fed, FedCells, ByteCells

(* The outer message: the key block and the inner digest. *)
LEMMA OuterFacts ==
  LET o == KeyBlock(skey, "opad") \o Hash(Fed) IN
  /\ o \in Seq(OuterCells)
  /\ Len(o) = BlockLen + DigestLen
  /\ \A i \in 1 .. BlockLen : o[i] = KeyBlock(skey, "opad")[i]
  /\ \A i \in 1 .. DigestLen : o[BlockLen + i] = Hash(Fed)[i]
<1> DEFINE o == KeyBlock(skey, "opad") \o Hash(Fed)
<1>1. KeyBlock(skey, "opad") \in Seq(OuterCells)
  <2>1. KeyBlock(skey, "opad") \in Seq({<<"opad", skey, i>> : i \in 1 .. BlockLen})
    BY KeyBlockFacts
  <2>2. {<<"opad", skey, i>> : i \in 1 .. BlockLen} \subseteq OuterCells
    BY DEF OuterCells
  <2> QED BY <2>1, <2>2, SeqMonotonic
<1>2. Hash(Fed) \in Seq(OuterCells)
  <2>1. Hash(Fed) \in Seq({<<"state", Padded(Fed), i>> : i \in 1 .. DigestLen})
    BY HashFacts
  <2>2. {<<"state", Padded(Fed), i>> : i \in 1 .. DigestLen} \subseteq OuterCells
    BY DEF OuterCells
  <2> QED BY <2>1, <2>2, SeqMonotonic
<1>3. /\ o \in Seq(OuterCells)
      /\ Len(o) = Len(KeyBlock(skey, "opad")) + Len(Hash(Fed))
      /\ \A i \in 1 .. Len(KeyBlock(skey, "opad")) :
           o[i] = KeyBlock(skey, "opad")[i]
      /\ \A i \in 1 .. Len(Hash(Fed)) :
           o[Len(KeyBlock(skey, "opad")) + i] = Hash(Fed)[i]
  BY <1>1, <1>2, ConcatCells
<1>4. Len(KeyBlock(skey, "opad")) = BlockLen /\ Len(Hash(Fed)) = DigestLen
  BY KeyBlockFacts, HashFacts
<1> HIDE DEF o
<1>5. /\ o \in Seq(OuterCells)
      /\ Len(o) = BlockLen + DigestLen
      /\ \A i \in 1 .. BlockLen : o[i] = KeyBlock(skey, "opad")[i]
      /\ \A i \in 1 .. DigestLen : o[BlockLen + i] = Hash(Fed)[i]
  BY <1>3, <1>4
<1> QED BY <1>5 DEF o

LEMMA CurrentFacts ==
  ASSUME TypeOK
  PROVE  /\ Current \in Seq(FedCells \cup OuterCells)
         /\ Len(Current) \in Nat
         /\ FillLen(Len(Current)) \in Nat
<1> DEFINE C == FedCells \cup OuterCells
<1>1. FedCells \subseteq C /\ OuterCells \subseteq C
  OBVIOUS
<1> HIDE DEF C
<1>2. Fed \in Seq(C)
  <2>1. Fed \in Seq(FedCells)
    BY FedFacts
  <2> QED BY <1>1, <2>1, SeqMonotonic
<1>3. KeyBlock(skey, "opad") \o Hash(Fed) \in Seq(C)
  <2>1. KeyBlock(skey, "opad") \o Hash(Fed) \in Seq(OuterCells)
    BY OuterFacts
  <2> QED BY <1>1, <2>1, SeqMonotonic
<1>4. Current \in Seq(C)
  BY <1>2, <1>3 DEF Current
<1>5. Len(Current) \in Nat
  BY <1>4, LenProperties
<1>6. FillLen(Len(Current)) \in Nat
  BY <1>5, FillLenNat
<1> QED BY <1>4, <1>5, <1>6 DEF C

LEMMA SubSeqNone ==
  ASSUME NEW s PROVE SubSeq(s, 1, 0) = << >>
  BY SubSeqEmpty

(* The first block of a sequence that starts with one. *)
LEMMA FirstBlock ==
  ASSUME NEW S, NEW t \in Seq(S), BlockLen <= Len(t),
         NEW block, block = [i \in 1 .. BlockLen |-> block[i]],
         \A i \in 1 .. BlockLen : block[i] = t[i]
  PROVE  Compress(IV, block) = StateOf(SubSeq(t, 1, BlockLen))
<1>1. IV = StateOf(SubSeq(t, 1, 0))
  BY SubSeqNone DEF IV
<1>2. \A i \in 1 .. BlockLen : block[i] = t[0 + i]
  BY BlockPositive
<1>3. 0 + BlockLen = BlockLen /\ 0 + BlockLen <= Len(t)
  BY BlockPositive
<1>4. Compress(StateOf(SubSeq(t, 1, 0)), block) = StateOf(SubSeq(t, 1, 0 + BlockLen))
  BY <1>2, <1>3, CompressNext
<1> QED BY <1>1, <1>3, <1>4

-----------------------------------------------------------------------------
(* The inductive invariant. *)

LEMMA SamePrefix ==
  ASSUME NEW S, NEW s \in Seq(S), NEW T, NEW t \in Seq(T), NEW a \in Nat,
         a <= Len(s), a <= Len(t), \A i \in 1 .. a : s[i] = t[i]
  PROVE  SubSeq(s, 1, a) = SubSeq(t, 1, a)
<1> DEFINE C == S \cup T
<1>1. S \subseteq C /\ T \subseteq C
  OBVIOUS
<1> HIDE DEF C
<1>2. s \in Seq(C) /\ t \in Seq(C)
  BY <1>1, SeqMonotonic
<1>3. Len(s) \in Nat /\ Len(t) \in Nat
  BY LenProperties
<1>4. /\ \A i \in 1 .. a : s[i] \in C
      /\ \A i \in 1 .. a : t[i] \in C
  BY <1>2, <1>3, ElementOfSeq
<1>5. /\ SubSeq(s, 1, a) \in Seq(C)
      /\ Len(SubSeq(s, 1, a)) = IF 1 <= a THEN a - 1 + 1 ELSE 0
      /\ \A i \in 1 .. a - 1 + 1 : SubSeq(s, 1, a)[i] = s[1 + i - 1]
  BY <1>4, SubSeqProperties
<1>6. /\ SubSeq(t, 1, a) \in Seq(C)
      /\ Len(SubSeq(t, 1, a)) = IF 1 <= a THEN a - 1 + 1 ELSE 0
      /\ \A i \in 1 .. a - 1 + 1 : SubSeq(t, 1, a)[i] = t[1 + i - 1]
  BY <1>4, SubSeqProperties
<1>7. a - 1 + 1 = a /\ \A i \in 1 .. a : 1 + i - 1 = i
  OBVIOUS
<1>8. Len(SubSeq(s, 1, a)) = a
  BY <1>5, <1>7
<1>9. Len(SubSeq(t, 1, a)) = a
  BY <1>6, <1>7
<1>10. ASSUME NEW i \in 1 .. a
       PROVE  SubSeq(s, 1, a)[i] = SubSeq(t, 1, a)[i]
  BY <1>5, <1>6, <1>7
<1> QED BY <1>5, <1>6, <1>8, <1>9, <1>10, SeqEqual

LEMMA IdleTodo == LoopOK /\ pc = "idle" => todo = << >> /\ Len(todo) = 0
  BY DEF LoopOK

(* Zero and the block length, as positions. *)
LEMMA Boundaries ==
  /\ 0 % BlockLen = 0 /\ Whole(0) = 0
  /\ BlockLen % BlockLen = 0 /\ Whole(BlockLen) = BlockLen
<1>1. 0 % BlockLen = 0
  BY BlockPositive, ModRange
<1>2. (0 + BlockLen) % BlockLen = 0
  BY <1>1, PlusBlock
<1>3. 0 + BlockLen = BlockLen
  BY BlockPositive
<1> QED BY <1>1, <1>2, <1>3, BlockPositive DEF Whole

-----------------------------------------------------------------------------
(* OpenInv. *)

LEMMA StartOpen ==
  ASSUME TypeOK, ModeInv, Start
  PROVE  OpenInv'
<1> SUFFICES ASSUME phase' = "open" PROVE OpenInv'
  BY DEF OpenInv
<1>1. /\ pc = "idle" /\ phase = "mode" /\ fwBack = 0
      /\ hash_mode' = hash_mode /\ UNCHANGED <<pc, todo, hash_done>>
      /\ msg' = << >> /\ skey' = hash_key
  BY DEF Start, Enter, loop
<1>2. /\ hash_mode.sha256 /\ hash_count = 0 /\ hash_state = IV /\ ~ hash_done
  BY <1>1 DEF ModeInv
<1>3. todo = << >> /\ Len(todo) = 0
  BY <1>1, IdleTodo DEF TypeOK
<1> DEFINE block == KeyBlock(hash_key, "ipad")
<1>4. Fed' = Message(hash_mode.hmac, hash_key, << >>)
  BY <1>1 DEF Fed
<1>5. CASE ~ hash_mode.hmac
  <2>1. Fed' = << >>
    BY <1>4, <1>5 DEF Message, Prefix
  <2>2. hash_count' = 0 /\ hash_state' = hash_state
    BY <1>2, <1>5, Boundaries DEF Start
  <2>3. hash_state' = StateOf(SubSeq(Fed', 1, Whole(hash_count')))
    BY <1>2, <2>2, Boundaries, SubSeqNone DEF IV
  <2>4. Len(Fed') = 0
    BY <2>1
  <2> QED BY <1>1, <1>2, <1>3, <2>2, <2>3, <2>4, Boundaries DEF OpenInv
<1>6. CASE hash_mode.hmac
  <2>1. /\ block \in Seq({<<"ipad", hash_key, i>> : i \in 1 .. BlockLen})
        /\ Len(block) = BlockLen
        /\ block = [i \in 1 .. BlockLen |-> block[i]]
    BY KeyBlockFacts
  <2>2. Fed' = block
    BY <1>4, <1>6, <2>1, ConcatEmptySeq DEF Message, Prefix
  <2>3. /\ hash_count' = BlockLen
        /\ hash_state' = Process(hash_state, block)
    BY <1>6 DEF Start
  <2> HIDE DEF block
  <2>4. Process(hash_state, block) = Compress(IV, block)
    BY <1>2 DEF Process
  <2>5. Compress(IV, block) = StateOf(SubSeq(block, 1, BlockLen))
    BY <2>1, FirstBlock, BlockPositive
  <2>6. hash_state' = StateOf(SubSeq(Fed', 1, Whole(hash_count')))
    BY <2>2, <2>3, <2>4, <2>5, Boundaries
  <2>7. Len(Fed') = hash_count' + Len(todo')
    BY <1>1, <1>3, <2>1, <2>2, <2>3, BlockPositive
  <2> QED BY <1>1, <1>2, <1>3, <2>3, <2>6, <2>7, Boundaries DEF OpenInv
<1> QED BY <1>5, <1>6

LEMMA DataOpen ==
  ASSUME TypeOK, OpenInv, NEW d \in Chunks, Data(d)
  PROVE  OpenInv'
<1> SUFFICES ASSUME phase' = "open" PROVE OpenInv'
  BY DEF OpenInv
<1> DEFINE n == hash_count
           cells == DataCells(d)
<1>1. /\ pc = "idle" /\ phase = "open" /\ UNCHANGED core /\ UNCHANGED skey
      /\ pc' = "data" /\ todo' = d /\ msg' = msg \o cells
  BY DEF Data, Enter
<1>2. todo = << >> /\ Len(todo) = 0
  BY <1>1, IdleTodo DEF TypeOK
<1>3. d \in Seq(Bytes) /\ Len(d) \in Nat
  BY ChunksAssumption, LenProperties
<1>4. /\ cells \in Seq(ByteCells) /\ Len(cells) = Len(d)
      /\ \A i \in 1 .. Len(d) : cells[i] = <<"byte", d[i]>>
  BY <1>3, DataCellsType DEF ByteCells
<1> HIDE DEF cells
<1>5. Fed \in Seq(FedCells) /\ Len(Fed) \in Nat
  BY FedFacts
<1>6. cells \in Seq(FedCells)
  <2>1. ByteCells \subseteq FedCells
    BY DEF FedCells, MessageCells
  <2> QED BY <1>4, <2>1, SeqMonotonic
<1>7. Fed' = Fed \o cells
  <2>1. hash_mode.hmac \in BOOLEAN /\ msg \in Seq(ByteCells)
    BY DEF TypeOK, RegsOK, HistOK, HashMode, ByteCells
  <2>2. Fed' = Message(hash_mode.hmac, skey, msg \o cells)
    BY <1>1 DEF Fed, core
  <2> QED BY <1>4, <2>1, <2>2, MessageAppend DEF Fed
<1>8. /\ Fed \o cells \in Seq(FedCells)
      /\ Len(Fed \o cells) = Len(Fed) + Len(cells)
      /\ \A i \in 1 .. Len(Fed) : (Fed \o cells)[i] = Fed[i]
      /\ \A i \in 1 .. Len(cells) : (Fed \o cells)[Len(Fed) + i] = cells[i]
  BY <1>5, <1>6, ConcatCells
<1>9. /\ n \in Nat /\ Len(Fed) = n
      /\ hash_mode.sha256 /\ ~ hash_done
      /\ hash_state = StateOf(SubSeq(Fed, 1, Whole(n)))
      /\ \A i \in 1 .. n % BlockLen : hash_buffer[i] = Fed[Whole(n) + i]
  <2>1. n \in Nat
    BY DEF TypeOK, RegsOK
  <2>2. Len(Fed) = n + Len(todo)
    BY <1>1 DEF OpenInv
  <2>3. /\ hash_mode.sha256 /\ ~ hash_done
        /\ hash_state = StateOf(SubSeq(Fed, 1, Whole(n)))
        /\ \A i \in 1 .. n % BlockLen : hash_buffer[i] = Fed[Whole(n) + i]
    BY <1>1 DEF OpenInv
  <2> HIDE DEF n
  <2>4. Len(Fed) = n
    BY <1>2, <2>1, <2>2
  <2> QED BY <2>1, <2>3, <2>4
<1>10. Whole(n) \in Nat /\ n = Whole(n) + (n % BlockLen) /\ n % BlockLen \in Nat
  BY <1>9, WholeFacts
<1> HIDE DEF n
<1>11. SubSeq(Fed', 1, Whole(n)) = SubSeq(Fed, 1, Whole(n))
  <2>1. Whole(n) <= Len(Fed) /\ Whole(n) <= Len(Fed \o cells)
    BY <1>3, <1>4, <1>8, <1>9, <1>10
  <2>2. \A i \in 1 .. Whole(n) : (Fed \o cells)[i] = Fed[i]
    BY <1>8, <1>9, <1>10
  <2>3. SubSeq(Fed \o cells, 1, Whole(n)) = SubSeq(Fed, 1, Whole(n))
    BY <1>5, <1>8, <1>10, <2>1, <2>2, SamePrefix
  <2> QED BY <1>7, <2>3
<1>12. \A i \in 1 .. n % BlockLen : Fed'[Whole(n) + i] = Fed[Whole(n) + i]
  <2>1. ASSUME NEW i \in 1 .. n % BlockLen
        PROVE  Whole(n) + i \in 1 .. Len(Fed)
    BY <1>9, <1>10
  <2> QED BY <1>7, <1>8, <2>1
<1>13. \A i \in 1 .. Len(d) : <<"byte", d[i]>> = Fed'[n + i]
  BY <1>4, <1>7, <1>8, <1>9
<1>14. Len(Fed') = n + Len(d)
  BY <1>4, <1>7, <1>8, <1>9
<1>15. /\ hash_count' = n /\ hash_state' = hash_state
       /\ hash_buffer' = hash_buffer /\ hash_mode' = hash_mode
       /\ ~ hash_done'
  BY <1>1, <1>9 DEF core, n
<1> QED BY <1>1, <1>9, <1>11, <1>12, <1>13, <1>14, <1>15 DEF OpenInv

LEMMA CopyOpen ==
  ASSUME TypeOK, OpenInv, Copy
  PROVE  OpenInv'
<1> SUFFICES ASSUME phase' = "open" PROVE OpenInv'
  BY DEF OpenInv
<1> DEFINE n == hash_count
           w == Whole(n)
           bp == n % BlockLen
           rc == IF Len(todo) + bp > BlockLen THEN BlockLen - bp ELSE Len(todo)
           cells == DataCells(SubSeq(todo, 1, rc))
           buf == Put(hash_buffer, bp, cells)
           p == Fed
<1>1. /\ pc = "data"
      /\ hash_buffer' = buf
      /\ hash_count' = n + rc
      /\ hash_state' = IF (n + rc) % BlockLen = 0 THEN Process(hash_state, buf)
                                                 ELSE hash_state
      /\ todo' = SubSeq(todo, rc + 1, Len(todo))
      /\ pc' \in {"idle", "data"}
      /\ UNCHANGED <<hash_mode, hash_done, hist>>
  BY DEF Copy, Take
<1>2. phase = "open" /\ Fed' = p
  BY <1>1 DEF hist, Fed
<1>3. /\ hash_mode.sha256 /\ ~ hash_done
      /\ Len(p) = n + Len(todo)
      /\ hash_state = StateOf(SubSeq(p, 1, w))
      /\ \A i \in 1 .. bp : hash_buffer[i] = p[w + i]
      /\ \A i \in 1 .. Len(todo) : <<"byte", todo[i]>> = p[n + i]
  BY <1>2 DEF OpenInv
<1>4. /\ n \in Nat /\ todo \in Seq(Bytes) /\ Len(todo) \in Nat
      /\ \A i \in 1 .. Len(todo) : todo[i] \in Bytes
  BY LenProperties, ElementOfSeq DEF TypeOK, RegsOK, LoopOK
<1>5. p \in Seq(FedCells) /\ Len(p) \in Nat
  BY FedFacts
<1>6. hash_mode' = hash_mode
  BY <1>1
<1>7. /\ w \in Nat /\ n = w + bp /\ bp \in 0 .. BlockLen - 1 /\ w % BlockLen = 0
  BY <1>4, WholeFacts
<1> HIDE DEF n, w, bp
<1>8. /\ rc \in 0 .. Len(todo) /\ bp + rc <= BlockLen
      /\ bp + rc < BlockLen => rc = Len(todo)
  BY <1>4, <1>7, BlockPositive
<1> HIDE DEF rc, p
<1>9. /\ Len(cells) = rc
      /\ \A i \in 1 .. rc : cells[i] = <<"byte", todo[i]>>
  <2> DEFINE s == SubSeq(todo, 1, rc)
  <2>1. \A i \in 1 .. rc : todo[i] \in Bytes
    BY <1>4, <1>8
  <2>2. rc \in Int /\ 1 \in Int /\ rc >= 0
    BY <1>4, <1>8
  <2>3. /\ s \in Seq(Bytes)
        /\ Len(s) = IF 1 <= rc THEN rc - 1 + 1 ELSE 0
        /\ \A i \in 1 .. rc - 1 + 1 : s[i] = todo[1 + i - 1]
    BY <2>1, <2>2, SubSeqProperties
  <2>4. rc - 1 + 1 = rc /\ \A i \in 1 .. rc : 1 + i - 1 = i
    BY <2>2
  <2>5. Len(s) = rc /\ \A i \in 1 .. rc : s[i] = todo[i]
    BY <2>2, <2>3, <2>4
  <2> HIDE DEF s
  <2>6. /\ Len(DataCells(s)) = Len(s)
        /\ \A i \in 1 .. Len(s) : DataCells(s)[i] = <<"byte", s[i]>>
    BY <2>3, DataCellsType
  <2>7. \A i \in 1 .. rc : DataCells(s)[i] = <<"byte", todo[i]>>
    BY <2>5, <2>6
  <2> QED BY <2>5, <2>6, <2>7 DEF s
<1> HIDE DEF cells
<1>10. ASSUME NEW i \in 1 .. bp + rc
       PROVE  buf[i] = p[w + i]
  <2>1. i \in 1 .. BlockLen
    BY <1>7, <1>8, BlockPositive
  <2>2. buf[i] = IF i \in bp + 1 .. bp + rc THEN cells[i - bp] ELSE hash_buffer[i]
    BY <2>1, <1>9 DEF Put
  <2>3. CASE i <= bp
    <3>1. i \in 1 .. bp /\ i \notin bp + 1 .. bp + rc
      BY <2>3, <1>7, <1>8
    <3> QED BY <2>2, <3>1, <1>3
  <2>4. CASE i > bp
    <3>1. i \in bp + 1 .. bp + rc /\ i - bp \in 1 .. rc /\ i - bp \in 1 .. Len(todo)
      BY <2>4, <1>4, <1>7, <1>8
    <3>2. cells[i - bp] = p[n + (i - bp)]
      BY <3>1, <1>3, <1>9
    <3>3. n + (i - bp) = w + i
      BY <1>7
    <3> HIDE DEF buf
    <3> QED BY <2>2, <3>1, <3>2, <3>3
  <2> QED BY <2>3, <2>4, <1>7
<1>11. buf = [i \in 1 .. BlockLen |-> buf[i]]
  BY PutIsFunction
<1> HIDE DEF buf
<1>12. /\ Len(todo') = Len(todo) - rc
       /\ \A i \in 1 .. Len(todo) - rc : todo'[i] = todo[rc + i]
  <2> DEFINE s == SubSeq(todo, rc + 1, Len(todo))
  <2>1. \A i \in rc + 1 .. Len(todo) : todo[i] \in Bytes
    BY <1>4, <1>8
  <2>2. rc + 1 \in Int /\ Len(todo) \in Int
    BY <1>4, <1>8
  <2>3. /\ Len(s) = IF rc + 1 <= Len(todo) THEN Len(todo) - (rc + 1) + 1 ELSE 0
        /\ \A i \in 1 .. Len(todo) - (rc + 1) + 1 : s[i] = todo[(rc + 1) + i - 1]
    BY <2>1, <2>2, SubSeqProperties
  <2>4. /\ Len(todo) - (rc + 1) + 1 = Len(todo) - rc
        /\ \A i \in 1 .. Len(todo) - rc : (rc + 1) + i - 1 = rc + i
    BY <1>4, <1>8
  <2> HIDE DEF s
  <2>5. Len(s) = Len(todo) - rc
    <3>1. CASE rc = Len(todo)
      <4>1. ~ (rc + 1 <= Len(todo)) /\ Len(todo) - rc = 0
        BY <3>1, <1>4
      <4> QED BY <4>1, <2>3
    <3>2. CASE rc # Len(todo)
      <4>1. rc + 1 <= Len(todo)
        BY <3>2, <1>4, <1>8
      <4> QED BY <4>1, <2>3, <2>4
    <3> QED BY <3>1, <3>2
  <2>6. \A i \in 1 .. Len(todo) - rc : s[i] = todo[rc + i]
    BY <2>3, <2>4
  <2> QED BY <2>5, <2>6, <1>1 DEF s
<1>13. Len(p) = (n + rc) + Len(todo')
  BY <1>3, <1>4, <1>8, <1>12
<1>14. ASSUME NEW i \in 1 .. Len(todo')
       PROVE  <<"byte", todo'[i]>> = p[(n + rc) + i]
  <2>1. i \in 1 .. Len(todo) - rc /\ rc + i \in 1 .. Len(todo)
    BY <1>4, <1>8, <1>12
  <2>2. <<"byte", todo[rc + i]>> = p[n + (rc + i)]
    BY <2>1, <1>3
  <2>3. n + (rc + i) = (n + rc) + i
    BY <2>1, <1>4, <1>8
  <2> QED BY <2>1, <2>2, <2>3, <1>12
<1>15. /\ hash_state' = StateOf(SubSeq(p, 1, Whole(n + rc)))
       /\ \A i \in 1 .. (n + rc) % BlockLen : buf[i] = p[Whole(n + rc) + i]
  <2>1. CASE bp + rc < BlockLen
    <3>1. bp + rc \in 0 .. BlockLen - 1 /\ n + rc = w + (bp + rc)
      BY <2>1, <1>4, <1>7, <1>8, BlockPositive
    <3>2. (n + rc) % BlockLen = bp + rc /\ Whole(n + rc) = w
      BY <3>1, <1>7, PlusWithin
    <3>3. hash_state' = StateOf(SubSeq(p, 1, w))
      <4>1. CASE bp + rc = 0
        <5>1. rc = 0 /\ Len(todo) = 0
          BY <4>1, <2>1, <1>4, <1>7, <1>8
        <5>2. todo # << >>
          BY <1>1 DEF TypeOK, LoopOK
        <5> QED BY <5>1, <5>2, <1>4, EmptySeq
      <4>2. CASE bp + rc # 0
        BY <4>2, <3>2, <1>1, <1>3
      <4> QED BY <4>1, <4>2
    <3> QED BY <3>2, <3>3, <1>10
  <2>2. CASE bp + rc = BlockLen
    <3>1. n + rc = w + BlockLen
      BY <2>2, <1>4, <1>7, <1>8, BlockPositive
    <3>2. (w + BlockLen) % BlockLen = 0
      BY <1>7, PlusBlock
    <3>3. Whole(n + rc) = w + BlockLen
      BY <3>1, <3>2, <1>7, BlockPositive DEF Whole
    <3>4. w + BlockLen <= Len(p)
      BY <3>1, <1>3, <1>4, <1>8, BlockPositive
    <3>5. Compress(StateOf(SubSeq(p, 1, w)), buf) = StateOf(SubSeq(p, 1, w + BlockLen))
      <4>1. \A i \in 1 .. BlockLen : buf[i] = p[w + i]
        BY <2>2, <1>10
      <4> QED BY <4>1, <3>4, <1>5, <1>7, <1>11, CompressNext
    <3>6. hash_state' = Compress(StateOf(SubSeq(p, 1, w)), buf)
      BY <3>1, <3>2, <1>1, <1>3 DEF Process
    <3> QED BY <3>1, <3>2, <3>3, <3>5, <3>6, BlockPositive
  <2> QED BY <2>1, <2>2, <1>4, <1>7, <1>8, BlockPositive
<1>16. ~ hash_done'
  BY <1>1, <1>3
<1> QED BY <1>1, <1>2, <1>3, <1>6, <1>13, <1>14, <1>15, <1>16 DEF OpenInv

LEMMA WriteCountOpen ==
  ASSUME TypeOK, ModeInv, SavedInv, WriteCount
  PROVE  OpenInv'
<1> SUFFICES ASSUME phase' = "open" PROVE OpenInv'
  BY DEF OpenInv
<1> DEFINE back == {c \in fwContext :
                      /\ phase = "mode"
                      /\ fwBack = DigestLen /\ fwHave = DigestLen
                      /\ c.hmac = hash_mode.hmac}
<1>1. /\ pc = "idle" /\ hash_count' = fwCount
      /\ UNCHANGED <<hash_mode, hash_buffer, hash_state, hash_done, pc, todo>>
  BY DEF WriteCount, loop
<1>2. PICK c \in back : msg' = c.msg /\ skey' = c.key
  BY DEF WriteCount, Enter
<1>3. /\ c \in fwContext /\ phase = "mode"
      /\ fwBack = DigestLen /\ fwHave = DigestLen
      /\ c.hmac = hash_mode.hmac
  BY <1>2
<1> DEFINE t == Message(c.hmac, c.key, c.msg)
<1>4. Fed' = t
  BY <1>1, <1>2, <1>3 DEF Fed
<1>5. t \in Seq(MessageCells(c.key)) /\ Len(t) \in Nat
  <2>1. c.hmac \in BOOLEAN /\ c.msg \in Seq(ByteCells)
    BY <1>3 DEF TypeOK, HistOK, ContextSet, ByteCells
  <2> QED BY <2>1, MessageFacts
<1>6. /\ Len(t) % BlockLen = 0 /\ fwCount = Len(t)
      /\ \A i \in 1 .. fwHave : fwWords[i] = StateOf(t)[i]
  BY <1>3 DEF SavedInv
<1>7. /\ hash_mode.sha256 /\ ~ hash_done
      /\ \A i \in 1 .. fwBack : hash_state[i] = fwWords[i]
  BY <1>3 DEF ModeInv
<1> HIDE DEF t
<1>8. hash_state = StateOf(t)
  <2>1. hash_state = [i \in 1 .. DigestLen |-> hash_state[i]]
    BY DEF TypeOK, RegsOK
  <2>2. StateOf(t) = [i \in 1 .. DigestLen |-> StateOf(t)[i]]
    BY StateOfIsFunction
  <2>3. \A i \in 1 .. DigestLen : hash_state[i] = StateOf(t)[i]
    BY <1>3, <1>6, <1>7
  <2> QED BY <2>1, <2>2, <2>3
<1>9. Whole(Len(t)) = Len(t)
  BY <1>5, <1>6 DEF Whole
<1>10. SubSeq(t, 1, Len(t)) = t
  BY <1>5, SubSeqFull
<1>11. todo = << >> /\ Len(todo) = 0
  BY <1>1, IdleTodo DEF TypeOK
<1>12. Len(t) = Len(t) + 0
  BY <1>5
<1>13. hash_count' = Len(t) /\ Len(todo') = 0 /\ todo' = << >>
  BY <1>1, <1>6, <1>11
<1>14. hash_state' = StateOf(SubSeq(Fed', 1, Whole(hash_count')))
  BY <1>1, <1>4, <1>8, <1>9, <1>10, <1>13
<1>15. hash_mode'.sha256 /\ pc' = "idle" /\ ~ hash_done'
  BY <1>1, <1>7
<1>16. hash_count' % BlockLen = 0
  BY <1>6, <1>13
<1> QED BY <1>4, <1>12, <1>13, <1>14, <1>15, <1>16 DEF OpenInv

-----------------------------------------------------------------------------
(* FlushInv. *)

LEMMA FlushFlush ==
  ASSUME TypeOK, OpenInv, Flush
  PROVE  FlushInv'
<1> SUFFICES ASSUME phase' = "flush" PROVE FlushInv'
  BY DEF FlushInv
<1> DEFINE n == hash_count
           w == Whole(n)
           r == n % BlockLen
           p == Padded(Fed)
<1>1. /\ pc = "idle" /\ phase = "open"
      /\ hash_mode.hmac => hash_key = skey
      /\ UNCHANGED <<hash_mode, hash_key, hash_state, hash_done, skey, msg>>
      /\ EnterFinish(0, hash_buffer, n)
  BY DEF Flush, Enter
<1>2. todo = << >> /\ Len(todo) = 0
  BY <1>1, IdleTodo DEF TypeOK
<1>3. /\ hash_mode.sha256 /\ ~ hash_done
      /\ Len(Fed) = n + Len(todo)
      /\ hash_state = StateOf(SubSeq(Fed, 1, w))
      /\ \A i \in 1 .. r : hash_buffer[i] = Fed[w + i]
  BY <1>1 DEF OpenInv
<1>4. /\ round' = 0 /\ len' = n /\ pc' = "zero"
      /\ hash_buffer' = Put(hash_buffer, r, <<One>>)
      /\ bufpos' = r + 1
  BY <1>1, <1>3 DEF EnterFinish
<1>5. Current' = Fed
  BY <1>1, <1>4 DEF Current, Fed
<1>6. /\ n \in Nat /\ Fed \in Seq(FedCells) /\ FillLen(n) \in Nat
  BY FedFacts, FillLenNat DEF TypeOK, RegsOK
<1> HIDE DEF n
<1>7. Len(Fed) = n
  BY <1>2, <1>3, <1>6
<1>8. /\ p \in Seq(FedCells \cup PadCells)
      /\ Len(p) = n + 1 + FillLen(n) + LenLen
      /\ \A i \in 1 .. n : p[i] = Fed[i]
      /\ p[n + 1] = One
  <2>1. PICK z \in Nat : z = FillLen(n)
    BY <1>6
  <2>2. /\ Padded(Fed) \in Seq(FedCells \cup PadCells)
        /\ Len(Padded(Fed)) = n + 1 + z + LenLen
        /\ \A i \in 1 .. n : Padded(Fed)[i] = Fed[i]
        /\ Padded(Fed)[n + 1] = One
    BY <1>6, <1>7, <2>1, PaddedFacts
  <2> QED BY <2>1, <2>2
<1>9. w \in Nat /\ n = w + r /\ r \in 0 .. BlockLen - 1
  BY <1>6, WholeFacts
<1> HIDE DEF w, r, p
<1>10. n < w + (r + 1) /\ w + (r + 1) <= n + 1 + FillLen(n)
  BY <1>6, <1>9, BlockPositive
<1>11. SubSeq(Fed, 1, w) = SubSeq(p, 1, w)
  <2>1. w <= Len(Fed) /\ w <= Len(p) /\ \A i \in 1 .. w : Fed[i] = p[i]
    BY <1>6, <1>7, <1>8, <1>9, SizesAssumption
  <2> QED BY <2>1, <1>6, <1>8, <1>9, SamePrefix
<1>12. ASSUME NEW i \in 1 .. r + 1
       PROVE  hash_buffer'[i] = p[w + i]
  <2>1. i \in 1 .. BlockLen /\ Len(<<One>>) = 1
    BY <1>9, BlockPositive
  <2>2. hash_buffer'[i] = IF i \in r + 1 .. r + 1 THEN <<One>>[i - r] ELSE hash_buffer[i]
    BY <1>4, <2>1 DEF Put
  <2>3. CASE i = r + 1
    <3>1. i \in r + 1 .. r + 1 /\ i - r = 1 /\ w + i = n + 1
      BY <2>3, <1>9, BlockPositive
    <3> QED BY <2>2, <3>1, <1>8
  <2>4. CASE i # r + 1
    <3>1. i \notin r + 1 .. r + 1 /\ i \in 1 .. r /\ w + i \in 1 .. n
      BY <2>4, <1>9, BlockPositive
    <3> QED BY <2>2, <3>1, <1>3, <1>8
  <2> QED BY <2>3, <2>4
<1>13. hash_state' = StateOf(SubSeq(p, 1, w))
  BY <1>1, <1>3, <1>11
<1>14. \E base \in {Whole(len'), Whole(len') + BlockLen} :
          /\ len' < base + bufpos'
          /\ base + bufpos' <= len' + 1 + FillLen(len')
          /\ hash_state' = StateOf(SubSeq(Padded(Current'), 1, base))
          /\ \A i \in 1 .. bufpos' : hash_buffer'[i] = Padded(Current')[base + i]
  <2>1. w \in {Whole(len'), Whole(len') + BlockLen}
    BY <1>4 DEF w
  <2> QED BY <2>1, <1>4, <1>5, <1>10, <1>12, <1>13 DEF p
<1>15. len' = Len(Current')
  BY <1>4, <1>5, <1>7
<1> QED BY <1>1, <1>3, <1>4, <1>14, <1>15 DEF FlushInv

(* What FlushInv says inside the fill loop, with its position named. *)
LEMMA ZeroFacts ==
  ASSUME TypeOK, FlushInv, phase = "flush", pc = "zero"
  PROVE  \E base \in {Whole(len), Whole(len) + BlockLen} :
           /\ len = Len(Current)
           /\ len < base + bufpos
           /\ base + bufpos <= len + 1 + FillLen(len)
           /\ hash_state = StateOf(SubSeq(Padded(Current), 1, base))
           /\ \A i \in 1 .. bufpos : hash_buffer[i] = Padded(Current)[base + i]
           /\ base \in Nat /\ base % BlockLen = 0
           /\ bufpos \in 1 .. BlockLen /\ len \in Nat /\ FillLen(len) \in Nat
           /\ bufpos = BlockLen - LenLen <=> base + bufpos = len + 1 + FillLen(len)
           /\ bufpos = BlockLen /\ bufpos # BlockLen - LenLen => base = Whole(len)
<1>1. PICK base \in {Whole(len), Whole(len) + BlockLen} :
        /\ len < base + bufpos
        /\ base + bufpos <= len + 1 + FillLen(len)
        /\ hash_state = StateOf(SubSeq(Padded(Current), 1, base))
        /\ \A i \in 1 .. bufpos : hash_buffer[i] = Padded(Current)[base + i]
  BY DEF FlushInv
<1>2. bufpos \in 1 .. BlockLen /\ len \in Nat
  BY BlockPositive DEF TypeOK, LoopOK
<1>3. /\ bufpos = BlockLen - LenLen <=> base + bufpos = len + 1 + FillLen(len)
      /\ bufpos = BlockLen /\ bufpos # BlockLen - LenLen => base = Whole(len)
      /\ base \in Nat /\ base % BlockLen = 0
      /\ FillLen(len) \in Nat
  BY <1>1, <1>2, FillStops
<1>4. len = Len(Current)
  BY DEF FlushInv
<1> QED BY <1>1, <1>2, <1>3, <1>4

LEMMA PaddedCurrent ==
  ASSUME TypeOK, NEW n \in Nat, n = Len(Current)
  PROVE  /\ Padded(Current) \in Seq(FedCells \cup OuterCells \cup PadCells)
         /\ Len(Padded(Current)) = n + 1 + FillLen(n) + LenLen
         /\ \A i \in 1 .. FillLen(n) : Padded(Current)[n + 1 + i] = Zero
         /\ \A i \in 1 .. LenLen :
              Padded(Current)[n + 1 + FillLen(n) + i] = <<"len", n, i>>
<1> DEFINE S == FedCells \cup OuterCells
<1>1. Current \in Seq(S) /\ FillLen(n) \in Nat
  BY CurrentFacts
<1> HIDE DEF S
<1>2. PICK z \in Nat : z = FillLen(n)
  BY <1>1
<1>3. /\ Padded(Current) \in Seq(S \cup PadCells)
      /\ Len(Padded(Current)) = n + 1 + z + LenLen
      /\ \A i \in 1 .. z : Padded(Current)[n + 1 + i] = Zero
      /\ \A i \in 1 .. LenLen : Padded(Current)[n + 1 + z + i] = <<"len", n, i>>
  <2>1. PICK t \in Seq(S) : t = Current
    BY <1>1
  <2>2. n = Len(t)
    BY <2>1
  <2>3. Padded(t) \in Seq(S \cup PadCells)
    BY <1>2, <2>2, PaddedFacts
  <2>4. Len(Padded(t)) = n + 1 + z + LenLen
    BY <1>2, <2>2, PaddedFacts
  <2>5. \A i \in 1 .. z : Padded(t)[n + 1 + i] = Zero
    BY <1>2, <2>2, PaddedFacts
  <2>6. \A i \in 1 .. LenLen : Padded(t)[n + 1 + z + i] = <<"len", n, i>>
    BY <1>2, <2>2, PaddedFacts
  <2> QED BY <2>1, <2>3, <2>4, <2>5, <2>6
<1> QED BY <1>2, <1>3 DEF S

LEMMA FillZeroFlush ==
  ASSUME TypeOK, FlushInv, FillZero
  PROVE  FlushInv'
<1> SUFFICES ASSUME phase' = "flush" PROVE FlushInv'
  BY DEF FlushInv
<1>1. /\ pc = "zero" /\ bufpos # BlockLen - LenLen
      /\ hash_state' = IF bufpos % BlockLen = 0 THEN Process(hash_state, hash_buffer)
                                                 ELSE hash_state
      /\ hash_buffer' = Put(hash_buffer, bufpos % BlockLen, <<Zero>>)
      /\ bufpos' = (bufpos % BlockLen) + 1
      /\ UNCHANGED <<hash_mode, hash_key, hash_done, pc, round, len, hist>>
  BY DEF FillZero, Wrapped
<1>2. /\ phase = "flush" /\ Current' = Current
      /\ UNCHANGED <<hash_mode, hash_key, hash_done, pc, round, len, skey>>
  BY <1>1 DEF hist, Current, Fed
<1> DEFINE p == Padded(Current)
           z == FillLen(len)
<1>3. PICK base \in {Whole(len), Whole(len) + BlockLen} :
           /\ len = Len(Current)
           /\ len < base + bufpos
           /\ base + bufpos <= len + 1 + z
           /\ hash_state = StateOf(SubSeq(p, 1, base))
           /\ \A i \in 1 .. bufpos : hash_buffer[i] = p[base + i]
           /\ base \in Nat /\ base % BlockLen = 0
           /\ bufpos \in 1 .. BlockLen /\ len \in Nat /\ z \in Nat
           /\ bufpos = BlockLen - LenLen <=> base + bufpos = len + 1 + z
           /\ bufpos = BlockLen /\ bufpos # BlockLen - LenLen => base = Whole(len)
  BY <1>1, <1>2, ZeroFacts
<1>4. /\ p \in Seq(FedCells \cup OuterCells \cup PadCells)
      /\ Len(p) = len + 1 + z + LenLen
      /\ \A i \in 1 .. z : p[len + 1 + i] = Zero
  BY <1>3, PaddedCurrent
<1>5. hash_mode.sha256
  BY <1>2 DEF FlushInv
<1> HIDE DEF p, z
<1>6. base + bufpos < len + 1 + z
  BY <1>1, <1>3
<1>7. p[base + bufpos + 1] = Zero
  <2>1. base + bufpos - len \in 1 .. z
    BY <1>3, <1>6
  <2>2. len + 1 + (base + bufpos - len) = base + bufpos + 1
    BY <1>3
  <2>3. p[len + 1 + (base + bufpos - len)] = Zero
    BY <2>1, <1>4
  <2> QED BY <2>2, <2>3
<1>8. PICK b \in {Whole(len), Whole(len) + BlockLen} :
        /\ len < b + bufpos'
        /\ b + bufpos' <= len + 1 + z
        /\ hash_state' = StateOf(SubSeq(p, 1, b))
        /\ \A i \in 1 .. bufpos' : hash_buffer'[i] = p[b + i]
  <2>0. Len(<<Zero>>) = 1 /\ <<Zero>>[1] = Zero
    OBVIOUS
  <2>1. CASE bufpos = BlockLen
    <3>1. bufpos % BlockLen = 0 /\ bufpos' = 1
      BY <2>1, <1>1, Boundaries, BlockPositive
    <3>2. base = Whole(len)
      BY <2>1, <1>1, <1>3
    <3>3. hash_state' = Compress(StateOf(SubSeq(p, 1, base)), hash_buffer)
      BY <3>1, <1>1, <1>3, <1>5 DEF Process
    <3>4. base + BlockLen <= Len(p)
      BY <2>1, <1>3, <1>4, SizesAssumption
    <3>5. hash_buffer = [i \in 1 .. BlockLen |-> hash_buffer[i]]
      BY DEF TypeOK, RegsOK
    <3>6. \A i \in 1 .. BlockLen : hash_buffer[i] = p[base + i]
      BY <2>1, <1>3
    <3>7. hash_state' = StateOf(SubSeq(p, 1, base + BlockLen))
      BY <3>3, <3>4, <3>5, <3>6, <1>3, <1>4, CompressNext
    <3>8. hash_buffer'[1] = p[(base + BlockLen) + 1]
      <4>1. 1 \in 1 .. BlockLen /\ 1 \in 0 + 1 .. 0 + 1 /\ 1 - 0 = 1
        BY BlockPositive
      <4>2. hash_buffer'[1] = Zero
        BY <4>1, <2>0, <3>1, <1>1 DEF Put
      <4> QED BY <4>2, <2>1, <1>7
    <3>9. len < (base + BlockLen) + 1 /\ (base + BlockLen) + 1 <= len + 1 + z
      BY <2>1, <1>3, <1>6, BlockPositive
    <3>10. \A i \in 1 .. bufpos' : hash_buffer'[i] = p[(base + BlockLen) + i]
      <4>1. \A i \in 1 .. bufpos' : i = 1
        BY <3>1
      <4> QED BY <4>1, <3>8
    <3> QED BY <3>1, <3>2, <3>7, <3>9, <3>10
  <2>2. CASE bufpos # BlockLen
    <3>1. bufpos \in 1 .. BlockLen - 1
      BY <2>2, <1>3, BlockPositive
    <3>2. (0 + bufpos) % BlockLen = bufpos
      BY <3>1, PlusWithin, Boundaries
    <3>3. bufpos % BlockLen = bufpos /\ bufpos # 0
      BY <3>1, <3>2
    <3>4. bufpos' = bufpos + 1 /\ hash_state' = hash_state
      BY <3>3, <1>1
    <3>5. ASSUME NEW i \in 1 .. bufpos + 1
          PROVE  hash_buffer'[i] = p[base + i]
      <4>1. i \in 1 .. BlockLen
        BY <3>1, BlockPositive
      <4>2. hash_buffer'[i] = IF i \in bufpos + 1 .. bufpos + 1 THEN <<Zero>>[i - bufpos]
                                                               ELSE hash_buffer[i]
        BY <4>1, <3>3, <2>0, <1>1 DEF Put
      <4>3. CASE i = bufpos + 1
        <5>1. i \in bufpos + 1 .. bufpos + 1 /\ i - bufpos = 1
              /\ base + i = base + bufpos + 1
          BY <4>3, <3>1, <1>3
        <5> QED BY <5>1, <4>2, <2>0, <1>7
      <4>4. CASE i # bufpos + 1
        <5>1. i \in 1 .. bufpos /\ i \notin bufpos + 1 .. bufpos + 1
          BY <4>4, <3>1
        <5> QED BY <5>1, <4>2, <1>3
      <4> QED BY <4>3, <4>4
    <3>6. len < base + (bufpos + 1) /\ base + (bufpos + 1) <= len + 1 + z
      BY <1>3, <1>6
    <3> QED BY <3>4, <3>5, <3>6, <1>3
  <2> QED BY <2>1, <2>2
<1>9. /\ hash_mode.sha256 /\ (hash_mode.hmac => hash_key = skey)
      /\ (round = 1 => hash_mode.hmac) /\ ~ hash_done
  BY <1>2 DEF FlushInv
<1>10. Len(Current') = len' /\ len' = len /\ pc' = "zero"
  BY <1>1, <1>2, <1>3
<1>11. \E b1 \in {Whole(len'), Whole(len') + BlockLen} :
          /\ len' < b1 + bufpos'
          /\ b1 + bufpos' <= len' + 1 + FillLen(len')
          /\ hash_state' = StateOf(SubSeq(Padded(Current'), 1, b1))
          /\ \A i \in 1 .. bufpos' : hash_buffer'[i] = Padded(Current')[b1 + i]
  BY <1>2, <1>8, <1>10 DEF p, z
<1> QED BY <1>2, <1>9, <1>10, <1>11 DEF FlushInv

LEMMA FillLengthFlush ==
  ASSUME TypeOK, FlushInv, FillLength
  PROVE  FlushInv'
<1> SUFFICES ASSUME phase' = "flush" PROVE FlushInv'
  BY DEF FlushInv
<1> DEFINE buf == Put(hash_buffer, bufpos, LenField(len))
           p == Padded(Current)
           z == FillLen(len)
<1>1. /\ pc = "zero" /\ bufpos = BlockLen - LenLen
      /\ hash_state' = Process(hash_state, buf)
      /\ hash_stateptr' = 0 /\ pc' = "tail"
      /\ UNCHANGED <<hash_mode, hash_key, hash_done, round, hist>>
  BY DEF FillLength
<1>2. /\ phase = "flush" /\ Current' = Current
      /\ UNCHANGED <<hash_mode, hash_key, hash_done, round, skey>>
  BY <1>1 DEF hist, Current, Fed
<1>3. PICK base \in {Whole(len), Whole(len) + BlockLen} :
           /\ len = Len(Current)
           /\ hash_state = StateOf(SubSeq(p, 1, base))
           /\ \A i \in 1 .. bufpos : hash_buffer[i] = p[base + i]
           /\ base \in Nat
           /\ bufpos \in 1 .. BlockLen /\ len \in Nat /\ z \in Nat
           /\ base + bufpos = len + 1 + z
  BY <1>1, <1>2, ZeroFacts
<1>4. /\ p \in Seq(FedCells \cup OuterCells \cup PadCells)
      /\ Len(p) = len + 1 + z + LenLen
      /\ \A i \in 1 .. LenLen : p[len + 1 + z + i] = <<"len", len, i>>
  BY <1>3, PaddedCurrent
<1>5. /\ hash_mode.sha256 /\ (hash_mode.hmac => hash_key = skey)
      /\ (round = 1 => hash_mode.hmac) /\ ~ hash_done
  BY <1>2 DEF FlushInv
<1> HIDE DEF p, z
<1>6. ASSUME NEW i \in 1 .. BlockLen
      PROVE  buf[i] = p[base + i]
  <2>1. Len(LenField(len)) = LenLen
    BY <1>3, LenFieldFacts
  <2>2. buf[i] = IF i \in bufpos + 1 .. bufpos + LenLen THEN LenField(len)[i - bufpos]
                                                       ELSE hash_buffer[i]
    BY <2>1 DEF Put
  <2>3. CASE i <= bufpos
    <3>1. i \in 1 .. bufpos /\ i \notin bufpos + 1 .. bufpos + LenLen
      BY <2>3, <1>3
    <3> QED BY <3>1, <2>2, <1>3
  <2>4. CASE i > bufpos
    <3>1. i \in bufpos + 1 .. bufpos + LenLen /\ i - bufpos \in 1 .. LenLen
      BY <2>4, <1>1, <1>3, SizesAssumption
    <3>2. base + i = len + 1 + z + (i - bufpos)
      BY <1>3
    <3>3. LenField(len)[i - bufpos] = <<"len", len, i - bufpos>>
      BY <3>1 DEF LenField
    <3>4. p[len + 1 + z + (i - bufpos)] = <<"len", len, i - bufpos>>
      BY <3>1, <1>4
    <3> HIDE DEF buf
    <3> QED BY <3>1, <3>2, <3>3, <3>4, <2>2
  <2> QED BY <2>3, <2>4, <1>3
<1>7. buf = [i \in 1 .. BlockLen |-> buf[i]]
  BY PutIsFunction
<1> HIDE DEF buf
<1>8. base + BlockLen = Len(p)
  <2>1. bufpos + LenLen = BlockLen
    BY <1>1, SizesAssumption
  <2>2. (base + bufpos) + LenLen = Len(p)
    BY <1>3, <1>4
  <2> QED BY <2>1, <2>2, <1>3, SizesAssumption
<1>9. Compress(StateOf(SubSeq(p, 1, base)), buf) = StateOf(SubSeq(p, 1, base + BlockLen))
  <2>1. base + BlockLen <= Len(p)
    BY <1>3, <1>8, BlockPositive
  <2> QED BY <2>1, <1>3, <1>4, <1>6, <1>7, CompressNext
<1>10. SubSeq(p, 1, Len(p)) = p
  BY <1>4, SubSeqFull
<1>11. hash_state' = StateOf(p)
  BY <1>1, <1>3, <1>5, <1>8, <1>9, <1>10 DEF Process
<1>12. hash_state' = Hash(Current')
  BY <1>2, <1>11 DEF Hash, p
<1> QED BY <1>1, <1>2, <1>5, <1>12 DEF FlushInv

LEMMA OuterHashFlush ==
  ASSUME TypeOK, FlushInv, OuterHash
  PROVE  FlushInv'
<1> SUFFICES ASSUME phase' = "flush" PROVE FlushInv'
  BY DEF FlushInv
<1> DEFINE n == BlockLen + DigestLen
           block == KeyBlock(hash_key, "opad")
           inner == Put(block, 0, hash_state)
           o == KeyBlock(skey, "opad") \o Hash(Fed)
           p == Padded(o)
<1>1. /\ pc = "tail" /\ hash_mode.hmac /\ round = 0
      /\ hash_state' = Process(RoundInitState(hash_mode), block)
      /\ ~ hash_done'
      /\ EnterFinish(1, inner, n)
      /\ UNCHANGED <<hash_mode, hash_key, hist>>
  BY DEF OuterHash
<1>2. phase = "flush" /\ UNCHANGED <<skey, msg>>
  BY <1>1 DEF hist
<1>3. hash_mode.sha256 /\ hash_key = skey /\ hash_state = Hash(Fed)
  BY <1>1, <1>2 DEF FlushInv, Current
<1>4. /\ round' = 1 /\ len' = n /\ pc' = "zero"
      /\ hash_buffer' = Put(inner, n % BlockLen, <<One>>)
      /\ bufpos' = (n % BlockLen) + 1
  BY <1>1, <1>3 DEF EnterFinish
<1>5. Current' = o
  <2>1. Fed' = Fed
    BY <1>1, <1>2 DEF Fed
  <2>2. Current' = KeyBlock(skey', "opad") \o Hash(Fed')
    BY <1>4 DEF Current
  <2> QED BY <2>1, <2>2, <1>2
<1>6. /\ o \in Seq(OuterCells) /\ Len(o) = n
      /\ \A i \in 1 .. BlockLen : o[i] = KeyBlock(skey, "opad")[i]
      /\ \A i \in 1 .. DigestLen : o[BlockLen + i] = Hash(Fed)[i]
  BY OuterFacts
<1>7. n \in Nat /\ n % BlockLen = DigestLen /\ Whole(n) = BlockLen
  <2>1. DigestLen \in 0 .. BlockLen - 1 /\ BlockLen \in Nat
    BY SizesAssumption
  <2> QED BY <2>1, PlusWithin, Boundaries
<1>8. FillLen(n) \in Nat
  BY <1>7, FillLenNat
<1>9. Len(hash_state) = DigestLen
  BY <1>3, HashFacts
<1> HIDE DEF n, o
<1>10. /\ p \in Seq(OuterCells \cup PadCells)
       /\ Len(p) = n + 1 + FillLen(n) + LenLen
       /\ \A i \in 1 .. n : p[i] = o[i]
       /\ p[n + 1] = One
  <2>1. PICK z \in Nat : z = FillLen(n)
    BY <1>8
  <2>2. /\ Padded(o) \in Seq(OuterCells \cup PadCells)
        /\ Len(Padded(o)) = n + 1 + z + LenLen
        /\ \A i \in 1 .. n : Padded(o)[i] = o[i]
        /\ Padded(o)[n + 1] = One
    BY <1>6, <1>7, <2>1, PaddedFacts
  <2> QED BY <2>1, <2>2
<1> HIDE DEF p
<1>11. hash_state' = StateOf(SubSeq(p, 1, BlockLen))
  <2>1. hash_state' = Compress(IV, block)
    BY <1>1, <1>3 DEF Process, RoundInitState
  <2>2. /\ block = [i \in 1 .. BlockLen |-> block[i]]
        /\ BlockLen <= Len(o)
        /\ \A i \in 1 .. BlockLen : block[i] = o[i]
    <3>1. block = [i \in 1 .. BlockLen |-> block[i]]
      BY KeyBlockFacts
    <3>2. BlockLen <= Len(o)
      BY <1>6, SizesAssumption DEF n
    <3> QED BY <3>1, <3>2, <1>3, <1>6
  <2> HIDE DEF block
  <2>3. Compress(IV, block) = StateOf(SubSeq(o, 1, BlockLen))
    BY <2>2, <1>6, FirstBlock
  <2>4. SubSeq(o, 1, BlockLen) = SubSeq(p, 1, BlockLen)
    <3>1. /\ BlockLen \in Nat /\ BlockLen <= Len(o) /\ BlockLen <= Len(p)
          /\ \A i \in 1 .. BlockLen : o[i] = p[i]
      BY <1>6, <1>7, <1>8, <1>10, SizesAssumption DEF n
    <3> QED BY <3>1, <1>6, <1>10, SamePrefix
  <2> QED BY <2>1, <2>3, <2>4
<1>12. ASSUME NEW i \in 1 .. DigestLen + 1
       PROVE  hash_buffer'[i] = p[BlockLen + i]
  <2>1. i \in 1 .. BlockLen /\ Len(<<One>>) = 1 /\ <<One>>[1] = One
    BY SizesAssumption
  <2>2. hash_buffer'[i] = IF i \in DigestLen + 1 .. DigestLen + 1
                            THEN <<One>>[i - DigestLen] ELSE inner[i]
    BY <1>4, <1>7, <2>1 DEF Put
  <2>3. CASE i = DigestLen + 1
    <3>1. /\ i \in DigestLen + 1 .. DigestLen + 1 /\ i - DigestLen = 1
          /\ BlockLen + i = n + 1
      BY <2>3, SizesAssumption DEF n
    <3> QED BY <2>1, <2>2, <3>1, <1>10
  <2>4. CASE i # DigestLen + 1
    <3>1. /\ i \notin DigestLen + 1 .. DigestLen + 1 /\ i \in 1 .. DigestLen
          /\ i \in 0 + 1 .. 0 + DigestLen /\ i - 0 = i
          /\ BlockLen + i \in 1 .. n
      BY <2>4, SizesAssumption DEF n
    <3>2. inner[i] = hash_state[i]
      BY <2>1, <3>1, <1>9 DEF Put
    <3>3. p[BlockLen + i] = Hash(Fed)[i]
      BY <3>1, <1>6, <1>10
    <3> QED BY <2>2, <3>1, <3>2, <3>3, <1>3
  <2> QED BY <2>3, <2>4
<1>13. n < BlockLen + (DigestLen + 1) /\ BlockLen + (DigestLen + 1) <= n + 1 + FillLen(n)
  BY <1>8, SizesAssumption DEF n
<1>14. \E base \in {Whole(len'), Whole(len') + BlockLen} :
          /\ len' < base + bufpos'
          /\ base + bufpos' <= len' + 1 + FillLen(len')
          /\ hash_state' = StateOf(SubSeq(Padded(Current'), 1, base))
          /\ \A i \in 1 .. bufpos' : hash_buffer'[i] = Padded(Current')[base + i]
  <2>1. BlockLen \in {Whole(len'), Whole(len') + BlockLen}
    BY <1>4, <1>7
  <2> QED BY <2>1, <1>4, <1>5, <1>7, <1>11, <1>12, <1>13 DEF p
<1>15. hash_mode' = hash_mode /\ hash_key' = hash_key
  BY <1>1
<1> QED BY <1>1, <1>2, <1>3, <1>4, <1>5, <1>6, <1>14, <1>15 DEF FlushInv

-----------------------------------------------------------------------------
(* DoneInv and SavedInv. *)

LEMMA FinishDone ==
  ASSUME TypeOK, FlushInv, DoneInv, Finish
  PROVE  DoneInv'
<1> SUFFICES ASSUME phase' = "done" PROVE DoneInv'
  BY DEF DoneInv
<1>1. /\ pc = "tail" /\ pc' = "idle" /\ ~ (hash_mode.hmac /\ round = 0)
      /\ UNCHANGED <<hash_mode, hash_state, hash_stateptr, msg, skey, fw>>
  BY DEF Finish
<1>2. phase = "flush"
  BY <1>1 DEF Finish, DoneInv
<1>3. /\ hash_state = Hash(Current) /\ hash_stateptr = 0
      /\ round = 1 => hash_mode.hmac
  BY <1>1, <1>2 DEF FlushInv
<1>4. /\ round \in {0, 1} /\ hash_mode.hmac \in BOOLEAN
      /\ msg \in Seq(ByteCells)
  BY DEF TypeOK, RegsOK, LoopOK, HistOK, HashMode, ByteCells
<1>5. hash_state = Digest(hash_mode.hmac, skey, msg)
  <2>1. CASE hash_mode.hmac
    <3>1. round # 0
      BY <2>1, <1>1
    <3> QED BY <2>1, <3>1, <1>3 DEF Current, Digest, Fed, Message, Prefix
  <2>2. CASE ~ hash_mode.hmac
    <3>1. round = 0
      BY <2>2, <1>3, <1>4
    <3>2. Fed = << >> \o msg
      BY <2>2 DEF Fed, Message, Prefix
    <3>3. << >> \o msg = msg
      BY <1>4, ConcatEmptySeq
    <3> QED BY <2>2, <3>1, <3>2, <3>3, <1>3 DEF Current, Digest
  <2> QED BY <2>1, <2>2
<1>6. hash_stateptr' = 0 /\ hash_mode' = hash_mode
  BY <1>1, <1>3
<1>7. \A i \in 1 .. hash_stateptr' : fwWords'[i] = hash_state'[i]
  BY <1>6
<1> QED BY <1>1, <1>5, <1>6, <1>7 DEF DoneInv

LEMMA ReadDone ==
  ASSUME TypeOK, DoneInv, ReadHash
  PROVE  DoneInv'
<1> SUFFICES ASSUME phase' = "done" PROVE DoneInv'
  BY DEF DoneInv
<1>1. /\ hash_stateptr < DigestLen /\ hash_stateptr' = hash_stateptr + 1
      /\ fwWords' = [i \in 1 .. DigestLen |->
                       CASE i <= hash_stateptr -> fwWords[i]
                         [] i = hash_stateptr + 1 -> hash_state[i]
                         [] OTHER -> Zero]
      /\ UNCHANGED <<hash_mode, hash_state, pc, phase, msg, skey>>
  BY DEF ReadHash, loop
<1>2. /\ phase = "done" /\ pc = "idle"
      /\ hash_state = Digest(hash_mode.hmac, skey, msg)
      /\ \A i \in 1 .. hash_stateptr : fwWords[i] = hash_state[i]
  BY <1>1 DEF DoneInv
<1>3. hash_stateptr \in Nat /\ DigestLen \in Nat
  BY SizesAssumption DEF TypeOK, RegsOK
<1>4. ASSUME NEW i \in 1 .. hash_stateptr + 1
      PROVE  fwWords'[i] = hash_state[i]
  <2>1. i \in 1 .. DigestLen
    BY <1>1, <1>3
  <2>2. CASE i <= hash_stateptr
    BY <2>1, <2>2, <1>1, <1>2
  <2>3. CASE i = hash_stateptr + 1
    <3>1. ~ (i <= hash_stateptr)
      BY <2>3, <1>3
    <3> QED BY <2>1, <2>3, <3>1, <1>1
  <2> QED BY <2>2, <2>3, <1>3
<1>5. \A i \in 1 .. hash_stateptr' : fwWords'[i] = hash_state'[i]
  BY <1>1, <1>4
<1>6. hash_mode' = hash_mode /\ hash_state' = hash_state
  BY <1>1
<1> QED BY <1>1, <1>2, <1>5, <1>6 DEF DoneInv

LEMMA ReadSaved ==
  ASSUME TypeOK, OpenInv, SavedInv, ReadHash
  PROVE  SavedInv'
<1> DEFINE sp == hash_stateptr
<1>1. /\ pc = "idle" /\ sp < DigestLen
      /\ fwWords' = [i \in 1 .. DigestLen |->
                       CASE i <= sp -> fwWords[i]
                         [] i = sp + 1 -> hash_state[i]
                         [] OTHER -> Zero]
      /\ fwHave' = sp + 1
      /\ IF sp = 0
           THEN fwCount' = hash_count /\ fwContext' = Context
           ELSE /\ fwCount' = fwCount
                /\ fwContext' = IF fwHave = sp /\ fwContext = Context
                                  THEN Context ELSE {}
  BY DEF ReadHash
<1>2. sp \in Nat /\ DigestLen \in Nat
  BY SizesAssumption DEF TypeOK, RegsOK
<1> SUFFICES ASSUME NEW c \in fwContext'
             PROVE  LET t == Message(c.hmac, c.key, c.msg) IN
                    /\ Len(t) % BlockLen = 0
                    /\ fwCount' = Len(t)
                    /\ \A i \in 1 .. fwHave' : fwWords'[i] = StateOf(t)[i]
  BY DEF SavedInv
<1>3. c \in Context /\ (sp # 0 => fwHave = sp /\ c \in fwContext)
  BY <1>1
<1> DEFINE t == Message(c.hmac, c.key, c.msg)
<1>4. /\ phase = "open" /\ Len(msg) % BlockLen = 0 /\ t = Fed
  BY <1>3 DEF Context, Fed
<1>5. /\ Len(Fed) = hash_count + Len(todo) /\ hash_count \in Nat
      /\ hash_state = StateOf(SubSeq(Fed, 1, Whole(hash_count)))
  BY <1>4 DEF OpenInv, TypeOK, RegsOK
<1>6. Len(todo) = 0
  BY <1>1, IdleTodo DEF TypeOK
<1>7. Len(Fed) = hash_count
  BY <1>5, <1>6
<1>8. Len(Fed) % BlockLen = 0
  <2>1. /\ Len(Fed) = (IF hash_mode.hmac THEN BlockLen ELSE 0) + Len(msg)
        /\ Len(msg) \in Nat
    <3>1. hash_mode.hmac \in BOOLEAN /\ msg \in Seq(ByteCells)
      BY DEF TypeOK, RegsOK, HistOK, HashMode, ByteCells
    <3> QED BY <3>1, MessageFacts DEF Fed
  <2>2. (Len(msg) + BlockLen) % BlockLen = 0
    BY <2>1, <1>4, PlusBlock
  <2>3. /\ hash_mode.hmac => Len(Fed) = Len(msg) + BlockLen
        /\ ~ hash_mode.hmac => Len(Fed) = Len(msg)
    BY <2>1, BlockPositive
  <2> QED BY <2>2, <2>3, <1>4
<1>9. hash_state = StateOf(Fed)
  <2>1. Whole(hash_count) = hash_count
    BY <1>5, <1>7, <1>8 DEF Whole
  <2>2. SubSeq(Fed, 1, Len(Fed)) = Fed
    BY FedFacts, SubSeqFull
  <2> QED BY <2>1, <2>2, <1>5, <1>7
<1> HIDE DEF t
<1>10. sp # 0 => fwCount = Len(t) /\ \A i \in 1 .. sp : fwWords[i] = StateOf(t)[i]
  BY <1>3 DEF SavedInv, t
<1>11. fwCount' = Len(t)
  BY <1>1, <1>4, <1>7, <1>10
<1>12. ASSUME NEW i \in 1 .. sp + 1
       PROVE  fwWords'[i] = StateOf(t)[i]
  <2>1. i \in 1 .. DigestLen
    BY <1>1, <1>2
  <2>2. CASE i <= sp
    <3>1. i \in 1 .. sp /\ sp # 0
      BY <2>2, <1>2
    <3>2. i # sp + 1
      BY <2>2, <1>2
    <3>3. fwWords'[i] = fwWords[i]
      BY <2>1, <2>2, <3>2, <1>1, <1>2
    <3> QED BY <3>1, <3>3, <1>10
  <2>3. CASE i = sp + 1
    <3>1. ~ (i <= sp)
      BY <2>3, <1>2
    <3>2. fwWords'[i] = hash_state[i]
      BY <2>1, <2>3, <3>1, <1>1
    <3> QED BY <3>2, <1>4, <1>9
  <2> QED BY <2>2, <2>3, <1>2
<1>13. \A i \in 1 .. fwHave' : fwWords'[i] = StateOf(t)[i]
  BY <1>1, <1>12
<1> QED BY <1>4, <1>8, <1>11, <1>13 DEF t

-----------------------------------------------------------------------------
(* IInv, action by action.  What an action does not name it cannot disturb. *)

LEMMA InitIInv == Init => IInv
<1> SUFFICES ASSUME Init PROVE IInv
  OBVIOUS
<1>1. TypeOK
  BY InitTypeOK
<1>2. phase = "none" /\ fwContext = {}
  BY DEF Init
<1> QED BY <1>1, <1>2 DEF IInv, ModeInv, OpenInv, FlushInv, DoneInv, SavedInv

LEMMA SavedUnchanged ==
  ASSUME SavedInv, UNCHANGED <<fwWords, fwHave, fwCount, fwContext>>
  PROVE  SavedInv'
  BY DEF SavedInv

LEMMA SameMessage ==
  ASSUME UNCHANGED <<hash_mode, skey, msg, round>>
  PROVE  Fed' = Fed /\ Current' = Current
  BY DEF Fed, Current

(* WriteMode enters ModeInv, ... *)
LEMMA WriteModeIInv ==
  ASSUME IInv, NEW m \in HashMode, WriteMode(m)
  PROVE  ModeInv' /\ OpenInv' /\ FlushInv' /\ DoneInv' /\ SavedInv'
<1>1. /\ hash_mode' = m /\ hash_count' = 0 /\ ~ hash_done' /\ pc' = "idle"
      /\ hash_state' = RoundInitState(m) /\ fwBack' = 0
      /\ phase' = IF m.sha256 THEN "mode" ELSE "none"
  BY DEF WriteMode, Enter, loop
<1>2. SavedInv'
  BY SavedUnchanged DEF IInv, WriteMode
<1>3. ModeInv'
  <2> SUFFICES ASSUME phase' = "mode" PROVE ModeInv'
    BY DEF ModeInv
  <2>1. m.sha256 /\ hash_state' = IV
    BY <1>1 DEF RoundInitState
  <2>2. \A i \in 1 .. fwBack' : hash_state'[i] = fwWords'[i]
    BY <1>1
  <2> QED BY <1>1, <2>1, <2>2 DEF ModeInv
<1> QED BY <1>1, <1>2, <1>3 DEF OpenInv, FlushInv, DoneInv

(* ... WriteHash stays in it while firmware puts its words back, ... *)
LEMMA WriteHashIInv ==
  ASSUME IInv, WriteHash
  PROVE  ModeInv' /\ OpenInv' /\ FlushInv' /\ DoneInv' /\ SavedInv'
<1> DEFINE restoring == phase = "mode" /\ hash_stateptr = fwBack
<1>1. /\ pc = "idle" /\ hash_stateptr < DigestLen
      /\ hash_state' = [hash_state EXCEPT ![hash_stateptr + 1] =
                                            fwWords[hash_stateptr + 1]]
      /\ phase' = IF restoring THEN "mode" ELSE "none"
      /\ fwBack' = IF restoring THEN fwBack + 1 ELSE fwBack
      /\ UNCHANGED <<hash_mode, hash_count, hash_done, pc, fwWords, fwHave,
                     fwCount, fwContext>>
  BY DEF WriteHash, Enter, loop
<1>2. SavedInv'
  BY <1>1, SavedUnchanged DEF IInv
<1>3. ModeInv'
  <2> SUFFICES ASSUME phase' = "mode" PROVE ModeInv'
    BY DEF ModeInv
  <2>1. restoring
    BY <1>1
  <2>2. /\ hash_mode.sha256 /\ hash_count = 0 /\ ~ hash_done
        /\ fwContext # {} => \A i \in 1 .. fwBack : hash_state[i] = fwWords[i]
    BY <2>1 DEF IInv, ModeInv
  <2>3. /\ fwBack \in Nat /\ DigestLen \in Nat /\ fwBack < DigestLen
        /\ hash_state = [i \in 1 .. DigestLen |-> hash_state[i]]
    BY <1>1, <2>1, SizesAssumption DEF IInv, TypeOK, RegsOK, HistOK
  <2>4. fwBack' = fwBack + 1 /\ fwBack' # 0
    BY <1>1, <2>1, <2>3
  <2>5. ASSUME fwContext # {}, NEW i \in 1 .. fwBack + 1
        PROVE  hash_state'[i] = fwWords[i]
    <3>1. i \in 1 .. DigestLen /\ fwBack + 1 \in 1 .. DigestLen
      BY <2>3
    <3>2. hash_state' = [hash_state EXCEPT ![fwBack + 1] = fwWords[fwBack + 1]]
      BY <1>1, <2>1
    <3>3. CASE i = fwBack + 1
      BY <3>1, <3>2, <3>3, <2>3
    <3>4. CASE i # fwBack + 1
      <4>1. i \in 1 .. fwBack
        BY <3>4, <2>3
      <4>2. hash_state'[i] = hash_state[i]
        BY <3>1, <3>2, <3>4, <2>3
      <4> QED BY <4>1, <4>2, <2>2, <2>5
    <3> QED BY <3>3, <3>4
  <2>6. /\ hash_mode'.sha256 /\ hash_count' = 0 /\ ~ hash_done' /\ pc' = "idle"
        /\ fwContext' = fwContext /\ fwWords' = fwWords
    BY <1>1, <2>2
  <2> QED BY <2>4, <2>5, <2>6 DEF ModeInv
<1> QED BY <1>1, <1>2, <1>3 DEF OpenInv, FlushInv, DoneInv

(* ... and a read during it saves nothing. *)
LEMMA ReadHashIInv ==
  ASSUME IInv, ReadHash
  PROVE  ModeInv' /\ OpenInv' /\ FlushInv' /\ DoneInv' /\ SavedInv'
<1>1. /\ pc = "idle"
      /\ UNCHANGED <<hash_mode, hash_key, hash_buffer, hash_state, hash_count,
                     hash_done, pc, todo, round, bufpos, len, phase, msg, skey,
                     fwBack>>
  BY DEF ReadHash, loop
<1>2. SavedInv' /\ DoneInv'
  BY ReadSaved, ReadDone DEF IInv
<1>3. ModeInv'
  <2> SUFFICES ASSUME phase' = "mode" PROVE ModeInv'
    BY DEF ModeInv
  <2>1. Context = {}
    BY <1>1 DEF Context
  <2>2. fwContext' = {}
    BY <2>1 DEF ReadHash
  <2>3. /\ hash_mode.sha256 /\ hash_count = 0 /\ ~ hash_done
        /\ fwBack = 0 => hash_state = IV
    BY <1>1 DEF IInv, ModeInv
  <2>4. /\ hash_mode'.sha256 /\ hash_count' = 0 /\ ~ hash_done' /\ pc' = "idle"
        /\ fwBack' = 0 => hash_state' = IV
    BY <1>1, <2>3
  <2> QED BY <2>2, <2>4 DEF ModeInv
<1>4. OpenInv'
  <2>1. Fed' = Fed
    BY <1>1 DEF Fed
  <2>2. OpenInv
    BY DEF IInv
  <2> QED BY <1>1, <2>1, <2>2 DEF OpenInv
<1>5. FlushInv'
  <2>1. phase # "flush"
    BY <1>1 DEF IInv, FlushInv
  <2> QED BY <1>1, <2>1 DEF FlushInv
<1> QED BY <1>2, <1>3, <1>4, <1>5

(* Clearing the done bit or loading a key between two accesses. *)
LEMMA AsideIInv ==
  ASSUME IInv, ClearDone \/ (\E k \in Keys : LoadKey(k))
  PROVE  ModeInv' /\ OpenInv' /\ FlushInv' /\ DoneInv' /\ SavedInv'
<1>1. /\ pc = "idle"
      /\ ~ hash_done' \/ hash_done' = hash_done
      /\ UNCHANGED <<hash_mode, hash_buffer, hash_state, hash_count,
                     hash_stateptr, pc, todo, round, phase, msg, skey,
                     fwWords, fwHave, fwCount, fwContext, fwBack>>
  BY DEF ClearDone, LoadKey, loop, hist, fw
<1>2. SavedInv'
  BY <1>1, SavedUnchanged DEF IInv
<1>3. ModeInv'
  BY <1>1 DEF IInv, ModeInv
<1>4. OpenInv'
  <2>1. Fed' = Fed
    BY <1>1 DEF Fed
  <2>2. OpenInv
    BY DEF IInv
  <2> QED BY <1>1, <2>1, <2>2 DEF OpenInv
<1>5. FlushInv'
  <2>1. phase # "flush"
    BY <1>1 DEF IInv, FlushInv
  <2> QED BY <1>1, <2>1 DEF FlushInv
<1>6. DoneInv'
  BY <1>1 DEF IInv, DoneInv
<1> QED BY <1>2, <1>3, <1>4, <1>5, <1>6

LEMMA NextIInv == IInv /\ [Next]_vars => IInv'
<1> SUFFICES ASSUME IInv, [Next]_vars PROVE IInv'
  OBVIOUS
<1> DEFINE Rest == ModeInv' /\ OpenInv' /\ FlushInv' /\ DoneInv' /\ SavedInv'
<1>0. TypeOK /\ ModeInv /\ OpenInv /\ FlushInv /\ DoneInv /\ SavedInv /\ TypeOK'
  BY NextTypeOK DEF IInv
<1>1. ASSUME Start PROVE Rest
  <2>1. phase' \in {"open", "none"} /\ UNCHANGED fw
    BY <1>1 DEF Start, Enter
  <2>2. OpenInv' /\ SavedInv'
    BY <1>0, <1>1, <2>1, StartOpen, SavedUnchanged DEF fw
  <2> QED BY <2>1, <2>2 DEF ModeInv, FlushInv, DoneInv
<1>2. ASSUME NEW d \in Chunks, Data(d) PROVE Rest
  <2>1. phase' \in {"open", "none"} /\ UNCHANGED fw
    BY <1>2 DEF Data, Enter
  <2>2. OpenInv' /\ SavedInv'
    BY <1>0, <1>2, <2>1, DataOpen, SavedUnchanged DEF fw
  <2> QED BY <2>1, <2>2 DEF ModeInv, FlushInv, DoneInv
<1>3. ASSUME Flush PROVE Rest
  <2>1. phase' \in {"flush", "none"} /\ UNCHANGED fw
    BY <1>3 DEF Flush, Enter
  <2>2. FlushInv' /\ SavedInv'
    BY <1>0, <1>3, <2>1, FlushFlush, SavedUnchanged DEF fw
  <2> QED BY <2>1, <2>2 DEF ModeInv, OpenInv, DoneInv
<1>4. ASSUME WriteCount PROVE Rest
  <2>1. phase' \in {"open", "none"} /\ UNCHANGED fw
    BY <1>4 DEF WriteCount, Enter
  <2>2. OpenInv' /\ SavedInv'
    BY <1>0, <1>4, <2>1, WriteCountOpen, SavedUnchanged DEF fw
  <2> QED BY <2>1, <2>2 DEF ModeInv, FlushInv, DoneInv
<1>5. ASSUME Copy PROVE Rest
  <2>1. pc = "data" /\ UNCHANGED phase /\ UNCHANGED fw
    BY <1>5 DEF Copy, hist
  <2>2. phase \notin {"mode", "flush", "done"}
    BY <1>0, <2>1 DEF ModeInv, FlushInv, DoneInv
  <2>3. OpenInv' /\ SavedInv'
    BY <1>0, <1>5, <2>1, CopyOpen, SavedUnchanged DEF fw
  <2> QED BY <2>1, <2>2, <2>3 DEF ModeInv, FlushInv, DoneInv
<1>6. ASSUME FillZero \/ FillLength \/ OuterHash PROVE Rest
  <2>1. pc \in {"zero", "tail"} /\ UNCHANGED phase /\ UNCHANGED fw
    BY <1>6 DEF FillZero, FillLength, OuterHash, hist
  <2>2. phase \notin {"mode", "open", "done"}
    BY <1>0, <2>1 DEF ModeInv, OpenInv, DoneInv
  <2>3. FlushInv' /\ SavedInv'
    BY <1>0, <1>6, <2>1, FillZeroFlush, FillLengthFlush, OuterHashFlush,
       SavedUnchanged DEF fw
  <2> QED BY <2>1, <2>2, <2>3 DEF ModeInv, OpenInv, DoneInv
<1>7. ASSUME Finish PROVE Rest
  <2>1. /\ pc = "tail" /\ UNCHANGED fw
        /\ phase' = IF phase = "flush" THEN "done" ELSE phase
    BY <1>7 DEF Finish, fw
  <2>2. phase \notin {"mode", "open", "done"}
    BY <1>0, <2>1 DEF ModeInv, OpenInv, DoneInv
  <2>3. DoneInv' /\ SavedInv'
    BY <1>0, <1>7, <2>1, FinishDone, SavedUnchanged DEF fw
  <2> QED BY <2>1, <2>2, <2>3 DEF ModeInv, OpenInv, FlushInv
<1>8. ASSUME UNCHANGED vars PROVE Rest
  <2>1. UNCHANGED <<core, pc, todo, round, bufpos, len, phase, msg, skey, fw>>
    BY <1>8 DEF vars, loop, hist
  <2>2. Fed' = Fed /\ Current' = Current
    BY <2>1, SameMessage DEF core
  <2> QED BY <1>0, <2>1, <2>2 DEF core, fw, ModeInv, OpenInv, FlushInv, DoneInv,
                               SavedInv
<1>9. Rest
  <2> HIDE DEF Rest
  <2>1. ASSUME NEW m \in HashMode, WriteMode(m) PROVE Rest
    BY <2>1, WriteModeIInv DEF Rest
  <2>2. ASSUME WriteHash PROVE Rest
    BY <2>2, WriteHashIInv DEF Rest
  <2>3. ASSUME ReadHash PROVE Rest
    BY <2>3, ReadHashIInv DEF Rest
  <2>4. ASSUME ClearDone \/ (\E k \in Keys : LoadKey(k)) PROVE Rest
    BY <2>4, AsideIInv DEF Rest
  <2> QED BY <1>1, <1>2, <1>3, <1>4, <1>5, <1>6, <1>7, <1>8, <2>1, <2>2, <2>3,
             <2>4 DEF Next, Access, Turn
<1> QED BY <1>0, <1>9 DEF IInv

(* The state of the unit is what IInv says at every step of every access.  *)
THEOREM Inductive == Spec => []IInv
  BY InitIInv, NextIInv, PTL DEF Spec

(* hash_round_finish: the words of HASH are the FIPS 180 digest or the     *)
(* HMAC of what firmware sent, for every size, message and transfer.       *)
THEOREM DigestIsCorrect == Spec => []DigestCorrect
<1>1. IInv => DigestCorrect
  BY DEF IInv, DoneInv, DigestCorrect
<1> QED BY <1>1, Inductive, PTL

(* hash_read: the words firmware has read after a flush are the first ones *)
(* of that digest, in order.                                               *)
THEOREM DigestIsReadable == Spec => []DigestReadable
<1>1. IInv => DigestReadable
  BY DEF IInv, DoneInv, DigestReadable
<1> QED BY <1>1, Inductive, PTL

(* hash_status1: bit 2 is never set while a message is open or is being    *)
(* padded, not even between the two hashes of an HMAC.                     *)
THEOREM DoneOnlyWhenDone == Spec => []DoneIsDone
<1>1. IInv => DoneIsDone
  BY DEF IInv, OpenInv, FlushInv, DoneIsDone
<1> QED BY <1>1, Inductive, PTL

(* hash_dma_write and the HASH and COUNT registers: while a message is     *)
(* open, every cell of it is compressed, buffered or still to be copied,   *)
(* once and in order.                                                      *)
THEOREM NothingIsLost == Spec => []NothingLost
<1>1. IInv => NothingLost
  <2> SUFFICES ASSUME IInv, phase = "open" PROVE NothingLost
    BY DEF NothingLost
  <2> DEFINE n == hash_count
             w == Whole(n)
             r == n % BlockLen
             held == SubSeq(hash_buffer, 1, r)
             rest == DataCells(todo)
  <2>1. /\ Len(Fed) = n + Len(todo)
        /\ hash_state = StateOf(SubSeq(Fed, 1, w))
        /\ \A i \in 1 .. r : hash_buffer[i] = Fed[w + i]
        /\ \A i \in 1 .. Len(todo) : <<"byte", todo[i]>> = Fed[n + i]
    BY DEF IInv, OpenInv
  <2>2. /\ n \in Nat /\ todo \in Seq(Bytes) /\ Len(todo) \in Nat
        /\ Fed \in Seq(FedCells) /\ Len(Fed) \in Nat
    BY FedFacts, LenProperties DEF IInv, TypeOK, RegsOK, LoopOK
  <2>3. w \in Nat /\ n = w + r /\ r \in Nat
    <3>1. w \in Nat /\ n = w + r /\ r \in 0 .. BlockLen - 1
      BY <2>2, WholeFacts
    <3> QED BY <3>1
  <2> HIDE DEF n, w, r
  <2>4. held \in Seq(FedCells) /\ Len(held) = r /\ \A i \in 1 .. r : held[i] = Fed[w + i]
    <3>1. ASSUME NEW i \in 1 .. r PROVE hash_buffer[i] \in FedCells
      <4>1. w + i \in 1 .. Len(Fed)
        BY <2>1, <2>2, <2>3
      <4> QED BY <4>1, <2>1, <2>2, ElementOfSeq
    <3>2. /\ held \in Seq(FedCells)
          /\ Len(held) = IF 1 <= r THEN r - 1 + 1 ELSE 0
          /\ \A i \in 1 .. r - 1 + 1 : held[i] = hash_buffer[1 + i - 1]
      BY <2>3, <3>1, SubSeqProperties
    <3>3. r - 1 + 1 = r /\ \A i \in 1 .. r : 1 + i - 1 = i
      BY <2>3
    <3> HIDE DEF held
    <3>4. Len(held) = r
      BY <3>2, <3>3, <2>3
    <3>5. \A i \in 1 .. r : held[i] = hash_buffer[i]
      BY <3>2, <3>3
    <3> QED BY <3>2, <3>4, <3>5, <2>1
  <2>5. /\ rest \in Seq(FedCells) /\ Len(rest) = Len(todo)
        /\ \A i \in 1 .. Len(todo) : rest[i] = Fed[n + i]
    <3>1. /\ rest \in Seq(ByteCells) /\ Len(rest) = Len(todo)
          /\ \A i \in 1 .. Len(todo) : rest[i] = <<"byte", todo[i]>>
      BY <2>2, DataCellsType DEF ByteCells
    <3>2. ByteCells \subseteq FedCells
      BY DEF FedCells, MessageCells
    <3> HIDE DEF rest
    <3>3. rest \in Seq(FedCells)
      BY <3>1, <3>2, SeqMonotonic
    <3> QED BY <3>1, <3>3, <2>1
  <2> HIDE DEF held, rest
  <2>6. SubSeq(Fed, 1, w) \o held = SubSeq(Fed, 1, n)
    <3>1. w + r <= Len(Fed)
      BY <2>1, <2>2, <2>3
    <3>2. SubSeq(Fed, 1, w) \o held = SubSeq(Fed, 1, w + r)
      BY <3>1, <2>2, <2>3, <2>4, PrefixPlus
    <3> QED BY <3>2, <2>3
  <2>7. SubSeq(Fed, 1, n) \o rest = Fed
    <3>1. n + Len(todo) <= Len(Fed)
      BY <2>1, <2>2
    <3>2. SubSeq(Fed, 1, n) \o rest = SubSeq(Fed, 1, n + Len(todo))
      BY <3>1, <2>2, <2>5, PrefixPlus
    <3>3. SubSeq(Fed, 1, Len(Fed)) = Fed
      BY <2>2, SubSeqFull
    <3> QED BY <3>2, <3>3, <2>1
  <2>8. Absorbed(hash_state) = SubSeq(Fed, 1, w)
    BY <2>1, AbsorbedOfState
  <2> QED BY <2>6, <2>7, <2>8 DEF NothingLost, held, rest, n, r, Fed, Message
<1> QED BY <1>1, Inductive, PTL

-----------------------------------------------------------------------------
(* The refinement. *)

(* The terms of the specification are those of the unit.                   *)
LEMMA SameTerms ==
  /\ Abstract!Context = Context
  /\ \A h, k, m : Abstract!Digest(h, k, m) = Digest(h, k, m)
  /\ \A d : Abstract!DataCells(d) = DataCells(d)
<1>1. Abstract!Context = Context
  BY DEF Abstract!Context, Context
<1>2. \A d : Abstract!DataCells(d) = DataCells(d)
  BY DEF Abstract!DataCells, DataCells
<1>3. \A h, k, m : Abstract!Digest(h, k, m) = Digest(h, k, m)
  BY Zenon DEF Abstract!Digest, Digest, Abstract!Hash, Hash, Abstract!StateOf, StateOf,
     Abstract!Padded, Padded, Abstract!One, One, Abstract!Zeros, Zeros, Abstract!Zero, Zero,
     Abstract!LenField, LenField, Abstract!FillLen, FillLen, Abstract!KeyBlock, KeyBlock
<1> QED BY <1>1, <1>2, <1>3

(* Between two accesses nothing is being padded, and inside of one no       *)
(* digest is there.                                                        *)
LEMMA IdleIsNoFlush == ASSUME IInv, pc = "idle" PROVE phase # "flush"
BY DEF IInv, FlushInv

LEMMA BusyIsNotDone == ASSUME IInv, pc # "idle" PROVE phase # "done"
BY DEF IInv, DoneInv

(* Every step of the unit is one of the protocol, or none of it: a register *)
(* access is the move that it is meant for, or leaves the protocol; the    *)
(* turns of the loops show nothing but their end; and a digest is there    *)
(* only when it is the right one (DoneInv, after the step).                *)
LEMMA StepRefines ==
  ASSUME IInv, IInv', [Next]_vars
  PROVE  [Abstract!Next]_(Abstract!vars)
<1>0. TypeOK /\ TypeOK' /\ DigestLen \in Nat \ {0}
  BY SizesAssumption DEF IInv
<1> USE <1>0
<1>1. ASSUME NEW m \in HashMode, WriteMode(m) PROVE Abstract!Next
  <2>1. phase # "flush" /\ hash_mode' = m /\ msg' = << >> /\ skey' = skey
        /\ fwHave' = fwHave /\ fwContext' = fwContext /\ m.hmac \in BOOLEAN
    BY <1>1, IdleIsNoFlush DEF WriteMode, HashMode
  <2>2. phase' = IF m.sha256 THEN "mode" ELSE "none"
    BY <1>1 DEF WriteMode, Enter
  <2>3. CASE m.sha256
    <3> Abstract!Choose(m.hmac)
      BY <2>1, <2>2, <2>3 DEF Abstract!Choose
    <3> QED BY <2>1 DEF Abstract!Next
  <2>4. CASE ~ m.sha256
    <3> Abstract!Abandon
      BY <2>1, <2>2, <2>4 DEF Abstract!Abandon, TypeOK, HistOK
    <3> QED BY DEF Abstract!Next
  <2> QED BY <2>3, <2>4
<1>2. CASE Start
  <2>1. phase # "flush" /\ hash_mode' = hash_mode /\ msg' = << >> /\ skey' = hash_key
        /\ fwHave' = fwHave /\ fwContext' = fwContext
        /\ hash_mode.hmac \in BOOLEAN /\ hash_key \in Keys
    BY <1>2, IdleIsNoFlush DEF Start, fw, TypeOK, RegsOK, HashMode
  <2>2. phase' = IF phase = "mode" /\ fwBack = 0 THEN "open" ELSE "none"
    BY <1>2 DEF Start, Enter
  <2>3. CASE phase = "mode" /\ fwBack = 0
    <3> Abstract!Start(hash_key)
      BY <2>1, <2>2, <2>3 DEF Abstract!Start
    <3> QED BY <2>1 DEF Abstract!Next
  <2>4. CASE ~ (phase = "mode" /\ fwBack = 0)
    <3> Abstract!Abandon
      BY <2>1, <2>2, <2>4 DEF Abstract!Abandon
    <3> QED BY DEF Abstract!Next
  <2> QED BY <2>3, <2>4
<1>3. ASSUME NEW d \in Chunks, Data(d) PROVE Abstract!Next
  <2>1. phase # "flush" /\ hash_mode' = hash_mode /\ skey' = skey
        /\ fwHave' = fwHave /\ fwContext' = fwContext
        /\ hash_mode.hmac \in BOOLEAN /\ skey \in Keys
        /\ msg' = IF phase = "open" THEN msg \o DataCells(d) ELSE msg
    BY <1>3, IdleIsNoFlush DEF Data, core, fw, TypeOK, RegsOK, HistOK, HashMode
  <2>2. phase' = IF phase = "open" THEN "open" ELSE "none"
    BY <1>3 DEF Data, Enter
  <2>3. CASE phase = "open"
    <3> Abstract!Feed(d)
      BY <2>1, <2>2, <2>3, SameTerms DEF Abstract!Feed
    <3> QED BY DEF Abstract!Next
  <2>4. CASE phase # "open"
    <3> Abstract!Abandon
      BY <2>1, <2>2, <2>4 DEF Abstract!Abandon
    <3> QED BY DEF Abstract!Next
  <2> QED BY <2>3, <2>4
<1>4. CASE Flush
  <2>1. phase # "flush" /\ hash_mode' = hash_mode /\ skey' = skey /\ msg' = msg
        /\ fwHave' = fwHave /\ fwContext' = fwContext
        /\ hash_mode.hmac \in BOOLEAN /\ skey \in Keys
    BY <1>4, IdleIsNoFlush DEF Flush, fw, TypeOK, RegsOK, HistOK, HashMode
  <2>2. (phase' = "flush" /\ phase = "open") \/ phase' = "none"
    BY <1>4 DEF Flush, Enter
  <2>3. CASE phase' = "flush" /\ phase = "open"
    <3> Abstract!Flush
      BY <2>1, <2>3 DEF Abstract!Flush
    <3> QED BY DEF Abstract!Next
  <2>4. CASE phase' = "none"
    <3> Abstract!Abandon
      BY <2>1, <2>4 DEF Abstract!Abandon
    <3> QED BY DEF Abstract!Next
  <2> QED BY <2>2, <2>3, <2>4
<1>5. CASE ReadHash
  <2>1. /\ phase' = phase /\ msg' = msg /\ skey' = skey /\ hash_mode' = hash_mode
        /\ hash_state' = hash_state
    BY <1>5 DEF ReadHash
  <2>2. fwContext' \in {{}, Context} \/ fwHave' # DigestLen
    <3>1. hash_stateptr = 0 => fwContext' = Context
      BY <1>5 DEF ReadHash
    <3>2. hash_stateptr # 0 => fwContext' \in {{}, Context}
      BY <1>5 DEF ReadHash
    <3> QED BY <3>1, <3>2
  <2>3. CASE fwHave' # DigestLen \/ fwContext' = {}
    <3> Abstract!Forget
      BY <2>1, <2>3 DEF Abstract!Forget
    <3> QED BY DEF Abstract!Next
  <2>4. CASE fwHave' = DigestLen /\ fwContext' = Context /\ Context # {}
    <3> Abstract!Suspend
      BY <2>1, <2>4, SameTerms DEF Abstract!Suspend
    <3> QED BY DEF Abstract!Next
  <2> QED BY <2>2, <2>3, <2>4
<1>6. CASE WriteHash
  <2>1. /\ phase # "flush" /\ hash_mode' = hash_mode /\ skey' = skey /\ msg' = msg
        /\ fwHave' = fwHave /\ fwContext' = fwContext
        /\ hash_mode.hmac \in BOOLEAN /\ skey \in Keys
    BY <1>6, IdleIsNoFlush DEF WriteHash, TypeOK, RegsOK, HistOK, HashMode
  <2>2. (phase' = "mode" /\ phase = "mode") \/ phase' = "none"
    BY <1>6 DEF WriteHash, Enter
  <2>3. CASE phase' = "mode" /\ phase = "mode"
    BY <2>1, <2>3 DEF Abstract!vars
  <2>4. CASE phase' = "none"
    <3> Abstract!Abandon
      BY <2>1, <2>4 DEF Abstract!Abandon
    <3> QED BY DEF Abstract!Next
  <2> QED BY <2>2, <2>3, <2>4
<1>7. CASE WriteCount
  <2> DEFINE back == {c \in fwContext :
                        /\ phase = "mode"
                        /\ fwBack = DigestLen /\ fwHave = DigestLen
                        /\ c.hmac = hash_mode.hmac}
  <2>1. /\ phase # "flush" /\ hash_mode' = hash_mode
        /\ fwHave' = fwHave /\ fwContext' = fwContext
        /\ hash_mode.hmac \in BOOLEAN /\ skey \in Keys
    BY <1>7, IdleIsNoFlush DEF WriteCount, fw, TypeOK, RegsOK, HistOK, HashMode
  <2>2. IF back = {} THEN phase' = "none" /\ msg' = msg /\ skey' = skey
                     ELSE phase' = "open" /\ \E c \in back : msg' = c.msg /\ skey' = c.key
    BY <1>7 DEF WriteCount, Enter
  <2>3. CASE back # {}
    <3>1. PICK c \in back : msg' = c.msg /\ skey' = c.key
      BY <2>2, <2>3
    <3> Abstract!Resume
      BY <2>1, <2>2, <2>3, <3>1 DEF Abstract!Resume
    <3> QED BY DEF Abstract!Next
  <2>4. CASE back = {}
    <3> Abstract!Abandon
      BY <2>1, <2>2, <2>4 DEF Abstract!Abandon
    <3> QED BY DEF Abstract!Next
  <2> QED BY <2>3, <2>4
<1>8. CASE ClearDone
  BY <1>8 DEF ClearDone, hist, fw, Abstract!vars
<1>9. ASSUME NEW k \in Keys, LoadKey(k) PROVE UNCHANGED Abstract!vars
  BY <1>9 DEF LoadKey, hist, fw, Abstract!vars
<1>10. CASE Copy \/ FillZero \/ FillLength \/ OuterHash
  <2>1. phase' = phase /\ msg' = msg /\ skey' = skey /\ hash_mode' = hash_mode
        /\ fwHave' = fwHave /\ fwContext' = fwContext /\ pc # "idle"
    BY <1>10 DEF Copy, FillZero, FillLength, OuterHash, hist, fw
  <2>2. phase # "done"
    BY <2>1, BusyIsNotDone
  <2> QED BY <2>1, <2>2 DEF Abstract!vars
<1>11. CASE Finish
  <2>1. msg' = msg /\ skey' = skey /\ hash_mode' = hash_mode /\ hash_state' = hash_state
        /\ fwHave' = fwHave /\ fwContext' = fwContext
        /\ phase' = (IF phase = "flush" THEN "done" ELSE phase)
    BY <1>11 DEF Finish, fw
  <2>2. CASE phase = "flush"
    <3>1. hash_state' = Digest(hash_mode.hmac, skey, msg)
      BY <2>1, <2>2 DEF IInv, DoneInv
    <3> Abstract!Finish
      BY <2>1, <2>2, <3>1, SameTerms DEF Abstract!Finish
    <3> QED BY DEF Abstract!Next
  <2>3. CASE phase # "flush"
    BY <2>1, <2>3 DEF Abstract!vars
  <2> QED BY <2>2, <2>3
<1>12. CASE UNCHANGED vars
  BY <1>12 DEF vars, core, hist, fw, Abstract!vars
<1> QED BY <1>1, <1>2, <1>3, <1>4, <1>5, <1>6, <1>7, <1>8, <1>9, <1>10, <1>11, <1>12
        DEF Next, Access, Turn

(* The unit keeps the promise of HashSpec to firmware that follows the     *)
(* register protocol, and to all other firmware that of Abandon: whatever  *)
(* the accesses are, every behaviour of the unit is one of HashSpec        *)
(* (hash_write, hash_read, hash_dma_write, hash_round_finish).             *)
THEOREM UnitRefinesHashSpec == Spec => ImplementsHashSpec
<1>1. Init => Abstract!Init
  BY SizesAssumption DEF Init, Abstract!Init
<1>2. IInv /\ IInv' /\ [Next]_vars => [Abstract!Next]_(Abstract!vars)
  BY StepRefines
<1>3. Spec => []IInv
  BY Inductive
<1> QED BY <1>1, <1>2, <1>3, PTL DEF Spec, ImplementsHashSpec, Abstract!Spec
=============================================================================
