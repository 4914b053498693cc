------------------------------ MODULE SksProofs ------------------------------
(***************************************************************************)
(* The key store for any number of slots and any writes: the type          *)
(* invariant, that the slots do not touch each other, that a key given     *)
(* through DATA is stored once, and what a command may do.                 *)
(***************************************************************************)
EXTENDS Sks, SequenceTheorems, TLAPS

Keys == [1 .. 2 -> Halves]
Stores == [0 .. 3 * Half - 1 -> Halves]

(* The history, which TypeOK does not speak of. *)
HeldOK == held \in [Slots -> Seq(Halves)]

(* The halves that came through DATA: where they stand in the data buffer,  *)
(* that they are older than the next one, and that none is in the buffer   *)
(* and in the store.                                                       *)
DataOnce(db, store, n) ==
  /\ \A i \in 1 .. 2 : db[i][1] = "data" => db[i][2] <= n /\ db[i][3] = i
  /\ \A g \in DOMAIN store : store[g][1] = "data" => store[g][2] <= n
  /\ \A i \in 1 .. 2, g \in DOMAIN store : db[i][1] = "data" => db[i] # store[g]
  /\ \A g, h \in DOMAIN store : store[g][1] = "data" /\ store[g] = store[h] => g = h

HashIsNoData == \A i \in 1 .. 2 : hash_state[i][1] # "data"

Inv ==
  /\ TypeOK /\ HeldOK /\ StoreHolds
  /\ DataOnce(sks_databuf, sks_keystore, fresh) /\ HashIsNoData

-----------------------------------------------------------------------------
(* The slots in the store. *)

(* The key of a slot lies in the store. *)
LEMMA KeyInStore ==
  ASSUME NEW s \in Slots
  PROVE  /\ KeyAt(s) \in Nat /\ KeySize(s) \in 1 .. 2
         /\ \A i \in 1 .. KeySize(s) : KeyAt(s) + i - 1 \in 0 .. 3 * Half - 1
  BY HalfAssumption DEF Slots, KeyAt, KeySize

(* The keys of two slots have no half in common. *)
LEMMA KeysApart ==
  ASSUME NEW s \in Slots, NEW t \in Slots, s # t,
         NEW i \in 1 .. KeySize(t)
  PROVE  KeyAt(t) + i - 1 \notin KeyAt(s) .. KeyAt(s) + KeySize(s) - 1
  BY HalfAssumption DEF Slots, KeyAt, KeySize

LEMMA PutType ==
  ASSUME NEW s \in Slots, NEW store \in Stores, NEW key \in Keys
  PROVE  PutKey(store, s, key) \in Stores
<1>1. ASSUME NEW h \in 0 .. 3 * Half - 1
      PROVE  (IF h \in KeyAt(s) .. KeyAt(s) + KeySize(s) - 1
                THEN key[h - KeyAt(s) + 1] ELSE store[h]) \in Halves
  <2>1. CASE h \in KeyAt(s) .. KeyAt(s) + KeySize(s) - 1
    <3>1. h - KeyAt(s) + 1 \in 1 .. 2
      BY <2>1, KeyInStore
    <3> QED BY <2>1, <3>1 DEF Keys
  <2>2. CASE h \notin KeyAt(s) .. KeyAt(s) + KeySize(s) - 1
    BY <2>2 DEF Stores
  <2> QED BY <2>1, <2>2
<1> QED BY <1>1 DEF PutKey, Stores

(* A slot that is given a key has it ... *)
LEMMA PutGives ==
  ASSUME NEW s \in Slots, NEW store \in Stores, NEW key \in Keys
  PROVE  KeyOf(PutKey(store, s, key), s) = SubSeq(key, 1, KeySize(s))
<1>1. ASSUME NEW i \in 1 .. KeySize(s)
      PROVE  PutKey(store, s, key)[KeyAt(s) + i - 1] = key[i]
  <2>1. KeyAt(s) + i - 1 \in DOMAIN store
    BY KeyInStore DEF Stores
  <2>2. /\ KeyAt(s) + i - 1 \in KeyAt(s) .. KeyAt(s) + KeySize(s) - 1
        /\ (KeyAt(s) + i - 1) - KeyAt(s) + 1 = i
    BY KeyInStore
  <2> QED BY <2>1, <2>2 DEF PutKey
<1>2. /\ SubSeq(key, 1, KeySize(s)) \in Seq(Halves)
      /\ Len(SubSeq(key, 1, KeySize(s))) = KeySize(s)
      /\ \A i \in 1 .. KeySize(s) : SubSeq(key, 1, KeySize(s))[i] = key[i]
  <2>1. KeySize(s) \in 1 .. 2 /\ \A i \in 1 .. KeySize(s) : key[i] \in Halves
    BY KeyInStore DEF Keys
  <2> QED BY <2>1, SubSeqProperties, Z3
<1>3. SubSeq(key, 1, KeySize(s)) = [i \in 1 .. KeySize(s) |-> key[i]]
  BY <1>2
<1> QED BY <1>1, <1>3 DEF KeyOf

(* ... and the others keep theirs. *)
LEMMA PutKeeps ==
  ASSUME NEW s \in Slots, NEW t \in Slots, s # t,
         NEW store \in Stores, NEW key \in Keys
  PROVE  KeyOf(PutKey(store, s, key), t) = KeyOf(store, t)
<1>1. ASSUME NEW i \in 1 .. KeySize(t)
      PROVE  PutKey(store, s, key)[KeyAt(t) + i - 1] = store[KeyAt(t) + i - 1]
  <2>1. KeyAt(t) + i - 1 \in DOMAIN store
    BY KeyInStore DEF Stores
  <2>2. KeyAt(t) + i - 1 \notin KeyAt(s) .. KeyAt(s) + KeySize(s) - 1
    BY KeysApart
  <2> QED BY <2>1, <2>2 DEF PutKey
<1> QED BY <1>1 DEF KeyOf

(* The first halves of a key are a sequence. *)
LEMMA FirstHalves ==
  ASSUME NEW s \in Slots, NEW key \in Keys
  PROVE  SubSeq(key, 1, KeySize(s)) \in Seq(Halves)
<1>1. KeySize(s) \in 1 .. 2 /\ \A i \in 1 .. KeySize(s) : key[i] \in Halves
  BY KeyInStore DEF Keys
<1> QED BY <1>1, SubSeqProperties, Z3

(* The key of a slot is a sequence of one or two halves.  *)
LEMMA KeyType ==
  ASSUME NEW s \in Slots, NEW store \in Stores
  PROVE  /\ KeyOf(store, s) \in [1 .. KeySize(s) -> Halves]
         /\ KeyOf(store, s) \in Seq(Halves)
         /\ Len(KeyOf(store, s)) = KeySize(s)
<1>1. KeyOf(store, s) \in [1 .. KeySize(s) -> Halves]
  BY KeyInStore DEF KeyOf, Stores
<1>2. KeySize(s) \in Nat
  BY KeyInStore
<1> QED BY <1>1, <1>2

LEMMA LoadType ==
  ASSUME NEW s \in Slots, NEW store \in Stores, NEW old \in Keys
  PROVE  LoadKey(old, KeyOf(store, s)) \in Keys
  BY KeyType DEF LoadKey, Keys

-----------------------------------------------------------------------------
(* sks_do_operation. *)

Statuses == [busy : {FALSE}, errr : BOOLEAN]

LEMMA ZeroIsKey == ZeroKey \in Keys /\ \A i \in 1 .. 2 : ZeroKey[i][1] = "zero"
  BY DEF ZeroKey, ZeroHalf, Keys, Halves

(* It ends its command, is not busy, and moves a key of a slot or none. *)
LEMMA Outcomes ==
  ASSUME NEW s \in SlotWrites \cup {0}, NEW c \in Commands, NEW st \in Statuses,
         NEW db, NEW at, Operate(s, c, st, db, at)
  PROVE  /\ sks_slot' \in SlotWrites \cup {0}
         /\ sks_command' \in Commands /\ ~ sks_command'.go
         /\ sks_status' \in Statuses
         /\ fault' \in BOOLEAN
         /\ \/ NoTransfer(db, at)
            \/ /\ s \in Slots
               /\ \/ Produce(s, db, ZeroKey, at)
                  \/ Produce(s, hash_state, db, at)
                  \/ Consume(s, db, at)
<1>1. sks_slot' \in SlotWrites \cup {0}
  BY DEF Operate
<1>2. sks_command' \in Commands /\ ~ sks_command'.go
  BY DEF Operate, Commands
<1>3. sks_status' \in Statuses
  <2>1. CASE c.go /\ Refused(s, c)
    <3>1. sks_status' = [busy |-> FALSE, errr |-> TRUE]
      BY <2>1 DEF Operate, Err
    <3> QED BY <3>1 DEF Statuses
  <2>2. CASE c.go /\ ~ Refused(s, c)
    <3>1. sks_status' = [st EXCEPT !.busy = FALSE]
      BY <2>2 DEF Operate
    <3> QED BY <3>1 DEF Statuses
  <2>3. CASE ~ c.go
    BY <2>3 DEF Operate
  <2> QED BY <2>1, <2>2, <2>3
<1>4. fault' \in BOOLEAN
  BY DEF Operate
<1>5. ASSUME ~ NoTransfer(db, at)
      PROVE  /\ s \in Slots
             /\ \/ Produce(s, db, ZeroKey, at)
                \/ Produce(s, hash_state, db, at)
                \/ Consume(s, db, at)
  <2>1. ~ Refused(s, c) /\ ~ OffTheEnd(s) /\ Transfer(s, c, db, at)
    BY <1>5 DEF Operate, Err
  <2>2. s \in Slots
    BY <2>1, HalfAssumption, WritesAssumption DEF Refused, OffTheEnd, Slots
  <2> QED BY <2>1, <2>2 DEF Transfer
<1> QED BY <1>1, <1>2, <1>3, <1>4, <1>5

(* What a step of Operate keeps, when the data buffer and the attributes   *)
(* that it starts from are in order.                                       *)
LEMMA OperateInv ==
  ASSUME Inv, NEW s \in SlotWrites \cup {0}, NEW c \in Commands, NEW st \in Statuses,
         NEW db \in Keys, NEW at \in [Slots -> BOOLEAN],
         fresh' \in 0 .. MaxFresh, DataOnce(db, sks_keystore, fresh'),
         UNCHANGED hash_state, Operate(s, c, st, db, at)
  PROVE  Inv'
<1>1. /\ sks_keystore \in Stores /\ hash_state \in Keys /\ hash_key \in Keys
      /\ sks_databuf \in Keys /\ held \in [Slots -> Seq(Halves)]
      /\ \A t \in Slots : KeyOf(sks_keystore, t) = held[t]
      /\ HashIsNoData
  BY DEF Inv, TypeOK, HeldOK, StoreHolds, Stores, Keys
<1>2. HashIsNoData'
  BY <1>1 DEF HashIsNoData
<1>3. /\ sks_slot' \in SlotWrites \cup {0}
      /\ sks_command' \in Commands /\ ~ sks_command'.go
      /\ sks_status' \in Statuses
      /\ fault' \in BOOLEAN
  BY Outcomes
<1>4. ASSUME valid' \in [Slots -> BOOLEAN], sks_databuf' \in Keys,
             sks_keystore' \in Stores, hash_key' \in Keys
      PROVE  TypeOK'
  BY <1>1, <1>3, <1>4 DEF TypeOK, Statuses, Keys, Stores
<1>5. CASE NoTransfer(db, at)
  <2>1. TypeOK'
    BY <1>1, <1>4, <1>5 DEF NoTransfer
  <2>2. HeldOK' /\ StoreHolds'
    BY <1>1, <1>5 DEF NoTransfer, HeldOK, StoreHolds
  <2>3. DataOnce(sks_databuf', sks_keystore', fresh')
    BY <1>5 DEF NoTransfer
  <2> QED BY <1>2, <2>1, <2>2, <2>3 DEF Inv
<1>6. ASSUME s \in Slots, NEW key \in Keys, NEW rest \in Keys, Produce(s, key, rest, at),
             \/ key = db /\ rest = ZeroKey
             \/ key = hash_state /\ rest = db
      PROVE  Inv'
  <2>1. TypeOK'
    <3>1. sks_keystore' \in Stores
      BY <1>1, <1>6, PutType DEF Produce
    <3>2. valid' \in [Slots -> BOOLEAN]
      BY <1>6 DEF Produce
    <3> QED BY <1>1, <1>4, <1>6, <3>1, <3>2 DEF Produce
  <2>2. HeldOK'
    BY <1>1, <1>6, FirstHalves DEF Produce, HeldOK
  <2>3. StoreHolds'
    <3>1. ASSUME NEW t \in Slots, t # s
          PROVE  KeyOf(sks_keystore', t) = held'[t]
      <4>1. held'[t] = held[t]
        BY <1>1, <1>6, <3>1 DEF Produce
      <4>2. KeyOf(sks_keystore', t) = KeyOf(sks_keystore, t)
        BY <1>1, <1>6, <3>1, PutKeeps DEF Produce
      <4> QED BY <1>1, <4>1, <4>2
    <3>2. KeyOf(sks_keystore', s) = held'[s]
      <4>1. held'[s] = SubSeq(key, 1, KeySize(s))
        BY <1>1, <1>6 DEF Produce
      <4>2. KeyOf(sks_keystore', s) = SubSeq(key, 1, KeySize(s))
        BY <1>1, <1>6, PutGives DEF Produce
      <4> QED BY <4>1, <4>2
    <3> QED BY <3>1, <3>2 DEF StoreHolds
  <2>4. DataOnce(sks_databuf', sks_keystore', fresh')
    <3>1. sks_keystore' \in Stores /\ sks_databuf' = rest
      BY <1>1, <1>6, PutType DEF Produce
    <3>2. ASSUME NEW g \in 0 .. 3 * Half - 1
          PROVE  \/ sks_keystore'[g] = sks_keystore[g]
                 \/ /\ g - KeyAt(s) + 1 \in 1 .. 2
                    /\ sks_keystore'[g] = key[g - KeyAt(s) + 1]
      <4>1. DOMAIN sks_keystore = 0 .. 3 * Half - 1
        BY <1>1 DEF Stores
      <4>2. KeyAt(s) \in Nat /\ KeySize(s) \in 1 .. 2
        BY <1>6, KeyInStore
      <4> QED BY <1>6, <4>1, <4>2 DEF Produce, PutKey
    <3>3. /\ DOMAIN sks_keystore = 0 .. 3 * Half - 1
          /\ DOMAIN sks_keystore' = 0 .. 3 * Half - 1
          /\ KeyAt(s) \in Nat
      BY <1>1, <1>6, <3>1, KeyInStore DEF Stores
    <3>4. CASE key = db /\ rest = ZeroKey
      <4>1. \A i \in 1 .. 2 : sks_databuf'[i][1] # "data"
        BY <3>1, <3>4, ZeroIsKey
      <4>2. ASSUME NEW g \in 0 .. 3 * Half - 1, sks_keystore'[g][1] = "data"
            PROVE  sks_keystore'[g][2] <= fresh'
        BY <3>2, <3>3, <3>4, <4>2 DEF DataOnce
      <4>3. ASSUME NEW g \in 0 .. 3 * Half - 1, NEW h \in 0 .. 3 * Half - 1,
                   sks_keystore'[g][1] = "data", sks_keystore'[g] = sks_keystore'[h]
            PROVE  g = h
        <5>1. CASE sks_keystore'[g] = sks_keystore[g] /\ sks_keystore'[h] = sks_keystore[h]
          BY <3>3, <4>3, <5>1 DEF DataOnce
        <5>2. ASSUME NEW i \in 1 .. 2, NEW f \in 0 .. 3 * Half - 1
              PROVE  db[i][1] = "data" => db[i] # sks_keystore[f]
          BY <3>3 DEF DataOnce
        <5>3. ASSUME NEW i \in 1 .. 2, NEW j \in 1 .. 2, db[i][1] = "data", db[i] = db[j]
              PROVE  i = j
          <6>1. db[i][3] = i /\ db[j][3] = j
            BY <5>3 DEF DataOnce
          <6> QED BY <5>3, <6>1
        <5> DEFINE gi == g - KeyAt(s) + 1
                   hi == h - KeyAt(s) + 1
        <5>4. sks_keystore'[g] = sks_keystore[g] \/ (gi \in 1 .. 2 /\ sks_keystore'[g] = db[gi])
          BY <3>2, <3>4
        <5>5. sks_keystore'[h] = sks_keystore[h] \/ (hi \in 1 .. 2 /\ sks_keystore'[h] = db[hi])
          BY <3>2, <3>4
        <5>6. gi = hi => g = h
          BY <3>3
        <5> HIDE DEF gi, hi
        <5> QED BY <4>3, <5>1, <5>2, <5>3, <5>4, <5>5, <5>6
      <4> QED BY <3>3, <4>1, <4>2, <4>3 DEF DataOnce
    <3>5. CASE key = hash_state /\ rest = db
      <4>1. ASSUME NEW g \in 0 .. 3 * Half - 1, sks_keystore'[g][1] = "data"
            PROVE  sks_keystore'[g] = sks_keystore[g]
        BY <1>1, <3>2, <3>5, <4>1 DEF HashIsNoData
      <4>2. ASSUME NEW g \in 0 .. 3 * Half - 1, sks_keystore'[g][1] = "data"
            PROVE  /\ sks_keystore'[g][2] <= fresh'
                   /\ \A i \in 1 .. 2 : db[i][1] = "data" => db[i] # sks_keystore'[g]
                   /\ \A h \in 0 .. 3 * Half - 1 :
                        sks_keystore'[g] = sks_keystore'[h] => g = h
        BY <3>3, <4>1, <4>2 DEF DataOnce
      <4>3. ASSUME NEW i \in 1 .. 2, db[i][1] = "data"
            PROVE  db[i][2] <= fresh' /\ db[i][3] = i
        BY <4>3 DEF DataOnce
      <4>4. ASSUME NEW i \in 1 .. 2, NEW g \in 0 .. 3 * Half - 1,
                   db[i][1] = "data", db[i] = sks_keystore'[g]
            PROVE  FALSE
        BY <4>2, <4>4
      <4> QED BY <3>1, <3>3, <3>5, <4>2, <4>3, <4>4 DEF DataOnce
    <3> QED BY <1>6, <3>4, <3>5
  <2> QED BY <1>2, <2>1, <2>2, <2>3, <2>4 DEF Inv
<1>7. CASE s \in Slots /\ Consume(s, db, at)
  <2>1. TypeOK'
    BY <1>1, <1>4, <1>7, LoadType DEF Consume
  <2>2. HeldOK' /\ StoreHolds'
    BY <1>1, <1>7 DEF Consume, HeldOK, StoreHolds
  <2>3. DataOnce(sks_databuf', sks_keystore', fresh')
    BY <1>7 DEF Consume
  <2> QED BY <1>2, <2>1, <2>2, <2>3 DEF Inv
<1>8. /\ s \in Slots /\ Produce(s, db, ZeroKey, at) => Inv'
      /\ s \in Slots /\ Produce(s, hash_state, db, at) => Inv'
  BY <1>1, <1>6, ZeroIsKey
<1> QED BY <1>5, <1>7, <1>8, Outcomes

-----------------------------------------------------------------------------
(* The specification. *)

LEMMA InitInv == Init => Inv
<1> SUFFICES ASSUME Init PROVE Inv
  OBVIOUS
<1>1. /\ sks_keystore \in Stores /\ hash_state \in Keys /\ hash_key \in Keys
      /\ sks_databuf \in Keys
  <2>1. ZeroHalf \in Halves
    BY DEF Halves
  <2> QED BY <2>1, ZeroIsKey DEF Init, Stores
<1>2. TypeOK
  <2>1. sks_slot \in SlotWrites \cup {0} /\ fault \in BOOLEAN
    BY DEF Init
  <2>2. sks_command \in Commands /\ ~ sks_command.go
    BY DEF Init, Commands, Sources, Targets
  <2>3. sks_status \in [busy : {FALSE}, errr : BOOLEAN]
    BY DEF Init
  <2>4. valid \in [Slots -> BOOLEAN]
    <3>1. \A s \in Slots : (s = 2 * Half - 1) \in BOOLEAN
      OBVIOUS
    <3> QED BY <3>1 DEF Init
  <2>5. fresh \in 0 .. MaxFresh
    BY HalfAssumption DEF Init
  <2> QED BY <1>1, <2>1, <2>2, <2>3, <2>4, <2>5 DEF TypeOK, Keys, Stores
<1>3. HeldOK
  BY FirstHalves, ZeroIsKey DEF Init, HeldOK
<1>4. StoreHolds
  <2> SUFFICES ASSUME NEW s \in Slots PROVE KeyOf(sks_keystore, s) = held[s]
    BY DEF StoreHolds
  <2>1. KeyOf(sks_keystore, s) = [i \in 1 .. KeySize(s) |-> ZeroHalf]
    BY KeyInStore DEF KeyOf, Init
  <2>2. SubSeq(ZeroKey, 1, KeySize(s)) = [i \in 1 .. KeySize(s) |-> ZeroHalf]
    <3>1. KeySize(s) \in 1 .. 2 /\ \A i \in 1 .. KeySize(s) : ZeroKey[i] = ZeroHalf
      BY KeyInStore DEF ZeroKey
    <3>2. /\ SubSeq(ZeroKey, 1, KeySize(s)) \in Seq({ZeroHalf})
          /\ Len(SubSeq(ZeroKey, 1, KeySize(s))) = KeySize(s)
          /\ \A i \in 1 .. KeySize(s) : SubSeq(ZeroKey, 1, KeySize(s))[i] = ZeroKey[i]
      BY <3>1, SubSeqProperties, Z3
    <3> QED BY <3>1, <3>2
  <2>3. held[s] = SubSeq(ZeroKey, 1, KeySize(s))
    BY DEF Init
  <2> QED BY <2>1, <2>2, <2>3
<1>5. DataOnce(sks_databuf, sks_keystore, fresh)
  <2>1. \A i \in 1 .. 2 : sks_databuf[i][1] # "data"
    BY ZeroIsKey DEF Init
  <2>2. \A g \in DOMAIN sks_keystore : sks_keystore[g][1] # "data"
    BY DEF Init, ZeroHalf
  <2> QED BY <2>1, <2>2 DEF DataOnce
<1>6. HashIsNoData
  BY ZeroIsKey DEF Init, HashIsNoData
<1> QED BY <1>2, <1>3, <1>4, <1>5, <1>6 DEF Inv

(* The buffer with one half replaced by a new one. *)
LEMMA NewHalf ==
  ASSUME Inv, NEW h \in 1 .. 2, fresh < MaxFresh, fresh' = fresh + 1,
         NEW db, db = [sks_databuf EXCEPT ![h] = <<"data", fresh', h>>]
  PROVE  db \in Keys /\ DataOnce(db, sks_keystore, fresh')
<1>1. sks_databuf \in Keys /\ fresh \in Nat /\ fresh' \in 1 .. MaxFresh
  BY HalfAssumption DEF Inv, TypeOK, Keys
<1>2. <<"data", fresh', h>> \in Halves
  BY <1>1 DEF Halves
<1>3. db \in Keys
  BY <1>1, <1>2 DEF Keys
<1>4. /\ db[h][1] = "data" /\ db[h][2] = fresh' /\ db[h][3] = h
      /\ \A i \in (1 .. 2) \ {h} : db[i] = sks_databuf[i]
  BY <1>1 DEF Keys
<1>5. DataOnce(sks_databuf, sks_keystore, fresh)
  BY DEF Inv
<1>6. ASSUME NEW x \in Halves
      PROVE  x[2] \in Nat
  BY HalfAssumption DEF Halves, ZeroHalf
<1>7. ASSUME NEW i \in 1 .. 2, db[i][1] = "data"
      PROVE  db[i][2] <= fresh' /\ db[i][3] = i
  <2>1. CASE i = h
    BY <1>1, <1>4, <2>1
  <2>2. CASE i # h
    <3>1. sks_databuf[i][2] <= fresh /\ sks_databuf[i][3] = i /\ db[i] = sks_databuf[i]
      BY <1>4, <1>5, <1>7, <2>2 DEF DataOnce
    <3>2. sks_databuf[i][2] \in Nat
      BY <1>1, <1>6 DEF Keys
    <3> QED BY <1>1, <3>1, <3>2
  <2> QED BY <2>1, <2>2
<1>8. ASSUME NEW g \in DOMAIN sks_keystore, sks_keystore[g][1] = "data"
      PROVE  /\ sks_keystore[g][2] <= fresh' /\ sks_keystore[g][2] # fresh'
             /\ \A f \in DOMAIN sks_keystore : sks_keystore[g] = sks_keystore[f] => g = f
  <2>1. sks_keystore[g][2] <= fresh
    BY <1>5, <1>8 DEF DataOnce
  <2>2. sks_keystore[g][2] \in Nat
    <3>1. sks_keystore[g] \in Halves
      BY DEF Inv, TypeOK
    <3> QED BY <3>1, <1>6
  <2>3. \A f \in DOMAIN sks_keystore : sks_keystore[g] = sks_keystore[f] => g = f
    BY <1>5, <1>8 DEF DataOnce
  <2> QED BY <1>1, <2>1, <2>2, <2>3
<1>9. ASSUME NEW i \in 1 .. 2, NEW g \in DOMAIN sks_keystore,
             db[i][1] = "data", db[i] = sks_keystore[g]
      PROVE  FALSE
  <2>1. CASE i = h
    BY <1>4, <1>8, <1>9, <2>1
  <2>2. CASE i # h
    BY <1>4, <1>5, <1>9, <2>2 DEF DataOnce
  <2> QED BY <2>1, <2>2
<1> QED BY <1>3, <1>7, <1>8, <1>9 DEF DataOnce

LEMMA NextInv == Inv /\ [Next]_vars => Inv'
<1> SUFFICES ASSUME Inv, [Next]_vars PROVE Inv'
  OBVIOUS
<1>1. /\ sks_slot \in SlotWrites \cup {0} /\ sks_command \in Commands
      /\ sks_status \in Statuses /\ sks_databuf \in Keys /\ valid \in [Slots -> BOOLEAN]
      /\ fresh \in 0 .. MaxFresh /\ DataOnce(sks_databuf, sks_keystore, fresh)
  BY DEF Inv, TypeOK, Statuses, Keys
<1>2. ASSUME NEW s \in SlotWrites, WriteSlot(s) PROVE Inv'
  <2>1. /\ UNCHANGED <<hash_state, fresh>>
        /\ Operate(s, sks_command, sks_status, sks_databuf, valid)
    BY <1>2 DEF WriteSlot
  <2> QED BY <1>1, <2>1, OperateInv
<1>3. ASSUME NEW c \in CmdWrites, WriteCommand(c) PROVE Inv'
  <2>1. /\ UNCHANGED <<hash_state, fresh>> /\ c \in Commands
        /\ Operate(sks_slot, c, sks_status, sks_databuf, valid)
    BY <1>3, WritesAssumption DEF WriteCommand
  <2> QED BY <1>1, <2>1, OperateInv
<1>4. ASSUME NEW busy \in BOOLEAN, NEW errr \in BOOLEAN,
             WriteStatus([busy |-> busy, errr |-> errr])
      PROVE  Inv'
  <2> DEFINE st == [busy |-> sks_status.busy /\ ~ busy, errr |-> sks_status.errr /\ ~ errr]
  <2>1. st \in Statuses
    BY <1>1 DEF Statuses
  <2>2. UNCHANGED <<hash_state, fresh>> /\ Operate(sks_slot, sks_command, st, sks_databuf, valid)
    BY <1>4 DEF WriteStatus
  <2> HIDE DEF st
  <2> QED BY <1>1, <2>1, <2>2, OperateInv
<1>5. ASSUME NEW h \in 1 .. 2, WriteData(h) PROVE Inv'
  <2> DEFINE db == [sks_databuf EXCEPT ![h] = <<"data", fresh', h>>]
  <2>1. /\ fresh < MaxFresh /\ fresh' = fresh + 1 /\ UNCHANGED hash_state
        /\ Operate(sks_slot, sks_command, sks_status, db, valid)
    BY <1>5 DEF WriteData
  <2>2. db \in Keys /\ DataOnce(db, sks_keystore, fresh')
    BY <2>1, NewHalf
  <2>3. fresh' \in 0 .. MaxFresh
    BY <1>1, <2>1, HalfAssumption
  <2> HIDE DEF db
  <2> QED BY <1>1, <2>1, <2>2, <2>3, OperateInv
<1>6. ASSUME NEW s \in AtrWrites, NEW v \in BOOLEAN, WriteAtr(s, v) PROVE Inv'
  <2> DEFINE at == [valid EXCEPT ![s] = v]
  <2>1. UNCHANGED <<hash_state, fresh>> /\ Operate(sks_slot, sks_command, sks_status, sks_databuf, at)
    BY <1>6 DEF WriteAtr
  <2>2. at \in [Slots -> BOOLEAN]
    BY <1>1
  <2> HIDE DEF at
  <2> QED BY <1>1, <2>1, <2>2, OperateInv
<1>7. ASSUME WriteOther PROVE Inv'
  <2>1. /\ UNCHANGED <<hash_state, fresh>>
        /\ Operate(sks_slot, sks_command, sks_status, sks_databuf, valid)
    BY <1>7 DEF WriteOther
  <2> QED BY <1>1, <2>1, OperateInv
<1>8. ASSUME HashRuns PROVE Inv'
  <2>1. fresh' \in 1 .. MaxFresh /\ fresh' = fresh + 1
    BY <1>1, <1>8, HalfAssumption DEF HashRuns
  <2>2. hash_state' \in Keys /\ HashIsNoData'
    <3>1. \A h \in 1 .. 2 : <<"hash", fresh', h>> \in Halves
      BY <2>1 DEF Halves
    <3> QED BY <1>8, <3>1 DEF HashRuns, HashIsNoData, Keys
  <2>3. TypeOK'
    <3>1. TypeOK /\ fresh' \in 0 .. MaxFresh /\ hash_state' \in [1 .. 2 -> Halves]
      BY <2>1, <2>2 DEF Inv, Keys
    <3>2. UNCHANGED <<sks_slot, sks_command, sks_status, valid, sks_databuf,
                      sks_keystore, hash_key, fault>>
      BY <1>8 DEF HashRuns
    <3> QED BY <3>1, <3>2 DEF TypeOK
  <2>4. HeldOK' /\ StoreHolds'
    BY <1>8 DEF HashRuns, Inv, HeldOK, StoreHolds
  <2>5. DataOnce(sks_databuf, sks_keystore, fresh')
    <3>1. ASSUME NEW x \in Halves, x[2] <= fresh
          PROVE  x[2] <= fresh'
      <4>1. x[2] \in Nat
        BY HalfAssumption DEF Halves, ZeroHalf
      <4> QED BY <1>1, <2>1, <3>1, <4>1
    <3>2. /\ \A i \in 1 .. 2 : sks_databuf[i] \in Halves
          /\ \A g \in DOMAIN sks_keystore : sks_keystore[g] \in Halves
      BY DEF Inv, TypeOK
    <3> QED BY <1>1, <3>1, <3>2 DEF DataOnce
  <2> QED BY <1>8, <2>2, <2>3, <2>4, <2>5 DEF HashRuns, Inv
<1>9. CASE UNCHANGED vars
  BY <1>9 DEF vars, Inv, TypeOK, HeldOK, StoreHolds, DataOnce, HashIsNoData
<1> QED BY <1>2, <1>3, <1>4, <1>5, <1>6, <1>7, <1>8, <1>9 DEF Next

-----------------------------------------------------------------------------

(* Every command ends, on every path of sks_do_operation, and the variables *)
(* stay in their ranges.                                                   *)
THEOREM TypeCorrect == Spec => []TypeOK
<1>1. Inv => TypeOK
  BY DEF Inv
<1> QED BY <1>1, InitInv, NextInv, PTL DEF Spec

(* Every slot holds the key it was last given: short and long slots do not  *)
(* overlap, however many there are.                                        *)
THEOREM SlotsHold == Spec => []StoreHolds
<1>1. Inv => StoreHolds
  BY DEF Inv
<1> QED BY <1>1, InitInv, NextInv, PTL DEF Spec

(* No key that was given through DATA is in two places of the store.       *)
THEOREM DataIsUsedOnce == Spec => []KeyDataUsedOnce
<1>1. Inv => KeyDataUsedOnce
  BY DEF Inv, DataOnce, KeyDataUsedOnce
<1> QED BY <1>1, InitInv, NextInv, PTL DEF Spec

(* What the hash unit's key is when a command has loaded it. *)
LEMMA LoadStep ==
  ASSUME Inv, NEW s \in SlotWrites \cup {0}, NEW c \in Commands, NEW st \in Statuses,
         NEW db, NEW at, Operate(s, c, st, db, at), loaded' # loaded
  PROVE  /\ SubSeq(hash_key', 1, Len(loaded')) = loaded'
         /\ \A i \in Len(loaded') + 1 .. 2 : hash_key'[i] = hash_key[i]
<1>1. s \in Slots /\ Consume(s, db, at)
  BY Outcomes DEF NoTransfer, Produce
<1>2. sks_keystore \in Stores /\ hash_key \in Keys /\ held[s] = KeyOf(sks_keystore, s)
  BY <1>1 DEF Inv, TypeOK, StoreHolds, Stores, Keys
<1> DEFINE key == KeyOf(sks_keystore, s)
<1>3. loaded' = key /\ hash_key' = LoadKey(hash_key, key)
  BY <1>1, <1>2 DEF Consume
<1>4. /\ key \in Seq(Halves) /\ Len(key) = KeySize(s) /\ KeySize(s) \in 1 .. 2
      /\ \A i \in 1 .. KeySize(s) : key[i] \in Halves
  BY <1>1, <1>2, KeyType, KeyInStore
<1> HIDE DEF key
<1>5. /\ \A i \in 1 .. KeySize(s) : hash_key'[i] = key[i]
      /\ \A i \in KeySize(s) + 1 .. 2 : hash_key'[i] = hash_key[i]
  BY <1>3, <1>4 DEF LoadKey
<1>6. SubSeq(hash_key', 1, KeySize(s)) = key
  <2>1. \A i \in 1 .. KeySize(s) : hash_key'[i] \in Halves
    BY <1>4, <1>5
  <2>2. /\ SubSeq(hash_key', 1, KeySize(s)) \in Seq(Halves)
        /\ Len(SubSeq(hash_key', 1, KeySize(s))) = KeySize(s)
        /\ \A i \in 1 .. KeySize(s) : SubSeq(hash_key', 1, KeySize(s))[i] = hash_key'[i]
    BY <1>4, <2>1, SubSeqProperties, Z3
  <2> QED BY <1>4, <1>5, <2>2
<1> QED BY <1>3, <1>4, <1>5, <1>6

(* A command that is refused moves nothing. *)
LEMMA RefusedStep ==
  ASSUME NEW s, NEW c \in Commands, NEW st \in Statuses, NEW db, NEW at,
         Operate(s, c, st, db, at), ~ st.errr, sks_status'.errr
  PROVE  c.go /\ NoTransfer(db, at)
<1>1. CASE c.go /\ Refused(s, c)
  BY <1>1 DEF Operate, Err
<1>2. CASE c.go /\ ~ Refused(s, c)
  <2>1. sks_status' = [st EXCEPT !.busy = FALSE]
    BY <1>2 DEF Operate
  <2> QED BY <2>1 DEF Statuses
<1>3. CASE ~ c.go
  BY <1>3 DEF Operate
<1> QED BY <1>1, <1>2, <1>3

(* Every step is one of Operate, or the hash unit's own. *)
LEMMA StepOperates ==
  ASSUME Inv, Next
  PROVE  \/ HashRuns
         \/ \E s \in SlotWrites \cup {0}, c \in Commands, st \in Statuses, db \in Keys,
               at \in [Slots -> BOOLEAN] :
              /\ Operate(s, c, st, db, at)
              /\ c.go => db = sks_databuf /\ at = valid /\ st = sks_status
              /\ st.errr => sks_status.errr
<1> DEFINE
  Step == \E s \in SlotWrites \cup {0}, c \in Commands, st \in Statuses, db \in Keys,
             at \in [Slots -> BOOLEAN] :
            /\ Operate(s, c, st, db, at)
            /\ c.go => db = sks_databuf /\ at = valid /\ st = sks_status
            /\ st.errr => sks_status.errr
<1>1. /\ sks_slot \in SlotWrites \cup {0} /\ sks_command \in Commands /\ ~ sks_command.go
      /\ sks_status \in Statuses /\ sks_databuf \in Keys /\ valid \in [Slots -> BOOLEAN]
  BY DEF Inv, TypeOK, Statuses, Keys
<1>2. ASSUME NEW s \in SlotWrites, WriteSlot(s) PROVE Step
  BY <1>1, <1>2 DEF WriteSlot
<1>3. ASSUME NEW c \in CmdWrites, WriteCommand(c) PROVE Step
  BY <1>1, <1>3, WritesAssumption DEF WriteCommand
<1>4. ASSUME NEW busy \in BOOLEAN, NEW errr \in BOOLEAN,
             WriteStatus([busy |-> busy, errr |-> errr])
      PROVE  Step
  <2> DEFINE st == [busy |-> sks_status.busy /\ ~ busy, errr |-> sks_status.errr /\ ~ errr]
  <2>1. st \in Statuses /\ (st.errr => sks_status.errr)
    BY <1>1 DEF Statuses
  <2>2. Operate(sks_slot, sks_command, st, sks_databuf, valid)
    BY <1>4 DEF WriteStatus
  <2> HIDE DEF st
  <2> QED BY <1>1, <2>1, <2>2
<1>5. ASSUME NEW h \in 1 .. 2, WriteData(h) PROVE Step
  <2> DEFINE db == [sks_databuf EXCEPT ![h] = <<"data", fresh', h>>]
  <2>1. /\ fresh < MaxFresh /\ fresh' = fresh + 1
        /\ Operate(sks_slot, sks_command, sks_status, db, valid)
    BY <1>5 DEF WriteData
  <2>2. db \in Keys
    BY <2>1, NewHalf
  <2> HIDE DEF db
  <2> QED BY <1>1, <2>1, <2>2
<1>6. ASSUME NEW s \in AtrWrites, NEW v \in BOOLEAN, WriteAtr(s, v) PROVE Step
  <2> DEFINE at == [valid EXCEPT ![s] = v]
  <2>1. Operate(sks_slot, sks_command, sks_status, sks_databuf, at)
    BY <1>6 DEF WriteAtr
  <2>2. at \in [Slots -> BOOLEAN]
    BY <1>1
  <2> HIDE DEF at
  <2> QED BY <1>1, <2>1, <2>2
<1>7. ASSUME WriteOther PROVE Step
  BY <1>1, <1>7 DEF WriteOther
<1> HIDE DEF Step
<1>8. HashRuns \/ Step
  BY <1>2, <1>3, <1>4, <1>5, <1>6, <1>7 DEF Next
<1> QED BY <1>8 DEF Step

(* A load puts the whole key of the slot at the start of the hash unit's   *)
(* key and leaves the rest of it: behind a short key stays the tail of     *)
(* the key that was there before.                                          *)
THEOREM LoadedIsKey == Spec => HashKeyIsLoaded
<1> DEFINE Loads ==
  loaded' # loaded =>
    /\ SubSeq(hash_key', 1, Len(loaded')) = loaded'
    /\ \A i \in Len(loaded') + 1 .. 2 : hash_key'[i] = hash_key[i]
<1>1. Inv /\ [Next]_vars => [Loads]_vars
  <2> SUFFICES ASSUME Inv, Next, loaded' # loaded PROVE Loads
    OBVIOUS
  <2>1. ~ HashRuns
    BY DEF HashRuns
  <2> QED BY <2>1, StepOperates, LoadStep
<1> QED BY <1>1, InitInv, NextInv, PTL DEF Spec, HashKeyIsLoaded

(* A refused command leaves the store, the attributes, DATA and the hash    *)
(* unit as they were.                                                      *)
THEOREM RefusedIsNoStep == Spec => RefusedChangesNothing
<1> DEFINE Keeps ==
  ~ sks_status.errr /\ sks_status'.errr =>
    UNCHANGED <<sks_keystore, valid, sks_databuf, hash_key>>
<1>1. Inv /\ [Next]_vars => [Keeps]_vars
  <2> SUFFICES ASSUME Inv, Next, ~ sks_status.errr, sks_status'.errr
               PROVE  UNCHANGED <<sks_keystore, valid, sks_databuf, hash_key>>
    OBVIOUS
  <2>1. ~ HashRuns
    BY DEF HashRuns
  <2>2. PICK s \in SlotWrites \cup {0}, c \in Commands, st \in Statuses, db \in Keys,
             at \in [Slots -> BOOLEAN] :
          /\ Operate(s, c, st, db, at)
          /\ c.go => db = sks_databuf /\ at = valid /\ st = sks_status
          /\ st.errr => sks_status.errr
    BY <2>1, StepOperates
  <2>3. c.go /\ NoTransfer(db, at)
    BY <2>2, RefusedStep
  <2> QED BY <2>2, <2>3 DEF NoTransfer
<1> QED BY <1>1, InitInv, NextInv, PTL DEF Spec, RefusedChangesNothing
=============================================================================
