----------------------------- MODULE GpdmaProofs -----------------------------
(***************************************************************************)
(* What the hash unit receives from a transaction, for every buffer and    *)
(* transfer size: the type invariant, and UnitGetsSource and UnitGetsSize  *)
(* from an invariant of the loop of gpdma_run_transaction.                 *)
(***************************************************************************)
EXTENDS Gpdma, SequenceTheorems, TLAPS

(* The locals of the loop: what is done and what is left make the size, and *)
(* between the halves of a turn the buffer holds the turn.                  *)
LoopInv ==
  /\ ~ go
  /\ pc # "idle" => ran /\ count > 0
  /\ ran => pos + count = Size
  /\ ran /\ pc = "idle" => count = 0
  /\ ran /\ dst_addr = 0 => Len(received) = pos
  /\ ~ ran => received = << >>
  /\ ToUnit /\ pc = "store" /\ src_addr # 0
       /\ Window(src_addr, Size) \subseteq Mapped
     => \A i \in 1 .. TurnSize : gpdma_buffer[i] = mem[src_addr + pos + i - 1]

Inv == TypeOK /\ LoopInv /\ UnitGetsSource

LEMMA TurnFacts ==
  ASSUME count \in Nat \ {0}
  PROVE  TurnSize \in 1 .. BufLen /\ TurnSize <= count
  BY BufLenAssumption DEF TurnSize

LEMMA FetchedType ==
  ASSUME TypeOK, NEW buf \in [1 .. BufLen -> Values \cup {"clean"}],
         NEW a \in Nat, NEW n \in Nat
  PROVE  Fetched(buf, a, n) \in [1 .. BufLen -> Values \cup {"clean"}]
<1>1. CASE Window(a, n) \subseteq Mapped
  <2>1. ASSUME NEW i \in 1 .. BufLen
        PROVE  (IF i <= n THEN mem[a + i - 1] ELSE buf[i]) \in Values \cup {"clean"}
    <3>1. CASE i <= n
      <4>1. a + i - 1 \in Window(a, n)
        BY <3>1 DEF Window
      <4> QED BY <3>1, <4>1, <1>1 DEF TypeOK
    <3>2. CASE ~ (i <= n)
      BY <3>2
    <3> QED BY <3>1, <3>2
  <2> QED BY <1>1, <2>1 DEF Fetched
<1>2. CASE ~ (Window(a, n) \subseteq Mapped)
  BY <1>2 DEF Fetched
<1> QED BY <1>1, <1>2

LEMMA InitInv == Init => Inv
<1> SUFFICES ASSUME Init PROVE Inv
  OBVIOUS
<1>1. TypeOK
  <2>1. received \in Seq(Values \cup {"clean"})
    BY DEF Init
  <2> QED BY <2>1, BufLenAssumption DEF Init, TypeOK
<1>2. LoopInv /\ UnitGetsSource
  BY DEF Init, LoopInv, UnitGetsSource, ToUnit
<1> QED BY <1>1, <1>2 DEF Inv

(* A register write or a store to memory, which may begin a transaction. *)
LEMMA AccessInv ==
  ASSUME Inv, Access
  PROVE  Inv'
<1>1. ~ go /\ pc = "idle"
  BY DEF Inv, LoopInv, Access, WriteSrcAddr, WriteDstAddr, WriteSrcSize,
         WriteDstSize, WriteControl, WriteOther, StoreMem
<1>2. /\ src_addr' \in Addrs \cup {0} /\ dst_addr' \in Addrs \cup {0}
      /\ src_size' \in Sizes \cup {0} /\ dst_size' \in Sizes \cup {0}
      /\ gpdma_buffer' = gpdma_buffer
      /\ mem' \in [Mapped -> Values]
  <2>0. /\ src_addr \in Addrs \cup {0} /\ dst_addr \in Addrs \cup {0}
        /\ src_size \in Sizes \cup {0} /\ dst_size \in Sizes \cup {0}
        /\ mem \in [Mapped -> Values]
    BY DEF Inv, TypeOK
  <2>1. CASE \E a \in Addrs : WriteSrcAddr(a)
    BY <2>0, <2>1 DEF WriteSrcAddr
  <2>2. CASE \E a \in Addrs : WriteDstAddr(a)
    BY <2>0, <2>2 DEF WriteDstAddr
  <2>3. CASE \E n \in Sizes : WriteSrcSize(n)
    BY <2>0, <2>3 DEF WriteSrcSize
  <2>4. CASE \E n \in Sizes : WriteDstSize(n)
    BY <2>0, <2>4 DEF WriteDstSize
  <2>5. CASE (\E g \in BOOLEAN : WriteControl(g)) \/ WriteOther
    BY <2>0, <2>5 DEF WriteControl, WriteOther, regs
  <2>6. CASE \E a \in Mapped, v \in Values : StoreMem(a, v)
    BY <2>0, <2>6 DEF StoreMem, regs
  <2> QED BY <2>1, <2>2, <2>3, <2>4, <2>5, <2>6 DEF Access
<1>3. /\ ~ go' /\ go' \in BOOLEAN /\ ran' \in BOOLEAN /\ received' = << >>
      /\ ~ ran' => UNCHANGED <<pos, count, pc>>
      /\ ran' => /\ pos' = 0
                 /\ count' = Larger(src_size', dst_size')
                 /\ pc' = IF count' = 0 THEN "idle" ELSE "fetch"
  <2>1. CASE \E a \in Mapped, v \in Values : StoreMem(a, v)
    <3>1. /\ go' = go /\ ran' = FALSE /\ received' = << >>
          /\ UNCHANGED <<pos, count, pc>>
      BY <2>1 DEF StoreMem
    <3>2. ~ go' /\ go' \in BOOLEAN /\ ran' \in BOOLEAN /\ ~ ran'
      BY <3>1, <1>1 DEF Inv, TypeOK
    <3> QED BY <3>1, <3>2
  <2>2. CASE \E g \in BOOLEAN : BeginIfGo(g)
    <3>1. PICK g \in BOOLEAN : BeginIfGo(g)
      BY <2>2
    <3>2. go' = FALSE /\ ran' = g /\ received' = << >>
      BY <3>1 DEF BeginIfGo
    <3>3. ~ go' /\ go' \in BOOLEAN /\ ran' \in BOOLEAN
      BY <3>2
    <3>4. ~ ran' => UNCHANGED <<pos, count, pc>>
      BY <3>1, <3>2 DEF BeginIfGo
    <3>5. ran' => /\ pos' = 0
                  /\ count' = Larger(src_size', dst_size')
                  /\ pc' = IF count' = 0 THEN "idle" ELSE "fetch"
      BY <3>1, <3>2 DEF BeginIfGo
    <3> QED BY <3>2, <3>3, <3>4, <3>5
  <2>3. go \in BOOLEAN
    BY DEF Inv, TypeOK
  <2> QED BY <2>1, <2>2, <2>3 DEF Access, WriteSrcAddr, WriteDstAddr,
             WriteSrcSize, WriteDstSize, WriteControl, WriteOther
<1>4. /\ src_size' \in Nat /\ dst_size' \in Nat
      /\ Larger(src_size', dst_size') = Size' /\ Size' \in Nat
  BY <1>2, SizesAssumption DEF Larger, Size
<1>5. pos' \in Nat /\ count' \in Nat /\ pc' \in {"idle", "fetch"}
  BY <1>1, <1>3, <1>4 DEF Inv, TypeOK
<1>6. TypeOK'
  <2>1. received' \in Seq(Values \cup {"clean"})
    BY <1>3
  <2> QED BY <1>2, <1>3, <1>5, <2>1 DEF Inv, TypeOK
<1>7. LoopInv'
  <2>1. pc' # "idle" => ran' /\ count' > 0
    BY <1>1, <1>3, <1>5
  <2>2. ran' => pos' + count' = Size'
    <3>1. ran' => pos' = 0 /\ count' = Size'
      BY <1>3, <1>4
    <3> DEFINE s == Size'
    <3>2. s \in Nat
      BY <1>4
    <3> HIDE DEF s
    <3>3. 0 + s = s
      BY <3>2
    <3> QED BY <3>1, <3>3 DEF s
  <2>3. Len(received') = 0
    BY <1>3
  <2> QED BY <1>3, <1>5, <2>1, <2>2, <2>3 DEF LoopInv
<1>8. UnitGetsSource'
  <2>1. ran' => received' = [i \in 1 .. pos' |-> mem'[src_addr' + i - 1]]
    BY <1>3
  <2> QED BY <2>1 DEF UnitGetsSource, ToUnit
<1> QED BY <1>6, <1>7, <1>8 DEF Inv

LEMMA FetchInv ==
  ASSUME Inv, Fetch
  PROVE  Inv'
<1>1. /\ pc = "fetch" /\ pc' = "store"
      /\ gpdma_buffer' = IF src_addr # 0
                           THEN Fetched(gpdma_buffer, src_addr + pos, TurnSize)
                           ELSE gpdma_buffer
      /\ UNCHANGED <<regs, go, pos, count, mem, ran, received>>
  BY DEF Fetch
<1>2. UNCHANGED <<src_addr, dst_addr, src_size, dst_size>>
  BY <1>1 DEF regs
<1>3. Size' = Size /\ TurnSize' = TurnSize /\ (ToUnit' <=> ToUnit)
  BY <1>1, <1>2 DEF Size, TurnSize, ToUnit
<1>4. /\ count \in Nat \ {0} /\ pos \in Nat /\ src_addr \in Nat
      /\ gpdma_buffer \in [1 .. BufLen -> Values \cup {"clean"}]
  BY <1>1, AddrAssumption DEF Inv, TypeOK, LoopInv
<1>5. TurnSize \in 1 .. BufLen /\ TurnSize <= count /\ BufLen \in Nat
  BY <1>4, TurnFacts, BufLenAssumption
<1>6. TypeOK'
  <2>1. gpdma_buffer' \in [1 .. BufLen -> Values \cup {"clean"}]
    BY <1>1, <1>4, <1>5, FetchedType DEF Inv
  <2> QED BY <1>1, <1>2, <2>1 DEF Inv, TypeOK
<1>7. LoopInv'
  <2>1. ASSUME ToUnit, src_addr # 0, Window(src_addr, Size) \subseteq Mapped,
               NEW i \in 1 .. TurnSize
        PROVE  gpdma_buffer'[i] = mem[src_addr + pos + i - 1]
    <3>1. pos + count = Size
      BY <2>1 DEF ToUnit, Inv, LoopInv
    <3>2. Window(src_addr + pos, TurnSize) \subseteq Window(src_addr, Size)
      BY <3>1, <1>4, <1>5 DEF Window
    <3>3. i \in 1 .. BufLen /\ i <= TurnSize
      BY <1>5
    <3>4. gpdma_buffer' = [j \in 1 .. BufLen |->
                             IF j <= TurnSize THEN mem[(src_addr + pos) + j - 1]
                                              ELSE gpdma_buffer[j]]
      BY <2>1, <3>2, <1>1 DEF Fetched
    <3> QED BY <3>3, <3>4
  <2>2. ran /\ LoopInv
    BY <1>1 DEF Inv, LoopInv
  <2> QED BY <1>1, <1>2, <1>3, <2>1, <2>2 DEF LoopInv
<1>8. UnitGetsSource'
  BY <1>1, <1>2, <1>3 DEF Inv, UnitGetsSource
<1> QED BY <1>6, <1>7, <1>8 DEF Inv

LEMMA StoreInv ==
  ASSUME Inv, Store
  PROVE  Inv'
<1> DEFINE n == TurnSize
           turn == SubSeq(gpdma_buffer, 1, n)
           V == Values \cup {"clean"}
<1>1. /\ pc = "store" /\ pos' = pos + n /\ count' = count - n
      /\ pc' = IF count' = 0 THEN "idle" ELSE "fetch"
      /\ UNCHANGED <<regs, go, mem, ran>>
      /\ dst_addr # 0 => /\ gpdma_buffer' = Fetched(gpdma_buffer, dst_addr + pos, n)
                         /\ received' = received
      /\ dst_addr = 0 => /\ received' = received \o turn
                         /\ gpdma_buffer' = gpdma_buffer
  BY DEF Store
<1>2. UNCHANGED <<src_addr, dst_addr, src_size, dst_size>>
  BY <1>1 DEF regs
<1>3. Size' = Size /\ (ToUnit' <=> ToUnit)
  BY <1>1, <1>2 DEF Size, ToUnit
<1>4. /\ count \in Nat \ {0} /\ pos \in Nat /\ dst_addr \in Nat
      /\ gpdma_buffer \in [1 .. BufLen -> V]
      /\ received \in Seq(V) /\ ran /\ ~ go
      /\ pos + count = Size
  BY <1>1, AddrAssumption DEF Inv, TypeOK, LoopInv
<1>5. n \in 1 .. BufLen /\ n <= count /\ BufLen \in Nat
  BY <1>4, TurnFacts, BufLenAssumption
<1> HIDE DEF n
<1>6. turn \in Seq(V) /\ Len(turn) = n /\ \A i \in 1 .. n : turn[i] = gpdma_buffer[i]
  <2>1. \A i \in 1 .. n : gpdma_buffer[i] \in V
    BY <1>4, <1>5
  <2>2. /\ turn \in Seq(V)
        /\ Len(turn) = IF 1 <= n THEN n - 1 + 1 ELSE 0
        /\ \A i \in 1 .. n - 1 + 1 : turn[i] = gpdma_buffer[1 + i - 1]
    BY <2>1, <1>5, SubSeqProperties
  <2>3. n - 1 + 1 = n /\ 1 <= n /\ \A i \in 1 .. n : 1 + i - 1 = i
    BY <1>5
  <2> QED BY <2>2, <2>3
<1> HIDE DEF turn, V
<1>7. /\ received \o turn \in Seq(V)
      /\ Len(received \o turn) = Len(received) + n
      /\ \A i \in 1 .. Len(received) + n : (received \o turn)[i] =
           IF i <= Len(received) THEN received[i] ELSE turn[i - Len(received)]
  BY <1>4, <1>6, ConcatProperties
<1>8. /\ pos' \in Nat /\ count' \in Nat /\ pos' + count' = Size
      /\ pc' \in {"idle", "fetch"} /\ (pc' = "idle" <=> count' = 0)
  BY <1>1, <1>4, <1>5
<1>9. TypeOK'
  <2>1. gpdma_buffer' \in [1 .. BufLen -> V]
    <3>1. CASE dst_addr # 0
      <4>1. n \in Nat /\ dst_addr + pos \in Nat
        BY <1>4, <1>5
      <4> QED BY <3>1, <4>1, <1>1, <1>4, FetchedType DEF Inv, V
    <3> QED BY <3>1, <1>1, <1>4
  <2>2. received' \in Seq(V)
    BY <1>1, <1>4, <1>7
  <2> QED BY <1>1, <1>2, <1>8, <2>1, <2>2 DEF Inv, TypeOK, V
<1>10. LoopInv'
  <2>1. dst_addr = 0 => Len(received) = pos
    BY <1>4 DEF Inv, LoopInv
  <2>2. dst_addr = 0 => Len(received') = pos'
    BY <2>1, <1>1, <1>7
  <2>3. count' > 0 \/ pc' = "idle"
    BY <1>8
  <2>4. ran' /\ ~ go'
    BY <1>1, <1>4
  <2>5. pc' # "store" /\ (pc' = "idle" => count' = 0)
    BY <1>8
  <2> QED BY <1>2, <1>3, <1>8, <2>2, <2>3, <2>4, <2>5 DEF LoopInv
<1>11. UnitGetsSource'
  <2> SUFFICES ASSUME ToUnit, src_addr # 0, Window(src_addr, Size) \subseteq Mapped
               PROVE  received' = [i \in 1 .. pos' |-> mem[src_addr + i - 1]]
    BY <1>1, <1>2, <1>3 DEF UnitGetsSource
  <2>1. /\ received = [i \in 1 .. pos |-> mem[src_addr + i - 1]]
        /\ \A i \in 1 .. n : gpdma_buffer[i] = mem[src_addr + pos + i - 1]
        /\ Len(received) = pos /\ dst_addr = 0
    BY <1>1 DEF Inv, LoopInv, UnitGetsSource, ToUnit, n
  <2>2. received' = received \o turn /\ pos' = pos + n
    BY <1>1, <2>1
  <2>3. src_addr \in Nat
    BY AddrAssumption DEF Inv, TypeOK
  <2>4. ASSUME NEW i \in 1 .. pos + n
        PROVE  (received \o turn)[i] = mem[src_addr + i - 1]
    <3>1. CASE i <= pos
      <4>1. i \in 1 .. pos
        BY <3>1
      <4> QED BY <4>1, <3>1, <2>1, <1>7
    <3>2. CASE ~ (i <= pos)
      <4>1. i - pos \in 1 .. n /\ src_addr + pos + (i - pos) - 1 = src_addr + i - 1
        BY <3>2, <2>3, <1>4, <1>5
      <4>2. (received \o turn)[i] = turn[i - pos]
        BY <3>2, <2>1, <1>7
      <4>3. turn[i - pos] = mem[src_addr + pos + (i - pos) - 1]
        BY <4>1, <2>1, <1>6
      <4> QED BY <4>1, <4>2, <4>3
    <3> QED BY <3>1, <3>2
  <2>5. (received \o turn) = [i \in 1 .. pos + n |-> (received \o turn)[i]]
    <3> DEFINE s == received \o turn
    <3>1. s \in Seq(V) /\ Len(s) = pos + n
      BY <1>7, <2>1
    <3> HIDE DEF s
    <3>2. s \in [1 .. pos + n -> V]
      BY <3>1, LenProperties
    <3>3. s = [i \in 1 .. pos + n |-> s[i]]
      BY <3>2
    <3> QED BY <3>3 DEF s
  <2> QED BY <2>2, <2>4, <2>5
<1> QED BY <1>9, <1>10, <1>11 DEF Inv

LEMMA NextInv == Inv /\ [Next]_vars => Inv'
<1> SUFFICES ASSUME Inv, [Next]_vars PROVE Inv'
  OBVIOUS
<1>1. CASE UNCHANGED vars
  BY <1>1 DEF vars, regs, Inv, TypeOK, LoopInv, UnitGetsSource, ToUnit, Size,
              TurnSize
<1> QED BY <1>1, AccessInv, FetchInv, StoreInv DEF Next, Turn

(* gpdma_run_transaction never moves more than its buffer holds nor more   *)
(* than is left, for every buffer and transfer size.                       *)
THEOREM TypeCorrect == Spec => []TypeOK
<1>1. Inv => TypeOK
  BY DEF Inv
<1> QED BY <1>1, InitInv, NextInv, PTL DEF Spec

(* The cells hash_dma_write is given are the source, in order, each once.  *)
THEOREM SourceArrives == Spec => []UnitGetsSource
<1>1. Inv => UnitGetsSource
  BY DEF Inv
<1> QED BY <1>1, InitInv, NextInv, PTL DEF Spec

(* And they are as many as the larger size register says.                  *)
THEOREM SizeArrives == Spec => []UnitGetsSize
<1>1. Inv => UnitGetsSize
  <2> SUFFICES ASSUME Inv, ToUnit, pc = "idle" PROVE Len(received) = Size
    BY DEF UnitGetsSize
  <2>1. pos + count = Size /\ count = 0 /\ Len(received) = pos /\ pos \in Nat
    BY DEF Inv, LoopInv, TypeOK, ToUnit
  <2> QED BY <2>1
<1> QED BY <1>1, InitInv, NextInv, PTL DEF Spec

(* A register write runs a transaction only when it is that of CONTROL.    *)
THEOREM OnlyOnOrder == Spec => RunsOnOrder
<1>1. Inv /\ [Next]_vars => [~ UNCHANGED regs => ~ ran']_vars
  <2> SUFFICES ASSUME Inv, Next, ~ UNCHANGED regs PROVE ~ ran'
    OBVIOUS
  <2>1. ~ go
    BY DEF Inv, LoopInv
  <2> QED BY <2>1 DEF Next, Access, Turn, Fetch, Store, StoreMem, BeginIfGo,
             WriteSrcAddr, WriteDstAddr, WriteSrcSize, WriteDstSize,
             WriteControl, WriteOther
<1> QED BY <1>1, InitInv, NextInv, PTL DEF Spec, RunsOnOrder
=============================================================================
