------------------------------ MODULE FabricProofs ------------------------------
(***************************************************************************)
(* The interconnect, for every topology, every memory map and every number *)
(* of clocks: a cycle has one target, the right cell of it, and one that   *)
(* fails has touched nothing.                                              *)
(*                                                                         *)
(* A loop calls every function once in each clock, and what has been       *)
(* touched in one clock must not be touched differently in the next.  So   *)
(* the invariant says of every loop under way that the functions it has    *)
(* called would decline its address again, and of every loop inside a      *)
(* callback for whom it runs.                                              *)
(***************************************************************************)
EXTENDS Fabric, SequenceTheorems, WellFoundedInduction, TLAPS

Frames == [bus : {"prim", "gasket", "pch"}, addr : Nat, sai : {CoreSai, OcsSai},
           rw : {"read", "write"}, max : 1 .. CoreLat, lat : Nat, at : Nat \ {0}]

ConfigTypes ==
  /\ bars \in BarValues /\ mse \in [Functions -> BOOLEAN]
  /\ win \in WinValues /\ DOMAIN win = DOMAIN Boot.win

HitTypes ==
  /\ hits \in Seq(ToSet(hits))
  /\ \A i \in DOMAIN hits : hits[i].sai \in {CoreSai, OcsSai}

Types ==
  /\ ConfigTypes /\ HitTypes
  /\ stack \in Seq(Frames)
  /\ \A i \in DOMAIN stack : stack[i].at \in DOMAIN Order[stack[i].bus]
  /\ ret \in {Aborted, Declined, 0, 1, NoRet}
  /\ asked \in [addr : Nat, rw : {"read", "write"}]

(* The function that a loop is calling. *)
Callee(fr) == Order[fr.bus][fr.at]

(* The loop fr runs inside a callback of the loop out. *)
Linked(fr, out) ==
  \/ /\ Callee(out) = "p2g" /\ fr.bus = "gasket"
     /\ fr.addr = out.addr /\ fr.sai = out.sai
     /\ out.addr \notin DOMAIN CfgWindow
  \/ /\ Callee(out) = "att" /\ fr.bus = "pch"
     /\ MatchExact("att", out.addr) = 0 /\ FindWin(win, out.addr) # 0
     /\ fr.addr = External(win[FindWin(win, out.addr)], out.addr)
     /\ fr.sai = out.sai
  \/ /\ Callee(out) = "ocs" /\ fr.bus = "prim"
     /\ fr.sai = OcsSai /\ out.sai = CoreSai /\ fr.rw = "read"

Chain ==
  /\ \A i \in 1 .. Len(stack) - 1 : Linked(stack[i], stack[i + 1])
  /\ stack # << >> =>
       LET fr == stack[Len(stack)] IN
       fr.bus = "prim" /\ fr.sai = CoreSai /\ fr.addr = asked.addr
  /\ \A i \in DOMAIN stack : stack[i].sai = OcsSai => stack[i].rw = "read"

(* What would decline an address, as the configuration is. *)
PchDeclines(a) == \A f \in ToSet(Order["pch"]) : ~ SimpleAnswers(f, a)

Quiet(a) == FindWin(win, a) # 0 => PchDeclines(External(win[FindWin(win, a)], a))

AttDeclines(a) ==
  IF MatchExact("att", a) # 0
    THEN ~ AttAnswers(a)
    ELSE Quiet(a) /\ FindWin(sbwin, a) = 0

GasketDeclines(a) ==
  \A f \in ToSet(Order["gasket"]) :
    IF f = "att" THEN AttDeclines(a) ELSE ~ SimpleAnswers(f, a)

P2gDeclines(a) ==
  IF a \in DOMAIN CfgWindow THEN FromWindow(CfgWindow[a]) = "none" ELSE GasketDeclines(a)

Declines(f, a) ==
  IF f = "p2g" THEN P2gDeclines(a)
  ELSE IF f = "att" THEN AttDeclines(a)
  ELSE IF f \in {"ocs", "misa"} THEN ~ (MatchExact(f, a) # 0 /\ mse[f])
  ELSE ~ SimpleAnswers(f, a)

AllDecline(fr) == \A k \in DOMAIN Order[fr.bus] : Declines(Order[fr.bus][k], fr.addr)

(* Whom a loop has called declines. *)
Settled ==
  \A i \in DOMAIN stack : \A k \in DOMAIN Order[stack[i].bus] :
    stack[i].lat > 0 \/ k < stack[i].at =>
      Declines(Order[stack[i].bus][k], stack[i].addr)

InDma == stack # << >> /\ (Top.sai = OcsSai \/ (Fn = "ocs" /\ ret # NoRet))

(* The core's access ends with the first touch, but for what it starts. *)
Unheard == ~ InDma => hits = << >>

(* The DMA engine's cycle is over with its first touch but for memory, and  *)
(* goes there when everybody has declined.                                 *)
DmaHits ==
  \A i \in DOMAIN stack : \A j \in DOMAIN hits :
    stack[i].sai = OcsSai /\ hits[j].sai = OcsSai =>
      /\ AllDecline(stack[i])
      /\ stack[i].bus = "prim" =>
           hits[j] = [sai |-> OcsSai, fn |-> "ram", at |-> stack[i].addr]

(* What the end of a loop says to the callback it ran in, or to the core. *)
Returned ==
  /\ stack # << >> /\ ret # NoRet => Fn \in {"p2g", "att", "ocs"}
  /\ stack # << >> /\ ret = Declined /\ Fn = "p2g" => P2gDeclines(Top.addr)
  /\ stack # << >> /\ ret # NoRet /\ Fn = "att" =>
       ret = Declined /\ MatchExact("att", Top.addr) = 0 /\ Quiet(Top.addr)
  /\ stack = << >> /\ ret = Declined /\ Upstream(asked.addr) /\ asked.addr > IoTop =>
       P2gDeclines(asked.addr)
  /\ ret = Aborted /\ ~ InDma => Quiet(asked.addr)

(* A zero or a one is passed on through all the loops. *)
Done == ret \in {0, 1}

Open == Chain /\ Settled /\ Unheard /\ DmaHits /\ Returned

IInv == Types /\ OneTarget /\ (~ Done => Open)

-----------------------------------------------------------------------------
(* Searches. *)

(* A set of numbers has a least one. *)
LEMMA NatMin ==
  ASSUME NEW T \in SUBSET Nat, T # {}
  PROVE  Min(T) \in T /\ \A n \in T : Min(T) <= n
<1> DEFINE R == {ss \in Nat \X Nat : ss[1] < ss[2]}
<1>1. IsWellFoundedOn(R, Nat)
  BY NatLessThanWellFounded DEF OpToRel
<1>2. PICK m \in T : \A n \in T : ~ (<<n, m>> \in R)
  <2> HIDE DEF R
  <2> QED BY <1>1, WFMin
<1>3. \A n \in T : m <= n
  <2> TAKE n \in T
  <2>1. <<n, m>> \in Nat \X Nat /\ <<n, m>>[1] = n /\ <<n, m>>[2] = m
    OBVIOUS
  <2>2. ~ (n < m)
    BY <1>2, <2>1
  <2> QED BY <2>2
<1> QED BY <1>2, <1>3 DEF Min

LEMMA FirstFacts ==
  ASSUME NEW S \in SUBSET (Nat \ {0})
  PROVE  /\ First(S) = 0 => S = {}
         /\ First(S) # 0 => First(S) \in S /\ \A n \in S : First(S) <= n
<1>1. S # {} => Min(S) \in S /\ \A n \in S : Min(S) <= n
  BY NatMin
<1> QED BY <1>1 DEF First

(* The first BAR that matches. *)
LEMMA MatchFacts ==
  ASSUME bars \in BarValues, NEW f \in Functions, NEW a
  PROVE  LET b == Match(f, a) IN
         /\ b # 0 => /\ b \in DOMAIN bars[f]
                     /\ bars[f][b] <= a /\ a <= bars[f][b] + BarSize[f][b]
         /\ \A c \in DOMAIN bars[f] :
              bars[f][c] <= a /\ a <= bars[f][c] + BarSize[f][c] => b # 0 /\ b <= c
<1> DEFINE S == {b \in DOMAIN bars[f] : bars[f][b] <= a /\ a <= bars[f][b] + BarSize[f][b]}
<1>1. S \in SUBSET (Nat \ {0})
  BY DEF BarValues
<1>2. Match(f, a) = First(S)
  BY DEF Match
<1> QED BY <1>1, <1>2, FirstFacts

(* The numbers of a range are all that a sum is taken modulo. *)
LEMMA ModRange ==
  ASSUME NEW n \in Nat, NEW m \in Nat \ {0}
  PROVE  n % m \in 0 .. m - 1
OBVIOUS

LEMMA ModSmall ==
  ASSUME NEW m \in Nat \ {0}, NEW n \in 0 .. m - 1
  PROVE  n % m = n
OBVIOUS

LEMMA ModOnce ==
  ASSUME NEW m \in Nat \ {0}, NEW n \in m .. 2 * m - 1
  PROVE  n % m = n - m
OBVIOUS

(* A window whose end wraps lets nothing through; any other its cells. *)
LEMMA CoversFacts ==
  ASSUME NEW w \in WinRegs, NEW a \in Nat
  PROVE  Covers(w, a) <=> w.on /\ w.int <= a /\ a <= WinEnd(w)
<1>1. /\ AddrMod \in Nat \ {0} /\ w.on \in BOOLEAN
      /\ w.int \in 0 .. AddrMod - 1 /\ w.size \in 0 .. AddrMod - 1
  BY RangeAssumption DEF WinRegs, Address
<1>2. Covers(w, a) <=> w.on /\ w.int + w.size \in Address /\ w.int <= a /\ a <= w.int + w.size
  <2>1. (\E off \in 0 .. w.size : a = w.int + off) <=> a - w.int \in 0 .. w.size
    BY <1>1
  <2> QED BY <1>1, <2>1 DEF Covers
<1>3. CASE w.int + w.size \in Address
  <2>1. WinEnd(w) = w.int + w.size
    BY <1>1, <1>3, ModSmall DEF Address, WinEnd
  <2> QED BY <1>2, <1>3, <2>1
<1>4. CASE w.int + w.size \notin Address
  <2>1. w.int + w.size \in AddrMod .. 2 * AddrMod - 1
    BY <1>1, <1>4 DEF Address
  <2>2. WinEnd(w) = w.int + w.size - AddrMod
    BY <1>1, <2>1, ModOnce DEF WinEnd
  <2>3. ~ (w.int <= a /\ a <= WinEnd(w))
    BY <1>1, <2>2
  <2> QED BY <1>2, <1>4, <2>3
<1> QED BY <1>3, <1>4

LEMMA ExternalNat ==
  ASSUME NEW w \in WinRegs, NEW a \in Nat, w.int <= a
  PROVE  External(w, a) \in Nat
<1>1. ExtMod \in Nat \ {0} /\ w.int \in Nat /\ w.ext \in Nat
  BY RangeAssumption DEF WinRegs, Address, ExtAddress
<1>2. w.ext + (a - w.int) \in Nat
  BY <1>1
<1> QED BY <1>1, <1>2, ModRange DEF External

(* The first window that holds an address. *)
LEMMA FindWinFacts ==
  ASSUME NEW t \in WinValues, NEW a \in Nat
  PROVE  LET w == FindWin(t, a)
             In(i) == t[i].on /\ t[i].int <= a /\ a <= WinEnd(t[i]) IN
         /\ w # 0 => w \in DOMAIN t /\ In(w)
         /\ \A i \in DOMAIN t : In(i) => w # 0 /\ w <= i
<1> DEFINE I == {i \in 1 .. Len(t) : t[i].on /\ t[i].int <= a /\ a <= WinEnd(t[i])}
<1>1. Len(t) \in Nat /\ DOMAIN t = 1 .. Len(t)
  BY DEF WinValues
<1>2. I \in SUBSET (Nat \ {0})
  BY <1>1
<1>3. FindWin(t, a) = First(I)
  BY DEF FindWin, SelectInSeq, First
<1> QED BY <1>1, <1>2, <1>3, FirstFacts

-----------------------------------------------------------------------------
(* Who is on which bus. *)

LEMMA BusFacts ==
  ASSUME NEW bus \in {"prim", "gasket", "pch"}
  PROVE  /\ Len(Order[bus]) \in Nat \ {0} /\ DOMAIN Order[bus] = 1 .. Len(Order[bus])
         /\ \A k \in DOMAIN Order[bus] :
              /\ Order[bus][k] \in ToSet(Order[bus])
              /\ bus = "prim" => Order[bus][k] \in {"p2g", "ocs", "misa"}
              /\ bus = "gasket" => Order[bus][k] \in {"heci", "att"}
              /\ bus = "pch" => Order[bus][k] \notin {"p2g", "ocs", "misa", "heci", "att"}
<1>1. /\ Order["prim"] \in Seq({"p2g", "ocs", "misa"}) /\ Order["gasket"] \in Seq({"heci", "att"})
      /\ Order["pch"] \in Seq(STRING)
  BY TopologyAssumption
<1>2. \E S : Order[bus] \in Seq(S)
  BY <1>1
<1>3. Len(Order[bus]) \in Nat /\ DOMAIN Order[bus] = 1 .. Len(Order[bus])
  BY <1>2
<1>4. Order[bus] # << >>
  BY TopologyAssumption, <1>1 DEF ToSet
<1>5. Len(Order[bus]) # 0
  BY <1>2, <1>4, EmptySeq
<1>6. \A k \in DOMAIN Order[bus] : Order[bus][k] \in ToSet(Order[bus])
  BY DEF ToSet
<1>7. \A k \in DOMAIN Order[bus] : bus = "prim" => Order[bus][k] \in {"p2g", "ocs", "misa"}
  BY <1>1, <1>3
<1>8. \A k \in DOMAIN Order[bus] : bus = "gasket" => Order[bus][k] \in {"heci", "att"}
  BY <1>1, <1>3
<1>9. \A k \in DOMAIN Order[bus] :
        bus = "pch" => Order[bus][k] \notin {"p2g", "ocs", "misa", "heci", "att"}
  BY <1>6, TopologyAssumption
<1> QED BY <1>3, <1>5, <1>6, <1>7, <1>8, <1>9

(* What AllDecline says of each bus. *)
LEMMA DeclineFacts ==
  ASSUME NEW fr
  PROVE  /\ fr.bus = "prim" /\ AllDecline(fr) => P2gDeclines(fr.addr)
         /\ fr.bus = "gasket" => (AllDecline(fr) <=> GasketDeclines(fr.addr))
         /\ fr.bus = "pch" => (AllDecline(fr) <=> PchDeclines(fr.addr))
<1>1. fr.bus = "prim" /\ AllDecline(fr) => P2gDeclines(fr.addr)
  BY TopologyAssumption DEF AllDecline, Declines, ToSet
<1>2. ASSUME fr.bus = "gasket" PROVE AllDecline(fr) <=> GasketDeclines(fr.addr)
  <2>1. \A k \in DOMAIN Order["gasket"] :
          Declines(Order["gasket"][k], fr.addr) <=>
            IF Order["gasket"][k] = "att" THEN AttDeclines(fr.addr)
                                          ELSE ~ SimpleAnswers(Order["gasket"][k], fr.addr)
    BY BusFacts DEF Declines
  <2> QED BY <1>2, <2>1 DEF AllDecline, GasketDeclines, ToSet
<1>3. ASSUME fr.bus = "pch" PROVE AllDecline(fr) <=> PchDeclines(fr.addr)
  <2>1. \A k \in DOMAIN Order["pch"] :
          Declines(Order["pch"][k], fr.addr) <=> ~ SimpleAnswers(Order["pch"][k], fr.addr)
    BY BusFacts DEF Declines
  <2> QED BY <1>3, <2>1 DEF AllDecline, PchDeclines, ToSet
<1> QED BY <1>1, <1>2, <1>3

(* Nothing is answered differently while the configuration stays. *)
LEMMA Same ==
  ASSUME UNCHANGED config
  PROVE  \A f, a : /\ Declines(f, a)' <=> Declines(f, a)
                   /\ P2gDeclines(a)' <=> P2gDeclines(a)
                   /\ Quiet(a)' <=> Quiet(a)
                   /\ MatchExact(f, a)' = MatchExact(f, a)
                   /\ Linked(f, a)' <=> Linked(f, a)
<1> TAKE f, a
<1>1. UNCHANGED <<bars, mse, win, sbwin>>
  BY DEF config
<1>2. \A g, b : Match(g, b)' = Match(g, b) /\ MatchExact(g, b)' = MatchExact(g, b)
  BY <1>1 DEF Match, MatchExact
<1>3. \A g, b : SimpleAnswers(g, b)' <=> SimpleAnswers(g, b)
  BY <1>1 DEF SimpleAnswers, Match, Offset
<1>4. \A b : AttAnswers(b)' <=> AttAnswers(b)
  BY <1>1 DEF AttAnswers, AttCell, MatchExact, Offset
<1>5. \A b : Quiet(b)' <=> Quiet(b)
  BY <1>1, <1>3 DEF Quiet, PchDeclines
<1>6. \A b : P2gDeclines(b)' <=> P2gDeclines(b)
  BY <1>1, <1>2, <1>3, <1>4, <1>5 DEF P2gDeclines, GasketDeclines, AttDeclines
<1>7. Linked(f, a)' <=> Linked(f, a)
  BY <1>1, <1>2 DEF Linked
<1> QED BY <1>1, <1>2, <1>3, <1>4, <1>5, <1>6, <1>7 DEF Declines, AttDeclines

-----------------------------------------------------------------------------
(* The stack of loops. *)

LEMMA TopFacts ==
  ASSUME Types, stack # << >>
  PROVE  /\ Len(stack) \in Nat \ {0} /\ DOMAIN stack = 1 .. Len(stack)
         /\ Top = stack[1] /\ Top \in Frames /\ Fn = Callee(Top)
         /\ Top.at \in DOMAIN Order[Top.bus]
<1>1. stack \in Seq(Frames)
  BY DEF Types
<1>2. Len(stack) \in Nat \ {0} /\ DOMAIN stack = 1 .. Len(stack)
  BY <1>1, EmptySeq
<1>3. Top = stack[1] /\ Top \in Frames
  BY <1>1, <1>2 DEF Top
<1> QED BY <1>2, <1>3 DEF Types, Fn, Callee

LEMMA NextCallFacts ==
  ASSUME NEW fr \in Frames, fr.at \in DOMAIN Order[fr.bus]
  PROVE  LET n == NextCall(fr) IN
         /\ n \in Frames /\ n.at \in DOMAIN Order[n.bus]
         /\ n.bus = fr.bus /\ n.addr = fr.addr /\ n.sai = fr.sai /\ n.rw = fr.rw
         /\ n.max = fr.max
         /\ \/ n.lat = fr.lat /\ n.at = fr.at + 1
            \/ n.lat = fr.lat + 1 /\ n.at = 1 /\ fr.at = Len(Order[fr.bus])
<1>1. fr.bus \in {"prim", "gasket", "pch"}
  BY DEF Frames
<1>2. Len(Order[fr.bus]) \in Nat \ {0} /\ DOMAIN Order[fr.bus] = 1 .. Len(Order[fr.bus])
  BY <1>1, BusFacts
<1>3. /\ fr.at \in Nat \ {0} /\ fr.lat \in Nat
      /\ fr = [bus |-> fr.bus, addr |-> fr.addr, sai |-> fr.sai, rw |-> fr.rw,
               max |-> fr.max, lat |-> fr.lat, at |-> fr.at]
  BY DEF Frames
<1>4. CASE fr.at < Len(Order[fr.bus])
  <2>1. NextCall(fr) = [bus |-> fr.bus, addr |-> fr.addr, sai |-> fr.sai, rw |-> fr.rw,
                        max |-> fr.max, lat |-> fr.lat, at |-> fr.at + 1]
    BY <1>3, <1>4 DEF NextCall
  <2> QED BY <1>2, <1>3, <1>4, <2>1 DEF Frames
<1>5. CASE ~ (fr.at < Len(Order[fr.bus]))
  <2>1. NextCall(fr) = [bus |-> fr.bus, addr |-> fr.addr, sai |-> fr.sai, rw |-> fr.rw,
                        max |-> fr.max, lat |-> fr.lat + 1, at |-> 1]
    BY <1>3, <1>5 DEF NextCall
  <2>2. fr.at = Len(Order[fr.bus])
    BY <1>2, <1>5
  <2> QED BY <1>2, <1>3, <2>1, <2>2 DEF Frames
<1> QED BY <1>4, <1>5

(* A loop goes on to its next function, or ends. *)
LEMMA AnswerFacts ==
  ASSUME Types, stack # << >>, NEW r \in {Aborted, Declined, 0, 1}, Answer(r)
  PROVE  /\ stack' \in Seq(Frames)
         /\ \A i \in DOMAIN stack' : stack'[i].at \in DOMAIN Order[stack'[i].bus]
         /\ r = Declined =>
              /\ ret' = NoRet /\ Len(stack') = Len(stack) /\ stack'[1] = NextCall(Top)
              /\ \A i \in 2 .. Len(stack) : stack'[i] = stack[i]
         /\ r # Declined => stack' = Tail(stack) /\ ret' = r
<1>1. stack \in Seq(Frames) /\ \A i \in DOMAIN stack : stack[i].at \in DOMAIN Order[stack[i].bus]
  BY DEF Types
<1>2. Tail(stack) \in Seq(Frames) /\ Len(Tail(stack)) = Len(stack) - 1
      /\ \A i \in 1 .. Len(Tail(stack)) : Tail(stack)[i] = stack[i + 1]
  BY <1>1, HeadTailProperties
<1>3. Len(stack) \in Nat \ {0} /\ DOMAIN stack = 1 .. Len(stack) /\ DOMAIN Tail(stack) = 1 .. Len(stack) - 1
  BY <1>1, <1>2, TopFacts, LenProperties
<1>4. CASE r # Declined
  <2>1. stack' = Tail(stack) /\ ret' = r
    BY <1>4 DEF Answer, Declined, Aborted
  <2>2. \A i \in DOMAIN stack' : stack'[i] = stack[i + 1] /\ i + 1 \in DOMAIN stack
    BY <1>2, <1>3, <2>1
  <2>3. \A i \in DOMAIN stack' : stack'[i].at \in DOMAIN Order[stack'[i].bus]
    BY <1>1, <2>2
  <2> QED BY <1>2, <1>4, <2>1, <2>3
<1>5. CASE r = Declined
  <2>1. stack' = <<NextCall(Top)>> \o Tail(stack) /\ ret' = NoRet
    BY <1>5 DEF Answer, Declined
  <2>2. NextCall(Top) \in Frames /\ NextCall(Top).at \in DOMAIN Order[NextCall(Top).bus]
    BY TopFacts, NextCallFacts
  <2>3. <<NextCall(Top)>> \in Seq(Frames) /\ Len(<<NextCall(Top)>>) = 1
        /\ <<NextCall(Top)>>[1] = NextCall(Top)
    BY <2>2
  <2>4. /\ stack' \in Seq(Frames) /\ Len(stack') = Len(stack)
        /\ \A i \in 1 .. Len(stack) :
             stack'[i] = IF i <= 1 THEN NextCall(Top) ELSE Tail(stack)[i - 1]
    BY <1>2, <1>3, <2>1, <2>3, ConcatProperties
  <2>5. stack'[1] = NextCall(Top) /\ \A i \in 2 .. Len(stack) : stack'[i] = stack[i]
    BY <1>2, <1>3, <2>4
  <2>6. DOMAIN stack' = 1 .. Len(stack)
    BY <2>4, LenProperties
  <2> QED BY <1>1, <1>3, <1>5, <2>1, <2>2, <2>4, <2>5, <2>6
<1> QED BY <1>4, <1>5

LEMMA EnterFacts ==
  ASSUME Types, NEW fr \in Frames, fr.at \in DOMAIN Order[fr.bus], Enter(fr)
  PROVE  /\ stack' \in Seq(Frames)
         /\ \A i \in DOMAIN stack' : stack'[i].at \in DOMAIN Order[stack'[i].bus]
         /\ ret' = NoRet /\ Len(stack') = Len(stack) + 1 /\ stack'[1] = fr
         /\ \A i \in 2 .. Len(stack) + 1 : stack'[i] = stack[i - 1]
<1>1. stack \in Seq(Frames) /\ \A i \in DOMAIN stack : stack[i].at \in DOMAIN Order[stack[i].bus]
  BY DEF Types
<1>2. <<fr>> \in Seq(Frames) /\ Len(<<fr>>) = 1 /\ <<fr>>[1] = fr
  OBVIOUS
<1>3. stack' = <<fr>> \o stack /\ ret' = NoRet
  BY DEF Enter
<1>4. Len(stack) \in Nat /\ DOMAIN stack = 1 .. Len(stack)
  BY <1>1, LenProperties
<1>5. /\ stack' \in Seq(Frames) /\ Len(stack') = Len(stack) + 1
      /\ \A i \in 1 .. Len(stack) + 1 :
           stack'[i] = IF i <= 1 THEN fr ELSE stack[i - 1]
  BY <1>1, <1>2, <1>3, <1>4, ConcatProperties
<1>6. stack'[1] = fr /\ \A i \in 2 .. Len(stack) + 1 : stack'[i] = stack[i - 1]
  BY <1>4, <1>5
<1>7. DOMAIN stack' = 1 .. Len(stack) + 1
  BY <1>5, LenProperties
<1> QED BY <1>1, <1>3, <1>4, <1>5, <1>6, <1>7

LEMMA PopFacts ==
  ASSUME Types, stack # << >>, stack' = Tail(stack)
  PROVE  /\ stack' \in Seq(Frames)
         /\ \A i \in DOMAIN stack' : stack'[i].at \in DOMAIN Order[stack'[i].bus]
         /\ Len(stack') = Len(stack) - 1 /\ DOMAIN stack' = 1 .. Len(stack) - 1
         /\ \A i \in 1 .. Len(stack) - 1 : stack'[i] = stack[i + 1]
         /\ stack' = << >> <=> Len(stack) = 1
<1>1. stack \in Seq(Frames) /\ \A i \in DOMAIN stack : stack[i].at \in DOMAIN Order[stack[i].bus]
  BY DEF Types
<1>2. stack' \in Seq(Frames) /\ Len(stack') = Len(stack) - 1
      /\ \A i \in 1 .. Len(stack') : stack'[i] = stack[i + 1]
  BY <1>1, HeadTailProperties
<1>3. Len(stack) \in Nat \ {0} /\ DOMAIN stack = 1 .. Len(stack) /\ DOMAIN stack' = 1 .. Len(stack) - 1
  BY <1>1, <1>2, TopFacts, LenProperties
<1>4. stack' = << >> <=> Len(stack') = 0
  BY <1>2, EmptySeq
<1> QED BY <1>1, <1>2, <1>3, <1>4

LEMMA TouchFacts ==
  ASSUME HitTypes, NEW s \in {CoreSai, OcsSai}, NEW f, NEW at, Touch(s, f, at)
  PROVE  LET h == [sai |-> s, fn |-> f, at |-> at] IN
         /\ HitTypes' /\ DOMAIN hits' = 1 .. Len(hits) + 1
         /\ DOMAIN hits = 1 .. Len(hits) /\ Len(hits) \in Nat
         /\ Len(hits') = Len(hits) + 1 /\ Last(hits') = h
         /\ hits'[Len(hits) + 1] = h /\ \A i \in DOMAIN hits : hits'[i] = hits[i]
<1> DEFINE h == [sai |-> s, fn |-> f, at |-> at]
           S == ToSet(hits) \cup {h}
<1>1. hits \in Seq(S) /\ h \in S /\ hits' = Append(hits, h)
  BY DEF Touch, HitTypes
<1> HIDE DEF h, S
<1>2. /\ hits' \in Seq(S) /\ Len(hits') = Len(hits) + 1 /\ hits'[Len(hits) + 1] = h
      /\ \A i \in 1 .. Len(hits) : hits'[i] = hits[i]
  BY <1>1, AppendProperties
<1>3. DOMAIN hits = 1 .. Len(hits) /\ Len(hits) \in Nat /\ DOMAIN hits' = 1 .. Len(hits) + 1
  BY <1>1, <1>2, LenProperties
<1>4. hits' \in Seq(ToSet(hits'))
  <2>1. hits' \in [1 .. Len(hits') -> ToSet(hits')]
    BY <1>2, LenProperties DEF ToSet
  <2> QED BY <1>2, <1>3, <2>1
<1>5. Last(hits') = h
  BY <1>2 DEF Last
<1>6. h.sai = s
  BY DEF h
<1>7. \A i \in DOMAIN hits' : hits'[i].sai \in {CoreSai, OcsSai}
  BY <1>2, <1>3, <1>6 DEF HitTypes
<1> QED BY <1>2, <1>3, <1>4, <1>5, <1>7 DEF h, HitTypes

-----------------------------------------------------------------------------
(* For whom a loop runs. *)

(* A function is on one bus only. *)
LEMMA CalleeFacts ==
  ASSUME NEW fr \in Frames, fr.at \in DOMAIN Order[fr.bus]
  PROVE  /\ Callee(fr) \in {"p2g", "ocs", "misa"} <=> fr.bus = "prim"
         /\ Callee(fr) \in {"heci", "att"} <=> fr.bus = "gasket"
  BY BusFacts DEF Callee, Frames

(* The primary bus has the loop of the core, and that of the DMA engine in  *)
(* the core's callback.                                                    *)
LEMMA PrimFacts ==
  ASSUME Types, Chain, NEW i \in DOMAIN stack, stack[i].bus = "prim"
  PROVE  /\ stack[i].sai = CoreSai => i = Len(stack)
         /\ stack[i].sai = OcsSai => i = Len(stack) - 1
         /\ stack[i].addr = Requested(stack[i].sai)
<1>1. stack # << >> /\ Len(stack) \in Nat \ {0} /\ DOMAIN stack = 1 .. Len(stack)
      /\ \A j \in DOMAIN stack : stack[j] \in Frames /\ stack[j].at \in DOMAIN Order[stack[j].bus]
  BY TopFacts DEF Types
<1>2. \A j \in DOMAIN stack : stack[j].bus = "prim" /\ stack[j].sai = CoreSai => j = Len(stack)
  <2> SUFFICES ASSUME NEW j \in DOMAIN stack, stack[j].bus = "prim", j # Len(stack)
               PROVE  stack[j].sai = OcsSai
    BY DEF CoreSai, OcsSai
  <2>1. Linked(stack[j], stack[j + 1])
    BY <1>1 DEF Chain
  <2> QED BY <2>1 DEF Linked
<1>3. ASSUME stack[i].sai = OcsSai
      PROVE  i = Len(stack) - 1
  <2>1. i \in 1 .. Len(stack) - 1
    BY <1>1, <1>3 DEF Chain, CoreSai, OcsSai
  <2>2. Linked(stack[i], stack[i + 1]) /\ i + 1 \in DOMAIN stack
    BY <1>1, <2>1 DEF Chain
  <2>3. Callee(stack[i + 1]) = "ocs" /\ stack[i + 1].sai = CoreSai
    BY <2>2 DEF Linked
  <2>4. stack[i + 1].bus = "prim"
    BY <1>1, <2>2, <2>3, CalleeFacts
  <2>5. i + 1 = Len(stack)
    BY <1>2, <2>2, <2>3, <2>4
  <2> QED BY <1>1, <2>1, <2>5
<1>4. stack[i].sai \in {CoreSai, OcsSai}
  BY <1>1 DEF Frames
<1>5. stack[i].addr = Requested(stack[i].sai)
  BY <1>1, <1>2, <1>3, <1>4 DEF Chain, Requested, CoreSai, OcsSai
<1> QED BY <1>2, <1>3, <1>5

(* What has become of the address on the way. *)
LEMMA AddressFacts ==
  ASSUME Types, Chain, NEW i \in DOMAIN stack
  PROVE  LET a == Requested(stack[i].sai) IN
         /\ stack[i].bus = "gasket" => stack[i].addr = a
         /\ stack[i].bus = "pch" =>
              FindWin(win, a) # 0 /\ stack[i].addr = External(win[FindWin(win, a)], a)
<1>1. stack # << >> /\ Len(stack) \in Nat \ {0} /\ DOMAIN stack = 1 .. Len(stack)
      /\ \A j \in DOMAIN stack : stack[j] \in Frames /\ stack[j].at \in DOMAIN Order[stack[j].bus]
  BY TopFacts DEF Types
<1>2. \A j \in DOMAIN stack : stack[j].bus # "prim" =>
        Linked(stack[j], stack[j + 1]) /\ j + 1 \in DOMAIN stack
  BY <1>1 DEF Chain
<1>3. ASSUME NEW j \in DOMAIN stack, stack[j].bus = "gasket"
      PROVE  stack[j].addr = Requested(stack[j].sai)
  <2>1. /\ Callee(stack[j + 1]) = "p2g" /\ j + 1 \in DOMAIN stack
        /\ stack[j].addr = stack[j + 1].addr /\ stack[j].sai = stack[j + 1].sai
    BY <1>2, <1>3 DEF Linked
  <2>2. stack[j + 1].bus = "prim"
    BY <1>1, <2>1, CalleeFacts
  <2> QED BY <2>1, <2>2, PrimFacts
<1>4. ASSUME stack[i].bus = "pch"
      PROVE  LET a == Requested(stack[i].sai) IN
             FindWin(win, a) # 0 /\ stack[i].addr = External(win[FindWin(win, a)], a)
  <2>1. /\ Callee(stack[i + 1]) = "att" /\ i + 1 \in DOMAIN stack
        /\ FindWin(win, stack[i + 1].addr) # 0 /\ stack[i].sai = stack[i + 1].sai
        /\ stack[i].addr = External(win[FindWin(win, stack[i + 1].addr)], stack[i + 1].addr)
    BY <1>2, <1>4 DEF Linked
  <2>2. stack[i + 1].bus = "gasket"
    BY <1>1, <2>1, CalleeFacts
  <2> QED BY <1>3, <2>1, <2>2
<1> QED BY <1>3, <1>4

-----------------------------------------------------------------------------
(* One step of a loop. *)

(* The callback has declined. *)
LEMMA DeclinedLoops ==
  ASSUME IInv, ~ Done, stack # << >>, ret = NoRet \/ Fn # "ocs",
         Answer(Declined), UNCHANGED <<config, asked>>, Declines(Fn, Top.addr)
  PROVE  /\ Chain' /\ Settled' /\ Returned' /\ (InDma => InDma')
         /\ DOMAIN stack' = DOMAIN stack
         /\ \A i \in DOMAIN stack :
              /\ stack'[i].bus = stack[i].bus /\ stack'[i].addr = stack[i].addr
              /\ stack'[i].sai = stack[i].sai
              /\ AllDecline(stack[i]) => AllDecline(stack[i])'
<1> DEFINE n == NextCall(Top)
<1>1. /\ Types /\ Chain /\ Settled
      /\ config' = config /\ asked' = asked
  BY DEF IInv, Open
<1>2. /\ Len(stack) \in Nat \ {0} /\ DOMAIN stack = 1 .. Len(stack)
      /\ Top = stack[1] /\ Top \in Frames /\ Fn = Callee(Top)
      /\ Top.at \in DOMAIN Order[Top.bus]
  BY <1>1, TopFacts
<1>3. /\ stack' \in Seq(Frames) /\ ret' = NoRet /\ Len(stack') = Len(stack) /\ stack'[1] = n
      /\ \A i \in 2 .. Len(stack) : stack'[i] = stack[i]
  BY <1>1, AnswerFacts DEF Declined
<1>4. DOMAIN stack' = 1 .. Len(stack) /\ stack' # << >>
  BY <1>2, <1>3, LenProperties, EmptySeq
<1>5. /\ n.bus = Top.bus /\ n.addr = Top.addr /\ n.sai = Top.sai /\ n.rw = Top.rw
      /\ \/ n.lat = Top.lat /\ n.at = Top.at + 1
         \/ n.lat = Top.lat + 1 /\ n.at = 1 /\ Top.at = Len(Order[Top.bus])
  BY <1>2, NextCallFacts
<1> HIDE DEF n
<1>6. \A i \in DOMAIN stack :
        /\ stack'[i].bus = stack[i].bus /\ stack'[i].addr = stack[i].addr
        /\ stack'[i].sai = stack[i].sai /\ stack'[i].rw = stack[i].rw
  BY <1>2, <1>3, <1>5
<1>7. Chain'
  <2>1. ASSUME NEW i \in 1 .. Len(stack) - 1
        PROVE  Linked(stack[i], stack[i + 1])'
    <3>1. Linked(stack[i], stack[i + 1]) /\ i \in DOMAIN stack /\ stack'[i + 1] = stack[i + 1]
      BY <1>1, <1>2, <1>3 DEF Chain
    <3>2. Linked(stack'[i], stack'[i + 1])
      BY <1>6, <3>1 DEF Linked
    <3> QED BY <1>1, <3>2, Same
  <2> QED BY <1>1, <1>2, <1>3, <1>4, <1>6, <2>1 DEF Chain
<1>8. Settled'
  <2> SUFFICES ASSUME NEW i \in DOMAIN stack, NEW k \in DOMAIN Order[stack[i].bus],
                      stack'[i].lat > 0 \/ k < stack'[i].at
               PROVE  Declines(Order[stack[i].bus][k], stack[i].addr)
    BY <1>2, <1>4, <1>6, Same DEF Settled
  <2>1. CASE i # 1
    <3>1. stack'[i] = stack[i]
      BY <1>2, <1>3, <2>1
    <3> QED BY <1>1, <3>1 DEF Settled
  <2>2. CASE i = 1
    <3>1. k \in Nat /\ k <= Len(Order[Top.bus]) /\ Top.lat \in Nat /\ Top.at \in Nat
      BY <1>2, <2>2, BusFacts DEF Frames
    <3>2. Top.lat > 0 \/ k < Top.at \/ k = Top.at
      BY <1>3, <1>5, <2>2, <3>1
    <3> QED BY <1>1, <1>2, <2>2, <3>2 DEF Settled, Callee
  <2> QED BY <2>1, <2>2
<1>9. InDma => InDma'
  BY <1>2, <1>3, <1>4, <1>5 DEF InDma, Top
<1>10. \A i \in DOMAIN stack : AllDecline(stack[i]) => AllDecline(stack[i])'
  BY <1>1, <1>6, Same DEF AllDecline
<1>11. Returned'
  BY <1>3, <1>4 DEF Returned, NoRet, Aborted, Declined
<1> QED BY <1>2, <1>4, <1>6, <1>7, <1>8, <1>9, <1>10, <1>11

(* It has declined and has touched nothing. *)
LEMMA DeclinedOpen ==
  ASSUME IInv, ~ Done, stack # << >>, ret = NoRet \/ Fn # "ocs",
         Answer(Declined), UNCHANGED <<config, asked, hits>>, Declines(Fn, Top.addr)
  PROVE  Open'
<1>1. Unheard /\ DmaHits /\ hits' = hits
  BY DEF IInv, Open
<1>2. /\ Chain' /\ Settled' /\ Returned' /\ (InDma => InDma')
      /\ DOMAIN stack' = DOMAIN stack
      /\ \A i \in DOMAIN stack :
           /\ stack'[i].bus = stack[i].bus /\ stack'[i].addr = stack[i].addr
           /\ stack'[i].sai = stack[i].sai
           /\ AllDecline(stack[i]) => AllDecline(stack[i])'
  BY DeclinedLoops
<1>3. DmaHits'
  <2> SUFFICES ASSUME NEW i \in DOMAIN stack, NEW j \in DOMAIN hits,
                      stack[i].sai = OcsSai, hits[j].sai = OcsSai
               PROVE  /\ AllDecline(stack[i])'
                      /\ stack[i].bus = "prim" =>
                           hits[j] = [sai |-> OcsSai, fn |-> "ram", at |-> stack[i].addr]
    BY <1>1, <1>2 DEF DmaHits
  <2> QED BY <1>1, <1>2 DEF DmaHits
<1> QED BY <1>1, <1>2, <1>3 DEF Open, Unheard

(* MISA has taken a DMA cycle that nobody claimed to memory, and declined. *)
LEMMA RamOpen ==
  ASSUME IInv, ~ Done, stack # << >>, ret = NoRet, Fn = "misa", Top.sai # CoreSai, Top.lat > 0,
         Answer(Declined), UNCHANGED <<config, asked>>, Declines(Fn, Top.addr),
         Touch(Top.sai, "ram", Top.addr)
  PROVE  Open' /\ OneTarget'
<1> DEFINE h == [sai |-> OcsSai, fn |-> "ram", at |-> Top.addr]
<1>1. /\ Types /\ Chain /\ Settled /\ Unheard /\ DmaHits /\ OneTarget
      /\ config' = config /\ asked' = asked
  BY DEF IInv, Open
<1>2. /\ Len(stack) \in Nat \ {0} /\ DOMAIN stack = 1 .. Len(stack)
      /\ Top = stack[1] /\ Top \in Frames /\ Fn = Callee(Top)
      /\ Top.at \in DOMAIN Order[Top.bus]
  BY <1>1, TopFacts
<1>3. Top.sai = OcsSai /\ Top.bus = "prim"
  BY <1>2, CalleeFacts DEF Frames
<1>4. /\ DOMAIN hits' = 1 .. Len(hits) + 1 /\ DOMAIN hits = 1 .. Len(hits) /\ Len(hits) \in Nat
      /\ hits'[Len(hits) + 1] = h /\ \A i \in DOMAIN hits : hits'[i] = hits[i]
      /\ \A i \in DOMAIN hits : hits[i].sai \in {CoreSai, OcsSai}
  BY <1>1, <1>3, TouchFacts DEF Types, HitTypes
<1>5. \A i \in DOMAIN stack : stack[i].sai = OcsSai => i = 1
  <2>1. Len(stack) = 2
    BY <1>1, <1>2, <1>3, PrimFacts
  <2> QED BY <1>1, <1>2, <2>1 DEF Chain, CoreSai, OcsSai
<1>6. AllDecline(Top)
  <2> SUFFICES ASSUME NEW k \in DOMAIN Order[Top.bus]
               PROVE  Declines(Order[Top.bus][k], Top.addr)
    BY DEF AllDecline
  <2>1. 1 \in DOMAIN stack /\ stack[1].lat > 0
    BY <1>2
  <2> QED BY <1>1, <1>2, <2>1 DEF Settled
<1>7. \A j \in DOMAIN hits' : hits'[j].sai = OcsSai => hits'[j] = h
  <2>1. \A j \in DOMAIN hits : hits[j].sai = OcsSai => hits[j] = h
    BY <1>1, <1>2, <1>3 DEF DmaHits
  <2> HIDE DEF h
  <2> QED BY <1>4, <2>1
<1>8. OneTarget'
  <2> SUFFICES ASSUME NEW i \in DOMAIN hits', NEW j \in DOMAIN hits',
                      hits'[i].sai = hits'[j].sai
               PROVE  IF hits'[i].sai = CoreSai THEN i = j ELSE hits'[i] = hits'[j]
    BY DEF OneTarget
  <2>1. h.sai = OcsSai /\ OcsSai # CoreSai
    BY DEF OcsSai, CoreSai
  <2>2. hits'[i].sai \in {CoreSai, OcsSai}
    <3> HIDE DEF h
    <3> QED BY <1>4, <2>1
  <2>3. CASE hits'[i].sai = OcsSai
    BY <1>7, <2>1, <2>3
  <2>4. CASE hits'[i].sai = CoreSai
    <3> HIDE DEF h
    <3>1. \A k \in DOMAIN hits' : hits'[k].sai = CoreSai => k \in DOMAIN hits /\ hits'[k] = hits[k]
      <4> TAKE k \in DOMAIN hits'
      <4>1. k \in DOMAIN hits \/ k = Len(hits) + 1
        BY <1>4
      <4> QED BY <1>4, <2>1, <4>1
    <3> QED BY <1>1, <2>4, <3>1 DEF OneTarget
  <2> QED BY <2>2, <2>3, <2>4
<1>9. /\ Chain' /\ Settled' /\ Returned' /\ (InDma => InDma')
      /\ DOMAIN stack' = DOMAIN stack
      /\ \A i \in DOMAIN stack :
           /\ stack'[i].bus = stack[i].bus /\ stack'[i].addr = stack[i].addr
           /\ stack'[i].sai = stack[i].sai
           /\ AllDecline(stack[i]) => AllDecline(stack[i])'
  BY DeclinedLoops
<1>10. DmaHits'
  <2> SUFFICES ASSUME NEW i \in DOMAIN stack, NEW j \in DOMAIN hits', stack[i].sai = OcsSai,
                      hits'[j].sai = OcsSai
               PROVE  /\ AllDecline(stack[i])'
                      /\ stack[i].bus = "prim" =>
                           hits'[j] = [sai |-> OcsSai, fn |-> "ram", at |-> stack[i].addr]
    BY <1>9 DEF DmaHits
  <2>1. i = 1 /\ stack[i] = Top
    BY <1>2, <1>5
  <2> QED BY <1>2, <1>6, <1>7, <1>9, <2>1
<1>11. InDma
  BY <1>3 DEF InDma
<1> QED BY <1>8, <1>9, <1>10, <1>11 DEF Open, Unheard

(* A device is touched, and answers. *)
LEMMA TouchedOnce ==
  ASSUME IInv, ~ Done, stack # << >>, ret = NoRet \/ Fn # "ocs",
         ~ Declines(Fn, Top.addr), NEW f, NEW at, Touch(Top.sai, f, at)
  PROVE  OneTarget'
<1> DEFINE h == [sai |-> Top.sai, fn |-> f, at |-> at]
<1>1. Types /\ Unheard /\ DmaHits /\ OneTarget
  BY DEF IInv, Open
<1>2. /\ Len(stack) \in Nat \ {0} /\ DOMAIN stack = 1 .. Len(stack)
      /\ Top = stack[1] /\ Top \in Frames /\ Fn = Order[Top.bus][Top.at]
      /\ Top.at \in DOMAIN Order[Top.bus] /\ Top.sai \in {CoreSai, OcsSai}
  BY <1>1, TopFacts DEF Frames, Fn
<1>3. /\ DOMAIN hits' = 1 .. Len(hits) + 1 /\ DOMAIN hits = 1 .. Len(hits) /\ Len(hits) \in Nat
      /\ hits'[Len(hits) + 1] = h /\ \A i \in DOMAIN hits : hits'[i] = hits[i]
  BY <1>1, <1>2, TouchFacts DEF Types
<1>4. \A j \in DOMAIN hits : hits[j].sai # Top.sai
  <2>1. CASE Top.sai = CoreSai
    <3>1. ~ InDma
      BY <2>1 DEF InDma, CoreSai, OcsSai
    <3> QED BY <1>1, <1>3, <3>1 DEF Unheard
  <2>2. CASE Top.sai = OcsSai
    <3>1. ~ AllDecline(Top)
      BY <1>2 DEF AllDecline
    <3>2. 1 \in DOMAIN stack
      BY <1>2
    <3> QED BY <1>1, <1>2, <2>2, <3>1, <3>2 DEF DmaHits
  <2> QED BY <1>2, <2>1, <2>2
<1>5. h.sai = Top.sai
  OBVIOUS
<1> HIDE DEF h
<1> SUFFICES ASSUME NEW i \in DOMAIN hits', NEW j \in DOMAIN hits',
                    hits'[i].sai = hits'[j].sai
             PROVE  IF hits'[i].sai = CoreSai THEN i = j ELSE hits'[i] = hits'[j]
  BY DEF OneTarget
<1>6. CASE i \in DOMAIN hits /\ j \in DOMAIN hits
  <2>1. hits'[i] = hits[i] /\ hits'[j] = hits[j]
    BY <1>3, <1>6
  <2> QED BY <1>1, <1>6, <2>1 DEF OneTarget
<1>7. \A k \in DOMAIN hits' : k \in DOMAIN hits \/ k = Len(hits) + 1
  BY <1>3
<1>8. ASSUME ~ (i \in DOMAIN hits /\ j \in DOMAIN hits) PROVE i = j
  BY <1>3, <1>4, <1>5, <1>7, <1>8
<1> QED BY <1>6, <1>8

(* A callback starts a loop of its own. *)
LEMMA EnteredOpen ==
  ASSUME IInv, ~ Done, stack # << >>, ret = NoRet, NEW fr \in Frames,
         fr.at = 1, fr.lat = 0, Enter(fr), Linked(fr, Top),
         fr.sai = OcsSai => fr.rw = "read",
         UNCHANGED <<config, asked>>,
         \/ Fn # "ocs" /\ UNCHANGED hits
         \/ Fn = "ocs" /\ \E at : Touch(CoreSai, "ocs", at)
  PROVE  Open'
<1>1. /\ Types /\ Chain /\ Settled /\ Unheard /\ DmaHits
      /\ config' = config /\ asked' = asked
  BY DEF IInv, Open
<1>2. /\ Len(stack) \in Nat \ {0} /\ DOMAIN stack = 1 .. Len(stack)
      /\ Top = stack[1] /\ Top \in Frames /\ Fn = Callee(Top)
      /\ Top.at \in DOMAIN Order[Top.bus]
  BY <1>1, TopFacts
<1>3. fr.at \in DOMAIN Order[fr.bus]
  BY BusFacts DEF Frames
<1>4. /\ stack' \in Seq(Frames) /\ ret' = NoRet /\ Len(stack') = Len(stack) + 1 /\ stack'[1] = fr
      /\ \A i \in 2 .. Len(stack) + 1 : stack'[i] = stack[i - 1]
  BY <1>1, <1>3, EnterFacts
<1>5. DOMAIN stack' = 1 .. Len(stack) + 1 /\ stack' # << >>
  BY <1>2, <1>4, LenProperties, EmptySeq
<1>6. \A i \in DOMAIN stack' : i # 1 => stack'[i] = stack[i - 1] /\ i - 1 \in DOMAIN stack
  BY <1>2, <1>4, <1>5
<1>7. Chain'
  <2>1. ASSUME NEW i \in 1 .. Len(stack)
        PROVE  Linked(stack'[i], stack'[i + 1])
    <3>1. CASE i = 1
      BY <1>2, <1>4, <3>1
    <3>2. CASE i # 1
      <4>1. i - 1 \in 1 .. Len(stack) - 1 /\ i - 1 + 1 = i
            /\ stack'[i] = stack[i - 1] /\ stack'[i + 1] = stack[i]
        BY <1>2, <1>4, <3>2
      <4>2. Linked(stack[i - 1], stack[i - 1 + 1])
        BY <1>1, <4>1 DEF Chain
      <4> QED BY <4>1, <4>2
    <3> QED BY <3>1, <3>2
  <2>2. \A i \in 1 .. Len(stack') - 1 : Linked(stack[i], stack[i + 1])'
    BY <1>1, <1>2, <1>4, <2>1, Same
  <2>3. stack'[Len(stack')] = stack[Len(stack)]
    BY <1>2, <1>4
  <2>4. \A i \in DOMAIN stack' : stack'[i].sai = OcsSai => stack'[i].rw = "read"
    BY <1>1, <1>4, <1>6 DEF Chain
  <2> QED BY <1>1, <2>2, <2>3, <2>4 DEF Chain
<1>8. Settled'
  <2> SUFFICES ASSUME NEW i \in DOMAIN stack', NEW k \in DOMAIN Order[stack'[i].bus],
                      stack'[i].lat > 0 \/ k < stack'[i].at
               PROVE  Declines(Order[stack'[i].bus][k], stack'[i].addr)
    BY <1>1, Same DEF Settled
  <2>1. CASE i = 1
    <3>1. k \in Nat \ {0}
      BY <1>4, <2>1, BusFacts DEF Frames
    <3> QED BY <1>4, <2>1, <3>1
  <2>2. CASE i # 1
    BY <1>1, <1>6, <2>2 DEF Settled
  <2> QED BY <2>1, <2>2
<1>9. Fn \in {"p2g", "att", "ocs"} /\ (Fn = "ocs" => fr.sai = OcsSai /\ Top.sai = CoreSai)
      /\ (Fn # "ocs" => fr.sai = Top.sai)
  BY <1>2 DEF Linked
<1>10. Unheard'
  <2> SUFFICES ASSUME fr.sai # OcsSai PROVE hits' = << >>
    BY <1>4, <1>5 DEF Unheard, InDma, Top
  <2>1. Fn # "ocs" /\ fr.sai = Top.sai
    BY <1>9
  <2>2. ~ InDma
    BY <2>1 DEF InDma
  <2> QED BY <1>1, <2>1, <2>2 DEF Unheard
<1>11. DmaHits'
  <2>1. \A j \in DOMAIN hits' : hits'[j].sai = OcsSai =>
          /\ j \in DOMAIN hits /\ hits'[j] = hits[j] /\ Fn # "ocs"
    <3>1. CASE Fn # "ocs"
      BY <3>1
    <3>2. CASE Fn = "ocs"
      <4>1. hits = << >>
        BY <1>1, <1>9, <3>2 DEF Unheard, InDma, CoreSai, OcsSai
      <4>2. PICK at : Touch(CoreSai, "ocs", at)
        BY <3>2
      <4> DEFINE h == [sai |-> CoreSai, fn |-> "ocs", at |-> at]
      <4>3. h.sai = CoreSai
        OBVIOUS
      <4>4. DOMAIN hits' = 1 .. Len(hits) + 1 /\ hits'[Len(hits) + 1] = h
        BY <1>1, <4>2, TouchFacts DEF Types
      <4> HIDE DEF h
      <4> QED BY <4>1, <4>3, <4>4, EmptySeq DEF CoreSai, OcsSai
    <3> QED BY <3>1, <3>2
  <2> SUFFICES ASSUME NEW i \in DOMAIN stack', NEW j \in DOMAIN hits',
                      stack'[i].sai = OcsSai, hits'[j].sai = OcsSai
               PROVE  /\ AllDecline(stack'[i])
                      /\ stack'[i].bus = "prim" =>
                           hits'[j] = [sai |-> OcsSai, fn |-> "ram", at |-> stack'[i].addr]
    BY <1>1, Same DEF DmaHits, AllDecline
  <2>2. CASE i # 1
    BY <1>1, <1>6, <2>1, <2>2 DEF DmaHits
  <2>3. CASE i = 1
    <3>1. fr.sai = Top.sai /\ AllDecline(Top) /\ Fn # "ocs"
      <4>1. Fn # "ocs" /\ fr.sai = Top.sai /\ fr.sai = OcsSai /\ 1 \in DOMAIN stack
        BY <1>2, <1>4, <1>9, <2>1, <2>3
      <4> QED BY <1>1, <1>2, <2>1, <4>1 DEF DmaHits
    <3>2. Declines(Fn, Top.addr)
      BY <1>2, <3>1 DEF AllDecline, Callee
    <3>3. fr.bus # "prim" /\ AllDecline(fr)
      <4>1. CASE Fn = "p2g"
        <5>1. fr.bus = "gasket" /\ fr.addr = Top.addr /\ Top.addr \notin DOMAIN CfgWindow
          BY <1>2, <4>1 DEF Linked
        <5>2. GasketDeclines(fr.addr)
          BY <3>2, <4>1, <5>1 DEF Declines, P2gDeclines
        <5> QED BY <5>1, <5>2, DeclineFacts
      <4>2. CASE Fn = "att"
        <5>1. /\ fr.bus = "pch" /\ MatchExact("att", Top.addr) = 0 /\ FindWin(win, Top.addr) # 0
              /\ fr.addr = External(win[FindWin(win, Top.addr)], Top.addr)
          BY <1>2, <4>2 DEF Linked
        <5>2. PchDeclines(fr.addr)
          BY <3>2, <4>2, <5>1 DEF Declines, AttDeclines, Quiet
        <5> QED BY <5>1, <5>2, DeclineFacts
      <4> QED BY <1>9, <3>1, <4>1, <4>2
    <3> QED BY <1>4, <2>3, <3>3
  <2> QED BY <2>2, <2>3
<1>12. Returned'
  BY <1>4, <1>5 DEF Returned, NoRet, Aborted, Declined
<1> QED BY <1>7, <1>8, <1>10, <1>11, <1>12 DEF Open

(* A loop ends without an answer, at its last clock or because the sideband *)
(* has aborted the access.                                                 *)
LEMMA EndedOpen ==
  ASSUME IInv, ~ Done, stack # << >>, ret = NoRet \/ Fn # "ocs", NEW r \in {Declined, Aborted},
         stack' = Tail(stack), ret' = r, UNCHANGED <<config, asked, hits>>,
         r = Declined => Top.lat > 0,
         r = Aborted => Top.bus # "pch" /\ (Top.sai = CoreSai => Quiet(asked.addr))
  PROVE  Open'
<1>1. /\ Types /\ Chain /\ Settled /\ Unheard /\ DmaHits
      /\ config' = config /\ asked' = asked /\ hits' = hits
  BY DEF IInv, Open
<1>2. /\ Len(stack) \in Nat \ {0} /\ DOMAIN stack = 1 .. Len(stack)
      /\ Top = stack[1] /\ Top \in Frames /\ Fn = Callee(Top)
      /\ Top.at \in DOMAIN Order[Top.bus]
  BY <1>1, TopFacts
<1>3. /\ stack' \in Seq(Frames) /\ Len(stack') = Len(stack) - 1
      /\ DOMAIN stack' = 1 .. Len(stack) - 1
      /\ \A i \in 1 .. Len(stack) - 1 : stack'[i] = stack[i + 1]
      /\ stack' = << >> <=> Len(stack) = 1
  BY <1>1, PopFacts
<1>4. \A i \in DOMAIN stack' : stack'[i] = stack[i + 1] /\ i + 1 \in DOMAIN stack
  BY <1>2, <1>3
<1>5. Chain'
  <2>1. \A i \in 1 .. Len(stack') - 1 : Linked(stack'[i], stack'[i + 1])
    <3> TAKE i \in 1 .. Len(stack') - 1
    <3>1. stack'[i] = stack[i + 1] /\ stack'[i + 1] = stack[i + 1 + 1]
          /\ i + 1 \in 1 .. Len(stack) - 1
      BY <1>2, <1>3
    <3> QED BY <1>1, <3>1 DEF Chain
  <2>2. \A i \in 1 .. Len(stack') - 1 : Linked(stack[i], stack[i + 1])'
    BY <1>1, <2>1, Same
  <2>3. stack' # << >> => stack'[Len(stack')] = stack[Len(stack)]
    BY <1>2, <1>3
  <2>4. \A i \in DOMAIN stack' : stack'[i].sai = OcsSai => stack'[i].rw = "read"
    BY <1>1, <1>4 DEF Chain
  <2> QED BY <1>1, <2>2, <2>3, <2>4 DEF Chain
<1>6. Settled'
  <2> SUFFICES ASSUME NEW i \in DOMAIN stack', NEW k \in DOMAIN Order[stack'[i].bus],
                      stack'[i].lat > 0 \/ k < stack'[i].at
               PROVE  Declines(Order[stack'[i].bus][k], stack'[i].addr)
    BY <1>1, Same DEF Settled
  <2> QED BY <1>1, <1>4 DEF Settled
<1>7. DmaHits'
  <2> SUFFICES ASSUME NEW i \in DOMAIN stack', NEW j \in DOMAIN hits',
                      stack'[i].sai = OcsSai, hits'[j].sai = OcsSai
               PROVE  /\ AllDecline(stack'[i])
                      /\ stack'[i].bus = "prim" =>
                           hits'[j] = [sai |-> OcsSai, fn |-> "ram", at |-> stack'[i].addr]
    BY <1>1, Same DEF DmaHits, AllDecline
  <2> QED BY <1>1, <1>4 DEF DmaHits
(* The caller, when there is one. *)
<1> DEFINE out == stack[2]
<1>8. stack' # << >> => /\ Top' = out /\ Fn' = Callee(out) /\ Linked(Top, out)
                       /\ out \in Frames /\ out.at \in DOMAIN Order[out.bus]
  <2> SUFFICES ASSUME stack' # << >>
               PROVE  /\ Top' = out /\ Fn' = Callee(out) /\ Linked(Top, out)
                      /\ out \in Frames /\ out.at \in DOMAIN Order[out.bus]
    OBVIOUS
  <2>1. 2 \in DOMAIN stack /\ 1 \in 1 .. Len(stack) - 1 /\ stack'[1] = stack[2]
    BY <1>2, <1>3
  <2>2. Linked(stack[1], stack[2])
    BY <1>1, <2>1 DEF Chain
  <2>3. Top' = out
    BY <1>3, <2>1 DEF Top
  <2> QED BY <1>1, <1>2, <2>1, <2>2, <2>3 DEF Types, Fn, Callee
<1> HIDE DEF out
<1>9. stack' = << >> => Top.bus = "prim" /\ Top.sai = CoreSai /\ Top.addr = asked.addr
  BY <1>1, <1>2, <1>3 DEF Chain
<1>10. ~ InDma' => Top.sai = CoreSai
  <2> SUFFICES ASSUME ~ InDma', stack' # << >> PROVE Top.sai = CoreSai
    BY <1>9
  <2>1. ret' # NoRet
    BY DEF NoRet, Declined, Aborted
  <2>2. out.sai # OcsSai /\ Callee(out) # "ocs"
    BY <1>8, <2>1 DEF InDma
  <2> QED BY <1>2, <1>8, <2>2 DEF Linked, Frames
<1>11. Unheard'
  <2>1. ~ InDma' => ~ InDma
    BY <1>10 DEF InDma, CoreSai, OcsSai
  <2> QED BY <1>1, <2>1 DEF Unheard
<1>12. r = Declined => AllDecline(Top)
  <2> SUFFICES ASSUME Top.lat > 0, NEW k \in DOMAIN Order[Top.bus]
               PROVE  Declines(Order[Top.bus][k], Top.addr)
    BY DEF AllDecline
  <2>1. 1 \in DOMAIN stack /\ stack[1].lat > 0
    BY <1>2
  <2> QED BY <1>1, <1>2, <2>1 DEF Settled
<1>13. Returned'
  <2>1. stack' # << >> => Fn' \in {"p2g", "att", "ocs"}
    BY <1>8 DEF Linked
  <2>2. ASSUME stack' # << >>, r = Declined, Fn' = "p2g" PROVE P2gDeclines(Top.addr)'
    <3>1. Top.bus = "gasket" /\ Top.addr = out.addr /\ out.addr \notin DOMAIN CfgWindow
      BY <1>8, <2>2 DEF Linked
    <3>2. P2gDeclines(out.addr)
      BY <1>12, <2>2, <3>1, DeclineFacts DEF P2gDeclines
    <3> QED BY <1>1, <1>8, <2>2, <3>2, Same
  <2>3. ASSUME stack' # << >>, Fn' = "att"
        PROVE  r = Declined /\ (MatchExact("att", Top.addr) = 0)' /\ Quiet(Top.addr)'
    <3>1. /\ Top.bus = "pch" /\ MatchExact("att", out.addr) = 0
          /\ Top.addr = External(win[FindWin(win, out.addr)], out.addr)
      BY <1>8, <2>3 DEF Linked
    <3>2. r = Declined /\ Quiet(out.addr)
      BY <1>12, <3>1, DeclineFacts DEF Quiet
    <3> QED BY <1>1, <1>8, <2>3, <3>1, <3>2, Same
  <2>4. ASSUME stack' = << >>, r = Declined PROVE P2gDeclines(asked.addr)'
    <3>1. P2gDeclines(asked.addr)
      BY <1>9, <1>12, <2>4, DeclineFacts
    <3> QED BY <1>1, <3>1, Same
  <2>5. ASSUME r = Aborted, ~ InDma' PROVE Quiet(asked.addr)'
    BY <1>1, <1>10, <2>5, Same
  <2> QED BY <2>1, <2>2, <2>3, <2>4, <2>5 DEF Returned
<1> QED BY <1>5, <1>6, <1>7, <1>11, <1>13 DEF Open

-----------------------------------------------------------------------------
(* Types. *)

LEMMA SetConfigTypes ==
  ASSUME ConfigTypes, NEW f, SetConfig(f), win' = win
  PROVE  ConfigTypes'
<1>1. bars \in BarValues /\ mse \in [Functions -> BOOLEAN]
  BY DEF ConfigTypes
<1>2. ASSUME NEW b \in DOMAIN bars[f], NEW v \in Settings[f].bars[b],
             bars' = [bars EXCEPT ![f][b] = v]
      PROVE  bars' \in BarValues
  <2>1. CASE f \notin Functions
    BY <1>1, <1>2, <2>1 DEF BarValues
  <2>2. CASE f \in Functions
    <3>1. bars[f] \in Seq(Nat) /\ Len(bars[f]) = Len(BarSize[f]) /\ BarSize[f] \in Seq(Nat)
      BY <1>1, <2>2, ValueAssumption DEF BarValues
    <3>2. b \in DOMAIN BarSize[f]
      BY <3>1, <1>2, LenProperties
    <3>3. v \in Nat
      BY <1>2, <2>2, <3>2, ValueAssumption
    <3>4. [bars[f] EXCEPT ![b] = v] \in Seq(Nat) /\ Len([bars[f] EXCEPT ![b] = v]) = Len(bars[f])
      BY <3>1, <3>3, <1>2, LenProperties, ExceptSeq
    <3>5. bars' = [bars EXCEPT ![f] = [bars[f] EXCEPT ![b] = v]]
      BY <1>2
    <3> QED BY <1>1, <2>2, <3>1, <3>4, <3>5 DEF BarValues
  <2> QED BY <2>1, <2>2
<1>3. ASSUME NEW v \in Settings[f].mse, mse' = [mse EXCEPT ![f] = v]
      PROVE  mse' \in [Functions -> BOOLEAN]
  <2>1. f \in Functions => v \in BOOLEAN
    BY <1>3, ValueAssumption
  <2> QED BY <1>1, <1>3, <2>1
<1> QED BY <1>1, <1>2, <1>3 DEF SetConfig, ConfigTypes

LEMMA SetWindowTypes ==
  ASSUME ConfigTypes, NEW b, SetWindow(b), UNCHANGED <<bars, mse>>
  PROVE  ConfigTypes'
<1> DEFINE W == WinRegs
<1>1. win \in Seq(W) /\ DOMAIN win = DOMAIN Boot.win /\ DOMAIN win = 1 .. Len(win)
  BY LenProperties DEF ConfigTypes, WinValues
<1>2. ASSUME NEW i \in DOMAIN win, NEW r \in DOMAIN Windows[i], NEW v \in Windows[i][r],
             win' = [win EXCEPT ![i][r] = v]
      PROVE  win' \in Seq(W) /\ DOMAIN win' = DOMAIN win
  <2> DEFINE w == [win[i] EXCEPT ![r] = v]
  <2>1. /\ r \in {"on", "int", "size", "ext"}
        /\ v \in CASE r = "on" -> BOOLEAN [] r = "ext" -> ExtAddress [] OTHER -> Address
    <3>1. i \in DOMAIN Boot.win /\ Boot.win \in Seq(W)
      BY <1>1, ValueAssumption DEF ConfigTypes, WinValues
    <3>2. Boot.win[i] \in W
      <4> HIDE DEF W
      <4> QED BY <3>1, LenProperties, ElementOfSeq
    <3>3. DOMAIN Boot.win[i] = {"on", "int", "size", "ext"}
      BY <3>2 DEF WinRegs
    <3> QED BY <3>1, <3>3, ValueAssumption
  <2>2. win[i] \in W
    <3> HIDE DEF W
    <3> QED BY <1>1, ElementOfSeq
  <2>3. w \in W
    <3>1. CASE r = "on"
      <4>1. v \in BOOLEAN
        BY <2>1, <3>1
      <4> QED BY <2>2, <3>1, <4>1 DEF WinRegs
    <3>2. CASE r = "ext"
      <4>1. v \in ExtAddress
        BY <2>1, <3>2
      <4> QED BY <2>2, <3>2, <4>1 DEF WinRegs
    <3>3. CASE r \in {"int", "size"}
      <4>1. v \in Address
        BY <2>1, <3>3
      <4> QED BY <2>2, <3>3, <4>1 DEF WinRegs
    <3> QED BY <2>1, <3>1, <3>2, <3>3
  <2>4. win' = [win EXCEPT ![i] = w]
    BY <1>2
  <2> HIDE DEF w, W
  <2>5. [win EXCEPT ![i] = w] \in Seq(W) /\ Len([win EXCEPT ![i] = w]) = Len(win)
    BY <1>1, <2>3, ExceptSeq
  <2> QED BY <1>1, <2>4, <2>5
<1>3. win' \in Seq(W) /\ DOMAIN win' = DOMAIN win
  BY <1>1, <1>2 DEF SetWindow, SetWin, SetSbWin
<1> QED BY <1>1, <1>3 DEF ConfigTypes, WinValues

LEMMA AnswerTypes ==
  ASSUME Types, stack # << >>, NEW r \in {Aborted, Declined, 0, 1}, Answer(r),
         asked' = asked, ConfigTypes', HitTypes'
  PROVE  Types' /\ (r \in {0, 1} => Done')
<1>1. /\ stack' \in Seq(Frames)
      /\ \A i \in DOMAIN stack' : stack'[i].at \in DOMAIN Order[stack'[i].bus]
      /\ ret' \in {r, NoRet} /\ (r \in {0, 1} => ret' = r)
  BY AnswerFacts DEF Declined
<1> QED BY <1>1 DEF Types, Done

LEMMA EnterTypes ==
  ASSUME Types, NEW fr \in Frames, fr.at = 1, Enter(fr), asked' \in [addr : Nat, rw : {"read", "write"}],
         UNCHANGED config, HitTypes'
  PROVE  Types'
<1>1. fr.at \in DOMAIN Order[fr.bus]
  BY BusFacts DEF Frames
<1>2. ConfigTypes'
  BY DEF Types, ConfigTypes, config
<1> QED BY <1>1, <1>2, EnterFacts DEF Types

-----------------------------------------------------------------------------
(* The core's accesses. *)

(* Nothing, or one touch by the core. *)
LEMMA FewHits ==
  ASSUME hits' = << >> \/ \E f, at : hits' = <<[sai |-> CoreSai, fn |-> f, at |-> at]>>
  PROVE  HitTypes' /\ OneTarget'
<1>1. CASE hits' = << >>
  BY <1>1 DEF HitTypes, OneTarget, ToSet
<1>2. CASE \E f, at : hits' = <<[sai |-> CoreSai, fn |-> f, at |-> at]>>
  <2>1. PICK f, at : hits' = <<[sai |-> CoreSai, fn |-> f, at |-> at]>>
    BY <1>2
  <2> DEFINE h == [sai |-> CoreSai, fn |-> f, at |-> at]
  <2>2. h.sai = CoreSai
    OBVIOUS
  <2> HIDE DEF h
  <2>3. hits' = <<h>>
    BY <2>1 DEF h
  <2> QED BY <2>2, <2>3 DEF HitTypes, OneTarget, ToSet
<1> QED BY <1>1, <1>2

LEMMA InitInv == Init => IInv
<1> SUFFICES ASSUME Init PROVE IInv
  OBVIOUS
<1>1. stack = << >> /\ hits = << >> /\ ret = NoRet /\ asked = [addr |-> 0, rw |-> "read"]
  BY DEF Init
<1>2. ConfigTypes
  BY ValueAssumption DEF Init, ConfigTypes
<1>3. HitTypes /\ OneTarget
  BY <1>1 DEF HitTypes, OneTarget, ToSet
<1>4. Types
  BY <1>1, <1>2, <1>3 DEF Types
<1>5. Open
  BY <1>1 DEF Open, Chain, Settled, Unheard, DmaHits, Returned, NoRet, Declined, Aborted
<1> QED BY <1>3, <1>4, <1>5 DEF IInv

(* An access that ends where it began. *)
LEMMA CoreEnds ==
  ASSUME Types, stack = << >>, UNCHANGED stack, ConfigTypes',
         asked' \in [addr : Nat, rw : {"read", "write"}],
         \/ ret' = 0 /\ (hits' = << >> \/ \E f, at : hits' = <<[sai |-> CoreSai, fn |-> f, at |-> at]>>)
         \/ /\ ret' = Declined /\ hits' = << >>
            /\ ~ (Upstream(asked'.addr) /\ asked'.addr > IoTop)
  PROVE  IInv'
<1>1. HitTypes' /\ OneTarget'
  BY FewHits
<1>2. Types'
  BY <1>1 DEF Types
<1>3. ret' # 0 => Open'
  BY DEF Open, Chain, Settled, Unheard, DmaHits, Returned, NoRet, Declined, Aborted
<1> QED BY <1>1, <1>2, <1>3 DEF IInv, Done

(* A configuration cycle of the core. *)
LEMMA CoreConfig ==
  ASSUME Types, stack = << >>, NEW f, NEW rw \in {"read", "write"},
         ConfigCycle(<< >>, CoreSai, f, rw), ret' = ConfigResult(f),
         UNCHANGED <<win, stack>>, asked' \in [addr : Nat, rw : {"read", "write"}],
         ~ (Upstream(asked'.addr) /\ asked'.addr > IoTop)
  PROVE  IInv'
<1>1. ConfigTypes
  BY DEF Types
<1>2. CASE f = "none"
  <2>1. hits' = << >> /\ UNCHANGED <<bars, mse>> /\ ret' = Declined
    BY <1>2 DEF ConfigCycle, ConfigResult
  <2>2. ConfigTypes'
    BY <1>1, <2>1 DEF ConfigTypes
  <2> QED BY <2>1, <2>2, CoreEnds
<1>3. CASE f # "none"
  <2>1. /\ hits' = <<[sai |-> CoreSai, fn |-> f, at |-> "config"]>> /\ ret' = 0
        /\ SetConfig(f) \/ UNCHANGED <<bars, mse>>
    BY <1>3 DEF ConfigCycle, ConfigResult
  <2>2. ConfigTypes'
    BY <1>1, <2>1, SetConfigTypes DEF ConfigTypes
  <2> QED BY <2>1, <2>2, CoreEnds
<1> QED BY <1>2, <1>3

LEMMA CoreInv ==
  ASSUME IInv, Core
  PROVE  IInv'
<1>1. PICK rw \in {"read", "write"} :
        \/ CoreCf8(rw)
        \/ CoreCfc(rw)
        \/ \E a \in Addrs :
             CoreBunit(a, rw) \/ CoreEcam(a, rw) \/ CoreIo(a, rw) \/ CoreMemory(a, rw)
  BY DEF Core
<1>2. Types /\ ConfigTypes
  BY DEF IInv, Types
<1>3. config' = config => ConfigTypes'
  BY <1>2 DEF config, ConfigTypes
<1>4. Addrs \cup {Cf8, Cfc} \subseteq Nat /\ IoTop \in Nat /\ Cf8 <= IoTop /\ Cfc <= IoTop
  BY ValueAssumption, RangeAssumption DEF Address
<1>5. CASE CoreCf8(rw)
  <2>1. stack = << >> /\ UNCHANGED stack /\ hits' = << >> /\ ret' = 0
        /\ asked' = [addr |-> Cf8, rw |-> rw] /\ UNCHANGED <<bars, mse, win>>
    BY <1>5 DEF CoreCf8, Ask
  <2> QED BY <1>2, <1>4, <2>1, CoreEnds DEF ConfigTypes
<1>6. CASE CoreCfc(rw)
  <2> DEFINE f == IF acf8.en THEN FromCore(acf8.target) ELSE "none"
  <2>1. stack = << >> /\ UNCHANGED <<win, stack>> /\ asked' = [addr |-> Cfc, rw |-> rw]
        /\ ConfigCycle(<< >>, CoreSai, f, rw) /\ ret' = ConfigResult(f)
    BY <1>6 DEF CoreCfc, Ask
  <2> HIDE DEF f
  <2>2. asked' \in [addr : Nat, rw : {"read", "write"}] /\ ~ (asked'.addr > IoTop)
    BY <1>4, <2>1
  <2> QED BY <1>2, <2>1, <2>2, CoreConfig
<1>7. ASSUME NEW a \in Addrs, CoreBunit(a, rw) PROVE IInv'
  <2>1. /\ stack = << >> /\ UNCHANGED <<config, stack>> /\ ret' = 0
        /\ asked' = [addr |-> a, rw |-> rw]
        /\ hits' = <<[sai |-> CoreSai, fn |-> "ram", at |-> a]>>
    BY <1>7 DEF CoreBunit, Ask
  <2> QED BY <1>2, <1>3, <1>4, <2>1, CoreEnds
<1>8. ASSUME NEW a \in Addrs, CoreEcam(a, rw) PROVE IInv'
  <2>1. /\ stack = << >> /\ UNCHANGED <<win, stack>> /\ asked' = [addr |-> a, rw |-> rw]
        /\ ConfigCycle(<< >>, CoreSai, FromCore(Ecam[a]), rw)
        /\ ret' = ConfigResult(FromCore(Ecam[a])) /\ a \in DOMAIN Ecam
    BY <1>8 DEF CoreEcam, Ask
  <2>2. asked' \in [addr : Nat, rw : {"read", "write"}] /\ ~ Upstream(asked'.addr)
    BY <1>4, <2>1 DEF Upstream
  <2> QED BY <1>2, <2>1, <2>2, CoreConfig
<1>9. ASSUME NEW a \in Addrs, CoreIo(a, rw) PROVE IInv'
  <2>1. /\ stack = << >> /\ UNCHANGED <<config, stack>> /\ asked' = [addr |-> a, rw |-> rw]
        /\ hits' = << >> /\ ret' = Declined /\ a <= IoTop
    BY <1>9 DEF CoreIo, Ask
  <2>2. asked' \in [addr : Nat, rw : {"read", "write"}] /\ ~ (asked'.addr > IoTop)
    BY <1>4, <2>1
  <2> QED BY <1>2, <1>3, <2>1, <2>2, CoreEnds
<1>10. ASSUME NEW a \in Addrs, CoreMemory(a, rw) PROVE IInv'
  <2> DEFINE fr == Loop("prim", a, CoreSai, rw, CoreLat)
  <2>1. /\ stack = << >> /\ UNCHANGED config /\ asked' = [addr |-> a, rw |-> rw]
        /\ hits' = << >> /\ Enter(fr)
    BY <1>10 DEF CoreMemory, Ask
  <2>2. /\ fr \in Frames /\ fr.at = 1 /\ fr.lat = 0 /\ fr.bus = "prim" /\ fr.addr = a
        /\ fr.sai = CoreSai
    BY <1>4, LatAssumption DEF Loop, Frames
  <2> HIDE DEF fr
  <2>3. HitTypes' /\ OneTarget'
    BY <2>1, FewHits
  <2>4. asked' \in [addr : Nat, rw : {"read", "write"}]
    BY <1>4, <2>1
  <2>5. Types'
    BY <1>2, <2>1, <2>2, <2>3, <2>4, EnterTypes
  <2>6. stack' = <<fr>> /\ ret' = NoRet
    BY <2>1, <2>2 DEF Enter
  <2>7. Chain' /\ Settled'
    <3>1. Chain'
      BY <2>1, <2>2, <2>6 DEF Chain, CoreSai, OcsSai
    <3>2. \A k \in DOMAIN Order["prim"] : k \in Nat \ {0}
      BY BusFacts
    <3> QED BY <2>2, <2>6, <3>1, <3>2 DEF Settled
  <2>8. Unheard' /\ DmaHits' /\ Returned'
    BY <2>1, <2>6 DEF Unheard, DmaHits, Returned, NoRet, Declined, Aborted
  <2> QED BY <2>3, <2>5, <2>7, <2>8 DEF IInv, Open
<1> QED BY <1>1, <1>5, <1>6, <1>7, <1>8, <1>9, <1>10

-----------------------------------------------------------------------------
(* The callbacks. *)

(* A callback declines. *)
LEMMA DeclinedInv ==
  ASSUME IInv, ~ Done, stack # << >>, ret = NoRet \/ Fn # "ocs",
         Answer(Declined), UNCHANGED <<config, asked, hits>>, Declines(Fn, Top.addr)
  PROVE  IInv'
<1>1. Types /\ OneTarget
  BY DEF IInv
<1>2. ConfigTypes' /\ HitTypes'
  BY <1>1 DEF Types, ConfigTypes, HitTypes, config
<1>3. Types'
  BY <1>1, <1>2, AnswerTypes
<1>4. OneTarget'
  BY <1>1 DEF OneTarget
<1> QED BY <1>3, <1>4, DeclinedOpen DEF IInv

(* It answers, having touched one cell or none. *)
LEMMA AnsweredInv ==
  ASSUME IInv, ~ Done, stack # << >>, ret = NoRet \/ Fn # "ocs",
         ~ Declines(Fn, Top.addr), NEW r \in {0, 1}, Answer(r), asked' = asked, ConfigTypes',
         hits' = hits \/ \E f, at : Touch(Top.sai, f, at)
  PROVE  IInv'
<1>1. Types /\ OneTarget /\ HitTypes
  BY DEF IInv, Types
<1>2. Top.sai \in {CoreSai, OcsSai}
  BY <1>1, TopFacts DEF Frames
<1>3. HitTypes' /\ OneTarget'
  <2>1. CASE hits' = hits
    BY <1>1, <2>1 DEF HitTypes, OneTarget
  <2>2. CASE \E f, at : Touch(Top.sai, f, at)
    <3>1. PICK f, at : Touch(Top.sai, f, at)
      BY <2>2
    <3> QED BY <1>1, <1>2, <3>1, TouchFacts, TouchedOnce
  <2> QED BY <2>1, <2>2
<1>4. Types' /\ Done'
  BY <1>1, <1>3, AnswerTypes
<1> QED BY <1>3, <1>4 DEF IInv

(* The loop inside a callback has ended with an answer. *)
LEMMA DoneInv ==
  ASSUME IInv, stack # << >>, NEW r \in {0, 1}, Answer(r), UNCHANGED <<config, asked, hits>>
  PROVE  IInv'
<1>1. Types /\ OneTarget
  BY DEF IInv
<1>2. ConfigTypes' /\ HitTypes'
  BY <1>1 DEF Types, ConfigTypes, HitTypes, config
<1>3. Types' /\ Done'
  BY <1>1, <1>2, AnswerTypes
<1>4. OneTarget'
  BY <1>1 DEF OneTarget
<1> QED BY <1>3, <1>4 DEF IInv

(* A loop ends without an answer. *)
LEMMA EndedInv ==
  ASSUME IInv, ~ Done, stack # << >>, ret = NoRet \/ Fn # "ocs", NEW r \in {Declined, Aborted},
         stack' = Tail(stack), ret' = r, UNCHANGED <<config, asked, hits>>,
         r = Declined => Top.lat > 0,
         r = Aborted => Top.bus # "pch" /\ (Top.sai = CoreSai => Quiet(asked.addr))
  PROVE  IInv'
<1>1. Types /\ OneTarget
  BY DEF IInv
<1>2. ConfigTypes' /\ HitTypes'
  BY <1>1 DEF Types, ConfigTypes, HitTypes, config
<1>3. Types'
  BY <1>1, <1>2, PopFacts DEF Types
<1>4. OneTarget'
  BY <1>1 DEF OneTarget
<1> QED BY <1>3, <1>4, EndedOpen DEF IInv

LEMMA CallingFacts ==
  ASSUME IInv, Calling
  PROVE  /\ ~ Done /\ stack # << >> /\ ret = NoRet /\ Types /\ Chain
         /\ Top \in Frames /\ Top = stack[1] /\ 1 \in DOMAIN stack /\ Fn = Callee(Top)
         /\ Top.at \in DOMAIN Order[Top.bus]
         /\ Top.lat \in Nat /\ Top.lat < Top.max /\ Top.max <= CoreLat
         /\ Top.addr \in Nat /\ Top.sai \in {CoreSai, OcsSai} /\ Top.rw \in {"read", "write"}
         /\ Top.sai = OcsSai => Top.rw = "read"
<1>1. ~ Done /\ stack # << >> /\ ret = NoRet /\ Top.lat < Top.max
  BY DEF Calling, Done, NoRet
<1>2. Types /\ Chain
  BY <1>1 DEF IInv, Open
<1>3. /\ Top \in Frames /\ Top = stack[1] /\ 1 \in DOMAIN stack /\ Fn = Callee(Top)
      /\ Top.at \in DOMAIN Order[Top.bus]
  BY <1>1, <1>2, TopFacts
<1> QED BY <1>1, <1>2, <1>3, LatAssumption DEF Frames, Chain

LEMMA CallSimpleInv ==
  ASSUME IInv, CallSimple
  PROVE  IInv'
<1>1. Calling /\ Fn \in Simple /\ UNCHANGED <<config, asked>>
  BY DEF CallSimple
<1>2. ~ Done /\ stack # << >> /\ ret = NoRet /\ ConfigTypes
  BY <1>1, CallingFacts DEF Types
<1>3. Fn \notin {"p2g", "att", "ocs", "misa"}
  BY <1>1, TopologyAssumption DEF Simple
<1>4. Declines(Fn, Top.addr) <=> ~ SimpleAnswers(Fn, Top.addr)
  BY <1>3 DEF Declines
<1>5. CASE SimpleAnswers(Fn, Top.addr)
  <2>1. Answer(1) /\ \E f, at : Touch(Top.sai, f, at)
    BY <1>5 DEF CallSimple
  <2>2. ConfigTypes'
    BY <1>1, <1>2 DEF ConfigTypes, config
  <2> QED BY <1>1, <1>2, <1>4, <1>5, <2>1, <2>2, AnsweredInv
<1>6. CASE ~ SimpleAnswers(Fn, Top.addr)
  BY <1>1, <1>2, <1>4, <1>6, DeclinedInv DEF CallSimple
<1> QED BY <1>5, <1>6

LEMMA CallOcsInv ==
  ASSUME IInv, CallOcs
  PROVE  IInv'
<1>1. Calling /\ Fn = "ocs" /\ UNCHANGED <<config, asked>>
  BY DEF CallOcs
<1>2. ~ Done /\ stack # << >> /\ ret = NoRet /\ ConfigTypes
  BY <1>1, CallingFacts DEF Types
<1>3. Declines(Fn, Top.addr) <=> ~ OcsAnswers
  BY <1>1 DEF Declines, OcsAnswers
<1>4. CASE OcsAnswers
  <2>1. PICK r \in {0, OcsSai} : Answer(r)
    BY <1>4 DEF CallOcs
  <2>2. \E f, at : Touch(Top.sai, f, at)
    BY <1>4 DEF CallOcs
  <2>3. ConfigTypes' /\ r \in {0, 1}
    BY <1>1, <1>2 DEF ConfigTypes, config, OcsSai
  <2> QED BY <1>1, <1>2, <1>3, <1>4, <2>1, <2>2, <2>3, AnsweredInv
<1>5. CASE ~ OcsAnswers
  BY <1>1, <1>2, <1>3, <1>5, DeclinedInv DEF CallOcs
<1> QED BY <1>4, <1>5

LEMMA CallMisaInv ==
  ASSUME IInv, CallMisa
  PROVE  IInv'
<1> DEFINE In == MatchExact("misa", Top.addr) # 0 /\ mse["misa"]
<1>1. Calling /\ Fn = "misa" /\ UNCHANGED <<config, asked>>
  BY DEF CallMisa
<1>2. ~ Done /\ stack # << >> /\ ret = NoRet /\ ConfigTypes /\ Types /\ Top.lat \in Nat
      /\ Top.sai \in {CoreSai, OcsSai}
  BY <1>1, CallingFacts DEF Types
<1>3. Declines(Fn, Top.addr) <=> ~ In
  BY <1>1 DEF Declines
<1>4. ConfigTypes'
  BY <1>1, <1>2 DEF ConfigTypes, config
<1>5. CASE In
  <2>1. Answer(0) /\ \E f, at : Touch(Top.sai, f, at)
    BY <1>5 DEF CallMisa, CoreSai
  <2> QED BY <1>1, <1>2, <1>3, <1>4, <1>5, <2>1, AnsweredInv
<1>6. CASE ~ In /\ DmaHit(Top) /\ Translates
  <2>1. Answer(Declined) /\ Touch(Top.sai, "ram", Top.addr)
    BY <1>6 DEF CallMisa
  <2>2. Top.sai # CoreSai /\ Top.lat > 0
    BY <1>2, <1>6, LatAssumption DEF DmaHit
  <2>3. Open' /\ OneTarget'
    BY <1>1, <1>2, <1>3, <1>6, <2>1, <2>2, RamOpen
  <2>4. HitTypes'
    BY <1>2, <2>1, TouchFacts DEF Types
  <2>5. Types'
    BY <1>1, <1>2, <1>4, <2>1, <2>4, AnswerTypes
  <2> QED BY <2>3, <2>5 DEF IInv
<1>7. CASE ~ In /\ ~ (DmaHit(Top) /\ Translates)
  BY <1>1, <1>2, <1>3, <1>7, DeclinedInv DEF CallMisa
<1> QED BY <1>5, <1>6, <1>7

LEMMA OcsDmaInv ==
  ASSUME IInv, NEW a \in DmaAddrs, OcsDma(a)
  PROVE  IInv'
<1> DEFINE fr == Loop("prim", a, OcsSai, "read", DmaLat)
<1>1. /\ Calling /\ Fn = "ocs" /\ UNCHANGED <<config, asked>> /\ OcsAnswers /\ Top.rw = "write"
      /\ Touch(Top.sai, "ocs", <<1, Offset("ocs", 1, Top.addr)>>) /\ Enter(fr)
  BY DEF OcsDma
<1>2. /\ ~ Done /\ stack # << >> /\ ret = NoRet /\ Types /\ HitTypes /\ Fn = Callee(Top)
      /\ Top.sai = CoreSai
  BY <1>1, CallingFacts DEF Types
<1>3. /\ fr \in Frames /\ fr.at = 1 /\ fr.lat = 0 /\ fr.bus = "prim"
      /\ fr.sai = OcsSai /\ fr.rw = "read"
  BY ValueAssumption, RangeAssumption, LatAssumption DEF Loop, Frames, Address
<1> HIDE DEF fr
<1>4. Linked(fr, Top)
  BY <1>1, <1>2, <1>3 DEF Linked
<1>5. Open'
  BY <1>1, <1>2, <1>3, <1>4, EnteredOpen
<1>6. HitTypes'
  BY <1>1, <1>2, TouchFacts
<1>7. OneTarget'
  <2>1. ~ Declines(Fn, Top.addr)
    BY <1>1 DEF Declines, OcsAnswers
  <2> QED BY <1>1, <1>2, <2>1, TouchedOnce
<1>8. Types'
  <2>1. asked' \in [addr : Nat, rw : {"read", "write"}]
    BY <1>1, <1>2 DEF Types
  <2> QED BY <1>1, <1>2, <1>3, <1>6, <2>1, EnterTypes
<1> QED BY <1>5, <1>7, <1>8 DEF IInv

LEMMA P2gConfigInv ==
  ASSUME IInv, P2gConfig
  PROVE  IInv'
<1> DEFINE f == FromWindow(CfgWindow[Top.addr])
<1>1. /\ Calling /\ Fn = "p2g" /\ Top.addr \in DOMAIN CfgWindow
      /\ ConfigCycle(hits, Top.sai, f, Top.rw) /\ Answer(ConfigResult(f))
      /\ UNCHANGED <<acf8, win, sbwin, asked>>
  BY DEF P2gConfig
<1>2. ~ Done /\ stack # << >> /\ ret = NoRet /\ ConfigTypes
  BY <1>1, CallingFacts DEF Types
<1>3. Declines(Fn, Top.addr) <=> f = "none"
  BY <1>1 DEF Declines, P2gDeclines
<1> HIDE DEF f
<1>4. CASE f = "none"
  <2>1. Answer(Declined) /\ UNCHANGED <<config, asked, hits>>
    BY <1>1, <1>4 DEF ConfigCycle, ConfigResult, config
  <2> QED BY <1>1, <1>2, <1>3, <1>4, <2>1, DeclinedInv
<1>5. CASE f # "none"
  <2>1. Answer(0) /\ Touch(Top.sai, f, "config") /\ (SetConfig(f) \/ UNCHANGED <<bars, mse>>)
    BY <1>1, <1>5 DEF ConfigCycle, ConfigResult, Touch
  <2>2. ConfigTypes'
    BY <1>1, <1>2, <2>1, SetConfigTypes DEF ConfigTypes
  <2> QED BY <1>1, <1>2, <1>3, <1>5, <2>1, <2>2, AnsweredInv
<1> QED BY <1>4, <1>5

LEMMA P2gForwardInv ==
  ASSUME IInv, P2gForward
  PROVE  IInv'
<1> DEFINE fr == Loop("gasket", Top.addr, Top.sai, Top.rw, CoreLat - Top.lat)
<1>1. /\ Calling /\ Fn = "p2g" /\ UNCHANGED <<config, asked, hits>>
      /\ Top.addr \notin DOMAIN CfgWindow /\ Enter(fr)
  BY DEF P2gForward
<1>2. /\ ~ Done /\ stack # << >> /\ ret = NoRet /\ Types /\ HitTypes /\ OneTarget
      /\ Fn = Callee(Top) /\ (Top.sai = OcsSai => Top.rw = "read")
  BY <1>1, CallingFacts DEF Types, IInv
<1>3. /\ fr \in Frames /\ fr.at = 1 /\ fr.lat = 0 /\ fr.bus = "gasket" /\ fr.addr = Top.addr
      /\ fr.sai = Top.sai /\ fr.rw = Top.rw
  BY <1>1, CallingFacts, LatAssumption DEF Loop, Frames
<1> HIDE DEF fr
<1>4. Linked(fr, Top)
  BY <1>1, <1>2, <1>3 DEF Linked
<1>5. Open'
  BY <1>1, <1>2, <1>3, <1>4, EnteredOpen
<1>6. HitTypes' /\ OneTarget' /\ asked' \in [addr : Nat, rw : {"read", "write"}]
  BY <1>1, <1>2 DEF HitTypes, OneTarget, Types
<1>7. Types'
  BY <1>1, <1>2, <1>3, <1>6, EnterTypes
<1> QED BY <1>5, <1>6, <1>7 DEF IInv

LEMMA AttForwardInv ==
  ASSUME IInv, AttForward
  PROVE  IInv'
<1> DEFINE w == FindWin(win, Top.addr)
           fr == Loop("pch", External(win[w], Top.addr), Top.sai, Top.rw, AttLat)
<1>1. /\ Calling /\ Fn = "att" /\ UNCHANGED <<config, asked, hits>>
      /\ MatchExact("att", Top.addr) = 0 /\ w # 0 /\ Enter(fr)
  BY DEF AttForward
<1>2. /\ ~ Done /\ stack # << >> /\ ret = NoRet /\ Types /\ HitTypes /\ OneTarget
      /\ Fn = Callee(Top) /\ (Top.sai = OcsSai => Top.rw = "read")
      /\ Top.addr \in Nat /\ win \in WinValues
  BY <1>1, CallingFacts DEF Types, IInv, ConfigTypes
<1>3. External(win[w], Top.addr) \in Nat
  <2>1. w \in DOMAIN win /\ win[w].int <= Top.addr
    BY <1>1, <1>2, FindWinFacts
  <2>2. win[w] \in WinRegs
    <3> HIDE DEF w
    <3> QED BY <1>2, <2>1, LenProperties, ElementOfSeq DEF WinValues
  <2> HIDE DEF w
  <2> QED BY <1>2, <2>1, <2>2, ExternalNat
<1>4. /\ fr \in Frames /\ fr.at = 1 /\ fr.lat = 0 /\ fr.bus = "pch" /\ fr.sai = Top.sai
      /\ fr.addr = External(win[w], Top.addr) /\ fr.rw = Top.rw
  BY <1>1, <1>3, CallingFacts, LatAssumption DEF Loop, Frames
<1> HIDE DEF fr
<1>5. Linked(fr, Top)
  BY <1>1, <1>2, <1>4 DEF Linked
<1>6. Open'
  BY <1>1, <1>2, <1>4, <1>5, EnteredOpen
<1>7. HitTypes' /\ OneTarget' /\ asked' \in [addr : Nat, rw : {"read", "write"}]
  BY <1>1, <1>2 DEF HitTypes, OneTarget, Types
<1>8. Types'
  BY <1>1, <1>2, <1>4, <1>7, EnterTypes
<1> QED BY <1>6, <1>7, <1>8 DEF IInv

LEMMA AttRegsInv ==
  ASSUME IInv, AttRegs
  PROVE  IInv'
<1>1. /\ Calling /\ Fn = "att" /\ MatchExact("att", Top.addr) # 0
      /\ UNCHANGED <<bars, mse, acf8, asked>>
  BY DEF AttRegs
<1>2. ~ Done /\ stack # << >> /\ ret = NoRet /\ ConfigTypes
  BY <1>1, CallingFacts DEF Types
<1>3. Declines(Fn, Top.addr) <=> ~ AttAnswers(Top.addr)
  BY <1>1 DEF Declines, AttDeclines
<1>4. CASE ~ AttAnswers(Top.addr)
  <2>1. Answer(Declined) /\ UNCHANGED <<config, asked, hits>>
    BY <1>1, <1>4 DEF AttRegs, config
  <2> QED BY <1>1, <1>2, <1>3, <1>4, <2>1, DeclinedInv
<1>5. CASE AttAnswers(Top.addr)
  <2>1. PICK r \in {0, 1} : Answer(r)
    BY <1>5 DEF AttRegs
  <2>2. hits' = hits \/ \E f, at : Touch(Top.sai, f, at)
    BY <1>5 DEF AttRegs
  <2>3. UNCHANGED win \/ \E b : SetWindow(b)
    BY <1>5 DEF AttRegs
  <2>4. ConfigTypes'
    BY <1>1, <1>2, <2>3, SetWindowTypes DEF ConfigTypes
  <2> QED BY <1>1, <1>2, <1>3, <1>5, <2>1, <2>2, <2>4, AnsweredInv
<1> QED BY <1>4, <1>5

(* The sideband is the last that the ATT asks. *)
LEMMA SidebandInv ==
  ASSUME IInv, ~ Done, stack # << >>, Fn = "att", MatchExact("att", Top.addr) = 0,
         Quiet(Top.addr), Sideband, UNCHANGED <<config, asked>>
  PROVE  IInv'
<1> DEFINE s == FindWin(sbwin, Top.addr)
<1>1. Types /\ Chain /\ ConfigTypes
  BY DEF IInv, Open, Types
<1>2. ConfigTypes'
  BY <1>1 DEF ConfigTypes, config
<1>3. Declines(Fn, Top.addr) <=> s = 0
  BY DEF Declines, AttDeclines
<1>4. CASE s = 0
  BY <1>3, <1>4, DeclinedInv DEF Sideband
<1>5. CASE s # 0 /\ sbwin[s].ep \in Endpoints
  <2>1. Answer(1) /\ \E f, at : Touch(Top.sai, f, at)
    BY <1>5 DEF Sideband
  <2> QED BY <1>2, <1>3, <1>5, <2>1, AnsweredInv
<1>6. CASE s # 0 /\ sbwin[s].ep \notin Endpoints
  <2>1. stack' = Tail(stack) /\ ret' = Aborted /\ hits' = hits
    BY <1>6 DEF Sideband, Answer, Aborted, Declined
  <2>2. /\ Top = stack[1] /\ 1 \in DOMAIN stack /\ Top \in Frames /\ Fn = Callee(Top)
        /\ Top.at \in DOMAIN Order[Top.bus]
    BY <1>1, TopFacts
  <2>3. Top.bus = "gasket"
    BY <2>2, CalleeFacts
  <2>4. Top.sai = CoreSai => Top.addr = asked.addr
    BY <1>1, <2>2, <2>3, AddressFacts DEF Requested
  <2>5. Aborted # Declined
    BY DEF Aborted, Declined
  <2> QED BY <2>1, <2>3, <2>4, <2>5, EndedInv
<1> QED BY <1>4, <1>5, <1>6

LEMMA ReturningFacts ==
  ASSUME IInv, Returning, ~ Done
  PROVE  stack # << >> /\ Types /\ Returned /\ ret \in {Declined, Aborted}
  BY DEF IInv, Open, Types, Returning, Done

LEMMA ReturnsInv ==
  ASSUME IInv, P2gReturns \/ AttReturns \/ OcsReturns
  PROVE  IInv'
<1>1. CASE P2gReturns
  <2>1. Returning /\ Fn = "p2g" /\ Answer(ret) /\ UNCHANGED <<config, asked, hits>>
    BY <1>1 DEF P2gReturns
  <2>2. CASE Done
    BY <2>1, <2>2, DoneInv DEF Done, Returning
  <2>3. CASE ~ Done /\ ret = Declined
    <3>1. Declines(Fn, Top.addr)
      BY <2>1, <2>3, ReturningFacts DEF Returned, Declines
    <3> QED BY <2>1, <2>3, <3>1, DeclinedInv DEF Returning
  <2>4. CASE ~ Done /\ ret = Aborted
    <3>1. stack' = Tail(stack) /\ ret' = Aborted /\ Aborted # Declined
      BY <2>1, <2>4 DEF Answer, Aborted, Declined
    <3>2. Types /\ stack # << >> /\ Returned
      BY <2>1, <2>4, ReturningFacts
    <3>3. Top.bus = "prim"
      <4>1. Top \in Frames /\ Fn = Callee(Top) /\ Top.at \in DOMAIN Order[Top.bus]
        BY <3>2, TopFacts
      <4> QED BY <2>1, <4>1, CalleeFacts
    <3>4. Top.sai = CoreSai => Quiet(asked.addr)
      BY <2>1, <2>4, <3>2 DEF Returned, InDma, CoreSai, OcsSai
    <3> QED BY <2>1, <2>4, <3>1, <3>2, <3>3, <3>4, EndedInv
  <2> QED BY <2>1, <2>2, <2>3, <2>4, ReturningFacts
<1>2. CASE AttReturns
  <2>1. Returning /\ Fn = "att" /\ UNCHANGED <<config, asked>>
    BY <1>2 DEF AttReturns
  <2>2. CASE Done
    <3>1. Answer(ret) /\ UNCHANGED hits
      BY <1>2, <2>2 DEF AttReturns, Done
    <3> QED BY <2>1, <2>2, <3>1, DoneInv DEF Done, Returning
  <2>3. CASE ~ Done
    <3>1. /\ stack # << >> /\ ret = Declined /\ MatchExact("att", Top.addr) = 0 /\ Quiet(Top.addr)
      BY <2>1, <2>3, ReturningFacts DEF Returned, Returning
    <3>2. Sideband
      BY <1>2, <3>1 DEF AttReturns, Declined
    <3> QED BY <2>1, <2>3, <3>1, <3>2, SidebandInv
  <2> QED BY <2>2, <2>3
<1>3. CASE OcsReturns
  BY <1>3, DoneInv DEF OcsReturns, Returning, OcsSai
<1> QED BY <1>1, <1>2, <1>3

LEMMA CallbackInv ==
  ASSUME IInv, Callback
  PROVE  IInv'
<1>1. CASE AttSideband
  <2>1. /\ Calling /\ Fn = "att" /\ MatchExact("att", Top.addr) = 0 /\ FindWin(win, Top.addr) = 0
        /\ Sideband /\ UNCHANGED <<config, asked>>
    BY <1>1 DEF AttSideband
  <2>2. ~ Done /\ stack # << >>
    BY <2>1, CallingFacts
  <2>3. Quiet(Top.addr)
    BY <2>1 DEF Quiet
  <2> QED BY <2>1, <2>2, <2>3, SidebandInv
<1>2. CASE GiveUp
  <2>1. /\ stack # << >> /\ ret = NoRet /\ Top.lat = Top.max /\ stack' = Tail(stack)
        /\ ret' = Declined /\ UNCHANGED <<config, asked, hits>>
    BY <1>2 DEF GiveUp
  <2>2. ~ Done /\ Declined # Aborted
    BY <2>1 DEF Done, NoRet, Declined, Aborted
  <2>3. Top.lat > 0
    <3>1. Top \in Frames
      BY <2>1, TopFacts DEF IInv
    <3> QED BY <2>1, <3>1, LatAssumption DEF Frames
  <2> QED BY <2>1, <2>2, <2>3, EndedInv
<1> QED BY <1>1, <1>2, CallSimpleInv, CallOcsInv, CallMisaInv, OcsDmaInv, P2gConfigInv,
           P2gForwardInv, AttRegsInv, AttForwardInv, ReturnsInv DEF Callback

LEMMA StutterInv ==
  ASSUME IInv, UNCHANGED vars
  PROVE  IInv'
<1>1. UNCHANGED <<bars, mse, win, sbwin, stack, ret, asked, hits, config>>
  BY DEF vars, config
<1>2. Types' /\ OneTarget'
  BY <1>1 DEF IInv, Types, ConfigTypes, HitTypes, OneTarget
<1>3. ~ Done => Open'
  <2> SUFFICES ASSUME ~ Done PROVE Open'
    OBVIOUS
  <2>1. Chain /\ Settled /\ Unheard /\ DmaHits /\ Returned
    BY DEF IInv, Open
  <2>2. Chain'
    BY <1>1, <2>1, Same DEF Chain
  <2>3. Settled'
    BY <1>1, <2>1, Same DEF Settled
  <2>4. DmaHits'
    BY <1>1, <2>1, Same DEF DmaHits, AllDecline
  <2>5. Unheard' /\ Returned'
    BY <1>1, <2>1, Same DEF Unheard, Returned, InDma, Top, Fn
  <2> QED BY <2>2, <2>3, <2>4, <2>5 DEF Open
<1> QED BY <1>1, <1>2, <1>3 DEF IInv, Done

LEMMA NextInv == IInv /\ [Next]_vars => IInv'
  BY CoreInv, CallbackInv, StutterInv DEF Next

-----------------------------------------------------------------------------
(* The cells of the devices. *)

(* The windows translate as the first that holds the address does. *)
LEMMA TranslatedFacts ==
  ASSUME win \in WinValues, NEW a \in Nat
  PROVE  Translated(a) =
           IF FindWin(win, a) = 0 THEN {} ELSE {External(win[FindWin(win, a)], a)}
<1> DEFINE w == FindWin(win, a)
           In(i) == Covers(win[i], a)
           J == {j \in DOMAIN win : In(j) /\ \A k \in 1 .. j - 1 : ~ In(k)}
<1>1. DOMAIN win = 1 .. Len(win) /\ Len(win) \in Nat
  BY LenProperties DEF WinValues
<1>2. \A i \in DOMAIN win : win[i] \in WinRegs
  BY <1>1, ElementOfSeq DEF WinValues
<1>3. \A i \in DOMAIN win : In(i) <=> win[i].on /\ win[i].int <= a /\ a <= WinEnd(win[i])
  BY <1>2, CoversFacts
<1>4. /\ w # 0 => w \in DOMAIN win /\ In(w)
      /\ \A i \in DOMAIN win : In(i) => w # 0 /\ w <= i
  BY <1>3, FindWinFacts
<1> HIDE DEF In, w
<1>5. J = IF w = 0 THEN {} ELSE {w}
  <2>1. ASSUME NEW j \in J PROVE w # 0 /\ j = w
    <3>1. w # 0 /\ w <= j /\ w \in DOMAIN win /\ In(w) /\ j \in DOMAIN win
      BY <1>4
    <3>2. ~ (w \in 1 .. j - 1)
      BY <3>1
    <3> QED BY <1>1, <3>1, <3>2
  <2>2. ASSUME w # 0 PROVE w \in J
    <3>1. w \in DOMAIN win /\ In(w)
      BY <1>4, <2>2
    <3>2. ASSUME NEW k \in 1 .. w - 1 PROVE ~ In(k)
      <4>1. k \in DOMAIN win /\ ~ (w <= k)
        BY <1>1, <3>1
      <4> QED BY <1>4, <4>1
    <3> QED BY <3>1, <3>2
  <2> QED BY <2>1, <2>2
<1>6. Translated(a) = {External(win[i], a) : i \in J}
  <2>1. \A i \in DOMAIN win : (win[i].ext + a - win[i].int) % ExtMod = External(win[i], a)
    <3>1. ASSUME NEW i \in DOMAIN win
          PROVE  win[i].ext + a - win[i].int = win[i].ext + (a - win[i].int)
      <4>1. win[i].ext \in Int /\ win[i].int \in Int
        BY <1>2, RangeAssumption DEF WinRegs, Address, ExtAddress
      <4> QED BY <4>1
    <3> QED BY <3>1 DEF External
  <2> QED BY <2>1 DEF Translated, In
<1> QED BY <1>5, <1>6 DEF w

(* A cell of a BAR is answered. *)
LEMMA CellAnswers ==
  ASSUME ConfigTypes, NEW f \in ToSet(Order["pch"]), mse[f], NEW e \in BarCells(f)
  PROVE  SimpleAnswers(f, e)
<1>1. f \in Functions
  BY DEF Functions, Simple
<1>2. /\ bars \in BarValues /\ bars[f] \in Seq(Nat) /\ BarSize[f] \in Seq(Nat)
      /\ Len(bars[f]) = Len(BarSize[f])
  BY <1>1, ValueAssumption DEF ConfigTypes, BarValues
<1>3. DOMAIN bars[f] = DOMAIN BarSize[f]
      /\ \A b \in DOMAIN bars[f] : bars[f][b] \in Nat /\ BarSize[f][b] \in Nat
  BY <1>2, LenProperties
<1>4. PICK c \in DOMAIN bars[f] : e \in bars[f][c] .. bars[f][c] + BarSize[f][c] - 1
  BY DEF BarCells
<1>5. \A b \in DOMAIN bars[f] : e # bars[f][b] + BarSize[f][b]
  BY DEF BarCells
<1>6. bars[f][c] <= e /\ e <= bars[f][c] + BarSize[f][c] /\ e \in Nat
  BY <1>3, <1>4
<1> DEFINE b == Match(f, e)
<1>7. /\ b # 0 /\ b \in DOMAIN bars[f]
      /\ bars[f][b] <= e /\ e <= bars[f][b] + BarSize[f][b]
  BY <1>1, <1>2, <1>6, MatchFacts
<1> HIDE DEF b
<1>8. Offset(f, b, e) + 1 <= BarSize[f][b]
  <2> DEFINE from == bars[f][b]
             size == BarSize[f][b]
  <2>1. from \in Nat /\ size \in Nat /\ e # from + size /\ from <= e /\ e <= from + size
    BY <1>3, <1>5, <1>7
  <2>2. Offset(f, b, e) = e - from
    BY DEF Offset
  <2> HIDE DEF from
  <2>3. e - from + 1 <= size
    <3> HIDE DEF size
    <3> QED BY <1>6, <2>1
  <2> QED BY <2>2, <2>3
<1> QED BY <1>7, <1>8 DEF SimpleAnswers, b

LEMMA IInvImpliesFailed == IInv => FailedDoesNothing
<1> SUFFICES ASSUME IInv, stack = << >>, ret < 0
             PROVE  /\ hits = << >>
                    /\ Upstream(asked.addr) /\ asked.addr > IoTop /\ ~ Shadowed(asked.addr) =>
                         ~ Claimed(asked.addr)
  BY DEF FailedDoesNothing
<1>1. Types /\ ConfigTypes /\ ret \in {Declined, Aborted} /\ asked.addr \in Nat
  BY DEF IInv, Types, NoRet, Declined, Aborted
<1>2. Unheard /\ Returned
  BY <1>1 DEF IInv, Open, Done, Declined, Aborted
<1>3. hits = << >>
  BY <1>2 DEF Unheard, InDma
<1>4. ASSUME Upstream(asked.addr), asked.addr > IoTop, ~ Shadowed(asked.addr)
      PROVE  ~ Claimed(asked.addr)
  <2>1. Quiet(asked.addr)
    <3>1. CASE ret = Declined
      BY <1>2, <1>4, <3>1, TopologyAssumption
      DEF Returned, P2gDeclines, GasketDeclines, AttDeclines, Shadowed
    <3>2. CASE ret = Aborted
      BY <1>2, <3>2 DEF Returned, InDma
    <3> QED BY <1>1, <3>1, <3>2
  <2>2. SUFFICES ASSUME NEW f \in ToSet(Order["pch"]), mse[f],
                        NEW e \in Translated(asked.addr), e \in BarCells(f)
                 PROVE  FALSE
    BY DEF Claimed
  <2>3. FindWin(win, asked.addr) # 0 /\ e = External(win[FindWin(win, asked.addr)], asked.addr)
    BY <1>1, TranslatedFacts DEF ConfigTypes
  <2>4. SimpleAnswers(f, e)
    BY <1>1, <2>2, CellAnswers
  <2> QED BY <2>1, <2>3, <2>4 DEF Quiet, PchDeclines
<1> QED BY <1>3, <1>4

(* What the callback of a device touches. *)
Right(f, b, off, a) ==
  /\ mse[f]
  /\ off \in 0 .. BarSize[f][b] - 1
  /\ bars[f][b] + off \in IF f \in ToSet(Order["pch"]) THEN Translated(a) ELSE {a}

LEMMA BarFacts ==
  ASSUME ConfigTypes, NEW f \in Functions
  PROVE  /\ DOMAIN bars[f] = DOMAIN BarSize[f] /\ DOMAIN bars[f] = 1 .. Len(BarSize[f])
         /\ \A b \in DOMAIN bars[f] : bars[f][b] \in Nat /\ BarSize[f][b] \in Nat
<1>1. /\ bars[f] \in Seq(Nat) /\ BarSize[f] \in Seq(Nat) /\ Len(bars[f]) = Len(BarSize[f])
  BY ValueAssumption DEF ConfigTypes, BarValues
<1> QED BY <1>1, LenProperties

LEMMA RequestedFacts ==
  ASSUME IInv, Calling
  PROVE  Requested(Top.sai) \in Nat
<1>1. /\ Types /\ Chain /\ stack # << >> /\ Top = stack[1] /\ Top.sai \in {CoreSai, OcsSai}
      /\ Len(stack) \in Nat \ {0} /\ DOMAIN stack = 1 .. Len(stack)
      /\ \A i \in DOMAIN stack : stack[i] \in Frames
  BY CallingFacts, TopFacts DEF Types
<1>2. CASE Top.sai = CoreSai
  BY <1>1, <1>2 DEF Requested, Types
<1>3. CASE Top.sai = OcsSai
  <2>1. Len(stack) # 1
    BY <1>1, <1>3 DEF Chain, CoreSai, OcsSai
  <2>2. Len(stack) - 1 \in DOMAIN stack
    BY <1>1, <2>1
  <2> QED BY <1>1, <1>3, <2>2 DEF Requested, CoreSai, OcsSai, Frames
<1> QED BY <1>1, <1>2, <1>3

LEMMA SimpleRight ==
  ASSUME IInv, Calling, Fn \in Simple, SimpleAnswers(Fn, Top.addr)
  PROVE  Right(Fn, Match(Fn, Top.addr), Offset(Fn, Match(Fn, Top.addr), Top.addr),
               Requested(Top.sai))
<1> DEFINE b == Match(Fn, Top.addr)
           R == Requested(Top.sai)
<1>1. /\ Types /\ Chain /\ ConfigTypes /\ Top = stack[1] /\ 1 \in DOMAIN stack /\ Top \in Frames
      /\ Fn = Callee(Top) /\ Top.at \in DOMAIN Order[Top.bus] /\ Top.addr \in Nat
      /\ Fn \in Functions
  BY CallingFacts DEF Types, Functions
<1>2. b # 0 /\ Offset(Fn, b, Top.addr) + 1 <= BarSize[Fn][b] /\ mse[Fn]
  BY DEF SimpleAnswers
<1>3. b \in DOMAIN bars[Fn] /\ bars[Fn][b] <= Top.addr
  BY <1>1, <1>2, MatchFacts DEF ConfigTypes
<1>4. bars[Fn][b] \in Nat /\ BarSize[Fn][b] \in Nat
  BY <1>1, <1>3, BarFacts
<1>5. /\ Offset(Fn, b, Top.addr) \in 0 .. BarSize[Fn][b] - 1
      /\ bars[Fn][b] + Offset(Fn, b, Top.addr) = Top.addr
  <2> HIDE DEF b
  <2> QED BY <1>1, <1>2, <1>3, <1>4 DEF Offset
<1>6. Top.addr \in IF Fn \in ToSet(Order["pch"]) THEN Translated(R) ELSE {R}
  <2>1. CASE Fn \in ToSet(Order["pch"])
    <3>1. Fn \notin {"p2g", "ocs", "misa", "heci", "att"}
      BY <2>1, TopologyAssumption
    <3>2. Top.bus = "pch"
      BY <1>1, <3>1, CalleeFacts DEF Frames
    <3>3. FindWin(win, R) # 0 /\ Top.addr = External(win[FindWin(win, R)], R)
      BY <1>1, <3>2, AddressFacts
    <3>4. R \in Nat /\ win \in WinValues
      BY <1>1, RequestedFacts DEF ConfigTypes
    <3> HIDE DEF R
    <3>5. Top.addr \in Translated(R)
      BY <3>3, <3>4, TranslatedFacts
    <3> QED BY <2>1, <3>5
  <2>2. CASE Fn \notin ToSet(Order["pch"])
    <3>1. Fn = "heci"
      BY <2>2 DEF Simple
    <3>2. Top.bus = "gasket"
      BY <1>1, <3>1, CalleeFacts
    <3> QED BY <1>1, <2>2, <3>2, AddressFacts
  <2> QED BY <2>1, <2>2
<1> QED BY <1>2, <1>5, <1>6 DEF Right

LEMMA OcsRight ==
  ASSUME IInv, Calling, Fn = "ocs", OcsAnswers
  PROVE  Right("ocs", 1, Offset("ocs", 1, Top.addr), Requested(Top.sai))
<1>1. /\ Types /\ Chain /\ ConfigTypes /\ Top = stack[1] /\ 1 \in DOMAIN stack /\ Top \in Frames
      /\ Fn = Callee(Top) /\ Top.at \in DOMAIN Order[Top.bus] /\ Top.addr \in Nat
  BY CallingFacts DEF Types
<1>2. /\ "ocs" \in Functions /\ Len(BarSize["ocs"]) = 1 /\ "ocs" \notin ToSet(Order["pch"])
  BY ValueAssumption, TopologyAssumption DEF Functions
<1>3. DOMAIN bars["ocs"] = 1 .. 1 /\ bars["ocs"][1] \in Nat /\ BarSize["ocs"][1] \in Nat
  BY <1>1, <1>2, BarFacts
<1> DEFINE S == {b \in DOMAIN bars["ocs"] :
                   bars["ocs"][b] <= Top.addr /\ Top.addr < bars["ocs"][b] + BarSize["ocs"][b]}
<1>4. S # {} /\ mse["ocs"]
  BY DEF OcsAnswers, MatchExact, First
<1>5. bars["ocs"][1] <= Top.addr /\ Top.addr < bars["ocs"][1] + BarSize["ocs"][1]
  BY <1>3, <1>4
<1>6. Top.addr = Requested(Top.sai)
  <2>1. Top.bus = "prim"
    BY <1>1, CalleeFacts
  <2> QED BY <1>1, <2>1, PrimFacts
<1> QED BY <1>1, <1>2, <1>3, <1>4, <1>5, <1>6 DEF Right, Offset

(* A touch is recorded last. *)
LEMMA TouchedLast ==
  ASSUME HitTypes, NEW s \in {CoreSai, OcsSai}, NEW f, NEW at, Touch(s, f, at)
  PROVE  LET h == Last(hits') IN h.sai = s /\ h.fn = f /\ h.at = at
<1> DEFINE h == [sai |-> s, fn |-> f, at |-> at]
<1>1. Last(hits') = h
  BY TouchFacts
<1> QED BY <1>1

LEMMA RightStep ==
  ASSUME IInv, [Next]_vars, Len(hits') > Len(hits),
         Last(hits').fn \in Simple \cup {"ocs"}, Last(hits').at # "config"
  PROVE  LET h == Last(hits') IN Right(h.fn, h.at[1], h.at[2], Requested(h.sai))
<1>1. HitTypes /\ Len(hits) \in Nat
  BY LenProperties DEF IInv, Types, HitTypes
<1>2. {"ram", "wild", "misa", "att"} \cap (Simple \cup {"ocs"}) = {}
  BY TopologyAssumption DEF Simple
<1>3. Endpoints \cap (Simple \cup {"ocs"}) = {}
  BY TopologyAssumption
<1>4. ~ UNCHANGED hits
  BY <1>1
<1>5. ASSUME NEW s \in {CoreSai, OcsSai}, NEW f, NEW at, Touch(s, f, at)
      PROVE  f \in Simple \cup {"ocs"} /\ at # "config"
  BY <1>1, <1>5, TouchedLast
<1>6. CASE Core
  <2>1. \/ hits' = << >>
        \/ \E f, at : hits' = <<[sai |-> CoreSai, fn |-> f, at |-> at]>> /\ (f = "ram" \/ at = "config")
    BY <1>6 DEF Core, CoreCf8, CoreCfc, CoreBunit, CoreEcam, CoreIo, CoreMemory, ConfigCycle
  <2>2. hits' # << >>
    BY <1>1, EmptySeq
  <2>3. PICK f, at : hits' = <<[sai |-> CoreSai, fn |-> f, at |-> at]>> /\ (f = "ram" \/ at = "config")
    BY <2>1, <2>2
  <2> DEFINE h == [sai |-> CoreSai, fn |-> f, at |-> at]
  <2>4. Last(hits') = h
    <3> HIDE DEF h
    <3>1. hits' = <<h>>
      BY <2>3 DEF h
    <3> QED BY <3>1 DEF Last
  <2>5. h.fn = f /\ h.at = at
    OBVIOUS
  <2> QED BY <1>2, <2>3, <2>4, <2>5
<1>7. ASSUME Calling PROVE Top.sai \in {CoreSai, OcsSai} /\ stack # << >>
  BY <1>7, CallingFacts
<1>8. CASE CallSimple
  <2> DEFINE b == Match(Fn, Top.addr)
             off == Offset(Fn, b, Top.addr)
  <2>1. Calling /\ Fn \in Simple /\ SimpleAnswers(Fn, Top.addr) /\ Touch(Top.sai, Fn, <<b, off>>)
    BY <1>4, <1>8 DEF CallSimple
  <2>2. Right(Fn, b, off, Requested(Top.sai))
    BY <2>1, SimpleRight
  <2> HIDE DEF b, off
  <2>3. Last(hits').sai = Top.sai /\ Last(hits').fn = Fn /\ Last(hits').at = <<b, off>>
    BY <1>1, <1>7, <2>1, TouchedLast
  <2> QED BY <2>2, <2>3
<1>9. CASE CallOcs \/ \E a \in DmaAddrs : OcsDma(a)
  <2> DEFINE off == Offset("ocs", 1, Top.addr)
  <2>1. Calling /\ Fn = "ocs" /\ OcsAnswers /\ Touch(Top.sai, "ocs", <<1, off>>)
    BY <1>4, <1>9 DEF CallOcs, OcsDma
  <2>2. Right("ocs", 1, off, Requested(Top.sai))
    BY <2>1, OcsRight
  <2> HIDE DEF off
  <2>3. Last(hits').sai = Top.sai /\ Last(hits').fn = "ocs" /\ Last(hits').at = <<1, off>>
    BY <1>1, <1>7, <2>1, TouchedLast
  <2> QED BY <2>2, <2>3
<1>10. ~ CallMisa
  <2>1. CallMisa => Calling /\ \E f \in {"ram", "wild", "misa"} : \E at : Touch(Top.sai, f, at)
    BY <1>4 DEF CallMisa
  <2> QED BY <1>2, <1>5, <1>7, <2>1
<1>11. ~ P2gConfig
  <2>1. P2gConfig => Calling /\ \E f : Touch(Top.sai, f, "config")
    BY <1>4 DEF P2gConfig, ConfigCycle, Touch
  <2> QED BY <1>5, <1>7, <2>1
<1>12. ~ AttRegs
  <2>1. AttRegs => Calling /\ \E at : Touch(Top.sai, "att", at)
    BY <1>4 DEF AttRegs
  <2> QED BY <1>2, <1>5, <1>7, <2>1
<1>13. stack # << >> => ~ Sideband
  <2>1. stack # << >> => Top.sai \in {CoreSai, OcsSai}
    BY TopFacts DEF IInv, Frames
  <2>2. Sideband => \E f \in Endpoints : \E at : Touch(Top.sai, f, at)
    BY <1>4 DEF Sideband
  <2> QED BY <1>3, <1>5, <2>1, <2>2
<1>14. ~ (AttSideband \/ AttReturns \/ P2gReturns \/ OcsReturns \/ P2gForward \/ AttForward \/ GiveUp)
  BY <1>4, <1>7, <1>13 DEF AttSideband, AttReturns, P2gReturns, OcsReturns, P2gForward, AttForward,
                       GiveUp, Returning
<1>15. ~ UNCHANGED vars
  BY <1>4 DEF vars
<1> QED BY <1>6, <1>8, <1>9, <1>10, <1>11, <1>12, <1>14, <1>15 DEF Next, Callback

-----------------------------------------------------------------------------
(* Theorems. *)

(* The invariant holds of every behaviour. *)
THEOREM FabricInv == Spec => []IInv
<1>1. Init => IInv
  BY InitInv
<1>2. IInv /\ [Next]_vars => IInv'
  BY NextInv
<1> QED BY <1>1, <1>2, PTL DEF Spec

(* An access of the core touches one cell of one device at most, and so    *)
(* does a cycle of the DMA engine (pci_bus_mem_write, p2g_mem_write,       *)
(* att_mem_write, is_dma_hit), for every memory map and number of clocks.  *)
THEOREM TouchesOneTarget == Spec => []OneTarget
<1>1. IInv => OneTarget
  BY DEF IInv
<1> QED BY <1>1, FabricInv, PTL

(* An access that fails has touched nothing, and fails only where no       *)
(* enabled BAR behind the windows holds the cell (att_prim_write,          *)
(* pci_simple_mem_write).                                                  *)
THEOREM FailureIsClean == Spec => []FailedDoesNothing
<1>1. IInv => FailedDoesNothing
  BY IInvImpliesFailed
<1> QED BY <1>1, FabricInv, PTL

(* A device is touched at the cell that was asked for, by the core or by   *)
(* the DMA engine (att_find_win, pci_simple_mem_write, ocs_mem_write).     *)
THEOREM TouchesRightCell == Spec => RightCell
<1> DEFINE Step == Len(hits') > Len(hits) =>
                     LET h == Last(hits') IN
                     h.fn \in Simple \cup {"ocs"} /\ h.at # "config" =>
                       Right(h.fn, h.at[1], h.at[2], Requested(h.sai))
<1>1. IInv /\ [Next]_vars => [Step]_vars
  BY RightStep
<1>2. Spec => [][Step]_vars
  <2> HIDE DEF Step
  <2> QED BY <1>1, FabricInv, PTL DEF Spec
<1> QED BY <1>2 DEF RightCell, Right
=============================================================================
