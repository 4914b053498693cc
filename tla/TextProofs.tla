------------------------------- MODULE TextProofs ------------------------------
(***************************************************************************)
(* That text is read and written as meant.                                 *)
(*                                                                         *)
(* The configuration parser builds only what the text says.  Its           *)
(* invariant: the file built so far, written by the grammar up to the      *)
(* point the pending call stands for, gives the tokens behind the parser,  *)
(* one by one.  The lemmas before it unfold the recursion by which a file  *)
(* is rendered: what one more entry, and one more section, adds.           *)
(*                                                                         *)
(* It also builds all that was meant.  Its invariant, over a file that is  *)
(* written as the grammar says: what is left of the text is what the       *)
(* pending call and the rest of the file render to, and the file built so  *)
(* far is the start of what was meant.  The lemmas before it unfold the    *)
(* same rendering from the front, and compare the value of a number by the *)
(* weights of its digits with the value the parser accumulates.            *)
(*                                                                         *)
(* The formatter of printf puts what its format means.  Its invariant: the *)
(* buffer holds what the directives before the one being read mean, the    *)
(* arguments they take are gone, and the directive being read is split     *)
(* between the state of the formatter and the characters still to come.    *)
(* The lemmas before it take sequences apart from the front, tell what the *)
(* numeral of a number is, and unfold the meaning of a format.             *)
(***************************************************************************)
EXTENDS CfgParser, Printf, SequenceTheorems, FiniteSetTheorems, WellFoundedInduction,
        TLAPS

-----------------------------------------------------------------------------
(* Sequences of sequences, put together. *)

LEMMA Least ==
  ASSUME NEW T \in SUBSET Nat, T # {}
  PROVE  \E m \in T : \A n \in T : m <= n
<1> DEFINE R == {ss \in Nat \X Nat : ss[1] < ss[2]}
<1>1. IsWellFoundedOn(R, Nat)
  BY NatLessThanWellFounded DEF OpToRel
<1>2. PICK m \in T : \A n \in T : ~ (<<n, m>> \in R)
  <2> HIDE DEF R
  <2> QED BY <1>1, WFMin
<1>3. \A n \in T : m <= n
  <2> TAKE n \in T
  <2>1. <<n, m>> \in Nat \X Nat /\ <<n, m>>[1] = n /\ <<n, m>>[2] = m
    OBVIOUS
  <2>2. ~ (n < m)
    BY <1>2, <2>1
  <2> QED BY <2>2
<1> QED BY <1>3

LEMMA FrontLast ==
  ASSUME NEW S, NEW s \in Seq(S)
  PROVE  /\ s # << >> => Front(s) \in Seq(S) /\ Last(s) \in S /\ s = Append(Front(s), Last(s))
         /\ \A x : Front(Append(s, x)) = s /\ Last(Append(s, x)) = x
<1>1. ASSUME s # << >> PROVE Front(s) \in Seq(S) /\ Last(s) \in S /\ s = Append(Front(s), Last(s))
  <2>1. Len(s) \in Nat /\ Len(s) >= 1 /\ \A i \in 1 .. Len(s) : s[i] \in S
    BY <1>1, ElementOfSeq, EmptySeq, LenProperties
  <2>2. /\ SubSeq(s, 1, Len(s) - 1) \in Seq(S)
        /\ Len(SubSeq(s, 1, Len(s) - 1)) = Len(s) - 1
        /\ \A i \in 1 .. Len(s) - 1 : SubSeq(s, 1, Len(s) - 1)[i] = s[i]
    <3> DEFINE n == Len(s) - 1
    <3>1. n \in Int /\ 1 \in Int /\ \A i \in 1 .. n : s[i] \in S
      BY <2>1
    <3>2. n \in Nat
      BY <2>1
    <3> HIDE DEF n
    <3>3. n - 1 + 1 = n /\ (IF 1 <= n THEN n - 1 + 1 ELSE 0) = n /\ \A i \in 1 .. n : 1 + i - 1 = i
      BY <3>2
    <3>4. /\ SubSeq(s, 1, n) \in Seq(S)
          /\ Len(SubSeq(s, 1, n)) = IF 1 <= n THEN n - 1 + 1 ELSE 0
          /\ \A i \in 1 .. n - 1 + 1 : SubSeq(s, 1, n)[i] = s[1 + i - 1]
      BY <3>1, SubSeqProperties
    <3>5. SubSeq(s, 1, n) \in Seq(S) /\ Len(SubSeq(s, 1, n)) = n
          /\ \A i \in 1 .. n : SubSeq(s, 1, n)[i] = s[i]
      BY <3>3, <3>4
    <3> QED BY <3>5 DEF n
  <2> DEFINE f == SubSeq(s, 1, Len(s) - 1)
  <2>3. s = Append(f, s[Len(s)])
    <3>1. /\ Append(f, s[Len(s)]) \in Seq(S) /\ Len(Append(f, s[Len(s)])) = Len(s)
          /\ \A i \in 1 .. Len(s) : Append(f, s[Len(s)])[i] = s[i]
      <4> HIDE DEF f
      <4>1. f \in Seq(S) /\ Len(f) = Len(s) - 1 /\ \A i \in 1 .. Len(s) - 1 : f[i] = s[i]
        BY <2>2 DEF f
      <4>2. s[Len(s)] \in S
        BY <2>1
      <4> QED BY <2>1, <4>1, <4>2, AppendProperties
    <3> HIDE DEF f
    <3> QED BY <3>1, SeqEqual
  <2> QED BY <2>1, <2>2, <2>3 DEF Front, Last
<1>2. ASSUME NEW x PROVE Front(Append(s, x)) = s /\ Last(Append(s, x)) = x
  <2> DEFINE T == S \cup {x}
  <2>1. s \in Seq(T) /\ x \in T
    BY SeqMonotonic
  <2> HIDE DEF T
  <2>2. /\ Append(s, x) \in Seq(T) /\ Len(Append(s, x)) = Len(s) + 1 /\ Len(s) \in Nat
        /\ \A i \in 1 .. Len(s) : Append(s, x)[i] = s[i]
        /\ Append(s, x)[Len(s) + 1] = x
    BY <2>1, AppendProperties, LenProperties
  <2>3. SubSeq(Append(s, x), 1, Len(s)) = s
    <3> DEFINE a == Append(s, x)
               b == SubSeq(a, 1, Len(s))
    <3>1. \A i \in 1 .. Len(s) : a[i] \in T
      BY <2>1, <2>2, ElementOfSeq
    <3>2. b \in Seq(T) /\ Len(b) = Len(s) /\ \A i \in 1 .. Len(s) : b[i] = a[i]
      <4> HIDE DEF a
      <4> QED BY <2>2, <3>1, SubSeqProperties
    <3>3. \A i \in 1 .. Len(s) : b[i] = s[i]
      BY <2>2, <3>2
    <3> HIDE DEF a, b
    <3>4. b = s
      BY <2>1, <3>2, <3>3, SeqEqual
    <3> QED BY <3>4 DEF a, b
  <2> QED BY <2>2, <2>3 DEF Front, Last
<1> QED BY <1>1, <1>2

(* The recursive function of FlattenSeq is one. *)
FlatTo(n, s, f) == f = [i \in 1 .. n |-> IF i = 1 THEN s[i] ELSE f[i - 1] \o s[i]]

LEMMA FlatExists ==
  ASSUME NEW s, NEW n \in Nat
  PROVE  \E f : FlatTo(n, s, f)
<1> DEFINE Stuck == {k \in Nat : ~ \E f : FlatTo(k, s, f)}
<1>1. SUFFICES ASSUME Stuck # {} PROVE FALSE
  OBVIOUS
<1>2. PICK m \in Stuck : \A k \in Stuck : m <= k
  <2> HIDE DEF Stuck
  <2> QED BY <1>1, Least, Stuck \in SUBSET Nat DEF Stuck
<1>3. CASE m = 0
  <2> DEFINE f == [i \in 1 .. 0 |-> s[i]]
  <2>1. FlatTo(0, s, f)
    BY DEF FlatTo
  <2> QED BY <1>2, <1>3, <2>1
<1>4. CASE m # 0
  <2>1. m - 1 \in Nat /\ m - 1 \notin Stuck
    BY <1>2, <1>4
  <2>2. PICK f : FlatTo(m - 1, s, f)
    BY <2>1
  <2> DEFINE g == [i \in 1 .. m |-> IF i = m THEN (IF m = 1 THEN s[1] ELSE f[m - 1] \o s[m]) ELSE f[i]]
  <2>3. \A i \in 1 .. m - 1 : g[i] = f[i]
    BY <1>2
  <2>4. \A i \in 1 .. m - 1 : f[i] = IF i = 1 THEN s[i] ELSE f[i - 1] \o s[i]
    BY <2>2 DEF FlatTo
  <2>5. \A i \in 1 .. m : g[i] = IF i = 1 THEN s[i] ELSE g[i - 1] \o s[i]
    <3> TAKE i \in 1 .. m
    <3>1. CASE i = m
      <4>1. i # 1 => g[i - 1] = f[m - 1]
        BY <1>2, <2>3, <3>1
      <4>2. g[i] = IF m = 1 THEN s[1] ELSE f[m - 1] \o s[m]
        BY <3>1
      <4> HIDE DEF g
      <4> QED BY <3>1, <4>1, <4>2
    <3>2. CASE i # m
      <4>1. i \in 1 .. m - 1 /\ (i # 1 => i - 1 \in 1 .. m - 1)
        BY <1>2, <3>2
      <4>2. g[i] = f[i] /\ (i # 1 => g[i - 1] = f[i - 1])
        BY <2>3, <4>1
      <4> HIDE DEF g
      <4> QED BY <2>4, <4>1, <4>2
    <3> QED BY <3>1, <3>2
  <2>6. FlatTo(m, s, g)
    <3>1. g = [i \in 1 .. m |-> g[i]]
      OBVIOUS
    <3> HIDE DEF g
    <3> QED BY <2>5, <3>1 DEF FlatTo
  <2> QED BY <1>2, <2>6
<1> QED BY <1>3, <1>4

LEMMA FlatUnfolds ==
  ASSUME NEW s, Len(s) \in Nat \ {0}
  PROVE  \E f : FlatTo(Len(s), s, f) /\ FlattenSeq(s) = f[Len(s)]
<1>1. FlatTo(Len(s), s, CHOOSE f : FlatTo(Len(s), s, f))
  BY FlatExists
<1>2. FlattenSeq(s) = (CHOOSE f : FlatTo(Len(s), s, f))[Len(s)]
  BY DEF FlattenSeq, FlatTo
<1> QED BY <1>1, <1>2

LEMMA FlatTyped ==
  ASSUME NEW S, NEW s \in Seq(Seq(S))
  PROVE  FlattenSeq(s) \in Seq(S)
<1> DEFINE n == Len(s)
<1>1. n \in Nat /\ \A i \in 1 .. n : s[i] \in Seq(S)
  BY LenProperties, ElementOfSeq
<1>2. CASE n = 0
  <2>1. s = << >>
    BY <1>2, EmptySeq
  <2> QED BY <1>2, <2>1 DEF FlattenSeq
<1>3. CASE n # 0
  <2>1. PICK f : FlatTo(n, s, f) /\ FlattenSeq(s) = f[n]
    BY <1>1, <1>3, FlatUnfolds
  <2> HIDE DEF n
  <2> DEFINE Odd == {i \in 1 .. n : f[i] \notin Seq(S)}
  <2>2. Odd = {}
    <3>1. SUFFICES ASSUME Odd # {} PROVE FALSE
      OBVIOUS
    <3>2. PICK j \in Odd : \A i \in Odd : j <= i
      <4>1. Odd \in SUBSET Nat
        BY <1>1
      <4> HIDE DEF Odd
      <4> QED BY <3>1, <4>1, Least
    <3>3. f[j] = IF j = 1 THEN s[j] ELSE f[j - 1] \o s[j]
      BY <2>1, <3>2 DEF FlatTo
    <3>4. j # 1 => f[j - 1] \in Seq(S)
      <4>1. j # 1 => j - 1 \in 1 .. n /\ ~ (j <= j - 1)
        BY <1>1, <3>2
      <4> QED BY <3>2, <4>1
    <3>5. s[j] \in Seq(S)
      BY <1>1, <3>2
    <3>6. f[j] \in Seq(S)
      BY <3>3, <3>4, <3>5, ConcatProperties
    <3> QED BY <3>2, <3>6
  <2> QED BY <1>1, <1>3, <2>1, <2>2
<1> QED BY <1>2, <1>3

LEMMA FlatAppend ==
  ASSUME NEW S, NEW s \in Seq(Seq(S)), NEW x \in Seq(S)
  PROVE  FlattenSeq(Append(s, x)) = FlattenSeq(s) \o x
<1> DEFINE n == Len(s)
           t == Append(s, x)
<1>1. n \in Nat /\ Len(t) = n + 1 /\ t[n + 1] = x /\ \A i \in 1 .. n : t[i] = s[i]
  BY AppendProperties, LenProperties
<1>2. PICK g : FlatTo(n + 1, t, g) /\ FlattenSeq(t) = g[n + 1]
  <2> HIDE DEF t, n
  <2>1. Len(t) \in Nat \ {0}
    BY <1>1
  <2> QED BY <1>1, <2>1, FlatUnfolds
<1>3. g[n + 1] = IF n + 1 = 1 THEN x ELSE g[n] \o x
  <2> HIDE DEF t, n
  <2>1. n + 1 \in 1 .. n + 1 /\ (n + 1) - 1 = n
    BY <1>1
  <2>2. g[n + 1] = IF n + 1 = 1 THEN t[n + 1] ELSE g[(n + 1) - 1] \o t[n + 1]
    BY <1>2, <2>1 DEF FlatTo
  <2> QED BY <1>1, <2>1, <2>2
<1>4. CASE n = 0
  <2>1. s = << >> /\ FlattenSeq(s) = << >>
    BY <1>4, EmptySeq DEF FlattenSeq
  <2>2. << >> \o x = x
    BY ConcatEmptySeq
  <2>3. FlattenSeq(t) = x
    BY <1>2, <1>3, <1>4
  <2> QED BY <2>1, <2>2, <2>3
<1>5. CASE n # 0
  <2>1. PICK f : FlatTo(n, s, f) /\ FlattenSeq(s) = f[n]
    BY <1>1, <1>5, FlatUnfolds
  <2> HIDE DEF t, n
  <2>2. \A i \in 1 .. n : f[i] = g[i]
    <3> DEFINE Odd == {i \in 1 .. n : f[i] # g[i]}
    <3>1. SUFFICES ASSUME Odd # {} PROVE FALSE
      OBVIOUS
    <3>2. PICK j \in Odd : \A i \in Odd : j <= i
      <4>1. Odd \in SUBSET Nat
        BY <1>1
      <4> HIDE DEF Odd
      <4> QED BY <3>1, <4>1, Least
    <3>3. j \in 1 .. n /\ j \in 1 .. n + 1 /\ s[j] = t[j]
      BY <1>1, <3>2
    <3>4. f[j] = IF j = 1 THEN s[j] ELSE f[j - 1] \o s[j]
      BY <2>1, <3>3 DEF FlatTo
    <3>5. g[j] = IF j = 1 THEN t[j] ELSE g[j - 1] \o t[j]
      BY <1>2, <3>3 DEF FlatTo
    <3>6. j # 1 => f[j - 1] = g[j - 1]
      <4>1. j # 1 => j - 1 \in 1 .. n /\ ~ (j <= j - 1)
        BY <1>1, <3>3
      <4> QED BY <3>2, <4>1
    <3> QED BY <3>2, <3>3, <3>4, <3>5, <3>6
  <2>3. f[n] = g[n] /\ n + 1 # 1
    BY <1>1, <1>5, <2>2
  <2> QED BY <1>2, <1>3, <2>1, <2>3 DEF t
<1> QED BY <1>4, <1>5

-----------------------------------------------------------------------------
(* What a file renders to, for numbers of any kind N. *)

PartKinds == {{x} : x \in Kinds} \cup {{"name", "string"}}
PartOf(N) == {p \in [k : PartKinds, v : Words, number : N] :
                p.k \cap {"name", "string"} = {} => p.v = ""}

(* An entry that is being parsed has no type yet. *)
EntryTypes == {"", "string", "int64"}
AnyEntry(N) == [name : Words, type : EntryTypes, string : Words, number : N]
AnySection(N) == [type : Words, name : Words, entries : Seq(AnyEntry(N))]

EntryParts(E) == FlattenSeq([i \in DOMAIN E |-> RenderEntry(E[i])])
SectionParts(P) == Separated([i \in DOMAIN P |-> RenderSection(P[i])])

ValuePart(e) ==
  IF e.type = "string" THEN Part({"string", "name"}, e.string)
                       ELSE <<[k |-> {"number"}, v |-> "", number |-> e.number]>>

LEMMA SeqOfOne ==
  ASSUME NEW T, NEW p \in T
  PROVE  <<p>> \in Seq(T) /\ Len(<<p>>) = 1 /\ <<p>>[1] = p
OBVIOUS

LEMMA PartTyped ==
  ASSUME NEW N, Zero \in N, "" \in Words
  PROVE  /\ \A v \in Words : /\ Part({"name"}, v) \in Seq(PartOf(N))
                              /\ Part({"name", "string"}, v) \in Seq(PartOf(N))
                              /\ Part({"string", "name"}, v) \in Seq(PartOf(N))
         /\ \A k \in Kinds \ {"name", "string"} : Mark(k) \in Seq(PartOf(N))
<1>1. ASSUME NEW k \in PartKinds, NEW v \in Words, k \cap {"name", "string"} = {} => v = ""
      PROVE  Part(k, v) \in Seq(PartOf(N))
  <2>1. [k |-> k, v |-> v, number |-> Zero] \in PartOf(N)
    BY <1>1 DEF PartOf
  <2> QED BY <2>1, SeqOfOne DEF Part
<1>2. {"string", "name"} = {"name", "string"}
  OBVIOUS
<1>3. {"name"} \in PartKinds /\ {"name", "string"} \in PartKinds /\ \A k \in Kinds : {k} \in PartKinds
  BY DEF PartKinds, Kinds
<1>4. \A v \in Words : /\ Part({"name"}, v) \in Seq(PartOf(N))
                        /\ Part({"name", "string"}, v) \in Seq(PartOf(N))
  BY <1>1, <1>3
<1>5. \A k \in Kinds \ {"name", "string"} : Mark(k) \in Seq(PartOf(N))
  <2> TAKE k \in Kinds \ {"name", "string"}
  <2>1. {k} \cap {"name", "string"} = {}
    OBVIOUS
  <2>2. {k} \in PartKinds
    BY <1>3
  <2> QED BY <1>1, <2>1, <2>2 DEF Mark
<1> QED BY <1>2, <1>4, <1>5

LEMMA EntryTyped ==
  ASSUME NEW N, Zero \in N, "" \in Words, NEW e \in AnyEntry(N)
  PROVE  /\ ValuePart(e) \in Seq(PartOf(N))
         /\ RenderEntry(e) = Part({"name"}, e.name) \o Mark("=") \o ValuePart(e) \o Mark(";")
         /\ RenderEntry(e) \in Seq(PartOf(N))
<1>1. e.name \in Words /\ e.string \in Words /\ e.number \in N
  BY DEF AnyEntry
<1>2. ValuePart(e) \in Seq(PartOf(N))
  <2> DEFINE p == [k |-> {"number"}, v |-> "", number |-> e.number]
  <2>1. {"number"} \in PartKinds
    <3>1. "number" \in Kinds
      BY DEF Kinds
    <3> QED BY <3>1 DEF PartKinds
  <2>2. p \in PartOf(N)
    BY <1>1, <2>1 DEF PartOf
  <2>3. <<p>> \in Seq(PartOf(N))
    BY <2>2, SeqOfOne
  <2>4. Part({"string", "name"}, e.string) \in Seq(PartOf(N))
    BY <1>1, PartTyped
  <2> QED BY <2>3, <2>4 DEF ValuePart
<1>3. RenderEntry(e) = Part({"name"}, e.name) \o Mark("=") \o ValuePart(e) \o Mark(";")
  BY DEF RenderEntry, ValuePart
<1>4. Part({"name"}, e.name) \in Seq(PartOf(N)) /\ Mark("=") \in Seq(PartOf(N)) /\ Mark(";") \in Seq(PartOf(N))
  BY <1>1, PartTyped DEF Kinds
<1>5. RenderEntry(e) \in Seq(PartOf(N))
  <2> DEFINE a == Part({"name"}, e.name)
             b == Mark("=")
             c == ValuePart(e)
             d == Mark(";")
             T == PartOf(N)
  <2> HIDE DEF a, b, c, d, T
  <2>1. a \in Seq(T) /\ b \in Seq(T) /\ c \in Seq(T) /\ d \in Seq(T)
    BY <1>2, <1>4 DEF a, b, c, d, T
  <2>2. a \o b \in Seq(T)
    BY <2>1, ConcatProperties
  <2>3. (a \o b) \o c \in Seq(T)
    BY <2>1, <2>2, ConcatProperties
  <2>4. ((a \o b) \o c) \o d \in Seq(T)
    BY <2>1, <2>3, ConcatProperties
  <2> QED BY <1>3, <2>4 DEF a, b, c, d, T
<1> QED BY <1>2, <1>3, <1>5

(* A sequence is mapped element by element. *)
Mapped(r, E) == [i \in DOMAIN E |-> r[E[i]]]

LEMMA MapTyped ==
  ASSUME NEW S, NEW T, NEW r \in [S -> T], NEW E \in Seq(S)
  PROVE  Mapped(r, E) \in Seq(T)
<1> DEFINE m == Mapped(r, E)
           n == Len(E)
<1>1. n \in Nat /\ DOMAIN E = 1 .. n /\ \A i \in 1 .. n : E[i] \in S
  BY LenProperties, ElementOfSeq
<1>2. m \in [1 .. n -> T]
  BY <1>1 DEF Mapped
<1> HIDE DEF m, n
<1>3. m \in Seq(T)
  BY <1>1, <1>2
<1> QED BY <1>3 DEF m

LEMMA MapNothing ==
  ASSUME NEW r
  PROVE  Mapped(r, << >>) = << >>
<1>1. DOMAIN << >> = 1 .. 0
  OBVIOUS
<1>2. Mapped(r, << >>) \in [1 .. 0 -> {}]
  BY <1>1 DEF Mapped
<1> QED BY <1>2, SeqEqual

LEMMA MapAppend ==
  ASSUME NEW S, NEW T, NEW r \in [S -> T], NEW E \in Seq(S), NEW e \in S
  PROVE  Mapped(r, Append(E, e)) = Append(Mapped(r, E), r[e])
<1> DEFINE m == [i \in DOMAIN E |-> r[E[i]]]
           a == Append(E, e)
           n == Len(E)
<1>1. n \in Nat /\ DOMAIN E = 1 .. n /\ \A i \in 1 .. n : E[i] \in S
  BY LenProperties, ElementOfSeq
<1>2. a \in Seq(S) /\ Len(a) = n + 1 /\ a[n + 1] = e /\ \A i \in 1 .. n : a[i] = E[i]
  BY AppendProperties
<1>3. DOMAIN a = 1 .. n + 1
  BY <1>2, LenProperties
<1>4. m \in [1 .. n -> T] /\ m \in Seq(T) /\ Len(m) = n
  <2>1. m \in [1 .. n -> T]
    BY <1>1
  <2> HIDE DEF m, n
  <2> QED BY <1>1, <2>1
<1>5. /\ Append(m, r[e]) \in Seq(T) /\ Len(Append(m, r[e])) = n + 1 /\ Append(m, r[e])[n + 1] = r[e]
      /\ \A i \in 1 .. n : Append(m, r[e])[i] = m[i]
  <2> HIDE DEF m, n
  <2> QED BY <1>4, AppendProperties
<1> DEFINE b == [i \in DOMAIN a |-> r[a[i]]]
<1>6. b \in [1 .. n + 1 -> T] /\ \A i \in 1 .. n + 1 : b[i] = r[a[i]]
  <2>1. \A i \in DOMAIN a : a[i] \in S
    <3> HIDE DEF a, n
    <3> QED BY <1>2, <1>3, ElementOfSeq
  <2> HIDE DEF a, n
  <2> QED BY <1>3, <2>1
<1>7. b \in Seq(T) /\ Len(b) = n + 1
  <2> HIDE DEF b, n
  <2> QED BY <1>1, <1>6
<1>8. \A i \in 1 .. n : m[i] = r[E[i]]
  BY <1>1
<1>9. \A i \in 1 .. n + 1 : b[i] = Append(m, r[e])[i]
  <2> TAKE i \in 1 .. n + 1
  <2> HIDE DEF a, b, m, n
  <2>1. CASE i = n + 1
    BY <1>2, <1>5, <1>6, <2>1
  <2>2. CASE i # n + 1
    <3>1. i \in 1 .. n
      BY <1>1, <2>2
    <3> QED BY <1>2, <1>5, <1>6, <1>8, <3>1
  <2> QED BY <2>1, <2>2
<1>10. b = Append(m, r[e])
  <2> HIDE DEF a, b, m, n
  <2> QED BY <1>5, <1>7, <1>9, SeqEqual
<1> QED BY <1>4, <1>10 DEF Mapped

(* Mapped to sequences and put together. *)
LEMMA FlatMap ==
  ASSUME NEW S, NEW T, NEW r \in [S -> Seq(T)], NEW E \in Seq(S), NEW e \in S
  PROVE  FlattenSeq(Mapped(r, Append(E, e))) = FlattenSeq(Mapped(r, E)) \o r[e]
<1> DEFINE m == Mapped(r, E)
           a == Mapped(r, Append(E, e))
<1>1. m \in Seq(Seq(T))
  BY MapTyped
<1>2. a = Append(m, r[e])
  BY MapAppend
<1>3. r[e] \in Seq(T)
  OBVIOUS
<1> HIDE DEF m, a
<1>4. FlattenSeq(a) = FlattenSeq(m) \o r[e]
  BY <1>1, <1>2, <1>3, FlatAppend
<1> QED BY <1>4 DEF m, a

LEMMA EntriesAppend ==
  ASSUME NEW N, Zero \in N, "" \in Words, NEW E \in Seq(AnyEntry(N))
  PROVE  /\ EntryParts(<< >>) = << >>
         /\ EntryParts(E) \in Seq(PartOf(N))
         /\ \A e \in AnyEntry(N) : EntryParts(Append(E, e)) = EntryParts(E) \o RenderEntry(e)
<1> DEFINE T == PartOf(N)
           S == AnyEntry(N)
           r == [e \in S |-> RenderEntry(e)]
<1>1. r \in [S -> Seq(T)] /\ E \in Seq(S)
  BY EntryTyped
<1>2. ASSUME NEW F \in Seq(S) PROVE [i \in DOMAIN F |-> RenderEntry(F[i])] = Mapped(r, F)
  <2>1. \A i \in DOMAIN F : F[i] \in S
    BY ElementOfSeq, LenProperties
  <2> QED BY <2>1 DEF Mapped
<1>3. \A F \in Seq(S) : EntryParts(F) = FlattenSeq(Mapped(r, F))
  BY <1>2 DEF EntryParts
<1>4. S # {}
  <2>1. [name |-> "", type |-> "", string |-> "", number |-> Zero] \in AnyEntry(N)
    BY DEF AnyEntry, EntryTypes
  <2> QED BY <2>1
<1>5. ASSUME NEW e \in S
      PROVE  /\ EntryParts(E) \in Seq(T) /\ EntryParts(<< >>) = << >>
             /\ EntryParts(Append(E, e)) = EntryParts(E) \o r[e]
  <2>1. e \in S
    OBVIOUS
  <2> HIDE DEF S, T, r
  <2>2. Append(E, e) \in Seq(S) /\ << >> \in Seq(S)
    BY <1>1, <2>1, AppendProperties, EmptySeq
  <2>3. /\ FlattenSeq(Mapped(r, E)) \in Seq(T) /\ FlattenSeq(Mapped(r, << >>)) = << >>
        /\ FlattenSeq(Mapped(r, Append(E, e))) = FlattenSeq(Mapped(r, E)) \o r[e]
    <3>1. Mapped(r, E) \in Seq(Seq(T))
      BY <1>1, MapTyped
    <3>2. FlattenSeq(Mapped(r, E)) \in Seq(T)
      BY <3>1, FlatTyped
    <3>3. FlattenSeq(Mapped(r, << >>)) = << >>
      <4>1. Mapped(r, << >>) = << >>
        BY MapNothing
      <4> QED BY <4>1 DEF FlattenSeq
    <3>4. FlattenSeq(Mapped(r, Append(E, e))) = FlattenSeq(Mapped(r, E)) \o r[e]
      BY <1>1, <2>1, FlatMap
    <3> QED BY <3>2, <3>3, <3>4
  <2> QED BY <1>1, <1>3, <2>2, <2>3
<1>6. \A e \in S : r[e] = RenderEntry(e)
  OBVIOUS
<1> QED
  <2> HIDE DEF r
  <2> QED BY <1>4, <1>5, <1>6

(* The sections of a file, each after the first with a comma before it. *)
Marked(seqs) == [i \in DOMAIN seqs |-> IF i = 1 THEN seqs[i] ELSE Mark(",") \o seqs[i]]

SectionHead(s) == Part({"name"}, s.type) \o Part({"name", "string"}, s.name) \o Mark("{")

LEMMA MarkedTyped ==
  ASSUME NEW T, NEW s \in Seq(Seq(T)), Mark(",") \in Seq(T)
  PROVE  Marked(s) \in Seq(Seq(T)) /\ Len(Marked(s)) = Len(s)
<1> DEFINE n == Len(s)
           m == Marked(s)
<1>1. n \in Nat /\ DOMAIN s = 1 .. n /\ \A i \in 1 .. n : s[i] \in Seq(T)
  BY LenProperties, ElementOfSeq
<1>2. \A i \in 1 .. n : Mark(",") \o s[i] \in Seq(T)
  BY <1>1, ConcatProperties
<1>3. m = [i \in 1 .. n |-> IF i = 1 THEN s[i] ELSE Mark(",") \o s[i]]
  BY <1>1 DEF Marked
<1> DEFINE U == Seq(T)
<1>4. m \in [1 .. n -> U]
  <2> HIDE DEF m, n
  <2>1. \A i \in 1 .. n : s[i] \in U /\ Mark(",") \o s[i] \in U
    BY <1>1, <1>2
  <2> HIDE DEF U
  <2> QED BY <1>3, <2>1
<1>5. m \in Seq(U) /\ Len(m) = n
  <2>1. n \in Nat
    BY <1>1
  <2> HIDE DEF m, n, U
  <2> QED BY ONLY <1>4, <2>1
<1> QED BY <1>5

LEMMA MarkedAppend ==
  ASSUME NEW T, NEW s \in Seq(Seq(T)), NEW x \in Seq(T), Mark(",") \in Seq(T)
  PROVE  Marked(Append(s, x)) = Append(Marked(s), IF s = << >> THEN x ELSE Mark(",") \o x)
<1> DEFINE U == Seq(T)
           n == Len(s)
           a == Append(s, x)
           m == Marked(s)
           b == Marked(a)
           y == IF s = << >> THEN x ELSE Mark(",") \o x
           c == Append(m, y)
<1>1. n \in Nat /\ DOMAIN s = 1 .. n /\ (s = << >> <=> n = 0)
  BY LenProperties, EmptySeq
<1>2. a \in Seq(U) /\ Len(a) = n + 1 /\ a[n + 1] = x /\ \A i \in 1 .. n : a[i] = s[i]
  <2>1. s \in Seq(U) /\ x \in U
    OBVIOUS
  <2> HIDE DEF U
  <2> QED BY ONLY <2>1, AppendProperties
<1>3. y \in U
  BY ConcatProperties
<1>4. m \in Seq(U) /\ Len(m) = n /\ b \in Seq(U) /\ Len(b) = n + 1
  <2>1. m \in Seq(U) /\ Len(m) = n
    BY MarkedTyped
  <2> HIDE DEF a
  <2>2. b \in Seq(U) /\ Len(b) = Len(a)
    BY <1>2, MarkedTyped
  <2> QED BY <1>2, <2>1, <2>2
<1>5. c \in Seq(U) /\ Len(c) = n + 1 /\ c[n + 1] = y /\ \A i \in 1 .. n : c[i] = m[i]
  <2> HIDE DEF U, m, y
  <2>1. m \in Seq(U) /\ y \in U /\ Len(m) = n
    BY <1>3, <1>4
  <2> HIDE DEF n
  <2> QED BY ONLY <2>1, AppendProperties
<1>6. DOMAIN a = 1 .. n + 1
  <2> HIDE DEF a, n, U
  <2> QED BY <1>2, LenProperties
<1>7. \A i \in 1 .. n : m[i] = IF i = 1 THEN s[i] ELSE Mark(",") \o s[i]
  BY <1>1 DEF Marked
<1>8. \A i \in 1 .. n + 1 : b[i] = IF i = 1 THEN a[i] ELSE Mark(",") \o a[i]
  <2> HIDE DEF a, n
  <2> QED BY <1>6 DEF Marked
<1>9. \A i \in 1 .. n + 1 : b[i] = c[i]
  <2>0. n \in Nat /\ (s = << >> <=> n = 0)
    BY <1>1
  <2> TAKE i \in 1 .. n + 1
  <2> HIDE DEF U, a, b, c, m, n
  <2>1. CASE i = n + 1
    <3>1. b[i] = IF i = 1 THEN x ELSE Mark(",") \o x
      BY <1>2, <1>8, <2>1
    <3>2. i = 1 <=> s = << >>
      BY ONLY <2>0, <2>1
    <3>3. c[i] = y
      BY <1>5, <2>1
    <3> QED BY <3>1, <3>2, <3>3
  <2>2. CASE i # n + 1
    <3>1. i \in 1 .. n
      BY ONLY <2>0, <2>2, i \in 1 .. n + 1
    <3>2. a[i] = s[i] /\ c[i] = m[i]
      BY <1>2, <1>5, <3>1
    <3> QED BY <1>7, <1>8, <3>1, <3>2
  <2> QED BY <2>1, <2>2
<1>10. b = c
  <2> HIDE DEF U, b, c, n
  <2> QED BY <1>1, <1>4, <1>5, <1>9, SeqEqual
<1> QED BY <1>10

LEMMA SeparatedAppend ==
  ASSUME NEW T, NEW s \in Seq(Seq(T)), NEW x \in Seq(T), Mark(",") \in Seq(T)
  PROVE  Separated(Append(s, x)) = IF s = << >> THEN x ELSE Separated(s) \o (Mark(",") \o x)
<1> DEFINE y == IF s = << >> THEN x ELSE Mark(",") \o x
           m == Marked(s)
<1>1. y \in Seq(T) /\ m \in Seq(Seq(T))
  BY ConcatProperties, MarkedTyped
<1>2. Separated(Append(s, x)) = FlattenSeq(Marked(Append(s, x))) /\ Separated(s) = FlattenSeq(m)
  BY DEF Separated, Marked
<1>3. Marked(Append(s, x)) = Append(m, y)
  BY MarkedAppend
<1>4. FlattenSeq(Append(m, y)) = FlattenSeq(m) \o y
  <2> HIDE DEF m, y
  <2> QED BY <1>1, FlatAppend
<1>5. CASE s = << >>
  <2>1. m = << >>
    <3>1. Len(m) = 0
      BY <1>5, MarkedTyped
    <3> HIDE DEF m
    <3> QED BY <1>1, <3>1, EmptySeq
  <2>2. FlattenSeq(<< >>) = << >>
    BY DEF FlattenSeq
  <2>3. << >> \o x = x
    BY ConcatEmptySeq
  <2> HIDE DEF m
  <2> QED BY <1>2, <1>3, <1>4, <1>5, <2>1, <2>2, <2>3
<1>6. CASE s # << >>
  BY <1>2, <1>3, <1>4, <1>6
<1> QED BY <1>5, <1>6

LEMMA SectionTyped ==
  ASSUME NEW N, Zero \in N, "" \in Words, NEW s \in AnySection(N)
  PROVE  /\ SectionHead(s) \in Seq(PartOf(N))
         /\ RenderSection(s) = SectionHead(s) \o EntryParts(s.entries) \o Mark("}")
         /\ RenderSection(s) \in Seq(PartOf(N))
<1> DEFINE a == Part({"name"}, s.type)
           b == Part({"name", "string"}, s.name)
           c == Mark("{")
           h == SectionHead(s)
           d == EntryParts(s.entries)
           f == Mark("}")
           T == PartOf(N)
<1>1. s.type \in Words /\ s.name \in Words /\ s.entries \in Seq(AnyEntry(N))
  BY DEF AnySection
<1>2. a \in Seq(T) /\ b \in Seq(T) /\ c \in Seq(T) /\ f \in Seq(T)
  BY <1>1, PartTyped DEF Kinds
<1>3. d \in Seq(T)
  BY <1>1, EntriesAppend
<1>4. h = (a \o b) \o c /\ RenderSection(s) = (h \o d) \o f
  BY DEF RenderSection, SectionHead, EntryParts
<1>5. h \in Seq(T) /\ (h \o d) \o f \in Seq(T)
  <2> HIDE DEF a, b, c, d, f, h, T
  <2>1. a \o b \in Seq(T)
    BY <1>2, ConcatProperties
  <2>2. h \in Seq(T)
    BY <1>2, <1>4, <2>1, ConcatProperties
  <2>3. h \o d \in Seq(T)
    BY <1>3, <2>2, ConcatProperties
  <2> QED BY <1>2, <2>2, <2>3, ConcatProperties
<1> HIDE DEF h, d, f, T
<1> QED BY <1>4, <1>5 DEF h, d, f, T

LEMMA SectionsTyped ==
  ASSUME NEW N, Zero \in N, "" \in Words, NEW P \in Seq(AnySection(N))
  PROVE  SectionParts(P) \in Seq(PartOf(N))
<1> DEFINE T == PartOf(N)
           S == AnySection(N)
           r == [s \in S |-> RenderSection(s)]
<1>1. r \in [S -> Seq(T)]
  BY SectionTyped
<1>2. \A i \in DOMAIN P : P[i] \in S
  BY ElementOfSeq, LenProperties
<1>3. SectionParts(P) = FlattenSeq(Marked(Mapped(r, P)))
  <2>1. [i \in DOMAIN P |-> RenderSection(P[i])] = Mapped(r, P)
    BY <1>2 DEF Mapped
  <2> HIDE DEF r
  <2> QED BY <2>1 DEF SectionParts, Separated, Marked
<1>4. Mark(",") \in Seq(T)
  BY PartTyped DEF Kinds
<1> HIDE DEF r, T
<1>5. Mapped(r, P) \in Seq(Seq(T))
  BY <1>1, MapTyped
<1>6. Marked(Mapped(r, P)) \in Seq(Seq(T))
  BY <1>4, <1>5, MarkedTyped
<1>7. FlattenSeq(Marked(Mapped(r, P))) \in Seq(T)
  BY <1>6, FlatTyped
<1> QED BY <1>3, <1>7 DEF T

LEMMA SectionsAppend ==
  ASSUME NEW N, Zero \in N, "" \in Words, NEW P \in Seq(AnySection(N)), NEW s \in AnySection(N)
  PROVE  SectionParts(Append(P, s)) =
           IF P = << >> THEN RenderSection(s) ELSE SectionParts(P) \o (Mark(",") \o RenderSection(s))
<1> DEFINE T == PartOf(N)
           S == AnySection(N)
           r == [x \in S |-> RenderSection(x)]
<1>1. r \in [S -> Seq(T)] /\ r[s] = RenderSection(s)
  BY SectionTyped
<1>2. \A F \in Seq(S) : SectionParts(F) = Separated(Mapped(r, F))
  <2> TAKE F \in Seq(S)
  <2>1. \A i \in DOMAIN F : F[i] \in S
    BY ElementOfSeq, LenProperties
  <2>2. [i \in DOMAIN F |-> RenderSection(F[i])] = Mapped(r, F)
    BY <2>1 DEF Mapped
  <2> HIDE DEF r
  <2> QED BY <2>2 DEF SectionParts
<1>3. Mark(",") \in Seq(T)
  BY PartTyped DEF Kinds
<1>4. P \in Seq(S) /\ s \in S /\ Append(P, s) \in Seq(S)
  BY AppendProperties
<1> HIDE DEF r, S, T
<1> DEFINE m == Mapped(r, P)
<1>5. m \in Seq(Seq(T)) /\ r[s] \in Seq(T)
  BY <1>1, <1>4, MapTyped
<1>6. Mapped(r, Append(P, s)) = Append(m, r[s])
  BY <1>1, <1>4, MapAppend
<1>7. m = << >> <=> P = << >>
  <2>1. DOMAIN m = DOMAIN P
    BY DEF Mapped
  <2> DEFINE U == Seq(T)
  <2>2. m \in Seq(U) /\ P \in Seq(S)
    BY <1>4, <1>5
  <2> HIDE DEF m, U
  <2>3. Len(m) = Len(P)
    BY ONLY <2>1, <2>2, LenProperties
  <2>4. (m = << >> <=> Len(m) = 0) /\ (P = << >> <=> Len(P) = 0)
    BY ONLY <2>2, EmptySeq
  <2> QED BY ONLY <2>3, <2>4
<1> HIDE DEF m
<1>8. Separated(Append(m, r[s])) = IF m = << >> THEN r[s] ELSE Separated(m) \o (Mark(",") \o r[s])
  BY <1>3, <1>5, SeparatedAppend
<1>9. SectionParts(P) = Separated(m) /\ SectionParts(Append(P, s)) = Separated(Append(m, r[s]))
  BY <1>2, <1>4, <1>6 DEF m
<1> QED BY <1>1, <1>7, <1>8, <1>9

-----------------------------------------------------------------------------
(* What the parser has consumed. *)

(* The values its numbers can have, and what it can have built. *)
Values == {AcceptInt(c).value : c \in Seq(NumberCharSet)} \cup {Zero, 0}
Said == PartOf(Values)
AnyFile == [name : Words, sections : Seq(AnySection(Values))]

FileHead(name) == Part({"name"}, name) \o Mark("{")
Upto(name, P) == FileHead(name) \o SectionParts(P)
(* ... before the next section, and in the section s after the entries E. *)
Before(name, P) == IF P = << >> THEN FileHead(name) ELSE Upto(name, P) \o Mark(",")
Named(name, P, s) == Before(name, P) \o Part({"name"}, s.type) \o Part({"name", "string"}, s.name)
InBody(name, P, s, E) == Named(name, P, s) \o Mark("{") \o EntryParts(E)

(* The tokens behind the parser, by the call that accepts the next. *)
TokensOf(at, f) ==
  LET P == Front(f.sections)
      s == Last(f.sections)
      E == Front(s.entries)
      e == Last(s.entries)
      named == InBody(f.name, P, s, E) \o Part({"name"}, e.name)
  IN CASE at = "file" -> << >>
       [] at = "fileOpen" -> Part({"name"}, f.name)
       [] at = "section" -> Before(f.name, f.sections)
       [] at = "sectionName" -> Before(f.name, P) \o Part({"name"}, s.type)
       [] at = "sectionOpen" -> Named(f.name, P, s)
       [] at \in {"entry", "entryOrEnd"} -> InBody(f.name, P, s, s.entries)
       [] at = "equals" -> named
       [] at = "value" -> named \o Mark("=")
       [] at = "semicolon" -> named \o Mark("=") \o ValuePart(e)
       [] at = "sectionEnd" -> Upto(f.name, f.sections)
       [] at = "done" -> Upto(f.name, f.sections) \o Mark("}")

(* The token t is what the part p asks for, and the first n tokens of a     *)
(* text are what the parts r ask for.                                      *)
Fits(t, p) ==
  t.k \in p.k /\ t.v = p.v /\ (t.k = "number" => p.number = AcceptInt(t.chars).value)
Gives(txt, r, n) == r \in Seq(Said) /\ Len(r) = n /\ \A i \in 1 .. n : Fits(txt[i], r[i])

InEntry == {"equals", "value", "semicolon"}
InSection == {"sectionName", "sectionOpen", "entry", "entryOrEnd"} \cup InEntry
Calls == {"file", "fileOpen", "section", "sectionEnd", "done"} \cup InSection

GrammarInv ==
  /\ text \in Seq(Token) /\ pos \in 1 .. Len(text) + 1 /\ file \in AnyFile
  /\ parsing \in Calls \cup {"null", "fatal"}
  /\ parsing \in {"file", "fileOpen"} => file.sections = << >>
  /\ parsing \in InSection \cup {"sectionEnd", "done"} => file.sections # << >>
  /\ parsing \in {"sectionName", "sectionOpen"} => LastSection.entries = << >>
  /\ parsing \in InEntry => LastSection.entries # << >>
  /\ parsing \in Calls => Gives(text, TokensOf(parsing, file), pos - 1)

LEMMA GivesOne ==
  ASSUME NEW txt, NEW n \in Nat, NEW r, Gives(txt, r, n), NEW p \in Said, Fits(txt[n + 1], p)
  PROVE  Gives(txt, r \o <<p>>, n + 1)
<1> DEFINE q == r \o <<p>>
<1>1. r \in Seq(Said) /\ Len(r) = n /\ \A i \in 1 .. n : Fits(txt[i], r[i])
  BY DEF Gives
<1>2. <<p>> \in Seq(Said) /\ Len(<<p>>) = 1 /\ <<p>>[1] = p
  BY SeqOfOne
<1> DEFINE o == <<p>>
<1>3. /\ q \in Seq(Said) /\ Len(q) = n + 1
      /\ \A i \in 1 .. n + 1 : q[i] = IF i <= n THEN r[i] ELSE o[i - n]
  <2>1. r \in Seq(Said) /\ o \in Seq(Said) /\ Len(o) = 1 /\ Len(r) = n
    BY <1>1, <1>2
  <2> HIDE DEF o
  <2>2. /\ r \o o \in Seq(Said) /\ Len(r \o o) = Len(r) + Len(o)
        /\ \A i \in 1 .. Len(r) + Len(o) : (r \o o)[i] = IF i <= Len(r) THEN r[i] ELSE o[i - Len(r)]
    BY ONLY <2>1, ConcatProperties
  <2> QED BY ONLY <2>1, <2>2 DEF o
<1>4. \A i \in 1 .. n + 1 : Fits(txt[i], q[i])
  <2> TAKE i \in 1 .. n + 1
  <2>1. CASE i \in 1 .. n
    <3>1. q[i] = r[i]
      BY <1>3, <2>1
    <3> QED BY <1>1, <2>1, <3>1
  <2>2. CASE i = n + 1
    <3>1. q[i] = o[i - n] /\ i - n = 1
      BY <1>3, <2>2
    <3>2. q[i] = p
      BY <1>2, <3>1
    <3> QED BY <2>2, <3>2
  <2> HIDE DEF q, o
  <2> QED BY <2>1, <2>2
<1> HIDE DEF q
<1> QED BY <1>3, <1>4 DEF Gives, q

(* The token that is come to. *)
LEMMA TokenHere ==
  ASSUME text \in Seq(Token), pos \in 1 .. Len(text) + 1, Tok.k \in Kinds
  PROVE  pos \in 1 .. Len(text) /\ Tok = text[pos] /\ Tok \in Token
<1>1. Len(text) \in Nat
  BY LenProperties
<1>2. "EOF" \notin Kinds
  BY DEF Kinds
<1>3. pos <= Len(text)
  BY <1>2 DEF Tok
<1>4. pos \in 1 .. Len(text) /\ Tok = text[pos]
  BY <1>1, <1>3 DEF Tok
<1>5. text[pos] \in Token
  BY <1>4, ElementOfSeq
<1> QED BY <1>4, <1>5

LEMMA ZeroKnown == Zero \in Values /\ 0 \in Values
BY DEF Values

(* One more token is consumed, for the part p. *)
LEMMA Accepted ==
  ASSUME GrammarInv, parsing \in Calls, Tok.k \in Kinds, NEW p \in Said, Fits(Tok, p),
         pos' = pos + 1, UNCHANGED input, parsing' \in Calls,
         TokensOf(parsing', file') = TokensOf(parsing, file) \o <<p>>
  PROVE  text' \in Seq(Token) /\ pos' \in 1 .. Len(text') + 1
         /\ Gives(text', TokensOf(parsing', file'), pos' - 1)
<1>1. text \in Seq(Token) /\ pos \in 1 .. Len(text) + 1 /\ Gives(text, TokensOf(parsing, file), pos - 1)
  BY DEF GrammarInv
<1>2. pos \in 1 .. Len(text) /\ Tok = text[pos]
  BY <1>1, TokenHere
<1>3. pos - 1 \in Nat /\ (pos - 1) + 1 = pos /\ pos' - 1 = pos /\ pos' \in 1 .. Len(text) + 1
  BY <1>2, <1>1, LenProperties
<1>4. Gives(text, TokensOf(parsing, file) \o <<p>>, (pos - 1) + 1)
  BY <1>1, <1>2, <1>3, GivesOne
<1>5. text' = text
  BY DEF input
<1> QED BY <1>1, <1>3, <1>4, <1>5

-----------------------------------------------------------------------------
(* Parts that are one token, and files that change in one place. *)

Asked(k, v) == [k |-> k, v |-> v, number |-> Zero]

LEMMA WordAsked ==
  ASSUME NEW v \in Words
  PROVE  /\ Asked({"name"}, v) \in Said /\ Part({"name"}, v) = <<Asked({"name"}, v)>>
         /\ Asked({"name", "string"}, v) \in Said
         /\ Part({"name", "string"}, v) = <<Asked({"name", "string"}, v)>>
<1>1. {"name"} \in PartKinds /\ {"name", "string"} \in PartKinds
  BY DEF PartKinds, Kinds
<1> QED BY <1>1, ZeroKnown DEF Asked, Part, Said, PartOf

LEMMA MarkAsked ==
  ASSUME CfgAssumption, NEW k \in Kinds \ {"name", "string"}
  PROVE  Asked({k}, "") \in Said /\ Mark(k) = <<Asked({k}, "")>>
<1>1. {k} \in PartKinds /\ "" \in Words
  BY DEF PartKinds, CfgAssumption
<1> QED BY <1>1, ZeroKnown DEF Asked, Mark, Part, Said, PartOf

(* A word or a mark fits what asks for it. *)
LEMMA MarkFits ==
  ASSUME NEW k \in Kinds \ {"name", "string", "number"}, Tok \in Token, At(k)
  PROVE  Fits(Tok, Asked({k}, ""))
BY DEF Fits, Asked, At, Token

LEMMA NameFits ==
  ASSUME Tok \in Token, At("name")
  PROVE  Tok.v \in Words /\ Fits(Tok, Asked({"name"}, Tok.v))
BY DEF Fits, Asked, At, Token

LEMMA WordFits ==
  ASSUME Tok \in Token, AtWord
  PROVE  Tok.v \in Words /\ Fits(Tok, Asked({"name", "string"}, Tok.v))
BY DEF Fits, Asked, At, AtWord, Token

LEMMA SectionChanged ==
  ASSUME file \in AnyFile, file.sections # << >>, NEW s \in AnySection(Values)
  PROVE  /\ WithSection(s) \in AnyFile /\ WithSection(s).name = file.name
         /\ WithSection(s).sections # << >>
         /\ Front(WithSection(s).sections) = Front(file.sections)
         /\ Last(WithSection(s).sections) = s
<1> DEFINE P == Front(file.sections)
<1>1. file.sections \in Seq(AnySection(Values))
  BY DEF AnyFile
<1>2. P \in Seq(AnySection(Values))
  BY <1>1, FrontLast
<1>3. WithSection(s) = [file EXCEPT !.sections = Append(P, s)]
  BY DEF WithSection
<1> HIDE DEF P
<1>4. Append(P, s) \in Seq(AnySection(Values)) /\ Append(P, s) # << >>
  BY <1>2, AppendProperties
<1>5. Front(Append(P, s)) = P /\ Last(Append(P, s)) = s
  BY <1>2, FrontLast
<1>6. WithSection(s).sections = Append(P, s) /\ WithSection(s).name = file.name
  BY <1>3 DEF AnyFile
<1>7. WithSection(s) \in AnyFile
  BY <1>3, <1>4 DEF AnyFile
<1> QED BY <1>4, <1>5, <1>6, <1>7 DEF P

LEMMA LastTyped ==
  ASSUME file \in AnyFile, file.sections # << >>
  PROVE  /\ Front(file.sections) \in Seq(AnySection(Values)) /\ LastSection \in AnySection(Values)
         /\ file.sections = Append(Front(file.sections), LastSection)
         /\ LastSection.entries \in Seq(AnyEntry(Values))
         /\ LastSection.entries # << >> => /\ Front(LastSection.entries) \in Seq(AnyEntry(Values))
                                           /\ LastEntry \in AnyEntry(Values)
                                           /\ LastSection.entries = Append(Front(LastSection.entries), LastEntry)
<1>1. file.sections \in Seq(AnySection(Values))
  BY DEF AnyFile
<1>2. /\ Front(file.sections) \in Seq(AnySection(Values)) /\ LastSection \in AnySection(Values)
      /\ file.sections = Append(Front(file.sections), LastSection)
  BY <1>1, FrontLast DEF LastSection
<1>3. LastSection.entries \in Seq(AnyEntry(Values))
  BY <1>2 DEF AnySection
<1> QED BY <1>2, <1>3, FrontLast DEF LastEntry

LEMMA StoppedKeeps ==
  ASSUME GrammarInv, parsing' \in {"null", "fatal"}, file' \in AnyFile,
         UNCHANGED input, pos' \in 1 .. Len(text) + 1
  PROVE  GrammarInv'
<1>1. text' = text
  BY DEF input
<1> QED BY <1>1 DEF GrammarInv, Calls, InSection, InEntry

(* The name of the file. *)
LEMMA FileNameKeeps ==
  ASSUME CfgAssumption, GrammarInv, FileName
  PROVE  GrammarInv'
<1>1. CASE At("name")
  <2> DEFINE p == Asked({"name"}, Tok.v)
  <2>1. parsing = "file" /\ parsing' = "fileOpen" /\ pos' = pos + 1 /\ UNCHANGED input
        /\ file' = [file EXCEPT !.name = Tok.v] /\ Tok.k \in Kinds
    BY <1>1 DEF FileName, Accept, At, Kinds
  <2>2. Tok \in Token
    BY <2>1, TokenHere DEF GrammarInv
  <2>3. Tok.v \in Words /\ Fits(Tok, p) /\ p \in Said /\ Part({"name"}, Tok.v) = <<p>>
    BY <1>1, <2>2, NameFits, WordAsked
  <2>4. file' \in AnyFile /\ file'.name = Tok.v /\ file'.sections = << >>
    BY <2>1, <2>3 DEF GrammarInv, AnyFile
  <2>5. TokensOf(parsing', file') = TokensOf(parsing, file) \o <<p>>
    <3>1. TokensOf(parsing, file) = << >>
      BY <2>1 DEF TokensOf
    <3>2. TokensOf(parsing', file') = <<p>>
      BY <2>1, <2>3, <2>4 DEF TokensOf
    <3>3. << >> \o <<p>> = <<p>>
      <4>1. <<p>> \in Seq(Said)
        BY <2>3, SeqOfOne
      <4> HIDE DEF p
      <4> QED BY <4>1, ConcatEmptySeq
    <3> QED BY <3>1, <3>2, <3>3
  <2>6. parsing \in Calls /\ parsing' \in Calls
    BY <2>1 DEF Calls
  <2> HIDE DEF p
  <2>7. /\ text' \in Seq(Token) /\ pos' \in 1 .. Len(text') + 1
        /\ Gives(text', TokensOf(parsing', file'), pos' - 1)
    BY <2>1, <2>3, <2>5, <2>6, Accepted
  <2> QED BY <2>1, <2>4, <2>6, <2>7 DEF GrammarInv, Calls, InSection, InEntry
<1>2. CASE ~ At("name")
  BY <1>2, StoppedKeeps DEF FileName, Stop, GrammarInv
<1> QED BY <1>1, <1>2

(* A mark that changes nothing of the file: from one call to the next.      *)
LEMMA MarkKeeps ==
  ASSUME CfgAssumption, GrammarInv, NEW k \in Kinds \ {"name", "string", "number"}, At(k),
         parsing \in Calls, NEW next \in Calls, Accept(next), UNCHANGED file,
         TokensOf(next, file) = TokensOf(parsing, file) \o Mark(k),
         next = "fileOpen" => file.sections = << >>,
         next \in InSection \cup {"sectionEnd", "done"} => file.sections # << >>,
         next \in {"file", "sectionName", "sectionOpen"} => FALSE,
         next \in InEntry => LastSection.entries # << >>
  PROVE  GrammarInv'
<1> DEFINE p == Asked({k}, "")
<1>1. pos' = pos + 1 /\ UNCHANGED input /\ parsing' = next /\ file' = file /\ Tok.k \in Kinds
  BY DEF Accept, At
<1>2. Tok \in Token
  BY <1>1, TokenHere DEF GrammarInv
<1>3. p \in Said /\ Mark(k) = <<p>> /\ Fits(Tok, p)
  BY <1>2, MarkAsked, MarkFits
<1> HIDE DEF p
<1>4. TokensOf(parsing', file') = TokensOf(parsing, file) \o <<p>>
  BY <1>1, <1>3
<1>5. /\ text' \in Seq(Token) /\ pos' \in 1 .. Len(text') + 1
      /\ Gives(text', TokensOf(parsing', file'), pos' - 1)
  BY <1>1, <1>3, <1>4, Accepted
<1>6. LastSection' = LastSection
  BY <1>1 DEF LastSection
<1> QED BY <1>1, <1>5, <1>6 DEF GrammarInv

(* The brace of the file, and that of a section. *)
LEMMA FileOpenKeeps ==
  ASSUME CfgAssumption, GrammarInv, Brace("fileOpen", "section")
  PROVE  GrammarInv'
<1>1. CASE At("{")
  <2>1. parsing = "fileOpen" /\ Accept("section") /\ UNCHANGED file /\ file.sections = << >>
    BY <1>1 DEF Brace, GrammarInv
  <2>2. TokensOf("section", file) = TokensOf("fileOpen", file) \o Mark("{")
    BY <2>1 DEF TokensOf, Before, FileHead
  <2>3. "{" \in Kinds \ {"name", "string", "number"} /\ "section" \in Calls /\ "fileOpen" \in Calls
        /\ "section" \notin InSection
    BY DEF Kinds, Calls, InSection, InEntry
  <2>4. "section" \notin InEntry
    BY DEF InEntry
  <2> QED BY <1>1, <2>1, <2>2, <2>3, <2>4, MarkKeeps
<1>2. CASE ~ At("{")
  BY <1>2, StoppedKeeps DEF Brace, Stop, GrammarInv
<1> QED BY <1>1, <1>2

LEMMA SectionOpenKeeps ==
  ASSUME CfgAssumption, GrammarInv, Brace("sectionOpen", "entry")
  PROVE  GrammarInv'
<1>1. CASE At("{")
  <2>1. parsing = "sectionOpen" /\ Accept("entry") /\ UNCHANGED file
    BY <1>1 DEF Brace
  <2>2. file.sections # << >> /\ LastSection.entries = << >> /\ TokensOf("sectionOpen", file) \in Seq(Said)
    BY <2>1 DEF GrammarInv, InSection, Calls, Gives
  <2> DEFINE n == Named(file.name, Front(file.sections), LastSection)
  <2>3. TokensOf("sectionOpen", file) = n
    BY DEF TokensOf, LastSection
  <2>4. TokensOf("entry", file) = n \o Mark("{") \o EntryParts(<< >>)
    BY <2>2 DEF TokensOf, LastSection, InBody
  <2>5. EntryParts(<< >>) = << >> /\ Mark("{") \in Seq(Said)
    <3>1. << >> \in Seq(AnyEntry(Values)) /\ "" \in Words
      BY EmptySeq DEF CfgAssumption
    <3> QED BY <3>1, ZeroKnown, EntriesAppend, PartTyped DEF Said, Kinds
  <2>6. n \o Mark("{") \o << >> = n \o Mark("{")
    <3> HIDE DEF n
    <3>1. n \o Mark("{") \in Seq(Said)
      BY <2>2, <2>3, <2>5, ConcatProperties
    <3> QED BY <3>1, ConcatEmptySeq
  <2>7. TokensOf("entry", file) = TokensOf("sectionOpen", file) \o Mark("{")
    <3> HIDE DEF n
    <3> QED BY <2>3, <2>4, <2>5, <2>6
  <2>8. "{" \in Kinds \ {"name", "string", "number"} /\ "entry" \in Calls /\ "sectionOpen" \in Calls
        /\ "entry" \notin InEntry
    BY DEF Kinds, Calls, InSection, InEntry
  <2> QED BY <1>1, <2>1, <2>2, <2>7, <2>8, MarkKeeps
<1>2. CASE ~ At("{")
  BY <1>2, StoppedKeeps DEF Brace, Stop, GrammarInv
<1> QED BY <1>1, <1>2

(* A section begins with its type. *)
LEMMA SectionTypeKeeps ==
  ASSUME CfgAssumption, GrammarInv, SectionType
  PROVE  GrammarInv'
<1>1. CASE At("name")
  <2> DEFINE p == Asked({"name"}, Tok.v)
             s == [type |-> Tok.v, name |-> "", entries |-> << >>]
             f == [file EXCEPT !.sections = Append(@, s)]
  <2>1. parsing = "section" /\ parsing' = "sectionName" /\ pos' = pos + 1 /\ UNCHANGED input
        /\ file' = f /\ Tok.k \in Kinds
    BY <1>1 DEF SectionType, Accept, At, Kinds
  <2>2. Tok \in Token
    BY <2>1, TokenHere DEF GrammarInv
  <2>3. Tok.v \in Words /\ Fits(Tok, p) /\ p \in Said /\ Part({"name"}, Tok.v) = <<p>>
    BY <1>1, <2>2, NameFits, WordAsked
  <2> HIDE DEF p
  <2>4. s \in AnySection(Values) /\ s.type = Tok.v /\ s.entries = << >>
    BY <2>3, EmptySeq DEF AnySection, CfgAssumption
  <2> DEFINE P == file.sections
  <2>5. P \in Seq(AnySection(Values)) /\ file \in AnyFile
    BY DEF GrammarInv, AnyFile
  <2> HIDE DEF s
  <2>6. Append(P, s) \in Seq(AnySection(Values)) /\ Append(P, s) # << >>
    <3> HIDE DEF P
    <3> QED BY <2>4, <2>5, AppendProperties
  <2>7. f \in AnyFile /\ f.name = file.name /\ f.sections = Append(P, s)
    BY <2>5, <2>6 DEF AnyFile
  <2>8. Front(Append(P, s)) = P /\ Last(Append(P, s)) = s
    BY <2>5, FrontLast
  <2> HIDE DEF P, f
  <2>9. TokensOf(parsing', file') = TokensOf(parsing, file) \o <<p>>
    <3>1. TokensOf("section", file) = Before(file.name, P)
      BY DEF TokensOf, P
    <3>2. TokensOf("sectionName", f) = Before(file.name, P) \o <<p>>
      BY <2>3, <2>4, <2>7, <2>8 DEF TokensOf
    <3> QED BY <2>1, <3>1, <3>2
  <2>10. parsing \in Calls /\ parsing' \in Calls
    BY <2>1 DEF Calls, InSection
  <2>11. /\ text' \in Seq(Token) /\ pos' \in 1 .. Len(text') + 1
         /\ Gives(text', TokensOf(parsing', file'), pos' - 1)
    BY <2>1, <2>3, <2>9, <2>10, Accepted
  <2>12. LastSection' = s
    BY <2>1, <2>7, <2>8 DEF LastSection
  <2> QED BY <2>1, <2>4, <2>6, <2>7, <2>10, <2>11, <2>12 DEF GrammarInv, InEntry
<1>2. CASE ~ At("name")
  BY <1>2, StoppedKeeps DEF SectionType, Stop, GrammarInv
<1> QED BY <1>1, <1>2

(* ... and has a name. *)
LEMMA SectionNameKeeps ==
  ASSUME CfgAssumption, GrammarInv, SectionName
  PROVE  GrammarInv'
<1>1. CASE AtWord
  <2> DEFINE p == Asked({"name", "string"}, Tok.v)
             s == [LastSection EXCEPT !.name = Tok.v]
             f == WithSection(s)
             P == Front(file.sections)
  <2>1. parsing = "sectionName" /\ parsing' = "sectionOpen" /\ pos' = pos + 1 /\ UNCHANGED input
        /\ file' = f /\ Tok.k \in Kinds
    BY <1>1 DEF SectionName, Accept, AtWord, At, Kinds
  <2>2. Tok \in Token
    BY <2>1, TokenHere DEF GrammarInv
  <2>3. Tok.v \in Words /\ Fits(Tok, p) /\ p \in Said /\ Part({"name", "string"}, Tok.v) = <<p>>
    BY <1>1, <2>2, WordFits, WordAsked
  <2>4. file \in AnyFile /\ file.sections # << >> /\ LastSection.entries = << >>
    BY <2>1 DEF GrammarInv, InSection
  <2>5. LastSection \in AnySection(Values)
    BY <2>4, LastTyped
  <2>6. s \in AnySection(Values) /\ s.type = LastSection.type /\ s.name = Tok.v /\ s.entries = << >>
    BY <2>3, <2>4, <2>5 DEF AnySection
  <2> HIDE DEF p, s
  <2>7. f \in AnyFile /\ f.name = file.name /\ f.sections # << >>
        /\ Front(f.sections) = P /\ Last(f.sections) = s
    BY <2>4, <2>6, SectionChanged
  <2> HIDE DEF P, f
  <2>8. TokensOf(parsing', file') = TokensOf(parsing, file) \o <<p>>
    <3>1. TokensOf("sectionName", file) = Before(file.name, P) \o Part({"name"}, LastSection.type)
      BY DEF TokensOf, P, LastSection
    <3>2. TokensOf("sectionOpen", f) = Before(file.name, P) \o Part({"name"}, LastSection.type) \o <<p>>
      BY <2>3, <2>6, <2>7 DEF TokensOf, Named
    <3> QED BY <2>1, <3>1, <3>2
  <2>9. parsing \in Calls /\ parsing' \in Calls
    BY <2>1 DEF Calls, InSection
  <2>10. /\ text' \in Seq(Token) /\ pos' \in 1 .. Len(text') + 1
         /\ Gives(text', TokensOf(parsing', file'), pos' - 1)
    BY <2>1, <2>3, <2>8, <2>9, Accepted
  <2>11. LastSection' = s
    BY <2>1, <2>7 DEF LastSection
  <2> QED BY <2>1, <2>6, <2>7, <2>9, <2>10, <2>11 DEF GrammarInv, InEntry
<1>2. CASE ~ AtWord
  BY <1>2, StoppedKeeps DEF SectionName, Stop, GrammarInv
<1> QED BY <1>1, <1>2

-----------------------------------------------------------------------------
(* The entries of a section. *)

LEMMA InBodyOf ==
  ASSUME NEW name, NEW P, NEW s, NEW t, s.type = t.type, s.name = t.name
  PROVE  \A E : InBody(name, P, s, E) = InBody(name, P, t, E)
BY DEF InBody, Named

LEMMA EntryNameKeeps ==
  ASSUME CfgAssumption, GrammarInv, EntryName
  PROVE  GrammarInv'
<1>1. CASE At("name")
  <2> DEFINE p == Asked({"name"}, Tok.v)
             e == [name |-> Tok.v, type |-> "", string |-> "", number |-> 0]
             E == LastSection.entries
             s == [LastSection EXCEPT !.entries = Append(@, e)]
             f == WithSection(s)
             P == Front(file.sections)
  <2>1. parsing = "entry" /\ parsing' = "equals" /\ pos' = pos + 1 /\ UNCHANGED input
        /\ file' = f /\ Tok.k \in Kinds
    BY <1>1 DEF EntryName, Accept, At, Kinds, WithEntry
  <2>2. Tok \in Token
    BY <2>1, TokenHere DEF GrammarInv
  <2>3. Tok.v \in Words /\ Fits(Tok, p) /\ p \in Said /\ Part({"name"}, Tok.v) = <<p>>
    BY <1>1, <2>2, NameFits, WordAsked
  <2>4. file \in AnyFile /\ file.sections # << >>
    BY <2>1 DEF GrammarInv, InSection
  <2>5. LastSection \in AnySection(Values) /\ E \in Seq(AnyEntry(Values))
    BY <2>4, LastTyped
  <2>6. e \in AnyEntry(Values) /\ e.name = Tok.v
    BY <2>3, ZeroKnown DEF AnyEntry, EntryTypes, CfgAssumption
  <2> HIDE DEF p, e
  <2>7. Append(E, e) \in Seq(AnyEntry(Values)) /\ Append(E, e) # << >>
        /\ Front(Append(E, e)) = E /\ Last(Append(E, e)) = e
    <3> HIDE DEF E
    <3>1. Append(E, e) \in Seq(AnyEntry(Values)) /\ Append(E, e) # << >>
      BY <2>5, <2>6, AppendProperties
    <3>2. Front(Append(E, e)) = E /\ Last(Append(E, e)) = e
      BY <2>5, FrontLast
    <3> QED BY <3>1, <3>2
  <2>8. s \in AnySection(Values) /\ s.type = LastSection.type /\ s.name = LastSection.name
        /\ s.entries = Append(E, e)
    BY <2>5, <2>7 DEF AnySection
  <2> HIDE DEF s, E
  <2>9. f \in AnyFile /\ f.name = file.name /\ f.sections # << >>
        /\ Front(f.sections) = P /\ Last(f.sections) = s
    BY <2>4, <2>8, SectionChanged
  <2> HIDE DEF P, f
  <2>10. TokensOf(parsing', file') = TokensOf(parsing, file) \o <<p>>
    <3>1. TokensOf("entry", file) = InBody(file.name, P, LastSection, E)
      BY DEF TokensOf, P, E, LastSection
    <3>2. TokensOf("equals", f) = InBody(file.name, P, s, E) \o <<p>>
      BY <2>3, <2>6, <2>7, <2>8, <2>9 DEF TokensOf
    <3>3. InBody(file.name, P, s, E) = InBody(file.name, P, LastSection, E)
      BY <2>8, InBodyOf
    <3> QED BY <2>1, <3>1, <3>2, <3>3
  <2>11. parsing \in Calls /\ parsing' \in Calls
    BY <2>1 DEF Calls, InSection, InEntry
  <2>12. /\ text' \in Seq(Token) /\ pos' \in 1 .. Len(text') + 1
         /\ Gives(text', TokensOf(parsing', file'), pos' - 1)
    BY <2>1, <2>3, <2>10, <2>11, Accepted
  <2>13. LastSection' = s
    BY <2>1, <2>9 DEF LastSection
  <2> QED BY <2>1, <2>7, <2>8, <2>9, <2>11, <2>12, <2>13 DEF GrammarInv
<1>2. CASE ~ At("name")
  BY <1>2, StoppedKeeps DEF EntryName, Stop, GrammarInv
<1> QED BY <1>1, <1>2

LEMMA EqualsKeeps ==
  ASSUME CfgAssumption, GrammarInv, Equals
  PROVE  GrammarInv'
<1>1. CASE At("=")
  <2>1. parsing = "equals" /\ Accept("value") /\ UNCHANGED file
    BY <1>1 DEF Equals
  <2>2. file.sections # << >> /\ LastSection.entries # << >>
    BY <2>1 DEF GrammarInv, InSection, InEntry
  <2>3. TokensOf("value", file) = TokensOf("equals", file) \o Mark("=")
    BY DEF TokensOf
  <2>4. "=" \in Kinds \ {"name", "string", "number"} /\ "value" \in Calls /\ "equals" \in Calls
    BY DEF Kinds, Calls, InSection, InEntry
  <2> QED BY <1>1, <2>1, <2>2, <2>3, <2>4, MarkKeeps
<1>2. CASE ~ At("=")
  BY <1>2, StoppedKeeps DEF Equals, Stop, GrammarInv
<1> QED BY <1>1, <1>2

(* The last entry with a type and a value, and the file with that entry.    *)
Valued(type, string, number) ==
  [LastEntry EXCEPT !.type = type, !.string = string, !.number = number]
Entered(e) ==
  /\ file' \in AnyFile /\ file'.sections # << >> /\ LastSection'.entries # << >>
  /\ TokensOf("semicolon", file') = TokensOf("value", file) \o ValuePart(e)

LEMMA ValueSet ==
  ASSUME CfgAssumption, GrammarInv, parsing = "value",
         NEW type \in {"string", "int64"}, NEW string \in Words, NEW number \in Values,
         SetValue(type, string, number)
  PROVE  Entered(Valued(type, string, number))
<1> DEFINE e == Valued(type, string, number)
           E == Front(LastSection.entries)
           s == [LastSection EXCEPT !.entries = Append(Front(@), e)]
           f == WithSection(s)
           P == Front(file.sections)
<1>1. file' = f
  BY DEF SetValue, WithSection, LastEntry, Valued
<1>2. file \in AnyFile /\ file.sections # << >> /\ LastSection.entries # << >>
  BY DEF GrammarInv, InSection, InEntry
<1>3. LastSection \in AnySection(Values) /\ E \in Seq(AnyEntry(Values)) /\ LastEntry \in AnyEntry(Values)
  BY <1>2, LastTyped
<1>4. e \in AnyEntry(Values) /\ e.name = LastEntry.name
      /\ e.type = type /\ e.string = string /\ e.number = number
  BY <1>3 DEF AnyEntry, EntryTypes, Valued
<1> HIDE DEF e
<1>5. Append(E, e) \in Seq(AnyEntry(Values)) /\ Append(E, e) # << >>
      /\ Front(Append(E, e)) = E /\ Last(Append(E, e)) = e
  <2> HIDE DEF E
  <2>1. Append(E, e) \in Seq(AnyEntry(Values)) /\ Append(E, e) # << >>
    BY <1>3, <1>4, AppendProperties
  <2>2. Front(Append(E, e)) = E /\ Last(Append(E, e)) = e
    BY <1>3, FrontLast
  <2> QED BY <2>1, <2>2
<1>6. s \in AnySection(Values) /\ s.type = LastSection.type /\ s.name = LastSection.name
      /\ s.entries = Append(E, e)
  BY <1>3, <1>5 DEF AnySection
<1> HIDE DEF s
<1>7. f \in AnyFile /\ f.name = file.name /\ f.sections # << >>
      /\ Front(f.sections) = P /\ Last(f.sections) = s
  BY <1>2, <1>6, SectionChanged
<1> HIDE DEF P, f, E
<1>8. TokensOf("semicolon", file') = TokensOf("value", file) \o ValuePart(e)
  <2>1. TokensOf("value", file)
          = InBody(file.name, P, LastSection, E) \o Part({"name"}, LastEntry.name) \o Mark("=")
    BY DEF TokensOf, P, E, LastSection, LastEntry
  <2>2. TokensOf("semicolon", f)
          = InBody(file.name, P, s, E) \o Part({"name"}, LastEntry.name) \o Mark("=") \o ValuePart(e)
    BY <1>4, <1>5, <1>6, <1>7 DEF TokensOf
  <2>3. InBody(file.name, P, s, E) = InBody(file.name, P, LastSection, E)
    BY <1>6, InBodyOf
  <2> QED BY <1>1, <2>1, <2>2, <2>3
<1>9. LastSection' = s
  BY <1>1, <1>7 DEF LastSection
<1> QED BY <1>1, <1>5, <1>6, <1>7, <1>8, <1>9 DEF Entered, e

(* A value is accepted for the part p. *)
LEMMA ValueAccepted ==
  ASSUME GrammarInv, parsing = "value", Accept("semicolon"), Tok.k \in Kinds,
         NEW p \in Said, Fits(Tok, p),
         TokensOf("semicolon", file') = TokensOf("value", file) \o <<p>>,
         file' \in AnyFile, file'.sections # << >>, LastSection'.entries # << >>
  PROVE  GrammarInv'
<1>1. parsing' = "semicolon" /\ pos' = pos + 1 /\ UNCHANGED input
  BY DEF Accept
<1>2. parsing \in Calls /\ parsing' \in Calls
  BY <1>1 DEF Calls, InSection, InEntry
<1>3. /\ text' \in Seq(Token) /\ pos' \in 1 .. Len(text') + 1
      /\ Gives(text', TokensOf(parsing', file'), pos' - 1)
  BY <1>1, <1>2, Accepted
<1> QED BY <1>1, <1>2, <1>3 DEF GrammarInv

LEMMA ValueKeeps ==
  ASSUME CfgAssumption, GrammarInv, Value
  PROVE  GrammarInv'
<1>0. parsing = "value" /\ text \in Seq(Token) /\ pos \in 1 .. Len(text) + 1
  BY DEF Value, GrammarInv
<1>1. CASE AtWord /\ Accept("semicolon") /\ SetValue("string", Tok.v, 0)
  <2> DEFINE p == Asked({"name", "string"}, Tok.v)
             e == Valued("string", Tok.v, 0)
  <2>1. Tok.k \in Kinds
    BY <1>1 DEF AtWord, At, Kinds
  <2>2. Tok \in Token
    BY <1>0, <2>1, TokenHere
  <2>3. Tok.v \in Words /\ Fits(Tok, p) /\ p \in Said /\ Part({"name", "string"}, Tok.v) = <<p>>
    BY <1>1, <2>2, WordFits, WordAsked
  <2>4. LastEntry \in AnyEntry(Values)
    BY <1>0, LastTyped DEF GrammarInv, InSection, InEntry
  <2>5. e.type = "string" /\ e.string = Tok.v
    BY <2>4 DEF Valued, AnyEntry
  <2>6. /\ file' \in AnyFile /\ file'.sections # << >> /\ LastSection'.entries # << >>
        /\ TokensOf("semicolon", file') = TokensOf("value", file) \o ValuePart(e)
    <3> DEFINE v == Tok.v
    <3>1. v \in Words /\ SetValue("string", v, 0) /\ 0 \in Values
      BY <1>1, <2>3, ZeroKnown
    <3> HIDE DEF e, p, v
    <3>2. Entered(Valued("string", v, 0))
      BY <1>0, <3>1, ValueSet
    <3> QED BY <3>2 DEF Entered, e, v
  <2> HIDE DEF e, p
  <2>7. {"string", "name"} = {"name", "string"}
    OBVIOUS
  <2>8. ValuePart(e) = <<p>>
    BY <2>3, <2>5, <2>7 DEF ValuePart
  <2> QED BY <1>0, <1>1, <2>1, <2>3, <2>6, <2>8, ValueAccepted
<1>2. ASSUME NEW n \in Number, SetValue("int64", "", n.value),
             Accept(IF n.used = Len(Tok.chars) THEN "semicolon" ELSE "fatal")
      PROVE  GrammarInv'
  <2> DEFINE e == Valued("int64", "", n.value)
             p == [k |-> {"number"}, v |-> "", number |-> n.value]
  <2>1. At("number") /\ n = AcceptInt(Tok.chars) /\ Tok.k \in Kinds
    BY DEF Number, At, Kinds
  <2>2. Tok \in Token /\ pos \in 1 .. Len(text)
    BY <1>0, <2>1, TokenHere
  <2>3. Tok.chars \in Seq(NumberCharSet) /\ Tok.v = "" /\ "" \in Words
    BY <2>1, <2>2 DEF Token, At, CfgAssumption
  <2>4. n.value \in Values
    BY <2>1, <2>3 DEF Values
  <2>5. {"number"} \in PartKinds
    <3>1. "number" \in Kinds
      BY DEF Kinds
    <3> QED BY <3>1 DEF PartKinds
  <2>6. p \in Said /\ Fits(Tok, p)
    <3>1. p \in Said
      BY <2>3, <2>4, <2>5 DEF Said, PartOf
    <3>2. Fits(Tok, p)
      BY <2>1, <2>3 DEF Fits, At
    <3> QED BY <3>1, <3>2
  <2>7. LastEntry \in AnyEntry(Values)
    BY <1>0, LastTyped DEF GrammarInv, InSection, InEntry
  <2>8. e.type = "int64" /\ e.number = n.value
    BY <2>7 DEF Valued, AnyEntry
  <2>9. /\ file' \in AnyFile /\ file'.sections # << >> /\ LastSection'.entries # << >>
        /\ TokensOf("semicolon", file') = TokensOf("value", file) \o ValuePart(e)
    <3> DEFINE v == n.value
    <3>1. v \in Values /\ SetValue("int64", "", v) /\ "" \in Words
      BY <1>2, <2>3, <2>4
    <3> HIDE DEF e, p, v
    <3>2. Entered(Valued("int64", "", v))
      BY <1>0, <3>1, ValueSet
    <3> QED BY <3>2 DEF Entered, e, v
  <2> HIDE DEF e
  <2>10. ValuePart(e) = <<p>>
    BY <2>8 DEF ValuePart
  <2> HIDE DEF p
  <2>11. CASE n.used = Len(Tok.chars)
    <3>1. Accept("semicolon")
      BY <1>2, <2>11
    <3> QED BY <1>0, <2>1, <2>6, <2>9, <2>10, <3>1, ValueAccepted
  <2>12. CASE n.used # Len(Tok.chars)
    <3>1. Accept("fatal")
      BY <1>2, <2>12
    <3>2. parsing' = "fatal" /\ pos' = pos + 1 /\ UNCHANGED input
      BY <3>1 DEF Accept
    <3>3. pos' \in 1 .. Len(text) + 1
      BY <1>0, <2>2, <3>2, LenProperties
    <3> QED BY <2>9, <3>2, <3>3, StoppedKeeps
  <2> QED BY <2>11, <2>12
<1>3. CASE Stop("fatal")
  BY <1>3, StoppedKeeps DEF Stop, GrammarInv
<1> QED BY <1>1, <1>2, <1>3 DEF Value

-----------------------------------------------------------------------------
(* The end of an entry, of a section and of the file. *)

(* Concatenation under a name of its own, to be regrouped. *)
Cat(a, b) == a \o b

LEMMA CatTyped == \A T : \A a, b \in Seq(T) : Cat(a, b) \in Seq(T)
BY ConcatProperties DEF Cat

LEMMA CatAssoc == \A T : \A a, b, c \in Seq(T) : Cat(a, Cat(b, c)) = Cat(Cat(a, b), c)
BY ConcatAssociative DEF Cat

LEMMA RegroupedThree ==
  \A T : \A a, b, c, d \in Seq(T) :
    Cat(a, Cat(b, Cat(c, d))) = Cat(Cat(Cat(a, b), c), d)
BY CatTyped, CatAssoc

LEMMA RegroupedFour ==
  \A T : \A a, b, c, d, e \in Seq(T) :
    Cat(a, Cat(Cat(Cat(b, c), d), e)) = Cat(Cat(Cat(Cat(a, b), c), d), e)
BY CatTyped, CatAssoc

LEMMA RegroupedFive ==
  \A T : \A a, b, c, d, e, f \in Seq(T) :
    Cat(a, Cat(Cat(Cat(Cat(b, c), d), e), f)) = Cat(Cat(Cat(Cat(Cat(a, b), c), d), e), f)
<1> TAKE T
<1> TAKE a, b, c, d, e, f \in Seq(T)
<1>1. Cat(Cat(Cat(b, c), d), e) \in Seq(T)
  BY CatTyped
<1>2. Cat(a, Cat(Cat(Cat(Cat(b, c), d), e), f)) = Cat(Cat(a, Cat(Cat(Cat(b, c), d), e)), f)
  BY <1>1, CatAssoc
<1> QED BY <1>2, RegroupedFour

LEMMA BeforeTyped ==
  ASSUME CfgAssumption, NEW name \in Words, NEW P \in Seq(AnySection(Values))
  PROVE  FileHead(name) \in Seq(Said) /\ Upto(name, P) \in Seq(Said) /\ Before(name, P) \in Seq(Said)
<1> DEFINE T == Said
           h == FileHead(name)
           q == SectionParts(P)
           c == Mark(",")
<1>1. Part({"name"}, name) \in Seq(T) /\ Mark("{") \in Seq(T) /\ c \in Seq(T)
  BY ZeroKnown, PartTyped DEF Said, Kinds, CfgAssumption
<1>2. q \in Seq(T)
  BY ZeroKnown, SectionsTyped DEF Said, CfgAssumption
<1>3. h \in Seq(T)
  <2> HIDE DEF T
  <2> QED BY <1>1, ConcatProperties DEF FileHead
<1> HIDE DEF T, h, q, c
<1>4. h \o q \in Seq(T)
  BY <1>2, <1>3, ConcatProperties
<1>5. (h \o q) \o c \in Seq(T)
  BY <1>1, <1>4, ConcatProperties
<1> QED BY <1>3, <1>4, <1>5 DEF Upto, Before, T, h, q, c

LEMMA UptoAppend ==
  ASSUME CfgAssumption, NEW name \in Words, NEW P \in Seq(AnySection(Values)),
         NEW s \in AnySection(Values)
  PROVE  Upto(name, Append(P, s)) = Before(name, P) \o RenderSection(s)
<1> DEFINE T == Said
           h == FileHead(name)
           q == SectionParts(P)
           c == Mark(",")
           x == RenderSection(s)
<1>1. h \in Seq(T) /\ c \in Seq(T)
  BY BeforeTyped, ZeroKnown, PartTyped DEF Said, Kinds, CfgAssumption
<1>2. q \in Seq(T) /\ x \in Seq(T)
  BY ZeroKnown, SectionsTyped, SectionTyped DEF Said, CfgAssumption
<1>3. SectionParts(Append(P, s)) = IF P = << >> THEN x ELSE q \o (c \o x)
  BY ZeroKnown, SectionsAppend DEF CfgAssumption
<1>4. Before(name, P) = IF P = << >> THEN h ELSE (h \o q) \o c
  BY DEF Before, Upto
<1>5. Upto(name, Append(P, s)) = h \o SectionParts(Append(P, s))
  BY DEF Upto
<1> HIDE DEF T, h, q, c, x
<1>6. Cat(h, Cat(q, Cat(c, x))) = Cat(Cat(Cat(h, q), c), x)
  BY ONLY <1>1, <1>2, RegroupedThree
<1>7. h \o (q \o (c \o x)) = ((h \o q) \o c) \o x
  BY ONLY <1>6 DEF Cat
<1> QED BY <1>3, <1>4, <1>5, <1>7 DEF x

LEMMA NamedTyped ==
  ASSUME CfgAssumption, NEW name \in Words, NEW P \in Seq(AnySection(Values)),
         NEW s \in AnySection(Values)
  PROVE  Named(name, P, s) \o Mark("{") \in Seq(Said)
<1> DEFINE T == Said
           b == Before(name, P)
           t == Part({"name"}, s.type)
           n == Part({"name", "string"}, s.name)
           o == Mark("{")
<1>1. b \in Seq(T)
  BY BeforeTyped
<1>2. s.type \in Words /\ s.name \in Words
  BY DEF AnySection
<1>3. t \in Seq(T) /\ n \in Seq(T) /\ o \in Seq(T)
  BY <1>2, ZeroKnown, PartTyped DEF Said, Kinds, CfgAssumption
<1> HIDE DEF T, b, t, n, o
<1>4. b \o t \in Seq(T)
  BY <1>1, <1>3, ConcatProperties
<1>5. (b \o t) \o n \in Seq(T)
  BY <1>3, <1>4, ConcatProperties
<1>6. ((b \o t) \o n) \o o \in Seq(T)
  BY <1>3, <1>5, ConcatProperties
<1> QED BY <1>6 DEF Named, T, b, t, n, o

(* With its last brace a section is one of those before the parser. *)
LEMMA BodyEnds ==
  ASSUME CfgAssumption, NEW name \in Words, NEW P \in Seq(AnySection(Values)),
         NEW s \in AnySection(Values)
  PROVE  InBody(name, P, s, s.entries) \o Mark("}") = Before(name, P) \o RenderSection(s)
<1> DEFINE T == Said
           b == Before(name, P)
           t == Part({"name"}, s.type)
           n == Part({"name", "string"}, s.name)
           o == Mark("{")
           d == EntryParts(s.entries)
           c == Mark("}")
<1>1. b \in Seq(T)
  BY BeforeTyped
<1>2. s.type \in Words /\ s.name \in Words /\ s.entries \in Seq(AnyEntry(Values))
  BY DEF AnySection
<1>3. t \in Seq(T) /\ n \in Seq(T) /\ o \in Seq(T) /\ c \in Seq(T)
  BY <1>2, ZeroKnown, PartTyped DEF Said, Kinds, CfgAssumption
<1>4. d \in Seq(T)
  BY <1>2, ZeroKnown, EntriesAppend DEF Said, CfgAssumption
<1>5. RenderSection(s) = (((t \o n) \o o) \o d) \o c
  BY DEF RenderSection, EntryParts
<1>6. InBody(name, P, s, s.entries) = (((b \o t) \o n) \o o) \o d
  BY DEF InBody, Named
<1> HIDE DEF T, b, t, n, o, d, c
<1>7. Cat(b, Cat(Cat(Cat(Cat(t, n), o), d), c)) = Cat(Cat(Cat(Cat(Cat(b, t), n), o), d), c)
  BY ONLY <1>1, <1>3, <1>4, RegroupedFive
<1>8. b \o ((((t \o n) \o o) \o d) \o c) = ((((b \o t) \o n) \o o) \o d) \o c
  BY ONLY <1>7 DEF Cat
<1> QED BY <1>5, <1>6, <1>8 DEF b, c

(* With its semicolon an entry is one of those before the parser. *)
LEMMA EntryEnds ==
  ASSUME CfgAssumption, NEW name \in Words, NEW P \in Seq(AnySection(Values)),
         NEW s \in AnySection(Values), NEW E \in Seq(AnyEntry(Values)), NEW e \in AnyEntry(Values)
  PROVE  InBody(name, P, s, E) \o Part({"name"}, e.name) \o Mark("=") \o ValuePart(e) \o Mark(";")
           = InBody(name, P, s, Append(E, e))
<1> DEFINE T == Said
           b == Named(name, P, s) \o Mark("{")
           d == EntryParts(E)
           n == Part({"name"}, e.name)
           q == Mark("=")
           v == ValuePart(e)
           c == Mark(";")
           x == RenderEntry(e)
<1>1. b \in Seq(T)
  BY NamedTyped
<1>2. e.name \in Words
  BY DEF AnyEntry
<1>3. n \in Seq(T) /\ q \in Seq(T) /\ c \in Seq(T)
  BY <1>2, ZeroKnown, PartTyped DEF Said, Kinds, CfgAssumption
<1>4. v \in Seq(T) /\ x = ((n \o q) \o v) \o c /\ x \in Seq(T)
  BY ZeroKnown, EntryTyped DEF Said, CfgAssumption
<1>5. d \in Seq(T) /\ EntryParts(Append(E, e)) = d \o x
  BY ZeroKnown, EntriesAppend DEF Said, CfgAssumption
<1>6. InBody(name, P, s, Append(E, e)) = b \o (d \o x) /\ InBody(name, P, s, E) = b \o d
  BY <1>5 DEF InBody
<1> HIDE DEF T, b, d, n, q, v, c, x
<1>7. v \in Seq(T) /\ x \in Seq(T) /\ d \in Seq(T)
  BY <1>4, <1>5
<1>8. Cat(b, Cat(d, x)) = Cat(Cat(b, d), x)
  BY ONLY <1>1, <1>7, CatAssoc
<1>9. b \o (d \o x) = (b \o d) \o x
  BY ONLY <1>8 DEF Cat
<1> DEFINE y == b \o d
<1>10. y \in Seq(T)
  BY <1>1, <1>7, ConcatProperties
<1> HIDE DEF y
<1>11. Cat(y, Cat(Cat(Cat(n, q), v), c)) = Cat(Cat(Cat(Cat(y, n), q), v), c)
  BY ONLY <1>3, <1>7, <1>10, RegroupedFour
<1>12. y \o (((n \o q) \o v) \o c) = (((y \o n) \o q) \o v) \o c
  BY ONLY <1>11 DEF Cat
<1>13. b \o (d \o x) = (((y \o n) \o q) \o v) \o c
  BY <1>4, <1>9, <1>12 DEF y
<1> QED BY <1>6, <1>13 DEF y, n, q, v, c

LEMMA SemicolonKeeps ==
  ASSUME CfgAssumption, GrammarInv, Semicolon
  PROVE  GrammarInv'
<1>1. CASE At(";")
  <2> DEFINE E == Front(LastSection.entries)
             e == LastEntry
             P == Front(file.sections)
             s == LastSection
  <2>1. parsing = "semicolon" /\ Accept("entryOrEnd") /\ UNCHANGED file
    BY <1>1 DEF Semicolon
  <2>2. file \in AnyFile /\ file.sections # << >> /\ LastSection.entries # << >>
    BY <2>1 DEF GrammarInv, InSection, InEntry
  <2>3. /\ P \in Seq(AnySection(Values)) /\ s \in AnySection(Values) /\ file.name \in Words
        /\ E \in Seq(AnyEntry(Values)) /\ e \in AnyEntry(Values) /\ s.entries = Append(E, e)
    BY <2>2, LastTyped DEF AnyFile
  <2>4. TokensOf("semicolon", file)
          = InBody(file.name, P, s, E) \o Part({"name"}, e.name) \o Mark("=") \o ValuePart(e)
    BY DEF TokensOf, LastSection, LastEntry
  <2>5. TokensOf("entryOrEnd", file) = InBody(file.name, P, s, s.entries)
    BY DEF TokensOf, LastSection
  <2> HIDE DEF E, e, P, s
  <2>6. TokensOf("entryOrEnd", file) = TokensOf("semicolon", file) \o Mark(";")
    BY <2>3, <2>4, <2>5, EntryEnds
  <2>7. ";" \in Kinds \ {"name", "string", "number"} /\ "entryOrEnd" \in Calls /\ "semicolon" \in Calls
        /\ "entryOrEnd" \notin InEntry
    BY DEF Kinds, Calls, InSection, InEntry
  <2> QED BY <1>1, <2>1, <2>2, <2>6, <2>7, MarkKeeps
<1>2. CASE ~ At(";")
  BY <1>2, StoppedKeeps DEF Semicolon, Stop, GrammarInv
<1> QED BY <1>1, <1>2

LEMMA EntryOrEndKeeps ==
  ASSUME CfgAssumption, GrammarInv, EntryOrEnd
  PROVE  GrammarInv'
<1>1. CASE At("}")
  <2> DEFINE P == Front(file.sections)
             s == LastSection
  <2>1. parsing = "entryOrEnd" /\ Accept("sectionEnd") /\ UNCHANGED file
    BY <1>1 DEF EntryOrEnd
  <2>2. file \in AnyFile /\ file.sections # << >>
    BY <2>1 DEF GrammarInv, InSection
  <2>3. /\ P \in Seq(AnySection(Values)) /\ s \in AnySection(Values) /\ file.name \in Words
        /\ file.sections = Append(P, s)
    BY <2>2, LastTyped DEF AnyFile
  <2>4. TokensOf("entryOrEnd", file) = InBody(file.name, P, s, s.entries)
    BY DEF TokensOf, LastSection
  <2>5. TokensOf("sectionEnd", file) = Upto(file.name, file.sections)
    BY DEF TokensOf
  <2> HIDE DEF P, s
  <2>6. Upto(file.name, Append(P, s)) = Before(file.name, P) \o RenderSection(s)
    BY <2>3, UptoAppend
  <2>7. InBody(file.name, P, s, s.entries) \o Mark("}") = Before(file.name, P) \o RenderSection(s)
    BY <2>3, BodyEnds
  <2>8. TokensOf("sectionEnd", file) = TokensOf("entryOrEnd", file) \o Mark("}")
    BY <2>3, <2>4, <2>5, <2>6, <2>7
  <2>9. "}" \in Kinds \ {"name", "string", "number"} /\ "sectionEnd" \in Calls /\ "entryOrEnd" \in Calls
        /\ "sectionEnd" \notin InEntry
    BY DEF Kinds, Calls, InSection, InEntry
  <2> QED BY <1>1, <2>1, <2>2, <2>8, <2>9, MarkKeeps
<1>2. CASE Stop("fatal")
  BY <1>2, StoppedKeeps DEF Stop, GrammarInv
<1>3. CASE parsing = "entryOrEnd" /\ Stop("entry")
  <2>1. parsing' = "entry" /\ text' = text /\ pos' = pos /\ file' = file
    BY <1>3 DEF Stop, input
  <2>2. TokensOf("entry", file) = TokensOf("entryOrEnd", file)
    BY DEF TokensOf
  <2>3. "entry" \in Calls /\ "entry" \in InSection /\ "entry" \notin InEntry
        /\ "entryOrEnd" \in Calls /\ "entryOrEnd" \in InSection
    BY DEF Calls, InSection, InEntry
  <2>4. /\ text \in Seq(Token) /\ pos \in 1 .. Len(text) + 1 /\ file \in AnyFile
        /\ file.sections # << >> /\ Gives(text, TokensOf("entry", file), pos - 1)
    BY <1>3, <2>2, <2>3 DEF GrammarInv
  <2> QED BY <2>1, <2>3, <2>4 DEF GrammarInv
<1> QED BY <1>1, <1>2, <1>3 DEF EntryOrEnd

LEMMA SectionEndKeeps ==
  ASSUME CfgAssumption, GrammarInv, SectionEnd
  PROVE  GrammarInv'
<1>0. parsing = "sectionEnd" /\ file.sections # << >>
  BY DEF SectionEnd, GrammarInv
<1>1. CASE At("}")
  <2>1. Accept("done") /\ UNCHANGED file
    BY <1>1 DEF SectionEnd
  <2>2. TokensOf("done", file) = TokensOf("sectionEnd", file) \o Mark("}")
    BY DEF TokensOf
  <2>3. "}" \in Kinds \ {"name", "string", "number"} /\ "done" \in Calls /\ "sectionEnd" \in Calls
        /\ "done" \notin InEntry
    BY DEF Kinds, Calls, InSection, InEntry
  <2> QED BY <1>0, <1>1, <2>1, <2>2, <2>3, MarkKeeps
<1>2. CASE At(",") /\ Accept("section") /\ UNCHANGED file
  <2>1. TokensOf("section", file) = TokensOf("sectionEnd", file) \o Mark(",")
    BY <1>0 DEF TokensOf, Before
  <2>2. "," \in Kinds \ {"name", "string", "number"} /\ "section" \in Calls /\ "sectionEnd" \in Calls
        /\ "section" \notin InEntry /\ "section" \notin InSection
    BY DEF Kinds, Calls, InSection, InEntry
  <2> QED BY <1>0, <1>2, <2>1, <2>2, MarkKeeps
<1>3. CASE Stop("fatal")
  BY <1>3, StoppedKeeps DEF Stop, GrammarInv
<1> QED BY <1>1, <1>2, <1>3 DEF SectionEnd

-----------------------------------------------------------------------------
(* The texts that can be parsed are sequences of tokens. *)

LEMMA SourceTyped ==
  ASSUME CfgAssumption, NEW f \in Files
  PROVE  Render(f) \in Seq(PartOf(Written))
<1> DEFINE W == Written
           T == PartOf(W)
           n == Part({"name"}, f.name)
           o == Mark("{")
           d == SectionParts(f.sections)
           c == Mark("}")
<1>1. f \in FileOf(W) /\ "" \in Words
  BY DEF CfgAssumption
<1>2. Zero \in W
  <2>1. <<0>> \in Seq(0 .. 15)
    <3>1. 0 \in 0 .. 15
      OBVIOUS
    <3> QED BY <3>1, SeqOfOne
  <2> QED BY <2>1 DEF Zero, Written
<1> HIDE DEF W
<1>3. SectionOf(W) \subseteq AnySection(W)
  <2>1. EntryOf(W) \subseteq AnyEntry(W)
    BY DEF EntryOf, AnyEntry, EntryTypes
  <2>2. Seq(EntryOf(W)) \subseteq Seq(AnyEntry(W))
    BY <2>1, SeqMonotonic
  <2> QED BY <2>2 DEF SectionOf, AnySection
<1>4. f.name \in Words /\ f.sections \in Seq(AnySection(W))
  <2>1. f.name \in Words /\ f.sections \in Seq(SectionOf(W))
    BY <1>1 DEF FileOf
  <2> QED BY <1>3, <2>1, SeqMonotonic
<1>5. n \in Seq(T) /\ o \in Seq(T) /\ c \in Seq(T)
  BY <1>1, <1>2, <1>4, PartTyped DEF Kinds
<1>6. d \in Seq(T)
  BY <1>1, <1>2, <1>4, SectionsTyped
<1>7. Render(f) = ((n \o o) \o d) \o c
  BY DEF Render, SectionParts
<1> HIDE DEF T, n, o, d, c
<1>8. n \o o \in Seq(T)
  BY <1>5, ConcatProperties
<1>9. (n \o o) \o d \in Seq(T)
  BY <1>6, <1>8, ConcatProperties
<1>10. ((n \o o) \o d) \o c \in Seq(T)
  BY <1>5, <1>9, ConcatProperties
<1> QED BY <1>7, <1>10 DEF T, W

LEMMA SpellingTyped ==
  ASSUME NEW n \in Written
  PROVE  SpellNumber(n) \in Seq(NumberCharSet)
<1> DEFINE a == IF n.neg THEN <<"-">> ELSE << >>
           b == CASE n.radix = 16 -> <<"0", "x">> [] n.radix = 8 -> <<"0">> [] OTHER -> << >>
           c == [i \in DOMAIN n.digits |-> NumberChars[n.digits[i] + 1]]
<1>1. "-" \in NumberCharSet /\ "x" \in NumberCharSet /\ \A i \in 1 .. 16 : NumberChars[i] \in NumberCharSet
  BY DEF NumberCharSet
<1>2. "0" \in NumberCharSet
  <2>1. NumberChars[1] = "0" /\ 1 \in 1 .. 16
    BY DEF NumberChars
  <2> QED BY <1>1, <2>1
<1>3. a \in Seq(NumberCharSet)
  BY <1>1, SeqOfOne, EmptySeq
<1>4. b \in Seq(NumberCharSet)
  <2>1. <<"0", "x">> \in Seq(NumberCharSet)
    BY <1>1, <1>2
  <2> QED BY <1>2, <2>1, SeqOfOne, EmptySeq
<1>5. c \in Seq(NumberCharSet)
  <2>1. n.digits \in Seq(0 .. 15)
    BY DEF Written
  <2> DEFINE s == n.digits
             k == Len(s)
  <2>2. k \in Nat /\ DOMAIN s = 1 .. k /\ \A i \in 1 .. k : s[i] \in 0 .. 15
    BY <2>1, LenProperties, ElementOfSeq
  <2>3. \A i \in 1 .. k : s[i] + 1 \in 1 .. 16
    <3> HIDE DEF k, s
    <3> QED BY ONLY <2>2
  <2>4. c \in [1 .. k -> NumberCharSet]
    <3> HIDE DEF k, s
    <3> QED BY <1>1, <2>2, <2>3 DEF s
  <2> HIDE DEF c, k
  <2> QED BY <2>2, <2>4
<1> HIDE DEF a, b, c
<1>6. a \o b \in Seq(NumberCharSet)
  BY <1>3, <1>4, ConcatProperties
<1>7. (a \o b) \o c \in Seq(NumberCharSet)
  BY <1>5, <1>6, ConcatProperties
<1> QED BY <1>7 DEF SpellNumber, a, b, c

LEMMA TextTyped ==
  ASSUME NEW r \in Seq(PartOf(Written)), NEW quotes \in {"name", "string"}
  PROVE  TextOf(r, quotes) \in Seq(Token)
<1> DEFINE n == Len(r)
           t == TextOf(r, quotes)
<1>1. n \in Nat /\ DOMAIN r = 1 .. n /\ \A i \in 1 .. n : r[i] \in PartOf(Written)
  BY LenProperties, ElementOfSeq
<1>2. ASSUME NEW p \in PartOf(Written)
      PROVE  [k |-> IF Cardinality(p.k) = 1 THEN CHOOSE k \in p.k : TRUE ELSE quotes,
              v |-> p.v,
              chars |-> IF p.k = {"number"} THEN SpellNumber(p.number) ELSE << >>] \in Token
  <2> DEFINE k == IF Cardinality(p.k) = 1 THEN CHOOSE k \in p.k : TRUE ELSE quotes
             c == IF p.k = {"number"} THEN SpellNumber(p.number) ELSE << >>
  <2>1. p.k \in PartKinds /\ p.v \in Words /\ p.number \in Written
        /\ (p.k \cap {"name", "string"} = {} => p.v = "")
    BY DEF PartOf
  <2>2. c \in Seq(NumberCharSet)
    BY <2>1, SpellingTyped, EmptySeq
  <2>3. k \in Kinds /\ (k \notin {"name", "string"} => p.v = "")
    <3>1. CASE p.k = {"name", "string"}
      <4>1. k \in {"name", "string"}
        BY <3>1
      <4> QED BY <4>1 DEF Kinds
    <3>2. ASSUME NEW x \in Kinds, p.k = {x} PROVE k \in Kinds /\ (k \notin {"name", "string"} => p.v = "")
      <4>1. Cardinality({x}) = 1
        BY FS_Singleton
      <4>2. k = x
        BY <3>2, <4>1
      <4>3. x \notin {"name", "string"} => p.k \cap {"name", "string"} = {}
        BY <3>2
      <4> QED BY <2>1, <4>2, <4>3
    <3> QED BY <2>1, <3>1, <3>2 DEF PartKinds
  <2> HIDE DEF k, c
  <2>4. [k |-> k, v |-> p.v, chars |-> c] \in Token
    BY <2>1, <2>2, <2>3 DEF Token
  <2> QED BY <2>4 DEF k, c
<1>3. t \in [1 .. n -> Token]
  BY <1>1, <1>2 DEF TextOf
<1> HIDE DEF n, t
<1>4. t \in Seq(Token)
  BY <1>1, <1>3
<1> QED BY <1>4 DEF t

LEMMA EditTyped ==
  ASSUME CfgAssumption, NEW t \in Seq(Token), NEW e \in Edits(t)
  PROVE  e.text \in Seq(Token)
<1> DEFINE n == Len(t)
<1>1. n \in Nat /\ DOMAIN t = 1 .. n /\ \A i \in 1 .. n : t[i] \in Token
  BY LenProperties, ElementOfSeq
<1>2. ASSUME NEW i \in 1 .. n
      PROVE  /\ SubSeq(t, 1, i - 1) \in Seq(Token) /\ SubSeq(t, i + 1, n) \in Seq(Token)
             /\ SubSeq(t, i, n) \in Seq(Token)
  <2>1. \A a \in 1 .. n + 1, b \in 0 .. n : \A j \in a .. b : t[j] \in Token
    BY <1>1
  <2>2. \A a \in 1 .. n + 1, b \in 0 .. n : SubSeq(t, a, b) \in Seq(Token)
    <3> TAKE a \in 1 .. n + 1, b \in 0 .. n
    <3>1. a \in Int /\ b \in Int /\ \A j \in a .. b : t[j] \in Token
      BY <1>1, <2>1
    <3> QED BY <3>1, SubSeqProperties
  <2>3. 1 \in 1 .. n + 1 /\ i + 1 \in 1 .. n + 1 /\ i \in 1 .. n + 1 /\ i - 1 \in 0 .. n /\ n \in 0 .. n
    BY <1>1
  <2> HIDE DEF n
  <2> QED BY <2>2, <2>3
<1>3. CASE \E i \in DOMAIN t : e = [name |-> "lost", text |-> RemoveAt(t, i)]
  <2>1. PICK i \in 1 .. n : e = [name |-> "lost", text |-> RemoveAt(t, i)]
    BY <1>1, <1>3
  <2> DEFINE a == SubSeq(t, 1, i - 1)
             b == SubSeq(t, i + 1, n)
  <2>2. a \in Seq(Token) /\ b \in Seq(Token)
    BY <1>2
  <2>3. e.text = a \o b
    BY <2>1 DEF RemoveAt
  <2> HIDE DEF a, b
  <2> QED BY <2>2, <2>3, ConcatProperties
<1>4. CASE \E i \in DOMAIN t : e = [name |-> "doubled", text |-> InsertAt(t, i, t[i])]
  <2>1. PICK i \in 1 .. n : e = [name |-> "doubled", text |-> InsertAt(t, i, t[i])]
    BY <1>1, <1>4
  <2> DEFINE a == SubSeq(t, 1, i - 1)
             b == SubSeq(t, i, n)
             c == <<t[i]>>
  <2>2. a \in Seq(Token) /\ b \in Seq(Token) /\ c \in Seq(Token)
    BY <1>1, <1>2, SeqOfOne
  <2>3. e.text = (a \o c) \o b
    BY <2>1 DEF InsertAt
  <2> HIDE DEF a, b, c
  <2>4. a \o c \in Seq(Token)
    BY <2>2, ConcatProperties
  <2> QED BY <2>2, <2>3, <2>4, ConcatProperties
<1>5. CASE \E i \in DOMAIN t : e = [name |-> "cut", text |-> SubSeq(t, 1, i - 1)]
  BY <1>1, <1>2, <1>5
<1>6. CASE \E i \in DOMAIN t, x \in Spare : e = [name |-> "mistaken", text |-> [t EXCEPT ![i] = x]]
  <2>1. PICK i \in 1 .. n, x \in Spare : e = [name |-> "mistaken", text |-> [t EXCEPT ![i] = x]]
    BY <1>1, <1>6
  <2>2. x \in Token
    BY DEF CfgAssumption
  <2> DEFINE m == [t EXCEPT ![i] = x]
  <2>3. m \in Seq(Token)
    BY <1>1, <2>2, ExceptSeq
  <2>4. e.text = m
    BY <2>1
  <2> QED BY <2>3, <2>4
<1> QED BY <1>3, <1>4, <1>5, <1>6 DEF Edits

LEMMA InitGrammar ==
  ASSUME CfgAssumption, CfgInit
  PROVE  GrammarInv
<1>1. Render(source) \in Seq(PartOf(Written))
  BY SourceTyped DEF CfgInit
<1>2. TextOf(Render(source), "name") \in Seq(Token) /\ TextOf(Render(source), "string") \in Seq(Token)
  BY <1>1, TextTyped
<1>3. text \in Seq(Token)
  <2>1. CASE \E quotes \in {"name", "string"} : text = TextOf(Render(source), quotes)
    BY <1>2, <2>1
  <2>2. CASE \E e \in Edits(TextOf(Render(source), "name")) : edit = e.name /\ text = e.text
    BY <1>2, <2>2, EditTyped
  <2> QED BY <2>1, <2>2 DEF CfgInit
<1>4. pos = 1 /\ parsing = "file" /\ file = [name |-> "", sections |-> << >>]
  BY DEF CfgInit
<1>5. file \in AnyFile /\ file.sections = << >>
  BY <1>4, EmptySeq DEF AnyFile, CfgAssumption
<1>6. pos \in 1 .. Len(text) + 1 /\ pos - 1 = 0
  <2>1. Len(text) \in Nat
    BY <1>3, LenProperties
  <2>2. pos = 1
    BY <1>4
  <2> QED BY ONLY <2>1, <2>2
<1>7. Gives(text, TokensOf(parsing, file), pos - 1)
  <2>1. TokensOf(parsing, file) = << >>
    BY <1>4 DEF TokensOf
  <2>2. << >> \in Seq(Said) /\ Len(<< >>) = 0
    BY EmptySeq
  <2> QED BY <1>6, <2>1, <2>2 DEF Gives
<1> QED BY <1>3, <1>4, <1>5, <1>6, <1>7 DEF GrammarInv, Calls, InSection, InEntry

LEMMA NextGrammar ==
  ASSUME CfgAssumption, GrammarInv, [CfgNext]_cfgVars
  PROVE  GrammarInv'
<1>1. CASE FileName
  BY <1>1, FileNameKeeps
<1>2. CASE Brace("fileOpen", "section")
  BY <1>2, FileOpenKeeps
<1>3. CASE SectionType
  BY <1>3, SectionTypeKeeps
<1>4. CASE SectionName
  BY <1>4, SectionNameKeeps
<1>5. CASE Brace("sectionOpen", "entry")
  BY <1>5, SectionOpenKeeps
<1>6. CASE EntryName
  BY <1>6, EntryNameKeeps
<1>7. CASE Equals
  BY <1>7, EqualsKeeps
<1>8. CASE Value
  BY <1>8, ValueKeeps
<1>9. CASE Semicolon
  BY <1>9, SemicolonKeeps
<1>10. CASE EntryOrEnd
  BY <1>10, EntryOrEndKeeps
<1>11. CASE SectionEnd
  BY <1>11, SectionEndKeeps
<1>12. CASE UNCHANGED cfgVars
  BY <1>12 DEF cfgVars, GrammarInv, LastSection
<1> QED BY <1>1, <1>2, <1>3, <1>4, <1>5, <1>6, <1>7, <1>8, <1>9, <1>10, <1>11, <1>12 DEF CfgNext

LEMMA GrammarHolds ==
  ASSUME GrammarInv
  PROVE  OnlyTheGrammar
<1> SUFFICES ASSUME parsing = "done" PROVE OnlyTheGrammar
  BY DEF OnlyTheGrammar
<1> DEFINE r == Render(file)
<1>1. Gives(text, TokensOf("done", file), pos - 1)
  BY DEF GrammarInv, Calls
<1>2. TokensOf("done", file) = r
  BY DEF TokensOf, Upto, FileHead, SectionParts, Render
<1>3. r \in Seq(Said) /\ Len(r) = pos - 1 /\ \A i \in 1 .. pos - 1 : Fits(text[i], r[i])
  BY <1>1, <1>2 DEF Gives
<1> HIDE DEF r
<1>4. DOMAIN r = 1 .. pos - 1
  BY <1>3, LenProperties
<1>5. \A i \in DOMAIN r : /\ text[i].k \in r[i].k /\ text[i].v = r[i].v
                          /\ text[i].k = "number" => r[i].number = AcceptInt(text[i].chars).value
  BY <1>3, <1>4 DEF Fits
<1> QED BY <1>3, <1>5 DEF OnlyTheGrammar, r

(* OnlyTheGrammar: what accept_file builds is what the tokens consumed      *)
(* say, for every text that a file or one mistake in it can give.          *)
THEOREM ParsesOnlyTheGrammar ==
  ASSUME CfgAssumption
  PROVE  CfgSpec => []OnlyTheGrammar
<1>1. CfgInit => GrammarInv
  BY InitGrammar
<1>2. GrammarInv /\ [CfgNext]_cfgVars => GrammarInv'
  BY NextGrammar
<1>3. GrammarInv => OnlyTheGrammar
  BY GrammarHolds
<1> QED BY <1>1, <1>2, <1>3, PTL DEF CfgSpec

-----------------------------------------------------------------------------
(* Sequences that are read from the front. *)

Left(s, k) == SubSeq(s, k + 1, Len(s))

LEMMA LeftProps ==
  ASSUME NEW S, NEW s \in Seq(S), NEW k \in 0 .. Len(s)
  PROVE  /\ Left(s, k) \in Seq(S) /\ Len(Left(s, k)) = Len(s) - k
         /\ \A i \in 1 .. Len(s) - k : Left(s, k)[i] = s[k + i]
<1>1. Len(s) \in Nat /\ k \in Nat /\ k <= Len(s) /\ \A i \in k + 1 .. Len(s) : s[i] \in S
  BY LenProperties, ElementOfSeq
<1> DEFINE m == k + 1
           n == Len(s)
<1>2. m \in Int /\ n \in Int /\ \A i \in m .. n : s[i] \in S
  BY <1>1
<1> HIDE DEF m, n
<1>3. /\ SubSeq(s, m, n) \in Seq(S)
      /\ Len(SubSeq(s, m, n)) = IF m <= n THEN n - m + 1 ELSE 0
      /\ \A i \in 1 .. n - m + 1 : SubSeq(s, m, n)[i] = s[m + i - 1]
  BY <1>2, SubSeqProperties
<1>4. n - m + 1 = n - k /\ (IF m <= n THEN n - m + 1 ELSE 0) = n - k
      /\ \A i \in 1 .. n - k : m + i - 1 = k + i
  BY <1>1 DEF m, n
<1>5. /\ SubSeq(s, m, n) \in Seq(S) /\ Len(SubSeq(s, m, n)) = n - k
      /\ \A i \in 1 .. n - k : SubSeq(s, m, n)[i] = s[k + i]
  BY <1>3, <1>4
<1> QED BY <1>5 DEF Left, m, n

LEMMA LeftNothing ==
  ASSUME NEW S, NEW s \in Seq(S)
  PROVE  Left(s, 0) = s /\ Left(s, Len(s)) = << >>
<1>1. Len(s) \in Nat
  BY LenProperties
<1>2. Left(s, 0) = s
  BY <1>1, SubSeqFull DEF Left
<1>3. Left(s, Len(s)) = << >>
  <2> DEFINE n == Len(s)
  <2>1. n + 1 \in Int /\ n \in Int /\ n < n + 1
    BY <1>1
  <2> HIDE DEF n
  <2>2. SubSeq(s, n + 1, n) = << >>
    BY <2>1, SubSeqEmpty
  <2> QED BY <2>2 DEF Left, n
<1> QED BY <1>2, <1>3

LEMMA LeftLeft ==
  ASSUME NEW S, NEW s \in Seq(S), NEW j \in Nat, NEW k \in Nat, j + k <= Len(s)
  PROVE  Left(Left(s, j), k) = Left(s, j + k)
<1>1. Len(s) \in Nat /\ j \in 0 .. Len(s) /\ j + k \in 0 .. Len(s) /\ k \in 0 .. Len(s) - j
  BY LenProperties
<1> DEFINE t == Left(s, j)
           u == Left(t, k)
           v == Left(s, j + k)
<1>2. t \in Seq(S) /\ Len(t) = Len(s) - j /\ \A i \in 1 .. Len(s) - j : t[i] = s[j + i]
  BY <1>1, LeftProps
<1>3. u \in Seq(S) /\ Len(u) = Len(t) - k /\ \A i \in 1 .. Len(t) - k : u[i] = t[k + i]
  <2> HIDE DEF t
  <2>1. k \in 0 .. Len(t)
    BY <1>1, <1>2
  <2> QED BY <1>2, <2>1, LeftProps
<1>4. v \in Seq(S) /\ Len(v) = Len(s) - (j + k) /\ \A i \in 1 .. Len(s) - (j + k) : v[i] = s[(j + k) + i]
  BY <1>1, LeftProps
<1> HIDE DEF t, u, v
<1>5. Len(u) = Len(v)
  BY <1>1, <1>2, <1>3, <1>4
<1>6. ASSUME NEW i \in 1 .. Len(u) PROVE u[i] = v[i]
  <2>1. i \in 1 .. Len(t) - k /\ k + i \in 1 .. Len(s) - j /\ i \in 1 .. Len(s) - (j + k)
    BY <1>1, <1>2, <1>3
  <2>2. j + (k + i) = (j + k) + i
    BY <1>1, <2>1
  <2> QED BY <1>2, <1>3, <1>4, <2>1, <2>2
<1>7. u = v
  BY <1>3, <1>4, <1>5, <1>6, SeqEqual
<1> QED BY <1>7 DEF t, u, v

LEMMA LeftOne ==
  ASSUME NEW S, NEW s \in Seq(S), s # << >>
  PROVE  /\ Len(s) \in Nat \ {0} /\ Head(s) = s[1] /\ Head(s) \in S
         /\ Tail(s) = Left(s, 1) /\ s = <<Head(s)>> \o Tail(s) /\ Tail(s) \in Seq(S)
<1>1. Len(s) \in Nat \ {0}
  BY EmptySeq
<1>2. Head(s) \in S /\ Tail(s) \in Seq(S) /\ Tail(s) = SubSeq(s, 2, Len(s))
  BY HeadTailProperties, TailIsSubSeq
<1>3. Head(s) = s[1]
  OBVIOUS
<1>4. SubSeq(s, 1, Len(s)) = <<s[1]>> \o SubSeq(s, 1 + 1, Len(s))
  <2>1. 1 \in 1 .. Len(s) /\ Len(s) \in 1 .. Len(s)
    BY <1>1
  <2> QED BY <2>1, SubSeqRecursiveFirst
<1>5. SubSeq(s, 1, Len(s)) = s
  BY SubSeqFull
<1> QED BY <1>1, <1>2, <1>3, <1>4, <1>5 DEF Left

LEMMA Unread ==
  ASSUME NEW S, NEW c \in S, NEW t \in Seq(S)
  PROVE  /\ <<c>> \o t \in Seq(S) /\ <<c>> \o t # << >>
         /\ Head(<<c>> \o t) = c /\ Tail(<<c>> \o t) = t
<1> DEFINE s == <<c>> \o t
<1>1. <<c>> \in Seq(S) /\ Len(<<c>>) = 1 /\ <<c>>[1] = c
  OBVIOUS
<1>2. Len(t) \in Nat
  BY LenProperties
<1>3. /\ s \in Seq(S) /\ Len(s) = 1 + Len(t)
      /\ \A i \in 1 .. 1 + Len(t) : s[i] = IF i <= 1 THEN <<c>>[i] ELSE t[i - 1]
  <2> DEFINE o == <<c>>
  <2>1. o \in Seq(S) /\ Len(o) = 1
    BY <1>1
  <2> HIDE DEF o
  <2>2. /\ o \o t \in Seq(S) /\ Len(o \o t) = Len(o) + Len(t)
        /\ \A i \in 1 .. Len(o) + Len(t) : (o \o t)[i] = IF i <= Len(o) THEN o[i] ELSE t[i - Len(o)]
    BY <2>1, ConcatProperties
  <2>3. /\ o \o t \in Seq(S) /\ Len(o \o t) = 1 + Len(t)
        /\ \A i \in 1 .. 1 + Len(t) : (o \o t)[i] = IF i <= 1 THEN o[i] ELSE t[i - 1]
    BY <2>1, <2>2
  <2> QED BY <2>3 DEF o
<1>4. s[1] = c
  <2> HIDE DEF s
  <2> QED BY <1>1, <1>2, <1>3
<1> HIDE DEF s
<1>5. s # << >>
  BY <1>2, <1>3, EmptySeq
<1>6. Tail(s) \in Seq(S) /\ Len(Tail(s)) = Len(s) - 1
      /\ \A i \in 1 .. Len(Tail(s)) : Tail(s)[i] = s[i + 1]
  BY <1>3, <1>5, HeadTailProperties
<1>7. \A i \in 1 .. Len(t) : Tail(s)[i] = t[i]
  <2> TAKE i \in 1 .. Len(t)
  <2>1. i \in 1 .. Len(Tail(s)) /\ i + 1 \in 1 .. 1 + Len(t) /\ ~ (i + 1 <= 1) /\ (i + 1) - 1 = i
    BY <1>2, <1>3, <1>6
  <2> QED BY <1>3, <1>6, <2>1
<1>8. Tail(s) = t
  <2>1. Len(Tail(s)) = Len(t)
    BY <1>2, <1>3, <1>6
  <2> QED BY <1>6, <1>7, <2>1, SeqEqual
<1>9. Head(s) = c
  BY <1>4
<1> QED BY <1>3, <1>5, <1>8, <1>9 DEF s

(* What is flattened can be taken off from the front. *)
LEMMA FlatFirst ==
  ASSUME NEW S, NEW x \in Seq(S), NEW s \in Seq(Seq(S))
  PROVE  FlattenSeq(<<x>> \o s) = x \o FlattenSeq(s)
<1> DEFINE Holds(t) == FlattenSeq(<<x>> \o t) = x \o FlattenSeq(t)
           Odd == {n \in Nat : \E t \in Seq(Seq(S)) : Len(t) = n /\ ~ Holds(t)}
<1>1. SUFFICES ASSUME Odd # {} PROVE FALSE
  <2>1. Len(s) \in Nat
    BY LenProperties
  <2> QED BY <2>1
<1>2. PICK n \in Odd : \A m \in Odd : n <= m
  <2> HIDE DEF Odd
  <2> QED BY <1>1, Least, Odd \in SUBSET Nat DEF Odd
<1>3. PICK t \in Seq(Seq(S)) : Len(t) = n /\ ~ Holds(t)
  BY <1>2
<1> HIDE DEF Odd, Holds
<1>4. <<x>> \in Seq(Seq(S))
  OBVIOUS
<1>5. CASE t = << >>
  <2>1. <<x>> \o t = <<x>> /\ FlattenSeq(t) = << >> /\ x \o << >> = x
    BY <1>4, <1>5, ConcatEmptySeq DEF FlattenSeq
  <2>2. <<x>> = Append(t, x) /\ << >> \o x = x
    BY <1>5, ConcatEmptySeq
  <2>3. FlattenSeq(<<x>>) = x
    BY <2>1, <2>2, FlatAppend
  <2> QED BY <1>3, <2>1, <2>3 DEF Holds
<1>6. CASE t # << >>
  <2>1. PICK f, l : f \in Seq(Seq(S)) /\ l \in Seq(S) /\ t = Append(f, l)
    BY <1>6, SequenceEmptyOrAppend
  <2>2. Len(f) \in Nat /\ Len(f) < n
    <3>1. Len(t) = Len(f) + 1 /\ Len(f) \in Nat
      BY <2>1, AppendProperties, LenProperties
    <3> QED BY <1>3, <3>1
  <2>3. Holds(f)
    <3>1. n \in Nat
      BY <1>2 DEF Odd
    <3> QED BY <1>2, <2>1, <2>2, <3>1 DEF Odd
  <2>4. <<x>> \o t = Append(<<x>> \o f, l)
    <3>1. t = f \o <<l>> /\ <<l>> \in Seq(Seq(S))
      BY <2>1, AppendIsConcat
    <3>2. <<x>> \o (f \o <<l>>) = (<<x>> \o f) \o <<l>>
      BY <1>4, <2>1, <3>1, ConcatAssociative
    <3>3. <<x>> \o f \in Seq(Seq(S))
      BY <1>4, <2>1, ConcatProperties
    <3>4. Append(<<x>> \o f, l) = (<<x>> \o f) \o <<l>>
      <4> DEFINE a == <<x>> \o f
      <4> HIDE DEF a
      <4>1. a \in Seq(Seq(S))
        BY <3>3 DEF a
      <4>2. Append(a, l) = a \o <<l>>
        BY <2>1, <4>1, AppendIsConcat
      <4> QED BY <4>2 DEF a
    <3> QED BY <3>1, <3>2, <3>4
  <2>5. <<x>> \o f \in Seq(Seq(S))
    BY <1>4, <2>1, ConcatProperties
  <2>6. FlattenSeq(<<x>> \o t) = FlattenSeq(<<x>> \o f) \o l
    BY <2>1, <2>4, <2>5, FlatAppend
  <2>7. FlattenSeq(t) = FlattenSeq(f) \o l /\ FlattenSeq(f) \in Seq(S)
    BY <2>1, FlatAppend, FlatTyped
  <2>8. (x \o FlattenSeq(f)) \o l = x \o (FlattenSeq(f) \o l)
    <3>1. x \in Seq(S) /\ FlattenSeq(f) \in Seq(S) /\ l \in Seq(S)
      BY <2>1, <2>7
    <3>2. Cat(x, Cat(FlattenSeq(f), l)) = Cat(Cat(x, FlattenSeq(f)), l)
      BY <3>1, CatAssoc
    <3> QED BY <3>2 DEF Cat
  <2> QED BY <1>3, <2>3, <2>6, <2>7, <2>8 DEF Holds
<1> QED BY <1>5, <1>6

-----------------------------------------------------------------------------
(* The value of a number. *)

(* A function that is given step by step exists. *)
LEMMA StepsExist ==
  ASSUME NEW b \in Nat, NEW n \in Nat, NEW g \in [1 .. n -> [Nat -> Nat]]
  PROVE  \E f \in [0 .. n -> Nat] : f[0] = b /\ \A i \in 1 .. n : f[i] = g[i][f[i - 1]]
<1> DEFINE Upward(m, f) == /\ f \in [0 .. m -> Nat] /\ f[0] = b
                           /\ \A i \in 1 .. m : f[i] = g[i][f[i - 1]]
           Stuck == {m \in 0 .. n : ~ \E f : Upward(m, f)}
<1>1. Stuck = {}
  <2>1. SUFFICES ASSUME Stuck # {} PROVE FALSE
    OBVIOUS
  <2>2. PICK m \in Stuck : \A k \in Stuck : m <= k
    <3>1. Stuck \in SUBSET Nat
      OBVIOUS
    <3> HIDE DEF Stuck
    <3> QED BY <2>1, <3>1, Least
  <2>3. m \in 0 .. n /\ m \in Nat /\ ~ \E f : Upward(m, f)
    <3>1. m \in 0 .. n
      BY <2>2
    <3>2. m \in Nat
      BY <3>1
    <3> QED BY <2>2, <3>2
  <2>4. CASE m = 0
    <3> DEFINE f == [i \in 0 .. 0 |-> b]
    <3>1. Upward(0, f)
      OBVIOUS
    <3> QED BY <2>3, <2>4, <3>1
  <2>5. CASE m # 0
    <3>1. m - 1 \in 0 .. n /\ ~ (m <= m - 1) /\ m \in 1 .. n /\ m - 1 \in 0 .. m - 1
      BY <2>3, <2>5
    <3>2. \E f : Upward(m - 1, f)
      BY <2>2, <3>1
    <3> HIDE DEF Upward, Stuck
    <3>3. PICK f : Upward(m - 1, f)
      BY <3>2
    <3> DEFINE v == g[m][f[m - 1]]
               h == [i \in 0 .. m |-> IF i = m THEN v ELSE f[i]]
    <3>4. f[0] = b /\ (\A i \in 0 .. m - 1 : f[i] \in Nat) /\ \A i \in 1 .. m - 1 : f[i] = g[i][f[i - 1]]
      BY <3>3 DEF Upward
    <3>5. v \in Nat
      BY <3>1, <3>4
    <3> HIDE DEF v
    <3>6. h \in [0 .. m -> Nat] /\ h[m] = v /\ \A i \in 0 .. m - 1 : h[i] = f[i]
      <4>1. \A i \in 0 .. m : i # m => i \in 0 .. m - 1
        BY <2>3
      <4>2. m \in 0 .. m /\ \A i \in 0 .. m - 1 : i \in 0 .. m /\ i # m
        BY <2>3
      <4> QED BY <3>4, <3>5, <4>1, <4>2
    <3> HIDE DEF h
    <3>7. h[0] = b
      <4>1. 0 \in 0 .. m - 1
        BY <2>3, <2>5
      <4> QED BY <3>4, <3>6, <4>1
    <3>8. \A i \in 1 .. m : h[i] = g[i][h[i - 1]]
      <4> TAKE i \in 1 .. m
      <4>1. i - 1 \in 0 .. m - 1
        BY <2>3
      <4>2. h[i - 1] = f[i - 1]
        BY <3>6, <4>1
      <4>3. CASE i = m
        BY <3>6, <4>2, <4>3 DEF v
      <4>4. CASE i # m
        <5>1. i \in 1 .. m - 1 /\ i \in 0 .. m - 1
          BY <2>3, <4>4
        <5> QED BY <3>4, <3>6, <4>2, <5>1
      <4> QED BY <4>3, <4>4
    <3>9. Upward(m, h)
      BY <3>6, <3>7, <3>8 DEF Upward
    <3> QED BY <2>3, <3>9 DEF Upward
  <2> QED BY <2>4, <2>5
<1>2. n \in 0 .. n
  OBVIOUS
<1> QED BY <1>1, <1>2

LEMMA StepsTyped ==
  ASSUME NEW V, NEW n \in Nat, NEW f, f = [i \in 0 .. n |-> f[i]], f[0] \in V,
         \A i \in 1 .. n : f[i - 1] \in V => f[i] \in V
  PROVE  f \in [0 .. n -> V]
<1> DEFINE Odd == {i \in 0 .. n : f[i] \notin V}
<1>1. SUFFICES ASSUME Odd # {} PROVE FALSE
  OBVIOUS
<1>2. PICK j \in Odd : \A i \in Odd : j <= i
  <2>1. Odd \in SUBSET Nat
    OBVIOUS
  <2> HIDE DEF Odd
  <2> QED BY <1>1, <2>1, Least
<1>3. j # 0 /\ j \in 1 .. n /\ j - 1 \in 0 .. n /\ j - 1 \notin Odd
  BY <1>2
<1> QED BY <1>2, <1>3

(* The recursive functions of NumberMeans and of Accumulate. *)
WeightTo(n, radix, f) == f = [i \in 0 .. n |-> IF i = 0 THEN 1 ELSE radix * f[i - 1]]
SumTo(n, digits, w, f) == f = [i \in 0 .. n |-> IF i = 0 THEN 0 ELSE f[i - 1] + digits[i] * w[n - i]]
AccTo(n, chars, radix, f) ==
  f = [i \in 0 .. n |-> IF i = 0 THEN 0 ELSE Step(f[i - 1], MapDigit(chars[i]), radix)]

LEMMA Weighed ==
  ASSUME NEW n \in Nat, NEW radix \in Nat
  PROVE  \E f : WeightTo(n, radix, f) /\ f \in [0 .. n -> Nat]
<1> DEFINE g == [i \in 1 .. n |-> [x \in Nat |-> radix * x]]
<1>1. g \in [1 .. n -> [Nat -> Nat]] /\ 1 \in Nat
  OBVIOUS
<1>2. \A i \in 1 .. n, x \in Nat : g[i][x] = radix * x
  OBVIOUS
<1> HIDE DEF g
<1>3. PICK f \in [0 .. n -> Nat] : f[0] = 1 /\ \A i \in 1 .. n : f[i] = g[i][f[i - 1]]
  <2> DEFINE b == 1
  <2>1. g \in [1 .. n -> [Nat -> Nat]] /\ b \in Nat
    BY <1>1
  <2> HIDE DEF b
  <2>2. \E f \in [0 .. n -> Nat] : f[0] = b /\ \A i \in 1 .. n : f[i] = g[i][f[i - 1]]
    BY <2>1, StepsExist
  <2> QED BY <2>2 DEF b
<1>4. \A i \in 0 .. n : f[i] = IF i = 0 THEN 1 ELSE radix * f[i - 1]
  <2> TAKE i \in 0 .. n
  <2>1. i # 0 => i \in 1 .. n /\ f[i - 1] \in Nat
    OBVIOUS
  <2> QED BY <1>2, <1>3, <2>1
<1>5. WeightTo(n, radix, f)
  BY <1>4 DEF WeightTo
<1> QED BY <1>5

LEMMA Summed ==
  ASSUME NEW n \in Nat, NEW digits \in [1 .. n -> Nat], NEW w \in [0 .. n -> Nat]
  PROVE  \E f : SumTo(n, digits, w, f) /\ f \in [0 .. n -> Nat]
<1> DEFINE g == [i \in 1 .. n |-> [x \in Nat |-> x + digits[i] * w[n - i]]]
<1>1. \A i \in 1 .. n : digits[i] \in Nat /\ w[n - i] \in Nat /\ digits[i] * w[n - i] \in Nat
  <2> TAKE i \in 1 .. n
  <2>1. n - i \in 0 .. n
    OBVIOUS
  <2> QED BY <2>1
<1>2. g \in [1 .. n -> [Nat -> Nat]] /\ 0 \in Nat
  BY <1>1
<1>3. \A i \in 1 .. n, x \in Nat : g[i][x] = x + digits[i] * w[n - i]
  OBVIOUS
<1> HIDE DEF g
<1>4. PICK f \in [0 .. n -> Nat] : f[0] = 0 /\ \A i \in 1 .. n : f[i] = g[i][f[i - 1]]
  <2> DEFINE b == 0
  <2>1. g \in [1 .. n -> [Nat -> Nat]] /\ b \in Nat
    BY <1>2
  <2> HIDE DEF b
  <2>2. \E f \in [0 .. n -> Nat] : f[0] = b /\ \A i \in 1 .. n : f[i] = g[i][f[i - 1]]
    BY <2>1, StepsExist
  <2> QED BY <2>2 DEF b
<1>5. \A i \in 0 .. n : f[i] = IF i = 0 THEN 0 ELSE f[i - 1] + digits[i] * w[n - i]
  <2> TAKE i \in 0 .. n
  <2>1. i # 0 => i \in 1 .. n /\ f[i - 1] \in Nat
    OBVIOUS
  <2> QED BY <1>3, <1>4, <2>1
<1>6. SumTo(n, digits, w, f)
  BY <1>5 DEF SumTo
<1> QED BY <1>6

LEMMA Accumulated ==
  ASSUME NEW n \in Nat, NEW chars, NEW radix \in Nat, Modulus \in Nat \ {0},
         \A i \in 1 .. n : MapDigit(chars[i]) \in Nat
  PROVE  \E f : AccTo(n, chars, radix, f) /\ f \in [0 .. n -> Nat]
<1> DEFINE g == [i \in 1 .. n |-> [x \in Nat |-> Step(x, MapDigit(chars[i]), radix)]]
<1>1. \A i \in 1 .. n, x \in Nat : Step(x, MapDigit(chars[i]), radix) \in Nat
  <2> TAKE i \in 1 .. n, x \in Nat
  <2>1. MapDigit(chars[i]) \in Nat
    OBVIOUS
  <2> DEFINE d == MapDigit(chars[i])
  <2> HIDE DEF d
  <2>2. d \in Nat /\ x * radix \in Nat
    BY <2>1 DEF d
  <2>3. (x * radix + d) % Modulus \in Nat
    BY <2>2
  <2> QED BY <2>3 DEF Step, d
<1>2. g \in [1 .. n -> [Nat -> Nat]] /\ 0 \in Nat
  BY <1>1
<1>3. \A i \in 1 .. n, x \in Nat : g[i][x] = Step(x, MapDigit(chars[i]), radix)
  OBVIOUS
<1> HIDE DEF g
<1>4. PICK f \in [0 .. n -> Nat] : f[0] = 0 /\ \A i \in 1 .. n : f[i] = g[i][f[i - 1]]
  <2> DEFINE b == 0
  <2>1. g \in [1 .. n -> [Nat -> Nat]] /\ b \in Nat
    BY <1>2
  <2> HIDE DEF b
  <2>2. \E f \in [0 .. n -> Nat] : f[0] = b /\ \A i \in 1 .. n : f[i] = g[i][f[i - 1]]
    <3>1. n \in Nat
      OBVIOUS
    <3> QED BY ONLY <2>1, <3>1, StepsExist
  <2> QED BY <2>2 DEF b
<1>5. \A i \in 0 .. n : f[i] = IF i = 0 THEN 0 ELSE Step(f[i - 1], MapDigit(chars[i]), radix)
  <2> TAKE i \in 0 .. n
  <2>1. i # 0 => i \in 1 .. n /\ f[i - 1] \in Nat
    OBVIOUS
  <2> QED BY <1>3, <1>4, <2>1
<1>6. AccTo(n, chars, radix, f)
  BY <1>5 DEF AccTo
<1> QED BY <1>6

LEMMA ModUnique ==
  ASSUME NEW q \in Int, NEW m \in Nat \ {0}, NEW r \in 0 .. m - 1
  PROVE  (q * m + r) % m = r
OBVIOUS

LEMMA ModSame ==
  ASSUME NEW q \in Int, NEW m \in Nat \ {0}, NEW c \in Int
  PROVE  (q * m + c) % m = c % m
<1> DEFINE p == c \div m
           r == c % m
<1>1. p \in Int /\ r \in 0 .. m - 1 /\ c = p * m + r
  OBVIOUS
<1> HIDE DEF p, r
<1>2. q * m + c = (q + p) * m + r /\ q + p \in Int
  BY <1>1
<1>3. ((q + p) * m + r) % m = r
  BY <1>1, <1>2, ModUnique
<1> QED BY <1>2, <1>3 DEF r

LEMMA ModStep ==
  ASSUME NEW x \in Nat, NEW k \in Nat, NEW d \in Nat, NEW m \in Nat \ {0}
  PROVE  ((x % m) * k + d) % m = (x * k + d) % m
<1> DEFINE q == x \div m
           r == x % m
<1>1. q \in Nat /\ r \in Nat /\ x = q * m + r
  OBVIOUS
<1> HIDE DEF q, r
<1>2. q * k \in Nat /\ r * k + d \in Nat
  <2>1. q * k \in Nat /\ r * k \in Nat
    BY <1>1
  <2> QED BY <2>1
<1>3. x * k + d = (q * k) * m + (r * k + d)
  <2>1. (q * m + r) * k = (q * k) * m + r * k
    BY <1>1
  <2>2. (q * k) * m \in Nat /\ r * k \in Nat
    BY <1>1, <1>2
  <2> QED BY <1>1, <2>1, <2>2
<1>4. ((q * k) * m + (r * k + d)) % m = (r * k + d) % m
  BY <1>2, ModSame
<1> QED BY <1>3, <1>4 DEF r

LEMMA ModNegated ==
  ASSUME NEW x \in Nat, NEW m \in Nat \ {0}
  PROVE  (m - (x % m)) % m = (- x) % m
<1> DEFINE q == x \div m
           r == x % m
<1>1. q \in Nat /\ r \in 0 .. m - 1 /\ x = q * m + r
  OBVIOUS
<1> HIDE DEF q, r
<1>2. - x = (- q - 1) * m + (m - r) /\ - q - 1 \in Int /\ m - r \in Int
  BY <1>1
<1>3. ((- q - 1) * m + (m - r)) % m = (m - r) % m
  BY <1>2, ModSame
<1> QED BY <1>2, <1>3 DEF r

(* Digit by digit, or by their weights: it is the same. *)
Sums(n, radix, digits, chars, w, s, a) ==
  /\ n \in Nat /\ radix \in Nat /\ digits \in [1 .. n -> Nat] /\ Modulus \in Nat \ {0}
  /\ \A i \in 1 .. n : MapDigit(chars[i]) = digits[i]
  /\ w \in [0 .. n -> Nat] /\ WeightTo(n, radix, w)
  /\ s \in [0 .. n -> Nat] /\ SumTo(n, digits, w, s)
  /\ a \in [0 .. n -> Nat] /\ AccTo(n, chars, radix, a)

LEMMA SameSum ==
  ASSUME NEW n, NEW radix, NEW digits, NEW chars, NEW w, NEW s, NEW a,
         Sums(n, radix, digits, chars, w, s, a)
  PROVE  a[n] = s[n] % Modulus
<1> n \in Nat /\ radix \in Nat /\ digits \in [1 .. n -> Nat] /\ Modulus \in Nat \ {0}
  BY DEF Sums
<1> /\ \A i \in 1 .. n : MapDigit(chars[i]) = digits[i]
    /\ w \in [0 .. n -> Nat] /\ WeightTo(n, radix, w)
    /\ s \in [0 .. n -> Nat] /\ SumTo(n, digits, w, s)
    /\ a \in [0 .. n -> Nat] /\ AccTo(n, chars, radix, a)
  BY DEF Sums
<1> DEFINE Good(i) == \E h \in Nat : a[i] = h % Modulus /\ s[i] = h * w[n - i]
           Odd == {i \in 0 .. n : ~ Good(i)}
<1>0. 0 \in 0 .. n /\ \A i \in 1 .. n : i \in 0 .. n /\ i # 0
  OBVIOUS
<1>1. w[0] = 1 /\ \A i \in 1 .. n : w[i] = radix * w[i - 1]
  <2>1. \A i \in 0 .. n : w[i] = IF i = 0 THEN 1 ELSE radix * w[i - 1]
    BY DEF WeightTo
  <2> QED BY <1>0, <2>1
<1>2. s[0] = 0 /\ \A i \in 1 .. n : s[i] = s[i - 1] + digits[i] * w[n - i]
  <2>1. \A i \in 0 .. n : s[i] = IF i = 0 THEN 0 ELSE s[i - 1] + digits[i] * w[n - i]
    BY DEF SumTo
  <2> QED BY <1>0, <2>1
<1>3. a[0] = 0 /\ \A i \in 1 .. n : a[i] = (a[i - 1] * radix + digits[i]) % Modulus
  <2>1. \A i \in 0 .. n : a[i] = IF i = 0 THEN 0 ELSE Step(a[i - 1], MapDigit(chars[i]), radix)
    BY DEF AccTo
  <2> QED BY <1>0, <2>1 DEF Step
<1>4. Odd = {}
  <2>1. SUFFICES ASSUME Odd # {} PROVE FALSE
    OBVIOUS
  <2>2. PICK j \in Odd : \A i \in Odd : j <= i
    <3>1. Odd \in SUBSET Nat
      OBVIOUS
    <3> HIDE DEF Odd
    <3> QED BY <2>1, <3>1, Least
  <2>3. CASE j = 0
    <3>1. 0 % Modulus = 0 /\ 0 * w[n - 0] = 0
      <4>1. w[n - 0] \in Nat
        OBVIOUS
      <4> QED BY <4>1
    <3>2. Good(0)
      BY <1>2, <1>3, <3>1
    <3> QED BY <2>2, <2>3, <3>2
  <2>4. CASE j # 0
    <3>0. j \in 0 .. n
      BY <2>2
    <3>1. j \in 1 .. n /\ j - 1 \in 0 .. n /\ ~ (j <= j - 1) /\ n - j \in 0 .. n
          /\ (n - (j - 1)) - 1 = n - j /\ n - (j - 1) \in 1 .. n
      BY <2>4, <3>0
    <3>2. Good(j - 1)
      BY <2>2, <3>1
    <3>3. PICK h \in Nat : a[j - 1] = h % Modulus /\ s[j - 1] = h * w[n - (j - 1)]
      BY <3>2
    <3> HIDE DEF Odd
    <3> DEFINE d == digits[j]
               v == w[n - j]
    <3>4. d \in Nat /\ v \in Nat
      BY <3>1
    <3>5. w[n - (j - 1)] = radix * v
      BY <1>1, <3>1
    <3>6. a[j] = ((h % Modulus) * radix + d) % Modulus /\ s[j] = h * (radix * v) + d * v
      BY <1>2, <1>3, <3>1, <3>3, <3>5
    <3> HIDE DEF d, v
    <3>7. a[j] = (h * radix + d) % Modulus
      <4> DEFINE m == Modulus
      <4>1. m \in Nat \ {0} /\ a[j] = ((h % m) * radix + d) % m
        BY <3>6
      <4> HIDE DEF m
      <4>2. ((h % m) * radix + d) % m = (h * radix + d) % m
        <5>1. \A x, k, e \in Nat : \A p \in Nat \ {0} : ((x % p) * k + e) % p = (x * k + e) % p
          BY ONLY ModStep
        <5>2. h \in Nat /\ radix \in Nat /\ d \in Nat /\ m \in Nat \ {0}
          BY <3>4, <4>1
        <5> QED BY ONLY <5>1, <5>2
      <4> QED BY <4>1, <4>2 DEF m
    <3>8. h * radix + d \in Nat
      <4> DEFINE y == h * radix
      <4>1. y \in Nat
        OBVIOUS
      <4> HIDE DEF y
      <4>2. y + d \in Nat
        BY <3>4, <4>1
      <4> QED BY <4>2 DEF y
    <3>9. h * (radix * v) + d * v = (h * radix + d) * v
      <4>1. h * (radix * v) = (h * radix) * v
        BY <3>4
      <4>2. h * radix \in Nat
        OBVIOUS
      <4> DEFINE x == h * radix
      <4> HIDE DEF x
      <4>3. x * v + d * v = (x + d) * v
        BY <3>4, <4>2 DEF x
      <4> QED BY <4>1, <4>3 DEF x
    <3>10. s[j] = (h * radix + d) * w[n - j]
      BY <3>6, <3>9 DEF v
    <3>11. Good(j)
      BY <3>7, <3>8, <3>10
    <3> QED BY <2>2, <3>11 DEF Odd
  <2> QED BY <2>3, <2>4
<1>5. n \in 0 .. n
  OBVIOUS
<1>6. PICK h \in Nat : a[n] = h % Modulus /\ s[n] = h * w[n - n]
  BY <1>4, <1>5
<1>7. w[n - n] = 1
  BY <1>1
<1> QED BY <1>6, <1>7

LEMMA AccumulatedIsMeant ==
  ASSUME CfgAssumption, NEW n \in Written, NEW chars, Len(chars) = Len(n.digits),
         \A i \in 1 .. Len(n.digits) : MapDigit(chars[i]) = n.digits[i]
  PROVE  \E v \in Nat : /\ Accumulate(chars, n.radix) = v % Modulus
                        /\ NumberMeans(n) = (IF n.neg THEN - v ELSE v) % Modulus
<1> DEFINE digs == Len(n.digits)
           w == CHOOSE f : WeightTo(digs, n.radix, f)
           s == CHOOSE f : SumTo(digs, n.digits, w, f)
           a == CHOOSE f : AccTo(digs, chars, n.radix, f)
<1>1. n.radix \in Nat /\ digs \in Nat /\ n.digits \in [1 .. digs -> Nat] /\ Modulus \in Nat \ {0}
  <2>1. n.digits \in Seq(0 .. 15) /\ n.radix \in {8, 10, 16}
    BY DEF Written
  <2>2. digs \in Nat /\ \A i \in 1 .. digs : n.digits[i] \in 0 .. 15
    BY <2>1, LenProperties, ElementOfSeq
  <2>3. n.digits \in [1 .. digs -> 0 .. 15]
    BY <2>1, LenProperties
  <2>4. Modulus \in Nat \ {0}
    BY DEF CfgAssumption
  <2> DEFINE d == n.digits
  <2>5. d \in [1 .. digs -> Nat]
    <3> HIDE DEF d, digs
    <3> QED BY <2>3 DEF d
  <2> HIDE DEF digs
  <2> QED BY <2>1, <2>2, <2>4, <2>5
<1> HIDE DEF digs
<1>0. 0 \in 0 .. digs /\ \A i \in 1 .. digs : i \in 0 .. digs /\ i # 0
  BY <1>1
<1>2. WeightTo(digs, n.radix, w) /\ w \in [0 .. digs -> Nat]
  <2>1. WeightTo(digs, n.radix, w)
    BY <1>1, Weighed
  <2> HIDE DEF w
  <2>2. w = [i \in 0 .. digs |-> w[i]] /\ \A i \in 0 .. digs : w[i] = IF i = 0 THEN 1 ELSE n.radix * w[i - 1]
    BY <2>1 DEF WeightTo
  <2>3. w[0] \in Nat /\ \A i \in 1 .. digs : w[i - 1] \in Nat => w[i] \in Nat
    <3>1. w[0] = 1 /\ \A i \in 1 .. digs : w[i] = n.radix * w[i - 1]
      BY <1>0, <2>2
    <3>2. ASSUME NEW i \in 1 .. digs, w[i - 1] \in Nat PROVE w[i] \in Nat
      <4>1. w[i] = n.radix * w[i - 1]
        BY <3>1
      <4> DEFINE x == w[i - 1]
                 r == n.radix
      <4>2. x \in Nat /\ r \in Nat
        BY <1>1, <3>2
      <4> HIDE DEF x, r
      <4>3. r * x \in Nat
        BY <4>2
      <4> QED BY <4>1, <4>3 DEF x, r
    <3> QED BY <3>1, <3>2
  <2> QED BY <1>1, <2>1, <2>2, <2>3, StepsTyped
<1> HIDE DEF w
<1>3. SumTo(digs, n.digits, w, s) /\ s \in [0 .. digs -> Nat]
  <2>1. SumTo(digs, n.digits, w, s)
    BY <1>1, <1>2, Summed
  <2> HIDE DEF s
  <2>2. s = [i \in 0 .. digs |-> s[i]]
        /\ \A i \in 0 .. digs : s[i] = IF i = 0 THEN 0 ELSE s[i - 1] + n.digits[i] * w[digs - i]
    BY <2>1 DEF SumTo
  <2>3. s[0] \in Nat /\ \A i \in 1 .. digs : s[i - 1] \in Nat => s[i] \in Nat
    <3>1. \A i \in 1 .. digs : n.digits[i] \in Nat /\ w[digs - i] \in Nat /\ n.digits[i] * w[digs - i] \in Nat
      <4> TAKE i \in 1 .. digs
      <4>1. digs - i \in 0 .. digs
        BY <1>1
      <4> QED BY <1>1, <1>2, <4>1
    <3>2. s[0] = 0 /\ \A i \in 1 .. digs : s[i] = s[i - 1] + n.digits[i] * w[digs - i]
      BY <1>0, <2>2
    <3>3. ASSUME NEW i \in 1 .. digs, s[i - 1] \in Nat PROVE s[i] \in Nat
      <4> DEFINE y == n.digits[i] * w[digs - i]
      <4>1. y \in Nat /\ s[i] = s[i - 1] + y
        BY <3>1, <3>2
      <4> HIDE DEF y
      <4> QED BY <3>3, <4>1
    <3> QED BY <3>2, <3>3
  <2> QED BY <1>1, <2>1, <2>2, <2>3, StepsTyped
<1> HIDE DEF s
<1>4. AccTo(digs, chars, n.radix, a) /\ a \in [0 .. digs -> Nat]
  <2>0. \A i \in 1 .. digs : MapDigit(chars[i]) \in Nat
    BY <1>1 DEF digs
  <2>1. AccTo(digs, chars, n.radix, a)
    BY <1>1, <2>0, Accumulated
  <2> HIDE DEF a
  <2>2. a = [i \in 0 .. digs |-> a[i]]
        /\ \A i \in 0 .. digs : a[i] = IF i = 0 THEN 0 ELSE Step(a[i - 1], MapDigit(chars[i]), n.radix)
    BY <2>1 DEF AccTo
  <2>3. a[0] \in Nat /\ \A i \in 1 .. digs : a[i - 1] \in Nat => a[i] \in Nat
    <3>1. ASSUME NEW x \in Nat, NEW d \in Nat PROVE (x * n.radix + d) % Modulus \in Nat
      <4>1. x * n.radix \in Nat
        BY <1>1
      <4> QED BY <1>1, <4>1
    <3>2. \A i \in 1 .. digs : a[i - 1] \in Nat => Step(a[i - 1], MapDigit(chars[i]), n.radix) \in Nat
      BY <2>0, <3>1 DEF Step
    <3>3. a[0] = 0 /\ \A i \in 1 .. digs : a[i] = Step(a[i - 1], MapDigit(chars[i]), n.radix)
      BY <1>0, <2>2
    <3> QED BY <3>2, <3>3
  <2> QED BY <1>1, <2>1, <2>2, <2>3, StepsTyped
<1> HIDE DEF a
<1>5. a[digs] = s[digs] % Modulus
  <2>1. \A i \in 1 .. digs : MapDigit(chars[i]) = n.digits[i]
    BY DEF digs
  <2> DEFINE radix == n.radix
             digits == n.digits
  <2>2. /\ radix \in Nat /\ digits \in [1 .. digs -> Nat] /\ \A i \in 1 .. digs : MapDigit(chars[i]) = digits[i]
        /\ WeightTo(digs, radix, w) /\ SumTo(digs, digits, w, s) /\ AccTo(digs, chars, radix, a)
    BY <1>1, <1>2, <1>3, <1>4, <2>1
  <2> HIDE DEF radix, digits
  <2>3. Sums(digs, radix, digits, chars, w, s, a)
    BY <1>1, <1>2, <1>3, <1>4, <2>2 DEF Sums
  <2> QED BY <2>3, SameSum
<1>6. Accumulate(chars, n.radix) = a[digs]
  BY DEF Accumulate, AccTo, a, digs
<1>7. NumberMeans(n) = (IF n.neg THEN - s[digs] ELSE s[digs]) % Modulus
  BY DEF NumberMeans, WeightTo, SumTo, s, w, digs
<1>8. s[digs] \in Nat
  BY <1>1, <1>3
<1> QED BY <1>5, <1>6, <1>7, <1>8

-----------------------------------------------------------------------------
(* A number that is written is accepted with its value. *)

LEMMA DigitMapped ==
  /\ \A d \in 0 .. 15 : MapDigit(NumberChars[d + 1]) = d /\ NumberChars[d + 1] \notin {"-", "x"}
  /\ \A d \in 0 .. 15 : NumberChars[d + 1] = "0" => d = 0
  /\ MapDigit("x") = -1 /\ MapDigit("0") = 0
<1> DEFINE Spots(c) == {i \in 1 .. Len(NumberChars) : NumberChars[i] = c}
<1>1. \A c : MapDigit(c) = (IF Spots(c) # {} THEN Min(Spots(c)) ELSE 0) - 1
  BY DEF MapDigit, SelectInSeq
<1>2. Len(NumberChars) = 16
  BY DEF NumberChars
<1>3. \A i, j \in 1 .. 16 : NumberChars[i] = NumberChars[j] => i = j
  <2>1. 1 .. 16 = {1, 2, 3, 4, 5, 6, 7, 8, 9, 10, 11, 12, 13, 14, 15, 16}
    OBVIOUS
  <2>2. \A i \in {1, 2, 3, 4, 5, 6, 7, 8, 9, 10, 11, 12, 13, 14, 15, 16} :
          NumberChars[i] = CASE i = 1 -> "0" [] i = 2 -> "1" [] i = 3 -> "2" [] i = 4 -> "3" [] i = 5 -> "4"
                             [] i = 6 -> "5" [] i = 7 -> "6" [] i = 8 -> "7" [] i = 9 -> "8" [] i = 10 -> "9"
                             [] i = 11 -> "a" [] i = 12 -> "b" [] i = 13 -> "c" [] i = 14 -> "d"
                             [] i = 15 -> "e" [] i = 16 -> "f"
    BY DEF NumberChars
  <2> QED BY <2>1, <2>2
<1>4. \A i \in 1 .. 16 : NumberChars[i] \notin {"-", "x"}
  <2>1. 1 .. 16 = {1, 2, 3, 4, 5, 6, 7, 8, 9, 10, 11, 12, 13, 14, 15, 16}
    OBVIOUS
  <2> QED BY <2>1 DEF NumberChars
<1>5. NumberChars[1] = "0"
  BY DEF NumberChars
<1>6. \A i \in Int : Min({i}) = i
  BY DEF Min
<1>7. ASSUME NEW d \in 0 .. 15 PROVE MapDigit(NumberChars[d + 1]) = d
  <2>1. d + 1 \in 1 .. 16 /\ d + 1 \in Int /\ (d + 1) - 1 = d
    OBVIOUS
  <2>2. Spots(NumberChars[d + 1]) = {d + 1}
    BY <1>2, <1>3, <2>1
  <2> HIDE DEF Spots
  <2> QED BY <1>1, <1>6, <2>1, <2>2
<1>8. Spots("x") = {}
  BY <1>2, <1>4
<1>9. \A d \in 0 .. 15 : d + 1 \in 1 .. 16 /\ (d + 1 = 1 => d = 0)
  OBVIOUS
<1>10. \A d \in 0 .. 15 : NumberChars[d + 1] = "0" => d = 0
  BY <1>3, <1>5, <1>9
<1>11. MapDigit("0") = 0
  BY <1>5, <1>7, 0 \in 0 .. 15, 0 + 1 = 1
<1>12. MapDigit("x") = -1
  <2> HIDE DEF Spots
  <2> QED BY <1>1, <1>8
<1> QED BY <1>4, <1>7, <1>9, <1>10, <1>11, <1>12

LEMMA Joined ==
  ASSUME NEW T, NEW a \in Seq(T), NEW b \in Seq(T), NEW la, NEW lb, Len(a) = la, Len(b) = lb
  PROVE  /\ a \o b \in Seq(T) /\ Len(a \o b) = la + lb
         /\ \A i \in 1 .. la + lb : (a \o b)[i] = IF i <= la THEN a[i] ELSE b[i - la]
<1>1. /\ a \o b \in Seq(T) /\ Len(a \o b) = Len(a) + Len(b)
      /\ \A i \in 1 .. Len(a) + Len(b) : (a \o b)[i] = IF i <= Len(a) THEN a[i] ELSE b[i - Len(a)]
  BY ConcatProperties
<1> QED BY <1>1

SignLen(n) == IF n.neg THEN 1 ELSE 0
RadixLen(n) == IF n.radix = 16 THEN 2 ELSE IF n.radix = 8 THEN 1 ELSE 0
Ahead(n) == SignLen(n) + RadixLen(n)

LEMMA Spelled ==
  ASSUME NEW n \in Written
  PROVE  /\ SpellNumber(n) \in Seq(NumberCharSet)
         /\ Len(n.digits) \in Nat \ {0} /\ Len(SpellNumber(n)) = Ahead(n) + Len(n.digits)
         /\ \A i \in 1 .. Len(n.digits) : SpellNumber(n)[Ahead(n) + i] = NumberChars[n.digits[i] + 1]
         /\ n.neg => SpellNumber(n)[1] = "-"
         /\ n.radix \in {8, 16} => SpellNumber(n)[SignLen(n) + 1] = "0"
         /\ n.radix = 16 => SpellNumber(n)[SignLen(n) + 2] = "x"
<1> DEFINE C == NumberCharSet
           a == IF n.neg THEN <<"-">> ELSE << >>
           b == CASE n.radix = 16 -> <<"0", "x">> [] n.radix = 8 -> <<"0">> [] OTHER -> << >>
           c == [i \in DOMAIN n.digits |-> NumberChars[n.digits[i] + 1]]
           s == SpellNumber(n)
           digs == Len(n.digits)
<1>1. /\ n.neg \in BOOLEAN /\ n.radix \in {8, 10, 16} /\ n.digits \in Seq(0 .. 15) /\ n.digits # << >>
  BY DEF Written
<1>2. digs \in Nat \ {0} /\ DOMAIN n.digits = 1 .. digs /\ \A i \in 1 .. digs : n.digits[i] \in 0 .. 15
  BY <1>1, LenProperties, EmptySeq, ElementOfSeq
<1>3. "-" \in C /\ "x" \in C /\ "0" \in C /\ \A d \in 0 .. 15 : NumberChars[d + 1] \in C
  <2>1. \A i \in 1 .. 16 : NumberChars[i] \in C
    BY DEF NumberCharSet
  <2>2. \A d \in 0 .. 15 : d + 1 \in 1 .. 16
    OBVIOUS
  <2>3. NumberChars[1] = "0" /\ 1 \in 1 .. 16
    BY DEF NumberChars
  <2>4. "-" \in C /\ "x" \in C
    BY DEF NumberCharSet
  <2> HIDE DEF C
  <2>5. "0" \in C
    BY <2>1, <2>3
  <2> QED BY <2>1, <2>2, <2>4, <2>5
<1>4. c \in Seq(C) /\ Len(c) = digs /\ \A i \in 1 .. digs : c[i] = NumberChars[n.digits[i] + 1]
  <2>1. \A i \in 1 .. digs : NumberChars[n.digits[i] + 1] \in C
    <3> HIDE DEF C
    <3> QED BY <1>2, <1>3
  <2>2. c \in [1 .. digs -> C] /\ \A i \in 1 .. digs : c[i] = NumberChars[n.digits[i] + 1]
    <3> HIDE DEF C, digs
    <3> QED BY <1>2, <2>1
  <2> HIDE DEF c, C
  <2>3. digs \in Nat
    BY <1>2
  <2> HIDE DEF digs
  <2> QED BY <2>2, <2>3
<1>5. a \in Seq(C) /\ Len(a) = SignLen(n) /\ (n.neg => a[1] = "-")
  <2> HIDE DEF C
  <2>1. <<"-">> \in Seq(C) /\ Len(<<"-">>) = 1 /\ <<"-">>[1] = "-"
    BY <1>3
  <2>2. << >> \in Seq(C) /\ Len(<< >>) = 0
    BY EmptySeq
  <2> QED BY <2>1, <2>2 DEF SignLen
<1>6. b \in Seq(C) /\ Len(b) = RadixLen(n) /\ (n.radix \in {8, 16} => b[1] = "0") /\ (n.radix = 16 => b[2] = "x")
  <2> HIDE DEF C
  <2>1. <<"0", "x">> \in Seq(C) /\ Len(<<"0", "x">>) = 2 /\ <<"0", "x">>[1] = "0" /\ <<"0", "x">>[2] = "x"
    BY <1>3
  <2>2. <<"0">> \in Seq(C) /\ Len(<<"0">>) = 1 /\ <<"0">>[1] = "0"
    BY <1>3
  <2>3. << >> \in Seq(C) /\ Len(<< >>) = 0
    BY EmptySeq
  <2>4. n.radix # 8 /\ n.radix # 16 => b = << >>
    OBVIOUS
  <2>5. (n.radix = 16 => b = <<"0", "x">>) /\ (n.radix = 8 => b = <<"0">>)
    OBVIOUS
  <2> HIDE DEF b
  <2>6. CASE n.radix = 16
    <3>1. b \in Seq(C) /\ Len(b) = 2 /\ b[1] = "0" /\ b[2] = "x"
      BY <2>1, <2>5, <2>6
    <3> QED BY <2>6, <3>1 DEF RadixLen
  <2>7. CASE n.radix = 8
    <3>1. b \in Seq(C) /\ Len(b) = 1 /\ b[1] = "0"
      BY <2>2, <2>5, <2>7
    <3> QED BY <2>7, <3>1 DEF RadixLen
  <2>8. CASE n.radix # 8 /\ n.radix # 16
    <3>1. b \in Seq(C) /\ Len(b) = 0
      BY <2>3, <2>4, <2>8
    <3> QED BY <2>8, <3>1 DEF RadixLen
  <2> QED BY <2>6, <2>7, <2>8
<1>7. s = (a \o b) \o c
  BY DEF SpellNumber
<1>8. SignLen(n) \in {0, 1} /\ RadixLen(n) \in {0, 1, 2} /\ (n.neg => SignLen(n) = 1)
      /\ (n.radix = 16 => RadixLen(n) = 2) /\ (n.radix = 8 => RadixLen(n) = 1)
  BY DEF SignLen, RadixLen
<1> DEFINE la == SignLen(n)
           lb == RadixLen(n)
<1> HIDE DEF C, a, b, c, s, digs, la, lb
<1>9. /\ a \o b \in Seq(C) /\ Len(a \o b) = la + lb
      /\ \A i \in 1 .. la + lb : (a \o b)[i] = IF i <= la THEN a[i] ELSE b[i - la]
  <2>1. a \in Seq(C) /\ b \in Seq(C) /\ Len(a) = la /\ Len(b) = lb
    BY <1>5, <1>6 DEF la, lb
  <2> QED BY ONLY <2>1, Joined
<1> DEFINE ab == a \o b
<1>10. ab \in Seq(C) /\ Len(ab) = la + lb /\ \A i \in 1 .. la + lb : ab[i] = IF i <= la THEN a[i] ELSE b[i - la]
  BY <1>9
<1>11. s = ab \o c
  BY <1>7
<1> HIDE DEF ab
<1>12. /\ s \in Seq(C) /\ Len(s) = (la + lb) + digs
       /\ \A i \in 1 .. (la + lb) + digs : s[i] = IF i <= la + lb THEN ab[i] ELSE c[i - (la + lb)]
  <2>1. c \in Seq(C) /\ ab \in Seq(C) /\ Len(c) = digs /\ Len(ab) = la + lb
    BY <1>4, <1>10
  <2> DEFINE lab == la + lb
  <2>2. Len(ab) = lab
    BY <2>1
  <2> HIDE DEF lab
  <2>3. /\ ab \o c \in Seq(C) /\ Len(ab \o c) = lab + digs
        /\ \A i \in 1 .. lab + digs : (ab \o c)[i] = IF i <= lab THEN ab[i] ELSE c[i - lab]
    BY ONLY <2>1, <2>2, Joined
  <2> QED BY <1>11, <2>3 DEF lab
<1>13. la \in {0, 1} /\ lb \in {0, 1, 2} /\ digs \in Nat \ {0}
  BY <1>2, <1>8 DEF la, lb
<1>14. \A i \in 1 .. digs : s[(la + lb) + i] = c[i]
  <2> TAKE i \in 1 .. digs
  <2>1. (la + lb) + i \in 1 .. (la + lb) + digs /\ ~ ((la + lb) + i <= la + lb) /\ ((la + lb) + i) - (la + lb) = i
    BY <1>13
  <2> QED BY <1>12, <2>1
<1>15. n.neg => s[1] = "-"
  <2>1. n.neg => la = 1 /\ 1 \in 1 .. (la + lb) + digs /\ 1 <= la + lb /\ 1 \in 1 .. la + lb /\ 1 <= la
    BY <1>8, <1>13 DEF la
  <2> QED BY <1>5, <1>10, <1>12, <2>1
<1>16. n.radix \in {8, 16} => s[la + 1] = "0"
  <2>1. n.radix \in {8, 16} => /\ la + 1 \in 1 .. (la + lb) + digs /\ la + 1 <= la + lb /\ la + 1 \in 1 .. la + lb
                               /\ ~ (la + 1 <= la) /\ (la + 1) - la = 1
    <3>1. n.radix \in {8, 16} => lb \in {1, 2}
      BY <1>8 DEF lb
    <3> QED BY <1>13, <3>1
  <2> QED BY <1>6, <1>10, <1>12, <2>1
<1>17. n.radix = 16 => s[la + 2] = "x"
  <2>1. n.radix = 16 => /\ la + 2 \in 1 .. (la + lb) + digs /\ la + 2 <= la + lb /\ la + 2 \in 1 .. la + lb
                        /\ ~ (la + 2 <= la) /\ (la + 2) - la = 2
    <3>1. n.radix = 16 => lb = 2
      BY <1>8 DEF lb
    <3> QED BY <1>13, <3>1
  <2> QED BY <1>6, <1>10, <1>12, <2>1
<1> QED BY <1>4, <1>12, <1>13, <1>14, <1>15, <1>16, <1>17 DEF s, la, lb, C, digs, Ahead

LEMMA RunsOn ==
  ASSUME NEW n \in Written
  PROVE  LET r == Run(SpellNumber(n), Ahead(n) + 1, n.radix)
         IN /\ Len(r) = Len(n.digits)
            /\ \A i \in 1 .. Len(n.digits) : MapDigit(r[i]) = n.digits[i]
<1> DEFINE s == SpellNumber(n)
           a == Ahead(n)
           digs == Len(n.digits)
           d(i) == n.digits[i]
           stop == {j \in a + 1 .. Len(s) : MapDigit(s[j]) \notin 0 .. n.radix - 1}
<1>1. /\ s \in Seq(NumberCharSet) /\ digs \in Nat \ {0} /\ Len(s) = a + digs
      /\ \A i \in 1 .. digs : s[a + i] = NumberChars[d(i) + 1]
  BY Spelled
<1>2. \A i \in 1 .. digs : d(i) \in 0 .. 15 /\ d(i) \in 0 .. n.radix - 1
  <2>1. n.digits \in Seq(0 .. 15) /\ n.radix \in {8, 10, 16} /\ \A i \in DOMAIN n.digits : d(i) < n.radix
    BY DEF Written
  <2>2. DOMAIN n.digits = 1 .. digs /\ \A i \in 1 .. digs : d(i) \in 0 .. 15
    BY <2>1, LenProperties, ElementOfSeq
  <2> HIDE DEF d, digs
  <2> QED BY <2>1, <2>2
<1>3. a \in Nat
  BY DEF Ahead, SignLen, RadixLen
<1> HIDE DEF s, a, digs, d, stop
<1>4. \A i \in 1 .. digs : MapDigit(s[a + i]) = d(i)
  BY <1>1, <1>2, DigitMapped
<1>5. stop = {}
  <2>1. ASSUME NEW j \in a + 1 .. Len(s) PROVE MapDigit(s[j]) \in 0 .. n.radix - 1
    <3>1. j - a \in 1 .. digs /\ a + (j - a) = j
      BY <1>1, <1>3
    <3> QED BY <1>2, <1>4, <3>1
  <2> QED BY <2>1 DEF stop
<1>6. Run(s, a + 1, n.radix) = Left(s, a)
  BY <1>5 DEF Run, Left, stop
<1>7. a \in 0 .. Len(s) /\ Len(s) - a = digs
  BY <1>1, <1>3
<1>8. Len(Left(s, a)) = digs /\ \A i \in 1 .. digs : Left(s, a)[i] = s[a + i]
  BY <1>1, <1>7, LeftProps
<1> QED BY <1>4, <1>6, <1>8 DEF s, a, digs, d

(* How the sign and the radix are told apart. *)
LEMMA AheadRead ==
  ASSUME NEW n \in Written
  PROVE  LET s == SpellNumber(n)
             i == SignLen(n) + 1
             zero == i < Len(s) /\ s[i] = "0"
             hex == zero /\ s[i + 1] = "x"
             octal == zero /\ IsDecimal(s[i + 1])
         IN /\ s[1] = "-" <=> n.neg
            /\ i <= Len(s) /\ IsDecimal(s[i])
            /\ hex <=> n.radix = 16
            /\ octal <=> n.radix = 8
            /\ zero <=> n.radix \in {8, 16}
            /\ MapDigit(s[Ahead(n) + 1]) >= 0 /\ Ahead(n) + 1 <= Len(s)
<1> DEFINE s == SpellNumber(n)
           digs == Len(n.digits)
           la == SignLen(n)
           d(k) == n.digits[k]
           lb == RadixLen(n)
           c == s[la + 1]
           e == s[la + 2]
           zero == la + 1 < Len(s) /\ c = "0"
<1>1. /\ digs \in Nat \ {0} /\ Len(s) = (la + lb) + digs
      /\ \A k \in 1 .. digs : s[(la + lb) + k] = NumberChars[d(k) + 1]
      /\ n.neg => s[1] = "-"
      /\ n.radix \in {8, 16} => c = "0"
      /\ n.radix = 16 => e = "x"
  BY Spelled DEF Ahead
<1>2. /\ n.radix \in {8, 10, 16} /\ \A k \in 1 .. digs : d(k) \in 0 .. 15 /\ d(k) < n.radix
      /\ n.radix = 10 => d(1) # 0 \/ digs = 1
  <2>1. n.digits \in Seq(0 .. 15) /\ n.radix \in {8, 10, 16} /\ \A k \in DOMAIN n.digits : d(k) < n.radix
    BY DEF Written
  <2>2. DOMAIN n.digits = 1 .. digs /\ \A k \in 1 .. digs : d(k) \in 0 .. 15
    BY <2>1, LenProperties, ElementOfSeq
  <2>3. n.radix = 10 => d(1) # 0 \/ digs = 1
    BY DEF Written
  <2> HIDE DEF d, digs
  <2> QED BY <2>1, <2>2, <2>3
<1>3. la \in {0, 1} /\ (n.neg => la = 1) /\ (~ n.neg => la = 0)
  BY DEF SignLen
<1>4. (n.radix = 16 => lb = 2) /\ (n.radix = 8 => lb = 1) /\ (n.radix = 10 => lb = 0)
  BY DEF RadixLen
<1> HIDE DEF s, digs, la, lb, d
<1> DEFINE f == NumberChars[d(1) + 1]
<1>5. s[(la + lb) + 1] = f /\ MapDigit(f) = d(1) /\ f \notin {"-", "x"} /\ (f = "0" => d(1) = 0)
      /\ d(1) \in 0 .. 15 /\ d(1) < n.radix
  <2>1. 1 \in 1 .. digs
    BY <1>1
  <2>2. d(1) \in 0 .. 15
    BY <1>2, <2>1
  <2> QED BY <1>1, <1>2, <2>1, <2>2, DigitMapped
<1> HIDE DEF f
<1>6. CASE n.radix = 16
  <2>1. lb = 2 /\ c = "0" /\ e = "x" /\ la + 1 < Len(s) /\ la + 1 <= Len(s) /\ (la + lb) + 1 <= Len(s)
        /\ n.radix \in {8, 16} /\ n.radix # 8 /\ (la + 1) + 1 = la + 2
    BY <1>1, <1>3, <1>4, <1>6
  <2>2. IsDecimal(c) /\ ~ IsDecimal(e)
    BY <2>1, DigitMapped DEF IsDecimal
  <2>3. ~ n.neg => s[1] # "-"
    <3>1. ~ n.neg => la + 1 = 1
      BY <1>3
    <3> QED BY <2>1, <3>1
  <2>4. MapDigit(s[(la + lb) + 1]) >= 0
    BY <1>5
  <2> HIDE DEF c, e
  <2> QED BY <1>1, <1>6, <2>1, <2>2, <2>3, <2>4 DEF Ahead, s, la, lb, c, e
<1>7. CASE n.radix = 8
  <2>1. lb = 1 /\ c = "0" /\ la + 1 < Len(s) /\ la + 1 <= Len(s) /\ (la + lb) + 1 <= Len(s)
        /\ n.radix \in {8, 16} /\ n.radix # 16 /\ (la + 1) + 1 = la + 2 /\ (la + lb) + 1 = la + 2
    BY <1>1, <1>3, <1>4, <1>7
  <2>2. e = f
    BY <1>5, <2>1
  <2>3. IsDecimal(c)
    BY <2>1, DigitMapped DEF IsDecimal
  <2>4. IsDecimal(e) /\ e # "x"
    <3>1. d(1) \in 0 .. 9
      BY <1>5, <1>7
    <3> QED BY <1>5, <2>2, <3>1 DEF IsDecimal
  <2>5. ~ n.neg => s[1] # "-"
    <3>1. ~ n.neg => la + 1 = 1
      BY <1>3
    <3> QED BY <2>1, <3>1
  <2>6. MapDigit(s[(la + lb) + 1]) >= 0
    BY <1>5
  <2> HIDE DEF c, e
  <2> QED BY <1>1, <1>7, <2>1, <2>3, <2>4, <2>5, <2>6 DEF Ahead, s, la, lb, c, e
<1>8. CASE n.radix = 10
  <2>1. lb = 0 /\ la + 1 <= Len(s) /\ (la + lb) + 1 <= Len(s) /\ n.radix \notin {8, 16} /\ (la + lb) + 1 = la + 1
    BY <1>1, <1>3, <1>4, <1>8
  <2>2. c = f
    BY <1>5, <2>1
  <2>3. IsDecimal(c)
    <3>1. d(1) \in 0 .. 9
      BY <1>5, <1>8
    <3> QED BY <1>5, <2>2, <3>1 DEF IsDecimal
  <2>4. ~ zero
    <3>1. la + 1 < Len(s) => digs # 1
      BY <1>1, <1>3, <2>1
    <3> QED BY <1>2, <1>5, <1>8, <2>2, <3>1
  <2>5. ~ n.neg => s[1] # "-"
    <3>1. ~ n.neg => la + 1 = 1
      BY <1>3
    <3> QED BY <1>5, <2>2, <3>1
  <2>6. MapDigit(s[(la + lb) + 1]) >= 0
    BY <1>5
  <2> HIDE DEF c, e
  <2> QED BY <1>1, <1>8, <2>1, <2>3, <2>4, <2>5, <2>6 DEF Ahead, s, la, lb, c, e
<1> QED BY <1>2, <1>6, <1>7, <1>8

LEMMA SpelledIsAccepted ==
  ASSUME CfgAssumption, NEW n \in Written
  PROVE  LET a == AcceptInt(SpellNumber(n))
         IN a.ok /\ a.used = Len(SpellNumber(n)) /\ a.value = NumberMeans(n)
<1> DEFINE s == SpellNumber(n)
           neg == s[1] = "-"
           i == IF neg THEN 2 ELSE 1
           zero == i < Len(s) /\ s[i] = "0"
           hex == zero /\ s[i + 1] = "x"
           octal == zero /\ IsDecimal(s[i + 1])
           from == IF hex THEN i + 2 ELSE IF octal THEN i + 1 ELSE i
           radix == IF hex THEN 16 ELSE IF octal THEN 8 ELSE 10
           digits == IF zero /\ ~ hex /\ ~ octal THEN <<"0">> ELSE Run(s, from, radix)
           value == Accumulate(digits, radix)
           a == AcceptInt(s)
           run == Run(s, Ahead(n) + 1, n.radix)
           digs == Len(n.digits)
<1>1. a = [ok |-> /\ i <= Len(s) /\ IsDecimal(s[i])
                  /\ hex => from <= Len(s) /\ MapDigit(s[from]) >= 0,
           value |-> IF neg THEN (Modulus - value) % Modulus ELSE value,
           used |-> from - 1 + Len(digits)]
  BY DEF AcceptInt
<1>2. i = SignLen(n) + 1 /\ (neg <=> n.neg) /\ n.radix \in {8, 10, 16}
  <2>1. (neg <=> n.neg)
    BY AheadRead
  <2>2. n.radix \in {8, 10, 16}
    BY DEF Written
  <2> QED BY <2>1, <2>2 DEF SignLen
<1>3. /\ i <= Len(s) /\ IsDecimal(s[i])
      /\ hex <=> n.radix = 16
      /\ octal <=> n.radix = 8
      /\ zero <=> n.radix \in {8, 16}
      /\ MapDigit(s[Ahead(n) + 1]) >= 0 /\ Ahead(n) + 1 <= Len(s)
  <2> HIDE DEF i
  <2> QED BY <1>2, AheadRead
<1>4. digs \in Nat \ {0} /\ Len(s) = Ahead(n) + digs
  BY Spelled
<1>5. Len(run) = digs /\ \A k \in 1 .. digs : MapDigit(run[k]) = n.digits[k]
  BY RunsOn
<1> HIDE DEF a, digits, value, run, digs, s, neg, i, zero, hex, octal
<1>6. radix = n.radix
  BY <1>2, <1>3
<1>7. from = Ahead(n) + 1
  <2>1. n.radix = 16 => from = i + 2 /\ Ahead(n) = SignLen(n) + 2
    BY <1>3 DEF Ahead, RadixLen
  <2>2. n.radix = 8 => from = i + 1 /\ Ahead(n) = SignLen(n) + 1
    BY <1>3 DEF Ahead, RadixLen
  <2>3. n.radix = 10 => from = i /\ Ahead(n) = SignLen(n) + 0
    BY <1>3 DEF Ahead, RadixLen
  <2>4. SignLen(n) \in Nat
    BY DEF SignLen
  <2> HIDE DEF from
  <2> QED BY <1>2, <2>1, <2>2, <2>3, <2>4
<1> HIDE DEF from, radix
<1>8. digits = run
  <2>1. ~ (zero /\ ~ hex /\ ~ octal)
    BY <1>2, <1>3
  <2> QED BY <1>6, <1>7, <2>1 DEF digits, run
<1>9. PICK v \in Nat : /\ Accumulate(run, n.radix) = v % Modulus
                       /\ NumberMeans(n) = (IF n.neg THEN - v ELSE v) % Modulus
  <2>1. Len(run) = Len(n.digits) /\ \A k \in 1 .. Len(n.digits) : MapDigit(run[k]) = n.digits[k]
    BY <1>5 DEF digs
  <2> QED BY <2>1, AccumulatedIsMeant
<1>10. value = v % Modulus
  BY <1>6, <1>8, <1>9 DEF value
<1>11. (IF neg THEN (Modulus - value) % Modulus ELSE value) = NumberMeans(n)
  <2>1. Modulus \in Nat \ {0}
    BY DEF CfgAssumption
  <2>2. (Modulus - (v % Modulus)) % Modulus = (- v) % Modulus
    BY <2>1, ModNegated
  <2>3. CASE n.neg
    BY <1>2, <1>9, <1>10, <2>2, <2>3
  <2>4. CASE ~ n.neg
    BY <1>2, <1>9, <1>10, <2>4
  <2> QED BY <2>3, <2>4
<1>12. from - 1 + Len(digits) = Len(s)
  <2>1. Ahead(n) \in Nat
    BY DEF Ahead, SignLen, RadixLen
  <2> QED BY <1>4, <1>5, <1>7, <1>8, <2>1
<1>13. i <= Len(s) /\ IsDecimal(s[i]) /\ (hex => from <= Len(s) /\ MapDigit(s[from]) >= 0)
  BY <1>3, <1>7
<1>14. a.ok /\ a.used = Len(s) /\ a.value = NumberMeans(n)
  BY <1>1, <1>11, <1>12, <1>13
<1> QED BY <1>14 DEF a, s

-----------------------------------------------------------------------------
(* A file that is meant, read from the front.  Of the file src, what is     *)
(* left after i sections, and after j entries of section i.                *)

SectionTexts(S) == Marked([k \in DOMAIN S |-> RenderSection(S[k])])
EntryTexts(E) == [k \in DOMAIN E |-> RenderEntry(E[k])]

FromSection(src, i) == FlattenSeq(Left(SectionTexts(src.sections), i)) \o Mark("}")

FromEntry(src, i, j) ==
  FlattenSeq(Left(EntryTexts(src.sections[i].entries), j)) \o (Mark("}") \o FromSection(src, i))

(* The parts that are left when the file f is built and at is called next. *)
LeftFor(src, at, f) ==
  LET S == src.sections
      n == Len(f.sections)
      i == Len(Front(f.sections)) + 1
      s == Last(f.sections)
      j == Len(Front(s.entries)) + 1
      e == S[i].entries[j]
      ended == Mark(";") \o FromEntry(src, i, j)
  IN CASE at = "file" -> Part({"name"}, src.name) \o (Mark("{") \o FromSection(src, 0))
       [] at = "fileOpen" -> Mark("{") \o FromSection(src, 0)
       [] at = "section" -> RenderSection(S[n + 1]) \o FromSection(src, n + 1)
       [] at = "sectionName" -> Part({"name", "string"}, S[i].name) \o (Mark("{") \o FromEntry(src, i, 0))
       [] at = "sectionOpen" -> Mark("{") \o FromEntry(src, i, 0)
       [] at \in {"entry", "entryOrEnd"} -> FromEntry(src, i, Len(s.entries))
       [] at = "equals" -> Mark("=") \o (ValuePart(e) \o ended)
       [] at = "value" -> ValuePart(e) \o ended
       [] at = "semicolon" -> ended
       [] at = "sectionEnd" -> FromSection(src, n)
       [] at = "done" -> << >>

(* P is the start of M. *)
Begins(P, M) == Len(P) <= Len(M) /\ \A k \in 1 .. Len(P) : P[k] = M[k]

(* The file f is the start of the file m. *)
SoFar(m, at, f) ==
  LET M == m.sections
      P == Front(f.sections)
      s == Last(f.sections)
      t == M[Len(P) + 1]
      E == Front(s.entries)
      e == Last(s.entries)
      u == t.entries[Len(E) + 1]
  IN /\ at # "file" => f.name = m.name
     /\ at \in {"section", "sectionEnd", "done"} => Begins(f.sections, M)
     /\ at = "section" => Len(f.sections) < Len(M)
     /\ at = "done" => Len(f.sections) = Len(M)
     /\ at \in InSection => Begins(P, M) /\ Len(P) < Len(M) /\ s.type = t.type
     /\ at \in InSection \ {"sectionName"} => s.name = t.name
     /\ at \in {"entry", "entryOrEnd"} => Begins(s.entries, t.entries)
     /\ at = "entry" => Len(s.entries) < Len(t.entries)
     /\ at \in InEntry => Begins(E, t.entries) /\ Len(E) < Len(t.entries) /\ e.name = u.name
     /\ at = "semicolon" => e = u

SourceInv ==
  edit = "none" =>
    /\ source \in Files /\ parsing \in Calls
    /\ \E quotes \in {"name", "string"} : text = TextOf(Render(source), quotes)
    /\ Left(Render(source), pos - 1) = LeftFor(source, parsing, file)
    /\ SoFar(Meant(source), parsing, file)

LEMMA LeftFlat ==
  ASSUME NEW X, NEW s \in Seq(Seq(X))
  PROVE  /\ \A i \in 0 .. Len(s) : FlattenSeq(Left(s, i)) \in Seq(X)
         /\ \A i \in 0 .. Len(s) - 1 : FlattenSeq(Left(s, i)) = s[i + 1] \o FlattenSeq(Left(s, i + 1))
         /\ FlattenSeq(Left(s, Len(s))) = << >>
<1>1. Len(s) \in Nat /\ \A i \in 1 .. Len(s) : s[i] \in Seq(X)
  BY LenProperties, ElementOfSeq
<1>2. \A i \in 0 .. Len(s) : Left(s, i) \in Seq(Seq(X))
  BY LeftProps
<1>3. ASSUME NEW i \in 0 .. Len(s) - 1
      PROVE  FlattenSeq(Left(s, i)) = s[i + 1] \o FlattenSeq(Left(s, i + 1))
  <2>1. i \in 0 .. Len(s) /\ i \in Nat /\ i + 1 <= Len(s) /\ i + 1 \in 0 .. Len(s) /\ i + 1 \in 1 .. Len(s)
        /\ 1 \in 1 .. Len(s) - i
    BY <1>1
  <2> DEFINE t == Left(s, i)
  <2>2. t \in Seq(Seq(X)) /\ Len(t) = Len(s) - i /\ t[1] = s[i + 1]
    BY <2>1, LeftProps
  <2>3. Left(t, 1) = Left(s, i + 1)
    BY <2>1, LeftLeft
  <2> HIDE DEF t
  <2>4. t # << >>
    BY <1>1, <2>1, <2>2, EmptySeq
  <2>5. t = <<t[1]>> \o Left(t, 1)
    BY <2>2, <2>4, LeftOne
  <2> DEFINE u == Left(t, 1)
             x == t[1]
  <2>6. u \in Seq(Seq(X)) /\ x \in Seq(X) /\ t = <<x>> \o u
    BY <1>1, <1>2, <2>1, <2>2, <2>3, <2>5
  <2> HIDE DEF u, x
  <2>7. FlattenSeq(<<x>> \o u) = x \o FlattenSeq(u)
    BY <2>6, FlatFirst
  <2> QED BY <2>2, <2>3, <2>6, <2>7 DEF t, u, x
<1>4. FlattenSeq(Left(s, Len(s))) = << >>
  <2>1. Left(s, Len(s)) = << >>
    BY LeftNothing
  <2> QED BY <2>1 DEF FlattenSeq
<1> QED BY <1>2, <1>3, <1>4, FlatTyped

(* What a file that is meant consists of. *)
LEMMA SourceShape ==
  ASSUME CfgAssumption, NEW src \in Files
  PROVE  /\ Zero \in Written /\ "" \in Words /\ src.name \in Words
         /\ src.sections \in Seq(AnySection(Written)) /\ Len(src.sections) \in Nat \ {0}
         /\ \A i \in 1 .. Len(src.sections) :
              LET t == src.sections[i] IN
              /\ t \in AnySection(Written) /\ t.type \in Words /\ t.name \in Words
              /\ t.entries \in Seq(AnyEntry(Written)) /\ Len(t.entries) \in Nat \ {0}
              /\ \A j \in 1 .. Len(t.entries) :
                   t.entries[j] \in EntryOf(Written) /\ t.entries[j] \in AnyEntry(Written)
<1> DEFINE W == Written
           S == src.sections
<1>1. src \in FileOf(W) /\ "" \in Words
  BY DEF CfgAssumption
<1>2. Zero \in W
  <2>1. 0 \in 0 .. 15 /\ <<0>> \in Seq(0 .. 15)
    <3>1. 0 \in 0 .. 15
      OBVIOUS
    <3> QED BY <3>1, SeqOfOne
  <2>2. <<0>> # << >> /\ Len(<<0>>) = 1 /\ DOMAIN <<0>> = {1} /\ <<0>>[1] = 0
    OBVIOUS
  <2> QED BY <2>1, <2>2 DEF Zero, Written
<1> HIDE DEF W
<1>3. EntryOf(W) \subseteq AnyEntry(W)
  BY DEF EntryOf, AnyEntry, EntryTypes
<1>4. Seq(EntryOf(W)) \subseteq Seq(AnyEntry(W))
  BY <1>3, SeqMonotonic
<1>5. SectionOf(W) \subseteq AnySection(W)
  BY <1>4 DEF SectionOf, AnySection
<1>6. src.name \in Words /\ S \in Seq(SectionOf(W)) /\ S # << >>
  BY <1>1 DEF FileOf
<1> HIDE DEF S
<1>7. S \in Seq(AnySection(W)) /\ Len(S) \in Nat \ {0}
  BY <1>5, <1>6, SeqMonotonic, EmptySeq
<1>8. ASSUME NEW i \in 1 .. Len(S)
      PROVE  /\ S[i] \in AnySection(W) /\ S[i].type \in Words /\ S[i].name \in Words
             /\ S[i].entries \in Seq(AnyEntry(W)) /\ Len(S[i].entries) \in Nat \ {0}
             /\ \A j \in 1 .. Len(S[i].entries) :
                  S[i].entries[j] \in EntryOf(W) /\ S[i].entries[j] \in AnyEntry(W)
  <2>1. S[i] \in SectionOf(W)
    BY <1>6, ElementOfSeq
  <2>2. S[i].type \in Words /\ S[i].name \in Words /\ S[i].entries \in Seq(EntryOf(W)) /\ S[i].entries # << >>
    BY <2>1 DEF SectionOf
  <2>3. \A j \in 1 .. Len(S[i].entries) : S[i].entries[j] \in EntryOf(W)
    BY <2>2, ElementOfSeq
  <2> QED BY <1>3, <1>4, <1>5, <2>1, <2>2, <2>3, EmptySeq
<1> QED BY <1>1, <1>2, <1>6, <1>7, <1>8 DEF S, W

LEMMA MapLength ==
  ASSUME NEW S, NEW T, NEW r \in [S -> T], NEW E \in Seq(S)
  PROVE  Mapped(r, E) \in Seq(T) /\ Len(Mapped(r, E)) = Len(E)
<1> DEFINE m == Mapped(r, E)
<1>1. m \in Seq(T)
  BY MapTyped
<1>2. DOMAIN m = DOMAIN E /\ DOMAIN E = 1 .. Len(E) /\ Len(E) \in Nat
  BY LenProperties DEF Mapped
<1> HIDE DEF m
<1>3. DOMAIN m = 1 .. Len(m) /\ Len(m) \in Nat
  BY <1>1, LenProperties
<1>4. Len(m) = Len(E)
  BY <1>2, <1>3
<1> QED BY <1>1, <1>4 DEF m

LEMMA TextsTyped ==
  ASSUME CfgAssumption, NEW src \in Files
  PROVE  LET T == PartOf(Written)
             S == src.sections
             M == SectionTexts(S)
         IN /\ M \in Seq(Seq(T)) /\ Len(M) = Len(S)
            /\ \A i \in 1 .. Len(S) :
                 /\ M[i] = IF i = 1 THEN RenderSection(S[i]) ELSE Mark(",") \o RenderSection(S[i])
                 /\ RenderSection(S[i]) \in Seq(T)
                 /\ EntryTexts(S[i].entries) \in Seq(Seq(T))
                 /\ Len(EntryTexts(S[i].entries)) = Len(S[i].entries)
                 /\ \A j \in 1 .. Len(S[i].entries) :
                      /\ EntryTexts(S[i].entries)[j] = RenderEntry(S[i].entries[j])
                      /\ RenderEntry(S[i].entries[j]) \in Seq(T)
<1> DEFINE W == Written
           T == PartOf(W)
           S == src.sections
           r == [s \in AnySection(W) |-> RenderSection(s)]
           q == [e \in AnyEntry(W) |-> RenderEntry(e)]
           M == SectionTexts(S)
           N == Mapped(r, S)
<1>1. /\ Zero \in W /\ "" \in Words /\ S \in Seq(AnySection(W)) /\ Len(S) \in Nat \ {0}
      /\ \A i \in 1 .. Len(S) :
           /\ S[i] \in AnySection(W) /\ S[i].entries \in Seq(AnyEntry(W)) /\ Len(S[i].entries) \in Nat
           /\ \A j \in 1 .. Len(S[i].entries) : S[i].entries[j] \in AnyEntry(W)
  BY SourceShape
<1>2. r \in [AnySection(W) -> Seq(T)]
  BY <1>1, SectionTyped
<1>3. q \in [AnyEntry(W) -> Seq(T)]
  BY <1>1, EntryTyped
<1>4. \A s \in AnySection(W) : r[s] = RenderSection(s)
  OBVIOUS
<1>5. \A e \in AnyEntry(W) : q[e] = RenderEntry(e)
  OBVIOUS
<1>6. DOMAIN S = 1 .. Len(S)
  BY <1>1, LenProperties
<1>7. [k \in DOMAIN S |-> RenderSection(S[k])] = N
  BY <1>1, <1>4, <1>6 DEF Mapped
<1>8. Mark(",") \in Seq(T)
  BY <1>1, PartTyped DEF Kinds
<1> HIDE DEF r, q, W, T, S
<1>9. N \in Seq(Seq(T)) /\ Len(N) = Len(S) /\ \A i \in 1 .. Len(S) : N[i] = RenderSection(S[i])
  <2>1. N \in Seq(Seq(T)) /\ Len(N) = Len(S)
    <3> DEFINE A == AnySection(W)
               B == Seq(T)
    <3>1. S \in Seq(A) /\ r \in [A -> B]
      BY <1>1, <1>2
    <3> HIDE DEF A, B
    <3>2. \A U, V : \A g \in [U -> V], x \in Seq(U) : Mapped(g, x) \in Seq(V) /\ Len(Mapped(g, x)) = Len(x)
      BY ONLY MapLength
    <3>3. \A g \in [A -> B], x \in Seq(A) : Mapped(g, x) \in Seq(B) /\ Len(Mapped(g, x)) = Len(x)
      BY ONLY <3>2, Zenon
    <3>4. Mapped(r, S) \in Seq(B) /\ Len(Mapped(r, S)) = Len(S)
      BY ONLY <3>1, <3>3, Zenon
    <3> QED BY <3>4 DEF B, N
  <2>2. \A i \in 1 .. Len(S) : N[i] = RenderSection(S[i])
    BY <1>1, <1>4, <1>6 DEF Mapped
  <2> QED BY <2>1, <2>2
<1>10. M = Marked(N)
  BY <1>7 DEF SectionTexts
<1> HIDE DEF M, N
<1>11. M \in Seq(Seq(T)) /\ Len(M) = Len(S)
  BY <1>8, <1>9, <1>10, MarkedTyped
<1>12. DOMAIN N = 1 .. Len(S)
  BY <1>9, LenProperties
<1>13. \A i \in 1 .. Len(S) : M[i] = IF i = 1 THEN RenderSection(S[i]) ELSE Mark(",") \o RenderSection(S[i])
  BY <1>9, <1>10, <1>12 DEF Marked
<1>14. \A i \in 1 .. Len(S) : RenderSection(S[i]) \in Seq(T)
  BY <1>1, <1>2, <1>4
<1>15. ASSUME NEW i \in 1 .. Len(S)
       PROVE  /\ EntryTexts(S[i].entries) \in Seq(Seq(T))
              /\ Len(EntryTexts(S[i].entries)) = Len(S[i].entries)
              /\ \A j \in 1 .. Len(S[i].entries) :
                   /\ EntryTexts(S[i].entries)[j] = RenderEntry(S[i].entries[j])
                   /\ RenderEntry(S[i].entries[j]) \in Seq(T)
  <2> DEFINE E == S[i].entries
  <2>1. E \in Seq(AnyEntry(W)) /\ \A j \in 1 .. Len(E) : E[j] \in AnyEntry(W)
    BY <1>1
  <2> HIDE DEF E
  <2>2. DOMAIN E = 1 .. Len(E)
    BY <2>1, LenProperties
  <2>3. EntryTexts(E) = Mapped(q, E)
    BY <1>5, <2>1, <2>2 DEF EntryTexts, Mapped
  <2>4. Mapped(q, E) \in Seq(Seq(T)) /\ Len(Mapped(q, E)) = Len(E)
    <3> DEFINE A == AnyEntry(W)
               B == Seq(T)
    <3>1. E \in Seq(A) /\ q \in [A -> B]
      BY <1>3, <2>1
    <3> HIDE DEF A, B
    <3>2. Mapped(q, E) \in Seq(B) /\ Len(Mapped(q, E)) = Len(E)
      BY ONLY <3>1, MapLength
    <3> QED BY <3>2 DEF B
  <2>5. \A j \in 1 .. Len(E) : EntryTexts(E)[j] = RenderEntry(E[j])
    BY <2>2 DEF EntryTexts
  <2>6. \A j \in 1 .. Len(E) : RenderEntry(E[j]) \in Seq(T)
    BY <1>3, <1>5, <2>1
  <2> QED BY <2>3, <2>4, <2>5, <2>6 DEF E
<1> QED BY <1>11, <1>13, <1>14, <1>15 DEF M, S, T, W

LEMMA FromSectionUnfolds ==
  ASSUME CfgAssumption, NEW src \in Files
  PROVE  LET S == src.sections
         IN /\ \A i \in 0 .. Len(S) : FromSection(src, i) \in Seq(PartOf(Written))
            /\ FromSection(src, 0) = RenderSection(S[1]) \o FromSection(src, 1)
            /\ \A i \in 1 .. Len(S) - 1 :
                 FromSection(src, i) = Mark(",") \o (RenderSection(S[i + 1]) \o FromSection(src, i + 1))
            /\ FromSection(src, Len(S)) = Mark("}")
<1> DEFINE T == PartOf(Written)
           S == src.sections
           n == Len(S)
           M == SectionTexts(S)
           c == Mark(",")
           z == Mark("}")
           r(i) == RenderSection(S[i])
           f(i) == FlattenSeq(Left(M, i))
<1>1. n \in Nat \ {0} /\ Zero \in Written /\ "" \in Words
  BY SourceShape
<1>2. /\ M \in Seq(Seq(T)) /\ Len(M) = n
      /\ \A i \in 1 .. n : M[i] = (IF i = 1 THEN r(i) ELSE c \o r(i)) /\ r(i) \in Seq(T)
  BY TextsTyped
<1>3. c \in Seq(T) /\ z \in Seq(T)
  BY <1>1, PartTyped DEF Kinds
<1>4. \A i : FromSection(src, i) = f(i) \o z
  BY DEF FromSection
<1> HIDE DEF T, S, n, M, c, z, r
<1>0. n \in Nat \ {0}
  BY <1>1
<1>5. /\ \A i \in 0 .. n : f(i) \in Seq(T)
      /\ \A i \in 0 .. n - 1 : f(i) = M[i + 1] \o f(i + 1)
      /\ f(n) = << >>
  <2>1. /\ \A i \in 0 .. Len(M) : FlattenSeq(Left(M, i)) \in Seq(T)
        /\ \A i \in 0 .. Len(M) - 1 : FlattenSeq(Left(M, i)) = M[i + 1] \o FlattenSeq(Left(M, i + 1))
        /\ FlattenSeq(Left(M, Len(M))) = << >>
    BY <1>2, LeftFlat
  <2> QED BY <1>2, <2>1
<1> HIDE DEF f
<1>6. \A i \in 0 .. n : FromSection(src, i) \in Seq(T)
  BY <1>3, <1>4, <1>5, ConcatProperties
<1>7. FromSection(src, 0) = r(1) \o FromSection(src, 1)
  <2>1. 0 \in 0 .. n - 1 /\ 0 + 1 = 1 /\ 1 \in 1 .. n /\ 1 \in 0 .. n
    BY ONLY <1>0
  <2>2. f(0) = r(1) \o f(1) /\ r(1) \in Seq(T) /\ f(1) \in Seq(T)
    BY <1>2, <1>5, <2>1
  <2>3. Cat(Cat(r(1), f(1)), z) = Cat(r(1), Cat(f(1), z))
    BY <1>3, <2>2, CatAssoc
  <2> QED BY <1>4, <2>2, <2>3 DEF Cat
<1>8. ASSUME NEW i \in 1 .. n - 1
      PROVE  FromSection(src, i) = c \o (r(i + 1) \o FromSection(src, i + 1))
  <2>1. i \in 0 .. n - 1 /\ i + 1 \in 1 .. n /\ i + 1 \in 0 .. n /\ i + 1 # 1
    BY ONLY <1>0, i \in 1 .. n - 1
  <2>2. f(i) = (c \o r(i + 1)) \o f(i + 1) /\ r(i + 1) \in Seq(T) /\ f(i + 1) \in Seq(T)
    BY <1>2, <1>5, <2>1
  <2>3. Cat(c, Cat(r(i + 1), Cat(f(i + 1), z))) = Cat(Cat(Cat(c, r(i + 1)), f(i + 1)), z)
    BY <1>3, <2>2, RegroupedThree
  <2> QED BY <1>4, <2>2, <2>3 DEF Cat
<1>9. FromSection(src, n) = z
  BY <1>3, <1>4, <1>5, ConcatEmptySeq
<1> QED BY <1>6, <1>7, <1>8, <1>9 DEF T, S, n, c, z, r

LEMMA FromEntryUnfolds ==
  ASSUME CfgAssumption, NEW src \in Files, NEW i \in 1 .. Len(src.sections)
  PROVE  LET t == src.sections[i]
             E == t.entries
         IN /\ \A j \in 0 .. Len(E) : FromEntry(src, i, j) \in Seq(PartOf(Written))
            /\ \A j \in 0 .. Len(E) - 1 :
                 FromEntry(src, i, j) =
                   Part({"name"}, E[j + 1].name)
                     \o (Mark("=") \o (ValuePart(E[j + 1]) \o (Mark(";") \o FromEntry(src, i, j + 1))))
            /\ FromEntry(src, i, Len(E)) = Mark("}") \o FromSection(src, i)
            /\ RenderSection(t) \o FromSection(src, i) =
                 Part({"name"}, t.type) \o (Part({"name", "string"}, t.name) \o (Mark("{") \o FromEntry(src, i, 0)))
<1> DEFINE T == PartOf(Written)
           t == src.sections[i]
           E == t.entries
           n == Len(E)
           M == EntryTexts(E)
           z == Mark("}")
           o == Mark("{")
           y == FromSection(src, i)
           f(j) == FlattenSeq(Left(M, j))
           h(j) == Part({"name"}, E[j].name)
           q == Mark("=")
           v(j) == ValuePart(E[j])
           s == Mark(";")
           a == Part({"name"}, t.type)
           b == Part({"name", "string"}, t.name)
           r(j) == RenderEntry(E[j])
<1>1. /\ Zero \in Written /\ "" \in Words /\ n \in Nat \ {0} /\ t \in AnySection(Written)
      /\ t.type \in Words /\ t.name \in Words
      /\ E \in Seq(AnyEntry(Written)) /\ \A j \in 1 .. n : E[j] \in AnyEntry(Written)
  BY SourceShape
<1>2. M \in Seq(Seq(T)) /\ Len(M) = n /\ \A j \in 1 .. n : M[j] = r(j)
  BY TextsTyped
<1>3. \A j \in 1 .. n : /\ h(j) \in Seq(T) /\ v(j) \in Seq(T)
                        /\ r(j) = ((h(j) \o q) \o v(j)) \o s
  <2> TAKE j \in 1 .. n
  <2>1. E[j] \in AnyEntry(Written) /\ E[j].name \in Words
    BY <1>1 DEF AnyEntry
  <2> QED BY <1>1, <2>1, EntryTyped, PartTyped
<1>4. /\ q \in Seq(T) /\ s \in Seq(T) /\ z \in Seq(T) /\ o \in Seq(T) /\ a \in Seq(T) /\ b \in Seq(T)
  BY <1>1, PartTyped DEF Kinds
<1>5. y \in Seq(T)
  <2> DEFINE m == Len(src.sections)
  <2>1. m \in Nat \ {0}
    BY SourceShape
  <2>2. i \in 1 .. m
    OBVIOUS
  <2> HIDE DEF m
  <2>3. i \in 0 .. m
    BY ONLY <2>1, <2>2
  <2> QED BY <2>3, FromSectionUnfolds DEF m
<1>6. \A j : FromEntry(src, i, j) = f(j) \o (z \o y)
  BY DEF FromEntry
<1>7. RenderSection(t) = (((a \o b) \o o) \o EntryParts(E)) \o z
  BY <1>1, SectionTyped DEF SectionHead
<1>8. EntryParts(E) = FlattenSeq(M)
  BY DEF EntryParts, EntryTexts
<1>9. FlattenSeq(M) = f(0)
  <2> HIDE DEF M, T
  <2>1. Left(M, 0) = M
    BY <1>2, LeftNothing
  <2> QED BY <2>1
<1> HIDE DEF T, E, t, n, M, z, o, y, h, q, v, s, a, b, r
<1>0. n \in Nat \ {0}
  BY <1>1
<1>10. /\ \A j \in 0 .. n : f(j) \in Seq(T)
       /\ \A j \in 0 .. n - 1 : f(j) = M[j + 1] \o f(j + 1)
       /\ f(n) = << >>
  <2>1. /\ \A j \in 0 .. Len(M) : FlattenSeq(Left(M, j)) \in Seq(T)
        /\ \A j \in 0 .. Len(M) - 1 : FlattenSeq(Left(M, j)) = M[j + 1] \o FlattenSeq(Left(M, j + 1))
        /\ FlattenSeq(Left(M, Len(M))) = << >>
    BY <1>2, LeftFlat
  <2> QED BY <1>2, <2>1
<1> HIDE DEF f
<1> DEFINE zy == z \o y
<1>11. zy \in Seq(T)
  BY <1>4, <1>5, ConcatProperties
<1>12. \A j \in 0 .. n : FromEntry(src, i, j) \in Seq(T)
  <2> HIDE DEF zy
  <2> QED BY <1>6, <1>10, <1>11, ConcatProperties DEF zy
<1>13. FromEntry(src, i, n) = zy
  <2> HIDE DEF zy
  <2>1. FromEntry(src, i, n) = << >> \o zy
    BY <1>6, <1>10 DEF zy
  <2> QED BY <1>11, <2>1, ConcatEmptySeq
<1>14. ASSUME NEW j \in 0 .. n - 1
       PROVE  FromEntry(src, i, j) = h(j + 1) \o (q \o (v(j + 1) \o (s \o FromEntry(src, i, j + 1))))
  <2>1. j + 1 \in 1 .. n /\ j + 1 \in 0 .. n
    BY ONLY <1>0, j \in 0 .. n - 1
  <2> DEFINE k == j + 1
  <2>2. f(j) = r(k) \o f(k) /\ f(k) \in Seq(T) /\ h(k) \in Seq(T) /\ v(k) \in Seq(T)
        /\ r(k) = ((h(k) \o q) \o v(k)) \o s
    BY <1>2, <1>3, <1>10, <2>1
  <2> HIDE DEF zy, k
  <2>3. FromEntry(src, i, j) = f(j) \o zy /\ FromEntry(src, i, k) = f(k) \o zy
    BY <1>6 DEF zy
  <2> DEFINE hk == h(k)
             vk == v(k)
             fk == f(k)
             w == Cat(fk, zy)
             g == Cat(Cat(Cat(hk, q), vk), s)
  <2>4. hk \in Seq(T) /\ vk \in Seq(T) /\ fk \in Seq(T)
    BY <2>2
  <2>5. f(j) = Cat(g, fk)
    BY <2>2 DEF Cat
  <2> HIDE DEF hk, vk, fk
  <2>6. w \in Seq(T) /\ g \in Seq(T)
    BY <1>4, <1>11, <2>4, CatTyped
  <2>7. Cat(Cat(g, fk), zy) = Cat(g, w)
    <3> HIDE DEF g
    <3> QED BY <1>11, <2>4, <2>6, CatAssoc
  <2>8. Cat(g, w) = Cat(hk, Cat(q, Cat(vk, Cat(s, w))))
    <3> HIDE DEF w
    <3>1. Cat(Cat(Cat(Cat(hk, q), vk), s), w) = Cat(Cat(Cat(hk, q), vk), Cat(s, w))
      <4> DEFINE l == Cat(Cat(hk, q), vk)
      <4>1. l \in Seq(T)
        BY <1>4, <2>4, CatTyped
      <4> HIDE DEF l
      <4>2. Cat(Cat(l, s), w) = Cat(l, Cat(s, w))
        BY <1>4, <2>6, <4>1, CatAssoc
      <4> QED BY <4>2 DEF l
    <3>2. Cat(s, w) \in Seq(T)
      BY <1>4, <2>6, CatTyped
    <3>3. Cat(hk, Cat(q, Cat(vk, Cat(s, w)))) = Cat(Cat(Cat(hk, q), vk), Cat(s, w))
      BY <1>4, <2>4, <3>2, RegroupedThree
    <3> QED BY <3>1, <3>3
  <2>9. FromEntry(src, i, j) = Cat(hk, Cat(q, Cat(vk, Cat(s, w))))
    <3>1. FromEntry(src, i, j) = Cat(Cat(g, fk), zy)
      <4> HIDE DEF g
      <4> QED BY <2>3, <2>5 DEF Cat
    <3> HIDE DEF g, w
    <3> QED BY <2>7, <2>8, <3>1
  <2>10. w = FromEntry(src, i, k)
    BY <2>3 DEF Cat, fk
  <2> HIDE DEF w
  <2> QED BY <2>9, <2>10 DEF Cat, hk, vk, k
<1>15. RenderSection(t) \o y = a \o (b \o (o \o FromEntry(src, i, 0)))
  <2> DEFINE w == Cat(f(0), zy)
             g == Cat(Cat(a, b), o)
             f0 == f(0)
  <2>1. f0 \in Seq(T)
    <3>1. 0 \in 0 .. n
      BY ONLY <1>0
    <3> QED BY <1>10, <3>1
  <2>2. FromEntry(src, i, 0) = w
    BY <1>6 DEF Cat
  <2>3. RenderSection(t) \o y = Cat(Cat(Cat(g, f0), z), y)
    BY <1>7, <1>8, <1>9 DEF Cat
  <2>4. w = Cat(f0, Cat(z, y))
    BY DEF Cat
  <2> HIDE DEF f0, w, zy
  <2>5. g \in Seq(T) /\ w \in Seq(T)
    <3>1. g \in Seq(T)
      BY <1>4, CatTyped
    <3> HIDE DEF g
    <3> QED BY <1>4, <1>5, <2>1, <2>4, <3>1, CatTyped
  <2>6. Cat(Cat(Cat(g, f0), z), y) = Cat(g, w)
    <3> HIDE DEF g
    <3> QED BY <1>4, <1>5, <2>1, <2>4, <2>5, RegroupedThree
  <2>7. Cat(g, w) = Cat(a, Cat(b, Cat(o, w)))
    BY <1>4, <2>5, RegroupedThree
  <2> HIDE DEF g
  <2> QED BY <2>2, <2>3, <2>6, <2>7 DEF Cat
<1> QED BY <1>12, <1>13, <1>14, <1>15 DEF T, t, E, n, z, o, y, h, q, v, s, a, b

LEMMA RenderUnfolds ==
  ASSUME CfgAssumption, NEW src \in Files
  PROVE  /\ Render(src) = Part({"name"}, src.name) \o (Mark("{") \o FromSection(src, 0))
         /\ Render(src) \in Seq(PartOf(Written))
<1> DEFINE T == PartOf(Written)
           S == src.sections
           a == Part({"name"}, src.name)
           o == Mark("{")
           z == Mark("}")
           f == FlattenSeq(SectionTexts(S))
<1>1. Zero \in Written /\ "" \in Words /\ src.name \in Words
  BY SourceShape
<1>2. a \in Seq(T) /\ o \in Seq(T) /\ z \in Seq(T)
  BY <1>1, PartTyped DEF Kinds
<1>3. SectionTexts(S) \in Seq(Seq(T))
  BY TextsTyped
<1>4. f \in Seq(T) /\ Left(SectionTexts(S), 0) = SectionTexts(S)
  BY <1>3, FlatTyped, LeftNothing
<1>5. FromSection(src, 0) = f \o z
  BY <1>4 DEF FromSection
<1>6. Render(src) = ((a \o o) \o f) \o z
  <2> DEFINE N == [k \in DOMAIN S |-> RenderSection(S[k])]
  <2>1. Separated(N) = FlattenSeq(Marked(N))
    BY DEF Separated, Marked
  <2>2. SectionTexts(S) = Marked(N)
    BY DEF SectionTexts
  <2>3. Render(src) = ((a \o o) \o Separated(N)) \o z
    BY DEF Render
  <2> HIDE DEF N
  <2> QED BY <2>1, <2>2, <2>3
<1> HIDE DEF T, S, a, o, z, f
<1>7. Cat(a, Cat(o, Cat(f, z))) = Cat(Cat(Cat(a, o), f), z)
  BY <1>2, <1>4, RegroupedThree
<1>8. Cat(Cat(Cat(a, o), f), z) \in Seq(T)
  BY <1>2, <1>4, CatTyped
<1> QED BY <1>5, <1>6, <1>7, <1>8 DEF Cat, a, o, T

-----------------------------------------------------------------------------
(* The start of what is meant. *)

LEMMA BeginsMore ==
  ASSUME NEW A, NEW P \in Seq(A), NEW x \in A, NEW M, Len(M) \in Nat,
         Begins(P, M), Len(P) < Len(M), x = M[Len(P) + 1]
  PROVE  Begins(Append(P, x), M) /\ Len(Append(P, x)) = Len(P) + 1
<1> DEFINE n == Len(P)
           Q == Append(P, x)
<1>1. n \in Nat
  BY LenProperties
<1>2. Len(Q) = n + 1 /\ (\A k \in 1 .. n : Q[k] = P[k]) /\ Q[n + 1] = x
  BY AppendProperties
<1>3. \A k \in 1 .. n : P[k] = M[k]
  BY DEF Begins
<1> HIDE DEF Q
<1>4. ASSUME NEW k \in 1 .. n + 1 PROVE Q[k] = M[k]
  <2>1. CASE k = n + 1
    BY <1>2, <2>1
  <2>2. CASE k # n + 1
    <3>1. k \in 1 .. n
      BY <1>1, <2>2
    <3> QED BY <1>2, <1>3, <3>1
  <2> QED BY <2>1, <2>2
<1>5. n + 1 <= Len(M)
  BY <1>1
<1> QED BY <1>2, <1>4, <1>5 DEF Begins, Q

LEMMA BeginsAll ==
  ASSUME NEW A, NEW P \in Seq(A), NEW M, M = [k \in 1 .. Len(M) |-> M[k]],
         Begins(P, M), Len(P) = Len(M)
  PROVE  P = M
<1>1. P = [k \in 1 .. Len(P) |-> P[k]]
  OBVIOUS
<1>2. \A k \in 1 .. Len(P) : P[k] = M[k]
  BY DEF Begins
<1>3. [k \in 1 .. Len(P) |-> P[k]] = [k \in 1 .. Len(M) |-> M[k]]
  BY <1>2
<1> QED BY ONLY <1>1, <1>3, M = [k \in 1 .. Len(M) |-> M[k]]

LEMMA BeginsNone ==
  ASSUME NEW M, Len(M) \in Nat
  PROVE  Begins(<< >>, M) /\ Len(<< >>) = 0
<1>1. Len(<< >>) = 0
  OBVIOUS
<1> QED BY <1>1 DEF Begins

LEMMA LenOfFun ==
  ASSUME NEW n \in Nat, NEW M, M = [k \in 1 .. n |-> M[k]]
  PROVE  Len(M) = n
<1> DEFINE U == {M[k] : k \in 1 .. n}
<1>1. M \in [1 .. n -> U]
  <2>1. \A k \in 1 .. n : M[k] \in U
    OBVIOUS
  <2> HIDE DEF U
  <2> QED BY <2>1
<1> HIDE DEF U
<1>2. M \in Seq(U)
  BY <1>1
<1> QED BY <1>1, <1>2

LEMMA MeantShape ==
  ASSUME CfgAssumption, NEW src \in Files
  PROVE  LET m == Meant(src)
             S == src.sections
             M == m.sections
         IN /\ m = [name |-> src.name, sections |-> M]
            /\ Len(M) = Len(S) /\ M = [k \in 1 .. Len(M) |-> M[k]]
            /\ \A i \in 1 .. Len(S) :
                 LET E == M[i].entries IN
                 /\ M[i] = [type |-> S[i].type, name |-> S[i].name, entries |-> E]
                 /\ Len(E) = Len(S[i].entries) /\ E = [k \in 1 .. Len(E) |-> E[k]]
                 /\ \A j \in 1 .. Len(S[i].entries) : E[j] = MeantEntry(S[i].entries[j])
<1> DEFINE S == src.sections
           L(t) == [j \in DOMAIN t.entries |-> MeantEntry(t.entries[j])]
           M == Meant(src).sections
<1>1. /\ S \in Seq(AnySection(Written)) /\ Len(S) \in Nat
      /\ \A i \in 1 .. Len(S) : /\ S[i].entries \in Seq(AnyEntry(Written)) /\ Len(S[i].entries) \in Nat
  BY SourceShape
<1>2. DOMAIN S = 1 .. Len(S)
  BY <1>1, LenProperties
<1>3. Meant(src) = [name |-> src.name, sections |-> M]
  BY DEF Meant
<1>4. M = [i \in DOMAIN S |-> MeantSection(S[i])]
  BY DEF Meant
<1> HIDE DEF M, S
<1>5. M = [k \in 1 .. Len(S) |-> M[k]] /\ \A i \in 1 .. Len(S) : M[i] = MeantSection(S[i])
  BY <1>2, <1>4
<1>6. Len(M) = Len(S)
  BY <1>1, <1>5, LenOfFun
<1>7. ASSUME NEW i \in 1 .. Len(S)
      PROVE  /\ M[i] = [type |-> S[i].type, name |-> S[i].name, entries |-> M[i].entries]
             /\ Len(M[i].entries) = Len(S[i].entries)
             /\ M[i].entries = [k \in 1 .. Len(M[i].entries) |-> M[i].entries[k]]
             /\ \A j \in 1 .. Len(S[i].entries) : M[i].entries[j] = MeantEntry(S[i].entries[j])
  <2> DEFINE t == S[i]
             E == t.entries
             K == L(t)
  <2>1. E \in Seq(AnyEntry(Written)) /\ Len(E) \in Nat
    BY <1>1
  <2>2. DOMAIN E = 1 .. Len(E)
    BY <2>1, LenProperties
  <2>3. K = [k \in 1 .. Len(E) |-> MeantEntry(E[k])]
    BY <2>2
  <2>4. M[i] = [type |-> t.type, name |-> t.name, entries |-> K]
    BY <1>5 DEF MeantSection
  <2> HIDE DEF K, t, E
  <2>5. K = [k \in 1 .. Len(E) |-> K[k]] /\ \A j \in 1 .. Len(E) : K[j] = MeantEntry(E[j])
    BY <2>3
  <2>6. Len(K) = Len(E)
    BY <2>1, <2>5, LenOfFun
  <2>7. M[i].entries = K
    BY <2>4
  <2> QED BY <2>4, <2>5, <2>6, <2>7 DEF t, E
<1> QED BY <1>3, <1>5, <1>6, <1>7 DEF M, S

-----------------------------------------------------------------------------
(* A part that is left is the next token. *)

LEMMA PartAsked ==
  ASSUME CfgAssumption, NEW src \in Files
  PROVE  /\ \A v \in Words : /\ Asked({"name"}, v) \in PartOf(Written)
                             /\ Part({"name"}, v) = <<Asked({"name"}, v)>>
                             /\ Asked({"name", "string"}, v) \in PartOf(Written)
                             /\ Part({"name", "string"}, v) = <<Asked({"name", "string"}, v)>>
                             /\ Part({"string", "name"}, v) = <<Asked({"name", "string"}, v)>>
         /\ \A k \in Kinds \ {"name", "string"} :
              Asked({k}, "") \in PartOf(Written) /\ Mark(k) = <<Asked({k}, "")>>
<1>1. Zero \in Written /\ "" \in Words
  BY SourceShape
<1>2. {"name"} \in PartKinds /\ {"name", "string"} \in PartKinds /\ \A k \in Kinds : {k} \in PartKinds
  BY DEF PartKinds, Kinds
<1>3. {"string", "name"} = {"name", "string"}
  OBVIOUS
<1>4. \A k \in Kinds \ {"name", "string"} : {k} \cap {"name", "string"} = {}
  OBVIOUS
<1> QED BY <1>1, <1>2, <1>3, <1>4 DEF Asked, Part, Mark, PartOf

LEMMA TokenRead ==
  ASSUME CfgAssumption, GrammarInv, SourceInv, edit = "none",
         NEW p \in PartOf(Written), NEW R \in Seq(PartOf(Written)),
         LeftFor(source, parsing, file) = <<p>> \o R
  PROVE  /\ pos \in 1 .. Len(text) /\ Left(Render(source), pos) = R
         /\ Tok = text[pos] /\ Tok \in Token /\ Tok.k \in p.k /\ Tok.v = p.v
         /\ p.k = {"number"} => Tok.chars = SpellNumber(p.number)
<1> DEFINE T == PartOf(Written)
           r == Render(source)
           n == Len(r)
           l == Left(r, pos - 1)
<1>1. source \in Files /\ l = <<p>> \o R
  BY DEF SourceInv
<1>2. PICK quotes \in {"name", "string"} : text = TextOf(r, quotes)
  BY DEF SourceInv
<1>3. r \in Seq(T) /\ n \in Nat /\ DOMAIN r = 1 .. n /\ \A i \in 1 .. n : r[i] \in T
  <2>1. r \in Seq(T)
    BY <1>1, RenderUnfolds
  <2> HIDE DEF r, T
  <2> QED BY <2>1, LenProperties, ElementOfSeq
<1> DEFINE k(x) == IF Cardinality(x.k) = 1 THEN CHOOSE y \in x.k : TRUE ELSE quotes
           c(x) == IF x.k = {"number"} THEN SpellNumber(x.number) ELSE << >>
           t(x) == [k |-> k(x), v |-> x.v, chars |-> c(x)]
<1>4. text = [i \in DOMAIN r |-> t(r[i])]
  BY <1>2 DEF TextOf
<1>5. text \in Seq(Token) /\ pos \in 1 .. Len(text) + 1
  BY DEF GrammarInv
<1>6. T # {} /\ p \in T /\ R \in Seq(T)
  OBVIOUS
<1>7. \A x \in T : k(x) \in x.k
  <2> TAKE x \in T
  <2>1. x.k \in PartKinds
    BY DEF PartOf
  <2>2. CASE x.k = {"name", "string"}
    BY <2>2
  <2>3. ASSUME NEW z \in Kinds, x.k = {z} PROVE k(x) \in x.k
    <3>1. Cardinality({z}) = 1
      BY FS_Singleton
    <3> QED BY <2>3, <3>1
  <2> QED BY <2>1, <2>2, <2>3 DEF PartKinds
<1> HIDE DEF r, T, n, l, k, c
<1>8. Len(text) = n /\ \A i \in 1 .. n : text[i] = t(r[i])
  <2>1. text = [i \in 1 .. n |-> text[i]] /\ \A i \in 1 .. n : text[i] = t(r[i])
    BY <1>3, <1>4
  <2>2. Len(text) = n
    BY <1>3, <2>1, LenOfFun
  <2> QED BY <2>1, <2>2
<1>9. pos \in Nat /\ pos \in 1 .. n + 1 /\ pos - 1 \in 0 .. n /\ pos - 1 \in Nat
  <2>1. pos \in 1 .. n + 1 /\ n \in Nat
    BY <1>3, <1>5, <1>8
  <2> QED BY ONLY <2>1
<1>10. l \in Seq(T) /\ Len(l) = n - (pos - 1) /\ \A i \in 1 .. n - (pos - 1) : l[i] = r[(pos - 1) + i]
  BY <1>3, <1>9, LeftProps DEF l, n
<1>11. l # << >> /\ Head(l) = p /\ Tail(l) = R
  BY <1>1, <1>6, Unread
<1>12. Len(l) \in Nat \ {0} /\ l[1] = p /\ R = Left(l, 1)
  BY <1>10, <1>11, LeftOne
<1>13. pos \in 1 .. n /\ (pos - 1) + 1 = pos /\ 1 \in 1 .. n - (pos - 1) /\ (pos - 1) + 1 <= n
  <2>1. pos \in 1 .. n + 1 /\ n \in Nat /\ n - (pos - 1) \in Nat \ {0}
    BY <1>3, <1>9, <1>10, <1>12
  <2> QED BY ONLY <2>1
<1>14. r[pos] = p
  BY <1>10, <1>12, <1>13
<1>15. Left(l, 1) = Left(r, pos)
  <2>1. 1 \in Nat
    OBVIOUS
  <2>2. Left(Left(r, pos - 1), 1) = Left(r, (pos - 1) + 1)
    BY <1>3, <1>9, <1>13, <2>1, LeftLeft DEF n
  <2> QED BY <1>13, <2>2 DEF l
<1>16. Tok = text[pos] /\ text[pos] = t(p)
  <2>1. pos <= Len(text)
    BY <1>8, <1>13
  <2> QED BY <1>8, <1>13, <1>14, <2>1 DEF Tok
<1>17. text[pos] \in Token
  BY <1>5, <1>8, <1>13, ElementOfSeq
<1>18. t(p).k = k(p) /\ t(p).v = p.v /\ t(p).chars = c(p)
  OBVIOUS
<1>19. k(p) \in p.k
  BY <1>6, <1>7
<1>20. p.k = {"number"} => c(p) = SpellNumber(p.number)
  BY DEF c
<1> HIDE DEF t
<1> QED BY <1>8, <1>12, <1>13, <1>15, <1>16, <1>17, <1>18, <1>19, <1>20 DEF r

(* A token is read and the rest is left. *)
LEMMA ReadOn ==
  ASSUME SourceInv, edit = "none", NEW R, Left(Render(source), pos) = R, pos \in Nat,
         pos' = pos + 1, UNCHANGED input, parsing' \in Calls,
         LeftFor(source, parsing', file') = R, SoFar(Meant(source), parsing', file')
  PROVE  SourceInv'
<1>1. source' = source /\ edit' = edit /\ text' = text
  BY DEF input
<1>2. pos' - 1 = pos
  OBVIOUS
<1>3. /\ source \in Files /\ \E quotes \in {"name", "string"} : text = TextOf(Render(source), quotes)
  BY DEF SourceInv
<1>4. Left(Render(source'), pos' - 1) = LeftFor(source', parsing', file')
  BY <1>1, <1>2
<1>5. SoFar(Meant(source'), parsing', file')
  BY <1>1
<1>6. source' \in Files /\ \E quotes \in {"name", "string"} : text' = TextOf(Render(source'), quotes)
  BY <1>1, <1>3
<1> QED BY <1>4, <1>5, <1>6 DEF SourceInv

LEMMA NameReads ==
  ASSUME CfgAssumption, GrammarInv, SourceInv, edit = "none", NEW v \in Words,
         NEW R \in Seq(PartOf(Written)), LeftFor(source, parsing, file) = Part({"name"}, v) \o R
  PROVE  /\ At("name") /\ Tok.v = v /\ Left(Render(source), pos) = R /\ pos \in Nat
<1>1. source \in Files
  BY DEF SourceInv
<1>2. Asked({"name"}, v) \in PartOf(Written) /\ LeftFor(source, parsing, file) = <<Asked({"name"}, v)>> \o R
  BY <1>1, PartAsked
<1>3. /\ pos \in 1 .. Len(text) /\ Left(Render(source), pos) = R
      /\ Tok.k \in Asked({"name"}, v).k /\ Tok.v = Asked({"name"}, v).v
  BY <1>2, TokenRead
<1> QED BY <1>3 DEF At, Asked

LEMMA WordReads ==
  ASSUME CfgAssumption, GrammarInv, SourceInv, edit = "none", NEW v \in Words,
         NEW R \in Seq(PartOf(Written)), LeftFor(source, parsing, file) = Part({"name", "string"}, v) \o R
  PROVE  AtWord /\ ~ At("number") /\ Tok.v = v /\ Left(Render(source), pos) = R /\ pos \in Nat
<1>1. source \in Files
  BY DEF SourceInv
<1> DEFINE p == Asked({"name", "string"}, v)
<1>2. p \in PartOf(Written) /\ LeftFor(source, parsing, file) = <<p>> \o R
  BY <1>1, PartAsked
<1>3. p.k = {"name", "string"} /\ p.v = v
  BY DEF Asked
<1> HIDE DEF p
<1>4. pos \in 1 .. Len(text) /\ Left(Render(source), pos) = R /\ Tok.k \in p.k /\ Tok.v = p.v
  BY <1>2, TokenRead
<1> QED BY <1>3, <1>4 DEF At, AtWord

LEMMA MarkReads ==
  ASSUME CfgAssumption, GrammarInv, SourceInv, edit = "none", NEW k \in Kinds \ {"name", "string"},
         NEW R \in Seq(PartOf(Written)), LeftFor(source, parsing, file) = Mark(k) \o R
  PROVE  At(k) /\ Left(Render(source), pos) = R /\ pos \in Nat
<1>1. source \in Files
  BY DEF SourceInv
<1> DEFINE p == Asked({k}, "")
<1>2. p \in PartOf(Written) /\ LeftFor(source, parsing, file) = <<p>> \o R
  BY <1>1, PartAsked
<1>3. p.k = {k}
  BY DEF Asked
<1> HIDE DEF p
<1>4. pos \in 1 .. Len(text) /\ Left(Render(source), pos) = R /\ Tok.k \in p.k
  BY <1>2, TokenRead
<1> QED BY <1>3, <1>4 DEF At

-----------------------------------------------------------------------------
(* Every call reads what is left for it. *)

Unedited == GrammarInv /\ SourceInv /\ edit = "none"

LEMMA FileNameReads ==
  ASSUME CfgAssumption, Unedited, FileName
  PROVE  SourceInv'
<1>1. source \in Files /\ parsing = "file" /\ LeftFor(source, parsing, file)
        = Part({"name"}, source.name) \o (Mark("{") \o FromSection(source, 0))
  BY DEF Unedited, SourceInv, FileName, LeftFor
<1> DEFINE R == Mark("{") \o FromSection(source, 0)
           T == PartOf(Written)
<1>2. source.name \in Words /\ Zero \in Written /\ "" \in Words /\ Len(source.sections) \in Nat
  BY <1>1, SourceShape
<1>3. R \in Seq(T)
  <2>1. Mark("{") \in Seq(T)
    BY <1>2, PartTyped DEF Kinds
  <2>2. 0 \in 0 .. Len(source.sections)
    <3>1. Len(source.sections) \in Nat
      BY <1>2
    <3> QED BY ONLY <3>1
  <2>3. FromSection(source, 0) \in Seq(T)
    BY <1>1, <2>2, FromSectionUnfolds
  <2> QED BY <2>1, <2>3, ConcatProperties
<1> HIDE DEF R, T
<1>4. At("name") /\ Tok.v = source.name /\ Left(Render(source), pos) = R /\ pos \in Nat
  BY <1>1, <1>2, <1>3, NameReads DEF Unedited, R, T
<1>5. /\ pos' = pos + 1 /\ parsing' = "fileOpen" /\ UNCHANGED input
      /\ file' = [file EXCEPT !.name = source.name]
  BY <1>4 DEF FileName, Accept
<1>6. file'.name = source.name
  BY <1>5 DEF Unedited, GrammarInv, AnyFile
<1>7. parsing' \in Calls /\ LeftFor(source, parsing', file') = R
  BY <1>5 DEF Calls, LeftFor, R
<1>8. Meant(source).name = source.name
  BY DEF Meant
<1>9. SoFar(Meant(source), parsing', file')
  BY <1>5, <1>6, <1>8 DEF SoFar, InSection, InEntry
<1> QED BY <1>4, <1>5, <1>7, <1>9, ReadOn DEF Unedited

LEMMA FileOpenReads ==
  ASSUME CfgAssumption, Unedited, Brace("fileOpen", "section")
  PROVE  SourceInv'
<1>1. source \in Files /\ parsing = "fileOpen" /\ file.sections = << >>
      /\ LeftFor(source, parsing, file) = Mark("{") \o FromSection(source, 0)
      /\ file.name = Meant(source).name
  BY DEF Unedited, SourceInv, GrammarInv, Brace, LeftFor, SoFar
<1> DEFINE R == FromSection(source, 0)
           M == Meant(source).sections
<1>2. Len(source.sections) \in Nat \ {0} /\ 0 \in 0 .. Len(source.sections)
  <2>1. Len(source.sections) \in Nat \ {0}
    BY <1>1, SourceShape
  <2> QED BY <2>1
<1>3. R \in Seq(PartOf(Written)) /\ R = RenderSection(source.sections[1]) \o FromSection(source, 1)
  BY <1>1, <1>2, FromSectionUnfolds
<1> HIDE DEF R
<1>4. At("{") /\ Left(Render(source), pos) = R /\ pos \in Nat
  <2>1. "{" \in Kinds \ {"name", "string"}
    BY DEF Kinds
  <2> QED BY <1>1, <1>3, <2>1, MarkReads DEF Unedited, R
<1>5. pos' = pos + 1 /\ parsing' = "section" /\ UNCHANGED input /\ file' = file
  BY <1>4 DEF Brace, Accept
<1>6. Len(file.sections) = 0 /\ 0 + 1 = 1
  <2>1. file.sections = << >>
    BY <1>1
  <2>2. Len(<< >>) = 0
    OBVIOUS
  <2> QED BY <2>1, <2>2
<1>7. parsing' \in Calls /\ LeftFor(source, parsing', file') = R
  BY <1>3, <1>5, <1>6 DEF Calls, LeftFor
<1>8. Len(M) = Len(source.sections)
  BY <1>1, MeantShape
<1> HIDE DEF M
<1>9. Begins(file.sections, M) /\ Len(file.sections) < Len(M)
  <2>1. Len(M) \in Nat \ {0}
    BY <1>2, <1>8
  <2>2. Begins(<< >>, M)
    BY <2>1, BeginsNone
  <2>3. file.sections = << >>
    BY <1>1
  <2>4. 0 < Len(M)
    BY ONLY <2>1
  <2> QED BY <1>6, <2>2, <2>3, <2>4
<1>10. SoFar(Meant(source), parsing', file')
  BY <1>1, <1>5, <1>9 DEF SoFar, InSection, InEntry, M
<1> QED BY <1>4, <1>5, <1>7, <1>10, ReadOn DEF Unedited

LEMMA SectionTypeReads ==
  ASSUME CfgAssumption, Unedited, SectionType
  PROVE  SourceInv'
<1> DEFINE S == source.sections
           M == Meant(source).sections
           F == file.sections
           n == Len(F)
           i == n + 1
           t == S[i]
           T == PartOf(Written)
           R == Part({"name", "string"}, t.name) \o (Mark("{") \o FromEntry(source, i, 0))
<1>1. source \in Files /\ parsing = "section"
      /\ LeftFor(source, parsing, file) = RenderSection(t) \o FromSection(source, i)
      /\ file.name = Meant(source).name /\ Begins(F, M) /\ n < Len(M)
  BY DEF Unedited, SourceInv, SectionType, LeftFor, SoFar
<1>2. F \in Seq(AnySection(Values)) /\ file \in AnyFile
  BY DEF Unedited, GrammarInv, AnyFile
<1>3. Len(S) \in Nat /\ Len(M) = Len(S) /\ n \in Nat /\ i \in 1 .. Len(S)
  <2>1. Len(S) \in Nat /\ Len(M) = Len(S) /\ n \in Nat
    BY <1>1, <1>2, SourceShape, MeantShape, LenProperties
  <2> HIDE DEF S, M, n
  <2> QED BY <1>1, <2>1
<1>4. t.type \in Words /\ t.name \in Words /\ Zero \in Written /\ "" \in Words /\ Len(t.entries) \in Nat
  <2> HIDE DEF i
  <2> QED BY <1>1, <1>3, SourceShape
<1>5. M[i].type = t.type
  <2> HIDE DEF i
  <2>1. M[i] = [type |-> t.type, name |-> t.name, entries |-> M[i].entries]
    BY <1>1, <1>3, MeantShape
  <2> HIDE DEF M, t
  <2> QED BY <2>1
<1>6. LeftFor(source, parsing, file) = Part({"name"}, t.type) \o R
  <2> HIDE DEF i
  <2> QED BY <1>1, <1>3, FromEntryUnfolds
<1>7. R \in Seq(T)
  <2> HIDE DEF i
  <2>1. Part({"name", "string"}, t.name) \in Seq(T) /\ Mark("{") \in Seq(T)
    BY <1>4, PartTyped DEF Kinds
  <2>2. 0 \in 0 .. Len(t.entries)
    <3>1. Len(t.entries) \in Nat
      BY <1>4
    <3> QED BY ONLY <3>1
  <2>3. FromEntry(source, i, 0) \in Seq(T)
    BY <1>1, <1>3, <2>2, FromEntryUnfolds
  <2> HIDE DEF T, t
  <2>4. Mark("{") \o FromEntry(source, i, 0) \in Seq(T)
    BY <2>1, <2>3, ConcatProperties
  <2> QED BY <2>1, <2>4, ConcatProperties
<1> HIDE DEF R
<1>8. At("name") /\ Tok.v = t.type /\ Left(Render(source), pos) = R /\ pos \in Nat
  <2> HIDE DEF t
  <2> QED BY <1>4, <1>6, <1>7, NameReads DEF Unedited, T
<1> DEFINE s == [type |-> t.type, name |-> "", entries |-> << >>]
           G == Append(F, s)
<1>9. pos' = pos + 1 /\ parsing' = "sectionName" /\ UNCHANGED input
      /\ file' = [file EXCEPT !.sections = G]
  BY <1>8 DEF SectionType, Accept
<1>10. file'.sections = G /\ file'.name = file.name
  <2> HIDE DEF G
  <2> QED BY <1>2, <1>9 DEF AnyFile
<1>11. Front(G) = F /\ Last(G) = s
  <2> HIDE DEF F, s
  <2> QED BY <1>2, FrontLast
<1>12. s.type = t.type
  OBVIOUS
<1> HIDE DEF G, F, s
<1>13. parsing' \in Calls /\ LeftFor(source, parsing', file') = R
  BY <1>9, <1>10, <1>11 DEF Calls, InSection, LeftFor, R
<1>14. SoFar(Meant(source), parsing', file')
  <2> HIDE DEF t
  <2> QED BY <1>1, <1>5, <1>9, <1>10, <1>11, <1>12 DEF SoFar, InSection, InEntry
<1> QED BY <1>8, <1>9, <1>13, <1>14, ReadOn DEF Unedited

(* What is known of the section that is being read. *)
LEMMA SectionKnown ==
  ASSUME CfgAssumption, Unedited, parsing \in InSection
  PROVE  LET P == Front(file.sections)
             i == Len(P) + 1
             t == source.sections[i]
             m == Meant(source).sections[i]
         IN /\ source \in Files /\ file \in AnyFile /\ file.sections # << >>
            /\ P \in Seq(AnySection(Values)) /\ LastSection \in AnySection(Values)
            /\ LastSection.entries \in Seq(AnyEntry(Values))
            /\ i \in 1 .. Len(source.sections) /\ Len(Meant(source).sections) = Len(source.sections)
            /\ Begins(P, Meant(source).sections) /\ Len(P) < Len(Meant(source).sections)
            /\ file.name = Meant(source).name
            /\ m = [type |-> t.type, name |-> t.name, entries |-> m.entries]
            /\ Len(m.entries) = Len(t.entries) /\ Len(t.entries) \in Nat \ {0}
            /\ m.entries = [k \in 1 .. Len(m.entries) |-> m.entries[k]]
            /\ t.type \in Words /\ t.name \in Words
            /\ LastSection.type = t.type
            /\ parsing # "sectionName" => LastSection.name = t.name
            /\ \A j \in 1 .. Len(t.entries) :
                 t.entries[j] \in EntryOf(Written) /\ m.entries[j] = MeantEntry(t.entries[j])
<1> DEFINE S == source.sections
           M == Meant(source).sections
           P == Front(file.sections)
           i == Len(P) + 1
           t == S[i]
           m == M[i]
<1>1. source \in Files /\ file \in AnyFile /\ file.sections # << >> /\ SoFar(Meant(source), parsing, file)
  BY DEF Unedited, SourceInv, GrammarInv
<1>2. /\ P \in Seq(AnySection(Values)) /\ LastSection \in AnySection(Values)
      /\ LastSection.entries \in Seq(AnyEntry(Values))
  BY <1>1, LastTyped
<1>3. /\ file.name = Meant(source).name /\ Begins(P, M) /\ Len(P) < Len(M) /\ LastSection.type = m.type
      /\ parsing # "sectionName" => LastSection.name = m.name
  <2>1. parsing # "file"
    BY DEF InSection, InEntry
  <2> QED BY <1>1, <2>1 DEF SoFar, LastSection
<1>4. Len(S) \in Nat /\ Len(M) = Len(S) /\ Len(P) \in Nat /\ i \in 1 .. Len(S)
  <2>1. Len(S) \in Nat /\ Len(M) = Len(S) /\ Len(P) \in Nat
    BY <1>1, <1>2, SourceShape, MeantShape, LenProperties
  <2> HIDE DEF S, M, P
  <2> QED BY <1>3, <2>1
<1> HIDE DEF P, i
<1>5. /\ m = [type |-> t.type, name |-> t.name, entries |-> m.entries]
      /\ Len(m.entries) = Len(t.entries) /\ m.entries = [k \in 1 .. Len(m.entries) |-> m.entries[k]]
      /\ \A j \in 1 .. Len(t.entries) : m.entries[j] = MeantEntry(t.entries[j])
  BY <1>1, <1>4, MeantShape
<1>6. /\ t.type \in Words /\ t.name \in Words /\ Len(t.entries) \in Nat \ {0}
      /\ \A j \in 1 .. Len(t.entries) : t.entries[j] \in EntryOf(Written)
  BY <1>1, <1>4, SourceShape
<1> HIDE DEF m, t
<1>7. m.type = t.type /\ m.name = t.name
  BY <1>5
<1> QED BY <1>1, <1>2, <1>3, <1>4, <1>5, <1>6, <1>7 DEF S, M, P, i, t, m

LEMMA SectionNameReads ==
  ASSUME CfgAssumption, Unedited, SectionName
  PROVE  SourceInv'
<1> DEFINE P == Front(file.sections)
           i == Len(P) + 1
           t == source.sections[i]
           m == Meant(source).sections[i]
           T == PartOf(Written)
           R == Mark("{") \o FromEntry(source, i, 0)
           s == [LastSection EXCEPT !.name = t.name]
           G == WithSection(s)
<1>1. /\ parsing = "sectionName" /\ parsing \in InSection
      /\ LeftFor(source, parsing, file) = Part({"name", "string"}, t.name) \o R
  BY DEF SectionName, Unedited, SourceInv, InSection, LeftFor
<1>2. /\ source \in Files /\ file \in AnyFile /\ file.sections # << >>
      /\ LastSection \in AnySection(Values) /\ i \in 1 .. Len(source.sections)
      /\ Begins(P, Meant(source).sections) /\ Len(P) < Len(Meant(source).sections)
      /\ file.name = Meant(source).name
      /\ m = [type |-> t.type, name |-> t.name, entries |-> m.entries]
      /\ Len(t.entries) \in Nat \ {0} /\ t.type \in Words /\ t.name \in Words
      /\ LastSection.type = t.type
  BY <1>1, SectionKnown
<1>3. Zero \in Written /\ "" \in Words
  BY <1>2, SourceShape
<1> HIDE DEF i, P
<1>4. R \in Seq(T)
  <2>1. Mark("{") \in Seq(T)
    BY <1>3, PartTyped DEF Kinds
  <2>2. 0 \in 0 .. Len(t.entries)
    <3>1. Len(t.entries) \in Nat
      BY <1>2
    <3> QED BY ONLY <3>1
  <2>3. FromEntry(source, i, 0) \in Seq(T)
    BY <1>2, <2>2, FromEntryUnfolds
  <2> HIDE DEF T
  <2> QED BY <2>1, <2>3, ConcatProperties
<1> HIDE DEF R, T
<1>5. AtWord /\ Tok.v = t.name /\ Left(Render(source), pos) = R /\ pos \in Nat
  <2> HIDE DEF t
  <2> QED BY <1>1, <1>2, <1>4, WordReads DEF Unedited, T
<1>6. pos' = pos + 1 /\ parsing' = "sectionOpen" /\ UNCHANGED input /\ file' = G
  BY <1>5 DEF SectionName, Accept
<1>7. s \in AnySection(Values) /\ s.name = t.name /\ s.type = t.type
  <2> HIDE DEF t
  <2> QED BY <1>2 DEF AnySection
<1> HIDE DEF s, m, t
<1>8. G.name = file.name /\ Front(G.sections) = P /\ Last(G.sections) = s
  BY <1>2, <1>7, SectionChanged DEF P
<1>9. m.type = t.type /\ m.name = t.name
  BY <1>2
<1> HIDE DEF G
<1>10. parsing' \in Calls /\ LeftFor(source, parsing', file') = R
  BY <1>6, <1>8 DEF Calls, InSection, LeftFor, R, i
<1>11. SoFar(Meant(source), parsing', file')
  BY <1>2, <1>6, <1>7, <1>8, <1>9 DEF SoFar, InSection, InEntry, m, i
<1> QED BY <1>5, <1>6, <1>10, <1>11, ReadOn DEF Unedited

LEMMA SectionOpenReads ==
  ASSUME CfgAssumption, Unedited, Brace("sectionOpen", "entry")
  PROVE  SourceInv'
<1> DEFINE P == Front(file.sections)
           i == Len(P) + 1
           t == source.sections[i]
           m == Meant(source).sections[i]
           R == FromEntry(source, i, 0)
<1>1. /\ parsing = "sectionOpen" /\ parsing \in InSection
      /\ LeftFor(source, parsing, file) = Mark("{") \o R
  BY DEF Brace, Unedited, SourceInv, InSection, LeftFor
<1>2. /\ source \in Files /\ i \in 1 .. Len(source.sections)
      /\ Begins(P, Meant(source).sections) /\ Len(P) < Len(Meant(source).sections)
      /\ file.name = Meant(source).name
      /\ m = [type |-> t.type, name |-> t.name, entries |-> m.entries]
      /\ Len(m.entries) = Len(t.entries) /\ Len(t.entries) \in Nat \ {0}
      /\ LastSection.type = t.type /\ LastSection.name = t.name
  BY <1>1, SectionKnown
<1>3. LastSection.entries = << >>
  BY <1>1 DEF Unedited, GrammarInv
<1> HIDE DEF i, P
<1>4. R \in Seq(PartOf(Written))
  <2>1. 0 \in 0 .. Len(t.entries)
    <3>1. Len(t.entries) \in Nat
      BY <1>2
    <3> QED BY ONLY <3>1
  <2> QED BY <1>2, <2>1, FromEntryUnfolds
<1> HIDE DEF R, t, m
<1>5. At("{") /\ Left(Render(source), pos) = R /\ pos \in Nat
  <2>1. "{" \in Kinds \ {"name", "string"}
    BY DEF Kinds
  <2> QED BY <1>1, <1>4, <2>1, MarkReads DEF Unedited
<1>6. pos' = pos + 1 /\ parsing' = "entry" /\ UNCHANGED input /\ file' = file
  BY <1>1, <1>5 DEF Brace, Accept
<1>7. Len(LastSection.entries) = 0
  <2>1. Len(<< >>) = 0
    OBVIOUS
  <2> QED BY <1>3, <2>1
<1>8. parsing' \in Calls /\ LeftFor(source, parsing', file') = R
  BY <1>6, <1>7 DEF Calls, InSection, LeftFor, R, i, P, LastSection
<1>9. m.type = t.type /\ m.name = t.name
  BY <1>2
<1>10. Begins(LastSection.entries, m.entries) /\ Len(LastSection.entries) < Len(m.entries)
  <2>1. Len(m.entries) \in Nat \ {0}
    BY <1>2
  <2>2. Begins(<< >>, m.entries)
    BY <2>1, BeginsNone
  <2>3. 0 < Len(m.entries)
    BY ONLY <2>1
  <2> QED BY <1>3, <1>7, <2>2, <2>3
<1>11. SoFar(Meant(source), parsing', file')
  BY <1>2, <1>6, <1>9, <1>10 DEF SoFar, InSection, InEntry, m, i, P, LastSection
<1> QED BY <1>5, <1>6, <1>8, <1>11, ReadOn DEF Unedited

LEMMA EntryNameReads ==
  ASSUME CfgAssumption, Unedited, EntryName
  PROVE  SourceInv'
<1> DEFINE P == Front(file.sections)
           i == Len(P) + 1
           t == source.sections[i]
           m == Meant(source).sections[i]
           T == PartOf(Written)
           E == LastSection.entries
           j == Len(E) + 1
           e == t.entries[j]
           R == Mark("=") \o (ValuePart(e) \o (Mark(";") \o FromEntry(source, i, j)))
<1>1. /\ parsing = "entry" /\ parsing \in InSection
      /\ LeftFor(source, parsing, file) = FromEntry(source, i, Len(E))
      /\ Begins(E, m.entries) /\ Len(E) < Len(m.entries)
  BY DEF EntryName, Unedited, SourceInv, InSection, LeftFor, SoFar, LastSection
<1>2. /\ source \in Files /\ file \in AnyFile /\ file.sections # << >>
      /\ LastSection \in AnySection(Values) /\ i \in 1 .. Len(source.sections)
      /\ E \in Seq(AnyEntry(Values))
      /\ Begins(P, Meant(source).sections) /\ Len(P) < Len(Meant(source).sections)
      /\ file.name = Meant(source).name
      /\ m = [type |-> t.type, name |-> t.name, entries |-> m.entries]
      /\ Len(m.entries) = Len(t.entries) /\ Len(t.entries) \in Nat \ {0}
      /\ LastSection.type = t.type /\ LastSection.name = t.name
      /\ \A k \in 1 .. Len(t.entries) : t.entries[k] \in EntryOf(Written) /\ m.entries[k] = MeantEntry(t.entries[k])
  BY <1>1, SectionKnown
<1>3. Zero \in Written /\ "" \in Words
  BY <1>2, SourceShape
<1>4. Len(E) \in Nat /\ Len(E) \in 0 .. Len(t.entries) - 1 /\ j \in 1 .. Len(t.entries) /\ j \in 0 .. Len(t.entries)
  <2>1. Len(E) \in Nat
    BY <1>2, LenProperties
  <2> DEFINE l == Len(E)
             n == Len(t.entries)
  <2>2. l \in Nat /\ n \in Nat /\ l < n
    BY <1>1, <1>2, <2>1
  <2> HIDE DEF l, n
  <2>3. l \in 0 .. n - 1 /\ l + 1 \in 1 .. n /\ l + 1 \in 0 .. n
    BY ONLY <2>2
  <2> QED BY <2>1, <2>3 DEF l, n
<1> HIDE DEF i, P, E
<1>5. FromEntry(source, i, Len(E)) = Part({"name"}, e.name) \o R
  BY <1>2, <1>4, FromEntryUnfolds
<1> HIDE DEF j
<1>6. e \in EntryOf(Written) /\ m.entries[j] = MeantEntry(e)
  BY <1>2, <1>4
<1>7. e.name \in Words /\ e \in AnyEntry(Written) /\ m.entries[j].name = e.name
  <2> HIDE DEF e, m
  <2>1. e.name \in Words /\ e \in AnyEntry(Written)
    BY <1>6 DEF EntryOf, AnyEntry, EntryTypes
  <2>2. MeantEntry(e).name = e.name
    BY DEF MeantEntry
  <2> QED BY <1>6, <2>1, <2>2
<1>8. R \in Seq(T)
  <2> HIDE DEF e
  <2>1. ValuePart(e) \in Seq(T) /\ Mark("=") \in Seq(T) /\ Mark(";") \in Seq(T)
    BY <1>3, <1>7, EntryTyped, PartTyped DEF Kinds
  <2>2. FromEntry(source, i, j) \in Seq(T)
    BY <1>2, <1>4, FromEntryUnfolds
  <2> HIDE DEF T
  <2>3. Mark(";") \o FromEntry(source, i, j) \in Seq(T)
    BY <2>1, <2>2, ConcatProperties
  <2>4. ValuePart(e) \o (Mark(";") \o FromEntry(source, i, j)) \in Seq(T)
    BY <2>1, <2>3, ConcatProperties
  <2> QED BY <2>1, <2>4, ConcatProperties
<1> HIDE DEF R, T
<1>9. At("name") /\ Tok.v = e.name /\ Left(Render(source), pos) = R /\ pos \in Nat
  <2> HIDE DEF e
  <2> QED BY <1>1, <1>5, <1>7, <1>8, NameReads DEF Unedited, T
<1> DEFINE x == [name |-> e.name, type |-> "", string |-> "", number |-> 0]
           L == Append(E, x)
           s == [LastSection EXCEPT !.entries = L]
           G == WithSection(s)
<1>10. pos' = pos + 1 /\ parsing' = "equals" /\ UNCHANGED input /\ file' = G
  BY <1>9 DEF EntryName, Accept, WithEntry, E
<1>11. x \in AnyEntry(Values) /\ x.name = e.name
  <2> HIDE DEF e
  <2> QED BY <1>3, <1>7, ZeroKnown DEF AnyEntry, EntryTypes
<1> HIDE DEF x
<1>12. L \in Seq(AnyEntry(Values)) /\ Front(L) = E /\ Last(L) = x
  BY <1>2, <1>11, AppendProperties, FrontLast
<1> HIDE DEF L
<1>13. s \in AnySection(Values) /\ s.name = t.name /\ s.type = t.type /\ s.entries = L
  <2> HIDE DEF t
  <2> QED BY <1>2, <1>12 DEF AnySection
<1> HIDE DEF s, m, t, e
<1>14. G.name = file.name /\ Front(G.sections) = P /\ Last(G.sections) = s
  BY <1>2, <1>13, SectionChanged DEF P
<1>15. m.type = t.type /\ m.name = t.name
  BY <1>2
<1> HIDE DEF G
<1>16. parsing' \in Calls /\ LeftFor(source, parsing', file') = R
  BY <1>10, <1>12, <1>13, <1>14 DEF Calls, InSection, InEntry, LeftFor, R, i, j, e, t
<1>17. SoFar(Meant(source), parsing', file')
  <2>1. m.entries[j].name = x.name
    BY <1>7, <1>11
  <2> QED BY <1>1, <1>2, <1>10, <1>12, <1>13, <1>14, <1>15, <2>1 DEF SoFar, InSection, InEntry, m, i, j
<1> QED BY <1>9, <1>10, <1>16, <1>17, ReadOn DEF Unedited

(* What is known of the entry that is being read. *)
LEMMA EntryKnown ==
  ASSUME CfgAssumption, Unedited, parsing \in InEntry
  PROVE  LET i == Len(Front(file.sections)) + 1
             E == Front(LastSection.entries)
             j == Len(E) + 1
             e == source.sections[i].entries[j]
             M == Meant(source).sections[i].entries
             T == PartOf(Written)
         IN /\ Begins(E, M) /\ Len(E) < Len(M) /\ M[j] = MeantEntry(e)
            /\ E \in Seq(AnyEntry(Values)) /\ LastEntry \in AnyEntry(Values)
            /\ LastSection.entries = Append(E, LastEntry)
            /\ Len(E) \in Nat /\ Len(M) \in Nat
            /\ e \in EntryOf(Written) /\ LastEntry.name = e.name
            /\ parsing = "semicolon" => LastEntry = MeantEntry(e)
            /\ ValuePart(e) \in Seq(T) /\ FromEntry(source, i, j) \in Seq(T)
            /\ Mark(";") \o FromEntry(source, i, j) \in Seq(T)
            /\ ValuePart(e) \o (Mark(";") \o FromEntry(source, i, j)) \in Seq(T)
<1> DEFINE i == Len(Front(file.sections)) + 1
           E == Front(LastSection.entries)
           j == Len(E) + 1
           t == source.sections[i]
           e == t.entries[j]
           M == Meant(source).sections[i].entries
           T == PartOf(Written)
<1>1. parsing \in InSection /\ LastSection.entries # << >>
      /\ Begins(E, M) /\ Len(E) < Len(M) /\ LastEntry.name = M[j].name
      /\ (parsing = "semicolon" => LastEntry = M[j])
  BY DEF InSection, Unedited, GrammarInv, SourceInv, SoFar, LastSection, LastEntry
<1>2. /\ source \in Files /\ file \in AnyFile /\ file.sections # << >> /\ i \in 1 .. Len(source.sections)
      /\ Len(M) = Len(t.entries) /\ Len(t.entries) \in Nat \ {0}
      /\ \A k \in 1 .. Len(t.entries) : t.entries[k] \in EntryOf(Written) /\ M[k] = MeantEntry(t.entries[k])
  BY <1>1, SectionKnown
<1>3. Zero \in Written /\ "" \in Words
  BY <1>2, SourceShape
<1>4. E \in Seq(AnyEntry(Values)) /\ LastEntry \in AnyEntry(Values) /\ LastSection.entries = Append(E, LastEntry)
  BY <1>1, <1>2, LastTyped
<1>5. Len(E) \in Nat /\ Len(M) \in Nat
  BY <1>2, <1>4, LenProperties
<1>6. j \in 1 .. Len(t.entries) /\ j \in 0 .. Len(t.entries)
  <2> DEFINE l == Len(E)
             n == Len(t.entries)
  <2>1. l \in Nat /\ n \in Nat /\ l < n
    BY <1>1, <1>2, <1>5
  <2> HIDE DEF l, n
  <2>2. l + 1 \in 1 .. n /\ l + 1 \in 0 .. n
    BY ONLY <2>1
  <2> QED BY <2>2 DEF l, n
<1> HIDE DEF i, j, E, M
<1>7. e \in EntryOf(Written) /\ M[j] = MeantEntry(e)
  BY <1>2, <1>6
<1>8. e \in AnyEntry(Written) /\ MeantEntry(e).name = e.name
  <2> HIDE DEF e
  <2> QED BY <1>7 DEF EntryOf, AnyEntry, EntryTypes, MeantEntry
<1>9. FromEntry(source, i, j) \in Seq(T)
  BY <1>2, <1>6, FromEntryUnfolds
<1> HIDE DEF e
<1>10. ValuePart(e) \in Seq(T) /\ Mark(";") \in Seq(T)
  BY <1>3, <1>8, EntryTyped, PartTyped DEF Kinds
<1> HIDE DEF T
<1>11. Mark(";") \o FromEntry(source, i, j) \in Seq(T)
  BY <1>9, <1>10, ConcatProperties
<1>12. ValuePart(e) \o (Mark(";") \o FromEntry(source, i, j)) \in Seq(T)
  BY <1>10, <1>11, ConcatProperties
<1> QED BY <1>1, <1>4, <1>5, <1>7, <1>8, <1>9, <1>10, <1>11, <1>12 DEF i, j, E, M, T, e, t

LEMMA EqualsReads ==
  ASSUME CfgAssumption, Unedited, Equals
  PROVE  SourceInv'
<1> DEFINE i == Len(Front(file.sections)) + 1
           E == Front(LastSection.entries)
           j == Len(E) + 1
           e == source.sections[i].entries[j]
           R == ValuePart(e) \o (Mark(";") \o FromEntry(source, i, j))
<1>1. /\ parsing = "equals" /\ parsing \in InEntry /\ LeftFor(source, parsing, file) = Mark("=") \o R
  BY DEF Equals, Unedited, SourceInv, InEntry, LeftFor, LastSection
<1>2. R \in Seq(PartOf(Written))
  BY <1>1, EntryKnown
<1> HIDE DEF R
<1>3. At("=") /\ Left(Render(source), pos) = R /\ pos \in Nat
  <2>1. "=" \in Kinds \ {"name", "string"}
    BY DEF Kinds
  <2> QED BY <1>1, <1>2, <2>1, MarkReads DEF Unedited
<1>4. pos' = pos + 1 /\ parsing' = "value" /\ UNCHANGED input /\ file' = file
  BY <1>3 DEF Equals, Accept
<1>5. parsing' \in Calls /\ LeftFor(source, parsing', file') = R
  BY <1>4 DEF Calls, InSection, InEntry, LeftFor, R, LastSection
<1>6. SoFar(Meant(source), parsing', file')
  <2>1. SoFar(Meant(source), parsing, file)
    BY DEF Unedited, SourceInv
  <2> QED BY <1>1, <1>4, <2>1 DEF SoFar, InSection, InEntry
<1> QED BY <1>3, <1>4, <1>5, <1>6, ReadOn DEF Unedited

LEMMA EntryValued ==
  ASSUME LastEntry \in AnyEntry(Values), NEW a, NEW b, NEW c
  PROVE  Valued(a, b, c) = [name |-> LastEntry.name, type |-> a, string |-> b, number |-> c]
<1> DEFINE l == LastEntry
<1>0. l \in AnyEntry(Values)
  OBVIOUS
<1> HIDE DEF l
<1> DEFINE V == Values
           x == [l EXCEPT !.type = a]
           y == [x EXCEPT !.string = b]
           z == [y EXCEPT !.number = c]
<1>1. l = [name |-> l.name, type |-> l.type, string |-> l.string, number |-> l.number]
  <2> HIDE DEF V
  <2> QED BY <1>0 DEF AnyEntry
<1>2. x = [name |-> l.name, type |-> a, string |-> l.string, number |-> l.number]
  BY <1>1
<1> HIDE DEF x
<1>3. y = [name |-> l.name, type |-> a, string |-> b, number |-> l.number]
  BY <1>2
<1> HIDE DEF y
<1>4. z = [name |-> l.name, type |-> a, string |-> b, number |-> c]
  BY <1>3
<1> QED BY <1>4 DEF x, y, z, l, Valued

(* The value of an entry is accepted for what it means. *)
LEMMA ValueMeant ==
  ASSUME CfgAssumption, Unedited, parsing = "value", NEW w,
         w = MeantEntry(source.sections[Len(Front(file.sections)) + 1]
                              .entries[Len(Front(LastSection.entries)) + 1]),
         w.type \in EntryTypes, w.string \in Words, w.number \in Values,
         SetValue(w.type, w.string, w.number), Accept("semicolon"), pos \in Nat,
         Left(Render(source), pos) = Mark(";") \o FromEntry(source, Len(Front(file.sections)) + 1,
                                                            Len(Front(LastSection.entries)) + 1)
  PROVE  SourceInv'
<1> DEFINE P == Front(file.sections)
           i == Len(P) + 1
           t == source.sections[i]
           m == Meant(source).sections[i]
           E == Front(LastSection.entries)
           j == Len(E) + 1
           e == t.entries[j]
           R == Mark(";") \o FromEntry(source, i, j)
           x == [LastEntry EXCEPT !.type = w.type, !.string = w.string, !.number = w.number]
           L == Append(E, x)
           s == [LastSection EXCEPT !.entries = L]
           G == WithSection(s)
<1>1. parsing \in InSection /\ parsing \in InEntry
  BY DEF InSection, InEntry
<1>2. /\ source \in Files /\ file \in AnyFile /\ file.sections # << >>
      /\ LastSection \in AnySection(Values)
      /\ Begins(P, Meant(source).sections) /\ Len(P) < Len(Meant(source).sections)
      /\ file.name = Meant(source).name
      /\ m = [type |-> t.type, name |-> t.name, entries |-> m.entries]
      /\ LastSection.type = t.type /\ LastSection.name = t.name
  BY <1>1, SectionKnown
<1>3. /\ Begins(E, m.entries) /\ Len(E) < Len(m.entries) /\ m.entries[j] = MeantEntry(e)
      /\ E \in Seq(AnyEntry(Values)) /\ LastEntry \in AnyEntry(Values) /\ LastEntry.name = e.name
  BY <1>1, EntryKnown
<1>4. w = [name |-> e.name, type |-> w.type, string |-> w.string, number |-> w.number]
  <2>1. w = MeantEntry(e)
    OBVIOUS
  <2> HIDE DEF e
  <2>2. \A y : MeantEntry(y) = [name |-> y.name, type |-> MeantEntry(y).type,
                               string |-> MeantEntry(y).string, number |-> MeantEntry(y).number]
    BY ONLY DEF MeantEntry
  <2> QED BY ONLY <2>1, <2>2
<1>5. x = w /\ x \in AnyEntry(Values)
  <2> DEFINE k == w.type
             v == w.string
             n == w.number
  <2>1. k \in EntryTypes /\ v \in Words /\ n \in Values
    OBVIOUS
  <2> HIDE DEF e, k, v, n
  <2>2. Valued(k, v, n) = [name |-> e.name, type |-> k, string |-> v, number |-> n]
    <3>1. LastEntry \in AnyEntry(Values) /\ LastEntry.name = e.name
      BY <1>3
    <3>2. Valued(k, v, n) = [name |-> LastEntry.name, type |-> k, string |-> v, number |-> n]
      BY ONLY <3>1, EntryValued
    <3> QED BY ONLY <3>1, <3>2
  <2>3. Valued(k, v, n) \in AnyEntry(Values)
    <3>1. LastEntry.name \in Words
      BY ONLY <1>3 DEF AnyEntry
    <3>2. e.name \in Words
      BY ONLY <1>3, <3>1
    <3>3. [name |-> e.name, type |-> k, string |-> v, number |-> n] \in AnyEntry(Values)
      BY ONLY <2>1, <3>2 DEF AnyEntry
    <3> QED BY ONLY <2>2, <3>3
  <2>4. w = [name |-> e.name, type |-> k, string |-> v, number |-> n]
    BY ONLY <1>4 DEF k, v, n
  <2>5. x = Valued(k, v, n)
    BY DEF k, v, n, Valued
  <2> HIDE DEF x
  <2> QED BY ONLY <2>2, <2>3, <2>4, <2>5
<1>6. pos' = pos + 1 /\ parsing' = "semicolon" /\ UNCHANGED input /\ file' = G
  BY DEF Accept, SetValue
<1>7. m.entries[j] = w
  BY <1>3
<1> HIDE DEF i, P, E, j, R, x
<1>8. L \in Seq(AnyEntry(Values)) /\ Front(L) = E /\ Last(L) = x
  <2>1. E \in Seq(AnyEntry(Values)) /\ x \in AnyEntry(Values)
    BY ONLY <1>3, <1>5
  <2> QED BY ONLY <2>1, AppendProperties, FrontLast
<1> HIDE DEF L
<1>9. s \in AnySection(Values) /\ s.name = t.name /\ s.type = t.type /\ s.entries = L
  <2> HIDE DEF t
  <2> QED BY <1>2, <1>8 DEF AnySection
<1> HIDE DEF s, m, t, e
<1>10. G.name = file.name /\ Front(G.sections) = P /\ Last(G.sections) = s
  BY <1>2, <1>9, SectionChanged DEF P
<1>11. m.type = t.type /\ m.name = t.name
  BY ONLY <1>2
<1> HIDE DEF G
<1>12. parsing' \in Calls /\ LeftFor(source, parsing', file') = R
  BY <1>6, <1>8, <1>9, <1>10 DEF Calls, InSection, InEntry, LeftFor, R, i, j
<1>13. SoFar(Meant(source), parsing', file')
  <2>1. x.name = m.entries[j].name /\ x = m.entries[j]
    BY <1>5, <1>7
  <2> HIDE DEF MeantEntry
  <2> QED BY <1>2, <1>3, <1>6, <1>8, <1>9, <1>10, <1>11, <2>1 DEF SoFar, InSection, InEntry, m, i, j
<1>14. Left(Render(source), pos) = R
  BY DEF R, i, j, P, E
<1> QED BY <1>6, <1>12, <1>13, <1>14, ReadOn DEF Unedited

LEMMA ValueReads ==
  ASSUME CfgAssumption, Unedited, Value
  PROVE  SourceInv'
<1> DEFINE i == Len(Front(file.sections)) + 1
           E == Front(LastSection.entries)
           j == Len(E) + 1
           e == source.sections[i].entries[j]
           R == Mark(";") \o FromEntry(source, i, j)
           T == PartOf(Written)
           w == MeantEntry(e)
<1>1. /\ parsing = "value" /\ parsing \in InEntry /\ LeftFor(source, parsing, file) = ValuePart(e) \o R
  BY DEF Value, Unedited, SourceInv, InEntry, LeftFor, LastSection
<1>2. /\ R \in Seq(T) /\ e \in EntryOf(Written)
  BY <1>1, EntryKnown
<1>3. /\ e.string \in Words /\ e.type \in {"string", "int64"} /\ e.number \in Written
      /\ e.type = "int64" => e.string = ""
  <2> HIDE DEF e
  <2> QED BY <1>2 DEF EntryOf
<1> DEFINE y == e
<1>4. w = [name |-> y.name, type |-> y.type, string |-> y.string,
           number |-> IF y.type = "string" THEN 0 ELSE NumberMeans(y.number)]
  BY DEF MeantEntry
<1> HIDE DEF R, w
<1>5. CASE e.type = "string"
  <2>1. ValuePart(e) = Part({"name", "string"}, e.string)
    <3>1. {"string", "name"} = {"name", "string"}
      OBVIOUS
    <3> HIDE DEF e
    <3> QED BY <1>5, <3>1 DEF ValuePart
  <2> HIDE DEF e
  <2>2. AtWord /\ ~ At("number") /\ Tok.v = e.string /\ Left(Render(source), pos) = R /\ pos \in Nat
    BY <1>1, <1>2, <1>3, <2>1, WordReads DEF Unedited
  <2>3. Number = {}
    BY <2>2 DEF Number
  <2>4. Accept("semicolon") /\ SetValue("string", e.string, 0)
    BY <2>2, <2>3 DEF Value
  <2>5. w.type = "string" /\ w.string = e.string /\ w.number = 0
    BY <1>4, <1>5 DEF y
  <2>6. /\ w.type \in EntryTypes /\ w.string \in Words /\ w.number \in Values
        /\ SetValue(w.type, w.string, w.number)
    BY <1>3, <2>4, <2>5, ZeroKnown DEF EntryTypes
  <2> QED BY <1>1, <2>2, <2>4, <2>6, ValueMeant DEF R, w, e
<1>6. CASE e.type = "int64"
  <2> DEFINE p == [k |-> {"number"}, v |-> "", number |-> e.number]
             n == AcceptInt(SpellNumber(e.number))
  <2> HIDE DEF e
  <2>1. ValuePart(e) = <<p>>
    BY <1>6 DEF ValuePart
  <2>2. p \in T /\ p.k = {"number"} /\ p.number = e.number
    <3>1. {"number"} \in PartKinds
      <4>1. "number" \in Kinds
        BY DEF Kinds
      <4> QED BY <4>1 DEF PartKinds
    <3>2. "" \in Words
      BY DEF CfgAssumption
    <3> QED BY <1>3, <3>1, <3>2 DEF PartOf
  <2> HIDE DEF p
  <2>3. /\ Tok \in Token /\ Tok.k \in p.k /\ Left(Render(source), pos) = R /\ pos \in 1 .. Len(text)
        /\ Tok.chars = SpellNumber(p.number)
    BY <1>1, <1>2, <2>1, <2>2, TokenRead DEF Unedited
  <2>4. At("number") /\ ~ AtWord /\ Tok.chars = SpellNumber(e.number) /\ pos \in Nat
    BY <2>2, <2>3 DEF At, AtWord
  <2>5. n.ok /\ n.used = Len(Tok.chars) /\ n.value = NumberMeans(e.number)
    BY <1>3, <2>4, SpelledIsAccepted
  <2>6. n.value \in Values
    <3>1. SpellNumber(e.number) \in Seq(NumberCharSet)
      BY <1>3, Spelled
    <3> QED BY <3>1 DEF Values
  <2>7. Number = {n}
    BY <2>4, <2>5 DEF Number
  <2> HIDE DEF n
  <2>8. Accept("semicolon") /\ SetValue("int64", "", n.value)
    BY <2>4, <2>5, <2>7 DEF Value
  <2>9. w.type = "int64" /\ w.string = "" /\ w.number = n.value
    <3>1. y.type = "int64" /\ y.string = "" /\ y.type # "string" /\ NumberMeans(y.number) = n.value
      BY <1>3, <1>6, <2>5 DEF y
    <3> HIDE DEF y
    <3> QED BY <1>4, <3>1
  <2>10. /\ w.type \in EntryTypes /\ w.string \in Words /\ w.number \in Values
         /\ SetValue(w.type, w.string, w.number)
    BY <2>6, <2>8, <2>9 DEF EntryTypes, CfgAssumption
  <2> QED BY <1>1, <2>3, <2>4, <2>8, <2>10, ValueMeant DEF R, w, e
<1> QED BY <1>3, <1>5, <1>6

LEMMA SemicolonReads ==
  ASSUME CfgAssumption, Unedited, Semicolon
  PROVE  SourceInv'
<1> DEFINE i == Len(Front(file.sections)) + 1
           E == Front(LastSection.entries)
           j == Len(E) + 1
           e == source.sections[i].entries[j]
           M == Meant(source).sections[i].entries
           m == Meant(source).sections[i]
           R == FromEntry(source, i, j)
<1>1. /\ parsing = "semicolon" /\ parsing \in InEntry /\ parsing \in InSection
      /\ LeftFor(source, parsing, file) = Mark(";") \o R
  BY DEF Semicolon, Unedited, SourceInv, InEntry, InSection, LeftFor, LastSection
<1>2. /\ R \in Seq(PartOf(Written)) /\ Begins(E, M) /\ Len(E) < Len(M) /\ Len(M) \in Nat
      /\ E \in Seq(AnyEntry(Values)) /\ LastEntry \in AnyEntry(Values)
      /\ LastSection.entries = Append(E, LastEntry) /\ LastEntry = M[j]
  BY <1>1, EntryKnown
<1> HIDE DEF R, e
<1>3. At(";") /\ Left(Render(source), pos) = R /\ pos \in Nat
  <2>1. ";" \in Kinds \ {"name", "string"}
    BY DEF Kinds
  <2> QED BY <1>1, <1>2, <2>1, MarkReads DEF Unedited
<1>4. pos' = pos + 1 /\ parsing' = "entryOrEnd" /\ UNCHANGED input /\ file' = file
  BY <1>3 DEF Semicolon, Accept
<1>5. Begins(LastSection.entries, M) /\ Len(LastSection.entries) = j
  <2> HIDE DEF E, M
  <2> QED BY <1>2, BeginsMore
<1>6. parsing' \in Calls /\ LeftFor(source, parsing', file') = R
  <2> HIDE DEF E
  <2> QED BY <1>4, <1>5 DEF Calls, InSection, LeftFor, R, LastSection
<1>7. SoFar(Meant(source), parsing', file')
  <2>1. SoFar(Meant(source), parsing, file)
    BY DEF Unedited, SourceInv
  <2> HIDE DEF E
  <2> QED BY <1>1, <1>4, <1>5, <2>1 DEF SoFar, InSection, InEntry, LastSection
<1> QED BY <1>3, <1>4, <1>6, <1>7, ReadOn DEF Unedited

LEMMA EntryOrEndReads ==
  ASSUME CfgAssumption, Unedited, EntryOrEnd
  PROVE  SourceInv'
<1> DEFINE P == Front(file.sections)
           i == Len(P) + 1
           S == source.sections
           t == S[i]
           N == Meant(source).sections
           m == N[i]
           M == m.entries
           E == LastSection.entries
           n == Len(E)
           F == file.sections
<1>1. /\ parsing = "entryOrEnd" /\ parsing \in InSection
      /\ LeftFor(source, parsing, file) = FromEntry(source, i, n)
      /\ Begins(E, M) /\ SoFar(Meant(source), parsing, file) /\ source \in Files
  BY DEF EntryOrEnd, Unedited, SourceInv, InSection, LeftFor, SoFar, LastSection
<1>2. /\ file \in AnyFile /\ F # << >> /\ LastSection \in AnySection(Values)
      /\ i \in 1 .. Len(S) /\ Len(N) = Len(S) /\ E \in Seq(AnyEntry(Values))
      /\ Begins(P, N) /\ Len(P) < Len(N) /\ P \in Seq(AnySection(Values))
      /\ m = [type |-> t.type, name |-> t.name, entries |-> M]
      /\ Len(M) = Len(t.entries) /\ Len(t.entries) \in Nat \ {0}
      /\ M = [k \in 1 .. Len(M) |-> M[k]]
      /\ LastSection.type = t.type /\ LastSection.name = t.name
      /\ file.name = Meant(source).name
      /\ \A k \in 1 .. Len(t.entries) : t.entries[k] \in EntryOf(Written)
  BY <1>1, SectionKnown
<1>3. Zero \in Written /\ "" \in Words /\ Len(S) \in Nat
  BY <1>1, SourceShape
<1>4. n \in Nat /\ n <= Len(M)
  BY <1>1, <1>2, LenProperties DEF Begins
<1> HIDE DEF i
<1>5. CASE n < Len(M)
  <2> DEFINE j == n + 1
             e == t.entries[j]
             R == Mark("=") \o (ValuePart(e) \o (Mark(";") \o FromEntry(source, i, j)))
             T == PartOf(Written)
  <2>1. n \in 0 .. Len(t.entries) - 1 /\ j \in 1 .. Len(t.entries) /\ j \in 0 .. Len(t.entries)
    <3> DEFINE l == Len(t.entries)
    <3>1. n \in Nat /\ l \in Nat /\ n < l
      BY <1>2, <1>4, <1>5
    <3> HIDE DEF n, l
    <3>2. n \in 0 .. l - 1 /\ n + 1 \in 1 .. l /\ n + 1 \in 0 .. l
      BY ONLY <3>1
    <3> QED BY <3>2 DEF l
  <2>2. FromEntry(source, i, n) = Part({"name"}, e.name) \o R
    <3> HIDE DEF n
    <3> QED BY <1>1, <1>2, <2>1, FromEntryUnfolds
  <2> HIDE DEF j
  <2>3. e \in EntryOf(Written)
    BY <1>2, <2>1
  <2>4. e.name \in Words /\ e \in AnyEntry(Written)
    <3> HIDE DEF e
    <3> QED BY <2>3 DEF EntryOf, AnyEntry, EntryTypes
  <2>5. FromEntry(source, i, j) \in Seq(T)
    BY <1>1, <1>2, <2>1, FromEntryUnfolds
  <2>6. R \in Seq(T)
    <3> HIDE DEF e
    <3>1. ValuePart(e) \in Seq(T) /\ Mark("=") \in Seq(T) /\ Mark(";") \in Seq(T)
      BY <1>3, <2>4, EntryTyped, PartTyped DEF Kinds
    <3> HIDE DEF T
    <3>2. Mark(";") \o FromEntry(source, i, j) \in Seq(T)
      BY <2>5, <3>1, ConcatProperties
    <3>3. ValuePart(e) \o (Mark(";") \o FromEntry(source, i, j)) \in Seq(T)
      BY <3>1, <3>2, ConcatProperties
    <3> QED BY <3>1, <3>3, ConcatProperties
  <2> HIDE DEF R, e
  <2>7. At("name")
    BY <1>1, <2>2, <2>4, <2>6, NameReads DEF Unedited
  <2>8. parsing' = "entry" /\ UNCHANGED <<input, pos, file>>
    <3>1. ~ At("}") /\ ~ At("EOF")
      BY <2>7 DEF At
    <3> QED BY <3>1 DEF EntryOrEnd, Stop
  <2>9. source' = source /\ edit' = edit /\ text' = text /\ pos' = pos /\ file' = file
    BY <2>8 DEF input
  <2>10. LeftFor(source, "entry", file) = LeftFor(source, parsing, file)
    BY <1>1 DEF LeftFor
  <2>11. SoFar(Meant(source), "entry", file)
    BY <1>1, <1>5 DEF SoFar, InSection, InEntry, i, LastSection
  <2>12. "entry" \in Calls
    BY DEF Calls, InSection
  <2>13. /\ \E quotes \in {"name", "string"} : text = TextOf(Render(source), quotes)
         /\ Left(Render(source), pos - 1) = LeftFor(source, parsing, file)
    BY DEF Unedited, SourceInv
  <2> QED BY <1>1, <2>8, <2>9, <2>10, <2>11, <2>12, <2>13 DEF SourceInv
<1>6. CASE n = Len(M)
  <2> DEFINE R == FromSection(source, i)
  <2>1. FromEntry(source, i, n) = Mark("}") \o R
    <3>1. n = Len(t.entries)
      BY <1>2, <1>6
    <3> HIDE DEF n
    <3> QED BY <1>1, <1>2, <3>1, FromEntryUnfolds
  <2>2. R \in Seq(PartOf(Written))
    <3>1. i \in 0 .. Len(S)
      <4> DEFINE l == Len(S)
      <4>1. i \in 1 .. l /\ l \in Nat
        BY <1>2, <1>3
      <4> HIDE DEF l
      <4>2. i \in 0 .. l
        BY ONLY <4>1
      <4> QED BY <4>2 DEF l
    <3> QED BY <1>1, <3>1, FromSectionUnfolds
  <2> HIDE DEF R, n
  <2>3. At("}") /\ Left(Render(source), pos) = R /\ pos \in Nat
    <3>1. "}" \in Kinds \ {"name", "string"}
      BY DEF Kinds
    <3> QED BY <1>1, <2>1, <2>2, <3>1, MarkReads DEF Unedited
  <2>4. pos' = pos + 1 /\ parsing' = "sectionEnd" /\ UNCHANGED input /\ file' = file
    BY <2>3 DEF EntryOrEnd, Accept
  <2>5. E = M
    <3> HIDE DEF E, M
    <3> QED BY <1>1, <1>2, <1>6, BeginsAll DEF n
  <2>6. LastSection = m
    <3> DEFINE s == LastSection
    <3>1. s = [type |-> s.type, name |-> s.name, entries |-> s.entries]
      <4>1. s \in AnySection(Values)
        BY <1>2
      <4> HIDE DEF s
      <4> QED BY ONLY <4>1 DEF AnySection
    <3>2. s.type = t.type /\ s.name = t.name /\ s.entries = M
      BY <1>2, <2>5
    <3>3. m = [type |-> t.type, name |-> t.name, entries |-> M]
      BY <1>2
    <3> HIDE DEF s, m, M, t
    <3>4. s = m
      BY ONLY <3>1, <3>2, <3>3
    <3> QED BY ONLY <3>4 DEF s
  <2>7. F = Append(P, LastSection)
    BY <1>2, LastTyped
  <2>8. Begins(F, N) /\ Len(F) = i
    <3> DEFINE s == LastSection
    <3>1. /\ P \in Seq(AnySection(Values)) /\ s \in AnySection(Values) /\ Len(N) \in Nat
          /\ Begins(P, N) /\ Len(P) < Len(N) /\ s = N[Len(P) + 1] /\ F = Append(P, s)
      BY <1>2, <1>3, <2>6, <2>7 DEF i
    <3> HIDE DEF s, P, N, F
    <3>2. Begins(Append(P, s), N) /\ Len(Append(P, s)) = Len(P) + 1
      BY ONLY <3>1, BeginsMore
    <3> QED BY ONLY <3>1, <3>2 DEF i
  <2>9. parsing' \in Calls /\ LeftFor(source, parsing', file') = R
    BY <2>4, <2>8 DEF Calls, LeftFor, R
  <2>10. SoFar(Meant(source), parsing', file')
    BY <1>2, <2>4, <2>8 DEF SoFar, InSection, InEntry
  <2> QED BY <2>3, <2>4, <2>9, <2>10, ReadOn DEF Unedited
<1> HIDE DEF n, M
<1>7. n < Len(M) \/ n = Len(M)
  <2>1. Len(M) \in Nat
    BY <1>2
  <2> QED BY <1>4, <2>1
<1> QED BY <1>5, <1>6, <1>7

LEMMA SectionEndReads ==
  ASSUME CfgAssumption, Unedited, SectionEnd
  PROVE  SourceInv'
<1> DEFINE S == source.sections
           N == Meant(source).sections
           F == file.sections
           n == Len(F)
           T == PartOf(Written)
<1>1. /\ parsing = "sectionEnd" /\ LeftFor(source, parsing, file) = FromSection(source, n)
      /\ Begins(F, N) /\ source \in Files /\ file.name = Meant(source).name
      /\ F # << >> /\ file \in AnyFile
  BY DEF SectionEnd, Unedited, SourceInv, GrammarInv, LeftFor, SoFar
<1>2. F \in Seq(AnySection(Values))
  BY <1>1 DEF AnyFile
<1>3. Len(S) \in Nat /\ Len(N) = Len(S) /\ n \in Nat \ {0} /\ n <= Len(S)
  <2>1. Len(S) \in Nat /\ Len(N) = Len(S)
    BY <1>1, SourceShape, MeantShape
  <2>2. n \in Nat \ {0}
    BY <1>1, <1>2, EmptySeq
  <2> QED BY <1>1, <2>1, <2>2 DEF Begins
<1>4. CASE n < Len(S)
  <2> DEFINE R == RenderSection(S[n + 1]) \o FromSection(source, n + 1)
  <2>1. n \in 1 .. Len(S) - 1 /\ n + 1 \in 1 .. Len(S) /\ n + 1 \in 0 .. Len(S)
    <3> DEFINE l == Len(S)
    <3>1. n \in Nat \ {0} /\ l \in Nat /\ n < l
      BY <1>3, <1>4
    <3> HIDE DEF n, l
    <3>2. n \in 1 .. l - 1 /\ n + 1 \in 1 .. l /\ n + 1 \in 0 .. l
      BY ONLY <3>1
    <3> QED BY <3>2 DEF l
  <2> HIDE DEF n
  <2>2. FromSection(source, n) = Mark(",") \o R
    BY <1>1, <2>1, FromSectionUnfolds
  <2>3. R \in Seq(T)
    <3>1. RenderSection(S[n + 1]) \in Seq(T) /\ FromSection(source, n + 1) \in Seq(T)
      BY <1>1, <2>1, TextsTyped, FromSectionUnfolds
    <3> HIDE DEF T
    <3> QED BY <3>1, ConcatProperties
  <2> HIDE DEF R
  <2>4. At(",") /\ Left(Render(source), pos) = R /\ pos \in Nat
    <3>1. "," \in Kinds \ {"name", "string"}
      BY DEF Kinds
    <3> QED BY <1>1, <2>2, <2>3, <3>1, MarkReads DEF Unedited
  <2>5. pos' = pos + 1 /\ parsing' = "section" /\ UNCHANGED input /\ file' = file
    <3>1. ~ At("}")
      BY <2>4 DEF At
    <3> QED BY <2>4, <3>1 DEF SectionEnd, Accept
  <2>6. parsing' \in Calls /\ LeftFor(source, parsing', file') = R
    BY <2>5 DEF Calls, LeftFor, R, n
  <2>7. SoFar(Meant(source), parsing', file')
    BY <1>1, <1>3, <1>4, <2>5 DEF SoFar, InSection, InEntry, n
  <2> QED BY <2>4, <2>5, <2>6, <2>7, ReadOn DEF Unedited
<1>5. CASE n = Len(S)
  <2>1. FromSection(source, n) = Mark("}") \o << >>
    <3>1. FromSection(source, n) = Mark("}")
      BY <1>1, <1>5, FromSectionUnfolds
    <3>2. Mark("}") \in Seq(T)
      <4>1. Zero \in Written /\ "" \in Words
        BY <1>1, SourceShape
      <4> QED BY <4>1, PartTyped DEF Kinds
    <3> QED BY <3>1, <3>2, ConcatEmptySeq
  <2>2. << >> \in Seq(T)
    OBVIOUS
  <2>3. At("}") /\ Left(Render(source), pos) = << >> /\ pos \in Nat
    <3>1. "}" \in Kinds \ {"name", "string"}
      BY DEF Kinds
    <3> QED BY <1>1, <2>1, <2>2, <3>1, MarkReads DEF Unedited
  <2>4. pos' = pos + 1 /\ parsing' = "done" /\ UNCHANGED input /\ file' = file
    BY <2>3 DEF SectionEnd, Accept
  <2>5. parsing' \in Calls /\ LeftFor(source, parsing', file') = << >>
    BY <2>4 DEF Calls, LeftFor
  <2>6. SoFar(Meant(source), parsing', file')
    BY <1>1, <1>3, <1>5, <2>4 DEF SoFar, InSection, InEntry
  <2> QED BY <2>3, <2>4, <2>5, <2>6, ReadOn DEF Unedited
<1> HIDE DEF n, S
<1> QED BY <1>3, <1>4, <1>5

LEMMA InitSource ==
  ASSUME CfgAssumption, CfgInit
  PROVE  SourceInv
<1> SUFFICES ASSUME edit = "none" PROVE SourceInv
  BY DEF SourceInv
<1>1. source \in Files /\ pos = 1 /\ parsing = "file"
  BY DEF CfgInit
<1>2. \E quotes \in {"name", "string"} : text = TextOf(Render(source), quotes)
  <2>1. \A e \in Edits(TextOf(Render(source), "name")) : e.name # "none"
    BY DEF Edits
  <2> QED BY <2>1 DEF CfgInit
<1>3. Left(Render(source), pos - 1) = LeftFor(source, parsing, file)
  <2>1. LeftFor(source, parsing, file) = Part({"name"}, source.name) \o (Mark("{") \o FromSection(source, 0))
    BY <1>1 DEF LeftFor
  <2>2. Render(source) = LeftFor(source, parsing, file) /\ Render(source) \in Seq(PartOf(Written))
    BY <1>1, <2>1, RenderUnfolds
  <2>3. pos - 1 = 0
    BY <1>1
  <2>4. Left(Render(source), 0) = Render(source)
    <3> DEFINE r == Render(source)
    <3>1. r \in Seq(PartOf(Written))
      BY <2>2
    <3> HIDE DEF r
    <3> QED BY <3>1, LeftNothing DEF r
  <2> QED BY <2>2, <2>3, <2>4
<1>4. SoFar(Meant(source), parsing, file) /\ parsing \in Calls
  BY <1>1 DEF SoFar, Calls, InSection, InEntry
<1> QED BY <1>1, <1>2, <1>3, <1>4 DEF SourceInv

LEMMA NextSource ==
  ASSUME CfgAssumption, GrammarInv, SourceInv, [CfgNext]_cfgVars
  PROVE  SourceInv'
<1>1. CASE UNCHANGED cfgVars
  <2>1. /\ source' = source /\ edit' = edit /\ text' = text /\ pos' = pos /\ parsing' = parsing
        /\ file' = file
    BY <1>1 DEF cfgVars
  <2> QED BY <2>1 DEF SourceInv
<1>2. CASE CfgNext /\ edit # "none"
  <2>1. UNCHANGED input
    BY <1>2 DEF CfgNext, FileName, Brace, SectionType, SectionName, EntryName, Equals, Value,
                Semicolon, EntryOrEnd, SectionEnd, Accept, Stop
  <2>2. edit' = edit
    BY <2>1 DEF input
  <2> QED BY <1>2, <2>2 DEF SourceInv
<1>3. CASE CfgNext /\ edit = "none"
  <2>1. Unedited
    BY <1>3 DEF Unedited
  <2>2. CASE FileName
    BY <2>1, <2>2, FileNameReads
  <2>3. CASE Brace("fileOpen", "section")
    BY <2>1, <2>3, FileOpenReads
  <2>4. CASE SectionType
    BY <2>1, <2>4, SectionTypeReads
  <2>5. CASE SectionName
    BY <2>1, <2>5, SectionNameReads
  <2>6. CASE Brace("sectionOpen", "entry")
    BY <2>1, <2>6, SectionOpenReads
  <2>7. CASE EntryName
    BY <2>1, <2>7, EntryNameReads
  <2>8. CASE Equals
    BY <2>1, <2>8, EqualsReads
  <2>9. CASE Value
    BY <2>1, <2>9, ValueReads
  <2>10. CASE Semicolon
    BY <2>1, <2>10, SemicolonReads
  <2>11. CASE EntryOrEnd
    BY <2>1, <2>11, EntryOrEndReads
  <2>12. CASE SectionEnd
    BY <2>1, <2>12, SectionEndReads
  <2> QED BY <1>3, <2>2, <2>3, <2>4, <2>5, <2>6, <2>7, <2>8, <2>9, <2>10, <2>11, <2>12 DEF CfgNext
<1> QED BY <1>1, <1>2, <1>3

LEMMA SourceHolds ==
  ASSUME CfgAssumption, GrammarInv, SourceInv
  PROVE  SourceIsRead
<1> SUFFICES ASSUME edit = "none" PROVE SourceIsRead
  BY DEF SourceIsRead
<1>1. /\ source \in Files /\ parsing \in Calls /\ file \in AnyFile
      /\ Left(Render(source), pos - 1) = LeftFor(source, parsing, file)
      /\ SoFar(Meant(source), parsing, file)
      /\ text \in Seq(Token) /\ pos \in 1 .. Len(text) + 1
  BY DEF SourceInv, GrammarInv
<1>2. parsing \notin {"null", "fatal"}
  BY <1>1 DEF Calls, InSection, InEntry
<1>3. ASSUME parsing = "done" PROVE file = Meant(source) /\ pos = Len(text) + 1
  <2> DEFINE M == Meant(source).sections
             r == Render(source)
             n == Len(r)
  <2>1. /\ file.name = Meant(source).name /\ Begins(file.sections, M) /\ Len(file.sections) = Len(M)
        /\ Left(r, pos - 1) = << >>
    BY <1>1, <1>3 DEF SoFar, LeftFor
  <2>2. Meant(source) = [name |-> Meant(source).name, sections |-> M] /\ M = [k \in 1 .. Len(M) |-> M[k]]
    <3>1. Meant(source) = [name |-> source.name, sections |-> M] /\ M = [k \in 1 .. Len(M) |-> M[k]]
      BY <1>1, MeantShape
    <3>2. Meant(source).name = source.name
      BY DEF Meant
    <3> QED BY <3>1, <3>2
  <2>3. file.sections \in Seq(AnySection(Values))
    BY <1>1 DEF AnyFile
  <2>4. file.sections = M
    <3> HIDE DEF M
    <3> QED BY <2>1, <2>2, <2>3, BeginsAll
  <2>5. file = Meant(source)
    <3>1. file = [name |-> file.name, sections |-> file.sections]
      BY <1>1 DEF AnyFile
    <3> HIDE DEF M
    <3> QED BY <2>1, <2>2, <2>4, <3>1
  <2>6. r \in Seq(PartOf(Written))
    BY <1>1, RenderUnfolds
  <2>7. Len(text) = n /\ n \in Nat
    <3>1. PICK quotes \in {"name", "string"} : text = TextOf(r, quotes)
      BY DEF SourceInv
    <3>2. DOMAIN text = DOMAIN r
      BY <3>1 DEF TextOf
    <3> HIDE DEF r
    <3>3. DOMAIN text = 1 .. Len(text) /\ DOMAIN r = 1 .. n /\ Len(text) \in Nat /\ n \in Nat
      BY <1>1, <2>6, LenProperties
    <3>4. 1 .. Len(text) = 1 .. n
      BY <3>2, <3>3
    <3>5. ASSUME NEW a \in Nat, NEW b \in Nat, 1 .. a = 1 .. b PROVE a = b
      <4>1. a <= b
        BY <3>5
      <4>2. b <= a
        BY <3>5
      <4> QED BY <4>1, <4>2
    <3> HIDE DEF n
    <3> QED BY <3>3, <3>4, <3>5
  <2>8. pos = n + 1
    <3> HIDE DEF r, n
    <3>1. pos \in 1 .. n + 1 /\ n \in Nat
      BY <1>1, <2>7
    <3>2. pos - 1 \in 0 .. n
      BY ONLY <3>1
    <3>3. Len(Left(r, pos - 1)) = n - (pos - 1)
      BY <2>6, <3>2, LeftProps DEF n
    <3>4. Len(<< >>) = 0
      OBVIOUS
    <3>5. n - (pos - 1) = 0
      BY <2>1, <3>3, <3>4
    <3> QED BY ONLY <3>1, <3>5
  <2> QED BY <2>5, <2>7, <2>8
<1> QED BY <1>2, <1>3 DEF SourceIsRead

(* SourceIsRead: a file of the grammar is accepted to its last token, and   *)
(* accept_file builds the sections, the entries and the values that were   *)
(* meant, however many there are and however large the numbers.            *)
THEOREM ReadsTheSource ==
  ASSUME CfgAssumption
  PROVE  CfgSpec => []SourceIsRead
<1>1. CfgInit => GrammarInv /\ SourceInv
  BY InitGrammar, InitSource
<1>2. GrammarInv /\ SourceInv /\ [CfgNext]_cfgVars => GrammarInv' /\ SourceInv'
  BY NextGrammar, NextSource
<1>3. GrammarInv /\ SourceInv => SourceIsRead
  BY SourceHolds
<1> QED BY <1>1, <1>2, <1>3, PTL DEF CfgSpec

-----------------------------------------------------------------------------
(* The digits of a number. *)

Bases == {8, 10, 16}
Digits(b) == {DigitChars[i] : i \in 1 .. b}

(* The recursive function of Numeral. *)
NumTo(n, b, f) ==
  f = [k \in 0 .. n |-> IF k < b THEN <<DigitChars[k + 1]>>
                        ELSE Append(f[k \div b], DigitChars[(k % b) + 1])]

LEMMA Divided ==
  ASSUME NEW b \in Bases, NEW n \in Nat
  PROVE  /\ n % b \in 0 .. b - 1 /\ n \div b \in Nat
         /\ n = (b * (n \div b)) + (n % b)
         /\ n >= b => n \div b \in 1 .. n - 1
<1>1. CASE b = 8
  BY <1>1
<1>2. CASE b = 10
  BY <1>2
<1>3. CASE b = 16
  BY <1>3
<1> QED BY <1>1, <1>2, <1>3 DEF Bases

LEMMA NumExists ==
  ASSUME NEW b \in Bases, NEW n \in Nat
  PROVE  \E f : NumTo(n, b, f)
<1> DEFINE Stuck == {k \in Nat : ~ \E f : NumTo(k, b, f)}
<1>1. SUFFICES ASSUME Stuck # {} PROVE FALSE
  OBVIOUS
<1>2. PICK m \in Stuck : \A k \in Stuck : m <= k
  <2> HIDE DEF Stuck
  <2> QED BY <1>1, Least, Stuck \in SUBSET Nat DEF Stuck
<1>3. CASE m = 0
  <2> DEFINE f == [k \in 0 .. 0 |-> <<DigitChars[k + 1]>>]
  <2>1. \A k \in 0 .. 0 : k < b
    BY DEF Bases
  <2>2. NumTo(0, b, f)
    BY <2>1 DEF NumTo
  <2> QED BY <1>2, <1>3, <2>2
<1>4. CASE m # 0
  <2>1. m - 1 \in Nat /\ m - 1 \notin Stuck /\ m \in Nat
    BY <1>2, <1>4
  <2>2. PICK f : NumTo(m - 1, b, f)
    BY <2>1
  <2> DEFINE step(h, k) == IF k < b THEN <<DigitChars[k + 1]>>
                           ELSE Append(h[k \div b], DigitChars[(k % b) + 1])
             g == [k \in 0 .. m |-> IF k = m THEN step(f, m) ELSE f[k]]
  <2>3. \A k \in 0 .. m - 1 : g[k] = f[k]
    BY <2>1
  <2>4. \A k \in 0 .. m - 1 : f[k] = step(f, k)
    BY <2>2 DEF NumTo
  <2>5. \A k \in 0 .. m : g[k] = step(g, k)
    <3> TAKE k \in 0 .. m
    <3>1. k >= b => k \div b \in 0 .. m - 1
      BY <2>1, Divided
    <3>2. k >= b => g[k \div b] = f[k \div b]
      BY <2>3, <3>1
    <3>3. step(g, k) = step(f, k)
      <4>1. b \in Nat /\ k \in Nat
        BY <2>1 DEF Bases
      <4> HIDE DEF g
      <4> QED BY <3>2, <4>1
    <3>4. CASE k = m
      BY <3>3, <3>4
    <3>5. CASE k # m
      <4>1. k \in 0 .. m - 1
        BY <2>1, <3>5
      <4> HIDE DEF g, step
      <4> QED BY <2>3, <2>4, <3>3, <4>1
    <3> QED BY <3>4, <3>5
  <2>6. NumTo(m, b, g)
    <3>1. g = [k \in 0 .. m |-> g[k]]
      OBVIOUS
    <3> HIDE DEF g
    <3> QED BY <2>5, <3>1 DEF NumTo
  <2> QED BY <1>2, <2>6
<1> QED BY <1>3, <1>4

LEMMA NumUnfolds ==
  ASSUME NEW b \in Bases, NEW n \in Nat
  PROVE  \E f : NumTo(n, b, f) /\ Numeral(n, b) = f[n]
<1>1. NumTo(n, b, CHOOSE f : NumTo(n, b, f))
  BY NumExists
<1>2. Numeral(n, b) = (CHOOSE f : NumTo(n, b, f))[n]
  BY DEF Numeral, NumTo
<1> QED BY <1>1, <1>2

LEMMA NumAgree ==
  ASSUME NEW b \in Bases, NEW m \in Nat, NEW n \in Nat, NEW f, NEW g, NumTo(m, b, f), NumTo(n, b, g),
         NEW k \in 0 .. m, k <= n
  PROVE  f[k] = g[k]
<1> DEFINE Odd == {j \in Nat : j <= m /\ j <= n /\ f[j] # g[j]}
<1>1. SUFFICES ASSUME Odd # {} PROVE FALSE
  OBVIOUS
<1>2. PICK j \in Odd : \A i \in Odd : j <= i
  <2> HIDE DEF Odd
  <2> QED BY <1>1, Least, Odd \in SUBSET Nat DEF Odd
<1>3. j \in 0 .. m /\ j \in 0 .. n /\ f[j] # g[j]
  BY <1>2
<1>4. f[j] = IF j < b THEN <<DigitChars[j + 1]>> ELSE Append(f[j \div b], DigitChars[(j % b) + 1])
  BY <1>3 DEF NumTo
<1>5. g[j] = IF j < b THEN <<DigitChars[j + 1]>> ELSE Append(g[j \div b], DigitChars[(j % b) + 1])
  BY <1>3 DEF NumTo
<1>6. j >= b => f[j \div b] = g[j \div b]
  <2>1. j >= b => j \div b \in 1 .. j - 1
    BY <1>3, Divided
  <2>2. j >= b => j \div b \notin Odd /\ j \div b \in Nat /\ j \div b <= m /\ j \div b <= n
    BY <1>2, <1>3, <2>1
  <2> QED BY <2>2
<1>7. b \in Nat /\ j \in Nat
  BY <1>3 DEF Bases
<1> HIDE DEF Odd
<1> QED BY <1>3, <1>4, <1>5, <1>6, <1>7

LEMMA NumeralStep ==
  ASSUME NEW b \in Bases, NEW n \in Nat
  PROVE  Numeral(n, b) = IF n < b THEN <<DigitChars[n + 1]>>
                         ELSE Append(Numeral(n \div b, b), DigitChars[(n % b) + 1])
<1>1. PICK f : NumTo(n, b, f) /\ Numeral(n, b) = f[n]
  BY NumUnfolds
<1>2. f[n] = IF n < b THEN <<DigitChars[n + 1]>> ELSE Append(f[n \div b], DigitChars[(n % b) + 1])
  <2>1. n \in 0 .. n
    OBVIOUS
  <2> QED BY <1>1, <2>1 DEF NumTo
<1>3. CASE n < b
  BY <1>1, <1>2, <1>3
<1>4. CASE ~ (n < b)
  <2>1. n \div b \in 1 .. n - 1 /\ n \div b \in Nat
    BY <1>4, Divided DEF Bases
  <2>2. PICK g : NumTo(n \div b, b, g) /\ Numeral(n \div b, b) = g[n \div b]
    BY <2>1, NumUnfolds
  <2>3. n \div b \in 0 .. n /\ n \div b <= n \div b
    BY <2>1
  <2>4. f[n \div b] = g[n \div b]
    BY <1>1, <2>1, <2>2, <2>3, NumAgree
  <2> QED BY <1>1, <1>2, <1>4, <2>2, <2>4
<1> QED BY <1>3, <1>4

LEMMA DigitTyped ==
  ASSUME NEW b \in Bases, NEW n \in 0 .. b - 1
  PROVE  DigitChars[n + 1] \in Digits(b)
<1>1. n + 1 \in 1 .. b
  BY DEF Bases
<1> QED BY <1>1 DEF Digits

LEMMA NumeralTyped ==
  ASSUME NEW b \in Bases, NEW n \in Nat
  PROVE  Numeral(n, b) \in Seq(Digits(b)) /\ Numeral(n, b) # << >>
<1> DEFINE Good(k) == Numeral(k, b) \in Seq(Digits(b)) /\ Numeral(k, b) # << >>
           Odd == {k \in Nat : ~ Good(k)}
<1>1. SUFFICES ASSUME Odd # {} PROVE FALSE
  OBVIOUS
<1>2. PICK j \in Odd : \A i \in Odd : j <= i
  <2> HIDE DEF Odd
  <2> QED BY <1>1, Least, Odd \in SUBSET Nat DEF Odd
<1>3. Numeral(j, b) = IF j < b THEN <<DigitChars[j + 1]>>
                      ELSE Append(Numeral(j \div b, b), DigitChars[(j % b) + 1])
  BY <1>2, NumeralStep
<1> HIDE DEF Good
<1>4. j \in Nat /\ b \in Nat
  BY <1>2 DEF Bases
<1>5. CASE j < b
  <2>1. DigitChars[j + 1] \in Digits(b)
    BY <1>4, <1>5, DigitTyped
  <2>2. <<DigitChars[j + 1]>> \in Seq(Digits(b)) /\ <<DigitChars[j + 1]>> # << >>
    BY <2>1
  <2> QED BY <1>2, <1>3, <1>5, <2>2 DEF Good
<1>6. CASE ~ (j < b)
  <2>1. j \div b \in 1 .. j - 1
    BY <1>4, <1>6, Divided
  <2>2. Good(j \div b)
    BY <1>2, <1>4, <2>1
  <2>3. DigitChars[(j % b) + 1] \in Digits(b)
    BY <1>4, Divided, DigitTyped
  <2>4. Append(Numeral(j \div b, b), DigitChars[(j % b) + 1]) \in Seq(Digits(b))
        /\ Append(Numeral(j \div b, b), DigitChars[(j % b) + 1]) # << >>
    BY <2>2, <2>3, AppendProperties DEF Good
  <2> QED BY <1>2, <1>3, <1>6, <2>4 DEF Good
<1> QED BY <1>5, <1>6

LEMMA DecimalDigits ==
  /\ Digits(10) = {"0", "1", "2", "3", "4", "5", "6", "7", "8", "9"}
  /\ \A b \in Bases : Digits(b) \subseteq Chars \ {"%"}
  /\ \A i, j \in 0 .. 9 : DigitChars[i + 1] = DigitChars[j + 1] => i = j
  /\ \A i \in 0 .. 9 : DigitChars[i + 1] = "0" => i = 0
  /\ \A c : IsDigit(c) <=> c \in Digits(10)
  /\ \A i \in 0 .. 9 : Digit(DigitChars[i + 1]) = i
<1>1. /\ DigitChars[1] = "0" /\ DigitChars[2] = "1" /\ DigitChars[3] = "2" /\ DigitChars[4] = "3"
      /\ DigitChars[5] = "4" /\ DigitChars[6] = "5" /\ DigitChars[7] = "6" /\ DigitChars[8] = "7"
      /\ DigitChars[9] = "8" /\ DigitChars[10] = "9" /\ DigitChars[11] = "A" /\ DigitChars[12] = "B"
      /\ DigitChars[13] = "C" /\ DigitChars[14] = "D" /\ DigitChars[15] = "E" /\ DigitChars[16] = "F"
  BY DEF DigitChars
<1>2. Digits(10) = {"0", "1", "2", "3", "4", "5", "6", "7", "8", "9"}
  <2>1. 1 .. 10 = {1, 2, 3, 4, 5, 6, 7, 8, 9, 10}
    OBVIOUS
  <2> QED BY <1>1, <2>1 DEF Digits
<1>3. \A b \in Bases : Digits(b) \subseteq Chars \ {"%"}
  <2>1. \A i \in 1 .. 16 : DigitChars[i] \in Chars \ {"%"}
    <3>1. 1 .. 16 = {1, 2, 3, 4, 5, 6, 7, 8, 9, 10, 11, 12, 13, 14, 15, 16}
      OBVIOUS
    <3> QED BY <1>1, <3>1 DEF Chars
  <2>2. \A b \in Bases : 1 .. b \subseteq 1 .. 16
    BY DEF Bases
  <2> QED BY <2>1, <2>2 DEF Digits
<1>4. \A i, j \in 0 .. 9 : DigitChars[i + 1] = DigitChars[j + 1] => i = j
  <2>1. 0 .. 9 = {0, 1, 2, 3, 4, 5, 6, 7, 8, 9}
    OBVIOUS
  <2>2. \A i \in {0, 1, 2, 3, 4, 5, 6, 7, 8, 9} :
          DigitChars[i + 1] = CASE i = 0 -> "0" [] i = 1 -> "1" [] i = 2 -> "2" [] i = 3 -> "3" [] i = 4 -> "4"
                                [] i = 5 -> "5" [] i = 6 -> "6" [] i = 7 -> "7" [] i = 8 -> "8" [] i = 9 -> "9"
    BY <1>1
  <2> HIDE DEF DigitChars
  <2> QED BY <2>1, <2>2
<1>5. \A i \in 0 .. 9 : DigitChars[i + 1] = "0" => i = 0
  <2>1. 0 \in 0 .. 9 /\ DigitChars[0 + 1] = "0"
    BY <1>1
  <2> QED BY <1>4, <2>1
<1>6. \A c : IsDigit(c) <=> c \in Digits(10)
  <2>1. ToSet(SubSeq(DigitChars, 1, 10)) = Digits(10)
    <3>1. /\ SubSeq(DigitChars, 1, 10) \in Seq(Chars)
          /\ Len(SubSeq(DigitChars, 1, 10)) = 10
          /\ \A i \in 1 .. 10 : SubSeq(DigitChars, 1, 10)[i] = DigitChars[i]
      <4>1. \A i \in 1 .. 10 : DigitChars[i] \in Chars
        <5>1. 1 .. 10 = {1, 2, 3, 4, 5, 6, 7, 8, 9, 10}
          OBVIOUS
        <5> QED BY <1>1, <5>1 DEF Chars
      <4> DEFINE m == 1
                 n == 10
      <4>2. m \in Int /\ n \in Int /\ \A i \in m .. n : DigitChars[i] \in Chars
        BY <4>1
      <4> HIDE DEF m, n
      <4>3. /\ SubSeq(DigitChars, m, n) \in Seq(Chars)
            /\ Len(SubSeq(DigitChars, m, n)) = IF m <= n THEN n - m + 1 ELSE 0
            /\ \A i \in 1 .. n - m + 1 : SubSeq(DigitChars, m, n)[i] = DigitChars[m + i - 1]
        BY <4>2, SubSeqProperties
      <4>4. n - m + 1 = 10 /\ m <= n /\ \A i \in 1 .. 10 : m + i - 1 = i
        BY DEF m, n
      <4>5. /\ SubSeq(DigitChars, m, n) \in Seq(Chars)
            /\ Len(SubSeq(DigitChars, m, n)) = 10
            /\ \A i \in 1 .. 10 : SubSeq(DigitChars, m, n)[i] = DigitChars[i]
        BY <4>3, <4>4
      <4> QED BY <4>5 DEF m, n
    <3> DEFINE t == SubSeq(DigitChars, 1, 10)
    <3>2. t \in Seq(Chars) /\ Len(t) = 10 /\ \A i \in 1 .. 10 : t[i] = DigitChars[i]
      BY <3>1
    <3> HIDE DEF t
    <3>3. DOMAIN t = 1 .. 10
      BY <3>2, LenProperties
    <3>4. ToSet(t) = Digits(10)
      BY <3>2, <3>3 DEF ToSet, Digits
    <3> QED BY <3>4 DEF t
  <2> QED BY <2>1 DEF IsDigit
<1>7. \A i \in 0 .. 9 : Digit(DigitChars[i + 1]) = i
  <2> TAKE i \in 0 .. 9
  <2> DEFINE c == DigitChars[i + 1]
  <2>1. \E d \in 0 .. 9 : DigitChars[d + 1] = c
    OBVIOUS
  <2>2. Digit(c) \in 0 .. 9 /\ DigitChars[Digit(c) + 1] = c
    <3> HIDE DEF c
    <3> QED BY <2>1 DEF Digit
  <2> QED BY <1>4, <2>2
<1> QED BY <1>2, <1>3, <1>4, <1>5, <1>6, <1>7

(* A width is spelled in one way, and not with a zero in front.            *)
LEMMA NumeralInjective ==
  ASSUME NEW m \in Nat, NEW n \in Nat, Numeral(m, 10) = Numeral(n, 10)
  PROVE  m = n
<1> DEFINE Twin(k) == \E l \in Nat : Numeral(k, 10) = Numeral(l, 10) /\ k # l
           Odd == {k \in Nat : Twin(k)}
<1>1. SUFFICES ASSUME Odd # {} PROVE FALSE
  OBVIOUS
<1>2. PICK j \in Odd : \A i \in Odd : j <= i
  <2> HIDE DEF Odd
  <2> QED BY <1>1, Least, Odd \in SUBSET Nat DEF Odd
<1>3. PICK l \in Nat : Numeral(j, 10) = Numeral(l, 10) /\ j # l
  BY <1>2
<1>4. j \in Nat /\ 10 \in Bases
  BY <1>2 DEF Bases
<1> HIDE DEF Twin, Odd
<1>5. \A k \in Nat : Numeral(k, 10) = IF k < 10 THEN <<DigitChars[k + 1]>>
                                      ELSE Append(Numeral(k \div 10, 10), DigitChars[(k % 10) + 1])
  BY <1>4, NumeralStep
<1>6. \A k \in Nat : /\ k % 10 \in 0 .. 9 /\ k \div 10 \in Nat /\ k = (10 * (k \div 10)) + (k % 10)
                     /\ k >= 10 => k \div 10 \in 1 .. k - 1
  OBVIOUS
<1>7. \A k \in Nat : Numeral(k, 10) \in Seq(Digits(10)) /\ Numeral(k, 10) # << >>
  BY <1>4, NumeralTyped
<1>8. \A k \in 0 .. 9 : DigitChars[k + 1] \in Digits(10)
  BY <1>4, DigitTyped
<1>9. ASSUME NEW k \in Nat, NEW i \in 0 .. 9, k >= 10, Numeral(k, 10) = Numeral(i, 10) PROVE FALSE
  <2>1. i \in Nat /\ i < 10 /\ ~ (k < 10)
    BY <1>9
  <2>2. Numeral(i, 10) = <<DigitChars[i + 1]>>
    BY <1>5, <2>1
  <2>3. Numeral(k, 10) = Append(Numeral(k \div 10, 10), DigitChars[(k % 10) + 1])
    BY <1>5, <2>1
  <2> DEFINE a == Numeral(k \div 10, 10)
             c == DigitChars[(k % 10) + 1]
  <2>4. a \in Seq(Digits(10)) /\ a # << >> /\ c \in Digits(10)
    BY <1>6, <1>7, <1>8
  <2>5. Numeral(k, 10) = Append(a, c)
    BY <2>3
  <2> HIDE DEF a, c
  <2>6. Len(Append(a, c)) = Len(a) + 1 /\ Len(a) \in Nat \ {0}
    BY <2>4, AppendProperties, EmptySeq
  <2>7. Len(Numeral(i, 10)) = 1
    BY <2>2
  <2> QED BY <1>9, <2>5, <2>6, <2>7
<1>10. CASE j < 10 /\ l < 10
  <2>1. j \in 0 .. 9 /\ l \in 0 .. 9
    BY <1>4, <1>10
  <2>2. <<DigitChars[j + 1]>> = <<DigitChars[l + 1]>>
    <3>1. Numeral(j, 10) = <<DigitChars[j + 1]>>
      BY <1>4, <1>5, <1>10
    <3>2. Numeral(l, 10) = <<DigitChars[l + 1]>>
      BY <1>5, <1>10
    <3> QED BY <1>3, <3>1, <3>2
  <2>3. DigitChars[j + 1] = DigitChars[l + 1]
    BY <2>2
  <2> QED BY <1>3, <2>1, <2>3, DecimalDigits
<1>11. CASE j < 10 /\ ~ (l < 10)
  BY <1>3, <1>4, <1>9, <1>11
<1>12. CASE ~ (j < 10) /\ l < 10
  BY <1>3, <1>4, <1>9, <1>12
<1>13. CASE ~ (j < 10) /\ ~ (l < 10)
  <2> DEFINE a == Numeral(j \div 10, 10)
             b == Numeral(l \div 10, 10)
             c == DigitChars[(j % 10) + 1]
             d == DigitChars[(l % 10) + 1]
  <2>1. a \in Seq(Digits(10)) /\ b \in Seq(Digits(10)) /\ c \in Digits(10) /\ d \in Digits(10)
    BY <1>4, <1>6, <1>7, <1>8
  <2>2. Append(a, c) = Append(b, d)
    BY <1>3, <1>4, <1>5, <1>13
  <2>3. a = b /\ c = d
    <3> HIDE DEF a, b, c, d
    <3> QED BY <2>1, <2>2, AppendInjective
  <2>4. j % 10 = l % 10
    BY <1>4, <1>6, <2>3, DecimalDigits
  <2>5. j \div 10 = l \div 10
    <3>1. j \div 10 \in Nat /\ j \div 10 < j /\ l \div 10 \in Nat
      BY <1>4, <1>6, <1>13
    <3>2. j \div 10 \notin Odd
      BY <1>2, <1>4, <3>1
    <3> QED BY <2>3, <3>1, <3>2 DEF Odd, Twin
  <2> QED BY <1>3, <1>4, <1>6, <2>4, <2>5
<1> QED BY <1>10, <1>11, <1>12, <1>13

LEMMA NumeralFirst ==
  ASSUME NEW n \in Nat \ {0}
  PROVE  Numeral(n, 10)[1] \in Digits(10) \ {"0"}
<1> DEFINE Good(k) == Numeral(k, 10)[1] \in Digits(10) \ {"0"}
           Odd == {k \in Nat \ {0} : ~ Good(k)}
<1>1. SUFFICES ASSUME Odd # {} PROVE FALSE
  OBVIOUS
<1>2. PICK j \in Odd : \A i \in Odd : j <= i
  <2> HIDE DEF Odd
  <2> QED BY <1>1, Least, Odd \in SUBSET Nat DEF Odd
<1>3. j \in Nat \ {0} /\ 10 \in Bases /\ ~ Good(j)
  BY <1>2 DEF Bases
<1>4. Numeral(j, 10) = IF j < 10 THEN <<DigitChars[j + 1]>>
                       ELSE Append(Numeral(j \div 10, 10), DigitChars[(j % 10) + 1])
  BY <1>3, NumeralStep
<1>5. CASE j < 10
  <2>1. j \in 0 .. 10 - 1 /\ j \in 0 .. 9
    BY <1>3, <1>5
  <2>2. DigitChars[j + 1] \in Digits(10) /\ DigitChars[j + 1] # "0"
    BY <1>3, <2>1, DigitTyped, DecimalDigits
  <2>3. Numeral(j, 10)[1] = DigitChars[j + 1]
    BY <1>4, <1>5
  <2> QED BY <1>3, <2>2, <2>3
<1>6. CASE ~ (j < 10)
  <2> DEFINE a == Numeral(j \div 10, 10)
             c == DigitChars[(j % 10) + 1]
  <2>1. j \div 10 \in 1 .. j - 1 /\ j % 10 \in 0 .. 10 - 1
    BY <1>3, <1>6
  <2>2. Good(j \div 10)
    BY <1>2, <1>3, <2>1
  <2>3. a \in Seq(Digits(10)) /\ a # << >> /\ c \in Digits(10)
    <3>1. j \div 10 \in Nat
      BY <2>1
    <3> QED BY <1>3, <2>1, <3>1, NumeralTyped, DigitTyped
  <2>4. Append(a, c)[1] = a[1]
    <3> HIDE DEF a, c
    <3>1. Len(a) \in Nat \ {0}
      BY <2>3, EmptySeq
    <3> QED BY <2>3, <3>1, AppendProperties
  <2> QED BY <1>3, <1>4, <1>6, <2>2, <2>4
<1> QED BY <1>5, <1>6

-----------------------------------------------------------------------------
(* The text of a number. *)

Shown == Chars \cup {" "}

LEMMA MaxTwo == \A a, b \in Int : Max({a, b}) = IF a >= b THEN a ELSE b
<1> TAKE a, b \in Int
<1> DEFINE m == IF a >= b THEN a ELSE b
<1>1. m \in {a, b} /\ \A y \in {a, b} : m >= y
  OBVIOUS
<1>2. \A x \in {a, b} : (\A y \in {a, b} : x >= y) => x = m
  OBVIOUS
<1> HIDE DEF m
<1>3. (CHOOSE x \in {a, b} : \A y \in {a, b} : x >= y) = m
  BY <1>1, <1>2
<1> QED BY <1>3 DEF Max, m

LEMMA MinTwo == \A a, b \in Int : Min({a, b}) = IF a <= b THEN a ELSE b
<1> TAKE a, b \in Int
<1> DEFINE m == IF a <= b THEN a ELSE b
<1>1. m \in {a, b} /\ \A y \in {a, b} : m <= y
  OBVIOUS
<1>2. \A x \in {a, b} : (\A y \in {a, b} : x <= y) => x = m
  OBVIOUS
<1> HIDE DEF m
<1>3. (CHOOSE x \in {a, b} : \A y \in {a, b} : x <= y) = m
  BY <1>1, <1>2
<1> QED BY <1>3 DEF Min, m

Padded(digits, z, w) == [i \in 1 .. Max({0, w - Len(digits)}) |-> z] \o digits
Placed(digits, z, length) ==
  [i \in 1 .. length |-> IF i > length - Len(digits) THEN digits[i - (length - Len(digits))] ELSE z]

LEMMA PlacedTyped ==
  ASSUME NEW digits \in Seq(Shown), NEW z \in Shown, NEW length \in Int
  PROVE  Placed(digits, z, length) \in Seq(Shown)
<1>1. Len(digits) \in Nat /\ \A i \in 1 .. Len(digits) : digits[i] \in Shown
  BY LenProperties, ElementOfSeq
<1> DEFINE e(i) == IF i > length - Len(digits) THEN digits[i - (length - Len(digits))] ELSE z
           k == IF length < 0 THEN 0 ELSE length
<1>2. k \in Nat /\ 1 .. length = 1 .. k
  OBVIOUS
<1>3. \A i \in 1 .. k : e(i) \in Shown
  <2> TAKE i \in 1 .. k
  <2>1. i > length - Len(digits) => i - (length - Len(digits)) \in 1 .. Len(digits)
    BY <1>1
  <2> QED BY <1>1, <2>1
<1>4. Placed(digits, z, length) = [i \in 1 .. k |-> e(i)]
  BY <1>2 DEF Placed
<1> HIDE DEF e, k
<1>5. [i \in 1 .. k |-> e(i)] \in Seq(Shown)
  BY <1>2, <1>3
<1> QED BY <1>4, <1>5

LEMMA PaddedPlaced ==
  ASSUME NEW digits \in Seq(Shown), NEW z \in Shown, NEW w \in Int
  PROVE  /\ Padded(digits, z, w) \in Seq(Shown)
         /\ Len(Padded(digits, z, w)) = Max({Len(digits), w})
         /\ \A i \in 1 .. Max({Len(digits), w}) :
              Padded(digits, z, w)[i] = Placed(digits, z, Max({Len(digits), w}))[i]
<1> DEFINE l == Len(digits)
           p == Max({0, w - l})
           m == Max({l, w})
           pad == [i \in 1 .. p |-> z]
<1>1. l \in Nat /\ \A i \in 1 .. l : digits[i] \in Shown
  BY LenProperties, ElementOfSeq
<1>2. p \in Nat /\ m = p + l
  <2>1. p = IF 0 >= w - l THEN 0 ELSE w - l
    BY <1>1, MaxTwo
  <2>2. m = IF l >= w THEN l ELSE w
    BY <1>1, MaxTwo
  <2> HIDE DEF p, m
  <2> QED BY <1>1, <2>1, <2>2
<1>3. pad \in Seq(Shown) /\ Len(pad) = p /\ \A i \in 1 .. p : pad[i] = z
  <2> HIDE DEF p
  <2> QED BY <1>2
<1> HIDE DEF l, p, m, pad
<1>4. /\ pad \o digits \in Seq(Shown) /\ Len(pad \o digits) = p + l
      /\ \A i \in 1 .. p + l : (pad \o digits)[i] = IF i <= p THEN pad[i] ELSE digits[i - p]
  <2>1. /\ pad \o digits \in Seq(Shown) /\ Len(pad \o digits) = Len(pad) + Len(digits)
        /\ \A i \in 1 .. Len(pad) + Len(digits) :
             (pad \o digits)[i] = IF i <= Len(pad) THEN pad[i] ELSE digits[i - Len(pad)]
    BY <1>3, ConcatProperties
  <2> QED BY <1>3, <2>1 DEF l
<1>5. \A i \in 1 .. m : Placed(digits, z, m)[i] = IF i > m - l THEN digits[i - (m - l)] ELSE z
  BY DEF Placed, l
<1>6. ASSUME NEW i \in 1 .. m PROVE (pad \o digits)[i] = Placed(digits, z, m)[i]
  <2>1. i \in 1 .. p + l /\ m - l = p /\ (i > p <=> ~ (i <= p)) /\ (i <= p => i \in 1 .. p)
    BY <1>1, <1>2
  <2> QED BY <1>3, <1>4, <1>5, <2>1
<1>7. Padded(digits, z, w) = pad \o digits
  BY DEF Padded, pad, p, l
<1> QED BY <1>2, <1>4, <1>6, <1>7 DEF m, l

LEMMA FittedPlaced ==
  ASSUME NEW digits \in Seq(Shown), NEW z \in Shown, NEW w \in Int
  PROVE  Fitted(Padded(digits, z, w)) = Placed(digits, z, Min({Max({Len(digits), w}), NfBuf - 2}))
<1> DEFINE l == Len(digits)
           m == Max({l, w})
           t == Padded(digits, z, w)
           k == Min({m, NfBuf - 2})
           x == Fitted(t)
           y == Placed(digits, z, k)
<1>1. l \in Nat /\ NfBuf \in Nat \ {0}
  BY LenProperties, PrintfAssumption
<1>2. m \in Nat /\ m >= l
  <2>1. m = IF l >= w THEN l ELSE w
    BY <1>1, MaxTwo
  <2> HIDE DEF m
  <2> QED BY <1>1, <2>1
<1>3. k = IF m <= NfBuf - 2 THEN m ELSE NfBuf - 2
  <2> HIDE DEF m
  <2> QED BY <1>1, <1>2, MinTwo
<1>4. t \in Seq(Shown) /\ Len(t) = m /\ \A i \in 1 .. m : t[i] = Placed(digits, z, m)[i]
  BY PaddedPlaced
<1>5. \A i \in 1 .. m : t[i] = IF i > m - l THEN digits[i - (m - l)] ELSE z
  <2> HIDE DEF t, m
  <2> QED BY <1>4 DEF Placed
<1>6. \A i \in 1 .. k : y[i] = IF i > k - l THEN digits[i - (k - l)] ELSE z
  <2> HIDE DEF k
  <2> QED BY DEF Placed
<1>7. y \in Seq(Shown) /\ y = [i \in 1 .. k |-> y[i]]
  <2>1. k \in Int
    <3> HIDE DEF k
    <3> QED BY <1>1, <1>2, <1>3
  <2> HIDE DEF k
  <2> QED BY <2>1, PlacedTyped DEF Placed
<1> HIDE DEF l, m, t, k, x, y
<1>8. CASE m >= NfBuf - 1
  <2>1. x = SubSeq(t, m - (NfBuf - 3), m)
    BY <1>4, <1>8 DEF Fitted, x
  <2> DEFINE a == m - (NfBuf - 3)
  <2>2. a \in Int /\ m \in Int /\ a >= 2 /\ k = NfBuf - 2 /\ m - a + 1 = k
        /\ (IF a <= m THEN k ELSE 0) = IF k >= 1 THEN k ELSE 0
    BY <1>1, <1>2, <1>3, <1>8
  <2>3. \A i \in a .. m : t[i] \in Shown
    BY <1>4, <2>2, ElementOfSeq
  <2> HIDE DEF a
  <2>4. /\ SubSeq(t, a, m) \in Seq(Shown)
        /\ Len(SubSeq(t, a, m)) = IF a <= m THEN m - a + 1 ELSE 0
        /\ \A i \in 1 .. m - a + 1 : SubSeq(t, a, m)[i] = t[a + i - 1]
    BY <2>2, <2>3, SubSeqProperties
  <2>5. x \in Seq(Shown) /\ Len(x) = (IF k >= 1 THEN k ELSE 0) /\ \A i \in 1 .. k : x[i] = t[a + i - 1]
    BY <2>1, <2>2, <2>4 DEF a
  <2>6. ASSUME NEW i \in 1 .. k PROVE x[i] = y[i]
    <3>1. a + i - 1 \in 1 .. m /\ (a + i - 1) - (m - l) = i - (k - l)
          /\ ((a + i - 1) > m - l <=> i > k - l)
      BY <1>1, <1>2, <2>2
    <3> QED BY <1>5, <1>6, <2>5, <3>1
  <2>7. Len(y) = IF k >= 1 THEN k ELSE 0
    <3>1. DOMAIN y = 1 .. k
      BY <1>7
    <3>2. Len(y) \in Nat /\ DOMAIN y = 1 .. Len(y)
      BY <1>7, LenProperties
    <3>3. k \in Int
      BY <1>1, <1>2, <1>3
    <3> QED BY <3>1, <3>2, <3>3
  <2>8. Len(x) = Len(y) /\ \A i \in 1 .. Len(x) : x[i] = y[i]
    <3>1. k \in Int
      BY <1>1, <1>2, <1>3
    <3> QED BY <2>5, <2>6, <2>7, <3>1
  <2>9. x = y
    BY <1>7, <2>5, <2>8, SeqEqual
  <2> QED BY <2>9 DEF x, y, t, k, m, l
<1>9. CASE ~ (m >= NfBuf - 1)
  <2>1. x = t
    BY <1>4, <1>9 DEF Fitted, x
  <2>2. k = m /\ k \in Nat
    BY <1>1, <1>2, <1>3, <1>9
  <2>3. Len(y) = k
    <3>1. DOMAIN y = 1 .. k
      BY <1>7
    <3>2. Len(y) \in Nat /\ DOMAIN y = 1 .. Len(y)
      BY <1>7, LenProperties
    <3> QED BY <2>2, <3>1, <3>2
  <2>4. \A i \in 1 .. Len(t) : t[i] = y[i]
    BY <1>4, <1>5, <1>6, <2>2
  <2>5. t = y
    BY <1>4, <1>7, <2>2, <2>3, <2>4, SeqEqual
  <2> QED BY <2>1, <2>5 DEF x, y, t, k, m, l
<1> QED BY <1>8, <1>9

-----------------------------------------------------------------------------
(* What a directive means. *)

Conversions == {"d", "x", "u", "o", "c", "s", "%", "n", "a"}
Precisions == {"", "*", "0", "1", "2", "3", "4", "5", "6", "7", "8", "9"}
Lengths == {"", "hh", "h", "l", "ll", "j", "z", "t"}
FlagChars == {"-", "+", "0"}

LEMMA DirectiveTyped ==
  ASSUME NEW d \in Directive
  PROVE  /\ d.conv \in Conversions \cup {"text"} /\ d.prec \in Precisions /\ d.len \in Lengths
         /\ d.flags \in Seq(FlagChars) /\ d.width \in Int
         /\ d.width = Star \/ d.width \in Nat
         /\ d.conv = "text" =>
              d.text \in Chars \ {"%"} /\ d.width = 0 /\ d.prec = "" /\ d.len = ""
<1>1. CASE d \in [conv : {"text"}, text : Chars \ {"%"}, flags : {<< >>}, width : {0}, prec : {""}, len : {""}]
  <2>1. d.flags = << >> /\ d.conv = "text" /\ d.width = 0 /\ d.prec = "" /\ d.len = "" /\ d.text \in Chars \ {"%"}
    BY <1>1
  <2>2. d.flags \in Seq(FlagChars)
    <3>1. << >> \in Seq(FlagChars)
      OBVIOUS
    <3> QED BY <2>1, <3>1
  <2>3. d.prec \in Precisions /\ d.len \in Lengths /\ d.conv \in Conversions \cup {"text"}
    BY <2>1 DEF Precisions, Lengths
  <2>4. d.width \in Int /\ d.width \in Nat
    <3>1. 0 \in Int /\ 0 \in Nat
      OBVIOUS
    <3> QED BY <2>1, <3>1, Zenon
  <2> QED BY <2>1, <2>2, <2>3, <2>4
<1>2. CASE d \in [conv : {"d", "x", "u", "o", "c", "s", "%", "n", "a"}, text : {""},
                  flags : Seq({"-", "+", "0"}), width : {w \in Int : w = Star \/ w \in 0 .. (IntMod \div 2) - 1},
                  prec : {"", "*", "0", "1", "2", "3", "4", "5", "6", "7", "8", "9"},
                  len : {"", "hh", "h", "l", "ll", "j", "z", "t"}]
  <2>1. /\ d.conv \in Conversions /\ d.prec \in Precisions /\ d.len \in Lengths /\ d.flags \in Seq(FlagChars)
        /\ d.width \in {w \in Int : w = Star \/ w \in 0 .. (IntMod \div 2) - 1}
    BY <1>2 DEF Conversions, Precisions, Lengths, FlagChars
  <2>2. d.width \in Int /\ (d.width = Star \/ d.width \in Nat)
    <3>1. d.width \in Int /\ (d.width = Star \/ d.width \in 0 .. (IntMod \div 2) - 1)
      BY <2>1
    <3>2. \A n : d.width \in 0 .. n => d.width >= 0
      BY <3>1
    <3> QED BY <3>1, <3>2
  <2>3. d.conv # "text"
    BY <2>1 DEF Conversions
  <2> QED BY <2>1, <2>2, <2>3
<1> QED BY <1>1, <1>2 DEF Directive

LEMMA SignedTyped ==
  ASSUME NEW n \in Int, NEW mod \in Nat \ {0}
  PROVE  Signed(n, mod) \in Int /\ n % mod \in Nat
<1>1. n % mod \in Nat
  OBVIOUS
<1> QED BY <1>1 DEF Signed

LEMMA SignedRange ==
  ASSUME NEW n \in Int, NEW mod \in Nat \ {0}
  PROVE  Signed(n, mod) \in Int /\ Signed(n, mod) >= -mod /\ Signed(n, mod) < mod
<1>1. n % mod \in Nat /\ n % mod < mod
  OBVIOUS
<1> DEFINE m == n % mod
<1>2. Signed(n, mod) = IF 2 * m >= mod THEN m - mod ELSE m
  BY DEF Signed
<1> HIDE DEF m
<1>3. m \in Nat /\ m < mod
  BY <1>1 DEF m
<1> QED BY <1>2, <1>3

LEMMA Product ==
  /\ \A a, b \in Nat : a * b \in Nat
  /\ \A a, b, e \in Int : a * (b + e) = a * b + a * e /\ a * b \in Int
OBVIOUS

(* Two words: their sign is the sign of the high one. *)
LEMMA TwoWords ==
  ASSUME NEW M \in Nat \ {0}, M % 2 = 0, NEW low \in Nat, low < M, NEW h \in Nat
  PROVE  /\ 2 * (low + M * h) >= M * M <=> 2 * h >= M
         /\ low + M * (h - M) = (low + M * h) - M * M
         /\ low + M * h \in Nat /\ M * M \in Nat /\ M * M >= M
<1>1. PICK k \in Nat : M = 2 * k /\ k >= 1
  <2>1. M \div 2 \in Nat /\ M = 2 * (M \div 2)
    OBVIOUS
  <2> QED BY <2>1
<1> DEFINE x == M * h
           y == M * k
           q == M * M
<1>2. x \in Nat /\ y \in Nat /\ q \in Nat
  BY <1>1, Product
<1>3. q = y + y
  <2>1. M = k + k
    BY <1>1
  <2>2. M * (k + k) = M * k + M * k
    BY <1>1, Product
  <2> QED BY <2>1, <2>2
<1>4. h >= k => x >= y
  <2>1. SUFFICES ASSUME h >= k PROVE x >= y
    OBVIOUS
  <2>2. h - k \in Nat /\ h = k + (h - k)
    BY <1>1, <2>1
  <2>3. M * (k + (h - k)) = M * k + M * (h - k) /\ M * (h - k) \in Nat
    BY <1>1, <2>2, Product
  <2>4. x = y + M * (h - k)
    BY <2>2, <2>3
  <2> DEFINE e == M * (h - k)
  <2>5. x = y + e /\ e \in Nat
    BY <2>3, <2>4
  <2> HIDE DEF x, y, e
  <2> QED BY <1>2, <2>5
<1>5. h < k => y >= x + M
  <2>1. SUFFICES ASSUME h < k PROVE y >= x + M
    OBVIOUS
  <2>2. (k - h) - 1 \in Nat /\ k = h + (1 + ((k - h) - 1))
    BY <1>1, <2>1
  <2> DEFINE e == (k - h) - 1
  <2>3. e \in Nat /\ k = h + (1 + e)
    BY <2>2
  <2> HIDE DEF e
  <2>4. M * (h + (1 + e)) = M * h + M * (1 + e) /\ M * (1 + e) = M * 1 + M * e /\ M * e \in Nat /\ M * 1 = M
    BY <2>3, Product
  <2> DEFINE f == M * e
             g == M * (1 + e)
  <2>5. y = x + g /\ g = M + f /\ f \in Nat
    BY <2>3, <2>4
  <2> HIDE DEF x, y, f, g
  <2> QED BY <1>2, <2>5
<1>6. M * (h - M) = x - q
  <2>1. M * (h + (-M)) = M * h + M * (-M) /\ M * (-M) = -(M * M)
    BY Product
  <2>2. h + (-M) = h - M
    OBVIOUS
  <2> QED BY <2>1, <2>2
<1>7. y >= M
  <2>1. k - 1 \in Nat /\ k = 1 + (k - 1)
    BY <1>1
  <2>2. M * (1 + (k - 1)) = M * 1 + M * (k - 1) /\ M * (k - 1) \in Nat /\ M * 1 = M
    BY <2>1, Product
  <2> DEFINE f == M * (k - 1)
  <2>3. y = M + f /\ f \in Nat
    BY <2>1, <2>2
  <2> HIDE DEF f, y
  <2> QED BY <2>3
<1>8. 2 * (low + x) >= q <=> 2 * h >= M
  <2> HIDE DEF x, y, q
  <2> QED BY <1>1, <1>2, <1>3, <1>4, <1>5
<1>9. low + M * (h - M) = (low + x) - q
  <2> DEFINE z == M * (h - M)
  <2>1. z = x - q
    BY <1>6
  <2> HIDE DEF x, q, z
  <2>2. low + z = (low + x) - q
    BY <1>2, <2>1
  <2> QED BY <2>2 DEF z
<1>10. low + x \in Nat /\ q >= M
  <2> HIDE DEF x, y, q
  <2> QED BY <1>2, <1>3, <1>7
<1> QED BY <1>2, <1>8, <1>9, <1>10

LEMMA ArgumentTyped ==
  ASSUME NEW sz \in Lengths, NEW places \in Seq(Int), Len(places) >= Places(sz)
  PROVE  Argument(sz, places, TRUE) \in Int /\ Argument(sz, places, FALSE) \in Nat
<1>1. CharMod \in Nat \ {0} /\ ShortMod \in Nat \ {0} /\ IntMod \in Nat \ {0} /\ IntMod % 2 = 0
  BY PrintfAssumption
<1>2. Len(places) \in Nat /\ Len(places) >= 1 /\ places[1] \in Int
  <2>1. Len(places) \in Nat /\ Len(places) >= 1
    BY LenProperties DEF Places
  <2>2. 1 \in 1 .. Len(places)
    BY <2>1
  <2> QED BY <2>1, <2>2, ElementOfSeq
<1> DEFINE n == places[1]
           int == Signed(n, IntMod)
<1>3. CASE sz = "hh"
  BY <1>1, <1>2, <1>3, SignedTyped DEF Argument
<1>4. CASE sz = "h"
  BY <1>1, <1>2, <1>4, SignedTyped DEF Argument
<1>5. CASE sz \in {"ll", "j"}
  <2>1. places[2] \in Int
    <3>1. 2 \in 1 .. Len(places)
      BY <1>2, <1>5 DEF Places
    <3> QED BY <3>1, ElementOfSeq
  <2> DEFINE low == n % IntMod
             high == places[2] % IntMod
             top == Signed(places[2], IntMod)
  <2>2. low \in Nat /\ high \in Nat /\ top \in Int
    BY <1>1, <1>2, <2>1, SignedTyped
  <2>3. Argument(sz, places, TRUE) = low + IntMod * top /\ Argument(sz, places, FALSE) = low + IntMod * high
    BY <1>5 DEF Argument
  <2> HIDE DEF low, high, top
  <2> DEFINE signed == IntMod * top
             unsigned == IntMod * high
  <2>4. signed \in Int /\ unsigned \in Nat
    BY <1>1, <2>2, Product
  <2>5. Argument(sz, places, TRUE) = low + signed /\ Argument(sz, places, FALSE) = low + unsigned
    BY <2>3
  <2> HIDE DEF signed, unsigned
  <2>6. low + signed \in Int /\ low + unsigned \in Nat
    BY <2>2, <2>4
  <2> QED BY <2>5, <2>6, Zenon
<1>6. CASE sz = "z"
  <2>1. Argument(sz, places, TRUE) = n % IntMod /\ Argument(sz, places, FALSE) = n % IntMod
    BY <1>6 DEF Argument
  <2> DEFINE m == n % IntMod
  <2>2. m \in Nat
    BY <1>1, <1>2, SignedTyped
  <2>3. Argument(sz, places, TRUE) = m /\ Argument(sz, places, FALSE) = m
    BY <2>1
  <2> HIDE DEF m
  <2>4. m \in Int
    BY <2>2
  <2> QED BY <2>2, <2>3, <2>4, Zenon
<1>7. int \in Int /\ int >= -IntMod
  BY <1>1, <1>2, SignedRange
<1>8. CASE sz = "t"
  <2> DEFINE q == IntMod * IntMod
  <2>1. q \in Nat /\ q >= IntMod
    <3>1. 0 \in Nat /\ 0 < IntMod
      BY <1>1
    <3> QED BY <1>1, <3>1, TwoWords
  <2>2. Argument(sz, places, TRUE) = int /\ Argument(sz, places, FALSE) = IF int >= 0 THEN int ELSE int + q
    BY <1>8 DEF Argument
  <2> DEFINE u == IF int >= 0 THEN int ELSE int + q
  <2>3. Argument(sz, places, TRUE) = int /\ Argument(sz, places, FALSE) = u
    BY <2>2
  <2> HIDE DEF q, int
  <2>4. u \in Nat /\ int \in Int
    BY <1>1, <1>7, <2>1
  <2> HIDE DEF u
  <2> QED BY <2>3, <2>4, Zenon
<1>9. CASE sz \notin {"hh", "h", "ll", "j", "z", "t"}
  <2>1. Argument(sz, places, TRUE) = int /\ Argument(sz, places, FALSE) = n % IntMod
    BY <1>9 DEF Argument
  <2> QED BY <1>1, <1>2, <2>1, SignedTyped
<1> QED BY <1>3, <1>4, <1>5, <1>6, <1>8, <1>9

(* What va_arg reads is the number that the directive means. *)
LEMMA ValueRead ==
  ASSUME NEW d \in Directive, d.conv \in {"d", "x", "u", "o"},
         NEW places \in Seq(Int), Len(places) >= Places(d.len)
  PROVE  ValueOf(d, places) = Argument(d.len, places, d.conv = "d")
<1>1. CharMod \in Nat \ {0} /\ ShortMod \in Nat \ {0} /\ IntMod \in Nat \ {0} /\ IntMod % 2 = 0
  BY PrintfAssumption
<1>2. d.len \in Lengths
  BY DirectiveTyped
<1>3. Len(places) \in Nat /\ Len(places) >= 1 /\ places[1] \in Int
  <2>1. Len(places) \in Nat /\ Len(places) >= 1
    BY LenProperties DEF Places
  <2>2. 1 \in 1 .. Len(places)
    BY <2>1
  <2> QED BY <2>1, <2>2, ElementOfSeq
<1> DEFINE n == places[1]
           bits == Bits(d, places)
           mod == TypeMod(d)
           q == IntMod * IntMod
           number == IF HasSign(d) /\ 2 * bits >= mod THEN bits - mod ELSE bits
<1>4. ValueOf(d, places) = IF d.conv # "d" /\ number < 0 THEN number + q ELSE number
  BY DEF ValueOf
<1>5. ASSUME ~ HasSign(d), bits \in Nat PROVE ValueOf(d, places) = bits
  BY <1>4, <1>5
<1>6. ASSUME HasSign(d), d.conv = "d"
      PROVE ValueOf(d, places) = IF 2 * bits >= mod THEN bits - mod ELSE bits
  BY <1>4, <1>6
<1>7. n % CharMod \in Nat /\ n % ShortMod \in Nat /\ n % IntMod \in Nat
  BY <1>1, <1>3, SignedTyped
<1>8. HasSign(d) <=> (d.len = "t" \/ (d.conv = "d" /\ d.len # "z"))
  BY DEF HasSign
<1> HIDE DEF bits, mod, number
<1>9. CASE d.len = "hh"
  <2>1. bits = n % CharMod /\ mod = CharMod
    BY <1>9 DEF bits, mod, Bits, TypeMod
  <2>2. CASE d.conv = "d"
    BY <1>6, <1>8, <1>9, <2>1, <2>2 DEF Argument, Signed
  <2>3. CASE d.conv # "d"
    BY <1>5, <1>7, <1>8, <1>9, <2>1, <2>3 DEF Argument
  <2> QED BY <2>2, <2>3
<1>10. CASE d.len = "h"
  <2>1. bits = n % ShortMod /\ mod = ShortMod
    BY <1>10 DEF bits, mod, Bits, TypeMod
  <2>2. CASE d.conv = "d"
    BY <1>6, <1>8, <1>10, <2>1, <2>2 DEF Argument, Signed
  <2>3. CASE d.conv # "d"
    BY <1>5, <1>7, <1>8, <1>10, <2>1, <2>3 DEF Argument
  <2> QED BY <2>2, <2>3
<1>11. CASE d.len \in {"ll", "j"}
  <2>1. places[2] \in Int
    <3>1. 2 \in 1 .. Len(places)
      BY <1>3, <1>11 DEF Places
    <3> QED BY <3>1, ElementOfSeq
  <2> DEFINE low == n % IntMod
             high == places[2] % IntMod
  <2>2. low \in Nat /\ low < IntMod /\ high \in Nat
    BY <1>1, <1>3, <2>1
  <2>3. bits = low + IntMod * high /\ mod = q
    BY <1>11 DEF bits, mod, Bits, TypeMod
  <2>4. Argument(d.len, places, TRUE) = low + IntMod * (IF 2 * high >= IntMod THEN high - IntMod ELSE high)
        /\ Argument(d.len, places, FALSE) = low + IntMod * high
    BY <1>11 DEF Argument, Signed
  <2> HIDE DEF low, high
  <2>5. /\ 2 * bits >= mod <=> 2 * high >= IntMod
        /\ low + IntMod * (high - IntMod) = bits - mod
        /\ bits \in Nat
    <3>1. /\ 2 * (low + IntMod * high) >= IntMod * IntMod <=> 2 * high >= IntMod
          /\ low + IntMod * (high - IntMod) = (low + IntMod * high) - IntMod * IntMod
          /\ low + IntMod * high \in Nat
      BY <1>1, <2>2, TwoWords
    <3> QED BY <2>3, <3>1 DEF q
  <2>6. CASE d.conv = "d"
    <3>1. ValueOf(d, places) = IF 2 * bits >= mod THEN bits - mod ELSE bits
      BY <1>6, <1>8, <1>11, <2>6
    <3>2. (d.conv = "d") = TRUE
      BY <2>6
    <3>3. CASE 2 * high >= IntMod
      BY <2>4, <2>5, <3>1, <3>2, <3>3
    <3>4. CASE ~ (2 * high >= IntMod)
      BY <2>3, <2>4, <2>5, <3>1, <3>2, <3>4
    <3> QED BY <3>3, <3>4
  <2>7. CASE d.conv # "d"
    <3>1. (d.conv = "d") = FALSE /\ ValueOf(d, places) = bits
      BY <1>5, <1>8, <1>11, <2>5, <2>7
    <3> QED BY <2>3, <2>4, <3>1
  <2> QED BY <2>6, <2>7
<1>12. CASE d.len \notin {"hh", "h", "ll", "j"}
  <2>1. bits = n % IntMod /\ mod = IntMod
    BY <1>12 DEF bits, mod, Bits, TypeMod
  <2>2. CASE d.len = "z"
    <3>1. Argument(d.len, places, d.conv = "d") = n % IntMod
      BY <2>2 DEF Argument
    <3> QED BY <1>5, <1>7, <1>8, <2>1, <2>2, <3>1
  <2>3. CASE d.len = "t"
    <3>1. number = Signed(n, IntMod)
      BY <1>8, <2>1, <2>3 DEF number, Signed
    <3>2. Argument(d.len, places, d.conv = "d")
            = IF d.conv = "d" \/ Signed(n, IntMod) >= 0 THEN Signed(n, IntMod) ELSE Signed(n, IntMod) + q
      BY <2>3 DEF Argument
    <3>3. Signed(n, IntMod) \in Int
      BY <1>1, <1>3, SignedTyped
    <3> DEFINE v == Signed(n, IntMod)
    <3> HIDE DEF v, q
    <3>4. number = v /\ v \in Int
      BY <3>1, <3>3 DEF v
    <3>5. Argument(d.len, places, d.conv = "d") = IF d.conv = "d" \/ v >= 0 THEN v ELSE v + q
      BY <3>2 DEF v
    <3> QED BY <1>4, <3>4, <3>5
  <2>4. CASE d.len \notin {"z", "t"} /\ d.conv = "d"
    <3>1. Argument(d.len, places, d.conv = "d") = Signed(n, IntMod)
      BY <1>12, <2>4 DEF Argument
    <3> QED BY <1>6, <1>8, <2>1, <2>4, <3>1 DEF Signed
  <2>5. CASE d.len \notin {"z", "t"} /\ d.conv # "d"
    <3>1. Argument(d.len, places, d.conv = "d") = n % IntMod
      BY <1>12, <2>5 DEF Argument
    <3> QED BY <1>5, <1>7, <1>8, <2>1, <2>5, <3>1
  <2> QED BY <2>2, <2>3, <2>4, <2>5
<1> QED BY <1>9, <1>10, <1>11, <1>12

LEMMA StarsTyped ==
  ASSUME NEW d \in Directive
  PROVE  Stars(d) \in 0 .. 2 /\ Takes(d) \in Stars(d) .. Stars(d) + 2 /\ Takes(d) \in 0 .. 4
         /\ (d.conv \in {"d", "x", "u", "o"} => Takes(d) = Stars(d) + Places(d.len))
         /\ (d.conv \in {"c", "s"} => Takes(d) = Stars(d) + 1)
         /\ (d.conv \in {"text", "%"} => Takes(d) = Stars(d))
         /\ (d.conv = "text" => Takes(d) = 0)
         /\ Places(d.len) \in 1 .. 2
<1>1. Stars(d) \in 0 .. 2
  BY DEF Stars
<1>2. Places(d.len) \in 1 .. 2 /\ Places(d.len) = IF d.len \in {"ll", "j"} THEN 2 ELSE 1
  BY DEF Places
<1>3. CASE d.conv \in {"text", "%"}
  <2>1. Takes(d) = Stars(d) + 0
    BY <1>3 DEF Takes
  <2>2. ASSUME d.conv = "text" PROVE Stars(d) = 0
    <3>1. d.width = 0 /\ d.prec = ""
      BY <2>2, DirectiveTyped
    <3>2. d.width # Star /\ d.prec # "*"
      <4>1. 0 # Star
        BY DEF Star
      <4> QED BY <3>1, <4>1, Zenon
    <3> QED BY <3>2 DEF Stars
  <2> QED BY <1>1, <1>2, <1>3, <2>1, <2>2
<1>4. CASE d.conv \in {"c", "s"}
  <2>1. Takes(d) = Stars(d) + 1
    BY <1>4 DEF Takes
  <2> QED BY <1>1, <1>2, <1>4, <2>1
<1>5. CASE d.conv \notin {"text", "%", "c", "s"}
  <2>1. Takes(d) = Stars(d) + Places(d.len)
    BY <1>2, <1>5 DEF Takes
  <2> QED BY <1>1, <1>2, <1>5, <2>1
<1> QED BY <1>3, <1>4, <1>5

Numbers == {"d", "x", "u", "o"}

LEMMA WidthTyped ==
  ASSUME NEW d \in Directive, NEW args \in Seq(Int), Len(args) >= 4
  PROVE  WidthOf(d, args) \in Int /\ args[1] \in Int
<1>1. 1 \in 1 .. Len(args)
  BY LenProperties
<1>2. args[1] \in Int
  BY <1>1, ElementOfSeq
<1> QED BY <1>2, DirectiveTyped DEF WidthOf

LEMMA NumberTyped ==
  ASSUME NEW d \in Directive, d.conv \in Numbers, NEW args \in Seq(Int), Len(args) >= 4,
         NEW flags, "0" \in flags <=> "0" \in ToSet(d.flags), "+" \in flags <=> "+" \in ToSet(d.flags)
  PROVE  /\ Means(d, args) \in Seq(Shown)
         /\ Converted(d.conv, d.len, Left(args, Stars(d)), flags, WidthOf(d, args)) = Means(d, args)
<1> DEFINE rest == Left(args, Stars(d))
           w == WidthOf(d, args)
           n == Argument(d.len, rest, d.conv = "d")
           m == IF n < 0 THEN -n ELSE n
           b == Base(d.conv)
           z == IF "0" \in flags THEN "0" ELSE " "
           digits == Sign(n < 0, flags) \o Numeral(m, b)
<1>1. rest \in Seq(Int) /\ Len(rest) >= Places(d.len)
  <2>1. Stars(d) \in 0 .. Len(args) /\ Len(args) \in Nat /\ Stars(d) \in 0 .. 2 /\ Places(d.len) \in 1 .. 2
    <3>1. Stars(d) \in 0 .. 2 /\ Places(d.len) \in 1 .. 2
      BY StarsTyped
    <3>2. Len(args) \in Nat
      BY LenProperties
    <3> QED BY <3>1, <3>2
  <2>2. rest \in Seq(Int) /\ Len(rest) = Len(args) - Stars(d)
    BY <2>1, LeftProps
  <2> HIDE DEF rest
  <2> QED BY <2>1, <2>2
<1>2. d.len \in Lengths
  BY DirectiveTyped
<1>3. n \in Int /\ (d.conv # "d" => n \in Nat)
  <2>1. Argument(d.len, rest, TRUE) \in Int /\ Argument(d.len, rest, FALSE) \in Nat
    <3> HIDE DEF rest
    <3> QED BY <1>1, <1>2, ArgumentTyped
  <2>2. n = IF d.conv = "d" THEN Argument(d.len, rest, TRUE) ELSE Argument(d.len, rest, FALSE)
    <3>1. CASE d.conv = "d"
      <4>1. (d.conv = "d") = TRUE
        BY <3>1
      <4> QED BY <3>1, <4>1
    <3>2. CASE d.conv # "d"
      <4>1. (d.conv = "d") = FALSE
        BY <3>2
      <4> QED BY <3>2, <4>1
    <3> QED BY <3>1, <3>2
  <2> HIDE DEF n, rest
  <2>3. CASE d.conv = "d"
    <3>1. n = Argument(d.len, rest, TRUE)
      BY <2>2, <2>3
    <3> QED BY <2>1, <2>3, <3>1, Zenon
  <2>4. CASE d.conv # "d"
    <3>1. n = Argument(d.len, rest, FALSE)
      BY <2>2, <2>4
    <3>2. \A k \in Nat : k \in Int
      OBVIOUS
    <3> QED BY <2>1, <3>1, <3>2, Zenon
  <2> QED BY <2>3, <2>4
<1> HIDE DEF n, rest
<1>4. m \in Nat /\ b \in Bases /\ z \in Shown /\ w \in Int
  <2>1. m \in Nat
    BY <1>3
  <2>2. b \in Bases
    BY DEF Base, Bases
  <2>3. z \in Shown
    BY DEF Shown, Chars
  <2>4. w \in Int
    BY WidthTyped
  <2> QED BY <2>1, <2>2, <2>3, <2>4
<1> HIDE DEF m, b
<1>5. Numeral(m, b) \in Seq(Shown)
  <2>1. Numeral(m, b) \in Seq(Digits(b)) /\ Digits(b) \subseteq Shown
    BY <1>4, NumeralTyped, DecimalDigits DEF Shown
  <2> QED BY <2>1, SeqMonotonic
<1>6. Sign(n < 0, flags) \in Seq(Shown) /\ Sign(n < 0, flags) = Sign(n < 0, ToSet(d.flags))
  <2>1. "-" \in Shown /\ "+" \in Shown
    BY DEF Shown, Chars
  <2>2. <<"-">> \in Seq(Shown) /\ <<"+">> \in Seq(Shown) /\ << >> \in Seq(Shown)
    BY <2>1
  <2> QED BY <2>2 DEF Sign
<1>7. digits \in Seq(Shown)
  BY <1>5, <1>6, ConcatProperties
<1>8. Means(d, args) = Placed(digits, z, Min({Max({Len(digits), w}), NfBuf - 2}))
  <2>1. z = IF "0" \in ToSet(d.flags) THEN "0" ELSE " "
    OBVIOUS
  <2>2. digits = Sign(n < 0, ToSet(d.flags)) \o Numeral(IF n < 0 THEN -n ELSE n, Base(d.conv))
    BY <1>6 DEF m, b
  <2>3. d.conv \notin {"text", "%", "c", "s"}
    BY DEF Numbers
  <2> DEFINE D == Sign(n < 0, ToSet(d.flags)) \o Numeral(IF n < 0 THEN -n ELSE n, Base(d.conv))
             L == Min({Max({Len(D), w}), NfBuf - 2})
  <2>4. Means(d, args) = [i \in 1 .. L |-> IF i > L - Len(D) THEN D[i - (L - Len(D))]
                                          ELSE IF "0" \in ToSet(d.flags) THEN "0" ELSE " "]
    <3>1. ValueOf(d, rest) = n
      BY <1>1, ValueRead DEF n, Numbers
    <3> QED BY <2>3, <3>1 DEF Means, rest, Left
  <2>5. digits = D
    BY <2>2
  <2> HIDE DEF D, z, digits, w
  <2>6. Means(d, args) = [i \in 1 .. L |-> IF i > L - Len(D) THEN D[i - (L - Len(D))] ELSE z]
    BY <2>1, <2>4
  <2> QED BY <2>5, <2>6 DEF Placed
<1>9. Converted(d.conv, d.len, rest, flags, w) = Fitted(Padded(digits, z, w))
  <2>1. NumText(m, Sign(n < 0, flags), flags, w, b) = Padded(digits, z, w)
    BY DEF NumText, Padded
  <2>2. CASE d.conv = "d"
    <3>1. b = 10
      BY <2>2 DEF b, Base
    <3> QED BY <2>1, <2>2, <3>1 DEF Converted, n, m
  <2>3. CASE d.conv # "d"
    <3>1. n \in Nat /\ (n < 0) = FALSE /\ m = n
      BY <1>3, <2>3 DEF m
    <3>2. Converted(d.conv, d.len, rest, flags, w) = Fitted(NumText(n, Sign(FALSE, flags), flags, w, b))
      BY <2>3 DEF Converted, n, b
    <3> QED BY <2>1, <3>1, <3>2
  <2> QED BY <2>2, <2>3
<1>10. Fitted(Padded(digits, z, w)) = Placed(digits, z, Min({Max({Len(digits), w}), NfBuf - 2}))
  <2> HIDE DEF digits, z, w
  <2> QED BY <1>4, <1>7, FittedPlaced
<1>11. Min({Max({Len(digits), w}), NfBuf - 2}) \in Int
  <2> HIDE DEF digits, w
  <2>1. Len(digits) \in Int /\ NfBuf - 2 \in Int /\ w \in Int
    <3>1. Len(digits) \in Int
      BY <1>7, LenProperties
    <3>2. NfBuf \in Nat \ {0}
      BY PrintfAssumption
    <3>3. w \in Int
      BY WidthTyped DEF w
    <3> QED BY <3>1, <3>2, <3>3
  <2>2. Max({Len(digits), w}) \in Int
    BY <2>1, MaxTwo
  <2>3. \A a, c \in Int : Min({a, c}) \in Int
    BY MinTwo
  <2> QED BY <2>1, <2>2, <2>3
<1>12. Placed(digits, z, Min({Max({Len(digits), w}), NfBuf - 2})) \in Seq(Shown)
  <2> DEFINE k == Min({Max({Len(digits), w}), NfBuf - 2})
  <2> HIDE DEF digits, z, w, k
  <2>1. k \in Int
    BY <1>11 DEF k
  <2>2. Placed(digits, z, k) \in Seq(Shown)
    BY <1>4, <1>7, <2>1, PlacedTyped
  <2> QED BY <2>2 DEF k
<1>13. Converted(d.conv, d.len, rest, flags, w) = Means(d, args)
  <2> HIDE DEF digits, z, w
  <2> QED BY <1>8, <1>9, <1>10
<1>14. Means(d, args) \in Seq(Shown)
  BY <1>8, <1>12
<1> QED BY <1>13, <1>14 DEF rest

LEMMA MeansTyped ==
  ASSUME NEW d \in Directive, NEW args \in Seq(Int), Len(args) >= 4, ~ Refused(d, args)
  PROVE  Means(d, args) \in Seq(Shown)
<1>1. CASE d.conv \in Numbers
  <2>1. "0" \in ToSet(d.flags) <=> "0" \in ToSet(d.flags)
    OBVIOUS
  <2> QED BY <1>1, NumberTyped
<1>2. CASE d.conv = "text"
  <2>1. d.text \in Shown
    BY <1>2, DirectiveTyped DEF Shown
  <2>2. Means(d, args) = <<d.text>>
    BY <1>2 DEF Means
  <2>3. <<d.text>> \in Seq(Shown)
    BY <2>1
  <2> QED BY <2>2, <2>3
<1>3. CASE d.conv \in {"%", "c"}
  <2>1. d.conv \in Shown
    BY <1>3 DEF Shown, Chars
  <2>2. Means(d, args) = <<d.conv>>
    BY <1>3 DEF Means
  <2>3. <<d.conv>> \in Seq(Shown)
    BY <2>1
  <2> QED BY <2>2, <2>3
<1>4. CASE d.conv = "s"
  <2>1. Means(d, args) = StringOf(Left(args, Stars(d))[1])
    BY <1>4 DEF Means, Left
  <2>2. Left(args, Stars(d))[1] \in Int
    <3>1. Stars(d) \in 0 .. 2 /\ Len(args) \in Nat
      BY StarsTyped, LenProperties
    <3>2. Stars(d) \in 0 .. Len(args) /\ 1 \in 1 .. Len(args) - Stars(d) /\ Stars(d) + 1 \in 1 .. Len(args)
      BY <3>1
    <3>3. Left(args, Stars(d))[1] = args[Stars(d) + 1]
      BY <3>2, LeftProps
    <3> QED BY <3>2, <3>3, ElementOfSeq
  <2>3. \A n \in Int : StringOf(n) \in Seq(Shown)
    <3> TAKE n \in Int
    <3> DEFINE k == IF n < 0 THEN 0 ELSE n
    <3>1. k \in Nat /\ "s" \in Shown
      BY DEF Shown, Chars
    <3> HIDE DEF k
    <3>2. [i \in 1 .. k |-> "s"] \in Seq(Shown)
      BY <3>1
    <3> QED BY <3>2 DEF StringOf, k
  <2> QED BY <2>1, <2>2, <2>3
<1>5. d.conv \in Numbers \cup {"text", "%", "c", "s"}
  BY DEF Refused, Numbers
<1> QED BY <1>1, <1>2, <1>3, <1>4, <1>5

-----------------------------------------------------------------------------
(* What the directives mean, one after the other. *)

Stops(d, args) == Refused(d, args) \/ Lost(d, args)
Start == [text |-> << >>, args |-> Args, ok |-> TRUE]
Past(before, d) ==
  IF ~ before.ok \/ Stops(d, before.args)
    THEN [before EXCEPT !.ok = FALSE]
    ELSE [text |-> before.text \o Means(d, before.args),
          args |-> Left(before.args, Takes(d)), ok |-> TRUE]

AfterTo(m, n, f) == f = [i \in 0 .. n |-> IF i = 0 THEN Start ELSE Past(f[i - 1], m[i])]

LEMMA AfterExists ==
  ASSUME NEW m, NEW n \in Nat
  PROVE  \E f : AfterTo(m, n, f)
<1> DEFINE Stuck == {k \in Nat : ~ \E f : AfterTo(m, k, f)}
<1>1. SUFFICES ASSUME Stuck # {} PROVE FALSE
  OBVIOUS
<1>2. PICK j \in Stuck : \A k \in Stuck : j <= k
  <2> HIDE DEF Stuck
  <2> QED BY <1>1, Least, Stuck \in SUBSET Nat DEF Stuck
<1>3. CASE j = 0
  <2> DEFINE f == [i \in 0 .. 0 |-> Start]
  <2>1. AfterTo(m, 0, f)
    <3>1. \A i \in 0 .. 0 : i = 0
      OBVIOUS
    <3> QED BY <3>1 DEF AfterTo
  <2> QED BY <1>2, <1>3, <2>1
<1>4. CASE j # 0
  <2>1. j - 1 \in Nat /\ j - 1 \notin Stuck /\ j \in Nat
    BY <1>2, <1>4
  <2>2. PICK f : AfterTo(m, j - 1, f)
    BY <2>1
  <2> DEFINE g == [i \in 0 .. j |-> IF i = j THEN Past(f[j - 1], m[j]) ELSE f[i]]
  <2>3. \A i \in 0 .. j - 1 : g[i] = f[i]
    BY <2>1
  <2>4. \A i \in 0 .. j - 1 : f[i] = IF i = 0 THEN Start ELSE Past(f[i - 1], m[i])
    BY <2>2 DEF AfterTo
  <2>5. \A i \in 0 .. j : g[i] = IF i = 0 THEN Start ELSE Past(g[i - 1], m[i])
    <3> TAKE i \in 0 .. j
    <3>1. CASE i = j
      <4>1. g[i] = Past(f[j - 1], m[j]) /\ g[j - 1] = f[j - 1]
        BY <2>1, <2>3, <3>1
      <4> HIDE DEF g
      <4> QED BY <1>4, <3>1, <4>1
    <3>2. CASE i # j
      <4>1. i \in 0 .. j - 1 /\ (i # 0 => i - 1 \in 0 .. j - 1)
        BY <2>1, <3>2
      <4>2. g[i] = f[i] /\ (i # 0 => g[i - 1] = f[i - 1])
        BY <2>3, <4>1
      <4> HIDE DEF g
      <4> QED BY <2>4, <4>1, <4>2
    <3> QED BY <3>1, <3>2
  <2>6. AfterTo(m, j, g)
    <3>1. g = [i \in 0 .. j |-> g[i]]
      OBVIOUS
    <3> HIDE DEF g
    <3> QED BY <2>5, <3>1 DEF AfterTo
  <2> QED BY <1>2, <2>6
<1> QED BY <1>3, <1>4

LEMMA AfterSteps ==
  ASSUME NEW m, Len(m) \in Nat
  PROVE  /\ After(m)[0] = Start
         /\ \A i \in 1 .. Len(m) : After(m)[i] = Past(After(m)[i - 1], m[i])
<1>1. AfterTo(m, Len(m), CHOOSE f : AfterTo(m, Len(m), f))
  BY AfterExists
<1>2. After(m) = CHOOSE f : AfterTo(m, Len(m), f)
  BY DEF After, AfterTo, Start, Past, Stops, Left
<1>3. AfterTo(m, Len(m), After(m))
  BY <1>1, <1>2
<1> HIDE DEF After
<1>4. \A i \in 0 .. Len(m) : After(m)[i] = IF i = 0 THEN Start ELSE Past(After(m)[i - 1], m[i])
  BY <1>3 DEF AfterTo
<1> QED BY <1>4

Reading == [text : Seq(Shown), args : Seq(Int), ok : BOOLEAN]

LEMMA PastTyped ==
  ASSUME NEW d \in Directive, NEW before \in Reading, Len(before.args) >= 4
  PROVE  /\ Past(before, d) \in Reading /\ Len(Past(before, d).args) >= Len(before.args) - 4
         /\ ~ before.ok => ~ Past(before, d).ok
<1> DEFINE args == before.args
<1>1. args \in Seq(Int) /\ Len(args) \in Nat /\ Len(args) >= 4 /\ before.text \in Seq(Shown)
  BY LenProperties DEF Reading
<1> HIDE DEF args
<1>2. Takes(d) \in 0 .. 4 /\ Takes(d) \in 0 .. Len(args)
  <2>1. Takes(d) \in 0 .. 4
    BY StarsTyped
  <2> QED BY <1>1, <2>1
<1>3. Left(args, Takes(d)) \in Seq(Int) /\ Len(Left(args, Takes(d))) = Len(args) - Takes(d)
  BY <1>1, <1>2, LeftProps
<1>4. CASE ~ before.ok \/ Stops(d, args)
  <2>1. Past(before, d) = [before EXCEPT !.ok = FALSE]
    BY <1>4 DEF Past, args
  <2>2. [before EXCEPT !.ok = FALSE] \in Reading /\ [before EXCEPT !.ok = FALSE].args = args
        /\ [before EXCEPT !.ok = FALSE].ok = FALSE
    BY DEF Reading, args
  <2> QED BY <1>1, <2>1, <2>2 DEF args
<1>5. CASE before.ok /\ ~ Stops(d, args)
  <2> DEFINE t == before.text \o Means(d, args)
             l == Left(args, Takes(d))
  <2>1. Past(before, d) = [text |-> t, args |-> l, ok |-> TRUE]
    BY <1>5 DEF Past, args
  <2>2. Means(d, args) \in Seq(Shown)
    BY <1>1, <1>5, MeansTyped DEF Stops
  <2>3. t \in Seq(Shown)
    BY <1>1, <2>2, ConcatProperties
  <2> HIDE DEF t, l
  <2>4. l \in Seq(Int) /\ Len(l) >= Len(args) - 4
    BY <1>1, <1>2, <1>3 DEF l
  <2>5. [text |-> t, args |-> l, ok |-> TRUE] \in Reading /\ [text |-> t, args |-> l, ok |-> TRUE].args = l
    BY <2>3, <2>4 DEF Reading
  <2> QED BY <1>5, <2>1, <2>4, <2>5 DEF args
<1> QED BY <1>4, <1>5 DEF args

LEMMA FormatTyped ==
  ASSUME NEW m \in Formats
  PROVE  /\ Len(m) \in Nat /\ m \in Seq(Directive) /\ DOMAIN m = 1 .. Len(m)
         /\ \A i \in 1 .. Len(m) : m[i] \in Directive
         /\ Args \in Seq(Int) /\ Len(Args) \in Nat /\ Len(Args) >= 4 * Len(m)
<1>1. m \in Seq(Directive) /\ Args \in Seq(Int) /\ 4 * Len(m) <= Len(Args)
  BY PrintfAssumption
<1> HIDE DEF Directive
<1>2. Len(m) \in Nat /\ DOMAIN m = 1 .. Len(m) /\ \A i \in 1 .. Len(m) : m[i] \in Directive
  BY <1>1, LenProperties, ElementOfSeq
<1>3. Len(Args) \in Nat
  BY <1>1, LenProperties
<1> QED BY <1>1, <1>2, <1>3

LEMMA AfterTyped ==
  ASSUME NEW m \in Formats, NEW i \in 0 .. Len(m)
  PROVE  After(m)[i] \in Reading /\ Len(After(m)[i].args) >= 4 * (Len(m) - i)
<1> DEFINE A == After(m)
           Good(k) == A[k] \in Reading /\ Len(A[k].args) >= 4 * (Len(m) - k)
           Odd == {k \in 0 .. Len(m) : ~ Good(k)}
<1>1. SUFFICES ASSUME Odd # {} PROVE FALSE
  OBVIOUS
<1>2. PICK j \in Odd : \A k \in Odd : j <= k
  <2>1. Odd \in SUBSET Nat
    BY FormatTyped
  <2> HIDE DEF Odd
  <2> QED BY <1>1, <2>1, Least
<1>3. j \in 0 .. Len(m) /\ ~ Good(j) /\ Len(m) \in Nat
  BY <1>2, FormatTyped
<1>4. A[0] = Start /\ \A k \in 1 .. Len(m) : A[k] = Past(A[k - 1], m[k])
  <2> HIDE DEF A
  <2>1. After(m)[0] = Start /\ \A k \in 1 .. Len(m) : After(m)[k] = Past(After(m)[k - 1], m[k])
    BY <1>3, AfterSteps
  <2> QED BY <2>1 DEF A
<1> HIDE DEF A, Directive
<1>5. CASE j = 0
  <2>1. << >> \in Seq(Shown)
    OBVIOUS
  <2>2. Start \in Reading /\ Start.args = Args
    BY <2>1, FormatTyped DEF Start, Reading
  <2> QED BY <1>3, <1>4, <1>5, <2>2, FormatTyped
<1>6. CASE j # 0
  <2>1. j - 1 \in 0 .. Len(m) /\ j \in 1 .. Len(m) /\ ~ (j <= j - 1)
    BY <1>3, <1>6
  <2>2. Good(j - 1)
    BY <1>2, <2>1
  <2> DEFINE b == A[j - 1]
  <2>3. b \in Reading /\ Len(b.args) >= 4 * (Len(m) - (j - 1)) /\ m[j] \in Directive
    BY <2>1, <2>2, FormatTyped
  <2>4. Len(b.args) \in Nat
    BY <2>3, LenProperties DEF Reading
  <2>5. Len(b.args) >= 4
    BY <1>3, <2>1, <2>3, <2>4
  <2>6. A[j] = Past(b, m[j])
    BY <1>4, <2>1
  <2> HIDE DEF b
  <2>7. Past(b, m[j]) \in Reading /\ Len(Past(b, m[j]).args) >= Len(b.args) - 4
    BY <2>3, <2>5, PastTyped
  <2>8. Len(Past(b, m[j]).args) \in Nat
    BY <2>7, LenProperties DEF Reading
  <2>9. Len(Past(b, m[j]).args) >= 4 * (Len(m) - j)
    BY <1>3, <2>3, <2>4, <2>7, <2>8
  <2> QED BY <1>3, <2>6, <2>7, <2>9
<1> QED BY <1>5, <1>6

-----------------------------------------------------------------------------
(* What is left of a format. *)

Rest(m, i) == FlattenSeq([k \in 1 .. Len(m) - i |-> Spell(m[i + k])])

AtConv(d, r) == <<d.conv>> \o r
AtLen(d, r) == LenPart(d) \o AtConv(d, r)
AtPrec(d, r) == PrecPart(d) \o AtLen(d, r)
AtWidth(d, r) == WidthPart(d) \o AtPrec(d, r)

LEMMA PartsTyped ==
  ASSUME NEW d \in Directive
  PROVE  /\ d.flags \in Seq(Chars) /\ WidthPart(d) \in Seq(Chars) /\ PrecPart(d) \in Seq(Chars)
         /\ LenPart(d) \in Seq(Chars)
         /\ <<"%">> \in Seq(Chars)
         /\ d.conv # "text" => d.conv \in Chars /\ <<d.conv>> \in Seq(Chars)
         /\ d.conv = "text" => d.text \in Chars /\ <<d.text>> \in Seq(Chars)
<1>1. d.flags \in Seq(Chars)
  <2>1. d.flags \in Seq(FlagChars) /\ FlagChars \subseteq Chars
    BY DirectiveTyped DEF FlagChars, Chars
  <2> QED BY <2>1, SeqMonotonic
<1>2. WidthPart(d) \in Seq(Chars)
  <2>1. CASE d.width = Star
    <3>1. "*" \in Chars
      BY DEF Chars
    <3>2. <<"*">> \in Seq(Chars)
      BY <3>1
    <3> QED BY <2>1, <3>2 DEF WidthPart
  <2>2. CASE d.width # Star
    <3>1. d.width \in Nat
      BY <2>2, DirectiveTyped
    <3>2. Numeral(d.width, 10) \in Seq(Digits(10)) /\ Digits(10) \subseteq Chars
      BY <3>1, NumeralTyped, DecimalDigits DEF Bases
    <3>3. Numeral(d.width, 10) \in Seq(Chars)
      BY <3>2, SeqMonotonic
    <3>4. << >> \in Seq(Chars)
      OBVIOUS
    <3> QED BY <2>2, <3>3, <3>4 DEF WidthPart
  <2> QED BY <2>1, <2>2
<1>3. PrecPart(d) \in Seq(Chars)
  <2>1. d.prec \in Precisions
    BY DirectiveTyped
  <2>2. d.prec # "" => d.prec \in Chars
    BY <2>1 DEF Precisions, Chars
  <2>3. "." \in Chars
    BY DEF Chars
  <2> DEFINE c == d.prec
  <2> HIDE DEF c
  <2>4. c \in Chars => <<".", c>> \in Seq(Chars)
    BY <2>3
  <2>5. << >> \in Seq(Chars)
    OBVIOUS
  <2> QED BY <2>2, <2>4, <2>5 DEF PrecPart, c
<1>4. LenPart(d) \in Seq(Chars)
  <2>1. d.len \in Lengths
    BY DirectiveTyped
  <2>2. "h" \in Chars /\ "l" \in Chars
    BY DEF Chars
  <2>3. d.len \notin {"", "hh", "ll"} => d.len \in Chars
    BY <2>1 DEF Lengths, Chars
  <2> DEFINE c == d.len
  <2> HIDE DEF c
  <2>4. c \in Chars => <<c>> \in Seq(Chars)
    OBVIOUS
  <2>5. << >> \in Seq(Chars) /\ <<"h", "h">> \in Seq(Chars) /\ <<"l", "l">> \in Seq(Chars)
    BY <2>2
  <2> QED BY <2>3, <2>4, <2>5 DEF LenPart, c
<1>5. <<"%">> \in Seq(Chars)
  <2>1. "%" \in Chars
    BY DEF Chars
  <2> QED BY <2>1
<1>6. \A c \in Chars : <<c>> \in Seq(Chars)
  OBVIOUS
<1>7. d.conv # "text" => d.conv \in Chars
  <2>1. d.conv \in Conversions \cup {"text"}
    BY DirectiveTyped
  <2> QED BY <2>1 DEF Conversions, Chars
<1>8. d.conv = "text" => d.text \in Chars
  BY DirectiveTyped
<1> QED BY <1>1, <1>2, <1>3, <1>4, <1>5, <1>6, <1>7, <1>8

LEMMA AtTyped ==
  ASSUME NEW d \in Directive, d.conv # "text", NEW r \in Seq(Chars)
  PROVE  /\ AtConv(d, r) \in Seq(Chars) /\ AtLen(d, r) \in Seq(Chars)
         /\ AtPrec(d, r) \in Seq(Chars) /\ AtWidth(d, r) \in Seq(Chars)
<1> HIDE DEF Directive
<1>1. AtConv(d, r) \in Seq(Chars)
  BY PartsTyped, ConcatProperties DEF AtConv
<1>2. AtLen(d, r) \in Seq(Chars)
  BY <1>1, PartsTyped, ConcatProperties DEF AtLen
<1>3. AtPrec(d, r) \in Seq(Chars)
  BY <1>2, PartsTyped, ConcatProperties DEF AtPrec
<1> QED BY <1>1, <1>2, <1>3, PartsTyped, ConcatProperties DEF AtWidth

LEMMA SpellUnfolds ==
  ASSUME NEW d \in Directive, NEW r \in Seq(Chars)
  PROVE  /\ Spell(d) \in Seq(Chars)
         /\ d.conv # "text" => Spell(d) \o r = <<"%">> \o (d.flags \o AtWidth(d, r))
<1> HIDE DEF Directive
<1>1. CASE d.conv = "text"
  BY <1>1, PartsTyped DEF Spell
<1>2. CASE d.conv # "text"
  <2> DEFINE o == <<"%">>
             p == <<d.conv>>
  <2>1. Spell(d) = Cat(Cat(Cat(Cat(Cat(o, d.flags), WidthPart(d)), PrecPart(d)), LenPart(d)), p)
    BY <1>2 DEF Spell, Cat
  <2>2. /\ o \in Seq(Chars) /\ d.flags \in Seq(Chars) /\ WidthPart(d) \in Seq(Chars) /\ PrecPart(d) \in Seq(Chars)
        /\ LenPart(d) \in Seq(Chars) /\ p \in Seq(Chars)
    BY <1>2, PartsTyped
  <2>3. <<"%">> \o (d.flags \o AtWidth(d, r)) =
          Cat(o, Cat(d.flags, Cat(WidthPart(d), Cat(PrecPart(d), Cat(LenPart(d), Cat(p, r))))))
    BY DEF AtWidth, AtPrec, AtLen, AtConv, Cat
  <2>4. Spell(d) \o r = Cat(Spell(d), r)
    BY DEF Cat
  <2> HIDE DEF o, p
  <2>5. Cat(Spell(d), r) = Cat(o, Cat(d.flags, Cat(WidthPart(d), Cat(PrecPart(d), Cat(LenPart(d), Cat(p, r))))))
    <3> DEFINE fl == d.flags
               wd == WidthPart(d)
               pr == PrecPart(d)
               ln == LenPart(d)
    <3>1. Spell(d) = Cat(Cat(Cat(Cat(Cat(o, fl), wd), pr), ln), p)
      BY <2>1
    <3>2. o \in Seq(Chars) /\ fl \in Seq(Chars) /\ wd \in Seq(Chars) /\ pr \in Seq(Chars)
          /\ ln \in Seq(Chars) /\ p \in Seq(Chars) /\ r \in Seq(Chars)
      BY <2>2
    <3> HIDE DEF fl, wd, pr, ln
    <3>3. Cat(Cat(Cat(Cat(Cat(Cat(o, fl), wd), pr), ln), p), r)
            = Cat(o, Cat(fl, Cat(wd, Cat(pr, Cat(ln, Cat(p, r))))))
      <4> DEFINE a2 == Cat(o, fl)
                 a3 == Cat(a2, wd)
                 a4 == Cat(a3, pr)
                 a5 == Cat(a4, ln)
                 z2 == Cat(p, r)
                 z3 == Cat(ln, z2)
                 z4 == Cat(pr, z3)
                 z5 == Cat(wd, z4)
      <4>1. a2 \in Seq(Chars) /\ z2 \in Seq(Chars)
        BY <3>2, CatTyped
      <4>2. a3 \in Seq(Chars) /\ z3 \in Seq(Chars)
        BY <3>2, <4>1, CatTyped
      <4>3. a4 \in Seq(Chars) /\ z4 \in Seq(Chars)
        BY <3>2, <4>2, CatTyped
      <4>4. a5 \in Seq(Chars) /\ z5 \in Seq(Chars)
        BY <3>2, <4>3, CatTyped
      <4>5. Cat(Cat(a5, p), r) = Cat(a5, z2)
        BY <3>2, <4>4, CatAssoc
      <4>6. Cat(Cat(a4, ln), z2) = Cat(a4, z3)
        BY <3>2, <4>1, <4>3, CatAssoc
      <4>7. Cat(Cat(a3, pr), z3) = Cat(a3, z4)
        BY <3>2, <4>2, CatAssoc
      <4>8. Cat(Cat(a2, wd), z4) = Cat(a2, z5)
        BY <3>2, <4>1, <4>3, CatAssoc
      <4>9. Cat(Cat(o, fl), z5) = Cat(o, Cat(fl, z5))
        BY <3>2, <4>4, CatAssoc
      <4> QED BY <4>5, <4>6, <4>7, <4>8, <4>9
    <3> QED BY <3>1, <3>3 DEF fl, wd, pr, ln
  <2>6. Spell(d) \in Seq(Chars)
    <3>1. Cat(o, d.flags) \in Seq(Chars)
      BY <2>2, CatTyped
    <3>2. Cat(Cat(o, d.flags), WidthPart(d)) \in Seq(Chars)
      BY <2>2, <3>1, CatTyped
    <3>3. Cat(Cat(Cat(o, d.flags), WidthPart(d)), PrecPart(d)) \in Seq(Chars)
      BY <2>2, <3>2, CatTyped
    <3>4. Cat(Cat(Cat(Cat(o, d.flags), WidthPart(d)), PrecPart(d)), LenPart(d)) \in Seq(Chars)
      BY <2>2, <3>3, CatTyped
    <3> QED BY <2>1, <2>2, <3>4, CatTyped
  <2> QED BY <2>3, <2>4, <2>5, <2>6
<1> QED BY <1>1, <1>2

LEMMA RestUnfolds ==
  ASSUME NEW m \in Formats
  PROVE  /\ Rest(m, 0) = FlattenSeq([i \in DOMAIN m |-> Spell(m[i])])
         /\ Rest(m, Len(m)) = << >>
         /\ \A i \in 0 .. Len(m) : Rest(m, i) \in Seq(Chars)
         /\ \A i \in 0 .. Len(m) - 1 : Rest(m, i) = Spell(m[i + 1]) \o Rest(m, i + 1)
<1> HIDE DEF Directive
<1>1. Len(m) \in Nat /\ DOMAIN m = 1 .. Len(m) /\ \A i \in 1 .. Len(m) : m[i] \in Directive
  BY FormatTyped
<1>2. \A i \in 1 .. Len(m) : Spell(m[i]) \in Seq(Chars)
  <2>1. << >> \in Seq(Chars)
    OBVIOUS
  <2> QED BY <1>1, <2>1, SpellUnfolds
<1> DEFINE part(i) == [k \in 1 .. Len(m) - i |-> Spell(m[i + k])]
<1>3. ASSUME NEW i \in 0 .. Len(m)
      PROVE  part(i) \in Seq(Seq(Chars)) /\ Len(part(i)) = Len(m) - i
             /\ \A k \in 1 .. Len(m) - i : part(i)[k] = Spell(m[i + k])
  <2> DEFINE n == Len(m) - i
             e(k) == Spell(m[i + k])
  <2>1. n \in Nat /\ \A k \in 1 .. n : i + k \in 1 .. Len(m)
    BY <1>1
  <2>2. \A k \in 1 .. n : e(k) \in Seq(Chars)
    BY <1>2, <2>1
  <2> DEFINE S == Seq(Chars)
  <2> HIDE DEF n, e, S
  <2>3. [k \in 1 .. n |-> e(k)] \in Seq(S) /\ Len([k \in 1 .. n |-> e(k)]) = n
    BY <2>1, <2>2 DEF S
  <2> QED BY <2>3 DEF n, e, S
<1>4. \A i \in 0 .. Len(m) : Rest(m, i) \in Seq(Chars)
  <2> TAKE i \in 0 .. Len(m)
  <2>1. part(i) \in Seq(Seq(Chars))
    BY <1>3
  <2>2. Rest(m, i) = FlattenSeq(part(i))
    BY DEF Rest
  <2> HIDE DEF part
  <2> QED BY <2>1, <2>2, FlatTyped
<1>5. Rest(m, 0) = FlattenSeq([i \in DOMAIN m |-> Spell(m[i])])
  <2>1. Len(m) - 0 = Len(m) /\ \A k \in 1 .. Len(m) : 0 + k = k
    BY <1>1
  <2>2. [k \in 1 .. Len(m) - 0 |-> Spell(m[0 + k])] = [i \in DOMAIN m |-> Spell(m[i])]
    BY <1>1, <2>1
  <2> QED BY <2>2 DEF Rest
<1>6. Rest(m, Len(m)) = << >>
  <2>1. Len(m) \in 0 .. Len(m) /\ Len(m) - Len(m) = 0
    BY <1>1
  <2>2. part(Len(m)) \in Seq(Seq(Chars)) /\ Len(part(Len(m))) = 0
    BY <1>3, <2>1
  <2>3. part(Len(m)) = << >>
    <3> DEFINE p == part(Len(m))
    <3>1. p \in Seq(Seq(Chars)) /\ Len(p) = 0
      BY <2>2
    <3> HIDE DEF p
    <3>2. p = << >>
      BY <3>1, EmptySeq
    <3> QED BY <3>2 DEF p
  <2>4. Rest(m, Len(m)) = FlattenSeq(part(Len(m)))
    BY DEF Rest
  <2>5. FlattenSeq(<< >>) = << >>
    BY DEF FlattenSeq
  <2> HIDE DEF part
  <2> QED BY <2>3, <2>4, <2>5
<1>7. ASSUME NEW i \in 0 .. Len(m) - 1 PROVE Rest(m, i) = Spell(m[i + 1]) \o Rest(m, i + 1)
  <2>1. i \in 0 .. Len(m) /\ i + 1 \in 0 .. Len(m) /\ i + 1 \in 1 .. Len(m)
    BY <1>1
  <2> DEFINE a == part(i)
             b == part(i + 1)
             x == Spell(m[i + 1])
             o == <<x>>
  <2>2. a \in Seq(Seq(Chars)) /\ Len(a) = Len(m) - i /\ \A k \in 1 .. Len(m) - i : a[k] = Spell(m[i + k])
    BY <1>3, <2>1
  <2>3. b \in Seq(Seq(Chars)) /\ Len(b) = Len(m) - (i + 1)
        /\ \A k \in 1 .. Len(m) - (i + 1) : b[k] = Spell(m[(i + 1) + k])
    BY <1>3, <2>1
  <2>4. x \in Seq(Chars)
    BY <1>2, <2>1
  <2>5. Rest(m, i) = FlattenSeq(a) /\ Rest(m, i + 1) = FlattenSeq(b)
    BY DEF Rest
  <2> HIDE DEF a, b, part
  <2>6. o \in Seq(Seq(Chars)) /\ Len(o) = 1 /\ o[1] = x
    <3> HIDE DEF x
    <3> QED BY <2>4
  <2> HIDE DEF o
  <2>7. /\ o \o b \in Seq(Seq(Chars)) /\ Len(o \o b) = 1 + Len(b)
        /\ \A k \in 1 .. 1 + Len(b) : (o \o b)[k] = IF k <= 1 THEN o[k] ELSE b[k - 1]
    <3>1. /\ o \o b \in Seq(Seq(Chars)) /\ Len(o \o b) = Len(o) + Len(b)
          /\ \A k \in 1 .. Len(o) + Len(b) : (o \o b)[k] = IF k <= Len(o) THEN o[k] ELSE b[k - Len(o)]
      BY <2>3, <2>6, ConcatProperties
    <3> QED BY <2>6, <3>1
  <2>8. ASSUME NEW k \in 1 .. Len(a) PROVE a[k] = (o \o b)[k]
    <3>1. k \in 1 .. Len(m) - i /\ k \in 1 .. 1 + Len(b)
      BY <1>1, <2>1, <2>2, <2>3
    <3>2. CASE k = 1
      BY <2>2, <2>6, <2>7, <3>1, <3>2 DEF x
    <3>3. CASE k # 1
      <4>1. ~ (k <= 1) /\ k - 1 \in 1 .. Len(m) - (i + 1) /\ (i + 1) + (k - 1) = i + k
        BY <1>1, <2>1, <3>1, <3>3
      <4> QED BY <2>2, <2>3, <2>7, <3>1, <4>1
    <3> QED BY <3>2, <3>3
  <2>9. Len(a) = Len(o \o b)
    BY <1>1, <2>1, <2>2, <2>3, <2>7
  <2>10. a = o \o b
    BY <2>2, <2>7, <2>8, <2>9, SeqEqual
  <2>11. FlattenSeq(<<x>> \o b) = x \o FlattenSeq(b)
    <3> HIDE DEF x
    <3> QED BY <2>3, <2>4, FlatFirst
  <2> QED BY <2>5, <2>10, <2>11 DEF o
<1> QED BY <1>4, <1>5, <1>6, <1>7

-----------------------------------------------------------------------------
(* The invariant.  Up to the directive that is being read, the buffer holds *)
(* what the directives mean.  Of the directive itself, what has been read   *)
(* is in the state of the formatter, and what has not is in front.         *)

NumFlags(d) == ToSet(d.flags) \cap {"+", "0"}
WStars(d) == IF d.width = Star THEN 1 ELSE 0
Half(d) == IF d.len = "hh" THEN "h" ELSE "l"

(* With the width read, and n arguments taken. *)
Known(d, args, n) == nflags = NumFlags(d) /\ width = WidthOf(d, args) /\ list = Left(args, n)

FlagsLeft(d, r, args) ==
  /\ state = "FSPEC" /\ width = 0 /\ size = "" /\ list = args
  /\ \E p, q \in Seq(FlagChars) :
       d.flags = p \o q /\ nflags = ToSet(p) \cap {"+", "0"} /\ format = q \o AtWidth(d, r)
WidthLeft(d, r, args) ==
  /\ state = "WIDTH" /\ nflags = NumFlags(d) /\ size = "" /\ list = args
  /\ width \in Nat \ {0} /\ d.width \in Nat \ {0}
  /\ \E q \in Seq(Digits(10)) :
       Numeral(width, 10) \o q = Numeral(d.width, 10) /\ format = q \o AtPrec(d, r)
PrecLeft(d, r, args) ==
  state \in PrecStates /\ size = "" /\ Known(d, args, WStars(d)) /\ format = AtPrec(d, r)
PrecRead(d, r, args) ==
  /\ state = "PRESC" /\ size = "" /\ Known(d, args, WStars(d))
  /\ d.prec # "" /\ format = <<d.prec>> \o AtLen(d, r)
PrecLost(d, r) ==
  state = "PRESC" /\ d.prec \in Digits(10) /\ format = AtLen(d, r)
LenLeft(d, r, args) ==
  /\ state \in LengthStates /\ size = "" /\ Known(d, args, Stars(d))
  /\ d.prec \in {"", "*"} /\ format = AtLen(d, r)
LenHalf(d, r, args) ==
  /\ state = "LMOD" /\ Known(d, args, Stars(d))
  /\ d.prec \in {"", "*"} /\ d.len \in {"hh", "ll"} /\ size = Half(d)
  /\ format = <<Half(d)>> \o AtConv(d, r)
ConvLeft(d, r, args) ==
  /\ state \in LengthStates \cup {"TYPE"} /\ size = d.len /\ Known(d, args, Stars(d))
  /\ d.prec \in {"", "*"} /\ format = AtConv(d, r)

Inside(d, r, args) ==
  \/ FlagsLeft(d, r, args) \/ WidthLeft(d, r, args) \/ PrecLeft(d, r, args) \/ PrecRead(d, r, args)
  \/ PrecLost(d, r) \/ LenLeft(d, r, args) \/ LenHalf(d, r, args) \/ ConvLeft(d, r, args)

(* The buffer with a text in it, and then with its end. *)
Buffered(t) ==
  /\ count = Len(t)
  /\ \E n \in BufSizes :
       str = [j \in 0 .. n - 1 |-> IF j < Len(t) /\ j < n - 1 THEN t[j + 1] ELSE "old"]
Ended(t) ==
  /\ count = Len(t)
  /\ \E n \in BufSizes :
       str = [j \in 0 .. n - 1 |-> IF j = Min({Len(t), n - 1}) THEN "NUL"
                                   ELSE IF j < Len(t) /\ j < n - 1 THEN t[j + 1] ELSE "old"]

Called ==
  /\ phase = "call" /\ state = "PRINT" /\ format = Rest(meant, 0) /\ list = Args
  /\ Buffered(<< >>) /\ shown = << >>
Between(i, args) ==
  state = "PRINT" /\ format = Rest(meant, i) /\ list = args
Within(i, args) ==
  /\ i < Len(meant)
  /\ \E d \in Directive, r \in Seq(Chars) :
       d = meant[i + 1] /\ d.conv # "text" /\ r = Rest(meant, i + 1) /\ Inside(d, r, args)
Formatting ==
  /\ phase = "format" /\ level >= LogLevel
  /\ \E i \in 0 .. Len(meant), now \in Reading :
       /\ now = After(meant)[i] /\ now.ok /\ Buffered(now.text)
       /\ Between(i, now.args) \/ Within(i, now.args)
Printing ==
  /\ phase = "print" /\ level >= LogLevel
  /\ \E all \in Reading : all = Meaning /\ all.ok /\ list = all.args /\ Ended(all.text)
Over ==
  /\ phase \in {"done", "exited"}
  /\ shown = IF level < LogLevel THEN << >>
             ELSE SubSeq(Meaning.text, 1, Min({Len(Meaning.text), Cardinality(DOMAIN str) - 1}))
Aborted ==
  phase = "aborted" /\ \E i \in DOMAIN meant : Read(i).ok /\ Refused(meant[i], Read(i).args)
Wild ==
  phase = "wild" /\ \E i \in DOMAIN meant : Read(i).ok /\ Lost(meant[i], Read(i).args)

PrintfInv ==
  /\ meant \in Formats /\ level \in Int
  /\ Called \/ Formatting \/ Printing \/ Over \/ Aborted \/ Wild

-----------------------------------------------------------------------------
(* One character of a conversion. *)

TenDigits == {"0", "1", "2", "3", "4", "5", "6", "7", "8", "9"}

LEMMA CharReads ==
  ASSUME NEW c, Char(c)
  PROVE  /\ format # << >> /\ c = Head(format) /\ format' = Tail(format)
         /\ UNCHANGED call /\ phase = "format"
BY DEF Char, Plain, Flag, WidthDigit, WidthArg, Dot, PrecisionArg, PrecisionDigit, Length, Convert, Overrun, Abort, Reads

LEMMA ReadsFirst ==
  ASSUME NEW c, Char(c), NEW x \in Chars, NEW t \in Seq(Chars), format = <<x>> \o t
  PROVE  c = x /\ format' = t
BY CharReads, Unread

(* What each action needs of the state and of the character. *)
LEMMA Guards ==
  ASSUME NEW c
  PROVE  /\ Plain(c) => state = "PRINT"
         /\ Flag(c) => state = "FSPEC" /\ c \in {"-", "+", "0"}
         /\ WidthDigit(c) => state \in WidthStates /\ c \in TenDigits /\ ~ (state = "FSPEC" /\ c = "0")
         /\ WidthArg(c) => state \in WidthStates /\ c = "*"
         /\ Dot(c) => state \in PrecStates /\ c = "."
         /\ PrecisionArg(c) => state = "PRESC" /\ c = "*"
         /\ PrecisionDigit(c) => state = "PRESC" /\ c \in TenDigits
         /\ Length(c) => state \in LengthStates /\ c \in {"h", "l", "j", "z", "t"}
         /\ Convert(c) => state \in LengthStates \cup {"TYPE"} /\ ComesToType(c)
         /\ Overrun(c) => state \in LengthStates \cup {"TYPE"} /\ ComesToType(c)
         /\ Abort(c) => \/ state = "PRESC" /\ c # "*" /\ c \notin TenDigits
                        \/ state \in LengthStates \cup {"TYPE"} /\ ComesToType(c)
         /\ ComesToType(c) =>
              \/ state = "TYPE"
              \/ /\ c \notin {"h", "l", "j", "z", "t"}
                 /\ state \in PrecStates => c # "."
                 /\ state \in WidthStates => c # "*" /\ c \notin TenDigits
                 /\ state = "FSPEC" => c \notin {"-", "+"}
<1>1. IsDigit(c) <=> c \in TenDigits
  BY DecimalDigits DEF TenDigits
<1> HIDE DEF IsDigit
<1>2. Plain(c) => state = "PRINT"
  BY DEF Plain, In
<1>3. Flag(c) => state = "FSPEC" /\ c \in {"-", "+", "0"}
  BY DEF Flag, In
<1>4. WidthDigit(c) => state \in WidthStates /\ c \in TenDigits /\ ~ (state = "FSPEC" /\ c = "0")
  BY <1>1 DEF WidthDigit, In
<1>5. WidthArg(c) => state \in WidthStates /\ c = "*"
  BY DEF WidthArg, In
<1>6. Dot(c) => state \in PrecStates /\ c = "."
  BY DEF Dot, In
<1>7. PrecisionArg(c) => state = "PRESC" /\ c = "*"
  BY DEF PrecisionArg, In
<1>8. PrecisionDigit(c) => state = "PRESC" /\ c \in TenDigits
  BY <1>1 DEF PrecisionDigit, In
<1>9. Length(c) => state \in LengthStates /\ c \in {"h", "l", "j", "z", "t"}
  BY DEF Length, In, IsLength
<1>10. Convert(c) => state \in LengthStates \cup {"TYPE"} /\ ComesToType(c)
  BY DEF Convert, In
<1>11. Abort(c) => \/ state = "PRESC" /\ c # "*" /\ c \notin TenDigits
                   \/ state \in LengthStates \cup {"TYPE"} /\ ComesToType(c)
  BY <1>1 DEF Abort
<1>12. ComesToType(c) =>
         \/ state = "TYPE"
         \/ /\ c \notin {"h", "l", "j", "z", "t"}
            /\ state \in PrecStates => c # "."
            /\ state \in WidthStates => c # "*" /\ c \notin TenDigits
            /\ state = "FSPEC" => c \notin {"-", "+"}
  BY <1>1 DEF ComesToType, IsLength
<1>13. Overrun(c) => state \in LengthStates \cup {"TYPE"} /\ ComesToType(c)
  BY DEF Overrun
<1> QED BY <1>2, <1>3, <1>4, <1>5, <1>6, <1>7, <1>8, <1>9, <1>10, <1>11, <1>12, <1>13

(* Which leaves one action, or three, for each character in each state. *)
LEMMA ByState ==
  ASSUME NEW c, Char(c)
  PROVE  /\ state = "PRINT" => Plain(c)
         /\ state = "FSPEC" /\ c \in {"-", "+", "0"} => Flag(c)
         /\ state \in WidthStates /\ c \in TenDigits /\ ~ (state = "FSPEC" /\ c = "0") => WidthDigit(c)
         /\ state \in WidthStates /\ c = "*" => WidthArg(c)
         /\ state \in PrecStates /\ c = "." => Dot(c)
         /\ state = "PRESC" /\ c = "*" => PrecisionArg(c)
         /\ state = "PRESC" /\ c \in TenDigits => PrecisionDigit(c)
         /\ state = "PRESC" /\ c # "*" /\ c \notin TenDigits => Abort(c)
         /\ state \in LengthStates /\ c \in {"h", "l", "j", "z", "t"} => Length(c)
         /\ state \in LengthStates \cup {"TYPE"} /\ c \in Conversions => Convert(c) \/ Overrun(c) \/ Abort(c)
<1>1. \/ Plain(c) \/ Flag(c) \/ WidthDigit(c) \/ WidthArg(c) \/ Dot(c)
      \/ PrecisionArg(c) \/ PrecisionDigit(c) \/ Length(c) \/ Convert(c) \/ Overrun(c) \/ Abort(c)
  BY DEF Char
<1> USE <1>1, Guards DEF WidthStates, PrecStates, LengthStates, TenDigits
<1>2. state = "PRINT" => Plain(c)
  OBVIOUS
<1>3. state = "FSPEC" /\ c \in {"-", "+", "0"} => Flag(c)
  OBVIOUS
<1>4. state \in WidthStates /\ c \in TenDigits /\ ~ (state = "FSPEC" /\ c = "0") => WidthDigit(c)
  OBVIOUS
<1>5. state \in WidthStates /\ c = "*" => WidthArg(c)
  OBVIOUS
<1>6. state \in PrecStates /\ c = "." => Dot(c)
  OBVIOUS
<1>7. state = "PRESC" /\ c = "*" => PrecisionArg(c)
  OBVIOUS
<1>8. state = "PRESC" /\ c \in TenDigits => PrecisionDigit(c)
  OBVIOUS
<1>9. state = "PRESC" /\ c # "*" /\ c \notin TenDigits => Abort(c)
  OBVIOUS
<1>10. state \in LengthStates /\ c \in {"h", "l", "j", "z", "t"} => Length(c)
  OBVIOUS
<1>11. state \in LengthStates \cup {"TYPE"} /\ c \in Conversions => Convert(c) \/ Overrun(c) \/ Abort(c)
  BY DEF Conversions
<1> QED BY <1>2, <1>3, <1>4, <1>5, <1>6, <1>7, <1>8, <1>9, <1>10, <1>11

LEMMA LeftTail ==
  ASSUME NEW args \in Seq(Int), NEW k \in Nat, k < Len(args)
  PROVE  /\ Left(args, k) \in Seq(Int) /\ Head(Left(args, k)) = args[k + 1]
         /\ Left(args, k)[1] = args[k + 1] /\ Tail(Left(args, k)) = Left(args, k + 1)
<1>1. Len(args) \in Nat /\ k \in 0 .. Len(args) /\ 1 \in 1 .. Len(args) - k
  BY LenProperties
<1> DEFINE t == Left(args, k)
<1>2. t \in Seq(Int) /\ Len(t) = Len(args) - k /\ t[1] = args[k + 1]
  BY <1>1, LeftProps
<1>3. Left(t, 1) = Left(args, k + 1)
  BY <1>1, LeftLeft
<1> HIDE DEF t
<1>4. t # << >>
  BY <1>1, <1>2, EmptySeq
<1>5. Head(t) = t[1] /\ Tail(t) = Left(t, 1)
  BY <1>2, <1>4, LeftOne
<1>6. t \in Seq(Int) /\ Head(t) = args[k + 1] /\ t[1] = args[k + 1] /\ Tail(t) = Left(args, k + 1)
  BY <1>2, <1>3, <1>5
<1> QED BY <1>6 DEF t

(* What a character of a conversion comes to. *)
Moves(d, r, args) ==
  \/ phase' = phase /\ Keep /\ Inside(d, r, args)'
  \/ /\ ~ Stops(d, args) /\ phase' = phase /\ state' = "PRINT" /\ format' = r
     /\ list' = Left(args, Takes(d)) /\ Put(Means(d, args))
  \/ Refused(d, args) /\ phase' = "aborted"
  \/ Lost(d, args) /\ phase' = "wild"

LEMMA OutOfRange == \A a \in Int, b \in Nat \ {0} : (a < 0 \/ a >= b) <=> a \notin 0 .. b - 1
OBVIOUS

LEMMA FailsRefused ==
  ASSUME NEW d \in Directive, d.conv # "text", NEW args \in Seq(Int), Len(args) >= 4,
         width = WidthOf(d, args), size = d.len, d.prec \in {"", "*"}
  PROVE  Fails(d.conv) <=> Refused(d, args)
<1>1. WidthOf(d, args) \in Int /\ SignedBuf \in Nat \ {0} /\ UnsignedBuf \in Nat \ {0}
  BY WidthTyped, PrintfAssumption
<1>2. d.conv \in Conversions
  BY DirectiveTyped
<1> DEFINE w == WidthOf(d, args)
<1>3. CASE d.conv = "d"
  <2>1. Fails(d.conv) <=> (w < 0 \/ w >= SignedBuf)
    BY <1>3 DEF Fails, WidthFails
  <2>2. Refused(d, args) <=> w \notin 0 .. SignedBuf - 1
    BY <1>3 DEF Refused
  <2> HIDE DEF w
  <2>3. w \in Int
    BY <1>1 DEF w
  <2>4. (w < 0 \/ w >= SignedBuf) <=> w \notin 0 .. SignedBuf - 1
    BY <1>1, <2>3, OutOfRange, Zenon
  <2> QED BY <2>1, <2>2, <2>4, Zenon
<1>4. CASE d.conv \in {"x", "u", "o"}
  <2>1. Fails(d.conv) <=> (w < 0 \/ w >= UnsignedBuf)
    BY <1>4 DEF Fails, WidthFails
  <2>2. Refused(d, args) <=> w \notin 0 .. UnsignedBuf - 1
    BY <1>4 DEF Refused
  <2> HIDE DEF w
  <2>3. w \in Int
    BY <1>1 DEF w
  <2>4. (w < 0 \/ w >= UnsignedBuf) <=> w \notin 0 .. UnsignedBuf - 1
    BY <1>1, <2>3, OutOfRange, Zenon
  <2> QED BY <2>1, <2>2, <2>4, Zenon
<1>5. CASE d.conv \in {"c", "s"}
  BY <1>5 DEF Fails, Refused
<1>6. CASE d.conv \in {"%", "n", "a"}
  BY <1>6 DEF Fails, Refused
<1> QED BY <1>2, <1>3, <1>4, <1>5, <1>6 DEF Conversions

LEMMA ConvStep ==
  ASSUME NEW d \in Directive, d.conv # "text", NEW r \in Seq(Chars), NEW args \in Seq(Int), Len(args) >= 4,
         NEW c, Char(c), ConvLeft(d, r, args)
  PROVE  Moves(d, r, args)
<1>1. d.conv \in Conversions /\ d.conv \in Chars
  BY DirectiveTyped, PartsTyped
<1>2. c = d.conv /\ format' = r
  BY <1>1, ReadsFirst DEF ConvLeft, AtConv
<1>3. Convert(c) \/ Overrun(c) \/ Abort(c)
  BY <1>1, <1>2, ByState DEF ConvLeft
<1>4. Fails(c) <=> Refused(d, args)
  BY <1>2, FailsRefused DEF ConvLeft, Known
<1>5. state # "PRESC"
  BY DEF ConvLeft, LengthStates, PrecStates, WidthStates
<1>6. CASE Abort(c)
  BY <1>4, <1>5, <1>6 DEF Abort, Moves
<1>7. ~ Refused(d, args) => (Wraps(c) <=> Lost(d, args))
  <2>1. CASE c = "d"
    <3>1. list = Left(args, Stars(d)) /\ size = d.len
      BY DEF ConvLeft, Known
    <3>2. Left(args, Stars(d)) \in Seq(Int) /\ Len(Left(args, Stars(d))) >= Places(d.len)
      <4>1. Stars(d) \in 0 .. 2 /\ Places(d.len) \in 1 .. 2 /\ Len(args) \in Nat
        BY StarsTyped, LenProperties
      <4>2. Stars(d) \in 0 .. Len(args) /\ Len(args) - Stars(d) >= Places(d.len)
        BY <4>1
      <4> QED BY <4>2, LeftProps
    <3>3. ValueOf(d, Left(args, Stars(d))) = Argument(d.len, Left(args, Stars(d)), TRUE)
      <4>1. (d.conv = "d") = TRUE /\ d.conv \in {"d", "x", "u", "o"}
        BY <1>2, <2>1
      <4> QED BY <3>2, <4>1, ValueRead
    <3> QED BY <1>2, <2>1, <3>1, <3>3 DEF Wraps, Lost, Left
  <2>2. CASE c # "d"
    BY <1>2, <2>2 DEF Wraps, Lost
  <2> QED BY <2>1, <2>2
<1>8. CASE Overrun(c)
  BY <1>4, <1>7, <1>8 DEF Overrun, Moves
<1>9. CASE Convert(c)
  <2>1. ~ Refused(d, args) /\ ~ Stops(d, args) /\ phase' = phase /\ state' = "PRINT"
    BY <1>4, <1>7, <1>9 DEF Convert, In, Stops
  <2>2. /\ c = "%" => Put(<<"%">>) /\ list' = list
        /\ c = "c" => Put(<<"c">>) /\ list' = Tail(list)
        /\ c = "s" => Put(StringOf(Head(list))) /\ list' = Tail(list)
        /\ c \notin {"%", "c", "s"} =>
             Put(Converted(c, size, list, nflags, width)) /\ list' = Left(list, Places(size))
    BY <1>9 DEF Convert, Left
  <2>3. list = Left(args, Stars(d)) /\ nflags = NumFlags(d) /\ width = WidthOf(d, args) /\ size = d.len
    BY DEF ConvLeft, Known
  <2>4. Stars(d) \in Nat /\ Len(args) \in Nat /\ Stars(d) < Len(args)
        /\ Places(d.len) \in Nat /\ Stars(d) + Places(d.len) <= Len(args)
    <3>1. Stars(d) \in 0 .. 2 /\ Places(d.len) \in 1 .. 2 /\ Len(args) \in Nat
      BY StarsTyped, LenProperties
    <3> QED BY <3>1
  <2>5. list' = Left(args, Takes(d)) /\ Put(Means(d, args))
    <3>1. CASE c = "%"
      <4>1. Means(d, args) = <<"%">> /\ Takes(d) = Stars(d)
        BY <1>2, <3>1, StarsTyped DEF Means
      <4> QED BY <2>2, <2>3, <3>1, <4>1
    <3>2. CASE c = "c"
      <4>1. Means(d, args) = <<"c">> /\ Takes(d) = Stars(d) + 1
        BY <1>2, <3>2, StarsTyped DEF Means
      <4>2. Tail(list) = Left(args, Stars(d) + 1)
        BY <2>3, <2>4, LeftTail
      <4> QED BY <2>2, <3>2, <4>1, <4>2
    <3>3. CASE c = "s"
      <4>1. Means(d, args) = StringOf(Left(args, Stars(d))[1]) /\ Takes(d) = Stars(d) + 1
        BY <1>2, <3>3, StarsTyped DEF Means, Left
      <4>2. Tail(list) = Left(args, Stars(d) + 1) /\ Head(list) = Left(args, Stars(d))[1]
        BY <2>3, <2>4, LeftTail
      <4> QED BY <2>2, <3>3, <4>1, <4>2
    <3>4. CASE c \notin {"%", "c", "s"}
      <4>1. d.conv \in Numbers
        BY <1>1, <1>2, <2>1, <3>4 DEF Refused, Numbers, Conversions
      <4>2. Converted(c, size, list, nflags, width) = Means(d, args)
        <5>1. ("0" \in NumFlags(d) <=> "0" \in ToSet(d.flags)) /\ ("+" \in NumFlags(d) <=> "+" \in ToSet(d.flags))
          BY DEF NumFlags
        <5>2. Converted(d.conv, d.len, Left(args, Stars(d)), NumFlags(d), WidthOf(d, args)) = Means(d, args)
          BY <4>1, <5>1, NumberTyped
        <5> QED BY <1>2, <2>3, <5>2
      <4>3. Takes(d) = Stars(d) + Places(d.len)
        BY <4>1, StarsTyped DEF Numbers
      <4>4. Left(Left(args, Stars(d)), Places(d.len)) = Left(args, Stars(d) + Places(d.len))
        BY <2>4, LeftLeft
      <4> QED BY <2>2, <2>3, <3>4, <4>2, <4>3, <4>4
    <3> QED BY <3>1, <3>2, <3>3, <3>4
  <2> QED BY <1>2, <2>1, <2>5 DEF Moves
<1> QED BY <1>3, <1>6, <1>8, <1>9

LEMMA AtLenFirst ==
  ASSUME NEW d \in Directive, d.conv # "text", NEW r \in Seq(Chars)
  PROVE  \/ d.len = "" /\ AtLen(d, r) = AtConv(d, r)
         \/ d.len \in {"hh", "ll"} /\ AtLen(d, r) = <<Half(d)>> \o (<<Half(d)>> \o AtConv(d, r))
         \/ d.len \in {"h", "l", "j", "z", "t"} /\ AtLen(d, r) = <<d.len>> \o AtConv(d, r)
<1>1. AtConv(d, r) \in Seq(Chars) /\ d.len \in Lengths
  BY AtTyped, DirectiveTyped
<1>2. CASE d.len = ""
  BY <1>1, <1>2, ConcatEmptySeq DEF AtLen, LenPart
<1>3. CASE d.len \in {"hh", "ll"}
  <2> DEFINE h == Half(d)
             o == <<h>>
  <2>1. h \in Chars /\ LenPart(d) = <<h, h>>
    BY <1>3 DEF Half, LenPart, Chars
  <2>2. <<h, h>> = o \o o /\ o \in Seq(Chars)
    <3> HIDE DEF h
    <3> QED BY <2>1
  <2> HIDE DEF o
  <2>3. (o \o o) \o AtConv(d, r) = o \o (o \o AtConv(d, r))
    <3>1. Cat(o, Cat(o, AtConv(d, r))) = Cat(Cat(o, o), AtConv(d, r))
      BY <1>1, <2>2, CatAssoc
    <3> QED BY <3>1 DEF Cat
  <2>4. AtLen(d, r) = (o \o o) \o AtConv(d, r)
    BY <2>1, <2>2 DEF AtLen
  <2> QED BY <1>3, <2>3, <2>4 DEF o
<1>4. CASE d.len \in {"h", "l", "j", "z", "t"}
  BY <1>4 DEF AtLen, LenPart
<1> QED BY <1>1, <1>2, <1>3, <1>4 DEF Lengths

LEMMA LenStep ==
  ASSUME NEW d \in Directive, d.conv # "text", NEW r \in Seq(Chars), NEW args \in Seq(Int), Len(args) >= 4,
         NEW c, Char(c), LenLeft(d, r, args)
  PROVE  Moves(d, r, args)
<1>1. CASE d.len = "" /\ AtLen(d, r) = AtConv(d, r)
  <2>1. ConvLeft(d, r, args)
    BY <1>1 DEF LenLeft, ConvLeft
  <2> QED BY <2>1, ConvStep
<1>2. AtConv(d, r) \in Seq(Chars)
  BY AtTyped
<1>3. size = "" /\ state \in LengthStates /\ Known(d, args, Stars(d)) /\ d.prec \in {"", "*"} /\ format = AtLen(d, r)
  BY DEF LenLeft
<1>4. CASE d.len \in {"hh", "ll"} /\ AtLen(d, r) = <<Half(d)>> \o (<<Half(d)>> \o AtConv(d, r))
  <2>1. Half(d) \in Chars /\ Half(d) \in {"h", "l"}
    BY DEF Half, Chars
  <2>2. <<Half(d)>> \o AtConv(d, r) \in Seq(Chars)
    BY <1>2, <2>1, Unread
  <2>3. c = Half(d) /\ format' = <<Half(d)>> \o AtConv(d, r)
    BY <1>3, <1>4, <2>1, <2>2, ReadsFirst
  <2>4. Length(c)
    BY <1>3, <2>1, <2>3, ByState
  <2>5. size' = c /\ state' = "LMOD" /\ phase' = phase /\ Keep /\ nflags' = nflags /\ width' = width /\ list' = list
    BY <1>3, <2>1, <2>3, <2>4 DEF Length, In
  <2>6. LenHalf(d, r, args)'
    BY <1>3, <1>4, <2>3, <2>5 DEF LenHalf, Known
  <2> QED BY <2>5, <2>6 DEF Moves, Inside
<1>5. CASE d.len \in {"h", "l", "j", "z", "t"} /\ AtLen(d, r) = <<d.len>> \o AtConv(d, r)
  <2>1. d.len \in Chars
    BY <1>5 DEF Chars
  <2>2. c = d.len /\ format' = AtConv(d, r)
    BY <1>2, <1>3, <1>5, <2>1, ReadsFirst
  <2>3. Length(c)
    BY <1>3, <1>5, <2>2, ByState
  <2>4. size' = c /\ state' \in {"LMOD", "TYPE"} /\ phase' = phase /\ Keep
        /\ nflags' = nflags /\ width' = width /\ list' = list
    BY <1>3, <1>5, <2>2, <2>3 DEF Length, In
  <2>5. ConvLeft(d, r, args)'
    <3>1. state' \in LengthStates \cup {"TYPE"}
      BY <2>4 DEF LengthStates
    <3> QED BY <1>3, <2>2, <2>4, <3>1 DEF ConvLeft, Known
  <2> QED BY <2>4, <2>5 DEF Moves, Inside
<1> QED BY <1>1, <1>4, <1>5, AtLenFirst

LEMMA HalfStep ==
  ASSUME NEW d \in Directive, d.conv # "text", NEW r \in Seq(Chars), NEW args \in Seq(Int), Len(args) >= 4,
         NEW c, Char(c), LenHalf(d, r, args)
  PROVE  Moves(d, r, args)
<1>1. AtConv(d, r) \in Seq(Chars) /\ Half(d) \in Chars /\ Half(d) \in {"h", "l"}
  BY AtTyped DEF Half, Chars
<1>2. c = Half(d) /\ format' = AtConv(d, r)
  BY <1>1, ReadsFirst DEF LenHalf
<1>3. state = "LMOD" /\ Known(d, args, Stars(d)) /\ d.prec \in {"", "*"} /\ d.len \in {"hh", "ll"} /\ size = Half(d)
  BY DEF LenHalf
<1>4. Length(c)
  <2>1. state \in LengthStates
    BY <1>3 DEF LengthStates
  <2> QED BY <1>1, <1>2, <2>1, ByState
<1>5. size' = d.len /\ state' = "TYPE" /\ phase' = phase /\ Keep /\ nflags' = nflags /\ width' = width /\ list' = list
  BY <1>2, <1>3, <1>4 DEF Length, In, Half
<1>6. ConvLeft(d, r, args)'
  BY <1>2, <1>3, <1>5 DEF ConvLeft, Known
<1> QED BY <1>5, <1>6 DEF Moves, Inside

LEMMA PrecLostStep ==
  ASSUME NEW d \in Directive, d.conv # "text", NEW r \in Seq(Chars), NEW args \in Seq(Int),
         NEW c, Char(c), PrecLost(d, r)
  PROVE  Moves(d, r, args)
<1>1. AtConv(d, r) \in Seq(Chars) /\ d.conv \in Conversions /\ d.conv \in Chars
  BY AtTyped, DirectiveTyped, PartsTyped
<1>2. c \in Conversions \cup {"h", "l", "j", "z", "t"}
  <2>1. CASE d.len = "" /\ AtLen(d, r) = AtConv(d, r)
    <3>1. c = d.conv
      BY <1>1, <2>1, ReadsFirst DEF PrecLost, AtConv
    <3> QED BY <1>1, <3>1
  <2>2. CASE d.len \in {"hh", "ll"} /\ AtLen(d, r) = <<Half(d)>> \o (<<Half(d)>> \o AtConv(d, r))
    <3>1. Half(d) \in Chars /\ Half(d) \in {"h", "l"}
      BY DEF Half, Chars
    <3>2. <<Half(d)>> \o AtConv(d, r) \in Seq(Chars)
      BY <1>1, <3>1, Unread
    <3>3. c = Half(d)
      BY <2>2, <3>1, <3>2, ReadsFirst DEF PrecLost
    <3> QED BY <3>1, <3>3
  <2>3. CASE d.len \in {"h", "l", "j", "z", "t"} /\ AtLen(d, r) = <<d.len>> \o AtConv(d, r)
    <3>1. d.len \in Chars
      BY <2>3 DEF Chars
    <3>2. c = d.len
      BY <1>1, <2>3, <3>1, ReadsFirst DEF PrecLost
    <3> QED BY <2>3, <3>2
  <2> QED BY <2>1, <2>2, <2>3, AtLenFirst
<1>3. c # "*" /\ c \notin TenDigits
  BY <1>2 DEF Conversions, TenDigits
<1>4. Abort(c)
  BY <1>3, ByState DEF PrecLost
<1>5. d.prec \notin {"", "*"}
  BY DecimalDigits DEF PrecLost
<1> QED BY <1>4, <1>5 DEF Abort, Refused, Moves

LEMMA PrecStep ==
  ASSUME NEW d \in Directive, d.conv # "text", NEW r \in Seq(Chars), NEW args \in Seq(Int), Len(args) >= 4,
         NEW c, Char(c), PrecLeft(d, r, args)
  PROVE  Moves(d, r, args)
<1>1. AtLen(d, r) \in Seq(Chars) /\ d.prec \in Precisions
  BY AtTyped, DirectiveTyped
<1>2. CASE d.prec = ""
  <2>1. AtPrec(d, r) = AtLen(d, r)
    BY <1>1, <1>2, ConcatEmptySeq DEF AtPrec, PrecPart
  <2>2. Stars(d) = WStars(d)
    <3>1. d.prec # "*"
      BY <1>2
    <3> QED BY <3>1 DEF Stars, WStars
  <2>3. LenLeft(d, r, args)
    BY <1>2, <2>1, <2>2 DEF PrecLeft, LenLeft, LengthStates
  <2> QED BY <2>3, LenStep
<1>3. CASE d.prec # ""
  <2> DEFINE x == d.prec
             o == <<x>>
             p == <<".">>
  <2>1. x \in Chars /\ "." \in Chars
    BY <1>1, <1>3 DEF Precisions, Chars
  <2>2. o \in Seq(Chars) /\ p \in Seq(Chars) /\ <<".", x>> = p \o o
    <3> HIDE DEF x
    <3> QED BY <2>1
  <2>3. AtPrec(d, r) = (p \o o) \o AtLen(d, r)
    BY <1>3, <2>2 DEF AtPrec, PrecPart
  <2> HIDE DEF o, p
  <2>4. (p \o o) \o AtLen(d, r) = p \o (o \o AtLen(d, r)) /\ o \o AtLen(d, r) \in Seq(Chars)
    <3>1. Cat(p, Cat(o, AtLen(d, r))) = Cat(Cat(p, o), AtLen(d, r)) /\ Cat(o, AtLen(d, r)) \in Seq(Chars)
      BY <1>1, <2>2, CatAssoc, CatTyped
    <3> QED BY <3>1 DEF Cat
  <2>5. c = "." /\ format' = o \o AtLen(d, r)
    <3>1. format = <<".">> \o (o \o AtLen(d, r))
      BY <2>3, <2>4 DEF PrecLeft, p
    <3> QED BY <2>1, <2>4, <3>1, ReadsFirst
  <2>6. Dot(c)
    BY <2>5, ByState DEF PrecLeft
  <2>7. state' = "PRESC" /\ phase' = phase /\ Keep /\ nflags' = nflags /\ width' = width /\ size' = size /\ list' = list
    BY <2>6 DEF Dot, In, spec
  <2>8. PrecRead(d, r, args)'
    BY <1>3, <2>5, <2>7 DEF PrecRead, PrecLeft, Known, o
  <2> QED BY <2>7, <2>8 DEF Moves, Inside
<1> QED BY <1>2, <1>3

LEMMA PrecReadStep ==
  ASSUME NEW d \in Directive, d.conv # "text", NEW r \in Seq(Chars), NEW args \in Seq(Int), Len(args) >= 4,
         NEW c, Char(c), PrecRead(d, r, args)
  PROVE  Moves(d, r, args)
<1>1. AtLen(d, r) \in Seq(Chars) /\ d.prec \in Precisions /\ d.prec # "" /\ state = "PRESC"
  BY AtTyped, DirectiveTyped DEF PrecRead
<1>2. d.prec \in Chars
  BY <1>1 DEF Precisions, Chars
<1>3. c = d.prec /\ format' = AtLen(d, r)
  BY <1>1, <1>2, ReadsFirst DEF PrecRead
<1>4. CASE d.prec = "*"
  <2>1. PrecisionArg(c)
    BY <1>1, <1>3, <1>4, ByState
  <2>2. state' = "LMOD" /\ phase' = phase /\ Keep /\ nflags' = nflags /\ width' = width /\ size' = size
        /\ list' = Tail(list)
    BY <2>1 DEF PrecisionArg, In, spec
  <2>3. WStars(d) \in Nat /\ Stars(d) = WStars(d) + 1 /\ WStars(d) < Len(args)
    <3>1. Len(args) \in Nat
      BY LenProperties
    <3> QED BY <1>4, <3>1 DEF WStars, Stars
  <2>4. Tail(Left(args, WStars(d))) = Left(args, WStars(d) + 1)
    BY <2>3, LeftTail
  <2>5. LenLeft(d, r, args)'
    BY <1>3, <1>4, <2>2, <2>3, <2>4 DEF LenLeft, PrecRead, Known, LengthStates
  <2> QED BY <2>2, <2>5 DEF Moves, Inside
<1>5. CASE d.prec # "*"
  <2>1. d.prec \in TenDigits /\ d.prec \in Digits(10)
    BY <1>1, <1>5, DecimalDigits DEF Precisions, TenDigits
  <2>2. PrecisionDigit(c)
    BY <1>1, <1>3, <2>1, ByState
  <2>3. state' = "PRESC" /\ phase' = phase /\ Keep
    BY <1>1, <2>2 DEF PrecisionDigit, In
  <2>4. PrecLost(d, r)'
    BY <1>3, <2>1, <2>3 DEF PrecLost
  <2> QED BY <2>3, <2>4 DEF Moves, Inside
<1> QED BY <1>4, <1>5

(* What stands in front of a sequence of characters, taken off. *)
LEMMA TakenOff ==
  ASSUME NEW S, S \subseteq Chars, NEW q \in Seq(S), q # << >>, NEW t \in Seq(Chars)
  PROVE  /\ Head(q) \in S /\ Head(q) \in Chars /\ Tail(q) \in Seq(S) /\ Tail(q) \o t \in Seq(Chars)
         /\ q \o t = <<Head(q)>> \o (Tail(q) \o t)
         /\ q = <<Head(q)>> \o Tail(q)
<1> DEFINE x == Head(q)
           y == Tail(q)
           o == <<x>>
<1>1. x \in S /\ y \in Seq(S) /\ q = o \o y
  BY LeftOne
<1>2. x \in Chars /\ y \in Seq(Chars)
  BY <1>1, SeqMonotonic
<1>3. o \in Seq(Chars)
  <2> HIDE DEF x
  <2> QED BY <1>2
<1> HIDE DEF x, y, o
<1>4. Cat(o, Cat(y, t)) = Cat(Cat(o, y), t) /\ Cat(y, t) \in Seq(Chars)
  BY <1>2, <1>3, CatAssoc, CatTyped
<1>5. (o \o y) \o t = o \o (y \o t) /\ y \o t \in Seq(Chars)
  BY <1>4 DEF Cat
<1> QED BY <1>1, <1>2, <1>5 DEF x, y, o

LEMMA WidthGrows ==
  ASSUME NEW w \in Nat \ {0}, NEW k \in 0 .. 9
  PROVE  Numeral(w * 10 + k, 10) = Append(Numeral(w, 10), DigitChars[k + 1]) /\ w * 10 + k \in Nat \ {0}
<1> DEFINE n == w * 10 + k
<1>1. n \in Nat \ {0} /\ ~ (n < 10) /\ n \div 10 = w /\ n % 10 = k
  OBVIOUS
<1> HIDE DEF n
<1>2. 10 \in Bases
  BY DEF Bases
<1>3. Numeral(n, 10) = Append(Numeral(n \div 10, 10), DigitChars[(n % 10) + 1])
  BY <1>1, <1>2, NumeralStep
<1> QED BY <1>1, <1>3 DEF n

LEMMA WidthStep ==
  ASSUME NEW d \in Directive, d.conv # "text", NEW r \in Seq(Chars), NEW args \in Seq(Int), Len(args) >= 4,
         NEW c, Char(c), WidthLeft(d, r, args)
  PROVE  Moves(d, r, args)
<1>1. PICK q \in Seq(Digits(10)) :
        Numeral(width, 10) \o q = Numeral(d.width, 10) /\ format = q \o AtPrec(d, r)
  BY DEF WidthLeft
<1>2. AtPrec(d, r) \in Seq(Chars) /\ Digits(10) \subseteq Chars /\ Digits(10) = TenDigits /\ 10 \in Bases
  BY AtTyped, DecimalDigits DEF TenDigits, Chars, Bases
<1>3. /\ state = "WIDTH" /\ nflags = NumFlags(d) /\ size = "" /\ list = args
      /\ width \in Nat \ {0} /\ d.width \in Nat \ {0}
  BY DEF WidthLeft
<1>4. Numeral(width, 10) \in Seq(Digits(10))
  BY <1>2, <1>3, NumeralTyped
<1>5. CASE q = << >>
  <2>1. Numeral(width, 10) = Numeral(d.width, 10) /\ format = AtPrec(d, r)
    BY <1>1, <1>2, <1>4, <1>5, ConcatEmptySeq
  <2>2. width = d.width
    BY <1>3, <2>1, NumeralInjective
  <2>3. d.width # Star
    <3>1. \A n \in Nat \ {0} : n # Star
      BY DEF Star
    <3> QED BY <1>3, <3>1, Zenon
  <2>4. width = WidthOf(d, args) /\ WStars(d) = 0 /\ Left(args, 0) = args
    BY <2>2, <2>3, LeftNothing DEF WidthOf, WStars
  <2>5. PrecLeft(d, r, args)
    BY <1>3, <2>1, <2>4 DEF PrecLeft, Known, PrecStates, WidthStates
  <2> QED BY <2>5, PrecStep
<1>6. CASE q # << >>
  <2>1. /\ Head(q) \in Digits(10) /\ Head(q) \in Chars /\ Tail(q) \in Seq(Digits(10))
        /\ Tail(q) \o AtPrec(d, r) \in Seq(Chars)
        /\ q \o AtPrec(d, r) = <<Head(q)>> \o (Tail(q) \o AtPrec(d, r))
        /\ q = <<Head(q)>> \o Tail(q)
    <3> HIDE DEF Digits
    <3> QED BY <1>2, <1>6, TakenOff
  <2>2. c = Head(q) /\ format' = Tail(q) \o AtPrec(d, r)
    BY <1>1, <2>1, ReadsFirst
  <2>3. WidthDigit(c)
    BY <1>2, <1>3, <2>1, <2>2, ByState DEF WidthStates
  <2>4. state' = "WIDTH" /\ width' = width * 10 + Digit(c) /\ phase' = phase /\ Keep
        /\ nflags' = nflags /\ size' = size /\ list' = list
    BY <2>3 DEF WidthDigit, In
  <2>5. PICK k \in 0 .. 9 : c = DigitChars[k + 1]
    <3>1. PICK i \in 1 .. 10 : c = DigitChars[i]
      BY <2>1, <2>2 DEF Digits
    <3>2. i - 1 \in 0 .. 9 /\ (i - 1) + 1 = i
      OBVIOUS
    <3> QED BY <3>1, <3>2
  <2>6. Digit(c) = k
    BY <2>5, DecimalDigits
  <2>7. Numeral(width', 10) = Append(Numeral(width, 10), c) /\ width' \in Nat \ {0}
    BY <1>3, <2>4, <2>5, <2>6, WidthGrows
  <2>8. Numeral(width', 10) \o Tail(q) = Numeral(d.width, 10)
    <3> DEFINE a == Numeral(width, 10)
               o == <<Head(q)>>
               t == Tail(q)
    <3>1. a \in Seq(Digits(10)) /\ o \in Seq(Digits(10)) /\ t \in Seq(Digits(10))
      BY <1>4, <2>1
    <3>2. Append(a, Head(q)) = a \o o
      <4> HIDE DEF a, Digits
      <4> QED BY <2>1, <3>1, AppendIsConcat DEF a
    <3>3. a \o q = Numeral(d.width, 10) /\ q = o \o t
      BY <1>1, <2>1
    <3> HIDE DEF a, o, t
    <3>4. Cat(a, Cat(o, t)) = Cat(Cat(a, o), t)
      BY <3>1, CatAssoc
    <3>5. a \o (o \o t) = (a \o o) \o t
      BY <3>4 DEF Cat
    <3>6. Numeral(width', 10) = a \o o
      BY <2>2, <2>7, <3>2 DEF a
    <3> QED BY <3>3, <3>5, <3>6 DEF t
  <2>9. WidthLeft(d, r, args)'
    BY <1>3, <2>1, <2>2, <2>4, <2>7, <2>8 DEF WidthLeft
  <2> QED BY <2>4, <2>9 DEF Moves, Inside
<1> QED BY <1>5, <1>6

LEMMA SetAppend ==
  ASSUME NEW S, NEW p \in Seq(S), NEW x \in S
  PROVE  ToSet(Append(p, x)) = ToSet(p) \cup {x}
<1> DEFINE a == Append(p, x)
<1>1. a \in Seq(S) /\ Len(a) = Len(p) + 1 /\ Len(p) \in Nat
      /\ (\A i \in 1 .. Len(p) : a[i] = p[i]) /\ a[Len(p) + 1] = x
  BY AppendProperties, LenProperties
<1> HIDE DEF a
<1>2. DOMAIN a = 1 .. Len(p) + 1 /\ DOMAIN p = 1 .. Len(p)
  BY <1>1, LenProperties
<1>3. ToSet(a) = ToSet(p) \cup {x}
  <2>1. ASSUME NEW y \in ToSet(a) PROVE y \in ToSet(p) \cup {x}
    <3>1. PICK i \in 1 .. Len(p) + 1 : y = a[i]
      BY <1>2 DEF ToSet
    <3> QED BY <1>1, <1>2, <3>1 DEF ToSet
  <2>2. ASSUME NEW y \in ToSet(p) PROVE y \in ToSet(a)
    <3>1. PICK i \in 1 .. Len(p) : y = p[i]
      BY <1>2 DEF ToSet
    <3>2. i \in 1 .. Len(p) + 1
      BY <1>1
    <3> QED BY <1>1, <1>2, <3>1, <3>2 DEF ToSet
  <2>3. x \in ToSet(a)
    <3>1. Len(p) + 1 \in 1 .. Len(p) + 1
      BY <1>1
    <3> QED BY <1>1, <1>2, <3>1 DEF ToSet
  <2> QED BY <2>1, <2>2, <2>3
<1> QED BY <1>3 DEF a

LEMMA FlagsStep ==
  ASSUME NEW d \in Directive, d.conv # "text", NEW r \in Seq(Chars), NEW args \in Seq(Int), Len(args) >= 4,
         NEW c, Char(c), FlagsLeft(d, r, args)
  PROVE  Moves(d, r, args)
<1>1. PICK p \in Seq(FlagChars), q \in Seq(FlagChars) :
        d.flags = p \o q /\ nflags = ToSet(p) \cap {"+", "0"} /\ format = q \o AtWidth(d, r)
  BY DEF FlagsLeft
<1>2. AtWidth(d, r) \in Seq(Chars) /\ AtPrec(d, r) \in Seq(Chars) /\ FlagChars \subseteq Chars
  BY AtTyped DEF FlagChars, Chars
<1>3. state = "FSPEC" /\ width = 0 /\ size = "" /\ list = args
  BY DEF FlagsLeft
<1>4. CASE q # << >>
  <2>1. /\ Head(q) \in FlagChars /\ Head(q) \in Chars /\ Tail(q) \in Seq(FlagChars)
        /\ Tail(q) \o AtWidth(d, r) \in Seq(Chars)
        /\ q \o AtWidth(d, r) = <<Head(q)>> \o (Tail(q) \o AtWidth(d, r))
        /\ q = <<Head(q)>> \o Tail(q)
    <3> HIDE DEF FlagChars
    <3> QED BY <1>2, <1>4, TakenOff
  <2>2. c = Head(q) /\ format' = Tail(q) \o AtWidth(d, r)
    BY <1>1, <2>1, ReadsFirst
  <2>3. Flag(c)
    BY <1>3, <2>1, <2>2, ByState DEF FlagChars
  <2>4. state' = state /\ width' = width /\ size' = size /\ list' = list /\ phase' = phase /\ Keep
        /\ nflags' = nflags \cup ({c} \cap {"+", "0"})
    BY <2>3 DEF Flag, In
  <2> DEFINE a == Append(p, Head(q))
             t == Tail(q)
  <2>5. a \in Seq(FlagChars) /\ t \in Seq(FlagChars) /\ ToSet(a) = ToSet(p) \cup {Head(q)}
    <3> HIDE DEF FlagChars
    <3> QED BY <2>1, AppendProperties, SetAppend
  <2>6. d.flags = a \o t
    <3> DEFINE o == <<Head(q)>>
    <3>1. o \in Seq(FlagChars) /\ p \in Seq(FlagChars)
      <4> HIDE DEF FlagChars
      <4> QED BY <2>1
    <3>2. a = p \o o
      <4> HIDE DEF FlagChars
      <4> QED BY <2>1, AppendIsConcat
    <3>3. q = o \o t
      BY <2>1
    <3> HIDE DEF o, t, a
    <3>4. Cat(p, Cat(o, t)) = Cat(Cat(p, o), t)
      BY <2>5, <3>1, CatAssoc
    <3>5. p \o (o \o t) = (p \o o) \o t
      BY <3>4 DEF Cat
    <3> QED BY <1>1, <3>2, <3>3, <3>5
  <2>7. nflags' = ToSet(a) \cap {"+", "0"}
    BY <1>1, <2>2, <2>4, <2>5
  <2> HIDE DEF a
  <2>8. FlagsLeft(d, r, args)'
    BY <1>3, <2>2, <2>4, <2>5, <2>6, <2>7 DEF FlagsLeft
  <2> QED BY <2>4, <2>8 DEF Moves, Inside
<1>5. CASE q = << >>
  <2>1. d.flags = p /\ format = AtWidth(d, r) /\ nflags = NumFlags(d)
    BY <1>1, <1>2, <1>5, ConcatEmptySeq DEF NumFlags
  <2>2. CASE d.width = Star
    <3>1. AtWidth(d, r) = <<"*">> \o AtPrec(d, r) /\ "*" \in Chars
      BY <2>2 DEF AtWidth, WidthPart, Chars
    <3>2. c = "*" /\ format' = AtPrec(d, r)
      BY <1>2, <2>1, <3>1, ReadsFirst
    <3>3. WidthArg(c)
      BY <1>3, <3>2, ByState DEF WidthStates
    <3>4. state' = "AWIDT" /\ width' = Head(list) /\ list' = Tail(list) /\ phase' = phase /\ Keep
          /\ nflags' = nflags /\ size' = size
      BY <3>3 DEF WidthArg, In
    <3>5. 0 \in Nat /\ 0 < Len(args) /\ 0 + 1 = 1 /\ Left(args, 0) = args
      BY LeftNothing, LenProperties
    <3>6. Head(args) = args[1] /\ Tail(args) = Left(args, 1)
      BY <3>5, LeftTail
    <3>7. WStars(d) = 1 /\ WidthOf(d, args) = args[1]
      BY <2>2 DEF WStars, WidthOf
    <3>8. PrecLeft(d, r, args)'
      BY <1>3, <2>1, <3>2, <3>4, <3>6, <3>7 DEF PrecLeft, Known, PrecStates
    <3> QED BY <3>4, <3>8 DEF Moves, Inside
  <2>3. CASE d.width = 0
    <3>1. d.width # Star
      BY <2>3 DEF Star
    <3>2. AtWidth(d, r) = AtPrec(d, r)
      BY <1>2, <2>3, <3>1, ConcatEmptySeq DEF AtWidth, WidthPart
    <3>3. WStars(d) = 0 /\ WidthOf(d, args) = 0 /\ Left(args, 0) = args
      BY <2>3, <3>1, LeftNothing DEF WStars, WidthOf
    <3>4. PrecLeft(d, r, args)
      BY <1>3, <2>1, <3>2, <3>3 DEF PrecLeft, Known, PrecStates, WidthStates
    <3> QED BY <3>4, PrecStep
  <2>4. CASE d.width # Star /\ d.width # 0
    <3> DEFINE s == Numeral(d.width, 10)
    <3>1. d.width \in Nat \ {0} /\ 10 \in Bases
      BY <2>4, DirectiveTyped DEF Bases
    <3>2. s \in Seq(Digits(10)) /\ s # << >> /\ s[1] \in Digits(10) \ {"0"}
      BY <3>1, NumeralTyped, NumeralFirst
    <3>3. AtWidth(d, r) = s \o AtPrec(d, r)
      BY <2>4 DEF AtWidth, WidthPart
    <3>4. Digits(10) \subseteq Chars /\ Digits(10) = TenDigits
      BY DecimalDigits DEF Chars, TenDigits
    <3> HIDE DEF s
    <3>5. /\ Head(s) \in Chars /\ Tail(s) \in Seq(Digits(10)) /\ Tail(s) \o AtPrec(d, r) \in Seq(Chars)
          /\ s \o AtPrec(d, r) = <<Head(s)>> \o (Tail(s) \o AtPrec(d, r))
          /\ s = <<Head(s)>> \o Tail(s) /\ Head(s) = s[1]
      <4> HIDE DEF Digits
      <4>1. Head(s) = s[1]
        BY <3>2, LeftOne
      <4>2. /\ Head(s) \in Chars /\ Tail(s) \in Seq(Digits(10)) /\ Tail(s) \o AtPrec(d, r) \in Seq(Chars)
            /\ s \o AtPrec(d, r) = <<Head(s)>> \o (Tail(s) \o AtPrec(d, r))
            /\ s = <<Head(s)>> \o Tail(s)
        BY <1>2, <3>2, <3>4, TakenOff
      <4> QED BY <4>1, <4>2
    <3>6. c = Head(s) /\ format' = Tail(s) \o AtPrec(d, r)
      BY <2>1, <3>3, <3>5, ReadsFirst
    <3>7. WidthDigit(c)
      BY <1>3, <3>2, <3>4, <3>5, <3>6, ByState DEF WidthStates
    <3>8. state' = "WIDTH" /\ width' = width * 10 + Digit(c) /\ phase' = phase /\ Keep
          /\ nflags' = nflags /\ size' = size /\ list' = list
      BY <3>7 DEF WidthDigit, In
    <3>9. PICK k \in 0 .. 9 : c = DigitChars[k + 1]
      <4>1. PICK i \in 1 .. 10 : c = DigitChars[i]
        BY <3>2, <3>5, <3>6 DEF Digits
      <4>2. i - 1 \in 0 .. 9 /\ (i - 1) + 1 = i
        OBVIOUS
      <4> QED BY <4>1, <4>2
    <3>10. k # 0
      <4>1. DigitChars[0 + 1] = "0"
        BY DEF DigitChars
      <4> QED BY <3>2, <3>5, <3>6, <3>9, <4>1
    <3>11. width' = k
      <4>1. Digit(c) = k
        BY <3>9, DecimalDigits
      <4>2. width' = 0 * 10 + k
        BY <1>3, <3>8, <4>1, Zenon
      <4>3. 0 * 10 + k = k
        OBVIOUS
      <4> QED BY <4>2, <4>3, Zenon
    <3>12. Numeral(k, 10) = <<c>>
      <4>1. k \in Nat /\ k < 10
        OBVIOUS
      <4> QED BY <3>1, <3>9, <4>1, NumeralStep
    <3>13. WidthLeft(d, r, args)'
      <4>1. k \in Nat \ {0}
        BY <3>10
      <4>2. Numeral(width', 10) \o Tail(s) = Numeral(d.width, 10)
        BY <3>5, <3>6, <3>11, <3>12 DEF s
      <4> QED BY <1>3, <2>1, <3>1, <3>5, <3>6, <3>8, <3>11, <4>1, <4>2 DEF WidthLeft
    <3> QED BY <3>8, <3>13 DEF Moves, Inside
  <2> QED BY <2>2, <2>3, <2>4
<1> QED BY <1>4, <1>5

LEMMA InsideStep ==
  ASSUME NEW d \in Directive, d.conv # "text", NEW r \in Seq(Chars), NEW args \in Seq(Int), Len(args) >= 4,
         NEW c, Char(c), Inside(d, r, args)
  PROVE  Moves(d, r, args)
<1>1. \/ FlagsLeft(d, r, args) \/ WidthLeft(d, r, args) \/ PrecLeft(d, r, args) \/ PrecRead(d, r, args)
      \/ PrecLost(d, r) \/ LenLeft(d, r, args) \/ LenHalf(d, r, args) \/ ConvLeft(d, r, args)
  BY DEF Inside
<1> HIDE DEF Directive
<1> QED BY <1>1, FlagsStep, WidthStep, PrecStep, PrecReadStep, PrecLostStep, LenStep, HalfStep, ConvStep

-----------------------------------------------------------------------------
(* The buffer. *)

LEMMA SizeOf ==
  ASSUME NEW n \in BufSizes
  PROVE  n \in Nat \ {0} /\ Cardinality(0 .. n - 1) = n
<1>1. n \in Nat \ {0}
  BY PrintfAssumption
<1>2. 0 \in Int /\ n - 1 \in Int /\ 0 <= n - 1 /\ (n - 1) - 0 + 1 = n
  BY <1>1
<1> DEFINE b == n - 1
<1>3. b \in Int /\ 0 <= b /\ b - 0 + 1 = n
  BY <1>2
<1> HIDE DEF b
<1>4. Cardinality(0 .. b) = IF 0 > b THEN 0 ELSE b - 0 + 1
  BY <1>3, FS_Interval
<1> QED BY <1>1, <1>3, <1>4 DEF b

LEMMA BufferedMore ==
  ASSUME NEW t \in Seq(Shown), NEW u \in Seq(Shown), Buffered(t), Put(u)
  PROVE  Buffered(t \o u)'
<1>1. PICK n \in BufSizes :
        str = [j \in 0 .. n - 1 |-> IF j < Len(t) /\ j < n - 1 THEN t[j + 1] ELSE "old"]
  BY DEF Buffered
<1>2. n \in Nat \ {0} /\ DOMAIN str = 0 .. n - 1 /\ Cardinality(DOMAIN str) = n
  BY <1>1, SizeOf
<1>3. count = Len(t) /\ Len(t) \in Nat /\ Len(u) \in Nat
  BY LenProperties DEF Buffered
<1> DEFINE s == t \o u
<1>4. Len(s) = Len(t) + Len(u)
      /\ \A i \in 1 .. Len(t) + Len(u) : s[i] = IF i <= Len(t) THEN t[i] ELSE u[i - Len(t)]
  BY ConcatProperties
<1> HIDE DEF s
<1>5. str' = [i \in 0 .. n - 1 |-> IF i \in Len(t) .. Len(t) + Len(u) - 1 /\ i < n - 1
                                   THEN u[i - Len(t) + 1] ELSE str[i]]
  BY <1>2, <1>3 DEF Put, Room
<1>6. ASSUME NEW i \in 0 .. n - 1
      PROVE  (IF i \in Len(t) .. Len(t) + Len(u) - 1 /\ i < n - 1 THEN u[i - Len(t) + 1] ELSE str[i])
               = IF i < Len(s) /\ i < n - 1 THEN s[i + 1] ELSE "old"
  <2>1. str[i] = IF i < Len(t) /\ i < n - 1 THEN t[i + 1] ELSE "old"
    BY <1>1
  <2>2. i \in Nat
    BY <1>2
  <2>3. CASE ~ (i < n - 1)
    BY <2>1, <2>3
  <2>4. CASE i < n - 1 /\ i < Len(t)
    <3>1. i + 1 \in 1 .. Len(t) + Len(u) /\ i + 1 <= Len(t) /\ i \notin Len(t) .. Len(t) + Len(u) - 1 /\ i < Len(s)
      BY <1>3, <1>4, <2>2, <2>4
    <3> QED BY <1>4, <2>1, <2>4, <3>1
  <2>5. CASE i < n - 1 /\ ~ (i < Len(t)) /\ i < Len(s)
    <3>1. i + 1 \in 1 .. Len(t) + Len(u) /\ ~ (i + 1 <= Len(t)) /\ i \in Len(t) .. Len(t) + Len(u) - 1
          /\ (i + 1) - Len(t) = i - Len(t) + 1
      BY <1>3, <1>4, <2>2, <2>5
    <3> QED BY <1>4, <2>5, <3>1
  <2>6. CASE i < n - 1 /\ ~ (i < Len(t)) /\ ~ (i < Len(s))
    <3>1. i \notin Len(t) .. Len(t) + Len(u) - 1
      BY <1>3, <1>4, <2>2, <2>6
    <3> QED BY <2>1, <2>6, <3>1
  <2> QED BY <2>3, <2>4, <2>5, <2>6
<1>7. str' = [i \in 0 .. n - 1 |-> IF i < Len(s) /\ i < n - 1 THEN s[i + 1] ELSE "old"]
  BY <1>5, <1>6
<1>8. count' = Len(s)
  BY <1>3, <1>4 DEF Put
<1> QED BY <1>7, <1>8 DEF Buffered, s

LEMMA BufferEnds ==
  ASSUME NEW t \in Seq(Shown), Buffered(t), End
  PROVE  Ended(t)'
<1>1. PICK n \in BufSizes :
        str = [j \in 0 .. n - 1 |-> IF j < Len(t) /\ j < n - 1 THEN t[j + 1] ELSE "old"]
  BY DEF Buffered
<1>2. n \in Nat \ {0} /\ DOMAIN str = 0 .. n - 1 /\ Cardinality(DOMAIN str) = n
  BY <1>1, SizeOf
<1>3. count = Len(t) /\ count' = Len(t)
  BY DEF Buffered, End
<1> DEFINE k == Min({Len(t), n - 1})
<1>4. str' = [str EXCEPT ![k] = "NUL"]
  BY <1>2, <1>3 DEF End
<1> HIDE DEF k
<1>5. str' = [j \in 0 .. n - 1 |-> IF j = k THEN "NUL" ELSE str[j]]
  BY <1>2, <1>4
<1>6. str' = [j \in 0 .. n - 1 |-> IF j = k THEN "NUL"
                                   ELSE IF j < Len(t) /\ j < n - 1 THEN t[j + 1] ELSE "old"]
  <2>1. \A j \in 0 .. n - 1 : str[j] = IF j < Len(t) /\ j < n - 1 THEN t[j + 1] ELSE "old"
    BY <1>1
  <2> QED BY <1>5, <2>1
<1> QED BY <1>3, <1>6 DEF Ended, k

LEMMA EndedShown ==
  ASSUME NEW t \in Seq(Shown), Ended(t)
  PROVE  /\ \E i \in DOMAIN str : str[i] = "NUL"
         /\ \A i \in DOMAIN str : str[i] \notin {"old", "NUL"} => str[i] = t[i + 1]
         /\ [i \in 1 .. Min({i \in DOMAIN str : str[i] = "NUL"}) |-> str[i - 1]]
              = SubSeq(t, 1, Min({Len(t), Cardinality(DOMAIN str) - 1}))
<1> DEFINE l(n) == Min({Len(t), n - 1})
<1>1. PICK n \in BufSizes :
        str = [j \in 0 .. n - 1 |-> IF j = l(n) THEN "NUL"
                                    ELSE IF j < Len(t) /\ j < n - 1 THEN t[j + 1] ELSE "old"]
  BY DEF Ended
<1> DEFINE k == l(n)
<1>2. n \in Nat \ {0} /\ DOMAIN str = 0 .. n - 1 /\ Cardinality(DOMAIN str) = n
  BY <1>1, SizeOf
<1>3. Len(t) \in Nat /\ \A j \in 1 .. Len(t) : t[j] \in Shown
  BY LenProperties, ElementOfSeq
<1>4. k \in 0 .. n - 1 /\ k <= Len(t) /\ k \in Nat /\ (k = Len(t) \/ k = n - 1)
  <2>1. k = IF Len(t) <= n - 1 THEN Len(t) ELSE n - 1
    BY <1>2, <1>3, MinTwo
  <2> HIDE DEF k
  <2> QED BY <1>2, <1>3, <2>1
<1>5. \A j \in 0 .. n - 1 : str[j] = IF j = k THEN "NUL"
                                     ELSE IF j < Len(t) /\ j < n - 1 THEN t[j + 1] ELSE "old"
  BY <1>1
<1> HIDE DEF k
<1>6. str[k] = "NUL"
  BY <1>4, <1>5
<1>7. \A j \in 0 .. n - 1 : j < k => str[j] = t[j + 1] /\ str[j] # "NUL"
  <2> TAKE j \in 0 .. n - 1
  <2> HAVE j < k
  <2>1. j # k /\ j < Len(t) /\ j < n - 1 /\ j + 1 \in 1 .. Len(t)
    BY <1>2, <1>3, <1>4
  <2>2. str[j] = t[j + 1] /\ t[j + 1] \in Shown
    BY <1>3, <1>5, <2>1
  <2>3. "NUL" \notin Shown
    BY DEF Shown, Chars
  <2> QED BY <2>2, <2>3
<1>8. Min({i \in DOMAIN str : str[i] = "NUL"}) = k
  <2> DEFINE Z == {i \in DOMAIN str : str[i] = "NUL"}
  <2>1. k \in Z /\ \A y \in Z : y \in Int /\ k <= y
    <3>1. \A y \in Z : y \in 0 .. n - 1 /\ ~ (y < k)
      BY <1>2, <1>7
    <3> QED BY <1>2, <1>4, <1>6, <3>1
  <2>2. \A x \in Z : (\A y \in Z : x <= y) => x = k
    <3> TAKE x \in Z
    <3> HAVE \A y \in Z : x <= y
    <3>1. x <= k /\ k <= x /\ x \in Int /\ k \in Int
      BY <1>4, <2>1
    <3> QED BY <3>1
  <2> HIDE DEF Z
  <2>3. (CHOOSE x \in Z : \A y \in Z : x <= y) = k
    BY <2>1, <2>2
  <2> QED BY <2>3 DEF Min, Z
<1>9. [i \in 1 .. k |-> str[i - 1]] = SubSeq(t, 1, k)
  <2>1. /\ SubSeq(t, 1, k) \in Seq(Shown) /\ Len(SubSeq(t, 1, k)) = k
        /\ \A i \in 1 .. k : SubSeq(t, 1, k)[i] = t[i]
    <3>1. 1 \in Int /\ k \in Int /\ \A i \in 1 .. k : t[i] \in Shown
      BY <1>3, <1>4
    <3>2. k - 1 + 1 = k /\ (IF 1 <= k THEN k - 1 + 1 ELSE 0) = k /\ \A i \in 1 .. k : 1 + i - 1 = i
      BY <1>4
    <3>3. /\ SubSeq(t, 1, k) \in Seq(Shown)
          /\ Len(SubSeq(t, 1, k)) = IF 1 <= k THEN k - 1 + 1 ELSE 0
          /\ \A i \in 1 .. k - 1 + 1 : SubSeq(t, 1, k)[i] = t[1 + i - 1]
      BY <3>1, SubSeqProperties
    <3> QED BY <3>2, <3>3
  <2> DEFINE s == SubSeq(t, 1, k)
  <2>2. s \in Seq(Shown) /\ Len(s) = k /\ \A i \in 1 .. k : s[i] = t[i]
    BY <2>1
  <2> HIDE DEF s
  <2>3. s = [i \in 1 .. k |-> s[i]]
    BY <2>2, LenProperties
  <2>4. \A i \in 1 .. k : str[i - 1] = s[i]
    <3> TAKE i \in 1 .. k
    <3>1. i - 1 \in 0 .. n - 1 /\ i - 1 < k /\ (i - 1) + 1 = i
      BY <1>2, <1>4
    <3> QED BY <1>7, <2>2, <3>1
  <2> QED BY <2>3, <2>4 DEF s
<1>10. \A i \in DOMAIN str : str[i] \notin {"old", "NUL"} => str[i] = t[i + 1]
  BY <1>2, <1>5
<1>11. Min({Len(t), Cardinality(DOMAIN str) - 1}) = k
  BY <1>2 DEF k
<1> QED BY <1>2, <1>4, <1>6, <1>8, <1>9, <1>10, <1>11

-----------------------------------------------------------------------------
(* The invariant holds. *)

LEMMA DirectiveRead ==
  ASSUME NEW m \in Formats, NEW i \in 0 .. Len(m) - 1, NEW d \in Directive, d = m[i + 1],
         NEW now \in Reading, now = After(m)[i], now.ok
  PROVE  /\ now.args \in Seq(Int) /\ Len(now.args) >= 4 /\ now.text \in Seq(Shown)
         /\ i + 1 \in 0 .. Len(m) /\ After(m)[i + 1] \in Reading
         /\ ~ Stops(d, now.args) =>
              /\ After(m)[i + 1].ok
              /\ After(m)[i + 1].text = now.text \o Means(d, now.args)
              /\ After(m)[i + 1].args = Left(now.args, Takes(d))
              /\ Means(d, now.args) \in Seq(Shown)
<1> HIDE DEF Directive
<1>1. Len(m) \in Nat /\ i \in 0 .. Len(m) /\ i + 1 \in 0 .. Len(m) /\ i + 1 \in 1 .. Len(m) /\ (i + 1) - 1 = i
  BY FormatTyped
<1>2. now.args \in Seq(Int) /\ now.text \in Seq(Shown) /\ Len(now.args) >= 4 * (Len(m) - i) /\ Len(now.args) \in Nat
  BY <1>1, AfterTyped, LenProperties DEF Reading
<1>3. Len(now.args) >= 4
  BY <1>1, <1>2
<1>4. After(m)[i + 1] \in Reading
  BY <1>1, AfterTyped
<1>5. After(m)[i + 1] = Past(now, d)
  <2>1. \A k \in 1 .. Len(m) : After(m)[k] = Past(After(m)[k - 1], m[k])
    BY <1>1, AfterSteps
  <2>2. After(m)[i + 1] = Past(After(m)[(i + 1) - 1], m[i + 1])
    BY <1>1, <2>1
  <2>3. After(m)[(i + 1) - 1] = now
    BY <1>1
  <2> HIDE DEF After
  <2> QED BY <2>2, <2>3
<1>6. ASSUME ~ Stops(d, now.args)
      PROVE  /\ After(m)[i + 1].ok
             /\ After(m)[i + 1].text = now.text \o Means(d, now.args)
             /\ After(m)[i + 1].args = Left(now.args, Takes(d))
             /\ Means(d, now.args) \in Seq(Shown)
  <2>1. Past(now, d) = [text |-> now.text \o Means(d, now.args), args |-> Left(now.args, Takes(d)), ok |-> TRUE]
    BY <1>6 DEF Past
  <2>2. Means(d, now.args) \in Seq(Shown)
    BY <1>2, <1>3, <1>6, MeansTyped DEF Stops
  <2>3. Past(now, d).ok /\ Past(now, d).text = now.text \o Means(d, now.args)
        /\ Past(now, d).args = Left(now.args, Takes(d))
    <3> DEFINE t == now.text \o Means(d, now.args)
               l == Left(now.args, Takes(d))
    <3>1. Past(now, d) = [text |-> t, args |-> l, ok |-> TRUE]
      BY <2>1
    <3> HIDE DEF t, l
    <3>2. Past(now, d).ok /\ Past(now, d).text = t /\ Past(now, d).args = l
      BY <3>1
    <3> QED BY <3>2 DEF t, l
  <2> QED BY <1>5, <2>2, <2>3
<1> QED BY <1>1, <1>2, <1>3, <1>4, <1>6

LEMMA TextMeans ==
  ASSUME NEW d \in Directive, d.conv = "text", NEW args \in Seq(Int)
  PROVE  ~ Stops(d, args) /\ Means(d, args) = <<d.text>> /\ Left(args, Takes(d)) = args
<1>1. d.prec = "" /\ Takes(d) = 0
  BY DirectiveTyped, StarsTyped
<1>2. ~ Stops(d, args)
  BY <1>1 DEF Stops, Lost, Refused
<1>3. Means(d, args) = <<d.text>>
  BY DEF Means
<1> QED BY <1>1, <1>2, <1>3, LeftNothing

(* After a directive comes the next one. *)
LEMMA Passed ==
  ASSUME NEW m \in Formats, meant = m, UNCHANGED call, phase = "format", level >= LogLevel,
         NEW i \in 0 .. Len(m) - 1, NEW d \in Directive, d = m[i + 1],
         NEW now \in Reading, now = After(m)[i], now.ok, Buffered(now.text),
         ~ Stops(d, now.args), phase' = phase, state' = "PRINT", format' = Rest(m, i + 1),
         list' = Left(now.args, Takes(d)), Put(Means(d, now.args))
  PROVE  Formatting'
<1> HIDE DEF Directive
<1> DEFINE next == After(m)[i + 1]
<1>1. /\ i + 1 \in 0 .. Len(m) /\ next \in Reading /\ next.ok
      /\ next.text = now.text \o Means(d, now.args) /\ next.args = Left(now.args, Takes(d))
      /\ Means(d, now.args) \in Seq(Shown) /\ now.text \in Seq(Shown)
  BY DirectiveRead
<1>2. Buffered(now.text \o Means(d, now.args))'
  BY <1>1, BufferedMore
<1>3. PICK then \in Reading : then = next
  BY <1>1
<1> DEFINE t == now.text \o Means(d, now.args)
<1>4. t = then.text
  BY <1>1, <1>3
<1>5. Buffered(then.text)'
  <2>1. Buffered(t)'
    BY <1>2
  <2> HIDE DEF t
  <2> QED BY <1>4, <2>1 DEF Buffered
<1>6. meant' = m /\ level' = level
  BY DEF call
<1>7. PICK j \in 0 .. Len(m) : j = i + 1
  BY <1>1
<1>8. then = After(m)[j] /\ then.ok
  BY <1>1, <1>3, <1>7
<1>9. Between(j, then.args)'
  <2>1. then.args = Left(now.args, Takes(d))
    BY <1>1, <1>3
  <2> QED BY <1>6, <1>7, <2>1 DEF Between
<1> QED BY <1>5, <1>6, <1>8, <1>9 DEF Formatting

LEMMA StillWithin ==
  ASSUME NEW m \in Formats, meant = m, UNCHANGED call, phase = "format", level >= LogLevel,
         NEW i \in 0 .. Len(m) - 1, NEW d \in Directive, d = m[i + 1], d.conv # "text",
         NEW r \in Seq(Chars), r = Rest(m, i + 1),
         NEW now \in Reading, now = After(m)[i], now.ok, Buffered(now.text), phase' = phase, Keep,
         NEW args, args = now.args, Inside(d, r, args)'
  PROVE  Formatting'
<1> HIDE DEF Directive
<1>1. meant' = m /\ level' = level
  BY DEF call
<1>2. Buffered(now.text)'
  BY DEF Buffered, Keep
<1>3. i < Len(m) /\ i \in 0 .. Len(m)
  BY FormatTyped
<1>4. Within(i, args)'
  BY <1>1, <1>3 DEF Within
<1>5. Within(i, now.args)'
  BY <1>4
<1> QED BY <1>1, <1>2, <1>3, <1>5 DEF Formatting

LEMMA BetweenStep ==
  ASSUME NEW m \in Formats, meant = m, phase = "format", level >= LogLevel,
         NEW i \in 0 .. Len(m), NEW now \in Reading, now = After(m)[i], now.ok, Buffered(now.text),
         Between(i, now.args), NEW c, Char(c)
  PROVE  Formatting'
<1> HIDE DEF Directive
<1>1. Plain(c) /\ format # << >> /\ UNCHANGED call
  BY ByState, CharReads DEF Between
<1>2. Len(m) \in Nat /\ i # Len(m)
  BY <1>1, FormatTyped, RestUnfolds DEF Between
<1>3. i \in 0 .. Len(m) - 1 /\ i + 1 \in 1 .. Len(m) /\ i + 1 \in 0 .. Len(m)
  BY <1>2
<1>4. PICK d \in Directive : d = m[i + 1]
  BY <1>3, FormatTyped
<1>5. PICK r \in Seq(Chars) : r = Rest(m, i + 1)
  BY <1>3, RestUnfolds
<1>6. format = Spell(d) \o r
  BY <1>3, <1>4, <1>5, RestUnfolds DEF Between
<1>7. CASE d.conv = "text"
  <2>1. Spell(d) = <<d.text>> /\ d.text \in Chars \ {"%"}
    BY <1>7, DirectiveTyped DEF Spell
  <2>2. c = d.text /\ format' = r
    BY <1>6, <2>1, ReadsFirst
  <2>3. Put(<<c>>) /\ state' = state /\ list' = list /\ phase' = phase
    BY <1>1, <2>1, <2>2 DEF Plain, In
  <2>4. now.args \in Seq(Int)
    BY DEF Reading
  <2>5. ~ Stops(d, now.args) /\ Means(d, now.args) = <<d.text>> /\ Left(now.args, Takes(d)) = now.args
    BY <1>7, <2>4, TextMeans
  <2>6. list' = Left(now.args, Takes(d)) /\ Put(Means(d, now.args)) /\ state' = "PRINT" /\ format' = Rest(m, i + 1)
    BY <1>5, <2>2, <2>3, <2>5 DEF Between
  <2> QED BY <1>1, <1>3, <1>4, <2>3, <2>5, <2>6, Passed
<1>8. CASE d.conv # "text"
  <2> DEFINE t == d.flags \o AtWidth(d, r)
  <2>1. "%" \in Chars /\ t \in Seq(Chars) /\ format = <<"%">> \o t
    <3>1. t \in Seq(Chars)
      BY <1>8, AtTyped, PartsTyped, ConcatProperties
    <3>2. Spell(d) \o r = <<"%">> \o t
      BY <1>8, SpellUnfolds
    <3> HIDE DEF t
    <3> QED BY <1>6, <3>1, <3>2 DEF Chars
  <2> HIDE DEF t
  <2>2. c = "%" /\ format' = t
    BY <2>1, ReadsFirst
  <2>3. state' = "FSPEC" /\ width' = 0 /\ nflags' = {} /\ size' = "" /\ Keep /\ list' = list /\ phase' = phase
    BY <1>1, <2>2 DEF Plain, In
  <2>4. PICK args \in {now.args} : TRUE
    OBVIOUS
  <2>5. args = now.args
    BY <2>4
  <2>6. FlagsLeft(d, r, args)'
    <3>1. << >> \in Seq(FlagChars) /\ d.flags \in Seq(FlagChars)
      <4>1. << >> \in Seq(FlagChars)
        OBVIOUS
      <4> QED BY <4>1, DirectiveTyped
    <3>2. d.flags = << >> \o d.flags
      BY <3>1, ConcatEmptySeq
    <3>3. ToSet(<< >>) \cap {"+", "0"} = {}
      BY DEF ToSet
    <3>4. list' = args
      BY <2>3, <2>5 DEF Between
    <3> QED BY <2>2, <2>3, <3>1, <3>2, <3>3, <3>4 DEF FlagsLeft, t
  <2>7. Inside(d, r, args)'
    BY <2>6 DEF Inside
  <2> QED BY <1>1, <1>3, <1>4, <1>5, <1>8, <2>3, <2>5, <2>7, StillWithin
<1> QED BY <1>7, <1>8

LEMMA CharKeeps ==
  ASSUME PrintfInv, NEW c, Char(c)
  PROVE  PrintfInv'
<1> HIDE DEF Directive
<1>1. PICK m \in Formats : m = meant
  BY DEF PrintfInv
<1>2. level \in Int /\ UNCHANGED call /\ phase = "format"
  BY CharReads DEF PrintfInv
<1>3. Formatting
  BY <1>2 DEF PrintfInv, Called, Printing, Over, Aborted, Wild
<1>4. PICK i \in 0 .. Len(m), now \in Reading :
        /\ now = After(m)[i] /\ now.ok /\ Buffered(now.text)
        /\ Between(i, now.args) \/ Within(i, now.args)
  BY <1>1, <1>3 DEF Formatting
<1>5. level >= LogLevel /\ meant' = m /\ level' = level
  BY <1>1, <1>2, <1>3 DEF Formatting, call
<1>6. Formatting' \/ Aborted' \/ Wild'
  <2>1. CASE Between(i, now.args)
    BY <1>1, <1>2, <1>4, <1>5, <2>1, BetweenStep
  <2>2. CASE Within(i, now.args)
    <3>1. PICK args \in {now.args} : TRUE
      OBVIOUS
    <3>2. args = now.args
      BY <3>1
    <3>3. i < Len(m) /\ \E d \in Directive, r \in Seq(Chars) :
            d = m[i + 1] /\ d.conv # "text" /\ r = Rest(m, i + 1) /\ Inside(d, r, args)
      BY <1>1, <2>2, <3>2 DEF Within
    <3>4. PICK d \in Directive, r \in Seq(Chars) :
            d = m[i + 1] /\ d.conv # "text" /\ r = Rest(m, i + 1) /\ Inside(d, r, args)
      BY <3>3
    <3>5. i \in 0 .. Len(m) - 1
      BY <3>3, FormatTyped
    <3>6. args \in Seq(Int) /\ Len(args) >= 4
      BY <1>4, <3>2, <3>4, <3>5, DirectiveRead
    <3>7. Moves(d, r, args)
      BY <3>4, <3>6, InsideStep
    <3>8. CASE phase' = phase /\ Keep /\ Inside(d, r, args)'
      BY <1>1, <1>2, <1>4, <1>5, <3>2, <3>4, <3>5, <3>8, StillWithin
    <3>9. CASE /\ ~ Stops(d, args) /\ phase' = phase /\ state' = "PRINT" /\ format' = r
               /\ list' = Left(args, Takes(d)) /\ Put(Means(d, args))
      <4>1. /\ ~ Stops(d, now.args) /\ phase' = phase /\ state' = "PRINT" /\ format' = Rest(m, i + 1)
            /\ list' = Left(now.args, Takes(d)) /\ Put(Means(d, now.args))
        BY <3>2, <3>4, <3>9
      <4> QED BY <1>1, <1>2, <1>4, <1>5, <3>4, <3>5, <4>1, Passed
    <3>10. /\ i + 1 \in DOMAIN meant' /\ Read(i + 1)' = now /\ meant[i + 1]' = d
      <4>1. i + 1 \in DOMAIN m /\ (i + 1) - 1 = i
        BY <3>5, FormatTyped
      <4> QED BY <1>4, <1>5, <3>4, <4>1 DEF Read
    <3>11. CASE Refused(d, args) /\ phase' = "aborted"
      <4>1. Read(i + 1)'.ok /\ Refused(meant[i + 1]', Read(i + 1)'.args)
        BY <1>4, <3>2, <3>10, <3>11
      <4> QED BY <1>5, <3>10, <3>11, <4>1 DEF Aborted
    <3>12. CASE Lost(d, args) /\ phase' = "wild"
      <4>1. Read(i + 1)'.ok /\ Lost(meant[i + 1]', Read(i + 1)'.args)
        BY <1>4, <3>2, <3>10, <3>12
      <4> QED BY <1>5, <3>10, <3>12, <4>1 DEF Wild
    <3> QED BY <3>7, <3>8, <3>9, <3>11, <3>12 DEF Moves
  <2> QED BY <1>4, <2>1, <2>2
<1> QED BY <1>2, <1>5, <1>6 DEF PrintfInv

LEMMA InitPrintf == Init => PrintfInv
<1> SUFFICES ASSUME Init PROVE PrintfInv
  OBVIOUS
<1>1. meant \in Formats /\ level \in Int
  BY PrintfAssumption DEF Init
<1>2. format = Rest(meant, 0)
  BY <1>1, RestUnfolds DEF Init
<1>3. Buffered(<< >>)
  <2>1. PICK n \in BufSizes : str = [j \in 0 .. n - 1 |-> "old"]
    BY DEF Init
  <2>2. Len(<< >>) = 0
    BY EmptySeq
  <2>3. \A j \in 0 .. n - 1 : ~ (j < Len(<< >>))
    BY <2>2
  <2>4. str = [j \in 0 .. n - 1 |-> IF j < Len(<< >>) /\ j < n - 1 THEN << >>[j + 1] ELSE "old"]
    BY <2>1, <2>3
  <2> QED BY <2>2, <2>4 DEF Buffered, Init
<1> QED BY <1>1, <1>2, <1>3 DEF PrintfInv, Called, Init

LEMMA FilteredKeeps ==
  ASSUME PrintfInv, Filtered
  PROVE  PrintfInv'
<1>1. Called
  BY DEF PrintfInv, Filtered, Formatting, Printing, Over, Aborted, Wild
<1>2. phase' \in {"done", "exited"} /\ level' < LogLevel /\ shown' = << >>
  BY <1>1 DEF Filtered, Called, call
<1>3. Over'
  BY <1>2 DEF Over
<1> QED BY <1>3 DEF PrintfInv, Filtered, call

LEMMA FormattedKeeps ==
  ASSUME PrintfInv, Formatted
  PROVE  PrintfInv'
<1>1. PICK m \in Formats : m = meant
  BY DEF PrintfInv
<1>2. Called /\ level >= LogLevel
  BY DEF PrintfInv, Formatted, Formatting, Printing, Over, Aborted, Wild
<1>3. phase' = "format" /\ level' = level /\ meant' = m /\ UNCHANGED <<format, state, list, str, count>>
  BY <1>1 DEF Formatted, call
<1>4. Len(m) \in Nat /\ 0 \in 0 .. Len(m)
  BY FormatTyped
<1>5. PICK now \in Reading : now = After(m)[0]
  BY <1>4, AfterTyped
<1>6. now = Start /\ now.ok /\ now.text = << >> /\ now.args = Args
  <2>1. now = Start
    BY <1>4, <1>5, AfterSteps
  <2>2. Start.ok /\ Start.text = << >> /\ Start.args = Args
    BY DEF Start
  <2> QED BY <2>1, <2>2
<1>7. Buffered(now.text)'
  <2>1. Buffered(now.text)
    BY <1>2, <1>6 DEF Called
  <2> QED BY <1>3, <2>1 DEF Buffered
<1>8. Between(0, now.args)'
  BY <1>1, <1>2, <1>3, <1>6 DEF Between, Called
<1>9. Formatting'
  BY <1>2, <1>3, <1>4, <1>5, <1>6, <1>7, <1>8 DEF Formatting
<1> QED BY <1>3, <1>9 DEF PrintfInv

(* No conversion ends before its character. *)
LEMMA InsideReads ==
  ASSUME NEW d \in Directive, d.conv # "text", NEW r \in Seq(Chars), NEW args, Inside(d, r, args)
  PROVE  format # << >>
<1> HIDE DEF Directive
<1>1. AtConv(d, r) \in Seq(Chars) /\ AtConv(d, r) # << >>
  BY PartsTyped, Unread DEF AtConv
<1>2. \A T : \A a, b \in Seq(T) : b # << >> => a \o b # << >>
  BY ConcatEqualIffEmpty
<1>3. AtLen(d, r) \in Seq(Chars) /\ AtLen(d, r) # << >>
  BY <1>1, <1>2, PartsTyped, AtTyped DEF AtLen
<1>4. AtPrec(d, r) \in Seq(Chars) /\ AtPrec(d, r) # << >>
  BY <1>2, <1>3, PartsTyped, AtTyped DEF AtPrec
<1>5. AtWidth(d, r) \in Seq(Chars) /\ AtWidth(d, r) # << >>
  BY <1>2, <1>4, PartsTyped, AtTyped DEF AtWidth
<1>6. FlagChars \subseteq Chars /\ Digits(10) \subseteq Chars
  BY DecimalDigits DEF FlagChars, Chars
<1>7. \A q \in Seq(FlagChars) : q \o AtWidth(d, r) # << >>
  <2> TAKE q \in Seq(FlagChars)
  <2>1. q \in Seq(Chars)
    BY <1>6, SeqMonotonic
  <2> QED BY <1>2, <1>5, <2>1
<1>8. \A q \in Seq(Digits(10)) : q \o AtPrec(d, r) # << >>
  <2> TAKE q \in Seq(Digits(10))
  <2>1. q \in Seq(Chars)
    <3> HIDE DEF Digits
    <3> QED BY <1>6, SeqMonotonic
  <2> QED BY <1>2, <1>4, <2>1
<1>9. CASE FlagsLeft(d, r, args)
  BY <1>7, <1>9 DEF FlagsLeft
<1>10. CASE WidthLeft(d, r, args)
  BY <1>8, <1>10 DEF WidthLeft
<1>11. CASE PrecLeft(d, r, args)
  BY <1>4, <1>11 DEF PrecLeft
<1>12. CASE PrecRead(d, r, args)
  <2>1. d.prec \in Chars
    BY <1>12, DirectiveTyped DEF PrecRead, Precisions, Chars
  <2>2. <<d.prec>> \o AtLen(d, r) # << >>
    BY <1>3, <2>1, Unread
  <2> QED BY <1>12, <2>2 DEF PrecRead
<1>13. CASE PrecLost(d, r)
  BY <1>3, <1>13 DEF PrecLost
<1>14. CASE LenLeft(d, r, args)
  BY <1>3, <1>14 DEF LenLeft
<1>15. CASE LenHalf(d, r, args)
  <2>1. Half(d) \in Chars
    BY DEF Half, Chars
  <2>2. <<Half(d)>> \o AtConv(d, r) # << >>
    BY <1>1, <2>1, Unread
  <2> QED BY <1>15, <2>2 DEF LenHalf
<1>16. CASE ConvLeft(d, r, args)
  BY <1>1, <1>16 DEF ConvLeft
<1> QED BY <1>9, <1>10, <1>11, <1>12, <1>13, <1>14, <1>15, <1>16 DEF Inside

LEMMA RestReads ==
  ASSUME NEW m \in Formats, NEW i \in 0 .. Len(m) - 1
  PROVE  Rest(m, i) # << >>
<1> HIDE DEF Directive
<1>1. i + 1 \in 1 .. Len(m) /\ i + 1 \in 0 .. Len(m)
  BY FormatTyped
<1> DEFINE d == m[i + 1]
           r == Rest(m, i + 1)
<1>2. d \in Directive /\ r \in Seq(Chars) /\ Rest(m, i) = Spell(d) \o r
  BY <1>1, FormatTyped, RestUnfolds
<1> HIDE DEF d, r
<1>3. CASE d.conv = "text"
  BY <1>2, <1>3, PartsTyped, Unread DEF Spell
<1>4. CASE d.conv # "text"
  <2> DEFINE t == d.flags \o AtWidth(d, r)
  <2>1. "%" \in Chars /\ t \in Seq(Chars)
    BY <1>2, <1>4, AtTyped, PartsTyped, ConcatProperties DEF Chars
  <2>2. Rest(m, i) = <<"%">> \o t
    BY <1>2, <1>4, SpellUnfolds
  <2> HIDE DEF t
  <2> QED BY <2>1, <2>2, Unread
<1> QED BY <1>3, <1>4

LEMMA EndKeeps ==
  ASSUME PrintfInv, End
  PROVE  PrintfInv'
<1> HIDE DEF Directive
<1>1. PICK m \in Formats : m = meant
  BY DEF PrintfInv
<1>2. Formatting
  BY DEF PrintfInv, End, Called, Printing, Over, Aborted, Wild
<1>3. PICK i \in 0 .. Len(m), now \in Reading :
        /\ now = After(m)[i] /\ now.ok /\ Buffered(now.text)
        /\ Between(i, now.args) \/ Within(i, now.args)
  BY <1>1, <1>2 DEF Formatting
<1>4. format = << >> /\ phase' = "print" /\ level' = level /\ meant' = m /\ list' = list /\ level >= LogLevel
  BY <1>1, <1>2 DEF End, call, Formatting
<1>5. Between(i, now.args)
  <2>1. SUFFICES ASSUME Within(i, now.args) PROVE FALSE
    BY <1>3
  <2>2. \E d \in Directive, r \in Seq(Chars) : d.conv # "text" /\ Inside(d, r, now.args)
    BY <2>1 DEF Within
  <2> QED BY <1>4, <2>2, InsideReads
<1>6. i = Len(m)
  <2>1. SUFFICES ASSUME i # Len(m) PROVE FALSE
    OBVIOUS
  <2>2. i \in 0 .. Len(m) - 1
    BY <2>1, FormatTyped
  <2> QED BY <1>1, <1>4, <1>5, <2>2, RestReads DEF Between
<1>7. Ended(now.text)'
  <2>1. now.text \in Seq(Shown)
    BY DEF Reading
  <2> QED BY <1>3, <2>1, BufferEnds
<1>8. Meaning' = now
  BY <1>3, <1>4, <1>6 DEF Meaning
<1>9. list' = now.args
  BY <1>4, <1>5 DEF Between
<1>10. Printing'
  BY <1>3, <1>4, <1>7, <1>8, <1>9 DEF Printing
<1> QED BY <1>4, <1>10 DEF PrintfInv

LEMMA ShowMessageKeeps ==
  ASSUME PrintfInv, ShowMessage
  PROVE  PrintfInv'
<1>1. Printing
  BY DEF PrintfInv, ShowMessage, Called, Formatting, Over, Aborted, Wild
<1>2. PICK all \in Reading : all = Meaning /\ Ended(all.text)
  BY <1>1 DEF Printing
<1>3. all.text \in Seq(Shown)
  BY DEF Reading
<1>4. [i \in 1 .. Min({i \in DOMAIN str : str[i] = "NUL"}) |-> str[i - 1]]
        = SubSeq(all.text, 1, Min({Len(all.text), Cardinality(DOMAIN str) - 1}))
  BY <1>2, <1>3, EndedShown
<1>5. shown' = SubSeq(all.text, 1, Min({Len(all.text), Cardinality(DOMAIN str) - 1}))
  BY <1>4 DEF ShowMessage
<1>6. phase' \in {"done", "exited"} /\ meant' = meant /\ level' = level /\ str' = str
  BY DEF ShowMessage
<1>7. Meaning' = all
  BY <1>2, <1>6 DEF Meaning
<1>8. level' \in Int /\ ~ (level' < LogLevel)
  <2>1. level \in Int /\ LogLevel \in Int /\ level >= LogLevel
    BY <1>1, PrintfAssumption DEF Printing, PrintfInv
  <2> QED BY <1>6, <2>1
<1>9. Over'
  BY <1>5, <1>6, <1>7, <1>8 DEF Over
<1> QED BY <1>6, <1>9 DEF PrintfInv

LEMMA StutterKeeps ==
  ASSUME PrintfInv, UNCHANGED vars
  PROVE  PrintfInv'
<1> HIDE DEF Directive
<1>1. UNCHANGED <<meant, format, state, nflags, width, size, list, str, count, level, phase, shown>>
  BY DEF vars
<1>2. PICK m \in Formats : m = meant
  BY DEF PrintfInv
<1>3. ASSUME NEW t, Buffered(t) PROVE Buffered(t)'
  BY <1>1, <1>3 DEF Buffered
<1>4. ASSUME NEW t, Ended(t) PROVE Ended(t)'
  BY <1>1, <1>4 DEF Ended
<1>5. ASSUME NEW d, NEW r, NEW args, Inside(d, r, args) PROVE Inside(d, r, args)'
  <2>1. FlagsLeft(d, r, args) => FlagsLeft(d, r, args)'
    BY <1>1 DEF FlagsLeft
  <2>2. WidthLeft(d, r, args) => WidthLeft(d, r, args)'
    BY <1>1 DEF WidthLeft
  <2>3. PrecLeft(d, r, args) => PrecLeft(d, r, args)'
    BY <1>1 DEF PrecLeft, Known
  <2>4. PrecRead(d, r, args) => PrecRead(d, r, args)'
    BY <1>1 DEF PrecRead, Known
  <2>5. PrecLost(d, r) => PrecLost(d, r)'
    BY <1>1 DEF PrecLost
  <2>6. LenLeft(d, r, args) => LenLeft(d, r, args)'
    BY <1>1 DEF LenLeft, Known
  <2>7. LenHalf(d, r, args) => LenHalf(d, r, args)'
    BY <1>1 DEF LenHalf, Known
  <2>8. ConvLeft(d, r, args) => ConvLeft(d, r, args)'
    BY <1>1 DEF ConvLeft, Known
  <2> QED BY <1>5, <2>1, <2>2, <2>3, <2>4, <2>5, <2>6, <2>7, <2>8 DEF Inside
<1>6. CASE Called
  <2>1. Buffered(<< >>)'
    BY <1>3, <1>6 DEF Called
  <2> QED BY <1>1, <1>2, <1>6, <2>1 DEF Called, PrintfInv
<1>7. CASE Formatting
  <2>1. PICK i \in 0 .. Len(m), now \in Reading :
          /\ now = After(m)[i] /\ now.ok /\ Buffered(now.text)
          /\ Between(i, now.args) \/ Within(i, now.args)
    BY <1>2, <1>7 DEF Formatting
  <2>2. Buffered(now.text)'
    BY <1>3, <2>1
  <2>3. Between(i, now.args) => Between(i, now.args)'
    BY <1>1 DEF Between
  <2>4. Within(i, now.args) => Within(i, now.args)'
    <3>1. SUFFICES ASSUME Within(i, now.args) PROVE Within(i, now.args)'
      OBVIOUS
    <3>2. PICK args \in {now.args} : TRUE
      OBVIOUS
    <3>3. PICK d \in Directive, r \in Seq(Chars) :
            d = m[i + 1] /\ d.conv # "text" /\ r = Rest(m, i + 1) /\ Inside(d, r, args)
      BY <1>2, <3>1, <3>2 DEF Within
    <3>4. Inside(d, r, args)'
      BY <1>5, <3>3
    <3>5. Within(i, args)'
      BY <1>1, <1>2, <3>1, <3>3, <3>4 DEF Within
    <3> QED BY <3>2, <3>5
  <2> QED BY <1>1, <1>2, <1>7, <2>1, <2>2, <2>3, <2>4 DEF Formatting, PrintfInv
<1>8. CASE Printing
  <2>1. PICK all \in Reading : all = Meaning /\ all.ok /\ list = all.args /\ Ended(all.text)
    BY <1>8 DEF Printing
  <2>2. Ended(all.text)' /\ Meaning' = all
    BY <1>1, <1>4, <2>1 DEF Meaning
  <2> QED BY <1>1, <1>2, <1>8, <2>1, <2>2 DEF Printing, PrintfInv
<1>9. Meaning' = Meaning
  BY <1>1 DEF Meaning
<1>10. CASE Over
  BY <1>1, <1>2, <1>9, <1>10 DEF Over, PrintfInv
<1>11. CASE Aborted
  BY <1>1, <1>2, <1>11 DEF Aborted, Read, PrintfInv
<1>12. CASE Wild
  BY <1>1, <1>2, <1>12 DEF Wild, Read, PrintfInv
<1> QED BY <1>6, <1>7, <1>8, <1>10, <1>11, <1>12 DEF PrintfInv

LEMMA NextPrintf == PrintfInv /\ [Next]_vars => PrintfInv'
<1> SUFFICES ASSUME PrintfInv, [Next]_vars PROVE PrintfInv'
  OBVIOUS
<1>1. CASE Filtered
  BY <1>1, FilteredKeeps
<1>2. CASE Formatted
  BY <1>2, FormattedKeeps
<1>3. ASSUME NEW c \in Chars, Char(c) PROVE PrintfInv'
  BY <1>3, CharKeeps
<1>4. CASE End
  BY <1>4, EndKeeps
<1>5. CASE ShowMessage
  BY <1>5, ShowMessageKeeps
<1>6. CASE UNCHANGED vars
  BY <1>6, StutterKeeps
<1> QED BY <1>1, <1>2, <1>3, <1>4, <1>5, <1>6 DEF Next

LEMMA PrintfHolds == PrintfInv => FormatsAsMeant /\ MessageIsShown
<1> SUFFICES ASSUME PrintfInv PROVE FormatsAsMeant /\ MessageIsShown
  OBVIOUS
<1>1. ASSUME phase = "print"
      PROVE  /\ Meaning.ok /\ list = Meaning.args /\ count = Len(Meaning.text)
             /\ \A i \in DOMAIN str : str[i] \notin {"old", "NUL"} => str[i] = Meaning.text[i + 1]
             /\ \E i \in DOMAIN str : str[i] = "NUL"
  <2>1. Printing
    BY <1>1 DEF PrintfInv, Called, Formatting, Over, Aborted, Wild
  <2>2. PICK all \in Reading : all = Meaning /\ all.ok /\ list = all.args /\ Ended(all.text)
    BY <2>1 DEF Printing
  <2>3. all.text \in Seq(Shown)
    BY DEF Reading
  <2>4. /\ \E i \in DOMAIN str : str[i] = "NUL"
        /\ \A i \in DOMAIN str : str[i] \notin {"old", "NUL"} => str[i] = all.text[i + 1]
    BY <2>2, <2>3, EndedShown
  <2> HIDE DEF Meaning
  <2> QED BY <2>2, <2>4 DEF Ended
<1>2. ASSUME phase = "aborted" PROVE Aborted
  BY <1>2 DEF PrintfInv, Called, Formatting, Printing, Over, Wild
<1>4. ASSUME phase = "wild" PROVE Wild
  BY <1>4 DEF PrintfInv, Called, Formatting, Printing, Over, Aborted
<1>3. ASSUME phase \in {"done", "exited"} PROVE Over
  BY <1>3 DEF PrintfInv, Called, Formatting, Printing, Aborted, Wild
<1> QED BY <1>1, <1>2, <1>3, <1>4 DEF FormatsAsMeant, MessageIsShown, Over, Aborted, Wild

(* FormatsAsMeant: for every format of directives, the formatter puts what  *)
(* the directives mean, every number with the value of its type, takes the *)
(* arguments they take, aborts only at what it refuses, and leaves its     *)
(* buffers only for the least number of 64 bits.                           *)
THEOREM FormatsHold == Spec => []FormatsAsMeant
<1>1. Init => PrintfInv
  BY InitPrintf
<1>2. PrintfInv /\ [Next]_vars => PrintfInv'
  BY NextPrintf
<1>3. PrintfInv => FormatsAsMeant
  BY PrintfHolds
<1> QED BY <1>1, <1>2, <1>3, PTL DEF Spec

(* MessageIsShown: for a buffer of any length, what is printed is the       *)
(* message or its beginning that fits, or nothing below the log level.     *)
THEOREM MessagesShown == Spec => []MessageIsShown
<1>1. Init => PrintfInv
  BY InitPrintf
<1>2. PrintfInv /\ [Next]_vars => PrintfInv'
  BY NextPrintf
<1>3. PrintfInv => MessageIsShown
  BY PrintfHolds
<1> QED BY <1>1, <1>2, <1>3, PTL DEF Spec
================================================================================
