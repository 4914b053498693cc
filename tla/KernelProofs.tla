----------------------------- MODULE KernelProofs -----------------------------
(***************************************************************************)
(* What is true of the loader, of the kernel that it hands over to and of   *)
(* the ROM data that goes with it, for every size of the address space and  *)
(* every setup:                                                            *)
(*   - a local selector reaches the bytes of its segment only;              *)
(*   - the ranges that the loader maps do not overlap;                      *)
(*   - the storage of the first thread is its own;                          *)
(*   - a call of a function that a section names comes to the emulator;     *)
(*   - firmware reads the stream that the ROM left, and finds its blocks.   *)
(* Loader and kernel are one specification, KernelSpec: an access happens   *)
(* while firmware runs, and what was loaded does not change by then.        *)
(***************************************************************************)
EXTENDS Kernel, Snowball, SequenceTheorems, WellFoundedInduction, TLAPS

Segment == [base : Address, limit : Address]

KernelInv ==
  /\ setup \in Setups
  /\ module.segments \in Seq(Segment)
  /\ access # NoAccess => stage \in {"running", "crashed"}
  /\ InSegment

-----------------------------------------------------------------------------
(* Addresses that wrap around. *)

LEMMA ModSmall ==
  ASSUME NEW w \in Nat \ {0}, NEW x \in 0 .. w - 1
  PROVE  x % w = x
OBVIOUS

LEMMA ModOnce ==
  ASSUME NEW w \in Nat \ {0}, NEW x \in w .. 2 * w - 1
  PROVE  x % w = x - w
OBVIOUS

LEMMA ModNegative ==
  ASSUME NEW w \in Nat \ {0}, NEW x \in -w .. -1
  PROVE  x % w = x + w
OBVIOUS

LEMMA ModUnique ==
  ASSUME NEW q \in Nat, NEW w \in Nat \ {0}, NEW r \in 0 .. w - 1
  PROVE  (q * w + r) % w = r
OBVIOUS

LEMMA ModLess ==
  ASSUME NEW w \in Nat \ {0}, NEW x \in Nat
  PROVE  (x + w) % w = x % w
<1> DEFINE q == x \div w
           r == x % w
<1>1. q \in Nat /\ r \in 0 .. w - 1 /\ x = q * w + r
  OBVIOUS
<1> HIDE DEF q, r
<1>2. q + 1 \in Nat /\ x + w = (q + 1) * w + r
  BY <1>1
<1>3. (q * w + r) % w = r /\ ((q + 1) * w + r) % w = r
  BY <1>1, <1>2, ModUnique
<1> QED BY <1>1, <1>2, <1>3

LEMMA ModSum ==
  ASSUME NEW w \in Nat \ {0}, NEW x \in 0 .. 2 * w - 1, NEW k \in Nat
  PROVE  ((x % w) + k) % w = (x + k) % w
<1>1. CASE x < w
  BY <1>1, ModSmall
<1>2. CASE x >= w
  <2>1. x \in w .. 2 * w - 1 /\ x - w + k \in Nat
    BY <1>2
  <2>2. x % w = x - w
    BY <2>1, ModOnce
  <2>3. ((x - w + k) + w) % w = (x - w + k) % w
    BY <2>1, ModLess
  <2>4. (x - w + k) + w = x + k
    BY <2>1
  <2> QED BY <2>2, <2>3, <2>4
<1> QED BY <1>1, <1>2

(* What the check lets pass. *)
LEMMA InsideLimit ==
  ASSUME NEW w \in Nat \ {0}, NEW base \in 0 .. w - 1, NEW limit \in 0 .. w - 1,
         NEW offset \in 0 .. (w \div 2) - 1, NEW count \in -(w \div 2) .. (w \div 2) - 1,
         count % w < w \div 2, (offset + count) % w <= limit
  PROVE  {(((base + offset) % w) + k) % w : k \in 0 .. (count % w) - 1}
           \subseteq {(base + k) % w : k \in 0 .. limit - 1}
<1>1. w \div 2 \in Nat /\ 2 * (w \div 2) <= w /\ w \div 2 <= w
  OBVIOUS
<1>2. count >= 0
  <2>1. SUFFICES ASSUME count < 0 PROVE FALSE
    OBVIOUS
  <2>2. count \in -w .. -1
    BY <1>1, <2>1
  <2>3. count % w = count + w
    BY <2>2, ModNegative
  <2> QED BY <1>1, <2>1, <2>3
<1>3. count % w = count
  <2>1. count \in 0 .. w - 1
    BY <1>1, <1>2
  <2> QED BY <2>1, ModSmall
<1>4. offset + count <= limit
  <2>1. offset + count \in 0 .. w - 1
    BY <1>1, <1>2
  <2>2. (offset + count) % w = offset + count
    BY <2>1, ModSmall
  <2> QED BY <2>2
<1>5. ASSUME NEW k \in 0 .. count - 1
      PROVE  (((base + offset) % w) + k) % w \in {(base + j) % w : j \in 0 .. limit - 1}
  <2>1. base + offset \in 0 .. 2 * w - 1 /\ k \in Nat
    BY <1>1
  <2>2. (((base + offset) % w) + k) % w = (base + offset + k) % w
    BY <2>1, ModSum
  <2>3. offset + k \in 0 .. limit - 1 /\ base + offset + k = base + (offset + k)
    BY <1>2, <1>4
  <2> QED BY <2>2, <2>3
<1> QED BY <1>3, <1>5

-----------------------------------------------------------------------------
(* The segments come from the manifest. *)

LEMMA LaidSegments ==
  ASSUME LoaderAssumption, NEW st \in Setups, ~ Lacks(st.mod, Needs.mod), ~ Overcounts(st.mod)
  PROVE  Laid(st.mod).segments \in Seq(Segment)
<1> DEFINE met == st.mod.met
           e == Ext(met, 8)
           Exts == ProcessExt \cup ThreadsExt \cup MmioExt \cup ModAttrExt \cup SharedLibExt \cup LockedExt
<1>1. /\ met \in Seq(Exts)
      /\ \A i \in DOMAIN met : met[i].type = 8 => Counted(met[i], Len(met[i].ranges), MmioSize)
  BY DEF LoaderAssumption, IsSection
<1>2. Needs.mod = <<10, 6, 5, 8>>
  BY DEF Needs
<1>3. Has(met, 8)
  BY <1>2 DEF Lacks
<1>4. PICK i \in DOMAIN met : met[i].type = 8 /\ e = met[i]
  <2>1. Comes(met, 8) # {} /\ (CHOOSE i \in Comes(met, 8) : TRUE) \in Comes(met, 8)
    BY <1>3 DEF Has
  <2> QED BY <2>1 DEF Ext, Comes
<1>5. e \in MmioExt
  <2> HIDE DEF Exts, met, e
  <2>1. met[i] \in Exts
    BY <1>1
  <2> QED BY <1>4, <2>1
        DEF Exts, ProcessExt, ThreadsExt, MmioExt, ModAttrExt, SharedLibExt, LockedExt
<1>6. e.ranges \in Seq(Segment)
  BY <1>5 DEF MmioExt, Segment
<1>7. e.length >= ManExt
  BY <1>5 DEF Overcounts, MmioExt, ManExt
<1>8. (e.length - ManExt) \div MmioSize = Len(e.ranges)
  <2>1. e.length = ManExt + Len(e.ranges) * MmioSize
    BY <1>1, <1>4, <1>7 DEF Counted, ManExt
  <2>2. Len(e.ranges) \in Nat
    BY <1>6
  <2>3. \A n \in Nat : (8 + n * 12 - 8) \div 12 = n
    OBVIOUS
  <2> HIDE DEF e
  <2>4. e.length - ManExt = 8 + Len(e.ranges) * 12 - 8 /\ MmioSize = 12
    BY <2>1, <2>2 DEF ManExt, MmioSize
  <2>5. (8 + Len(e.ranges) * 12 - 8) \div 12 = Len(e.ranges)
    BY <2>2, <2>3
  <2> QED BY <2>4, <2>5
<1>9. SubSeq(e.ranges, 1, Len(e.ranges)) \in Seq(Segment)
  <2> HIDE DEF e
  <2> QED BY <1>6
<1> QED BY <1>8, <1>9 DEF Laid, ModSegments

-----------------------------------------------------------------------------
(* The steps. *)

LEMMA KernelStart == ASSUME KernelInit PROVE KernelInv
<1>1. NoModule.segments \in Seq(Segment)
  BY DEF NoModule
<1>2. InSegment
  BY DEF KernelInit, NoAccess, InSegment, IsLocal
<1> QED BY <1>1, <1>2 DEF KernelInv, KernelInit, LoaderInit

LEMMA LoadStep ==
  ASSUME LoaderAssumption, KernelInv, LoaderNext, UNCHANGED kernel
  PROVE  KernelInv'
<1> USE DEF KernelInv
<1>1. stage \in {"rom", "lib", "mod"} /\ setup' = setup
  <2>1. CASE LoadRom
    BY <2>1 DEF LoadRom, Map, End
  <2>2. CASE LoadSyslib
    BY <2>2 DEF LoadSyslib, Map, End
  <2>3. CASE LoadModule
    BY <2>3 DEF LoadModule, Map, End
  <2>4. CASE InstallThunk
    BY <2>4 DEF InstallThunk, InsertRec, Insert, End
  <2>5. CASE Loaded
    BY <2>5 DEF Loaded
  <2> QED BY <2>1, <2>2, <2>3, <2>4, <2>5 DEF LoaderNext
<1>2. access = NoAccess /\ access' = NoAccess
  BY <1>1 DEF kernel
<1>3. InSegment'
  BY <1>2 DEF InSegment, NoAccess, IsLocal
<1>4. module.segments' \in Seq(Segment)
  <2>1. CASE LoadRom
    BY <2>1 DEF LoadRom, Map, End
  <2>2. CASE LoadSyslib
    BY <2>2 DEF LoadSyslib, Map, End
  <2>3. CASE LoadModule
    <3>1. CASE module' = module
      BY <3>1
    <3>2. CASE module' # module
      <4>1. ~ Lacks(setup.mod, Needs.mod) /\ ~ Overcounts(setup.mod) /\ module' = Laid(setup.mod)
        BY <2>3, <3>2 DEF LoadModule, Map, End
      <4> QED BY <4>1, LaidSegments
    <3> QED BY <3>1, <3>2
  <2>4. CASE InstallThunk
    BY <2>4 DEF InstallThunk, InsertRec, Insert, End
  <2>5. CASE Loaded
    BY <2>5 DEF Loaded
  <2> QED BY <2>1, <2>2, <2>3, <2>4, <2>5 DEF LoaderNext
<1> QED BY <1>1, <1>2, <1>3, <1>4

LEMMA StillInSegment ==
  ASSUME KernelInv, access' = access, module' = module, setup' = setup,
         stage' \in {stage, "crashed"} \/ access = NoAccess
  PROVE  KernelInv'
BY DEF KernelInv, InSegment

LEMMA SegStep ==
  ASSUME LoaderAssumption, KernelAssumption, KernelInv,
         NEW op, NEW seg \in Selectors, NEW offset \in Offsets,
         NEW count \in -(Space \div 2) .. (Space \div 2) - 1, SegAccess(op, seg, offset, count)
  PROVE  KernelInv'
<1>1. CASE Crashes
  <2>1. access' = access /\ module' = module /\ setup' = setup /\ stage' = "crashed"
    BY <1>1 DEF Crashes, End, kernel
  <2> QED BY <2>1, StillInSegment
<1>2. CASE ~ Crashes
  <2>1. /\ ~ (IsLocal(seg) /\ Fault(seg, offset, count))
        /\ UNCHANGED loading /\ stage = "running"
        /\ \E lad \in Linear(seg, offset) :
             access' = [seg |-> seg, offset |-> offset, count |-> count % Space, lad |-> lad]
    BY <1>2 DEF SegAccess, Calls
  <2>2. PICK lad \in Linear(seg, offset) :
          access' = [seg |-> seg, offset |-> offset, count |-> count % Space, lad |-> lad]
    BY <2>1
  <2>3. module' = module /\ setup' = setup /\ stage' = "running"
    BY <2>1 DEF loading
  <2>4. InSegment'
    <3>1. SUFFICES ASSUME IsLocal(seg), offset >= 0, count % Space < Space \div 2
                   PROVE  LET s == module.segments[Index(seg)]
                          IN  {(lad + k) % Space : k \in 0 .. (count % Space) - 1}
                                \subseteq {(s.base + k) % Space : k \in 0 .. s.limit - 1}
      BY <2>2, <2>3 DEF InSegment
    <3> DEFINE s == module.segments[Index(seg)]
    <3>2. seg \in Nat /\ Index(seg) \in Nat /\ Index(seg) >= 1
      BY DEF KernelAssumption, Index
    <3>3. Index(seg) <= Len(module.segments) /\ (offset + count) % Space <= s.limit
      <4>1. Index(seg) <= Len(module.segments) /\ ~ (offset + count) % Space > s.limit
        BY <2>1, <3>1 DEF Fault
      <4>2. module.segments \in Seq(Segment)
        BY DEF KernelInv
      <4>3. s \in Segment
        <5> HIDE DEF Segment
        <5> QED BY <3>2, <4>1, <4>2
      <4>4. Space \in Nat \ {0} /\ s.limit \in Nat /\ offset + count \in Int
        BY <4>3 DEF LoaderAssumption, KernelAssumption, Segment, Address
      <4>5. (offset + count) % Space \in Nat
        BY <4>4
      <4> HIDE DEF s
      <4> QED BY <4>1, <4>4, <4>5
    <3>4. s \in Segment
      <4> HIDE DEF Segment
      <4> QED BY <3>2, <3>3 DEF KernelInv
    <3>5. lad = (s.base + offset) % Space
      BY <3>1 DEF Linear
    <3>6. Space \in Nat \ {0} /\ s.base \in 0 .. Space - 1 /\ s.limit \in 0 .. Space - 1
      BY <3>4 DEF Segment, Address, LoaderAssumption
    <3>7. offset \in 0 .. (Space \div 2) - 1
      BY <3>1 DEF KernelAssumption
    <3> HIDE DEF s
    <3>8. {(((s.base + offset) % Space) + k) % Space : k \in 0 .. (count % Space) - 1}
            \subseteq {(s.base + k) % Space : k \in 0 .. s.limit - 1}
      BY <3>1, <3>3, <3>6, <3>7, InsideLimit
    <3> QED BY <3>5, <3>8 DEF s
  <2> QED BY <2>2, <2>3, <2>4 DEF KernelInv
<1> QED BY <1>1, <1>2

LEMMA KernelStep ==
  ASSUME LoaderAssumption, KernelAssumption, KernelInv, [KernelNext]_<<loading, kernel>>
  PROVE  KernelInv'
<1>1. CASE Load
  BY <1>1, LoadStep DEF Load
<1>2. CASE StartThread
  <2>1. access' = access /\ module' = module /\ setup' = setup /\ stage = "devices"
    BY <1>2 DEF StartThread, End
  <2>2. access = NoAccess
    BY <2>1 DEF KernelInv
  <2> QED BY <2>1, <2>2, StillInSegment
<1>3. CASE CallTls
  BY <1>3, StillInSegment DEF CallTls, GetTlsPtr, loading
<1>4. CASE CallSeg
  <2>1. PICK op \in Writes \cup Reads, seg \in Selectors, offset \in Offsets :
          \E count \in Sizes(op) : SegAccess(op, seg, offset, count)
    BY <1>4 DEF CallSeg
  <2>2. PICK count \in Sizes(op) : SegAccess(op, seg, offset, count)
    BY <2>1
  <2>3. count \in -(Space \div 2) .. (Space \div 2) - 1
    <3>1. Space \in Nat /\ 4 < Space \div 2
      BY DEF LoaderAssumption, KernelAssumption
    <3>2. {1, 2, 4} \subseteq -(Space \div 2) .. (Space \div 2) - 1
      BY <3>1
    <3>3. count \in {1, 2, 4} \cup Counts
      BY <2>2 DEF Sizes
    <3> QED BY <3>2, <3>3 DEF KernelAssumption
  <2> QED BY <2>2, <2>3, SegStep
<1>5. CASE CallSync
  BY <1>5, StillInSegment DEF CallSync, SyncList, loading
<1>6. CASE CallLock
  BY <1>6, StillInSegment DEF CallLock, DmaLockEx, Crashes, End, loading, kernel
<1>7. CASE KeepTable
  BY <1>7, StillInSegment DEF KeepTable, Grant, loading
<1>8. CASE UNCHANGED <<loading, kernel>>
  BY <1>8, StillInSegment DEF loading, kernel
<1> QED BY <1>1, <1>2, <1>3, <1>4, <1>5, <1>6, <1>7, <1>8 DEF KernelNext

(* Firmware comes to no byte outside of the segment of the local selector   *)
(* that it uses (krnl_deref_seg), as long as offset and count do not wrap.  *)
THEOREM SegmentsConfine == ASSUME LoaderAssumption, KernelAssumption PROVE KernelSpec => []InSegment
<1>1. KernelInit => KernelInv
  BY KernelStart
<1>2. KernelInv /\ [KernelNext]_<<loading, kernel>> => KernelInv'
  BY KernelStep
<1>3. KernelInv => InSegment
  BY DEF KernelInv
<1> QED BY <1>1, <1>2, <1>3, PTL DEF KernelSpec

-----------------------------------------------------------------------------
(* The layout of the images (module Loader): the ranges that are mapped do   *)
(* not overlap, and the places of thread storage are in the image.          *)
(* The facts about numbers that it takes come first.                        *)


LEMMA Least ==
  ASSUME NEW T \in SUBSET Nat, T # {}
  PROVE  \E m \in T : \A n \in T : m <= n
<1> DEFINE R == {ss \in Nat \X Nat : ss[1] < ss[2]}
<1>1. IsWellFoundedOn(R, Nat)
  BY NatLessThanWellFounded DEF OpToRel
<1>2. PICK m \in T : \A n \in T : ~ (<<n, m>> \in R)
  <2> HIDE DEF R
  <2> QED BY <1>1, WFMin
<1>3. \A n \in T : m <= n
  <2> TAKE n \in T
  <2>1. <<n, m>> \in Nat \X Nat /\ <<n, m>>[1] = n /\ <<n, m>>[2] = m
    OBVIOUS
  <2>2. ~ (n < m)
    BY <1>2, <2>1
  <2> QED BY <2>2
<1> QED BY <1>3

(* The recursive function of StackTop is one: stack by stack it is put      *)
(* together.                                                               *)
TopsTo(n, base, sizes, f) ==
  f = [k \in 0 .. n |-> IF k = 0 THEN base ELSE (f[k - 1] + Page + sizes[k]) % Space]

LEMMA StackTopUnfolds ==
  ASSUME NEW base, NEW sizes, Len(sizes) \in Nat
  PROVE  TopsTo(Len(sizes), base, sizes, StackTop(base, sizes))
<1> DEFINE Stuck == {n \in Nat : ~ \E f : TopsTo(n, base, sizes, f)}
<1>1. Stuck = {}
  <2>1. SUFFICES ASSUME Stuck # {} PROVE FALSE
    OBVIOUS
  <2>2. PICK m \in Stuck : \A n \in Stuck : m <= n
    <3> HIDE DEF Stuck
    <3> QED BY <2>1, Least, Stuck \in SUBSET Nat DEF Stuck
  <2>3. CASE m = 0
    <3> DEFINE f == [k \in 0 .. 0 |-> base]
    <3>1. \A k \in 0 .. 0 : k = 0
      OBVIOUS
    <3>2. TopsTo(0, base, sizes, f)
      BY <3>1 DEF TopsTo
    <3> QED BY <2>2, <2>3, <3>2
  <2>4. CASE m # 0
    <3>1. m - 1 \in Nat /\ m - 1 \notin Stuck
      BY <2>2, <2>4
    <3>2. PICK f : TopsTo(m - 1, base, sizes, f)
      BY <3>1
    <3> DEFINE g == [k \in 0 .. m |-> IF k = m THEN (f[m - 1] + Page + sizes[m]) % Space ELSE f[k]]
    <3>3. \A k \in 0 .. m - 1 : g[k] = f[k]
      BY <2>2
    <3>4. \A k \in 0 .. m - 1 :
            f[k] = IF k = 0 THEN base ELSE (f[k - 1] + Page + sizes[k]) % Space
      BY <3>2 DEF TopsTo
    <3>5. \A k \in 0 .. m : g[k] = IF k = 0 THEN base ELSE (g[k - 1] + Page + sizes[k]) % Space
      <4> TAKE k \in 0 .. m
      <4>1. CASE k = m
        <5>1. g[k - 1] = f[m - 1] /\ k # 0
          BY <4>1, <3>3, <2>2, <2>4
        <5>2. g[k] = (f[m - 1] + Page + sizes[m]) % Space
          BY <4>1
        <5> QED BY <5>1, <5>2, <4>1
      <4>2. CASE k # m
        <5>1. k \in 0 .. m - 1 /\ (k # 0 => k - 1 \in 0 .. m - 1)
          BY <4>2, <2>2
        <5>2. g[k] = f[k] /\ (k # 0 => g[k - 1] = f[k - 1])
          BY <5>1, <3>3
        <5> HIDE DEF g
        <5> QED BY <5>1, <5>2, <3>4
      <4> QED BY <4>1, <4>2
    <3>6. TopsTo(m, base, sizes, g)
      <4>1. g = [k \in 0 .. m |-> g[k]]
        OBVIOUS
      <4> HIDE DEF g
      <4> QED BY <4>1, <3>5 DEF TopsTo
    <3> QED BY <2>2, <3>6
  <2> QED BY <2>3, <2>4
<1>2. \E f : TopsTo(Len(sizes), base, sizes, f)
  BY <1>1
<1>3. TopsTo(Len(sizes), base, sizes, CHOOSE f : TopsTo(Len(sizes), base, sizes, f))
  BY <1>2
<1>4. StackTop(base, sizes) = CHOOSE f : TopsTo(Len(sizes), base, sizes, f)
  BY DEF StackTop, TopsTo
<1> QED BY <1>3, <1>4

-----------------------------------------------------------------------------
(* What climbs at every step climbs from any place to any later one. *)
LEMMA Climbs ==
  ASSUME NEW n \in Nat, NEW t \in [0 .. n -> Int], \A k \in 1 .. n : t[k - 1] <= t[k]
  PROVE  \A i, j \in 0 .. n : i <= j => t[i] <= t[j]
<1> SUFFICES ASSUME NEW i \in 0 .. n PROVE \A j \in 0 .. n : i <= j => t[i] <= t[j]
  OBVIOUS
<1> DEFINE Below == {j \in 0 .. n : i <= j /\ ~ (t[i] <= t[j])}
<1>1. SUFFICES ASSUME Below # {} PROVE FALSE
  OBVIOUS
<1>2. Below \in SUBSET Nat
  OBVIOUS
<1>3. PICK m \in Below : \A j \in Below : m <= j
  <2> HIDE DEF Below
  <2> QED BY <1>1, <1>2, Least
<1>4. m # i
  BY <1>3
<1>5. m - 1 \in 0 .. n /\ i <= m - 1 /\ m \in 1 .. n
  BY <1>3, <1>4
<1>6. t[i] <= t[m - 1]
  BY <1>3, <1>5
<1>7. t[m - 1] <= t[m] /\ t[m - 1] \in Int /\ t[m] \in Int /\ t[i] \in Int
  BY <1>5
<1>8. t[i] <= t[m]
  BY <1>6, <1>7
<1> QED BY <1>3, <1>8

(* A multiple of a page. *)
LEMMA Whole ==
  ASSUME NEW w \in Nat \ {0}, NEW y \in Nat, y % w = 0
  PROVE  y \div w \in Nat /\ y = (y \div w) * w
OBVIOUS

LEMMA Quotient ==
  ASSUME NEW w \in Nat \ {0}, NEW x \in Int
  PROVE  \E q \in Int : x = q * w + (x % w)
<1>1. x = (x \div w) * w + (x % w) /\ x \div w \in Int
  OBVIOUS
<1> QED BY <1>1

LEMMA Remains ==
  ASSUME NEW w \in Nat \ {0}, NEW x \in Int
  PROVE  x % w \in 0 .. w - 1
OBVIOUS

(* A sum up to the end of the address space. *)
LEMMA ModEnd ==
  ASSUME NEW w \in Nat \ {0}, NEW x \in 0 .. w, x % w # 0
  PROVE  x % w = x
<1>1. CASE x = w
  BY <1>1, ModOnce
<1>2. CASE x # w
  BY <1>2, ModSmall
<1> QED BY <1>1, <1>2

(* Between two multiples of a page. *)
LEMMA PageBefore ==
  ASSUME NEW w \in Nat \ {0}, NEW x \in Nat, NEW y \in Nat, y % w = 0
  PROVE  /\ x < y => x \div w < y \div w
         /\ y <= x => y \div w <= x \div w
<1>1. y = (y \div w) * w /\ y \div w \in Nat
  BY Whole
<1>2. x \div w \in Nat /\ (x \div w) * w <= x /\ x < (x \div w) * w + w
  OBVIOUS
<1> DEFINE u == x \div w
           v == y \div w
<1>3. u \in Nat /\ v \in Nat /\ y = v * w /\ u * w <= x /\ x < u * w + w
  BY <1>1, <1>2
<1> HIDE DEF u, v
<1>4. u * w + w = (u + 1) * w
  BY <1>3
<1>5. ASSUME x < y PROVE u < v
  <2>1. SUFFICES ASSUME v <= u PROVE FALSE
    BY <1>3
  <2>2. v * w <= u * w
    BY <2>1, <1>3
  <2> QED BY <2>2, <1>3, <1>5
<1>6. ASSUME y <= x PROVE v <= u
  <2>1. SUFFICES ASSUME u + 1 <= v PROVE FALSE
    BY <1>3
  <2>2. (u + 1) * w <= v * w
    BY <2>1, <1>3
  <2> QED BY <2>2, <1>3, <1>4, <1>6
<1> QED BY <1>5, <1>6 DEF u, v

(* A range that ends before another begins, at a page, shares none with it. *)
LEMMA Beside ==
  ASSUME Page \in Nat \ {0}, NEW q, NEW r,
         q.base \in Nat, q.size \in Nat \ {0}, r.base \in Nat, r.size \in Nat \ {0},
         r.base % Page = 0, q.base + q.size <= r.base
  PROVE  /\ Pages(q) \cap Pages(r) = {}
         /\ \A x \in Pages(q) : x < r.base \div Page
<1> DEFINE u == (q.base + q.size - 1) \div Page
           v == r.base \div Page
           w == (r.base + r.size - 1) \div Page
<1>1. q.base + q.size - 1 \in Nat /\ r.base + r.size - 1 \in Nat
  OBVIOUS
<1>2. u < v
  <2> DEFINE x == q.base + q.size - 1
             y == r.base
  <2>1. x \in Nat /\ y \in Nat /\ x < y /\ y % Page = 0
    BY <1>1
  <2> HIDE DEF x, y
  <2>2. x \div Page < y \div Page
    BY <2>1, PageBefore
  <2> QED BY <2>2 DEF x, y
<1>3. u \in Nat /\ v \in Nat /\ w \in Nat /\ q.base \div Page \in Nat
  BY <1>1
<1>4. Pages(q) = (q.base \div Page) .. u /\ Pages(r) = v .. w
  BY DEF Pages
<1> HIDE DEF u, v, w
<1>5. \A x \in (q.base \div Page) .. u : x < v
  BY <1>2, <1>3
<1> QED BY <1>3, <1>4, <1>5 DEF v

(* A stack that is mapped does not begin with a page that wrapped around:   *)
(* it would begin below Low.                                               *)
LEMMA StackBase ==
  ASSUME NEW page \in Nat, NEW space \in Nat \ {0}, page <= space,
         NEW u \in 0 .. space - 1, NEW z \in 0 .. space - 1, NEW top, top = (u + page + z) % space,
         (top - z) % space > page
  PROVE  (top - z) % space = u + page
<1>1. top \in 0 .. space - 1
  BY Remains
<1> DEFINE x == u + page + z
           y == top - z
<1>2. x \in Int /\ y \in Int
  BY <1>1
<1>3. x % space = top
  OBVIOUS
<1> HIDE DEF x, y
<1>4. PICK q \in Int : x = q * space + (x % space)
  BY <1>2, Quotient
<1>5. PICK r \in Int : y = r * space + (y % space)
  BY <1>2, Quotient
<1>6. y % space \in 0 .. space - 1
  BY <1>2, Remains
<1> DEFINE b == (top - z) % space
<1>7. b \in 0 .. space - 1
  BY <1>6 DEF y
<1> HIDE DEF b
<1> DEFINE c == q + r
<1>8. c \in Int /\ u + page = c * space + b
  <2>1. u + page + z = q * space + top /\ top - z = r * space + b
    BY <1>4, <1>5, <1>3 DEF b, x, y
  <2>2. (q + r) * space = q * space + r * space
    OBVIOUS
  <2>3. u + page = q * space + r * space + b
    BY <2>1, <1>1, <1>7
  <2> QED BY <2>2, <2>3
<1>9. b > page
  BY DEF b
<1> HIDE DEF c
<1>10. CASE c >= 1
  <2>1. c * space >= space
    BY <1>8, <1>10
  <2> QED BY <2>1, <1>7, <1>8, <1>9
<1>11. CASE c <= -1
  <2>1. c * space <= -space
    BY <1>8, <1>11
  <2> QED BY <2>1, <1>7, <1>8
<1>12. CASE c = 0
  BY <1>7, <1>8, <1>12 DEF b
<1> QED BY <1>8, <1>10, <1>11, <1>12

(* What map_ranges_mod maps of a module, and where it lies.                 *)
AllMapped(n, a, size, heap, bss_size, sizes, t) ==
  /\ Mappable(Span("text", a, size)) /\ Mappable(Span("heap", t[n], heap))
  /\ Mappable(Span("bss", (t[n] + heap) % Space, bss_size))
  /\ \A k \in 1 .. n : Mappable(Span("stack", (t[k] - sizes[k]) % Space, sizes[k]))

LEMMA TopsAreAddresses ==
  ASSUME Space \in Nat \ {0}, Page \in Nat, NEW n \in Nat, NEW base \in Address,
         NEW sizes \in [1 .. n -> Address], NEW t, TopsTo(n, base, sizes, t)
  PROVE  /\ t \in [0 .. n -> Address] /\ t[0] = base
         /\ \A k \in 1 .. n : t[k] = (t[k - 1] + Page + sizes[k]) % Space
<1>1. /\ t = [k \in 0 .. n |-> t[k]] /\ t[0] = base
      /\ \A k \in 1 .. n : t[k] = (t[k - 1] + Page + sizes[k]) % Space
  BY DEF TopsTo
<1>2. \A k \in 0 .. n : t[k] \in Address
  <2> DEFINE Off == {k \in 0 .. n : ~ (t[k] \in Address)}
  <2>1. SUFFICES ASSUME Off # {} PROVE FALSE
    OBVIOUS
  <2>2. Off \in SUBSET Nat
    OBVIOUS
  <2>3. PICK m \in Off : \A j \in Off : m <= j
    <3> HIDE DEF Off
    <3> QED BY <2>1, <2>2, Least
  <2>4. m # 0
    BY <1>1, <2>3
  <2>5. m - 1 \in 0 .. n /\ m \in 1 .. n
    BY <2>3, <2>4
  <2>6. t[m - 1] \in Address
    BY <2>3, <2>5
  <2>7. t[m] = (t[m - 1] + Page + sizes[m]) % Space /\ sizes[m] \in Address
    BY <1>1, <2>5
  <2>8. t[m - 1] + Page + sizes[m] \in Int
    BY <2>6, <2>7 DEF Address
  <2>9. t[m] \in Address
    BY <2>7, <2>8, Remains DEF Address
  <2> QED BY <2>3, <2>9
<1> QED BY <1>1, <1>2

AreAddresses(n, a, size, heap, bss_size, sizes) ==
  /\ n \in Nat \ {0} /\ a \in Address /\ size \in Address /\ heap \in Address
  /\ bss_size \in Address /\ sizes \in [1 .. n -> Address]

(* No range of a module that comes up wraps around. *)
LEMMA NothingWraps ==
  ASSUME Page \in Nat \ {0}, Space \in Nat \ {0}, Low \in Nat, Page < Low,
         NEW n, NEW a, NEW size, NEW heap, NEW bss_size, NEW sizes, NEW t,
         AreAddresses(n, a, size, heap, bss_size, sizes),
         TopsTo(n, (a + size) % Space, sizes, t), AllMapped(n, a, size, heap, bss_size, sizes, t)
  PROVE  /\ t \in [0 .. n -> Address] /\ t[0] = a + size
         /\ \A k \in 1 .. n : /\ t[k] = t[k - 1] + Page + sizes[k]
                              /\ (t[k] - sizes[k]) % Space = t[k - 1] + Page
         /\ (t[n] + heap) % Space = t[n] + heap
<1>0. /\ n \in Nat \ {0} /\ a \in Address /\ size \in Address /\ heap \in Address
      /\ bss_size \in Address /\ sizes \in [1 .. n -> Address]
  BY DEF AreAddresses
<1>1. a + size \in 0 .. Space /\ a >= Low /\ Low <= Space
  BY <1>0 DEF AllMapped, Mappable, Span, Address
<1>2. (a + size) % Space \in Address
  <2> DEFINE x == a + size
  <2>1. x \in Int
    BY <1>1
  <2> HIDE DEF x
  <2>2. x % Space \in Address
    BY <2>1, Remains DEF Address
  <2> QED BY <2>2 DEF x
<1>3. /\ t \in [0 .. n -> Address] /\ t[0] = (a + size) % Space
      /\ \A k \in 1 .. n : t[k] = (t[k - 1] + Page + sizes[k]) % Space
  BY <1>0, <1>2, TopsAreAddresses
<1>4. \A k \in 0 .. n : t[k] \in 0 .. Space - 1
  BY <1>0, <1>3 DEF Address
<1>5. \A k \in 1 .. n : sizes[k] \in 0 .. Space - 1
  BY <1>0 DEF Address
<1>6. \A k \in 1 .. n : /\ (t[k] - sizes[k]) % Space >= Low
                        /\ ((t[k] - sizes[k]) % Space) + sizes[k] <= Space
  BY DEF AllMapped, Mappable, Span
<1>7. /\ t[n] >= Low /\ t[n] + heap <= Space /\ (t[n] + heap) % Space >= Low
  BY DEF AllMapped, Mappable, Span
<1>8. \A k \in 1 .. n : (t[k] - sizes[k]) % Space = t[k - 1] + Page
  <2> TAKE k \in 1 .. n
  <2>1. k - 1 \in 0 .. n /\ k \in 0 .. n
    BY <1>0
  <2>2. t[k - 1] \in 0 .. Space - 1 /\ sizes[k] \in 0 .. Space - 1
    BY <2>1, <1>4, <1>5
  <2>3. t[k] \in 0 .. Space - 1
    BY <2>1, <1>4
  <2>4. (t[k] - sizes[k]) % Space \in 0 .. Space - 1
    <3> DEFINE x == t[k] - sizes[k]
    <3>1. x \in Int
      BY <2>2, <2>3
    <3> HIDE DEF x
    <3>2. x % Space \in 0 .. Space - 1
      BY <3>1, Remains
    <3> QED BY <3>2 DEF x
  <2>5. (t[k] - sizes[k]) % Space > Page /\ Page <= Space
    BY <1>1, <1>6, <2>4
  <2>6. t[k] = (t[k - 1] + Page + sizes[k]) % Space
    BY <1>3
  <2> DEFINE u == t[k - 1]
             z == sizes[k]
             top == t[k]
  <2>7. u \in 0 .. Space - 1 /\ z \in 0 .. Space - 1 /\ top = (u + Page + z) % Space
        /\ (top - z) % Space > Page
    BY <2>2, <2>5, <2>6
  <2> HIDE DEF u, z, top
  <2>8. (top - z) % Space = u + Page
    BY <2>5, <2>7, StackBase
  <2> QED BY <2>8 DEF u, z, top
<1>9. \A k \in 0 .. n : t[k] # 0
  <2> TAKE k \in 0 .. n
  <2>1. CASE k = n
    BY <1>0, <2>1, <1>7
  <2>2. CASE k # n
    <3>1. k + 1 \in 1 .. n /\ (k + 1) - 1 = k
      BY <1>0, <2>2
    <3>2. (t[k + 1] - sizes[k + 1]) % Space = t[k] + Page /\ (t[k + 1] - sizes[k + 1]) % Space >= Low
      BY <3>1, <1>6, <1>8
    <3>3. t[k] \in 0 .. Space - 1
      BY <1>4
    <3> QED BY <3>2, <3>3
  <2> QED BY <2>1, <2>2
<1>10. t[0] = a + size
  <2> DEFINE x == a + size
  <2>1. x \in 0 .. Space /\ t[0] = x % Space /\ t[0] # 0
    BY <1>0, <1>1, <1>3, <1>9
  <2> HIDE DEF x
  <2>2. x % Space = x
    BY <2>1, ModEnd
  <2> QED BY <2>1, <2>2 DEF x
<1>11. \A k \in 1 .. n : t[k] = t[k - 1] + Page + sizes[k]
  <2> TAKE k \in 1 .. n
  <2>1. k - 1 \in 0 .. n /\ k \in 0 .. n
    BY <1>0
  <2>2. t[k - 1] \in 0 .. Space - 1 /\ sizes[k] \in 0 .. Space - 1
    BY <2>1, <1>4, <1>5
  <2>3. t[k - 1] + Page + sizes[k] \in 0 .. Space
    BY <2>2, <1>6, <1>8
  <2> QED BY <2>1, <2>3, <1>3, <1>9, ModEnd
<1>12. (t[n] + heap) % Space = t[n] + heap
  <2>1. t[n] \in 0 .. Space - 1 /\ heap \in 0 .. Space - 1
    BY <1>0, <1>4 DEF Address
  <2> DEFINE x == t[n] + heap
  <2>2. x \in 0 .. Space /\ x % Space >= Low
    BY <1>0, <2>1, <1>7
  <2> HIDE DEF x
  <2>3. x % Space # 0
    BY <1>0, <2>2
  <2>4. x % Space = x
    BY <2>2, <2>3, ModEnd
  <2> QED BY <2>4 DEF x
<1> QED BY <1>3, <1>8, <1>10, <1>11, <1>12

-----------------------------------------------------------------------------
(* What the manifest of a module gives, when nothing that it needs is       *)
(* missing.                                                                *)
Comeable(s) == s.found /\ ~ Lacks(s, Needs.mod) /\ ~ Overcounts(s)

ExtTypes == ProcessExt \cup ThreadsExt \cup MmioExt \cup ModAttrExt \cup SharedLibExt \cup LockedExt

LEMMA ExtFacts ==
  ASSUME LoaderAssumption, NEW st \in Setups, NEW s \in {st.lib, st.mod}, NEW type, Has(s.met, type)
  PROVE  /\ Ext(s.met, type) \in ExtTypes /\ Ext(s.met, type).type = type
         /\ type = 6 => /\ Ext(s.met, type).stack_size # << >>
                        /\ Counted(Ext(s.met, type), Len(Ext(s.met, type).stack_size), ThreadSize)
         /\ type = 8 => Counted(Ext(s.met, type), Len(Ext(s.met, type).ranges), MmioSize)
         /\ type = 11 => Counted(Ext(s.met, type), Len(Ext(s.met, type).ranges), LockedSize)
<1>1. IsSection(s)
  BY DEF LoaderAssumption
<1>2. Comes(s.met, type) # {} /\ (CHOOSE i \in Comes(s.met, type) : TRUE) \in Comes(s.met, type)
  BY DEF Has
<1>3. PICK i \in DOMAIN s.met : s.met[i].type = type /\ Ext(s.met, type) = s.met[i]
  BY <1>2 DEF Ext, Comes
<1>4. s.met \in Seq(ExtTypes)
  BY <1>1 DEF IsSection, ExtTypes
<1>5. s.met[i] \in ExtTypes
  <2> HIDE DEF ExtTypes
  <2> QED BY <1>4
<1> QED BY <1>1, <1>3, <1>5 DEF IsSection

LEMMA ModFacts ==
  ASSUME LoaderAssumption, NEW st \in Setups, Comeable(st.mod)
  PROVE  LET p == Ext(st.mod.met, 5)
             e == Ext(st.mod.met, 6)
         IN  /\ p.priv_code_base_address \in Address /\ p.bss_size \in Address
             /\ p.default_heap_size \in Address /\ p.main_thread_id \in Nat
             /\ p.main_thread_entry \in Address
             /\ Ext(st.mod.met, 10).uncompressed_size \in Address
             /\ e.stack_size \in Seq(Address) /\ Len(e.stack_size) \in Nat \ {0}
             /\ (e.length - ManExt) \div ThreadSize = Len(e.stack_size)
<1> DEFINE p == Ext(st.mod.met, 5)
           e == Ext(st.mod.met, 6)
           u == Ext(st.mod.met, 10)
<1>1. Has(st.mod.met, 5) /\ Has(st.mod.met, 6) /\ Has(st.mod.met, 10)
  BY DEF Comeable, Lacks, Needs
<1>2. /\ p \in ExtTypes /\ p.type = 5 /\ e \in ExtTypes /\ e.type = 6 /\ u \in ExtTypes /\ u.type = 10
      /\ e.stack_size # << >> /\ Counted(e, Len(e.stack_size), ThreadSize)
  BY <1>1, ExtFacts
<1>3. ~ (e.length < ManExt)
  BY DEF Comeable, Overcounts
<1> HIDE DEF p, e, u
<1>4. p \in ProcessExt
  BY <1>2 DEF ExtTypes, ProcessExt, ThreadsExt, MmioExt, ModAttrExt, SharedLibExt, LockedExt
<1>5. e \in ThreadsExt
  BY <1>2 DEF ExtTypes, ProcessExt, ThreadsExt, MmioExt, ModAttrExt, SharedLibExt, LockedExt
<1>6. u \in ModAttrExt
  BY <1>2 DEF ExtTypes, ProcessExt, ThreadsExt, MmioExt, ModAttrExt, SharedLibExt, LockedExt
<1>7. e.stack_size \in Seq(Address) /\ e.length \in Nat
  BY <1>5 DEF ThreadsExt
<1>8. Len(e.stack_size) \in Nat \ {0}
  BY <1>2, <1>7, EmptySeq
<1>9. e.length = ManExt + Len(e.stack_size) * ThreadSize
  BY <1>2, <1>3, <1>7 DEF Counted, ManExt
<1>10. (e.length - ManExt) \div ThreadSize = Len(e.stack_size)
  <2>1. \A n \in Nat : (8 + n * 12 - 8) \div 12 = n
    OBVIOUS
  <2>2. e.length - ManExt = 8 + Len(e.stack_size) * 12 - 8 /\ ThreadSize = 12
    BY <1>8, <1>9 DEF ManExt, ThreadSize
  <2>3. (8 + Len(e.stack_size) * 12 - 8) \div 12 = Len(e.stack_size)
    BY <1>8, <2>1
  <2> QED BY <2>2, <2>3
<1> QED BY <1>4, <1>6, <1>7, <1>8, <1>10 DEF p, e, u, ProcessExt, ModAttrExt

(* The tops of the stacks of a module. *)
TextEnd(s) == (Ext(s.met, 5).priv_code_base_address + Ext(s.met, 10).uncompressed_size) % Space
Tops(s) == StackTop(TextEnd(s), Ext(s.met, 6).stack_size)

LEMMA ThreadFacts ==
  ASSUME LoaderAssumption, NEW st \in Setups, Comeable(st.mod)
  PROVE  LET s == st.mod
             sizes == Ext(s.met, 6).stack_size
             n == Len(sizes)
             t == Tops(s)
         IN  /\ n \in Nat \ {0} /\ sizes \in [1 .. n -> Address]
             /\ TopsTo(n, TextEnd(s), sizes, t) /\ t \in [0 .. n -> Address]
             /\ Len(ModThreads(s)) = n /\ DOMAIN ModThreads(s) = 1 .. n
             /\ \A i \in 1 .. n :
                  ModThreads(s)[i] = [stack_top |-> t[i], stack_size |-> sizes[i],
                                      thread_id |-> Ext(s.met, 5).main_thread_id + i - 1]
<1> DEFINE s == st.mod
           p == Ext(s.met, 5)
           sizes == Ext(s.met, 6).stack_size
           n == Len(sizes)
           t == Tops(s)
           u == Ext(s.met, 10).uncompressed_size
<1>1. /\ p.priv_code_base_address \in Address /\ u \in Address
      /\ sizes \in Seq(Address) /\ n \in Nat \ {0}
      /\ (Ext(s.met, 6).length - ManExt) \div ThreadSize = n
  BY ModFacts
<1>2. sizes \in [1 .. n -> Address]
  <2> HIDE DEF sizes
  <2> QED BY <1>1 DEF n
<1>3. TopsTo(n, TextEnd(s), sizes, t)
  BY <1>1, StackTopUnfolds DEF Tops
<1>4. TextEnd(s) \in Address
  <2> DEFINE x == p.priv_code_base_address + u
  <2>1. x \in Int /\ Space \in Nat \ {0}
    BY <1>1 DEF Address, LoaderAssumption
  <2> HIDE DEF x
  <2>2. x % Space \in Address
    BY <2>1, Remains DEF Address
  <2> QED BY <2>2 DEF TextEnd, x
<1>5. t \in [0 .. n -> Address]
  <2>1. Space \in Nat \ {0} /\ Page \in Nat
    BY DEF LoaderAssumption
  <2> HIDE DEF t, sizes, n
  <2> QED BY <1>1, <1>2, <1>3, <1>4, <2>1, TopsAreAddresses
<1>6. ModThreads(s) = [i \in 1 .. n |-> [stack_top |-> t[i], stack_size |-> sizes[i],
                                         thread_id |-> p.main_thread_id + i - 1]]
  BY <1>1 DEF ModThreads, Tops, TextEnd
<1>7. Len(ModThreads(s)) = n /\ DOMAIN ModThreads(s) = 1 .. n
  <2> DEFINE F(i) == [stack_top |-> t[i], stack_size |-> sizes[i], thread_id |-> p.main_thread_id + i - 1]
  <2>1. n \in Nat
    BY <1>1
  <2> HIDE DEF n, F
  <2>2. Len([i \in 1 .. n |-> F(i)]) = n /\ DOMAIN [i \in 1 .. n |-> F(i)] = 1 .. n
    BY <2>1
  <2> QED BY <1>6, <2>2 DEF F
<1> QED BY <1>1, <1>2, <1>3, <1>5, <1>6, <1>7

LEMMA Wider ==
  ASSUME NEW A, NEW B
  PROVE  Seq(A) \subseteq Seq(A \cup B) /\ Seq(B) \subseteq Seq(A \cup B)
OBVIOUS

LEMMA Joined ==
  ASSUME NEW S, NEW q \in Seq(S), NEW r \in Seq(S)
  PROVE  /\ DOMAIN (q \o r) = 1 .. Len(r) + Len(q)
         /\ \A i \in 1 .. Len(q) : (q \o r)[i] = q[i]
         /\ \A k \in 1 .. Len(r) : (q \o r)[k + Len(q)] = r[k]
OBVIOUS

(* The ranges of a module: text, heap, bss and the stacks. *)
BssSize(s) == (Ext(s.met, 5).bss_size + lib) % Space
StackRange(s, k) ==
  Span("stack", (Tops(s)[k] - Ext(s.met, 6).stack_size[k]) % Space, Ext(s.met, 6).stack_size[k])

LEMMA RangeFacts ==
  ASSUME LoaderAssumption, NEW st \in Setups, Comeable(st.mod)
  PROVE  LET s == st.mod
             p == Ext(s.met, 5)
             n == Len(Ext(s.met, 6).stack_size)
             r == ModRanges(s)
         IN  /\ DOMAIN r = 1 .. n + 3
             /\ r[1] = Span("text", p.priv_code_base_address, Ext(s.met, 10).uncompressed_size)
             /\ r[2] = Span("heap", Tops(s)[n], p.default_heap_size)
             /\ r[3] = Span("bss", (Tops(s)[n] + p.default_heap_size) % Space, BssSize(s))
             /\ \A k \in 1 .. n : r[k + 3] = StackRange(s, k)
<1> DEFINE s == st.mod
           p == Ext(s.met, 5)
           sizes == Ext(s.met, 6).stack_size
           n == Len(sizes)
           th == ModThreads(s)
           fixed == <<Span("text", p.priv_code_base_address, Ext(s.met, 10).uncompressed_size),
                      Span("heap", Tops(s)[n], p.default_heap_size),
                      Span("bss", (Tops(s)[n] + p.default_heap_size) % Space, BssSize(s))>>
           stacks == [i \in 1 .. n |-> StackRange(s, i)]
<1>1. /\ n \in Nat \ {0} /\ Len(th) = n
      /\ \A i \in 1 .. n : th[i].stack_top = Tops(s)[i] /\ th[i].stack_size = sizes[i]
  <2>1. /\ n \in Nat \ {0} /\ Len(th) = n
        /\ \A i \in 1 .. n : th[i] = [stack_top |-> Tops(s)[i], stack_size |-> sizes[i],
                                      thread_id |-> p.main_thread_id + i - 1]
    BY ThreadFacts
  <2> HIDE DEF th, n, sizes, p
  <2> QED BY <2>1
<1>2. th[Len(th)].stack_top = Tops(s)[n]
  BY <1>1
<1>3. [i \in 1 .. Len(th) |-> Span("stack", (th[i].stack_top - th[i].stack_size) % Space,
                                    th[i].stack_size)] = stacks
  BY <1>1 DEF StackRange
<1>4. ModRanges(s) = fixed \o stacks
  BY <1>2, <1>3 DEF ModRanges, BssSize
<1>5. /\ Len(fixed) = 3 /\ fixed \in Seq({fixed[1], fixed[2], fixed[3]})
  OBVIOUS
<1>6. Len(stacks) = n /\ stacks \in Seq({StackRange(s, i) : i \in 1 .. n})
  <2>1. n \in Nat
    BY <1>1
  <2> HIDE DEF n
  <2> QED BY <2>1
<1>7. /\ DOMAIN (fixed \o stacks) = 1 .. n + 3
      /\ \A i \in 1 .. 3 : (fixed \o stacks)[i] = fixed[i]
      /\ \A k \in 1 .. n : (fixed \o stacks)[k + 3] = stacks[k]
  <2>1. n \in Nat
    BY <1>1
  <2> DEFINE S == {fixed[1], fixed[2], fixed[3]} \cup {StackRange(s, i) : i \in 1 .. n}
  <2>2. fixed \in Seq(S) /\ stacks \in Seq(S)
    <3> DEFINE A == {fixed[1], fixed[2], fixed[3]}
               B == {StackRange(s, i) : i \in 1 .. n}
    <3>1. fixed \in Seq(A) /\ stacks \in Seq(B)
      BY <1>5, <1>6
    <3> HIDE DEF fixed, stacks, n, A, B
    <3>2. fixed \in Seq(A \cup B) /\ stacks \in Seq(A \cup B)
      BY <3>1, Wider
    <3> QED BY <3>2 DEF A, B
  <2> HIDE DEF fixed, stacks, n, S
  <2>3. /\ DOMAIN (fixed \o stacks) = 1 .. Len(stacks) + Len(fixed)
        /\ \A i \in 1 .. Len(fixed) : (fixed \o stacks)[i] = fixed[i]
        /\ \A k \in 1 .. Len(stacks) : (fixed \o stacks)[k + Len(fixed)] = stacks[k]
    BY <2>2, Joined
  <2>4. Len(fixed) = 3 /\ Len(stacks) = n
    BY <1>5, <1>6
  <2> QED BY <2>3, <2>4
<1>8. \A k \in 1 .. n : stacks[k] = StackRange(s, k)
  OBVIOUS
<1>9. /\ (fixed \o stacks)[1] = fixed[1] /\ (fixed \o stacks)[2] = fixed[2]
      /\ (fixed \o stacks)[3] = fixed[3]
  BY <1>7
<1> HIDE DEF stacks
<1> QED BY <1>4, <1>7, <1>8, <1>9

LEMMA DivUnique ==
  ASSUME NEW q \in Nat, NEW w \in Nat \ {0}, NEW r \in 0 .. w - 1
  PROVE  (q * w + r) \div w = q
OBVIOUS

LEMMA PageShift ==
  ASSUME NEW w \in Nat \ {0}, NEW x \in Nat, (x + w) % w = 0
  PROVE  x % w = 0 /\ ((x + w) \div w) - 1 = x \div w /\ (x + w - 1) \div w = x \div w
<1> DEFINE q == (x + w) \div w
<1>1. q \in Nat /\ x + w = q * w
  BY Whole
<1> HIDE DEF q
<1>2. q # 0
  BY <1>1
<1>3. x = (q - 1) * w /\ q - 1 \in Nat
  BY <1>1, <1>2
<1>4. x % w = 0 /\ x \div w = q - 1
  BY <1>3
<1>5. (x + w - 1) \div w = q - 1
  <2> DEFINE u == q - 1
  <2>1. u \in Nat /\ x + w - 1 = u * w + (w - 1) /\ w - 1 \in 0 .. w - 1
    BY <1>3
  <2> HIDE DEF u
  <2>2. (u * w + (w - 1)) \div w = u
    BY <2>1, DivUnique
  <2> QED BY <2>1, <2>2 DEF u
<1> QED BY <1>4, <1>5 DEF q

(* Where the ranges of a module lie that comes up: one after the other, with *)
(* a page between them and below every stack.                              *)
LEMMA LayoutFacts ==
  ASSUME LoaderAssumption, lib \in Address, NEW st \in Setups, Comeable(st.mod),
         \A i \in DOMAIN ModRanges(st.mod) : Mappable(ModRanges(st.mod)[i])
  PROVE  LET s == st.mod
             n == Len(Ext(s.met, 6).stack_size)
             r == ModRanges(s)
             t == Tops(s)
         IN  /\ n \in Nat \ {0} /\ DOMAIN r = 1 .. n + 3
             /\ \A i \in DOMAIN r : r[i].base \in Nat /\ r[i].size \in Nat \ {0} /\ r[i].base % Page = 0
             /\ t \in [0 .. n -> Nat]
             /\ r[1].base + r[1].size = t[0] /\ r[2].base = t[n] /\ r[3].base = t[n] + r[2].size
             /\ \A k \in 1 .. n : /\ r[k + 3].base = t[k - 1] + Page /\ r[k + 3].base + r[k + 3].size = t[k]
                                  /\ t[k - 1] <= t[k]
<1> DEFINE s == st.mod
           p == Ext(s.met, 5)
           a == p.priv_code_base_address
           size == Ext(s.met, 10).uncompressed_size
           heap == p.default_heap_size
           sizes == Ext(s.met, 6).stack_size
           n == Len(sizes)
           r == ModRanges(s)
           t == Tops(s)
           b == BssSize(s)
<1>1. /\ a \in Address /\ size \in Address /\ heap \in Address /\ p.bss_size \in Address
      /\ n \in Nat \ {0}
  BY ModFacts
<1>2. sizes \in [1 .. n -> Address] /\ TopsTo(n, TextEnd(s), sizes, t)
  BY ThreadFacts
<1>3. TextEnd(s) = (a + size) % Space
  BY DEF TextEnd
<1>4. /\ DOMAIN r = 1 .. n + 3
      /\ r[1] = Span("text", a, size)
      /\ r[2] = Span("heap", t[n], heap)
      /\ r[3] = Span("bss", (t[n] + heap) % Space, b)
      /\ \A k \in 1 .. n : r[k + 3] = Span("stack", (t[k] - sizes[k]) % Space, sizes[k])
  BY RangeFacts DEF StackRange
<1>5. b \in Address
  <2> DEFINE x == p.bss_size + lib
  <2>1. x \in Int /\ Space \in Nat \ {0}
    BY <1>1 DEF Address, LoaderAssumption
  <2> HIDE DEF x
  <2>2. x % Space \in Address
    BY <2>1, Remains DEF Address
  <2> QED BY <2>2 DEF BssSize, x
<1>6. Page \in Nat \ {0} /\ Space \in Nat \ {0} /\ Low \in Nat /\ Page < Low
  BY DEF LoaderAssumption
<1>7. \A i \in 1 .. n + 3 : Mappable(r[i])
  BY <1>4
<1> HIDE DEF s, p, a, size, heap, sizes, n, r, t, b
<1>8. AllMapped(n, a, size, heap, b, sizes, t)
  <2>1. 1 \in 1 .. n + 3 /\ 2 \in 1 .. n + 3 /\ 3 \in 1 .. n + 3 /\ \A k \in 1 .. n : k + 3 \in 1 .. n + 3
    BY <1>1
  <2>2. Mappable(r[1]) /\ Mappable(r[2]) /\ Mappable(r[3]) /\ \A k \in 1 .. n : Mappable(r[k + 3])
    BY <1>7, <2>1
  <2> QED BY <1>4, <2>2 DEF AllMapped
<1>9. /\ t \in [0 .. n -> Address] /\ t[0] = a + size
      /\ \A k \in 1 .. n : /\ t[k] = t[k - 1] + Page + sizes[k]
                           /\ (t[k] - sizes[k]) % Space = t[k - 1] + Page
      /\ (t[n] + heap) % Space = t[n] + heap
  <2>1. TopsTo(n, (a + size) % Space, sizes, t)
    BY <1>2, <1>3
  <2>2. AreAddresses(n, a, size, heap, b, sizes)
    BY <1>1, <1>2, <1>5 DEF AreAddresses
  <2> QED BY <2>1, <2>2, <1>6, <1>8, NothingWraps
<1>10. \A k \in 0 .. n : t[k] \in Nat
  BY <1>9 DEF Address
<1>11. t \in [0 .. n -> Nat]
  BY <1>9, <1>10
<1>12. \A k \in 1 .. n : sizes[k] \in Nat /\ k - 1 \in 0 .. n /\ k \in 0 .. n
  BY <1>1, <1>2 DEF Address
<1>13. a \in Nat /\ size \in Nat /\ heap \in Nat /\ b \in Nat /\ t[n] \in Nat
  BY <1>1, <1>5, <1>10 DEF Address
<1>14. /\ r[1].base = a /\ r[1].size = size /\ r[2].base = t[n] /\ r[2].size = heap
       /\ r[3].base = t[n] + heap /\ r[3].size = b
       /\ \A k \in 1 .. n : r[k + 3].base = t[k - 1] + Page /\ r[k + 3].size = sizes[k]
  <2>1. \A o, x, y : Span(o, x, y).base = x /\ Span(o, x, y).size = y
    BY DEF Span
  <2>2. \A k \in 1 .. n : r[k + 3] = Span("stack", t[k - 1] + Page, sizes[k])
    BY <1>4, <1>9
  <2>3. r[1] = Span("text", a, size) /\ r[2] = Span("heap", t[n], heap) /\ r[3] = Span("bss", t[n] + heap, b)
    BY <1>4, <1>9
  <2> QED BY <2>1, <2>2, <2>3
<1>15. \A i \in 1 .. n + 3 : r[i].base \in Nat /\ r[i].size \in Nat
  <2> TAKE i \in 1 .. n + 3
  <2>1. CASE i \in 1 .. 3
    BY <2>1, <1>13, <1>14
  <2>2. CASE i \notin 1 .. 3
    <3>1. i - 3 \in 1 .. n /\ (i - 3) + 3 = i
      BY <2>2, <1>1
    <3> QED BY <3>1, <1>6, <1>10, <1>12, <1>14
  <2> QED BY <2>1, <2>2
<1>16. \A i \in 1 .. n + 3 : r[i].size \in Nat \ {0} /\ r[i].base % Page = 0
  BY <1>7, <1>15 DEF Mappable
<1>17. \A k \in 1 .. n : r[k + 3].base + r[k + 3].size = t[k] /\ t[k - 1] <= t[k]
  <2> TAKE k \in 1 .. n
  <2>1. r[k + 3].base = t[k - 1] + Page /\ r[k + 3].size = sizes[k] /\ t[k] = t[k - 1] + Page + sizes[k]
    BY <1>9, <1>14
  <2>2. t[k - 1] \in Nat /\ sizes[k] \in Nat
    BY <1>10, <1>12
  <2> QED BY <2>1, <2>2, <1>6
<1> QED BY <1>1, <1>4, <1>9, <1>11, <1>14, <1>15, <1>16, <1>17 DEF r, t, n, s, sizes

(* From lo to hi: text, heap, bss, and the stacks with a page below each.   *)
InOrder(n, page, t, lo, hi) ==
  /\ t \in [0 .. n -> Nat] /\ lo \in [1 .. n + 3 -> Nat] /\ hi \in [1 .. n + 3 -> Nat]
  /\ \A i \in 1 .. n + 3 : lo[i] <= hi[i]
  /\ hi[1] = t[0] /\ lo[2] = t[n] /\ lo[3] = hi[2]
  /\ \A k \in 1 .. n : lo[k + 3] = t[k - 1] + page /\ hi[k + 3] = t[k] /\ t[k - 1] <= t[k]

LEMMA OneAfterTheOther ==
  ASSUME NEW n \in Nat \ {0}, NEW page \in Nat, NEW t, NEW lo, NEW hi, InOrder(n, page, t, lo, hi)
  PROVE  /\ \A i, j \in 1 .. n + 3 : i < j => hi[i] <= lo[j] \/ hi[j] <= lo[i]
         /\ \A k \in 1 .. n, j \in 1 .. n + 3 : hi[j] <= t[k - 1] \/ t[k - 1] + page <= lo[j]
<1>1. \A i, j \in 0 .. n : i <= j => t[i] <= t[j]
  <2>1. t \in [0 .. n -> Int] /\ \A k \in 1 .. n : t[k - 1] <= t[k]
    BY DEF InOrder
  <2> QED BY <2>1, Climbs
<1>2. /\ \A i \in 0 .. n : t[i] \in Nat
      /\ \A i \in 1 .. n + 3 : lo[i] \in Nat /\ hi[i] \in Nat /\ lo[i] <= hi[i]
      /\ hi[1] = t[0] /\ lo[2] = t[n] /\ lo[3] = hi[2]
      /\ \A k \in 1 .. n : lo[k + 3] = t[k - 1] + page /\ hi[k + 3] = t[k]
  BY DEF InOrder
<1>3. /\ 0 \in 0 .. n /\ n \in 0 .. n /\ 1 \in 1 .. n + 3 /\ 2 \in 1 .. n + 3 /\ 3 \in 1 .. n + 3
      /\ \A k \in 1 .. n : k - 1 \in 0 .. n /\ k \in 0 .. n /\ k + 3 \in 1 .. n + 3
  OBVIOUS
<1>4. \A k \in 1 .. n : /\ t[k - 1] \in Nat /\ t[k] \in Nat /\ t[0] <= t[k - 1] /\ t[k] <= t[n]
                        /\ t[k - 1] + page <= t[k]
  <2> TAKE k \in 1 .. n
  <2>1. 0 <= k - 1 /\ k <= n
    OBVIOUS
  <2>2. lo[k + 3] <= hi[k + 3]
    BY <1>2, <1>3
  <2> QED BY <1>1, <1>2, <1>3, <2>1, <2>2
<1>5. \A j, k \in 1 .. n : j < k => t[j] <= t[k - 1]
  <2> TAKE j, k \in 1 .. n
  <2> HAVE j < k
  <2>1. j <= k - 1
    OBVIOUS
  <2> QED BY <1>1, <1>3, <2>1
<1>6. hi[1] <= t[n] /\ t[n] <= lo[3] /\ lo[2] = t[n] /\ lo[3] = hi[2]
  <2>1. t[0] <= t[n] /\ t[n] \in Nat /\ t[0] \in Nat
    BY <1>1, <1>2, <1>3
  <2>2. lo[2] \in Nat /\ hi[2] \in Nat /\ lo[2] <= hi[2]
    BY <1>2, <1>3
  <2> QED BY <1>2, <2>1, <2>2
<1>7. \A j \in 1 .. n + 3 : j \notin {1, 2, 3} => j - 3 \in 1 .. n /\ (j - 3) + 3 = j
  <2> TAKE j \in 1 .. n + 3
  <2> HAVE j \notin {1, 2, 3}
  <2> QED OBVIOUS
<1>8. ASSUME NEW i \in 1 .. n + 3, NEW j \in 1 .. n + 3, i < j
      PROVE  hi[i] <= lo[j] \/ hi[j] <= lo[i]
  <2>1. CASE j \in {1, 2, 3}
    <3>1. (i = 1 /\ j = 2) \/ (i = 1 /\ j = 3) \/ (i = 2 /\ j = 3)
      BY <1>8, <2>1
    <3>2. lo[3] \in Nat /\ hi[1] \in Nat /\ t[n] \in Nat /\ hi[2] \in Nat
      BY <1>2, <1>3
    <3> QED BY <3>1, <3>2, <1>6
  <2>2. CASE j \notin {1, 2, 3}
    <3> DEFINE k == j - 3
    <3>1. k \in 1 .. n /\ k + 3 = j
      BY <1>7, <2>2
    <3>2. lo[j] = t[k - 1] + page /\ hi[j] = t[k] /\ t[k] <= t[n] /\ t[0] <= t[k - 1] /\ t[k - 1] \in Nat
          /\ t[k] \in Nat /\ t[n] \in Nat /\ t[0] \in Nat
      BY <3>1, <1>2, <1>3, <1>4
    <3> HIDE DEF k
    <3>3. CASE i = 1
      BY <3>2, <3>3, <1>2
    <3>4. CASE i = 2
      BY <3>2, <3>4, <1>2
    <3>5. CASE i = 3
      <4>1. lo[3] \in Nat
        BY <1>2, <1>3
      <4> QED BY <4>1, <3>2, <3>5, <1>6
    <3>6. CASE i \notin {1, 2, 3}
      <4>1. i - 3 \in 1 .. n /\ (i - 3) + 3 = i
        BY <1>7, <3>6
      <4>2. i - 3 < k
        BY <1>8 DEF k
      <4>3. hi[i] = t[i - 3] /\ t[i - 3] <= t[k - 1] /\ t[i - 3] \in Nat
        BY <4>1, <4>2, <3>1, <1>2, <1>4, <1>5
      <4> QED BY <4>3, <3>2
    <3> QED BY <3>3, <3>4, <3>5, <3>6
  <2> QED BY <2>1, <2>2
<1>9. ASSUME NEW k \in 1 .. n, NEW j \in 1 .. n + 3
      PROVE  hi[j] <= t[k - 1] \/ t[k - 1] + page <= lo[j]
  <2>1. t[k - 1] \in Nat /\ t[k] \in Nat /\ t[0] <= t[k - 1] /\ t[k] <= t[n] /\ t[k - 1] + page <= t[k]
        /\ t[n] \in Nat /\ t[0] \in Nat
    BY <1>2, <1>3, <1>4
  <2>2. CASE j = 1
    BY <2>1, <2>2, <1>2
  <2>3. CASE j = 2
    BY <2>1, <2>3, <1>2
  <2>4. CASE j = 3
    <3>1. lo[3] \in Nat
      BY <1>2, <1>3
    <3> QED BY <3>1, <2>1, <2>4, <1>6
  <2>5. CASE j \notin {1, 2, 3}
    <3> DEFINE i == j - 3
    <3>1. i \in 1 .. n /\ i + 3 = j
      BY <1>7, <2>5
    <3>2. lo[j] = t[i - 1] + page /\ hi[j] = t[i] /\ t[i - 1] \in Nat /\ t[i] \in Nat
      BY <3>1, <1>2, <1>4
    <3> HIDE DEF i
    <3>3. CASE i < k
      <4>1. t[i] <= t[k - 1]
        BY <3>1, <3>3, <1>5
      <4> QED BY <4>1, <3>2
    <3>4. CASE i = k
      BY <3>2, <3>4, <2>1
    <3>5. CASE k < i
      <4>1. t[k] <= t[i - 1]
        BY <3>1, <3>5, <1>5
      <4> QED BY <4>1, <3>2, <2>1
    <3> QED BY <3>1, <3>3, <3>4, <3>5
  <2> QED BY <2>2, <2>3, <2>4, <2>5
<1> QED BY <1>8, <1>9

(* The ranges share no page, and none has the page below a stack. *)
LEMMA ApartFacts ==
  ASSUME LoaderAssumption, lib \in Address, NEW st \in Setups, Comeable(st.mod),
         \A i \in DOMAIN ModRanges(st.mod) : Mappable(ModRanges(st.mod)[i])
  PROVE  LET r == ModRanges(st.mod)
             th == ModThreads(st.mod)
         IN  /\ \A i, j \in DOMAIN r : i # j => Pages(r[i]) \cap Pages(r[j]) = {}
             /\ \A k \in DOMAIN th, j \in DOMAIN r :
                  PageOf(th[k].stack_top - th[k].stack_size) - 1 \notin Pages(r[j])
<1> DEFINE s == st.mod
           sizes == Ext(s.met, 6).stack_size
           n == Len(sizes)
           r == ModRanges(s)
           t == Tops(s)
           th == ModThreads(s)
<1>1. /\ n \in Nat \ {0} /\ DOMAIN r = 1 .. n + 3
      /\ \A i \in DOMAIN r : r[i].base \in Nat /\ r[i].size \in Nat \ {0} /\ r[i].base % Page = 0
      /\ t \in [0 .. n -> Nat]
      /\ r[1].base + r[1].size = t[0] /\ r[2].base = t[n] /\ r[3].base = t[n] + r[2].size
      /\ \A k \in 1 .. n : /\ r[k + 3].base = t[k - 1] + Page /\ r[k + 3].base + r[k + 3].size = t[k]
                           /\ t[k - 1] <= t[k]
  BY LayoutFacts
<1>2. DOMAIN th = 1 .. n /\ \A k \in 1 .. n : th[k].stack_top = t[k] /\ th[k].stack_size = sizes[k]
  <2>1. /\ DOMAIN th = 1 .. n
        /\ \A i \in 1 .. n : th[i] = [stack_top |-> t[i], stack_size |-> sizes[i],
                                      thread_id |-> Ext(s.met, 5).main_thread_id + i - 1]
    BY ThreadFacts
  <2> HIDE DEF th, n, t, sizes
  <2> QED BY <2>1
<1>3. \A k \in 1 .. n : r[k + 3].size = sizes[k]
  <2>1. \A k \in 1 .. n : r[k + 3] = StackRange(s, k)
    BY RangeFacts
  <2>2. \A k : StackRange(s, k).size = sizes[k]
    BY DEF StackRange, Span
  <2> HIDE DEF r, n, sizes, s
  <2> QED BY <2>1, <2>2
<1>4. Page \in Nat \ {0}
  BY DEF LoaderAssumption
<1> HIDE DEF s, sizes, n, r, t, th
<1> DEFINE lo == [i \in 1 .. n + 3 |-> r[i].base]
           hi == [i \in 1 .. n + 3 |-> r[i].base + r[i].size]
<1>5. \A i \in 1 .. n + 3 : lo[i] = r[i].base /\ hi[i] = r[i].base + r[i].size
  OBVIOUS
<1>6. lo \in [1 .. n + 3 -> Nat] /\ hi \in [1 .. n + 3 -> Nat]
  <2>1. \A i \in 1 .. n + 3 : r[i].base \in Nat /\ r[i].size \in Nat
    BY <1>1
  <2>2. \A i \in 1 .. n + 3 : r[i].base + r[i].size \in Nat
    BY <2>1
  <2> QED BY <2>1, <2>2
<1>7. /\ 1 \in 1 .. n + 3 /\ 2 \in 1 .. n + 3 /\ 3 \in 1 .. n + 3
      /\ \A k \in 1 .. n : k + 3 \in 1 .. n + 3
  BY <1>1
<1> HIDE DEF lo, hi
<1>8. InOrder(n, Page, t, lo, hi)
  <2>1. hi[1] = t[0] /\ lo[2] = t[n] /\ lo[3] = hi[2]
    BY <1>1, <1>5, <1>7
  <2>2. \A k \in 1 .. n : lo[k + 3] = t[k - 1] + Page /\ hi[k + 3] = t[k] /\ t[k - 1] <= t[k]
    BY <1>1, <1>5, <1>7
  <2>3. \A i \in 1 .. n + 3 : lo[i] <= hi[i]
    <3> TAKE i \in 1 .. n + 3
    <3>1. r[i].base \in Nat /\ r[i].size \in Nat
      BY <1>1
    <3> QED BY <3>1, <1>5
  <2> QED BY <2>1, <2>2, <2>3, <1>1, <1>6 DEF InOrder
<1>9. /\ \A i, j \in 1 .. n + 3 : i < j => hi[i] <= lo[j] \/ hi[j] <= lo[i]
      /\ \A k \in 1 .. n, j \in 1 .. n + 3 : hi[j] <= t[k - 1] \/ t[k - 1] + Page <= lo[j]
  BY <1>1, <1>4, <1>8, OneAfterTheOther
<1>10. ASSUME NEW i \in 1 .. n + 3, NEW j \in 1 .. n + 3, hi[i] <= lo[j]
      PROVE  Pages(r[i]) \cap Pages(r[j]) = {}
  <2> DEFINE q == r[i]
             z == r[j]
  <2>1. /\ q.base \in Nat /\ q.size \in Nat \ {0} /\ z.base \in Nat /\ z.size \in Nat \ {0}
        /\ z.base % Page = 0 /\ q.base + q.size <= z.base
    BY <1>1, <1>5, <1>10
  <2> HIDE DEF q, z
  <2>2. Pages(q) \cap Pages(z) = {}
    BY <1>4, <2>1, Beside
  <2> QED BY <2>2 DEF q, z
<1>12. \A i, j \in DOMAIN r : i # j => Pages(r[i]) \cap Pages(r[j]) = {}
  <2>1. \A i, j \in 1 .. n + 3 : i < j => Pages(r[i]) \cap Pages(r[j]) = {}
    BY <1>9, <1>10
  <2>2. \A i, j \in 1 .. n + 3 : i # j => i < j \/ j < i
    BY <1>1
  <2> QED BY <2>1, <2>2, <1>1
<1>13. ASSUME NEW k \in DOMAIN th, NEW j \in DOMAIN r
       PROVE  PageOf(th[k].stack_top - th[k].stack_size) - 1 \notin Pages(r[j])
  <2> DEFINE x == t[k - 1]
             g == [base |-> x, size |-> Page]
             z == r[j]
  <2>1. k \in 1 .. n /\ j \in 1 .. n + 3
    BY <1>1, <1>2
  <2>2. x \in Nat
    <3>1. k - 1 \in 0 .. n
      BY <2>1, <1>1
    <3> QED BY <3>1, <1>1
  <2>3. th[k].stack_top - th[k].stack_size = x + Page
    <3>1. th[k].stack_top = t[k] /\ th[k].stack_size = r[k + 3].size
      BY <1>2, <1>3, <2>1
    <3>2. r[k + 3].base = x + Page /\ r[k + 3].base + r[k + 3].size = t[k]
      BY <1>1, <2>1
    <3>3. r[k + 3].size \in Nat
      BY <1>1, <1>7, <2>1
    <3> HIDE DEF x
    <3> QED BY <3>1, <3>2, <3>3, <2>2, <1>4
  <2>4. (x + Page) % Page = 0
    <3>1. r[k + 3].base % Page = 0 /\ r[k + 3].base = x + Page
      BY <1>1, <1>7, <2>1
    <3> QED BY <3>1
  <2>5. x % Page = 0 /\ PageOf(x + Page) - 1 = x \div Page /\ (x + Page - 1) \div Page = x \div Page
    <3> HIDE DEF x
    <3> QED BY <2>2, <2>4, <1>4, PageShift DEF PageOf
  <2>6. Pages(g) = {x \div Page}
    <3>1. x \div Page \in Int
      BY <2>2, <1>4
    <3> HIDE DEF x
    <3> QED BY <2>5, <3>1 DEF Pages
  <2>7. g.base = x /\ g.size = Page
    OBVIOUS
  <2>8. z.base + z.size <= x \/ x + Page <= z.base
    BY <1>5, <1>9, <2>1
  <2>9. z.base \in Nat /\ z.size \in Nat \ {0} /\ z.base % Page = 0
    BY <1>1
  <2> HIDE DEF g, x, z
  <2>10. Pages(g) \cap Pages(z) = {}
    <3>1. CASE z.base + z.size <= x
      BY <3>1, <2>2, <2>5, <2>7, <2>9, <1>4, Beside
    <3>2. CASE x + Page <= z.base
      BY <3>2, <2>2, <2>7, <2>9, <1>4, Beside
    <3> QED BY <2>8, <3>1, <3>2
  <2> QED BY <2>3, <2>5, <2>6, <2>10 DEF z
<1> QED BY <1>12, <1>13 DEF r, s, th

-----------------------------------------------------------------------------
(* What is true at every step of the loader. *)

Stage == {"rom", "lib", "mod", "devices", "running", "aborted", "crashed", "hung"}

(* The module is laid out. *)
Up == (stage = "mod" /\ todo > 0) \/ stage \in {"devices", "running"}

Earlier == {"rom", "lib", "lib bss"}

LoadInv ==
  /\ setup \in Setups /\ stage \in Stage /\ todo \in 0 .. Len(Thunks) + 1 /\ lib \in Address
  /\ (stage \in {"rom", "lib"} \/ (stage = "mod" /\ todo = 0)) => \A p \in DOMAIN mapped : mapped[p] \in Earlier
  /\ Up => /\ Comeable(setup.mod) /\ module = Laid(setup.mod) /\ GuardsFree
           /\ \A i \in DOMAIN ModRanges(setup.mod) : Mappable(ModRanges(setup.mod)[i])

LEMMA ThunksFact == Len(Thunks) = 11 /\ DOMAIN Thunks = 1 .. 11
BY DEF Thunks, RomThunks

LEMMA LoadStart == ASSUME LoaderAssumption, LoaderInit PROVE LoadInv
<1>1. 0 \in Address
  BY DEF LoaderAssumption, Address
<1> QED BY <1>1, ThunksFact DEF LoadInv, LoaderInit, Stage, Up

(* The program goes on, or it ends, and nothing else changes. *)
Passes ==
  /\ UNCHANGED <<setup, todo, mapped, jumps, lib, module>>
  /\ \/ stage' \in {stage, "aborted", "crashed", "hung"}
     \/ stage = "devices" /\ stage' = "running"

LEMMA PassInv == ASSUME LoadInv, Passes PROVE LoadInv'
<1>1. UNCHANGED <<setup, todo, mapped, jumps, lib, module>>
  BY DEF Passes
<1>2. stage' \in Stage
  BY DEF Passes, Stage, LoadInv
<1>3. ModRanges(setup.mod)' = ModRanges(setup.mod) /\ Laid(setup.mod)' = Laid(setup.mod)
      /\ (Comeable(setup.mod)' <=> Comeable(setup.mod)) /\ (GuardsFree' <=> GuardsFree)
  BY <1>1 DEF ModRanges, Laid, Comeable, GuardsFree
<1>4. Up' => Up
  BY <1>1 DEF Up, Passes
<1>5. (stage' \in {"rom", "lib"} \/ (stage' = "mod" /\ todo' = 0))
        => (stage \in {"rom", "lib"} \/ (stage = "mod" /\ todo = 0))
  BY <1>1 DEF Passes
<1> QED BY <1>1, <1>2, <1>3, <1>4, <1>5 DEF LoadInv

(* A step maps the ranges of its section, or it ends the program. *)
LEMMA MapOrEnd ==
  ASSUME NEW ranges, NEW image, NEW context_size, NEW mod, Map(ranges, image, context_size, mod)
  PROVE  \/ Passes
         \/ /\ \A i \in DOMAIN ranges : Mappable(ranges[i])
            /\ mapped' = Overlay(ranges) /\ jumps' = JumpsAfter(ranges, image)
            /\ lib' = context_size /\ module' = mod /\ todo' = 1 /\ setup' = setup /\ stage' = stage
BY DEF Map, End, Passes

LEMMA OverlayFacts ==
  ASSUME NEW ranges, NEW O, \A i \in DOMAIN ranges : ranges[i].owner \in O, DOMAIN ranges \subseteq Nat,
         \E m \in Nat : \A i \in DOMAIN ranges : i <= m
  PROVE  \A p \in DOMAIN Overlay(ranges) :
           IF \E i \in DOMAIN ranges : p \in Pages(ranges[i])
             THEN Overlay(ranges)[p] \in O
             ELSE p \in DOMAIN mapped /\ Overlay(ranges)[p] = mapped[p]
<1> DEFINE pages == UNION {Pages(ranges[i]) : i \in DOMAIN ranges}
           last(p) == CHOOSE i \in DOMAIN ranges :
                        p \in Pages(ranges[i]) /\ \A j \in DOMAIN ranges : p \in Pages(ranges[j]) => j <= i
<1>1. Overlay(ranges) = [p \in DOMAIN mapped \cup pages |->
                           IF p \in pages THEN ranges[last(p)].owner ELSE mapped[p]]
  BY DEF Overlay
<1>2. ASSUME NEW p \in pages PROVE last(p) \in DOMAIN ranges
  <2> DEFINE I == {i \in DOMAIN ranges : p \in Pages(ranges[i])}
  <2>1. PICK m \in Nat : \A i \in DOMAIN ranges : i <= m
    OBVIOUS
  <2>2. {m - i : i \in I} \in SUBSET Nat /\ {m - i : i \in I} # {}
    BY <1>2, <2>1
  <2>3. PICK k \in {m - i : i \in I} : \A x \in {m - i : i \in I} : k <= x
    BY <2>2, Least
  <2>4. PICK i \in I : k = m - i
    BY <2>3
  <2>5. \A j \in I : j <= i
    <3> TAKE j \in I
    <3>1. m - i <= m - j /\ i \in Nat /\ j \in Nat
      BY <2>3, <2>4
    <3> QED BY <3>1
  <2>6. \E x \in DOMAIN ranges :
          p \in Pages(ranges[x]) /\ \A j \in DOMAIN ranges : p \in Pages(ranges[j]) => j <= x
    BY <2>4, <2>5
  <2> QED BY <2>6
<1> HIDE DEF last
<1> QED BY <1>1, <1>2

LEMMA LibFacts ==
  ASSUME LoaderAssumption, NEW st \in Setups, ~ Lacks(st.lib, Needs.lib), ~ LocksNothing(st.lib)
  PROVE  Ext(st.lib.met, 4).context_size \in Address /\ Ext(st.lib.met, 11).ranges[1].base \in Address
<1> DEFINE e == Ext(st.lib.met, 4)
           l == Ext(st.lib.met, 11)
<1>1. Has(st.lib.met, 4) /\ Has(st.lib.met, 11)
  BY DEF Lacks, Needs
<1>2. e \in ExtTypes /\ e.type = 4 /\ l \in ExtTypes /\ l.type = 11
      /\ Counted(l, Len(l.ranges), LockedSize)
  BY <1>1, ExtFacts
<1>3. ~ (l.length < ManExt + LockedSize)
  BY <1>1 DEF LocksNothing
<1> HIDE DEF e, l
<1>4. e.context_size \in Address
  BY <1>2 DEF ExtTypes, ProcessExt, ThreadsExt, MmioExt, ModAttrExt, SharedLibExt, LockedExt
<1>5. l \in LockedExt
  BY <1>2 DEF ExtTypes, ProcessExt, ThreadsExt, MmioExt, ModAttrExt, SharedLibExt, LockedExt
<1>6. l.ranges \in Seq([base : Address, size : Address]) /\ l.length \in Nat
  BY <1>5 DEF LockedExt
<1>7. Len(l.ranges) \in Nat
  BY <1>6
<1>8. Len(l.ranges) >= 1
  BY <1>2, <1>3, <1>6, <1>7 DEF Counted, ManExt, LockedSize
<1>9. l.ranges[1] \in [base : Address, size : Address]
  <2> DEFINE S == [base : Address, size : Address]
             q == l.ranges
  <2>1. q \in Seq(S) /\ Len(q) \in Nat /\ Len(q) >= 1
    BY <1>6, <1>7, <1>8
  <2> HIDE DEF S, q
  <2>2. q[1] \in S
    BY <2>1
  <2> QED BY <2>2 DEF S, q
<1> QED BY <1>4, <1>9 DEF e, l

(* The ranges of each section, and whom they belong to. *)
LEMMA Owners ==
  /\ \A s : DOMAIN RomRanges(s) = {1} /\ RomRanges(s)[1].owner = "rom" /\ RomRanges(s)[1].base = s.base
  /\ \A s : /\ DOMAIN LibRanges(s) \in {{1}, {1, 2}} /\ LibRanges(s)[1].base = Ext(s.met, 11).ranges[1].base
            /\ \A i \in DOMAIN LibRanges(s) : LibRanges(s)[i].owner \in {"lib", "lib bss"}
<1>1. \A s : DOMAIN RomRanges(s) = {1} /\ RomRanges(s)[1].owner = "rom" /\ RomRanges(s)[1].base = s.base
  BY DEF RomRanges, Span
<1>2. ASSUME NEW s
      PROVE  /\ DOMAIN LibRanges(s) \in {{1}, {1, 2}}
             /\ LibRanges(s)[1].base = Ext(s.met, 11).ranges[1].base
             /\ \A i \in DOMAIN LibRanges(s) : LibRanges(s)[i].owner \in {"lib", "lib bss"}
  <2> DEFINE base == Ext(s.met, 11).ranges[1].base
             size == Ext(s.met, 10).uncompressed_size
             bss_size == (Ext(s.met, 4).total_alloc_virtual_space - size) % Space
             bss == Span("lib bss", (base + size) % Space, bss_size)
             text == Span("lib", base, size)
  <2>1. LibRanges(s) = <<text>> \o (IF bss_size = 0 THEN << >> ELSE <<bss>>)
    BY DEF LibRanges
  <2>2. text.owner = "lib" /\ text.base = base /\ bss.owner = "lib bss"
    BY DEF Span
  <2> HIDE DEF text, bss, bss_size, base, size
  <2> DEFINE q == <<text>>
             r == IF bss_size = 0 THEN << >> ELSE <<bss>>
             S == {text, bss}
  <2>3. q \in Seq(S) /\ Len(q) = 1 /\ q[1] = text
    OBVIOUS
  <2>4. r \in Seq(S) /\ Len(r) \in {0, 1} /\ (Len(r) = 1 => r[1] = bss)
    <3>1. CASE bss_size = 0
      <4>1. r = << >> /\ Len(<< >>) = 0 /\ << >> \in Seq(S)
        BY <3>1
      <4> HIDE DEF r
      <4> QED BY <4>1
    <3>2. CASE bss_size # 0
      <4>1. r = <<bss>> /\ Len(<<bss>>) = 1 /\ <<bss>> \in Seq(S) /\ <<bss>>[1] = bss
        BY <3>2
      <4> HIDE DEF r
      <4> QED BY <4>1
    <3> QED BY <3>1, <3>2
  <2>5. LibRanges(s) = q \o r
    BY <2>1
  <2> HIDE DEF q, r, S
  <2>6. /\ DOMAIN (q \o r) = 1 .. Len(r) + 1
        /\ \A i \in 1 .. 1 : (q \o r)[i] = q[i]
        /\ \A k \in 1 .. Len(r) : (q \o r)[k + 1] = r[k]
    BY <2>3, <2>4, Joined
  <2>7. (q \o r)[1] = text /\ (Len(r) = 1 => (q \o r)[2] = bss)
    BY <2>3, <2>4, <2>6
  <2>8. DOMAIN (q \o r) \in {{1}, {1, 2}} /\ \A i \in DOMAIN (q \o r) : i = 1 \/ (i = 2 /\ Len(r) = 1)
    BY <2>4, <2>6
  <2> QED BY <2>2, <2>5, <2>7, <2>8 DEF base
<1> QED BY <1>1, <1>2

LEMMA LoadKeeps ==
  ASSUME LoaderAssumption, LoadInv, LoaderNext
  PROVE  LoadInv'
<1>1. CASE LoadRom
  <2>1. Passes \/ Map(RomRanges(setup.rom), setup.rom.jumps, lib, module)
    BY <1>1 DEF LoadRom, End, Passes
  <2>2. CASE Passes
    BY <2>2, PassInv
  <2>3. CASE ~ Passes
    <3>1. /\ mapped' = Overlay(RomRanges(setup.rom)) /\ lib' = lib /\ todo' = 1
          /\ setup' = setup /\ stage' = stage /\ stage = "rom"
      BY <1>1, <2>1, <2>3, MapOrEnd DEF LoadRom
    <3>2. \A p \in DOMAIN mapped : mapped[p] \in Earlier
      BY <3>1 DEF LoadInv
    <3>3. \A p \in DOMAIN Overlay(RomRanges(setup.rom)) : Overlay(RomRanges(setup.rom))[p] \in Earlier
      <4> DEFINE r == RomRanges(setup.rom)
      <4>1. DOMAIN r = {1} /\ \A i \in DOMAIN r : r[i].owner \in {"rom"}
        BY Owners
      <4>2. DOMAIN r \subseteq Nat /\ 1 \in Nat /\ \A i \in DOMAIN r : i <= 1
        BY <4>1
      <4> HIDE DEF r
      <4>3. \A p \in DOMAIN Overlay(r) : Overlay(r)[p] \in {"rom"} \/ (p \in DOMAIN mapped /\ Overlay(r)[p] = mapped[p])
        BY <4>1, <4>2, OverlayFacts
      <4>4. \A p \in DOMAIN Overlay(r) : Overlay(r)[p] \in Earlier
        BY <3>2, <4>3 DEF Earlier
      <4> QED BY <4>4 DEF r
    <3> QED BY <3>1, <3>3, ThunksFact DEF LoadInv, Up
  <2> QED BY <2>2, <2>3
<1>2. CASE LoadSyslib
  <2>1. Passes \/ /\ Map(LibRanges(setup.lib), setup.lib.jumps, Ext(setup.lib.met, 4).context_size, module)
                  /\ ~ Lacks(setup.lib, Needs.lib) /\ ~ LocksNothing(setup.lib)
    BY <1>2 DEF LoadSyslib, End, Passes
  <2>2. CASE Passes
    BY <2>2, PassInv
  <2>3. CASE ~ Passes
    <3>1. /\ mapped' = Overlay(LibRanges(setup.lib)) /\ lib' = Ext(setup.lib.met, 4).context_size
          /\ todo' = 1 /\ setup' = setup /\ stage' = stage /\ stage = "lib"
      BY <1>2, <2>1, <2>3, MapOrEnd DEF LoadSyslib
    <3>2. \A p \in DOMAIN mapped : mapped[p] \in Earlier
      BY <3>1 DEF LoadInv
    <3>3. \A p \in DOMAIN Overlay(LibRanges(setup.lib)) : Overlay(LibRanges(setup.lib))[p] \in Earlier
      <4> DEFINE r == LibRanges(setup.lib)
      <4>1. DOMAIN r \in {{1}, {1, 2}} /\ \A i \in DOMAIN r : r[i].owner \in {"lib", "lib bss"}
        BY Owners
      <4>2. DOMAIN r \subseteq Nat /\ 2 \in Nat /\ \A i \in DOMAIN r : i <= 2
        <5>1. DOMAIN r \subseteq {1, 2}
          BY <4>1
        <5> HIDE DEF r
        <5> QED BY <5>1
      <4> HIDE DEF r
      <4>3. \A p \in DOMAIN Overlay(r) :
              Overlay(r)[p] \in {"lib", "lib bss"} \/ (p \in DOMAIN mapped /\ Overlay(r)[p] = mapped[p])
        BY <4>1, <4>2, OverlayFacts
      <4>4. \A p \in DOMAIN Overlay(r) : Overlay(r)[p] \in Earlier
        BY <3>2, <4>3 DEF Earlier
      <4> QED BY <4>4 DEF r
    <3>4. lib' \in Address
      BY <2>1, <2>3, <3>1, LibFacts DEF LoadInv
    <3> QED BY <3>1, <3>3, <3>4, ThunksFact DEF LoadInv, Up
  <2> QED BY <2>2, <2>3
<1>3. CASE LoadModule
  <2>1. Passes \/ /\ Map(ModRanges(setup.mod), setup.mod.jumps, lib, Laid(setup.mod))
                  /\ Comeable(setup.mod)
    BY <1>3 DEF LoadModule, End, Passes, Comeable
  <2>2. CASE Passes
    BY <2>2, PassInv
  <2>3. CASE ~ Passes
    <3>1. /\ mapped' = Overlay(ModRanges(setup.mod)) /\ lib' = lib /\ module' = Laid(setup.mod)
          /\ todo' = 1 /\ setup' = setup /\ stage' = stage /\ stage = "mod"
          /\ \A i \in DOMAIN ModRanges(setup.mod) : Mappable(ModRanges(setup.mod)[i])
          /\ Comeable(setup.mod)
      BY <1>3, <2>1, <2>3, MapOrEnd DEF LoadModule
    <3>2. \A p \in DOMAIN mapped : mapped[p] \in Earlier
      BY <1>3, <3>1 DEF LoadInv, LoadModule
    <3>3. setup \in Setups /\ lib \in Address
      BY DEF LoadInv
    <3> DEFINE r == ModRanges(setup.mod)
               th == ModThreads(setup.mod)
               n == Len(Ext(setup.mod.met, 6).stack_size)
    <3>4. GuardsFree'
      <4>1. DOMAIN r = 1 .. n + 3 /\ n \in Nat
        BY <3>1, <3>3, LayoutFacts
      <4>2. \A k \in DOMAIN th, j \in DOMAIN r :
              PageOf(th[k].stack_top - th[k].stack_size) - 1 \notin Pages(r[j])
        BY <3>1, <3>3, ApartFacts
      <4>3. module'.threads = th
        BY <3>1 DEF Laid
      <4>4. DOMAIN r \subseteq Nat /\ n + 3 \in Nat /\ \A i \in DOMAIN r : i <= n + 3
        BY <4>1
      <4>5. mapped' = Overlay(r)
        BY <3>1
      <4> HIDE DEF r, th, n
      <4>6. \A p \in DOMAIN Overlay(r) :
              (\A j \in DOMAIN r : p \notin Pages(r[j])) => p \in DOMAIN mapped /\ Overlay(r)[p] = mapped[p]
        <5> DEFINE O == {r[i].owner : i \in DOMAIN r}
        <5>1. \A i \in DOMAIN r : r[i].owner \in O
          OBVIOUS
        <5> HIDE DEF O
        <5> QED BY <4>4, <5>1, OverlayFacts
      <4>7. ASSUME NEW k \in DOMAIN th
            PROVE  LET g == PageOf(th[k].stack_top - th[k].stack_size) - 1
                   IN  g \in DOMAIN Overlay(r) => Overlay(r)[g] \in Earlier
        BY <3>2, <4>2, <4>6
      <4> QED BY <4>3, <4>5, <4>7 DEF GuardsFree, Earlier
    <3>5. ModRanges(setup.mod)' = r /\ Comeable(setup.mod)'
      BY <3>1 DEF ModRanges, Comeable
    <3>6. module' = Laid(setup.mod)'
      BY <3>1
    <3> QED BY <3>1, <3>3, <3>4, <3>5, <3>6, ThunksFact DEF LoadInv, Stage, Up
  <2> QED BY <2>2, <2>3
<1>4. CASE InstallThunk
  <2>1. \/ Passes
        \/ todo' = todo + 1 /\ UNCHANGED <<setup, stage, mapped, lib, module>>
    BY <1>4 DEF InstallThunk, InsertRec, Insert, End, Passes
  <2>2. CASE Passes
    BY <2>2, PassInv
  <2>3. CASE todo' = todo + 1 /\ UNCHANGED <<setup, stage, mapped, lib, module>>
    <3>1. todo \in 1 .. Len(Thunks)
      BY <1>4 DEF InstallThunk
    <3>2. ModRanges(setup.mod)' = ModRanges(setup.mod) /\ Laid(setup.mod)' = Laid(setup.mod)
          /\ (Comeable(setup.mod)' <=> Comeable(setup.mod)) /\ (GuardsFree' <=> GuardsFree)
      BY <2>3 DEF ModRanges, Laid, Comeable, GuardsFree
    <3>3. todo' \in 0 .. Len(Thunks) + 1 /\ todo > 0 /\ todo' > 0
      BY <2>3, <3>1, ThunksFact
    <3> QED BY <2>3, <3>2, <3>3 DEF LoadInv, Up
  <2> QED BY <2>1, <2>2, <2>3
<1>5. CASE Loaded
  <2>1. /\ stage \in {"rom", "lib", "mod"} /\ todo > Len(Thunks) /\ todo' = 0
        /\ UNCHANGED <<setup, mapped, jumps, lib, module>>
        /\ stage' = [rom |-> "lib", lib |-> "mod", mod |-> "devices"][stage]
    BY <1>5 DEF Loaded
  <2>2. ModRanges(setup.mod)' = ModRanges(setup.mod) /\ Laid(setup.mod)' = Laid(setup.mod)
        /\ (Comeable(setup.mod)' <=> Comeable(setup.mod)) /\ (GuardsFree' <=> GuardsFree)
    BY <2>1 DEF ModRanges, Laid, Comeable, GuardsFree
  <2>3. \/ stage = "rom" /\ stage' = "lib"
        \/ stage = "lib" /\ stage' = "mod"
        \/ stage = "mod" /\ stage' = "devices"
    BY <2>1
  <2>4. todo > 0 /\ 0 \in 0 .. Len(Thunks) + 1
    BY <2>1, ThunksFact DEF LoadInv
  <2> QED BY <2>1, <2>2, <2>3, <2>4 DEF LoadInv, Up, Stage
<1> QED BY <1>1, <1>2, <1>3, <1>4, <1>5 DEF LoaderNext

(* A step of the whole program is one of the loader or leaves its state.    *)
LEMMA KernelStepOfLoader ==
  ASSUME [KernelNext]_<<loading, kernel>>
  PROVE  LoaderNext \/ Passes
<1>1. CASE Load
  BY <1>1 DEF Load
<1>2. CASE StartThread
  BY <1>2 DEF StartThread, End, Passes
<1>3. CASE CallTls
  BY <1>3 DEF CallTls, GetTlsPtr, loading, Passes
<1>4. CASE CallSeg
  BY <1>4 DEF CallSeg, SegAccess, Crashes, End, loading, Passes
<1>5. CASE CallSync
  BY <1>5 DEF CallSync, SyncList, loading, Passes
<1>6. CASE CallLock
  BY <1>6 DEF CallLock, DmaLockEx, Crashes, End, loading, Passes
<1>7. CASE KeepTable
  BY <1>7 DEF KeepTable, Grant, loading, Passes
<1>8. CASE UNCHANGED <<loading, kernel>>
  BY <1>8 DEF loading, Passes
<1> QED BY <1>1, <1>2, <1>3, <1>4, <1>5, <1>6, <1>7, <1>8 DEF KernelNext

LEMMA LoadApart == ASSUME LoaderAssumption, LoadInv PROVE RangesApart
<1>1. ASSUME IsLoaded
      PROVE  /\ Comeable(setup.mod) /\ GuardsFree /\ setup \in Setups /\ lib \in Address
             /\ \A i \in DOMAIN ModRanges(setup.mod) : Mappable(ModRanges(setup.mod)[i])
  BY <1>1 DEF IsLoaded, LoadInv, Up
<1> QED BY <1>1, ApartFacts DEF RangesApart

(* Whatever sizes the manifest gives, a module that comes up has each range *)
(* in pages of its own and a free page below each stack                    *)
(* (populate_ranges_mod, map_ranges_mod).                                  *)
THEOREM NothingOverlaps == ASSUME LoaderAssumption PROVE KernelSpec => []RangesApart
<1>1. KernelInit => LoadInv
  BY LoadStart DEF KernelInit
<1>2. LoadInv /\ [KernelNext]_<<loading, kernel>> => LoadInv'
  BY KernelStepOfLoader, LoadKeeps, PassInv
<1>3. LoadInv => RangesApart
  BY LoadApart
<1> QED BY <1>1, <1>2, <1>3, PTL DEF KernelSpec

-----------------------------------------------------------------------------
(* Thread-local storage. *)

TlsInv ==
  /\ LoadInv
  /\ tls # NoSlot => stage \in {"running", "crashed"}
  /\ stage = "running" => words[TlsOf(Thread)] = TlsOf(Thread)
  /\ TlsIsOwn

(* The first thread of a module that is up. *)
LEMMA FirstThread ==
  ASSUME LoaderAssumption, LoadInv, Up
  PROVE  Thread.stack_top \in Int /\ Thread.stack_size \in Int /\ 1 \in DOMAIN module.threads
         /\ DOMAIN module.threads \subseteq Nat \ {0}
<1>1. Comeable(setup.mod) /\ setup \in Setups /\ module.threads = ModThreads(setup.mod)
  BY DEF LoadInv, Laid
<1> DEFINE n == Len(Ext(setup.mod.met, 6).stack_size)
           sizes == Ext(setup.mod.met, 6).stack_size
           t == Tops(setup.mod)
           th == ModThreads(setup.mod)
<1>2. /\ n \in Nat \ {0} /\ sizes \in [1 .. n -> Address] /\ t \in [0 .. n -> Address]
      /\ DOMAIN th = 1 .. n
      /\ \A i \in 1 .. n : th[i] = [stack_top |-> t[i], stack_size |-> sizes[i],
                                    thread_id |-> Ext(setup.mod.met, 5).main_thread_id + i - 1]
  BY <1>1, ThreadFacts
<1> HIDE DEF n, sizes, t, th
<1>3. 1 \in 1 .. n /\ 1 \in 0 .. n
  BY <1>2
<1>4. th[1].stack_top = t[1] /\ th[1].stack_size = sizes[1] /\ t[1] \in Address /\ sizes[1] \in Address
  BY <1>2, <1>3
<1>5. th[1].stack_top \in Int /\ th[1].stack_size \in Int
  BY <1>4 DEF Address
<1> QED BY <1>1, <1>2, <1>3, <1>5 DEF Thread, th

LEMMA TlsStays ==
  ASSUME TlsInv, LoadInv', UNCHANGED <<words, tls, module>>,
         stage' \in {stage, "crashed"} \/ tls = NoSlot, stage' = "running" => stage = "running"
  PROVE  TlsInv'
BY DEF TlsInv, TlsIsOwn, Thread, TlsOf, ArgsAt, NoSlot

LEMMA TlsGiven ==
  ASSUME LoaderAssumption, KernelAssumption, TlsInv, NEW i \in 0 .. 4, GetTlsPtr(i), LoadInv'
  PROVE  TlsInv'
<1>1. stage = "running" /\ UNCHANGED <<loading, words>>
  BY DEF GetTlsPtr, Calls
<1>2. PICK depth \in Depths :
        /\ Within(Thread, ArgsAt(Thread) - depth)
        /\ tls' = [slot |-> i, ptr |-> TlsOf(module.threads[CurrentThread(ArgsAt(Thread) - depth)]) - 4 * i]
  BY DEF GetTlsPtr
<1> DEFINE esp == ArgsAt(Thread) - depth
<1>3. /\ Thread.stack_top \in Int /\ Thread.stack_size \in Int /\ 1 \in DOMAIN module.threads
      /\ DOMAIN module.threads \subseteq Nat \ {0}
  BY <1>1, FirstThread DEF TlsInv, Up
<1>4. CurrentThread(esp) = 1
  <2> DEFINE C(k) == Within(module.threads[k], esp) /\ \A j \in 1 .. k - 1 : ~ Within(module.threads[j], esp)
  <2>1. C(1)
    BY <1>2 DEF Thread
  <2>2. ASSUME NEW k \in DOMAIN module.threads, C(k) PROVE k = 1
    <3>1. k \in Nat \ {0}
      BY <1>3
    <3>2. k # 1 => 1 \in 1 .. k - 1
      BY <3>1
    <3> QED BY <2>1, <2>2, <3>2
  <2>3. CurrentThread(esp) = CHOOSE k \in DOMAIN module.threads : C(k)
    BY DEF CurrentThread
  <2> HIDE DEF C
  <2>4. \E k \in DOMAIN module.threads : C(k)
    BY <1>3, <2>1
  <2> QED BY <2>2, <2>3, <2>4
<1>5. tls' = [slot |-> i, ptr |-> TlsOf(Thread) - 4 * i]
  BY <1>2, <1>4 DEF Thread
<1>6. depth \in Nat
  BY DEF KernelAssumption
<1>7. Thread.stack_top - 28 - depth >= Thread.stack_top - Thread.stack_size
  BY <1>2, <1>3, <1>6 DEF Within, ArgsAt, ArgsSize
<1>8. UNCHANGED <<module, stage>> /\ Thread' = Thread
  BY <1>1 DEF loading, Thread
<1>9. /\ tls'.ptr \in Thread.stack_top - Thread.stack_size .. Thread.stack_top - 4
      /\ tls'.ptr \notin {ArgsAt(Thread), ArgsAt(Thread) + 4}
      /\ tls'.slot = 0 => tls'.ptr = TlsOf(Thread)
  <2> DEFINE x == Thread.stack_top
             z == Thread.stack_size
  <2>1. tls'.ptr = x - 4 - 4 * i /\ tls'.slot = i
    BY <1>5 DEF TlsOf
  <2>2. x \in Int /\ z \in Int /\ x - 28 - depth >= x - z
    BY <1>3, <1>7
  <2>3. ArgsAt(Thread) = x - 28 /\ TlsOf(Thread) = x - 4
    BY <2>2 DEF ArgsAt, ArgsSize, TlsOf
  <2> HIDE DEF x, z
  <2>4. x - 4 - 4 * i \in x - z .. x - 4 /\ x - 4 - 4 * i \notin {x - 28, x - 28 + 4}
        /\ (i = 0 => x - 4 - 4 * i = x - 4)
    BY <2>2, <1>6
  <2> QED BY <2>1, <2>3, <2>4 DEF x, z
<1>10. words' = words /\ words[TlsOf(Thread)] = TlsOf(Thread)
  BY <1>1 DEF TlsInv
<1>11. TlsIsOwn'
  BY <1>8, <1>9, <1>10 DEF TlsIsOwn, ArgsAt
<1> QED BY <1>1, <1>8, <1>10, <1>11 DEF TlsInv, TlsOf

LEMMA TlsStep ==
  ASSUME LoaderAssumption, KernelAssumption, TlsInv, [KernelNext]_<<loading, kernel>>
  PROVE  TlsInv'
<1>1. LoadInv'
  BY KernelStepOfLoader, LoadKeeps, PassInv DEF TlsInv
<1>2. CASE Load
  <2>1. stage \in {"rom", "lib", "mod"} /\ stage' # "running"
    <3>1. CASE LoadRom
      BY <3>1 DEF LoadRom, Map, End
    <3>2. CASE LoadSyslib
      BY <3>2 DEF LoadSyslib, Map, End
    <3>3. CASE LoadModule
      BY <3>3 DEF LoadModule, Map, End
    <3>4. CASE InstallThunk
      BY <3>4 DEF InstallThunk, InsertRec, Insert, End
    <3>5. CASE Loaded
      BY <3>5 DEF Loaded
    <3> QED BY <1>2, <3>1, <3>2, <3>3, <3>4, <3>5 DEF Load, LoaderNext
  <2>2. tls = NoSlot /\ tls' = tls
    BY <1>2, <2>1 DEF TlsInv, Load, kernel
  <2> QED BY <1>1, <2>1, <2>2 DEF TlsInv, TlsIsOwn
<1>3. CASE StartThread
  <2>1. tls = NoSlot /\ tls' = tls /\ stage = "devices"
    BY <1>3 DEF StartThread, TlsInv
  <2>2. ASSUME stage' = "running" PROVE words'[TlsOf(Thread)'] = TlsOf(Thread)'
    <3>1. /\ words' = [a \in {TlsOf(Thread), ArgsAt(Thread), ArgsAt(Thread) + 4} |->
                         CASE a = ArgsAt(Thread) -> 0
                           [] a = ArgsAt(Thread) + 4 -> Thread.thread_id
                           [] OTHER -> a]
          /\ module' = module
      BY <1>3, <2>2 DEF StartThread, End
    <3>2. Thread.stack_top \in Int
      BY <2>1, FirstThread DEF Up, TlsInv
    <3>3. TlsOf(Thread) # ArgsAt(Thread) /\ TlsOf(Thread) # ArgsAt(Thread) + 4
      BY <3>2 DEF TlsOf, ArgsAt, ArgsSize
    <3>4. words'[TlsOf(Thread)] = TlsOf(Thread)
      BY <3>1, <3>3
    <3> QED BY <3>1, <3>4 DEF Thread, TlsOf
  <2> QED BY <1>1, <2>1, <2>2 DEF TlsInv, TlsIsOwn
<1>4. CASE CallTls
  BY <1>1, <1>4, TlsGiven DEF CallTls
<1>5. CASE CallSeg
  BY <1>1, <1>5, TlsStays DEF CallSeg, SegAccess, Calls, Crashes, End, loading, kernel
<1>6. CASE CallSync
  BY <1>1, <1>6, TlsStays DEF CallSync, SyncList, loading
<1>7. CASE CallLock
  BY <1>1, <1>7, TlsStays DEF CallLock, DmaLockEx, Calls, Crashes, End, loading, kernel
<1>8. CASE KeepTable
  BY <1>1, <1>8, TlsStays DEF KeepTable, Grant, loading
<1>9. CASE UNCHANGED <<loading, kernel>>
  BY <1>1, <1>9, TlsStays DEF loading, kernel
<1> QED BY <1>2, <1>3, <1>4, <1>5, <1>6, <1>7, <1>8, <1>9 DEF KernelNext

(* Firmware that asks for its thread-local storage gets a place of its own  *)
(* stack beside the arguments of main (get_tls_ptr, start_thread).          *)
THEOREM StorageIsOwn == ASSUME LoaderAssumption, KernelAssumption PROVE KernelSpec => []TlsIsOwn
<1>1. KernelInit => TlsInv
  <2> SUFFICES ASSUME KernelInit PROVE TlsInv
    OBVIOUS
  <2>1. LoadInv /\ tls = NoSlot /\ stage = "rom"
    BY LoadStart DEF KernelInit, LoaderInit
  <2> QED BY <2>1 DEF TlsInv, TlsIsOwn
<1>2. TlsInv /\ [KernelNext]_<<loading, kernel>> => TlsInv'
  BY TlsStep
<1>3. TlsInv => TlsIsOwn
  BY DEF TlsInv
<1> QED BY <1>1, <1>2, <1>3, PTL DEF KernelSpec

-----------------------------------------------------------------------------
(* Where calls of the functions that are named lead. *)

StageNo == CASE stage = "rom" -> 1 [] stage = "lib" -> 2 [] stage = "mod" -> 3 [] OTHER -> 4
Live == stage \in {"rom", "lib", "mod", "devices", "running"}

(* The thunk is in its place. *)
Put(n) == n.stage < StageNo \/ (n.stage = StageNo /\ n.order < todo)

(* A jump is there from an image that is mapped, or as part of a thunk.     *)
ByImage(a) ==
  \E i \in 1 .. 3 : /\ i < StageNo \/ (i = StageNo /\ todo > 0)
                    /\ a - ImageBase[i] \in DOMAIN ImageOf(i)
                    /\ jumps[a] = ImageOf(i)[a - ImageBase[i]]
ByThunk(a) == \E n \in Named : Put(n) /\ a \in Places(n)

LandsThere(n) == Lands(n.at, n.name) /\ (IsRecursive(n.name) => Leads(jumps, n.at) \in Beyond(n))

JumpInv ==
  (Live /\ PlacesApart) =>
    /\ \A a \in DOMAIN jumps : ByImage(a) \/ ByThunk(a)
    /\ \A n \in Named : Put(n) => Covered(n) \/ LandsThere(n)

LEMMA NamedFacts ==
  /\ \A n \in Named : /\ n.stage \in 1 .. 3 /\ n.order \in 1 .. 11 /\ n.name = Thunks[n.order]
                      /\ n.name \in DOMAIN setup[Stages[n.stage]].thunks
                      /\ n.at = setup[Stages[n.stage]].thunks[n.name]
  /\ \A i \in 1 .. 3, o \in 1 .. 11 :
       Thunks[o] \in DOMAIN setup[Stages[i]].thunks =>
         \E n \in Named : n.stage = i /\ n.order = o
  /\ \A m, n \in Named : m.stage = n.stage /\ m.order = n.order => m = n
<1> DEFINE Y == {y \in (1 .. 3) \X (1 .. Len(Thunks)) : Thunks[y[2]] \in DOMAIN setup[Stages[y[1]]].thunks}
           N(x) == [stage |-> x[1], order |-> x[2], name |-> Thunks[x[2]],
                    at |-> setup[Stages[x[1]]].thunks[Thunks[x[2]]]]
<1>1. Named = {N(x) : x \in Y}
  BY DEF Named
<1>2. \A x \in Y : x[1] \in 1 .. 3 /\ x[2] \in 1 .. 11 /\ Thunks[x[2]] \in DOMAIN setup[Stages[x[1]]].thunks
  BY ThunksFact
<1>3. \A i \in 1 .. 3, o \in 1 .. 11 : Thunks[o] \in DOMAIN setup[Stages[i]].thunks => <<i, o>> \in Y
  BY ThunksFact
<1>4. \A x : /\ N(x).stage = x[1] /\ N(x).order = x[2] /\ N(x).name = Thunks[x[2]]
             /\ N(x).at = setup[Stages[x[1]]].thunks[Thunks[x[2]]]
  OBVIOUS
<1>5. \A x, y \in Y : x[1] = y[1] /\ x[2] = y[2] => N(x) = N(y)
  OBVIOUS
<1>6. \A i, o : <<i, o>>[1] = i /\ <<i, o>>[2] = o
  OBVIOUS
<1> HIDE DEF Y, N
<1>7. \A n \in Named : \E x \in Y : n = N(x)
  BY <1>1
<1>8. \A i \in 1 .. 3, o \in 1 .. 11 :
        Thunks[o] \in DOMAIN setup[Stages[i]].thunks => \E n \in Named : n.stage = i /\ n.order = o
  <2> TAKE i \in 1 .. 3, o \in 1 .. 11
  <2> HAVE Thunks[o] \in DOMAIN setup[Stages[i]].thunks
  <2>1. N(<<i, o>>) \in Named
    BY <1>1, <1>3
  <2>2. N(<<i, o>>).stage = i /\ N(<<i, o>>).order = o
    BY <1>4, <1>6
  <2> QED BY <2>1, <2>2
<1>9. \A m, n \in Named : m.stage = n.stage /\ m.order = n.order => m = n
  BY <1>4, <1>5, <1>7
<1>10. \A n \in Named : /\ n.stage \in 1 .. 3 /\ n.order \in 1 .. 11 /\ n.name = Thunks[n.order]
                       /\ n.name \in DOMAIN setup[Stages[n.stage]].thunks
                       /\ n.at = setup[Stages[n.stage]].thunks[n.name]
  <2> TAKE n \in Named
  <2>1. PICK x \in Y : n = N(x)
    BY <1>7
  <2>2. n.stage = x[1] /\ n.order = x[2] /\ n.name = Thunks[x[2]]
        /\ n.at = setup[Stages[x[1]]].thunks[Thunks[x[2]]]
    BY <1>4, <2>1
  <2>3. x[1] \in 1 .. 3 /\ x[2] \in 1 .. 11 /\ Thunks[x[2]] \in DOMAIN setup[Stages[x[1]]].thunks
    BY <1>2
  <2> QED BY <2>2, <2>3
<1> QED BY <1>8, <1>9, <1>10

LEMMA StagesFact ==
  Stages[1] = "rom" /\ Stages[2] = "lib" /\ Stages[3] = "mod"
BY DEF Stages

(* What depends on the sections only. *)
LEMMA SetupOnly ==
  ASSUME setup' = setup
  PROVE  /\ Named' = Named /\ (PlacesApart' <=> PlacesApart) /\ ImageBase' = ImageBase
         /\ \A i : ImageOf(i)' = ImageOf(i)
         /\ \A n : Places(n)' = Places(n) /\ Beyond(n)' = Beyond(n)
<1>1. Named' = Named
  BY DEF Named
<1>2. ImageBase' = ImageBase /\ \A i : ImageOf(i)' = ImageOf(i)
  BY DEF ImageBase, ImageOf
<1>3. \A n : Beyond(n)' = Beyond(n)
  BY <1>2 DEF Beyond
<1>4. \A n : Places(n)' = Places(n)
  BY <1>3 DEF Places
<1>5. PlacesApart' <=> PlacesApart
  BY <1>1, <1>3, <1>4 DEF PlacesApart
<1> QED BY <1>1, <1>2, <1>3, <1>4, <1>5

(* The places of functions are addresses. *)
LEMMA ImageFacts ==
  ASSUME LoaderAssumption, setup \in Setups, NEW i \in 1 .. 3
  PROVE  \A o \in DOMAIN ImageOf(i) : o \in Nat /\ ImageOf(i)[o] \in Nat
<1>1. setup[Stages[i]] = setup.rom \/ setup[Stages[i]] = setup.lib \/ setup[Stages[i]] = setup.mod
  BY StagesFact
<1>2. IsSection(setup[Stages[i]])
  BY <1>1 DEF LoaderAssumption
<1> QED BY <1>2 DEF IsSection, ImageOf, Address

LEMMA PlaceFacts ==
  ASSUME LoaderAssumption, setup \in Setups, NEW n \in Named
  PROVE  n.at \in Address /\ Places(n) \subseteq Address
<1>1. n.stage \in 1 .. 3 /\ n.name \in DOMAIN setup[Stages[n.stage]].thunks
      /\ n.at = setup[Stages[n.stage]].thunks[n.name]
  BY NamedFacts
<1>2. setup[Stages[n.stage]] = setup.rom \/ setup[Stages[n.stage]] = setup.lib
      \/ setup[Stages[n.stage]] = setup.mod
  BY <1>1, StagesFact
<1>3. n.at \in Address
  BY <1>1, <1>2 DEF LoaderAssumption, IsSection
<1>4. ASSUME NEW a \in Beyond(n) PROVE a \in Address
  <2>1. PICK i \in 1 .. n.stage : /\ n.at - ImageBase[i] \in DOMAIN ImageOf(i)
                                  /\ a = (ImageOf(i)[n.at - ImageBase[i]] + n.at + JumpSize) % Space
    BY <1>4 DEF Beyond
  <2>2. i \in 1 .. 3
    BY <1>1
  <2> DEFINE x == ImageOf(i)[n.at - ImageBase[i]] + n.at + JumpSize
  <2>3. x \in Int /\ Space \in Nat \ {0}
    BY <1>3, <2>1, <2>2, ImageFacts DEF Address, JumpSize, LoaderAssumption
  <2> HIDE DEF x
  <2>4. x % Space \in Address
    BY <2>3, Remains DEF Address
  <2> QED BY <2>1, <2>4 DEF x
<1> QED BY <1>3, <1>4 DEF Places

(* A thunk that is put in leads to its function. *)
LEMMA Arrives ==
  ASSUME NEW w \in Nat \ {0}, NEW target \in 0 .. w - 1, NEW y \in Int
  PROVE  (((target - y) % w) + y) % w = target
<1> DEFINE x == target - y
           r == x % w
<1>1. x \in Int
  OBVIOUS
<1>2. r \in 0 .. w - 1
  <2> HIDE DEF x
  <2> QED BY <1>1, Remains
<1>3. PICK q \in Int : x = q * w + r
  <2> HIDE DEF x
  <2> QED BY <1>1, Quotient
<1> DEFINE z == r + y
<1>4. z \in Int /\ z = (-q) * w + target
  <2> HIDE DEF r
  <2> QED BY <1>2, <1>3
<1>5. PICK p \in Int : z = p * w + (z % w)
  <2> HIDE DEF z
  <2> QED BY <1>4, Quotient
<1>6. z % w \in 0 .. w - 1
  <2> HIDE DEF z
  <2> QED BY <1>4, Remains
<1> HIDE DEF z, r, x
<1> DEFINE c == p + q
           v == z % w
<1>7. c \in Int /\ v \in 0 .. w - 1 /\ target = c * w + v
  BY <1>4, <1>5, <1>6
<1> HIDE DEF c, v
<1>8. c = 0
  <2>1. CASE c >= 1
    <3>1. c * w >= w
      BY <2>1, <1>7
    <3> QED BY <3>1, <1>7
  <2>2. CASE c <= -1
    <3>1. c * w <= -w
      BY <2>2, <1>7
    <3> QED BY <3>1, <1>7
  <2> QED BY <2>1, <2>2, <1>7
<1>9. v = target
  BY <1>7, <1>8
<1> QED BY <1>9 DEF v, z, r, x

(* A range that is mapped leaves a function where it leads, or covers it.   *)
LEMMA MapLands ==
  ASSUME LoaderAssumption, setup \in Setups, setup' = setup,
         NEW ranges, NEW image, NEW n \in Named,
         DOMAIN ranges \subseteq Nat, 1 \in DOMAIN ranges, \E m \in Nat : \A i \in DOMAIN ranges : i <= m,
         \A i \in DOMAIN ranges : ranges[i].owner \in Later[n.stage],
         mapped' = Overlay(ranges), jumps' = JumpsAfter(ranges, image),
         Covered(n) \/ LandsThere(n)
  PROVE  Covered(n)' \/ LandsThere(n)'
<1> DEFINE Over(p) == \E i \in DOMAIN ranges : p \in Pages(ranges[i])
<1>1. \A p \in DOMAIN Overlay(ranges) :
        IF Over(p) THEN Overlay(ranges)[p] \in Later[n.stage]
                   ELSE p \in DOMAIN mapped /\ Overlay(ranges)[p] = mapped[p]
  BY OverlayFacts
<1>2. \A p : p \in DOMAIN mapped \/ Over(p) => p \in DOMAIN Overlay(ranges)
  BY DEF Overlay
<1>3. Places(n)' = Places(n) /\ Beyond(n)' = Beyond(n)
  BY SetupOnly
<1>4. CASE Covered(n)
  <2>0. PICK a \in Places(n) :
          \E b \in Bytes(a) : PageOf(b) \in DOMAIN mapped /\ mapped[PageOf(b)] \in Later[n.stage]
    BY <1>4 DEF Covered
  <2>1. PICK b \in Bytes(a) : PageOf(b) \in DOMAIN mapped /\ mapped[PageOf(b)] \in Later[n.stage]
    BY <2>0
  <2> HIDE DEF Over
  <2>2. PageOf(b) \in DOMAIN mapped' /\ mapped'[PageOf(b)] \in Later[n.stage]
    BY <1>1, <1>2, <2>1
  <2> QED BY <1>3, <2>1, <2>2 DEF Covered
<1>5. CASE \E a \in Places(n) : \E b \in Bytes(a) : Over(PageOf(b))
  <2>0. PICK a \in Places(n) : \E b \in Bytes(a) : Over(PageOf(b))
    BY <1>5
  <2>1. PICK b \in Bytes(a) : Over(PageOf(b))
    BY <2>0
  <2> HIDE DEF Over
  <2>2. PageOf(b) \in DOMAIN mapped' /\ mapped'[PageOf(b)] \in Later[n.stage]
    BY <1>1, <1>2, <2>1
  <2> QED BY <1>3, <2>1, <2>2 DEF Covered
<1>6. CASE LandsThere(n) /\ \A a \in Places(n) : \A b \in Bytes(a) : ~ Over(PageOf(b))
  <2>1. ASSUME NEW a \in Places(n), a \in DOMAIN jumps PROVE a \in DOMAIN jumps' /\ jumps'[a] = jumps[a]
    <3> DEFINE over(x) == \E i \in DOMAIN ranges, b \in Bytes(x) : PageOf(b) \in Pages(ranges[i])
               own == {x \in {ranges[1].base + o : o \in DOMAIN image} :
                         \A b \in Bytes(x) : PageOf(b) \in Pages(ranges[1])}
    <3>1. ~ over(a)
      BY <1>6
    <3>2. a \in Bytes(a)
      <4>1. a \in Int
        BY PlaceFacts DEF Address
      <4> QED BY <4>1 DEF Bytes, JumpSize
    <3>3. a \notin own
      BY <3>1, <3>2
    <3>4. jumps' = [x \in {b \in DOMAIN jumps : ~ over(b)} \cup own |->
                      IF x \in own THEN image[x - ranges[1].base] ELSE jumps[x]]
      BY DEF JumpsAfter
    <3> HIDE DEF over, own
    <3> QED BY <2>1, <3>1, <3>3, <3>4
  <2>2. n.at \in Places(n) /\ Beyond(n) \subseteq Places(n)
    BY DEF Places
  <2>3. n.at \in DOMAIN jumps /\ n.at \in DOMAIN jumps' /\ jumps'[n.at] = jumps[n.at]
    BY <1>6, <2>1, <2>2 DEF LandsThere, Lands
  <2>4. Leads(jumps', n.at) = Leads(jumps, n.at)
    BY <2>3 DEF Leads
  <2>5. CASE ~ IsRecursive(n.name)
    BY <1>6, <2>3, <2>4, <2>5 DEF LandsThere, Lands
  <2>6. CASE IsRecursive(n.name)
    <3> DEFINE x == Leads(jumps, n.at)
    <3>1. x \in Beyond(n) /\ x \in DOMAIN jumps /\ Leads(jumps, x) = Handlers[n.name]
      BY <1>6, <2>6 DEF LandsThere, Lands
    <3>2. x \in DOMAIN jumps' /\ jumps'[x] = jumps[x]
      BY <2>1, <2>2, <3>1
    <3>3. Leads(jumps', x) = Leads(jumps, x)
      BY <3>2 DEF Leads
    <3> QED BY <1>3, <2>3, <2>4, <2>6, <3>1, <3>2, <3>3 DEF LandsThere, Lands
  <2> QED BY <2>5, <2>6
<1> HIDE DEF Over
<1> QED BY <1>4, <1>5, <1>6

(* A thunk that is put in at a place of one function leaves the others.     *)
LEMMA InsertLands ==
  ASSUME setup' = setup, mapped' = mapped, PlacesApart, NEW m \in Named, NEW n \in Named, m # n,
         NEW wr \in Places(m), NEW operand,
         jumps' = [a \in {b \in DOMAIN jumps : Bytes(b) \cap Bytes(wr) = {}} \cup {wr} |->
                     IF a = wr THEN operand ELSE jumps[a]],
         \A a \in Places(n) : a \in Int,
         Covered(n) \/ LandsThere(n)
  PROVE  Covered(n)' \/ LandsThere(n)'
<1>1. Places(n)' = Places(n) /\ Beyond(n)' = Beyond(n)
  BY SetupOnly
<1>2. CASE Covered(n)
  BY <1>1, <1>2 DEF Covered
<1>3. CASE LandsThere(n)
  <2>1. ASSUME NEW a \in Places(n), a \in DOMAIN jumps PROVE a \in DOMAIN jumps' /\ jumps'[a] = jumps[a]
    <3>1. Bytes(a) \cap Bytes(wr) = {}
      BY DEF PlacesApart, Clash
    <3>2. a # wr
      <4>1. a \in Bytes(a)
        BY DEF Bytes, JumpSize
      <4> QED BY <3>1, <4>1
    <3> QED BY <2>1, <3>1, <3>2
  <2>2. n.at \in Places(n) /\ Beyond(n) \subseteq Places(n)
    BY DEF Places
  <2>3. n.at \in DOMAIN jumps /\ n.at \in DOMAIN jumps' /\ jumps'[n.at] = jumps[n.at]
    BY <1>3, <2>1, <2>2 DEF LandsThere, Lands
  <2>4. Leads(jumps', n.at) = Leads(jumps, n.at)
    BY <2>3 DEF Leads
  <2>5. CASE ~ IsRecursive(n.name)
    BY <1>3, <2>3, <2>4, <2>5 DEF LandsThere, Lands
  <2>6. CASE IsRecursive(n.name)
    <3> DEFINE x == Leads(jumps, n.at)
    <3>1. x \in Beyond(n) /\ x \in DOMAIN jumps /\ Leads(jumps, x) = Handlers[n.name]
      BY <1>3, <2>6 DEF LandsThere, Lands
    <3>2. x \in DOMAIN jumps' /\ jumps'[x] = jumps[x]
      BY <2>1, <2>2, <3>1
    <3>3. Leads(jumps', x) = Leads(jumps, x)
      BY <3>2 DEF Leads
    <3> QED BY <1>1, <2>3, <2>4, <2>6, <3>1, <3>2, <3>3 DEF LandsThere, Lands
  <2> QED BY <2>5, <2>6
<1> QED BY <1>2, <1>3

LEMMA StageNoFacts ==
  /\ stage = "rom" => StageNo = 1 /\ Stages[StageNo] = stage
  /\ stage = "lib" => StageNo = 2 /\ Stages[StageNo] = stage
  /\ stage = "mod" => StageNo = 3 /\ Stages[StageNo] = stage
  /\ stage \in {"devices", "running"} => StageNo = 4
  /\ StageNo \in 1 .. 4
BY DEF StageNo, Stages

LEMMA JumpsOfMap ==
  ASSUME LoaderAssumption, setup \in Setups, JumpInv, setup' = setup, stage' = stage,
         stage \in {"rom", "lib", "mod"}, todo = 0, todo' = 1,
         NEW ranges, NEW image, image = ImageOf(StageNo), ranges[1].base = ImageBase[StageNo],
         ranges[1].base \in Int, DOMAIN ranges \subseteq Nat, 1 \in DOMAIN ranges,
         \E m \in Nat : \A i \in DOMAIN ranges : i <= m,
         \A k \in 1 .. 3 : k < StageNo => \A i \in DOMAIN ranges : ranges[i].owner \in Later[k],
         mapped' = Overlay(ranges), jumps' = JumpsAfter(ranges, image)
  PROVE  JumpInv'
<1>1. SUFFICES ASSUME Live, PlacesApart
               PROVE  /\ \A a \in DOMAIN jumps' : ByImage(a)' \/ ByThunk(a)'
                      /\ \A n \in Named : Put(n)' => Covered(n)' \/ LandsThere(n)'
  BY SetupOnly DEF JumpInv, Live
<1>2. StageNo' = StageNo /\ StageNo \in 1 .. 3
  BY StageNoFacts DEF StageNo
<1>3. ASSUME NEW n \in Named PROVE Put(n)' <=> Put(n)
  <2>1. n.order \in 1 .. 11
    BY NamedFacts
  <2> QED BY <1>2, <2>1 DEF Put
<1>4. \A n \in Named : Put(n)' => Covered(n)' \/ LandsThere(n)'
  <2> TAKE n \in Named
  <2> HAVE Put(n)'
  <2>1. Put(n)
    BY <1>3
  <2>2. n.stage \in 1 .. 3 /\ n.stage < StageNo
    BY <2>1, NamedFacts DEF Put
  <2>3. Covered(n) \/ LandsThere(n)
    BY <1>1, <2>1 DEF JumpInv
  <2>4. \A i \in DOMAIN ranges : ranges[i].owner \in Later[n.stage]
    BY <2>2
  <2> QED BY <2>3, <2>4, MapLands
<1>5. ASSUME NEW a \in DOMAIN jumps' PROVE ByImage(a)' \/ ByThunk(a)'
  <2> DEFINE over(x) == \E i \in DOMAIN ranges, b \in Bytes(x) : PageOf(b) \in Pages(ranges[i])
             own == {x \in {ranges[1].base + o : o \in DOMAIN image} :
                       \A b \in Bytes(x) : PageOf(b) \in Pages(ranges[1])}
  <2>1. jumps' = [x \in {b \in DOMAIN jumps : ~ over(b)} \cup own |->
                    IF x \in own THEN image[x - ranges[1].base] ELSE jumps[x]]
    BY DEF JumpsAfter
  <2>2. own \subseteq {ranges[1].base + o : o \in DOMAIN image}
    OBVIOUS
  <2> HIDE DEF over, own
  <2>3. CASE a \in own
    <3>1. PICK o \in DOMAIN image : a = ranges[1].base + o
      BY <2>2, <2>3
    <3>2. o \in Nat
      BY <1>2, ImageFacts
    <3>3. a - ImageBase[StageNo] = o
      BY <3>1, <3>2
    <3>4. jumps'[a] = image[o]
      BY <2>1, <2>3, <3>3
    <3>5. ImageBase' = ImageBase /\ ImageOf(StageNo)' = ImageOf(StageNo)
      <4>1. \A i : ImageOf(i)' = ImageOf(i)
        BY SetupOnly
      <4> QED BY <4>1, <1>2, SetupOnly DEF ImageOf
    <3>6. /\ StageNo \in 1 .. 3 /\ StageNo' = StageNo /\ todo' > 0
          /\ a - ImageBase'[StageNo] \in DOMAIN ImageOf(StageNo)
          /\ jumps'[a] = ImageOf(StageNo)[a - ImageBase'[StageNo]]
      BY <1>2, <3>3, <3>4, <3>5
    <3>7. \A i : ImageOf(i)' = ImageOf(i)
      BY SetupOnly
    <3> QED BY <3>6, <3>7 DEF ByImage
  <2>4. CASE a \notin own
    <3>1. a \in DOMAIN jumps /\ jumps'[a] = jumps[a]
      BY <2>1, <2>4
    <3>2. CASE ByImage(a)
      <4>1. PICK i \in 1 .. 3 : /\ i < StageNo
                                /\ a - ImageBase[i] \in DOMAIN ImageOf(i)
                                /\ jumps[a] = ImageOf(i)[a - ImageBase[i]]
        BY <3>2 DEF ByImage
      <4>2. ImageBase' = ImageBase /\ ImageOf(i)' = ImageOf(i)
        BY SetupOnly
      <4> QED BY <1>2, <3>1, <4>1, <4>2 DEF ByImage
    <3>3. CASE ByThunk(a)
      <4>1. PICK n \in Named : Put(n) /\ a \in Places(n)
        BY <3>3 DEF ByThunk
      <4>2. Named' = Named /\ Places(n)' = Places(n)
        BY SetupOnly
      <4> QED BY <1>3, <4>1, <4>2 DEF ByThunk
    <3> QED BY <1>1, <3>1, <3>2, <3>3 DEF JumpInv
  <2> QED BY <2>3, <2>4
<1> QED BY <1>4, <1>5

LEMMA JumpsOfPass ==
  ASSUME JumpInv, Passes
  PROVE  JumpInv'
<1>1. SUFFICES ASSUME Live', PlacesApart' PROVE JumpInv'
  BY DEF JumpInv
<1>2. UNCHANGED <<setup, todo, mapped, jumps, lib, module>> /\ setup' = setup
  BY DEF Passes
<1>3. Live /\ StageNo' = StageNo
  BY <1>1 DEF Passes, Live, StageNo
<1>4. PlacesApart
  BY <1>1, <1>2, SetupOnly
<1>5. /\ Named' = Named /\ \A a : ByImage(a)' <=> ByImage(a)
      /\ \A n : Put(n)' <=> Put(n)
  BY <1>2, <1>3 DEF Named, ByImage, ImageBase, ImageOf, Put
<1>6. \A n : Places(n)' = Places(n) /\ Beyond(n)' = Beyond(n)
  BY <1>2, SetupOnly
<1>7. \A a : ByThunk(a)' <=> ByThunk(a)
  BY <1>5, <1>6 DEF ByThunk
<1>8. \A n : (Covered(n)' <=> Covered(n)) /\ (LandsThere(n)' <=> LandsThere(n))
  BY <1>2, <1>6 DEF Covered, LandsThere, Lands, Leads
<1>9. DOMAIN jumps' = DOMAIN jumps
  BY <1>2
<1> QED BY <1>3, <1>4, <1>5, <1>7, <1>8, <1>9 DEF JumpInv

LEMMA JumpsOfTurn ==
  ASSUME LoadInv, JumpInv, Loaded
  PROVE  JumpInv'
<1>1. SUFFICES ASSUME PlacesApart' PROVE JumpInv'
  BY DEF JumpInv
<1>2. /\ UNCHANGED <<setup, mapped, jumps, lib, module>> /\ setup' = setup /\ todo' = 0
      /\ stage \in {"rom", "lib", "mod"} /\ todo > 11 /\ todo \in Nat
      /\ stage' = [rom |-> "lib", lib |-> "mod", mod |-> "devices"][stage]
  BY ThunksFact DEF Loaded, LoadInv
<1>3. Live /\ PlacesApart
  BY <1>1, <1>2, SetupOnly DEF Live
<1>4. StageNo \in 1 .. 3 /\ StageNo' = StageNo + 1
  BY <1>2 DEF StageNo
<1>5. ASSUME NEW n \in Named PROVE Put(n)' <=> Put(n)
  <2>1. n.order \in 1 .. 11 /\ n.stage \in 1 .. 3
    BY NamedFacts
  <2> QED BY <1>2, <1>4, <2>1 DEF Put
<1>6. \A n : Places(n)' = Places(n) /\ Beyond(n)' = Beyond(n)
  BY <1>2, SetupOnly
<1>7. Named' = Named
  BY <1>2, SetupOnly
<1>8. ASSUME NEW a, ByImage(a) PROVE ByImage(a)'
  <2>1. PICK i \in 1 .. 3 : /\ i <= StageNo
                            /\ a - ImageBase[i] \in DOMAIN ImageOf(i)
                            /\ jumps[a] = ImageOf(i)[a - ImageBase[i]]
    BY <1>4, <1>8 DEF ByImage
  <2>2. ImageBase' = ImageBase /\ ImageOf(i)' = ImageOf(i)
    BY <1>2, SetupOnly
  <2>3. i < StageNo'
    BY <1>4, <2>1
  <2> QED BY <1>2, <2>1, <2>2, <2>3 DEF ByImage
<1>9. \A a : ByThunk(a) => ByThunk(a)'
  BY <1>5, <1>6, <1>7 DEF ByThunk
<1>10. \A n : (Covered(n)' <=> Covered(n)) /\ (LandsThere(n)' <=> LandsThere(n))
  BY <1>2, <1>6 DEF Covered, LandsThere, Lands, Leads
<1>11. DOMAIN jumps' = DOMAIN jumps
  BY <1>2
<1> QED BY <1>3, <1>5, <1>7, <1>8, <1>9, <1>10, <1>11 DEF JumpInv

(* What one thunk does: it is put in at a place of its function.            *)
LEMMA JumpsOfThunk ==
  ASSUME LoaderAssumption, LoadInv, JumpInv, InstallThunk
  PROVE  JumpInv'
<1>1. SUFFICES ASSUME Live', PlacesApart' PROVE JumpInv'
  BY DEF JumpInv
<1>2. CASE Passes
  BY <1>2, JumpsOfPass
<1>3. CASE ~ Passes
  <2> DEFINE name == Thunks[todo]
             at == setup[stage].thunks
  <2>1. /\ setup' = setup /\ stage' = stage /\ mapped' = mapped /\ todo' = todo + 1
        /\ stage \in {"rom", "lib", "mod"} /\ todo \in 1 .. 11
    BY <1>3, ThunksFact DEF InstallThunk, InsertRec, Insert, End, Passes
  <2>2. Live /\ PlacesApart /\ setup \in Setups
    BY <1>1, <2>1, SetupOnly DEF Live, LoadInv
  <2>3. StageNo \in 1 .. 3 /\ StageNo' = StageNo /\ Stages[StageNo] = stage
    BY <2>1, StageNoFacts DEF StageNo
  <2>4. Named' = Named /\ ImageBase' = ImageBase /\ \A i : ImageOf(i)' = ImageOf(i)
    BY <2>1, SetupOnly
  <2>5. \A n : Places(n)' = Places(n) /\ Beyond(n)' = Beyond(n)
    BY <2>1, SetupOnly
  <2>6. ASSUME NEW n \in Named
        PROVE  /\ Put(n) => Put(n)'
               /\ Put(n)' => Put(n) \/ (n.stage = StageNo /\ n.order = todo)
    <3>1. n.order \in 1 .. 11 /\ n.stage \in 1 .. 3
      BY NamedFacts
    <3> QED BY <2>1, <2>3, <3>1 DEF Put
  <2>7. CASE name \notin DOMAIN at
    <3>1. jumps' = jumps
      BY <1>3, <2>7 DEF InstallThunk
    <3>2. \A n \in Named : Put(n)' <=> Put(n)
      <4> TAKE n \in Named
      <4>1. ~ (n.stage = StageNo /\ n.order = todo)
        BY <2>3, <2>7, NamedFacts
      <4> QED BY <2>6, <4>1
    <3>3. \A a : ByImage(a) => ByImage(a)'
      BY <2>1, <2>3, <2>4, <3>1 DEF ByImage
    <3>4. \A a : ByThunk(a) => ByThunk(a)'
      BY <2>4, <2>5, <3>2 DEF ByThunk
    <3>5. \A n : (Covered(n)' <=> Covered(n)) /\ (LandsThere(n)' <=> LandsThere(n))
      BY <2>1, <2>5, <3>1 DEF Covered, LandsThere, Lands, Leads
    <3>6. DOMAIN jumps' = DOMAIN jumps
      BY <3>1
    <3> QED BY <2>2, <2>4, <3>2, <3>3, <3>4, <3>5, <3>6 DEF JumpInv
  <2>8. CASE name \in DOMAIN at
    <3>1. PICK m \in Named : m.stage = StageNo /\ m.order = todo
      BY <2>1, <2>3, <2>8, NamedFacts
    <3>2. m.name = name /\ m.at = at[name]
      BY <2>3, <3>1, NamedFacts
    <3>3. ~ Put(m) /\ Put(m)'
      BY <2>1, <2>3, <3>1 DEF Put
    <3>4. PICK wr : /\ IF IsRecursive(name) THEN m.at \in DOMAIN jumps /\ wr = Leads(jumps, m.at)
                                           ELSE wr = m.at
                    /\ Insert(wr, Handlers[name])
      BY <1>3, <2>8, <3>2 DEF InstallThunk, InsertRec, End, Passes
    <3> DEFINE operand == (Handlers[name] - wr - JumpSize) % Space
    <3>5. jumps' = [a \in {b \in DOMAIN jumps : Bytes(b) \cap Bytes(wr) = {}} \cup {wr} |->
                      IF a = wr THEN operand ELSE jumps[a]]
      BY <1>3, <3>4 DEF Insert, End, Passes
    <3>6. m.at \in Address /\ \A n \in Named : Places(n) \subseteq Address
      BY <2>2, PlaceFacts
    <3>7. \A x : x \in Address => x \in Int /\ x \in Bytes(x)
      BY DEF Address, Bytes, JumpSize
    <3>8. wr \in Places(m) /\ (IsRecursive(name) => wr \in Beyond(m))
      <4>1. CASE ~ IsRecursive(name)
        BY <3>4, <4>1 DEF Places
      <4>2. CASE IsRecursive(name)
        <5>1. m.at \in DOMAIN jumps /\ wr = Leads(jumps, m.at)
          BY <3>4, <4>2
        <5>2. ~ ByThunk(m.at)
          <6>1. SUFFICES ASSUME NEW n \in Named, Put(n), m.at \in Places(n) PROVE FALSE
            BY DEF ByThunk
          <6>2. n # m
            BY <3>3, <6>1
          <6>3. ~ Clash(m.at, m.at)
            <7>1. m.at \in Places(m)
              BY DEF Places
            <7> QED BY <2>2, <6>1, <6>2, <7>1 DEF PlacesApart
          <6> QED BY <3>6, <3>7, <6>3 DEF Clash
        <5>3. PICK i \in 1 .. 3 : /\ i < StageNo \/ (i = StageNo /\ todo > 0)
                                  /\ m.at - ImageBase[i] \in DOMAIN ImageOf(i)
                                  /\ jumps[m.at] = ImageOf(i)[m.at - ImageBase[i]]
          BY <2>2, <5>1, <5>2 DEF JumpInv, ByImage
        <5>4. i \in 1 .. m.stage
          BY <2>3, <3>1, <5>3
        <5>5. wr = (ImageOf(i)[m.at - ImageBase[i]] + m.at + JumpSize) % Space
          BY <5>1, <5>3 DEF Leads
        <5> QED BY <3>2, <4>2, <5>3, <5>4, <5>5 DEF Beyond, Places
      <4> QED BY <4>1, <4>2
    <3>9. wr \in Address
      BY <3>6, <3>8
    <3>10. wr \in DOMAIN jumps' /\ Leads(jumps', wr) = Handlers[name]
      <4>1. wr \in DOMAIN jumps' /\ jumps'[wr] = operand
        BY <3>5
      <4>2. Handlers[name] \in 0 .. Space - 1 /\ Space \in Nat \ {0}
        <5>1. name \in {Thunks[i] : i \in DOMAIN Thunks}
          BY <2>1, ThunksFact
        <5> QED BY <5>1 DEF LoaderAssumption, Address
      <4> DEFINE h == Handlers[name]
                 y == wr + JumpSize
      <4>3. y \in Int /\ h \in 0 .. Space - 1 /\ h - wr - JumpSize = h - y
        BY <3>7, <3>9, <4>2 DEF JumpSize
      <4>4. operand + wr + JumpSize = operand + y
        <5>1. operand \in Int
          <6> DEFINE z == h - wr - JumpSize
          <6>1. z \in Int
            BY <4>3
          <6> HIDE DEF z
          <6>2. z % Space \in Int
            BY <4>2, <6>1
          <6> QED BY <6>2 DEF z
        <5> HIDE DEF operand
        <5> QED BY <5>1, <3>7, <3>9 DEF JumpSize
      <4>5. operand = (h - y) % Space
        BY <4>3
      <4> HIDE DEF h, y, operand
      <4>6. (((h - y) % Space) + y) % Space = h
        BY <4>2, <4>3, Arrives
      <4> QED BY <4>1, <4>4, <4>5, <4>6 DEF Leads, h
    <3>11. LandsThere(m)'
      <4>1. CASE ~ IsRecursive(name)
        <5>1. wr = m.at
          BY <3>4, <4>1
        <5> QED BY <3>2, <3>10, <4>1, <5>1 DEF LandsThere, Lands
      <4>2. CASE IsRecursive(name)
        <5>1. m.at \in DOMAIN jumps /\ wr = Leads(jumps, m.at) /\ wr \in Beyond(m)
          BY <3>4, <3>8, <4>2
        <5>2. Bytes(m.at) \cap Bytes(wr) = {}
          BY <2>2, <5>1 DEF PlacesApart, Clash
        <5>3. m.at # wr
          BY <3>6, <3>7, <5>2
        <5>4. m.at \in DOMAIN jumps' /\ jumps'[m.at] = jumps[m.at]
          BY <3>5, <5>1, <5>2, <5>3
        <5>5. Leads(jumps', m.at) = wr
          BY <5>1, <5>4 DEF Leads
        <5> QED BY <2>5, <3>2, <3>10, <4>2, <5>1, <5>4, <5>5 DEF LandsThere, Lands
      <4> QED BY <4>1, <4>2
    <3>12. ASSUME NEW n \in Named, Put(n)' PROVE Covered(n)' \/ LandsThere(n)'
      <4>1. CASE n = m
        BY <3>11, <4>1
      <4>2. CASE n # m
        <5>1. Put(n)
          BY <2>6, <3>1, <3>12, <4>2, NamedFacts
        <5>2. Covered(n) \/ LandsThere(n)
          BY <2>2, <5>1 DEF JumpInv
        <5>3. \A a \in Places(n) : a \in Int
          BY <3>6, <3>7
        <5> HIDE DEF operand
        <5> QED BY <2>1, <2>2, <3>5, <3>8, <4>2, <5>2, <5>3, InsertLands
      <4> QED BY <4>1, <4>2
    <3>13. ASSUME NEW a \in DOMAIN jumps' PROVE ByImage(a)' \/ ByThunk(a)'
      <4>1. CASE a = wr
        BY <2>4, <2>5, <3>3, <3>8, <4>1 DEF ByThunk
      <4>2. CASE a # wr
        <5>1. a \in DOMAIN jumps /\ jumps'[a] = jumps[a]
          BY <3>5, <4>2
        <5>2. CASE ByImage(a)
          BY <2>1, <2>3, <2>4, <5>1, <5>2 DEF ByImage
        <5>3. CASE ByThunk(a)
          BY <2>4, <2>5, <2>6, <5>3 DEF ByThunk
        <5> QED BY <2>2, <5>1, <5>2, <5>3 DEF JumpInv
      <4> QED BY <4>1, <4>2
    <3> QED BY <2>4, <3>12, <3>13 DEF JumpInv
  <2> QED BY <2>7, <2>8
<1> QED BY <1>2, <1>3

LEMMA LaterFacts ==
  /\ {"lib", "lib bss"} \subseteq Later[1]
  /\ {"text", "heap", "bss", "stack"} \subseteq Later[1] \cap Later[2]
BY DEF Later

LEMMA JumpKeeps ==
  ASSUME LoaderAssumption, LoadInv, JumpInv, LoaderNext
  PROVE  JumpInv'
<1>0. setup \in Setups
  BY DEF LoadInv
<1>1. CASE LoadRom
  <2>1. CASE Passes
    BY <2>1, JumpsOfPass
  <2>2. CASE ~ Passes
    <3> DEFINE r == RomRanges(setup.rom)
    <3>1. /\ mapped' = Overlay(r) /\ jumps' = JumpsAfter(r, setup.rom.jumps) /\ todo' = 1 /\ todo = 0
          /\ setup' = setup /\ stage' = stage /\ stage = "rom"
      BY <1>1, <2>2, MapOrEnd DEF LoadRom, End, Passes
    <3>2. StageNo = 1 /\ ImageOf(StageNo) = setup.rom.jumps /\ ImageBase[StageNo] = setup.rom.base
      BY <3>1, StageNoFacts, StagesFact DEF ImageOf, ImageBase
    <3>3. DOMAIN r = {1} /\ r[1].base = setup.rom.base
      BY Owners
    <3>4. r[1].base \in Int
      BY <1>0, <3>3 DEF LoaderAssumption, IsSection, Address
    <3>5. DOMAIN r \subseteq Nat /\ 1 \in DOMAIN r /\ \E m \in Nat : \A i \in DOMAIN r : i <= m
      <4> HIDE DEF r
      <4>1. DOMAIN r \subseteq Nat /\ 1 \in DOMAIN r /\ 1 \in Nat /\ \A i \in DOMAIN r : i <= 1
        BY <3>3
      <4> QED BY <4>1
    <3>6. \A k \in 1 .. 3 : k < StageNo => \A i \in DOMAIN r : r[i].owner \in Later[k]
      BY <3>2
    <3> HIDE DEF r
    <3> QED BY <1>0, <3>1, <3>2, <3>3, <3>4, <3>5, <3>6, JumpsOfMap
  <2> QED BY <2>1, <2>2
<1>2. CASE LoadSyslib
  <2>1. CASE Passes
    BY <2>1, JumpsOfPass
  <2>2. CASE ~ Passes
    <3> DEFINE r == LibRanges(setup.lib)
    <3>1. /\ mapped' = Overlay(r) /\ jumps' = JumpsAfter(r, setup.lib.jumps) /\ todo' = 1 /\ todo = 0
          /\ setup' = setup /\ stage' = stage /\ stage = "lib"
          /\ ~ Lacks(setup.lib, Needs.lib) /\ ~ LocksNothing(setup.lib)
      BY <1>2, <2>2, MapOrEnd DEF LoadSyslib, End, Passes
    <3>2. StageNo = 2 /\ ImageOf(StageNo) = setup.lib.jumps
          /\ ImageBase[StageNo] = Ext(setup.lib.met, 11).ranges[1].base
      BY <3>1, StageNoFacts, StagesFact DEF ImageOf, ImageBase
    <3>3. /\ DOMAIN r \in {{1}, {1, 2}} /\ r[1].base = Ext(setup.lib.met, 11).ranges[1].base
          /\ \A i \in DOMAIN r : r[i].owner \in {"lib", "lib bss"}
      BY Owners
    <3>4. r[1].base \in Int
      <4>1. Ext(setup.lib.met, 11).ranges[1].base \in Address
        BY <1>0, <3>1, LibFacts
      <4>2. Address \subseteq Int
        BY <1>0 DEF Address, LoaderAssumption
      <4> HIDE DEF r
      <4> QED BY <3>3, <4>1, <4>2
    <3>5. DOMAIN r \subseteq Nat /\ 1 \in DOMAIN r /\ \E m \in Nat : \A i \in DOMAIN r : i <= m
      <4>1. DOMAIN r \subseteq {1, 2} /\ 1 \in DOMAIN r
        BY <3>3
      <4> HIDE DEF r
      <4>2. DOMAIN r \subseteq Nat /\ 2 \in Nat /\ \A i \in DOMAIN r : i <= 2
        BY <4>1
      <4> QED BY <4>1, <4>2
    <3>6. \A k \in 1 .. 3 : k < StageNo => \A i \in DOMAIN r : r[i].owner \in Later[k]
      <4>1. \A k \in 1 .. 3 : k < StageNo => k = 1
        BY <3>2
      <4> QED BY <3>3, <4>1, LaterFacts
    <3> HIDE DEF r
    <3> QED BY <1>0, <3>1, <3>2, <3>3, <3>4, <3>5, <3>6, JumpsOfMap
  <2> QED BY <2>1, <2>2
<1>3. CASE LoadModule
  <2>1. CASE Passes
    BY <2>1, JumpsOfPass
  <2>2. CASE ~ Passes
    <3> DEFINE r == ModRanges(setup.mod)
               n == Len(Ext(setup.mod.met, 6).stack_size)
    <3>1. /\ mapped' = Overlay(r) /\ jumps' = JumpsAfter(r, setup.mod.jumps) /\ todo' = 1 /\ todo = 0
          /\ setup' = setup /\ stage' = stage /\ stage = "mod" /\ Comeable(setup.mod)
      BY <1>3, <2>2, MapOrEnd DEF LoadModule, End, Passes, Comeable
    <3>2. StageNo = 3 /\ ImageOf(StageNo) = setup.mod.jumps
          /\ ImageBase[StageNo] = Ext(setup.mod.met, 5).priv_code_base_address
      BY <3>1, StageNoFacts, StagesFact DEF ImageOf, ImageBase
    <3>3. /\ DOMAIN r = 1 .. n + 3
          /\ r[1] = Span("text", Ext(setup.mod.met, 5).priv_code_base_address,
                         Ext(setup.mod.met, 10).uncompressed_size)
          /\ r[2].owner = "heap" /\ r[3].owner = "bss"
          /\ \A k \in 1 .. n : r[k + 3].owner = "stack"
      <4> DEFINE base == Ext(setup.mod.met, 5).priv_code_base_address
                 size == Ext(setup.mod.met, 10).uncompressed_size
                 heap == Ext(setup.mod.met, 5).default_heap_size
                 top == Tops(setup.mod)[n]
      <4>1. /\ DOMAIN r = 1 .. n + 3
            /\ r[1] = Span("text", base, size)
            /\ r[2] = Span("heap", top, heap)
            /\ r[3] = Span("bss", (top + heap) % Space, BssSize(setup.mod))
            /\ \A k \in 1 .. n : r[k + 3] = StackRange(setup.mod, k)
        BY <1>0, <3>1, RangeFacts
      <4>2. \A o, x, y : Span(o, x, y).owner = o
        BY DEF Span
      <4>3. \A k \in 1 .. n : StackRange(setup.mod, k).owner = "stack"
        BY DEF StackRange, Span
      <4> SUFFICES /\ DOMAIN r = 1 .. n + 3
                   /\ r[1] = Span("text", base, size)
                   /\ r[2].owner = "heap" /\ r[3].owner = "bss"
                   /\ \A k \in 1 .. n : r[k + 3].owner = "stack"
        OBVIOUS
      <4> HIDE DEF r, n, base, size, heap, top
      <4> QED BY <4>1, <4>2, <4>3
    <3>4. r[1].base = Ext(setup.mod.met, 5).priv_code_base_address /\ r[1].owner = "text"
      BY <3>3 DEF Span
    <3>5. r[1].base \in Int /\ n \in Nat \ {0}
      BY <1>0, <3>1, <3>4, ModFacts DEF Address
    <3> HIDE DEF r, n
    <3>6. DOMAIN r \subseteq Nat /\ 1 \in DOMAIN r /\ \E m \in Nat : \A i \in DOMAIN r : i <= m
      <4>1. DOMAIN r \subseteq Nat /\ 1 \in DOMAIN r /\ n + 3 \in Nat /\ \A i \in DOMAIN r : i <= n + 3
        BY <3>3, <3>5
      <4> QED BY <4>1
    <3>7. \A i \in DOMAIN r : r[i].owner \in {"text", "heap", "bss", "stack"}
      <4> TAKE i \in DOMAIN r
      <4>1. i \in 1 .. n + 3
        BY <3>3
      <4>2. CASE i \in {1, 2, 3}
        BY <3>3, <3>4, <4>2
      <4>3. CASE i \notin {1, 2, 3}
        <5>1. i - 3 \in 1 .. n /\ (i - 3) + 3 = i
          BY <3>5, <4>1, <4>3
        <5> QED BY <3>3, <5>1
      <4> QED BY <4>2, <4>3
    <3>8. \A k \in 1 .. 3 : k < StageNo => \A i \in DOMAIN r : r[i].owner \in Later[k]
      <4>1. \A k \in 1 .. 3 : k < StageNo => k = 1 \/ k = 2
        BY <3>2
      <4> QED BY <3>7, <4>1, LaterFacts
    <3> QED BY <1>0, <3>1, <3>2, <3>4, <3>5, <3>6, <3>8, JumpsOfMap
  <2> QED BY <2>1, <2>2
<1>4. CASE InstallThunk
  BY <1>4, JumpsOfThunk
<1>5. CASE Loaded
  BY <1>5, JumpsOfTurn
<1> QED BY <1>1, <1>2, <1>3, <1>4, <1>5 DEF LoaderNext

(* A call of a function that a section names comes to the emulator's own,   *)
(* as long as no two places are in each other's way (insert_thunk,          *)
(* insert_thunk_rec, map_ranges_lib, map_ranges_mod).                       *)
THEOREM CallsArrive == ASSUME LoaderAssumption PROVE KernelSpec => []ThunksLand
<1>1. KernelInit => LoadInv /\ JumpInv
  <2> SUFFICES ASSUME KernelInit PROVE LoadInv /\ JumpInv
    OBVIOUS
  <2>1. LoadInv /\ stage = "rom" /\ todo = 0 /\ jumps = << >>
    BY LoadStart DEF KernelInit, LoaderInit
  <2>2. \A n \in Named : ~ Put(n)
    BY <2>1, NamedFacts, StageNoFacts DEF Put
  <2>3. DOMAIN jumps = {}
    BY <2>1
  <2> QED BY <2>1, <2>2, <2>3 DEF JumpInv
<1>2. LoadInv /\ JumpInv /\ [KernelNext]_<<loading, kernel>> => (LoadInv /\ JumpInv)'
  BY KernelStepOfLoader, LoadKeeps, PassInv, JumpKeeps, JumpsOfPass
<1>3. LoadInv /\ JumpInv => ThunksLand
  <2> SUFFICES ASSUME LoadInv, JumpInv, IsLoaded, PlacesApart, NEW n \in Named
               PROVE  Covered(n) \/ Lands(n.at, n.name)
    BY DEF ThunksLand
  <2>1. StageNo = 4 /\ Live
    BY StageNoFacts DEF IsLoaded, Live
  <2>2. Put(n)
    BY <2>1, NamedFacts DEF Put
  <2> QED BY <2>1, <2>2 DEF JumpInv, LandsThere
<1> QED BY <1>1, <1>2, <1>3, PTL DEF KernelSpec

-----------------------------------------------------------------------------
(* The handoff of the ROM data (module Snowball), for every list of        *)
(* sections, every size of the buffer and of the header, and every sequence *)
(* of reads: firmware gets the stream and finds its blocks.                 *)

Section == [kind : Kinds, given : -1 .. Width - 1, len : Nat]

Block == [at : Nat, size : Nat, total : Nat]

Inv == TypeOK /\ ReadIsStream /\ WalkIsBlocks

(* The remainder by the width of the size field. *)
LEMMA Remainder ==
  ASSUME NEW n \in Nat
  PROVE  n % Width \in 0 .. Width - 1 /\ (n < Width => n % Width = n)
  BY SnowballAssumption

(* A section that does not end the program has data of a known size. *)
LEMMA SizeFacts ==
  ASSUME NEW s \in Section, ~ Aborts(s)
  PROVE  DataSize(s) \in Nat /\ Total(s) \in Nat \ {0} /\ SizeField(s) \in Nat
<1>1. s.kind \in Kinds /\ s.given \in -1 .. Width - 1 /\ s.len \in Nat
  BY DEF Section
<1>2. s.len % Width \in 0 .. Width - 1
  BY <1>1, Remainder
<1>3. DataSize(s) \in Nat
  BY <1>1, <1>2, SnowballAssumption DEF DataSize, Aborts, Kinds
<1>4. Total(s) \in Nat \ {0}
  BY <1>3, SnowballAssumption DEF Total
<1>5. SizeField(s) \in Nat
  BY <1>4, Remainder DEF SizeField
<1> QED BY <1>3, <1>4, <1>5

LEMMA InitInv == Init => Inv
<1> SUFFICES ASSUME Init PROVE Inv
  OBVIOUS
<1>1. sections \in Seq(Section)
  BY SnowballAssumption DEF Init, Section
<1>2. TypeOK
  <2>1. /\ <<>> \in Seq(Nat \X Nat) /\ Len(<<>>) = 0
        /\ <<>> \in Seq([at : Nat, size : Nat, total : Nat])
    OBVIOUS
  <2>2. Len(sections) \in Nat
    BY <1>1
  <2>3. /\ snowball_buffer \in Seq(Nat \X Nat) /\ Len(snowball_buffer) = snowball_wrptr
        /\ blocks \in Seq([at : Nat, size : Nat, total : Nat])
    BY <2>1 DEF Init
  <2>4. /\ next \in 1 .. Len(sections) + 1
        /\ snowball_wrptr \in 0 .. BufSize /\ snowball_rdptr \in 0 .. snowball_wrptr
    BY <2>2, SnowballAssumption DEF Init
  <2>5. /\ phase \in {"boot", "running", "aborted", "crashed"}
        /\ sections \in Lists /\ got \in Seq(Nat \X Nat) /\ refused \in BOOLEAN
    BY <2>1 DEF Init
  <2> QED BY <2>3, <2>4, <2>5 DEF TypeOK
<1>3. ReadIsStream /\ WalkIsBlocks
  BY DEF Init, ReadIsStream, WalkIsBlocks, Walkable
<1> QED BY <1>2, <1>3 DEF Inv

(* snowball_add of a block that fits. *)
LEMMA PutInv ==
  ASSUME Inv, NEW s \in Section, ~ Aborts(s), Fits(s), next \in Nat,
         snowball_buffer' = snowball_buffer \o Cells(next, Total(s)),
         snowball_wrptr' = snowball_wrptr + Total(s),
         blocks' = Append(blocks, [at |-> snowball_wrptr, size |-> SizeField(s),
                                   total |-> Total(s)]),
         snowball_rdptr' = snowball_rdptr, got' = got
  PROVE  /\ snowball_wrptr' \in 0 .. BufSize /\ snowball_rdptr' \in 0 .. snowball_wrptr'
         /\ snowball_buffer' \in Seq(Nat \X Nat)
         /\ Len(snowball_buffer') = snowball_wrptr'
         /\ blocks' \in Seq(Block)
         /\ ReadIsStream' /\ WalkIsBlocks'
<1> DEFINE block == [at |-> snowball_wrptr, size |-> SizeField(s), total |-> Total(s)]
           cells == Cells(next, Total(s))
<1>1. /\ DataSize(s) \in Nat /\ Total(s) \in Nat \ {0} /\ SizeField(s) \in Nat
      /\ snowball_wrptr \in 0 .. BufSize /\ snowball_rdptr \in 0 .. snowball_wrptr
      /\ snowball_buffer \in Seq(Nat \X Nat) /\ Len(snowball_buffer) = snowball_wrptr
      /\ blocks \in Seq(Block)
  BY SizeFacts DEF Inv, TypeOK, Block
<1>2. cells \in Seq(Nat \X Nat) /\ Len(cells) = Total(s)
  <2>1. \A k \in 1 .. Total(s) : <<next, k>> \in Nat \X Nat
    BY <1>1
  <2>2. [k \in 1 .. Total(s) |-> <<next, k>>] \in [1 .. Total(s) -> Nat \X Nat]
    BY <2>1
  <2>3. cells = [k \in 1 .. Total(s) |-> <<next, k>>]
    BY DEF Cells
  <2> HIDE DEF cells
  <2>4. cells \in Seq(Nat \X Nat)
    BY <2>2, <2>3, <1>1
  <2>5. Len(cells) = Total(s)
    BY <2>3, <1>1
  <2> QED BY <2>4, <2>5
<1>3. block \in Block
  BY <1>1, SnowballAssumption DEF Block
<1> HIDE DEF cells, block
<1>4. snowball_buffer' = snowball_buffer \o cells /\ blocks' = Append(blocks, block)
  BY DEF cells, block
<1>5. snowball_wrptr' \in 0 .. BufSize /\ snowball_rdptr' \in 0 .. snowball_wrptr'
  BY <1>1, SnowballAssumption DEF Fits
<1>6. /\ snowball_buffer' \in Seq(Nat \X Nat)
      /\ Len(snowball_buffer') = snowball_wrptr'
      /\ \A k \in 1 .. snowball_wrptr : snowball_buffer'[k] = snowball_buffer[k]
  <2>1. snowball_buffer \o cells \in Seq(Nat \X Nat)
    BY <1>1, <1>2, ConcatProperties
  <2>2. Len(snowball_buffer \o cells) = snowball_wrptr + Total(s)
    BY <1>1, <1>2, ConcatProperties
  <2>3. \A k \in 1 .. Len(snowball_buffer) : (snowball_buffer \o cells)[k] = snowball_buffer[k]
    BY <1>1, <1>2, ConcatProperties
  <2> QED BY <1>1, <1>4, <2>1, <2>2, <2>3
<1>7. ReadIsStream'
  BY <1>1, <1>5, <1>6 DEF Inv, ReadIsStream
<1>8. /\ blocks' \in Seq(Block) /\ Len(blocks') = Len(blocks) + 1
      /\ blocks'[Len(blocks) + 1] = block
      /\ \A i \in 1 .. Len(blocks) : blocks'[i] = blocks[i]
  BY <1>1, <1>3, <1>4
<1>9. WalkIsBlocks'
  <2> SUFFICES ASSUME \A i \in 1 .. Len(blocks') : blocks'[i].total < Width
               PROVE  Walkable'
    BY DEF WalkIsBlocks
  <2>1. Len(blocks) \in Nat
    BY <1>1
  <2>2. Walkable
    <3>1. \A i \in 1 .. Len(blocks) : blocks[i].total < Width
      BY <1>8, <2>1
    <3> QED BY <3>1 DEF Inv, WalkIsBlocks
  <2>3. block.at = snowball_wrptr /\ block.size = Total(s)
    <3>1. block.total < Width
      BY <1>8, <2>1
    <3>2. Total(s) % Width = Total(s)
      BY <3>1, <1>1, Remainder DEF block
    <3> QED BY <3>2 DEF block, SizeField
  <2>4. block.at + block.size = snowball_wrptr'
    BY <2>3
  <2>5. CASE blocks = <<>>
    <3>1. Len(blocks) = 0 /\ snowball_wrptr = 0
      BY <2>2, <2>5 DEF Walkable
    <3> QED BY <3>1, <1>8, <2>3, <2>4 DEF Walkable
  <2>6. CASE blocks # <<>>
    <3>1. Len(blocks) >= 1
      BY <1>1, <2>6
    <3>2. blocks'[1].at = 0
      BY <3>1, <1>8, <2>2, <2>6 DEF Walkable
    <3>3. ASSUME NEW i \in 2 .. Len(blocks')
          PROVE  blocks'[i - 1].at + blocks'[i - 1].size = blocks'[i].at
      <4>1. CASE i <= Len(blocks)
        <5>1. i - 1 \in 1 .. Len(blocks) /\ i \in 1 .. Len(blocks) /\ i \in 2 .. Len(blocks)
          BY <4>1, <2>1
        <5> QED BY <5>1, <1>8, <2>2 DEF Walkable
      <4>2. CASE i = Len(blocks) + 1
        <5>1. i - 1 = Len(blocks) /\ i - 1 \in 1 .. Len(blocks)
          BY <4>2, <2>1, <3>1
        <5>2. blocks[Len(blocks)].at + blocks[Len(blocks)].size = snowball_wrptr
          BY <2>2, <2>6 DEF Walkable
        <5> QED BY <5>1, <5>2, <4>2, <1>8, <2>3
      <4> QED BY <4>1, <4>2, <1>8, <2>1
    <3> QED BY <3>2, <3>3, <2>4, <1>8, <2>1 DEF Walkable
  <2> QED BY <2>5, <2>6
<1> QED BY <1>5, <1>6, <1>7, <1>8, <1>9

LEMMA AddSectionInv ==
  ASSUME Inv, AddSection
  PROVE  Inv'
<1> DEFINE s == sections[next]
<1>1. /\ next \in 1 .. Len(sections) /\ sections \in Lists
      /\ sections' = sections /\ snowball_rdptr' = snowball_rdptr
      /\ got' = got /\ refused' = refused /\ refused \in BOOLEAN
  BY DEF Inv, TypeOK, AddSection
<1>2. sections \in Seq(Section)
  BY <1>1, SnowballAssumption DEF Section
<1>3. s \in Section /\ next \in Nat /\ Len(sections) \in Nat
  BY <1>1, <1>2
<1>4. CASE Aborts(s)
  BY <1>1, <1>4 DEF AddSection, Inv, TypeOK, ReadIsStream, WalkIsBlocks, Walkable
<1>5. CASE ~ Aborts(s) /\ ~ Fits(s)
  <2>1. next' = next + 1 /\ phase' = phase
        /\ UNCHANGED <<snowball_buffer, snowball_wrptr, blocks>>
    BY <1>5 DEF AddSection, Add
  <2>2. next' \in 1 .. Len(sections') + 1
    BY <2>1, <1>1, <1>3
  <2> QED BY <1>1, <2>1, <2>2 DEF Inv, TypeOK, ReadIsStream, WalkIsBlocks, Walkable
<1>6. CASE ~ Aborts(s) /\ Fits(s)
  <2>1. /\ next' = next + 1 /\ phase' = phase
        /\ snowball_buffer' = snowball_buffer \o Cells(next, Total(s))
        /\ snowball_wrptr' = snowball_wrptr + Total(s)
        /\ blocks' = Append(blocks, [at |-> snowball_wrptr, size |-> SizeField(s),
                                     total |-> Total(s)])
    BY <1>6 DEF AddSection, Add
  <2> HIDE DEF s
  <2>2. /\ snowball_wrptr' \in 0 .. BufSize /\ snowball_rdptr' \in 0 .. snowball_wrptr'
        /\ snowball_buffer' \in Seq(Nat \X Nat)
        /\ Len(snowball_buffer') = snowball_wrptr'
        /\ blocks' \in Seq(Block)
        /\ ReadIsStream' /\ WalkIsBlocks'
    BY <1>1, <1>3, <1>6, <2>1, PutInv
  <2>3. next' \in 1 .. Len(sections') + 1
    BY <2>1, <1>1, <1>3
  <2>4. phase' \in {"boot", "running", "aborted", "crashed"}
    BY <2>1 DEF Inv, TypeOK
  <2> QED BY <1>1, <2>2, <2>3, <2>4 DEF Inv, TypeOK, Block
<1> QED BY <1>4, <1>5, <1>6

(* snowball_read that hands out a piece of the stream. *)
LEMMA ReadInv ==
  ASSUME Inv, NEW size \in 0 .. SizeMod - 1, NEW size2 \in Nat, Read(size, size2)
  PROVE  Inv'
<1>1. /\ snowball_wrptr \in 0 .. BufSize /\ snowball_rdptr \in 0 .. snowball_wrptr
      /\ BufSize \in Nat /\ Len(snowball_buffer) = snowball_wrptr
  BY SnowballAssumption DEF Inv, TypeOK
<1>2. /\ UNCHANGED <<sections, next, snowball_buffer, snowball_wrptr, blocks>>
      /\ refused' = FALSE /\ phase' \in {phase, "crashed"}
  BY DEF Read
<1>3. CASE UNCHANGED <<got, snowball_rdptr>>
  BY <1>2, <1>3 DEF Inv, TypeOK, ReadIsStream, WalkIsBlocks, Walkable
<1>4. CASE /\ Turn(size) >= 0
           /\ got' = got \o [k \in 1 .. Turn(size) |-> Byte(snowball_rdptr + k)]
           /\ snowball_rdptr' = snowball_rdptr + Turn(size)
  <2> DEFINE piece == [k \in 1 .. Turn(size) |-> Byte(snowball_rdptr + k)]
  <2>1. Turn(size) \in 0 .. snowball_wrptr - snowball_rdptr
    BY <1>1, <1>4, SnowballAssumption DEF Turn, AsInt
  <2>2. snowball_rdptr' \in 0 .. snowball_wrptr'
    BY <2>1, <1>1, <1>2, <1>4
  <2>0. piece \in Seq(Nat \X Nat)
    <3>1. ASSUME NEW k \in 1 .. Turn(size)
          PROVE  Byte(snowball_rdptr + k) \in Nat \X Nat
      <4>1. snowball_rdptr + k \in 1 .. Len(snowball_buffer)
        BY <2>1, <1>1
      <4>2. snowball_buffer \in Seq(Nat \X Nat)
        BY DEF Inv, TypeOK
      <4> QED BY <4>1, <4>2 DEF Byte
    <3>2. piece \in [1 .. Turn(size) -> Nat \X Nat]
      BY <3>1
    <3>3. Turn(size) \in Nat
      BY <2>1, <1>1
    <3> HIDE DEF piece
    <3> QED BY <3>2, <3>3
  <2>3. TypeOK'
    <3>1. got \in Seq(Nat \X Nat)
      BY DEF Inv, TypeOK
    <3>2. got \o piece \in Seq(Nat \X Nat)
      BY <2>0, <3>1, ConcatProperties
    <3>3. got' \in Seq(Nat \X Nat)
      BY <3>2, <1>4
    <3> QED BY <1>2, <2>2, <3>3 DEF Inv, TypeOK
  <2>4. ReadIsStream'
    <3>1. /\ Len(got) = snowball_rdptr
          /\ \A k \in 1 .. snowball_rdptr : got[k] = snowball_buffer[k]
      BY DEF Inv, ReadIsStream
    <3>2. Len(piece) = Turn(size) /\ \A j \in 1 .. Turn(size) : piece[j] = Byte(snowball_rdptr + j)
      BY <2>1
    <3>5. got' = got \o piece /\ snowball_buffer' = snowball_buffer
      BY <1>2, <1>4
    <3>6. got \in Seq(Nat \X Nat)
      BY DEF Inv, TypeOK
    <3> HIDE DEF piece
    <3>7. \A k \in 1 .. Len(got) + Len(piece) :
            (got \o piece)[k] = IF k <= Len(got) THEN got[k] ELSE piece[k - Len(got)]
      BY <2>0, <3>6, ConcatProperties
    <3>3. Len(got \o piece) = snowball_rdptr + Turn(size)
      BY <2>0, <3>6, <3>1, <3>2, ConcatProperties
    <3>4. ASSUME NEW k \in 1 .. snowball_rdptr + Turn(size)
          PROVE  (got \o piece)[k] = snowball_buffer[k]
      <4>0. k \in 1 .. Len(got) + Len(piece) /\ k \in Int
        BY <3>1, <3>2, <2>1, <1>1
      <4>1. CASE k <= snowball_rdptr
        <5>1. (got \o piece)[k] = got[k] /\ k \in 1 .. snowball_rdptr
          BY <4>0, <4>1, <3>1, <3>7
        <5> QED BY <5>1, <3>1
      <4>2. CASE k > snowball_rdptr
        <5>1. k - snowball_rdptr \in 1 .. Turn(size)
          BY <4>2, <2>1, <1>1
        <5>2. (got \o piece)[k] = piece[k - snowball_rdptr]
          BY <4>0, <4>2, <1>1, <3>1, <3>7
        <5>3. piece[k - snowball_rdptr] = Byte(k)
          <6>1. snowball_rdptr + (k - snowball_rdptr) = k
            BY <2>1, <1>1
          <6> QED BY <5>1, <6>1, <3>2
        <5>4. Byte(k) = snowball_buffer[k]
          BY <2>1, <1>1 DEF Byte
        <5> QED BY <5>2, <5>3, <5>4
      <4> QED BY <4>0, <4>1, <4>2, <1>1
    <3>8. snowball_rdptr' <= snowball_wrptr'
      BY <2>2, <1>1, <1>2
    <3>9. \A k \in 1 .. snowball_rdptr' : got'[k] = snowball_buffer'[k]
      BY <3>4, <3>5, <1>4
    <3>10. Len(got') = snowball_rdptr'
      BY <3>3, <3>5, <1>4
    <3> QED BY <3>8, <3>9, <3>10 DEF ReadIsStream
  <2>5. WalkIsBlocks'
    BY <1>2 DEF Inv, WalkIsBlocks, Walkable
  <2> QED BY <2>3, <2>4, <2>5 DEF Inv
<1> QED BY <1>3, <1>4 DEF Read

LEMMA StepInv ==
  ASSUME Inv, [Next]_vars
  PROVE  Inv'
<1>1. CASE AddSection
  BY <1>1, AddSectionInv
<1>2. CASE Boot
  BY <1>2 DEF Boot, Inv, TypeOK, ReadIsStream, WalkIsBlocks, Walkable
<1>3. CASE Call
  <2> PICK id \in 0 .. Len(Table) + 1, par_sz \in ParSizes,
           size \in ReadSizes, size2 \in ReadSizes : KernelCall(id, par_sz, size, size2)
    BY <1>3 DEF Call
  <2>1. CASE Read(size, size2)
    BY <2>1, ReadInv, SnowballAssumption
  <2>2. CASE Refuse \/ Return \/ Crash
    BY <2>2 DEF Refuse, Return, Crash, Inv, TypeOK, ReadIsStream, WalkIsBlocks, Walkable
  <2> QED BY <2>1, <2>2 DEF KernelCall
<1>4. CASE UNCHANGED vars
  BY <1>4 DEF vars, Inv, TypeOK, ReadIsStream, WalkIsBlocks, Walkable
<1> QED BY <1>1, <1>2, <1>3, <1>4 DEF Next

THEOREM Invariance == Spec => []Inv
  BY InitInv, StepInv, PTL DEF Spec

(* The pointers stay in the buffer and in order, for every list of         *)
(* sections and reads of every uint32_t size: no block that is put and no  *)
(* read that comes back goes over the end, and no read goes back.          *)
THEOREM TypeCorrect == Spec => []TypeOK
<1>1. Inv => TypeOK
  BY DEF Inv
<1> QED BY <1>1, Invariance, PTL

(* Firmware gets the stream in order and each byte once: no read of any     *)
(* size that comes back skips or repeats a part, also after reads that were *)
(* cut at the end, and none of a size that is negative as an int does.      *)
THEOREM StreamIsRead == Spec => []ReadIsStream
<1>1. Inv => ReadIsStream
  BY DEF Inv
<1> QED BY <1>1, Invariance, PTL

(* The headers lead from block to block, when the size field is wide enough *)
(* for the blocks.                                                         *)
THEOREM BlocksAreFound == Spec => []WalkIsBlocks
<1>1. Inv => WalkIsBlocks
  BY DEF Inv
<1> QED BY <1>1, Invariance, PTL
=============================================================================
