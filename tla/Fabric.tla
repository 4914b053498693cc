-------------------------------- MODULE Fabric --------------------------------
(***************************************************************************)
(* The interconnect of the emulated machine: the system agent (MISA) as    *)
(* the core's way to the primary bus and as a target on it, the primary    *)
(* bus with the crypto subsystem (OCS) and the primary-to-gasket bridge,   *)
(* the gasket bus with HECI and the address translation device (ATT), the  *)
(* bus behind the ATT ("pch"), and the sideband.                           *)
(* periph/pci, periph/misa, periph/gasket, periph/sideband.                *)
(*                                                                         *)
(* A memory cycle is a loop over simulated clocks and, in each, over the   *)
(* functions of the bus; a bridge runs such a loop of its own inside its   *)
(* callback.  One step is one callback; stack holds the loops under way,   *)
(* the innermost first.  An access is one cell wide.                       *)
(***************************************************************************)
EXTENDS Integers, FiniteSets, SequencesExt

CONSTANTS
  Order,      (* the functions of a bus, in the order of its list          *)
  Bdf,        (* where a function answers to configuration cycles          *)
  BarSize,    (* the sizes of its BARs                                     *)
  Settings,   (* what firmware writes in them and in its command register  *)
  Windows,    (* what it writes in the registers of an ATT window, ...     *)
  SbWindows,  (* ... and in those of a sideband window                     *)
  Endpoints,  (* the endpoints that registered on the sideband             *)
  Addrs, DmaAddrs,(* the addresses the core and the DMA engine use         *)
  RomBase, HmBound,         (* HROMMB and HMBOUND                          *)
  IoTop, Cf8, Cfc,          (* the last I/O port, and two of them          *)
  Ecam,       (* the target of every address in the ECBASE window, ...     *)
  CfgWindow,  (* ... in the window at 0xF1000000, ...                      *)
  Targets,    (* ... and the targets firmware puts in ACF8                 *)
  CoreLat, DmaLat, AttLat,  (* clocks before a loop gives up: 16, 15, 14   *)
  Subtractive,(* the clock from which MISA takes what nobody claimed: 10   *)
  Misaligned, NoRegister,   (* <<BAR, offset>> of the ATT that are no register *)
  Iommu,      (* AIOMCTL.IATEN, which only the configuration file sets     *)
  AddrMod, ExtMod,          (* the ranges of the cells before and behind   *)
              (* the windows: 2^32 and 2^64                                *)
  Boot        (* the configuration file's bars, mse, win and sbwin         *)

ASSUME LatAssumption ==
  /\ {CoreLat, DmaLat, AttLat, Subtractive} \subseteq Nat \ {0}
  /\ DmaLat <= CoreLat /\ AttLat <= CoreLat

ASSUME RangeAssumption == {AddrMod, ExtMod} \subseteq Nat \ {0}

VARIABLES
  bars, mse,   (* the configuration space of every function                *)
  acf8,        (* [en, target]                                             *)
  win,         (* regs.WIN of the ATT: [on, int, size, ext]                *)
  sbwin,       (* regs.SB_WIN: [on, int, size, ep]                         *)
  stack,       (* the loops under way                                      *)
  ret,         (* what the callback or loop that has just ended returned   *)
  asked,       (* history: the last access of the core, ...                *)
  hits         (* ... and what has been touched since, on whose behalf     *)

config == <<bars, mse, acf8, win, sbwin>>
vars == <<config, stack, ret, asked, hits>>

-----------------------------------------------------------------------------
(* Results of a callback, and the identities of the masters: misa_spawn     *)
(* clears sa->sai and nothing sets it.                                      *)
Declined == -1
Aborted == -2
NoRet == 9
CoreSai == 0
OcsSai == 1

Simple == UNION {{f} : f \in {"heci"} \cup ToSet(Order["pch"])}
Functions == Simple \cup {"ocs", "att", "misa"}

(* What the configuration files say: which functions may be on which bus,   *)
(* under names of their own.                                                *)
ASSUME TopologyAssumption ==
  /\ Order \in [prim : Seq({"p2g", "ocs", "misa"}), gasket : Seq({"heci", "att"}),
                 pch : Seq(STRING)]
  /\ "p2g" \in ToSet(Order["prim"]) /\ "att" \in ToSet(Order["gasket"])
  /\ Order["pch"] # << >>
  /\ ToSet(Order["pch"]) \cap {"p2g", "ocs", "misa", "heci", "att", "ram", "wild"} = {}
  /\ Endpoints \cap (Simple \cup {"ocs"}) = {}

BarValues == {v \in [Functions -> Seq(Nat)] :
                \A f \in Functions : Len(v[f]) = Len(BarSize[f])}
Address == 0 .. AddrMod - 1
ExtAddress == 0 .. ExtMod - 1
WinRegs == [on : BOOLEAN, int : Address, size : Address, ext : ExtAddress]
WinValues == Seq(WinRegs)

(* Registers hold numbers, and BAR 0 is the only one of OCS. *)
ASSUME ValueAssumption ==
  /\ BarSize \in [Functions -> Seq(Nat)] /\ Len(BarSize["ocs"]) = 1
  /\ Boot.bars \in BarValues /\ Boot.mse \in [Functions -> BOOLEAN]
  /\ Boot.win \in WinValues
  /\ \A f \in Functions :
       /\ Settings[f].mse \subseteq BOOLEAN
       /\ \A b \in DOMAIN BarSize[f] : Settings[f].bars[b] \subseteq Nat
  /\ \A i \in DOMAIN Boot.win : \A r \in DOMAIN Windows[i] :
       /\ r \in DOMAIN Boot.win[i]
       /\ Windows[i][r] \subseteq CASE r = "on" -> BOOLEAN
                                   [] r = "ext" -> ExtAddress
                                   [] OTHER -> Address
  /\ Addrs \cup DmaAddrs \cup {IoTop, Cf8, Cfc} \subseteq Address
  /\ Cf8 <= IoTop /\ Cfc <= IoTop

First(S) == IF S = {} THEN 0 ELSE Min(S)

(* The first BAR of a simple function that an address matches, or 0: the    *)
(* comparison lets the cell after the BAR match too.                        *)
Match(f, a) ==
  First({b \in DOMAIN bars[f] :
           bars[f][b] <= a /\ a <= bars[f][b] + BarSize[f][b]})

(* The BARs of OCS, ATT and MISA end where they should. *)
MatchExact(f, a) ==
  First({b \in DOMAIN bars[f] :
           bars[f][b] <= a /\ a < bars[f][b] + BarSize[f][b]})

Offset(f, b, a) == a - bars[f][b]

(* pci_simple_mem_read and pci_simple_mem_write come to the BAR's handler. *)
SimpleAnswers(f, a) ==
  LET b == Match(f, a) IN
  b # 0 /\ Offset(f, b, a) + 1 <= BarSize[f][b] /\ mse[f]

(* Mutant of WinEnd: the sum does not wrap, so that a window that runs past *)
(* the top of the address space has cells.                                  *)
WinEndWide(w) == w.int + w.size

(* The cell at the size of a window, the last that goes through it: the sum *)
(* of two registers wraps.                                                  *)
WinEnd(w) == (w.int + w.size) % AddrMod

(* Mutant of FindWin: windows that are switched off count too. *)
FindWinOff(table, a) ==
  SelectInSeq(table, LAMBDA w : w.int <= a /\ a <= WinEnd(w))

(* att_find_win, att_find_sb_win *)
FindWin(table, a) ==
  SelectInSeq(table, LAMBDA w : w.on /\ w.int <= a /\ a <= WinEnd(w))

External(w, a) == (w.ext + (a - w.int)) % ExtMod

(* Mutant of DmaHit: whoever asks. *)
DmaHitAny(fr) == fr.lat >= Subtractive

(* is_dma_hit *)
DmaHit(fr) == fr.sai # CoreSai /\ fr.lat >= Subtractive

(* misa_aunit_iommu_translate: no entry is ever valid, so that every address *)
(* misses when the IOMMU is on; when it is off, no address changes.         *)
Translates == ~ Iommu

(* Who takes a configuration cycle of type 1: behind the ATT, ...           *)
Behind(t) ==
  LET F == {f \in ToSet(Order["pch"]) : t.bus = 0 /\ Bdf[f].df = t.df} IN
  IF F = {} THEN "none" ELSE CHOOSE f \in F : TRUE

(* ... on the primary bus, where the functions know their own address, ...  *)
Claim(f, t) ==
  IF f = "p2g" THEN Behind(t) ELSE IF Bdf[f] = t THEN f ELSE "none"

FromCore(t) ==
  LET i == SelectInSeq(Order["prim"], LAMBDA f : Claim(f, t) # "none") IN
  IF i = 0 THEN "none" ELSE Claim(Order["prim"][i], t)

(* ... or, given to the gasket bus by its window, by number on that bus.    *)
FromWindow(t) ==
  LET i == SelectInSeq(Order["gasket"], LAMBDA f : Bdf[f].df = t.df) IN
  IF t.bus # 0 THEN Behind(t) ELSE IF i = 0 THEN "none" ELSE Order["gasket"][i]

-----------------------------------------------------------------------------
(* Loops. *)

Top == Head(stack)
Fn == Order[Top.bus][Top.at]

Loop(bus, a, sai, rw, max) ==
  [bus |-> bus, addr |-> a, sai |-> sai, rw |-> rw, max |-> max, lat |-> 0, at |-> 1]

(* Mutant of NextCall: the clock stands still. *)
NextCallStill(fr) ==
  IF fr.at < Len(Order[fr.bus]) THEN [fr EXCEPT !.at = @ + 1] ELSE [fr EXCEPT !.at = 1]

NextCall(fr) ==
  IF fr.at < Len(Order[fr.bus])
    THEN [fr EXCEPT !.at = @ + 1]
    ELSE [fr EXCEPT !.at = 1, !.lat = @ + 1]

(* Mutant of Answer: zero is no answer. *)
AnswerPositive(r) ==
  IF r > 0 \/ r < Declined
    THEN stack' = Tail(stack) /\ ret' = r
    ELSE stack' = <<NextCall(Top)>> \o Tail(stack) /\ ret' = NoRet

(* The callback of the innermost loop returns r. *)
Answer(r) ==
  IF r >= 0 \/ r < Declined
    THEN stack' = Tail(stack) /\ ret' = r
    ELSE stack' = <<NextCall(Top)>> \o Tail(stack) /\ ret' = NoRet

(* The callback starts a loop of its own. *)
Enter(fr) == stack' = <<fr>> \o stack /\ ret' = NoRet

Touch(sai, f, at) == hits' = Append(hits, [sai |-> sai, fn |-> f, at |-> at])

Calling == stack # << >> /\ ret = NoRet /\ Top.lat < Top.max

(* A write of the configuration space of f: of one BAR or the command.      *)
SetConfig(f) ==
  \/ \E b \in DOMAIN bars[f] : \E v \in Settings[f].bars[b] :
       bars' = [bars EXCEPT ![f][b] = v] /\ UNCHANGED mse
  \/ \E v \in Settings[f].mse : mse' = [mse EXCEPT ![f] = v] /\ UNCHANGED bars

ConfigCycle(old, sai, f, rw) ==
  IF f = "none"
    THEN hits' = old /\ UNCHANGED <<bars, mse>>
    ELSE /\ hits' = Append(old, [sai |-> sai, fn |-> f, at |-> "config"])
         /\ IF rw = "write" THEN SetConfig(f) ELSE UNCHANGED <<bars, mse>>

ConfigResult(f) == IF f = "none" THEN Declined ELSE 0

Init ==
  /\ bars = Boot.bars /\ mse = Boot.mse /\ win = Boot.win /\ sbwin = Boot.sbwin
  /\ acf8 = [en |-> FALSE, target |-> [bus |-> 0, df |-> 0]]
  /\ stack = << >> /\ ret = NoRet
  /\ asked = [addr |-> 0, rw |-> "read"] /\ hits = << >>

-----------------------------------------------------------------------------
(* misa_fsb_mem_read and misa_fsb_mem_write, by where they go. *)

IsBunit(a) == a \notin DOMAIN Ecam /\ a < HmBound /\ a >= RomBase

Ask(a, rw) == stack = << >> /\ asked' = [addr |-> a, rw |-> rw]

(* To memory, or to ROM. *)
CoreBunit(a, rw) ==
  /\ Ask(a, rw)
  /\ IsBunit(a)
  /\ hits' = <<[sai |-> CoreSai, fn |-> "ram", at |-> a]>>
  /\ ret' = 0
  /\ UNCHANGED <<config, stack>>

CoreEcam(a, rw) ==
  /\ Ask(a, rw)
  /\ a \in DOMAIN Ecam
  /\ ConfigCycle(<< >>, CoreSai, FromCore(Ecam[a]), rw)
  /\ ret' = ConfigResult(FromCore(Ecam[a]))
  /\ UNCHANGED <<acf8, win, sbwin, stack>>

Upstream(a) == ~ IsBunit(a) /\ a \notin DOMAIN Ecam

CoreCf8(rw) ==
  /\ Ask(Cf8, rw)
  /\ Upstream(Cf8)
  /\ IF rw = "write"
       THEN acf8' \in [en : BOOLEAN, target : Targets]
       ELSE UNCHANGED acf8
  /\ hits' = << >>
  /\ ret' = 0
  /\ UNCHANGED <<bars, mse, win, sbwin, stack>>

CoreCfc(rw) ==
  LET f == IF acf8.en THEN FromCore(acf8.target) ELSE "none" IN
  /\ Ask(Cfc, rw)
  /\ Upstream(Cfc)
  /\ ConfigCycle(<< >>, CoreSai, f, rw)
  /\ ret' = ConfigResult(f)
  /\ UNCHANGED <<acf8, win, sbwin, stack>>

(* pci_bus_io_read and pci_bus_io_write do nothing. *)
CoreIo(a, rw) ==
  /\ Ask(a, rw)
  /\ Upstream(a) /\ a <= IoTop /\ a \notin {Cf8, Cfc}
  /\ hits' = << >>
  /\ ret' = Declined
  /\ UNCHANGED <<config, stack>>

CoreMemory(a, rw) ==
  /\ Ask(a, rw)
  /\ Upstream(a) /\ a > IoTop
  /\ hits' = << >>
  /\ Enter(Loop("prim", a, CoreSai, rw, CoreLat))
  /\ UNCHANGED config

-----------------------------------------------------------------------------
(* Callbacks. *)

CallSimple ==
  /\ Calling /\ Fn \in Simple
  /\ IF SimpleAnswers(Fn, Top.addr)
       THEN /\ Touch(Top.sai, Fn, <<Match(Fn, Top.addr),
                                    Offset(Fn, Match(Fn, Top.addr), Top.addr)>>)
            /\ Answer(1)
       ELSE UNCHANGED hits /\ Answer(Declined)
  /\ UNCHANGED <<config, asked>>

OcsAnswers == MatchExact("ocs", Top.addr) # 0 /\ mse["ocs"]

(* ocs_mem_read, ocs_mem_write: 0 from the units that are not there.        *)
CallOcs ==
  /\ Calling /\ Fn = "ocs"
  /\ IF OcsAnswers
       THEN /\ Touch(Top.sai, "ocs", <<1, Offset("ocs", 1, Top.addr)>>)
            /\ \E r \in {0, OcsSai} : Answer(r)
       ELSE UNCHANGED hits /\ Answer(Declined)
  /\ UNCHANGED <<config, asked>>

(* A write whose register starts the DMA engine, which reads the bus        *)
(* (ocs_dma_read, ocs_dma_write) before the write returns.                  *)
OcsDma(a) ==
  /\ Calling /\ Fn = "ocs"
  /\ OcsAnswers /\ Top.rw = "write"
  /\ Touch(Top.sai, "ocs", <<1, Offset("ocs", 1, Top.addr)>>)
  /\ Enter(Loop("prim", a, OcsSai, "read", DmaLat))
  /\ UNCHANGED <<config, asked>>

(* bus_mem_read, bus_mem_write of MISA.  The registers are taken as an      *)
(* array of whole register files, so that only its first cell is one.       *)
CallMisa ==
  /\ Calling /\ Fn = "misa"
  /\ IF MatchExact("misa", Top.addr) # 0 /\ mse["misa"]
       THEN /\ IF Offset("misa", 1, Top.addr) = 0
                 THEN Touch(Top.sai, "misa", <<1, 0>>)
                 ELSE Touch(Top.sai, "wild", Top.addr)
            /\ Answer(CoreSai)
       ELSE /\ IF DmaHit(Top) /\ Translates
                 THEN Touch(Top.sai, "ram", Top.addr)
                 ELSE UNCHANGED hits
            /\ Answer(Declined)
  /\ UNCHANGED <<config, asked>>

P2gConfig ==
  /\ Calling /\ Fn = "p2g"
  /\ Top.addr \in DOMAIN CfgWindow
  /\ ConfigCycle(hits, Top.sai, FromWindow(CfgWindow[Top.addr]), Top.rw)
  /\ Answer(ConfigResult(FromWindow(CfgWindow[Top.addr])))
  /\ UNCHANGED <<acf8, win, sbwin, asked>>

P2gForward ==
  /\ Calling /\ Fn = "p2g"
  /\ Top.addr \notin DOMAIN CfgWindow
  /\ Enter(Loop("gasket", Top.addr, Top.sai, Top.rw, CoreLat - Top.lat))
  /\ UNCHANGED <<config, asked, hits>>

(* One register of one window is written, of the primary windows ... *)
SetWin(i) ==
  \E r \in DOMAIN Windows[i] : \E v \in Windows[i][r] :
    win' = [win EXCEPT ![i][r] = v] /\ UNCHANGED sbwin

(* ... or of the sideband windows. *)
SetSbWin(i) ==
  \E r \in DOMAIN SbWindows[i] : \E v \in SbWindows[i][r] :
    sbwin' = [sbwin EXCEPT ![i][r] = v] /\ UNCHANGED win

SetWindow(b) ==
  \/ b = 1 /\ \E i \in DOMAIN win : SetWin(i)
  \/ b = 2 /\ \E i \in DOMAIN sbwin : SetSbWin(i)

(* A cell of the BARs of the ATT: a register of a window, a misaligned      *)
(* address, which is answered and does nothing, or one that is declined.    *)
AttCell(a) == <<MatchExact("att", a), Offset("att", MatchExact("att", a), a)>>

AttAnswers(a) == mse["att"] /\ AttCell(a) \notin NoRegister

AttRegs ==
  LET cell == AttCell(Top.addr) IN
  /\ Calling /\ Fn = "att"
  /\ MatchExact("att", Top.addr) # 0
  /\ \/ ~ AttAnswers(Top.addr) /\ Answer(Declined) /\ UNCHANGED <<win, sbwin, hits>>
     \/ /\ AttAnswers(Top.addr) /\ cell \in Misaligned
        /\ Answer(1)
        /\ UNCHANGED <<win, sbwin, hits>>
     \/ /\ AttAnswers(Top.addr) /\ cell \notin Misaligned
        /\ Touch(Top.sai, "att", cell)
        /\ IF Top.rw = "write" THEN SetWindow(cell[1]) ELSE UNCHANGED <<win, sbwin>>
        /\ Answer(IF cell[1] = 1 /\ Top.rw = "read" THEN 0 ELSE 1)
  /\ UNCHANGED <<bars, mse, acf8, asked>>

(* att_prim_read, att_prim_write *)
AttForward ==
  LET w == FindWin(win, Top.addr) IN
  /\ Calling /\ Fn = "att"
  /\ MatchExact("att", Top.addr) = 0 /\ w # 0
  /\ Enter(Loop("pch", External(win[w], Top.addr), Top.sai, Top.rw, AttLat))
  /\ UNCHANGED <<config, asked, hits>>

(* att_sb_read, att_sb_write, sb_read, sb_write *)
Sideband ==
  LET s == FindWin(sbwin, Top.addr) IN
  IF s = 0
    THEN UNCHANGED hits /\ Answer(Declined)
    ELSE IF sbwin[s].ep \in Endpoints
           THEN /\ Touch(Top.sai, sbwin[s].ep, Top.addr - sbwin[s].int)
                /\ Answer(1)
           ELSE UNCHANGED hits /\ Answer(Aborted)

AttSideband ==
  /\ Calling /\ Fn = "att"
  /\ MatchExact("att", Top.addr) = 0 /\ FindWin(win, Top.addr) = 0
  /\ Sideband
  /\ UNCHANGED <<config, asked>>

(* A loop has run out of clocks. *)
GiveUp ==
  /\ stack # << >> /\ ret = NoRet
  /\ Top.lat = Top.max
  /\ stack' = Tail(stack)
  /\ ret' = Declined
  /\ UNCHANGED <<config, asked, hits>>

(* The loop inside a callback has returned. *)
Returning == stack # << >> /\ ret # NoRet

P2gReturns ==
  /\ Returning /\ Fn = "p2g"
  /\ Answer(ret)
  /\ UNCHANGED <<config, asked, hits>>

AttReturns ==
  /\ Returning /\ Fn = "att"
  /\ IF ret >= 0 THEN UNCHANGED hits /\ Answer(ret) ELSE Sideband
  /\ UNCHANGED <<config, asked>>

OcsReturns ==
  /\ Returning /\ Fn = "ocs"
  /\ Answer(OcsSai)
  /\ UNCHANGED <<config, asked, hits>>

Core ==
  \E rw \in {"read", "write"} :
    \/ CoreCf8(rw)
    \/ CoreCfc(rw)
    \/ \E a \in Addrs :
         CoreBunit(a, rw) \/ CoreEcam(a, rw) \/ CoreIo(a, rw) \/ CoreMemory(a, rw)

Callback ==
  \/ CallSimple \/ CallOcs \/ CallMisa
  \/ \E a \in DmaAddrs : OcsDma(a)
  \/ P2gConfig \/ P2gForward \/ P2gReturns
  \/ AttRegs \/ AttForward \/ AttSideband \/ AttReturns
  \/ OcsReturns
  \/ GiveUp

Next == Core \/ Callback

Spec == Init /\ [][Next]_vars

(* The loops run inside the core's access, which waits for them. *)
FairSpec == Spec /\ WF_vars(Callback)

-----------------------------------------------------------------------------
(* Properties. *)

(* An access of the core touches one cell of one device at most, whatever  *)
(* windows and BARs overlap and however often the loops call everybody;    *)
(* so does a cycle of the DMA engine, which may touch it more than once.   *)
OneTarget ==
  \A i, j \in DOMAIN hits :
    hits[i].sai = hits[j].sai =>
      IF hits[i].sai = CoreSai THEN i = j ELSE hits[i] = hits[j]

(* The cells of a window: size + 1 from its base, when it is enabled and    *)
(* the address space holds them all, and otherwise none.                   *)
Covers(w, a) ==
  w.on /\ w.int + w.size \in Address /\ \E off \in 0 .. w.size : a = w.int + off

(* What the first window behind the ATT that has an address makes of it. *)
Translated(a) ==
  {(win[i].ext + a - win[i].int) % ExtMod : i \in
     {j \in DOMAIN win :
        Covers(win[j], a) /\ \A k \in 1 .. j - 1 : ~ Covers(win[k], a)}}

(* The cells of an enabled BAR, but for a first cell that follows another   *)
(* BAR of the function: the search of pci_simple_mem_read stops at the end  *)
(* of that one and declines.                                               *)
BarCells(f) ==
  (UNION {bars[f][b] .. bars[f][b] + BarSize[f][b] - 1 : b \in DOMAIN bars[f]})
    \ {bars[f][b] + BarSize[f][b] : b \in DOMAIN bars[f]}

Claimed(a) ==
  \E f \in ToSet(Order["pch"]) : mse[f] /\ Translated(a) \cap BarCells(f) # {}

(* When nobody answers the core, or the sideband aborts its access, nothing *)
(* has been touched: above all MISA does not take the core's own access    *)
(* for a DMA access to memory.  And nobody answers only when no device     *)
(* behind the windows claims the cell, unless the configuration window or  *)
(* the BARs of the ATT lie before the windows there.  A device behind a    *)
(* window that runs past the top of the address space claims nothing.      *)
Shadowed(a) == a \in DOMAIN CfgWindow \/ MatchExact("att", a) # 0

FailedDoesNothing ==
  stack = << >> /\ ret < 0 =>
    /\ hits = << >>
    /\ Upstream(asked.addr) /\ asked.addr > IoTop /\ ~ Shadowed(asked.addr) =>
         ~ Claimed(asked.addr)

(* The address at which a master began: the core, or the DMA engine, whose *)
(* loop the core's access waits for.                                       *)
Requested(sai) ==
  IF sai = CoreSai THEN asked.addr ELSE stack[Len(stack) - 1].addr

(* A device is touched at the cell that the core or the DMA engine asked    *)
(* for: the offset is the address less the BAR, after the translation of   *)
(* the windows, and its memory space is enabled.                           *)
RightCell ==
  [][ Len(hits') > Len(hits) =>
        LET h == Last(hits') IN
        h.fn \in Simple \cup {"ocs"} /\ h.at # "config" =>
          /\ mse[h.fn]
          /\ h.at[2] \in 0 .. BarSize[h.fn][h.at[1]] - 1
          /\ bars[h.fn][h.at[1]] + h.at[2] \in
               IF h.fn \in ToSet(Order["pch"])
                 THEN Translated(Requested(h.sai))
                 ELSE {Requested(h.sai)} ]_vars

(* Every access of the core returns, also when every device declines and   *)
(* loops run inside loops.                                                 *)
AccessReturns == stack # << >> ~> stack = << >>
=============================================================================
