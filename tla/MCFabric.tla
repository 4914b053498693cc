------------------------------- MODULE MCFabric -------------------------------
(***************************************************************************)
(* Fabric with the topology of cfg/csme.cfg and cfg/spt_lp.cfg, less one   *)
(* function behind the ATT, and a memory map of twenty-three cells:        *)
(*   0, 1    CF8 and CFC          12, 13  BAR 0 of the ATT: a register of  *)
(*   2       an I/O port                  a window, and none               *)
(*   3       memory of the core   14, 15  BAR 1: a register of a sideband  *)
(*   4, 5    ECAM                         window, a misaligned address     *)
(*   6, 7    the gasket's window  16 - 19 translated to 46, 47, 0 and 1,   *)
(*   8, 9    OCS                          where PMC and the trace hub are  *)
(*   10, 11  HECI, and the cell   20      a sideband window, from 19 on    *)
(*           after it             21, 22  MISA, when firmware enables it   *)
(* so that windows and BARs touch, overlap and leave holes.  The address   *)
(* space ends at 23 and, behind the windows, at 47: translated addresses   *)
(* wrap, and so does the end of a window at 16 of size 10, which is at 2.  *)
(***************************************************************************)
EXTENDS Fabric

T(bus, df) == [bus |-> bus, df |-> df]

McOrder ==
  [prim |-> <<"p2g", "ocs", "misa">>,
   gasket |-> <<"heci", "att">>,
   pch |-> <<"pmc", "thub">>]
McBdf ==
  [ocs |-> T(0, 1), misa |-> T(0, 0), heci |-> T(0, 0), att |-> T(0, 5),
   pmc |-> T(0, 26), thub |-> T(0, 31)]
McBarSize ==
  [ocs |-> <<2>>, misa |-> <<2>>, heci |-> <<1>>, att |-> <<2, 2>>,
   pmc |-> <<1, 1>>, thub |-> <<1>>]

McBoot ==
  [bars |-> [ocs |-> <<8>>, misa |-> <<21>>, heci |-> <<10>>, att |-> <<12, 14>>,
             pmc |-> <<47, 46>>, thub |-> <<0>>],
   mse |-> [ocs |-> TRUE, misa |-> FALSE, heci |-> TRUE, att |-> TRUE,
            pmc |-> TRUE, thub |-> TRUE],
   win |-> <<[on |-> TRUE, int |-> 16, size |-> 3, ext |-> 46],
             [on |-> FALSE, int |-> 18, size |-> 1, ext |-> 46]>>,
   sbwin |-> <<[on |-> TRUE, int |-> 19, size |-> 1, ep |-> "fuse"]>>]

McSettings ==
  [ocs |-> [bars |-> <<{8}>>, mse |-> {TRUE}],
   misa |-> [bars |-> <<{21}>>, mse |-> BOOLEAN],
   heci |-> [bars |-> <<{10}>>, mse |-> {TRUE}],
   att |-> [bars |-> <<{12}, {14}>>, mse |-> {TRUE}],
   pmc |-> [bars |-> <<{46}, {47}>>, mse |-> {TRUE}],
   thub |-> [bars |-> <<{0}>>, mse |-> BOOLEAN]]
McWindows ==
  <<[on |-> BOOLEAN, size |-> {1, 3, 10}],
    [on |-> BOOLEAN]>>
McSbWindows == <<[ep |-> {"fuse", "nobody"}]>>

McAddrs == 2 .. 22
McDmaAddrs == {3, 6, 8, 11, 12, 13, 18, 20, 21}
McEcam == 4 :> T(0, 26) @@ 5 :> T(0, 0)
McCfgWindow == 6 :> T(0, 0) @@ 7 :> T(1, 26)
McMisaligned == {<<2, 1>>}
McNoRegister == {<<1, 1>>}
McTargets == {T(0, 31)}
=============================================================================
