-------------------------------- MODULE MCText --------------------------------
(***************************************************************************)
(* The two parts of the program that read text, which share no state: a    *)
(* behaviour exercises one of them.                                        *)
(*                                                                         *)
(* Printf: every conversion with every length, width, precision and flag,  *)
(* followed by text or by another conversion; the integers wrap at 64, the *)
(* buffers of numfmt are of 13 and 9 cells, and the buffers printed into   *)
(* are shorter and longer than the texts.  Among the arguments are numbers *)
(* with and without a sign of every length, and the least of 64 bits.      *)
(*                                                                         *)
(* CfgParser: files of one and two sections of one and two entries,        *)
(* numbers of every form, and integers that wrap at 256.                   *)
(***************************************************************************)
EXTENDS Printf, CfgParser

VARIABLE bench

Conv(flags, w, prec, len, c) ==
  [conv |-> c, text |-> "", flags |-> flags, width |-> w, prec |-> prec, len |-> len]

McConversions ==
  {Conv(f, w, prec, len, c) :
     f \in {<< >>, <<"0">>, <<"-", "+">>, <<"+", "0">>}, w \in {0, 4, 12, Star},
     prec \in {"", "*", "1"}, len \in {"", "hh", "h", "ll", "j", "z", "t"}, c \in {"d", "x", "s"}}
  \cup {Conv(<< >>, w, "", len, c) :
          w \in {0, Star}, len \in {"", "h", "l"}, c \in {"u", "o", "c", "%", "n", "a"}}
McFormats ==
  {<<Text("a")>>}
  \cup {<<c, d>> : c \in McConversions, d \in {Text("a"), Conv(<<"0">>, 3, "", "", "d")}}
  \cup {<<Text("a"), Conv(<< >>, Star, "", "", "s"), Conv(<< >>, Star, "", "", "d"),
           Conv(<< >>, Star, "*", "hh", "x")>>}
  \cup {<<Conv(<< >>, Star, "*", "", "d"), Conv(<< >>, 0, "", len, c), Conv(f, 4, "", last, "d")>> :
          len \in {"", "hh", "h", "l", "z", "t"}, c \in {"d", "x"},
          f \in {<< >>, <<"0">>}, last \in {"j", "ll", "l"}}
McArgs == <<3, 6, -5, -13, 0, -32, 3, 6, 9, 2, -7, 4, 0, 5, -1, 8>>

-----------------------------------------------------------------------------
N(neg, radix, digits) == [neg |-> neg, radix |-> radix, digits |-> digits]
IntEntry(name, n) == [name |-> name, type |-> "int64", string |-> "", number |-> n]
StrEntry(name, v) == [name |-> name, type |-> "string", string |-> v, number |-> N(FALSE, 10, <<0>>)]
Section(type, name, entries) == [type |-> type, name |-> name, entries |-> entries]

McNumbers ==
  {N(neg, radix, ds) : neg \in BOOLEAN, radix \in {8, 16}, ds \in {<<1, 0, 2>>, <<7, 7, 7>>}}
  \cup {N(neg, 10, ds) : neg \in BOOLEAN, ds \in {<<0>>, <<2, 5, 6>>}}
  \cup {N(FALSE, 8, <<0>>), N(FALSE, 10, <<2, 5, 5>>),
        N(FALSE, 16, <<10, 1>>), N(FALSE, 16, <<1, 15, 15>>)}

OneFile == [name |-> "f", sections |-> <<Section("include", "a", <<StrEntry("x", "p")>>)>>]
McFiles ==
  {OneFile}
  \cup {[name |-> "f", sections |-> <<Section("cfg", "a", <<IntEntry("x", n)>>)>>] : n \in McNumbers}
  \cup {[name |-> "f", sections |-> <<Section("include", "a", <<StrEntry("x", "p"), StrEntry("y", "q")>>),
                                      Section("device", "b", <<StrEntry("x", "q")>>)>>],
        [name |-> "f", sections |-> <<Section("device", "a", <<StrEntry("x", "p")>>),
                                      Section("device", "b", <<IntEntry("y", N(FALSE, 16, <<1, 0>>)),
                                                         StrEntry("x", "q")>>)>>]}

Bad(chars) == [k |-> "number", v |-> "", chars |-> chars]
McSpare ==
  {[k |-> k, v |-> "", chars |-> << >>] : k \in {"name", "string", "=", "{", "}", ";", ","}}
  \cup {Bad(<<"1">>), Bad(<<"-">>), Bad(<<"-", "x">>), Bad(<<"0", "x">>),
        Bad(<<"0", "x", "x">>), Bad(<<"0", "8">>), Bad(<<"0", "a">>), Bad(<<"1", "a">>)}

-----------------------------------------------------------------------------
(* What is not on the bench stays as it starts, with one of its inputs. *)
BenchInit ==
  \/ /\ bench = "parser"
     /\ meant = <<Text("a")>> /\ level = 0 /\ str = [i \in 0 .. 3 |-> "old"]
     /\ Init /\ CfgInit
  \/ /\ bench = "printf"
     /\ source = OneFile /\ edit = "none" /\ text = TextOf(Render(OneFile), "name")
     /\ CfgInit /\ Init

BenchNext ==
  /\ UNCHANGED bench
  /\ \/ bench = "printf" /\ Next /\ UNCHANGED cfgVars
     \/ bench = "parser" /\ CfgNext /\ UNCHANGED vars

BenchSpec == BenchInit /\ [][BenchNext]_<<bench, cfgVars, vars>>

(* Both run until they stop. *)
BenchFairSpec == BenchSpec /\ WF_<<bench, cfgVars, vars>>(BenchNext)

(* The assumption of the parser holds for the values above. *)
ASSUME BenchAssumption == CfgAssumption

(* The parser comes to an end with every file, and every call of printf     *)
(* with every format, also when they are cut off.                          *)
TextEnds ==
  <>(IF bench = "parser" THEN Stopped ELSE phase \in {"done", "exited", "aborted", "wild"})
=============================================================================
