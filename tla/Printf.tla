--------------------------------- MODULE Printf ---------------------------------
(***************************************************************************)
(* The emulator's own printf and its log: util/printf.c, util/numfmt.c and *)
(* util/log.c.                                                             *)
(*                                                                         *)
(* The formats are those of the program and, for the trace decoder, those  *)
(* of a dictionary file.  A format that is meant is a sequence of          *)
(* directives; what the formatter sees are its characters, one a step.  Of *)
(* the characters that are treated alike one stands for all: "d" for i, "x" *)
(* for X and for p without a length, "-" for the space and #, "a" for      *)
(* plain text.                                                             *)
(*                                                                         *)
(* An argument is a word of 32 bits, given as the int it is; where a       *)
(* string is asked for, one of that length.  Arguments of 64 bits take two *)
(* places, the low word first.                                             *)
(***************************************************************************)
EXTENDS Integers, SequencesExt, FiniteSetsExt

CONSTANTS
  Formats,       (* what formats are meant: sequences of directives         *)
  Args,          (* the arguments of a call, and what lies behind them      *)
  CharMod, ShortMod, IntMod,     (* 2^8, 2^16 and 2^32                      *)
  SignedBuf, UnsignedBuf,        (* the buffers of numfmt: 65 and 33        *)
  NfBuf,         (* the buffer of a formatted number: 65                    *)
  BufSizes,      (* the lengths of the buffers printed into: 40, 640, 1024  *)
  Levels, LogLevel               (* the log levels, and log_level           *)

VARIABLES
  meant,      (* the directives of the format                              *)
  format,     (* its characters that have not been read                    *)
  state, nflags, width, size,
  list,       (* the arguments not yet taken                               *)
  str, count, (* the buffer, and the characters put so far                 *)
  level,      (* the level of the message                                  *)
  phase,      (* "call", "format", "print", "done", "exited", "aborted" or *)
              (* "wild": past the bounds of an array, what follows is not  *)
              (* followed                                                  *)
  shown       (* what has come out on the standard error output            *)

vars == <<meant, format, state, nflags, width, size, list, str, count, level, phase, shown>>
spec == <<nflags, width, size>>
call == <<meant, level, shown>>

Fatal == 5

(* A directive: a character of text, or a conversion, with a width (0 if    *)
(* none, Star if it comes from the arguments), a precision ("" if none, "*" *)
(* if it comes from the arguments, or a digit) and a length.               *)
Star == -1
Text(c) == [conv |-> "text", text |-> c, flags |-> << >>, width |-> 0, prec |-> "", len |-> ""]

Chars == {"0", "1", "2", "3", "4", "5", "6", "7", "8", "9", "A", "B", "C", "D", "E", "F",
          "%", "-", "+", "*", ".", "h", "l", "j", "z", "t", "d", "x", "u", "o", "c", "s", "n", "a"}

Directive ==
  [conv : {"text"}, text : Chars \ {"%"}, flags : {<< >>}, width : {0}, prec : {""}, len : {""}]
  \cup [conv : {"d", "x", "u", "o", "c", "s", "%", "n", "a"}, text : {""},
        flags : Seq({"-", "+", "0"}), width : {w \in Int : w = Star \/ w \in 0 .. (IntMod \div 2) - 1},
        prec : {"", "*", "0", "1", "2", "3", "4", "5", "6", "7", "8", "9"},
        len : {"", "hh", "h", "l", "ll", "j", "z", "t"}]

(* A width is an int.  A directive takes at most four arguments; what lies  *)
(* behind those of the call is there, whatever it is.                      *)
ASSUME PrintfAssumption ==
  /\ {CharMod, ShortMod, IntMod, SignedBuf, UnsignedBuf, NfBuf} \subseteq Nat \ {0}
  /\ BufSizes \subseteq Nat \ {0}
  /\ IntMod % 2 = 0
  /\ Args \in Seq(Int) /\ \A i \in DOMAIN Args : -IntMod <= 2 * Args[i] /\ 2 * Args[i] < IntMod
  /\ Levels \subseteq Int /\ LogLevel \in Int
  /\ Formats \subseteq Seq(Directive)
  /\ \A f \in Formats : 4 * Len(f) <= Len(Args)

DigitChars == <<"0", "1", "2", "3", "4", "5", "6", "7", "8", "9", "A", "B", "C", "D", "E", "F">>

(* "0123456789ABCDEF"[num % base], for every digit of num. *)
Numeral(num, base) ==
  LET digits[n \in 0 .. num] ==
        IF n < base THEN <<DigitChars[n + 1]>>
        ELSE Append(digits[n \div base], DigitChars[(n % base) + 1])
  IN digits[num]

WidthPart(d) ==
  IF d.width = Star THEN <<"*">> ELSE IF d.width = 0 THEN << >> ELSE Numeral(d.width, 10)
PrecPart(d) ==
  IF d.prec = "" THEN << >> ELSE <<".", d.prec>>
LenPart(d) ==
  IF d.len = "" THEN << >> ELSE IF d.len = "hh" THEN <<"h", "h">>
  ELSE IF d.len = "ll" THEN <<"l", "l">> ELSE <<d.len>>

Spell(d) ==
  IF d.conv = "text" THEN <<d.text>>
  ELSE <<"%">> \o d.flags \o WidthPart(d) \o PrecPart(d) \o LenPart(d) \o <<d.conv>>

-----------------------------------------------------------------------------
(* numfmt_signed and numfmt_unsigned. *)

NumText(num, sign, flags, w, base) ==
  LET digits == sign \o Numeral(num, base)
      pad == [i \in 1 .. Max({0, w - Len(digits)}) |-> IF "0" \in flags THEN "0" ELSE " "]
  IN pad \o digits

(* A text that does not fit loses its beginning. *)
Fitted(text) ==
  IF Len(text) >= NfBuf - 1 THEN SubSeq(text, Len(text) - (NfBuf - 3), Len(text)) ELSE text

Sign(neg, flags) ==
  IF neg THEN <<"-">> ELSE IF "+" \in flags THEN <<"+">> ELSE << >>

(* assert( width < sizeof buf ), which also a negative width fails. *)
WidthFails(w, buf) == w < 0 \/ w >= buf

(* ( signed char ) and the like. *)
Signed(n, mod) == LET m == n % mod IN IF 2 * m >= mod THEN m - mod ELSE m

(* Mutant of Argument: a size_t is read with a sign, as an int. *)
ArgumentOfSign(sz, places, signed) ==
  LET n == places[1] IN
  CASE sz = "hh" -> IF signed THEN Signed(n, CharMod) ELSE n % CharMod
    [] sz = "h" -> IF signed THEN Signed(n, ShortMod) ELSE n % ShortMod
    [] sz \in {"ll", "j"} ->
         (n % IntMod) + IntMod * (IF signed THEN Signed(places[2], IntMod) ELSE places[2] % IntMod)
    [] OTHER -> IF signed THEN Signed(n, IntMod) ELSE n % IntMod

(* What is converted: what va_arg reads as the size says, widened to 64     *)
(* bits.  A size_t has no sign, also where it is read for a signed          *)
(* conversion, and a ptrdiff_t has one, also for an unsigned conversion.   *)
Places(sz) == IF sz \in {"ll", "j"} THEN 2 ELSE 1
Argument(sz, places, signed) ==
  LET n == places[1]
      int == Signed(n, IntMod)
  IN
  CASE sz = "hh" -> IF signed THEN Signed(n, CharMod) ELSE n % CharMod
    [] sz = "h" -> IF signed THEN Signed(n, ShortMod) ELSE n % ShortMod
    [] sz \in {"ll", "j"} ->
         (n % IntMod) + IntMod * (IF signed THEN Signed(places[2], IntMod) ELSE places[2] % IntMod)
    [] sz = "z" -> n % IntMod
    [] sz = "t" -> IF signed \/ int >= 0 THEN int ELSE int + IntMod * IntMod
    [] OTHER -> IF signed THEN int ELSE n % IntMod

Base(c) == CASE c = "x" -> 16 [] c = "o" -> 8 [] OTHER -> 10

Converted(c, sz, places, flags, w) ==
  LET n == Argument(sz, places, c = "d") IN
  IF c = "d"
    THEN Fitted(NumText(IF n < 0 THEN -n ELSE n, Sign(n < 0, flags), flags, w, 10))
    ELSE Fitted(NumText(n, Sign(FALSE, flags), flags, w, Base(c)))

StringOf(n) == [i \in 1 .. (IF n < 0 THEN 0 ELSE n) |-> "s"]

-----------------------------------------------------------------------------
(* A call of log, of logassert with a condition that is false, or of the    *)
(* trace decoder's mel_snprintf; the buffer still holds an older message.  *)

Init ==
  /\ meant \in Formats
  /\ format = FlattenSeq([i \in DOMAIN meant |-> Spell(meant[i])])
  /\ state = "PRINT" /\ nflags = {} /\ width = 0 /\ size = ""
  /\ list = Args
  /\ \E n \in BufSizes : str = [i \in 0 .. n - 1 |-> "old"]
  /\ count = 0 /\ level \in Levels /\ phase = "call" /\ shown = << >>

Filtered ==
  /\ phase = "call" /\ level < LogLevel
  /\ phase' = IF level = Fatal THEN "exited" ELSE "done"
  /\ UNCHANGED <<format, state, spec, list, str, count, call>>

Formatted ==
  /\ phase = "call" /\ level >= LogLevel
  /\ phase' = "format"
  /\ UNCHANGED <<format, state, spec, list, str, count, call>>

(* __snprintf_putch *)
Room(i) == i < Cardinality(DOMAIN str) - 1

Put(text) ==
  /\ str' = [i \in DOMAIN str |->
               IF i \in count .. count + Len(text) - 1 /\ Room(i) THEN text[i - count + 1]
                                                                ELSE str[i]]
  /\ count' = count + Len(text)

Keep == UNCHANGED <<str, count>>

Reads(c) ==
  /\ phase = "format" /\ format # << >> /\ c = Head(format)
  /\ format' = Tail(format)
  /\ UNCHANGED call

In(states) == state \in states /\ UNCHANGED phase

Plain(c) ==
  /\ Reads(c)
  /\ In({"PRINT"})
  /\ IF c = "%"
       THEN state' = "FSPEC" /\ width' = 0 /\ nflags' = {} /\ size' = "" /\ Keep
       ELSE Put(<<c>>) /\ UNCHANGED <<state, spec>>
  /\ UNCHANGED list

Flag(c) ==
  /\ Reads(c)
  /\ In({"FSPEC"}) /\ c \in {"-", "+", "0"}
  /\ nflags' = nflags \cup ({c} \cap {"+", "0"})
  /\ Keep /\ UNCHANGED <<state, width, size, list>>

WidthStates == {"FSPEC", "WIDTH"}
PrecStates == WidthStates \cup {"AWIDT"}
LengthStates == PrecStates \cup {"LMOD"}

IsDigit(c) == c \in ToSet(SubSeq(DigitChars, 1, 10))
Digit(c) == CHOOSE d \in 0 .. 9 : DigitChars[d + 1] = c

WidthDigit(c) ==
  /\ Reads(c)
  /\ In(WidthStates) /\ IsDigit(c) /\ ~ (state = "FSPEC" /\ c = "0")
  /\ state' = "WIDTH" /\ width' = width * 10 + Digit(c)
  /\ Keep /\ UNCHANGED <<nflags, size, list>>

WidthArg(c) ==
  /\ Reads(c)
  /\ In(WidthStates) /\ c = "*"
  /\ state' = "AWIDT" /\ width' = Head(list) /\ list' = Tail(list)
  /\ Keep /\ UNCHANGED <<nflags, size>>

Dot(c) ==
  /\ Reads(c)
  /\ In(PrecStates) /\ c = "."
  /\ state' = "PRESC"
  /\ Keep /\ UNCHANGED <<spec, list>>

(* Mutant of PrecisionArg: the precision is not taken from the arguments.   *)
PrecisionArgKept(c) ==
  /\ Reads(c)
  /\ In({"PRESC"}) /\ c = "*"
  /\ state' = "LMOD"
  /\ Keep /\ UNCHANGED <<spec, list>>

PrecisionArg(c) ==
  /\ Reads(c)
  /\ In({"PRESC"}) /\ c = "*"
  /\ state' = "LMOD" /\ list' = Tail(list)
  /\ Keep /\ UNCHANGED spec

PrecisionDigit(c) ==
  /\ Reads(c)
  /\ In({"PRESC"}) /\ IsDigit(c)
  /\ Keep /\ UNCHANGED <<state, spec, list>>

IsLength(c) == c \in {"h", "l", "j", "z", "t"}

Length(c) ==
  /\ Reads(c)
  /\ In(LengthStates) /\ IsLength(c)
  /\ size' = IF c # size THEN c ELSE IF c = "h" THEN "hh" ELSE IF c = "l" THEN "ll" ELSE c
  /\ state' = IF (c = "h" /\ size # "h") \/ (c = "l" /\ size # "l") THEN "LMOD" ELSE "TYPE"
  /\ Keep /\ UNCHANGED <<nflags, width, list>>

(* What the states before PF_TYPE fall through with. *)
ComesToType(c) ==
  \/ state = "TYPE"
  \/ /\ state \in LengthStates /\ ~ IsLength(c)
     /\ state \in PrecStates => c # "."
     /\ state \in WidthStates => c # "*" /\ ~ IsDigit(c)
     /\ state = "FSPEC" => c \notin {"-", "+"}

Fails(c) ==
  CASE c = "d" -> WidthFails(width, SignedBuf)
    [] c \in {"x", "u", "o"} -> WidthFails(width, UnsignedBuf)
    [] c \in {"c", "s"} -> size # ""
    [] OTHER -> c # "%"

(* The least intmax_t is its own negative: numfmt_signed takes digits of a  *)
(* negative number, from in front of its table.                            *)
LeastMax(n) == 2 * n = -(IntMod * IntMod)
Wraps(c) == c = "d" /\ LeastMax(Argument(size, list, TRUE))

Overrun(c) ==
  /\ Reads(c)
  /\ state \in LengthStates \cup {"TYPE"} /\ ComesToType(c) /\ ~ Fails(c) /\ Wraps(c)
  /\ phase' = "wild"
  /\ Keep /\ UNCHANGED <<state, spec, list>>

Convert(c) ==
  /\ Reads(c)
  /\ In(LengthStates \cup {"TYPE"}) /\ ComesToType(c) /\ ~ Fails(c) /\ ~ Wraps(c)
  /\ CASE c = "%" -> Put(<<"%">>) /\ UNCHANGED list
       [] c = "c" -> Put(<<"c">>) /\ list' = Tail(list)
       [] c = "s" -> Put(StringOf(Head(list))) /\ list' = Tail(list)
       [] OTHER -> /\ Put(Converted(c, size, list, nflags, width))
                   /\ list' = SubSeq(list, Places(size) + 1, Len(list))
  /\ state' = "PRINT"
  /\ UNCHANGED spec

(* An assertion: of a conversion that fails or is unknown, and of anything  *)
(* but an asterisk after the precision.                                    *)
Abort(c) ==
  /\ Reads(c)
  /\ \/ state = "PRESC" /\ c # "*" /\ ~ IsDigit(c)
     \/ state \in LengthStates \cup {"TYPE"} /\ ComesToType(c) /\ Fails(c)
  /\ phase' = "aborted"
  /\ Keep /\ UNCHANGED <<state, spec, list>>

(* Mutant of End: a text of just the length of the buffer is not cut. *)
EndLate ==
  /\ phase = "format" /\ format = << >>
  /\ LET result == Min({count, Cardinality(DOMAIN str)}) IN
     str' = [str EXCEPT ![result] = "NUL"]
  /\ phase' = "print"
  /\ UNCHANGED <<format, state, spec, list, count, call>>

(* mel_vsnprintf ends the string. *)
End ==
  /\ phase = "format" /\ format = << >>
  /\ LET result == Min({count, Cardinality(DOMAIN str) - 1}) IN
     str' = [str EXCEPT ![result] = "NUL"]
  /\ phase' = "print"
  /\ UNCHANGED <<format, state, spec, list, count, call>>

(* vlog prints the buffer up to its first NUL; fatal and logassert exit.    *)
ShowMessage ==
  /\ phase = "print"
  /\ shown' = [i \in 1 .. Min({i \in DOMAIN str : str[i] = "NUL"}) |-> str[i - 1]]
  /\ phase' = IF level = Fatal THEN "exited" ELSE "done"
  /\ UNCHANGED <<meant, format, state, spec, list, str, count, level>>

Char(c) ==
  \/ Plain(c) \/ Flag(c) \/ WidthDigit(c) \/ WidthArg(c) \/ Dot(c)
  \/ PrecisionArg(c) \/ PrecisionDigit(c) \/ Length(c) \/ Convert(c)
  \/ Overrun(c) \/ Abort(c)

Next == Filtered \/ Formatted \/ (\E c \in Chars : Char(c)) \/ End \/ ShowMessage

Spec == Init /\ [][Next]_vars

-----------------------------------------------------------------------------
(* What the directives mean: how many arguments each takes and the text it  *)
(* gives, or that it is refused.                                           *)

WidthOf(d, args) == IF d.width = Star THEN args[1] ELSE d.width

Stars(d) == (IF d.width = Star THEN 1 ELSE 0) + (IF d.prec = "*" THEN 1 ELSE 0)

Takes(d) ==
  Stars(d) + CASE d.conv \in {"text", "%"} -> 0
               [] d.conv \in {"c", "s"} -> 1
               [] OTHER -> IF d.len \in {"ll", "j"} THEN 2 ELSE 1

(* A precision that is a number is refused, as are lengths of strings.      *)
Refused(d, args) ==
  \/ d.prec \notin {"", "*"}
  \/ d.conv = "d" /\ WidthOf(d, args) \notin 0 .. SignedBuf - 1
  \/ d.conv \in {"x", "u", "o"} /\ WidthOf(d, args) \notin 0 .. UnsignedBuf - 1
  \/ d.conv \in {"c", "s"} /\ d.len # ""
  \/ d.conv \notin {"text", "d", "x", "u", "o", "c", "s", "%"}

(* The number that a directive shows: so many bits of its argument, in     *)
(* two's complement where the type has a sign, and as a uintmax_t where    *)
(* none is to be shown.                                                    *)
Bits(d, places) ==
  CASE d.len = "hh" -> places[1] % CharMod
    [] d.len = "h" -> places[1] % ShortMod
    [] d.len \in {"ll", "j"} -> (places[1] % IntMod) + IntMod * (places[2] % IntMod)
    [] OTHER -> places[1] % IntMod
TypeMod(d) ==
  CASE d.len = "hh" -> CharMod [] d.len = "h" -> ShortMod
    [] d.len \in {"ll", "j"} -> IntMod * IntMod [] OTHER -> IntMod
HasSign(d) == d.len = "t" \/ (d.conv = "d" /\ d.len # "z")
ValueOf(d, places) ==
  LET bits == Bits(d, places)
      number == IF HasSign(d) /\ 2 * bits >= TypeMod(d) THEN bits - TypeMod(d) ELSE bits
  IN IF d.conv # "d" /\ number < 0 THEN number + IntMod * IntMod ELSE number

(* The least number of 64 bits has no positive one to take the digits of.   *)
Lost(d, args) ==
  /\ ~ Refused(d, args) /\ d.conv = "d"
  /\ LeastMax(ValueOf(d, SubSeq(args, Stars(d) + 1, Len(args))))

(* The text of a number: padded to the width, but never cut by it.          *)
Means(d, args) ==
  LET rest == SubSeq(args, Stars(d) + 1, Len(args)) IN
  CASE d.conv = "text" -> <<d.text>>
    [] d.conv \in {"%", "c"} -> <<d.conv>>
    [] d.conv = "s" -> StringOf(rest[1])
    [] OTHER ->
         LET n == ValueOf(d, rest)
             digits == Sign(n < 0, ToSet(d.flags)) \o Numeral(IF n < 0 THEN -n ELSE n, Base(d.conv))
             length == Min({Max({Len(digits), WidthOf(d, args)}), NfBuf - 2})
         IN [i \in 1 .. length |->
               IF i > length - Len(digits) THEN digits[i - (length - Len(digits))]
               ELSE IF "0" \in ToSet(d.flags) THEN "0" ELSE " "]

(* What the first i directives of a format mean: their text, the arguments  *)
(* left, and whether the program gets past them.                           *)
After(directives) ==
  LET after[i \in 0 .. Len(directives)] ==
        IF i = 0 THEN [text |-> << >>, args |-> Args, ok |-> TRUE]
        ELSE LET before == after[i - 1]
                 d == directives[i]
             IN IF ~ before.ok \/ Refused(d, before.args) \/ Lost(d, before.args)
                  THEN [before EXCEPT !.ok = FALSE]
                  ELSE [text |-> before.text \o Means(d, before.args),
                        args |-> SubSeq(before.args, Takes(d) + 1, Len(before.args)),
                        ok |-> TRUE]
  IN after

Meaning == After(meant)[Len(meant)]

(* What the format has come to in front of its directive i. *)
Read(i) == After(meant)[i - 1]

-----------------------------------------------------------------------------
(* Properties. *)

TypeOK ==
  /\ state \in LengthStates \cup {"PRINT", "PRESC", "TYPE"}
  /\ nflags \subseteq {"+", "0"} /\ count \in Nat
  /\ phase \in {"call", "format", "print", "done", "exited", "aborted", "wild"}

(* A format is understood as it is meant, through the fallthroughs of       *)
(* mel_vpprintf: every directive takes its own arguments, so that the next *)
(* one is not given a part of another's, numbers have the value of their   *)
(* type and are padded but not cut, the program aborts at directives only  *)
(* that it refuses, and leaves its buffers only for the least intmax_t.    *)
FormatsAsMeant ==
  /\ phase = "aborted" =>
       \E i \in DOMAIN meant :
         Read(i).ok /\ Refused(meant[i], Read(i).args)
  /\ phase = "wild" =>
       \E i \in DOMAIN meant :
         Read(i).ok /\ Lost(meant[i], Read(i).args)
  /\ phase = "print" =>
       /\ Meaning.ok /\ list = Meaning.args /\ count = Len(Meaning.text)
       /\ \A i \in DOMAIN str : str[i] \notin {"old", "NUL"} => str[i] = Meaning.text[i + 1]

(* A message is printed whole, or its beginning that fits the buffer, with  *)
(* nothing of older messages after it, also when it is a fatal one; and    *)
(* nothing is printed that the log level leaves out (mel_vsnprintf, vlog).  *)
MessageIsShown ==
  /\ phase = "print" => \E i \in DOMAIN str : str[i] = "NUL"
  /\ phase \in {"done", "exited"} =>
       shown = IF level < LogLevel THEN << >>
               ELSE SubSeq(Meaning.text, 1, Min({Len(Meaning.text), Cardinality(DOMAIN str) - 1}))
=============================================================================
