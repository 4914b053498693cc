------------------------------- MODULE CfgParser -------------------------------
(***************************************************************************)
(* The configuration file parser: accept_file, accept_section and          *)
(* accept_entry of config/cfgparser.c as a machine over tokens.  Whitespace *)
(* is accepted wherever it may stand and is not a token; text after the    *)
(* last brace is not read.                                                 *)
(*                                                                         *)
(* A token is [k, v, chars]: a name and a string have a value v, a number   *)
(* its characters, whose conversion is the parser's own.  A character      *)
(* literal, which is another number, is left out.                          *)
(***************************************************************************)
EXTENDS Integers, SequencesExt, FiniteSetsExt

CONSTANTS
  Words,      (* the names and strings that turn up in files               *)
  Files,      (* configuration files, as their authors mean them           *)
  Spare,      (* tokens that may turn up in a file by mistake              *)
  Modulus     (* the integers of an entry wrap here: 2^64 in the code      *)

NumberChars ==
  <<"0", "1", "2", "3", "4", "5", "6", "7", "8", "9", "a", "b", "c", "d", "e", "f">>

(* A number as it is written, and a token of a text.  The digits are those  *)
(* of the radix, and a decimal number does not start with a zero.          *)
Written ==
  {n \in [neg : BOOLEAN, radix : {8, 10, 16}, digits : Seq(0 .. 15)] :
     /\ n.digits # << >>
     /\ \A i \in DOMAIN n.digits : n.digits[i] < n.radix
     /\ n.radix = 10 => n.digits[1] # 0 \/ Len(n.digits) = 1}
NumberCharSet == {NumberChars[i] : i \in 1 .. 16} \cup {"-", "x"}
Kinds == {"name", "string", "number", "=", "{", "}", ";", ","}
Token == {t \in [k : Kinds, v : Words, chars : Seq(NumberCharSet)] :
            t.k \notin {"name", "string"} => t.v = ""}

(* A file, for numbers of any kind N: it has a section, and a section has   *)
(* an entry.                                                               *)
EntryOf(N) ==
  {e \in [name : Words, type : {"string", "int64"}, string : Words, number : N] :
     e.type = "int64" => e.string = ""}
SectionOf(N) == {s \in [type : Words, name : Words, entries : Seq(EntryOf(N))] : s.entries # << >>}
FileOf(N) == {f \in [name : Words, sections : Seq(SectionOf(N))] : f.sections # << >>}

CfgAssumption ==
  /\ Modulus \in Nat \ {0} /\ "" \in Words
  /\ Files \subseteq FileOf(Written)
  /\ Spare \subseteq Token

VARIABLES
  source,     (* the file that was meant, ...                              *)
  edit,       (* ... what happened to it, ...                              *)
  text,       (* ... and the tokens of the file that is parsed             *)
  pos,        (* the next token                                            *)
  parsing,    (* the call that accepts it                                  *)
  file        (* the sections parsed so far, and their entries             *)

cfgVars == <<source, edit, text, pos, parsing, file>>
input == <<source, edit, text>>

-----------------------------------------------------------------------------
(* The grammar: a file as a sequence of tokens, each with the kinds it may  *)
(* have.  A number is [neg, radix, digits] in a file that is meant, and its *)
(* value in one that was parsed.                                           *)

SpellNumber(n) ==
  (IF n.neg THEN <<"-">> ELSE << >>)
    \o (CASE n.radix = 16 -> <<"0", "x">> [] n.radix = 8 -> <<"0">> [] OTHER -> << >>)
    \o [i \in DOMAIN n.digits |-> NumberChars[n.digits[i] + 1]]

Zero == [neg |-> FALSE, radix |-> 10, digits |-> <<0>>]

(* What a number means: the sum of its digits by their weights. *)
NumberMeans(n) ==
  LET size == Len(n.digits)
      weight[i \in 0 .. size] == IF i = 0 THEN 1 ELSE n.radix * weight[i - 1]
      sum[i \in 0 .. size] ==
        IF i = 0 THEN 0 ELSE sum[i - 1] + n.digits[i] * weight[size - i]
  IN (IF n.neg THEN - sum[size] ELSE sum[size]) % Modulus

Part(k, v) == <<[k |-> k, v |-> v, number |-> Zero]>>
Mark(k) == Part({k}, "")

RenderEntry(e) ==
  Part({"name"}, e.name) \o Mark("=")
    \o (IF e.type = "string" THEN Part({"string", "name"}, e.string)
                             ELSE <<[k |-> {"number"}, v |-> "", number |-> e.number]>>)
    \o Mark(";")

RenderSection(s) ==
  Part({"name"}, s.type) \o Part({"name", "string"}, s.name)
    \o Mark("{") \o FlattenSeq([i \in DOMAIN s.entries |-> RenderEntry(s.entries[i])])
    \o Mark("}")

Separated(seqs) ==
  FlattenSeq([i \in DOMAIN seqs |-> IF i = 1 THEN seqs[i] ELSE Mark(",") \o seqs[i]])

Render(f) ==
  Part({"name"}, f.name) \o Mark("{")
    \o Separated([i \in DOMAIN f.sections |-> RenderSection(f.sections[i])])
    \o Mark("}")

(* The text of a file, with quotes only where they are needed or wherever   *)
(* they may be.                                                            *)
TextOf(rendered, quotes) ==
  [i \in DOMAIN rendered |->
     LET r == rendered[i] IN
     [k |-> IF Cardinality(r.k) = 1 THEN CHOOSE k \in r.k : TRUE ELSE quotes,
      v |-> r.v,
      chars |-> IF r.k = {"number"} THEN SpellNumber(r.number) ELSE << >>]]

(* The file with the values of its numbers. *)
MeantEntry(e) ==
  [name |-> e.name, type |-> e.type, string |-> e.string,
   number |-> IF e.type = "string" THEN 0 ELSE NumberMeans(e.number)]

MeantSection(s) ==
  [type |-> s.type, name |-> s.name,
   entries |-> [j \in DOMAIN s.entries |-> MeantEntry(s.entries[j])]]

Meant(f) ==
  [name |-> f.name, sections |-> [i \in DOMAIN f.sections |-> MeantSection(f.sections[i])]]

(* A token is lost, doubled or mistaken, or the file is cut off. *)
Edits(t) ==
  {[name |-> "lost", text |-> RemoveAt(t, i)] : i \in DOMAIN t}
  \cup {[name |-> "doubled", text |-> InsertAt(t, i, t[i])] : i \in DOMAIN t}
  \cup {[name |-> "cut", text |-> SubSeq(t, 1, i - 1)] : i \in DOMAIN t}
  \cup {[name |-> "mistaken", text |-> [t EXCEPT ![i] = x]] : i \in DOMAIN t, x \in Spare}

-----------------------------------------------------------------------------
(* Numbers. *)

(* map_digit: of a character that is no digit, -1. *)
MapDigit(c) == SelectInSeq(NumberChars, LAMBDA d : d = c) - 1

IsDecimal(c) == MapDigit(c) \in 0 .. 9

(* The digits of s from i on that the radix has. *)
Run(s, i, radix) ==
  LET stop == {j \in i .. Len(s) : MapDigit(s[j]) \notin 0 .. radix - 1} IN
  SubSeq(s, i, IF stop = {} THEN Len(s) ELSE Min(stop) - 1)

(* Mutant of Step: base ten whatever the radix. *)
StepTen(acc, digit, radix) == (acc * 10 + digit) % Modulus

Step(acc, digit, radix) == (acc * radix + digit) % Modulus

Accumulate(digits, radix) ==
  LET acc[i \in 0 .. Len(digits)] ==
        IF i = 0 THEN 0 ELSE Step(acc[i - 1], MapDigit(digits[i]), radix)
  IN acc[Len(digits)]

(* accept_int on the characters s: whether it accepts, the value, and how   *)
(* many characters it has consumed.  A sign, a radix, the digits.          *)
AcceptInt(s) ==
  LET neg == s[1] = "-"
      i == IF neg THEN 2 ELSE 1
      zero == i < Len(s) /\ s[i] = "0"
      hex == zero /\ s[i + 1] = "x"
      octal == zero /\ IsDecimal(s[i + 1])
      from == IF hex THEN i + 2 ELSE IF octal THEN i + 1 ELSE i
      radix == IF hex THEN 16 ELSE IF octal THEN 8 ELSE 10
      digits == IF zero /\ ~ hex /\ ~ octal THEN <<"0">> ELSE Run(s, from, radix)
      value == Accumulate(digits, radix)
  IN [ok |-> /\ i <= Len(s) /\ IsDecimal(s[i])
             /\ hex => from <= Len(s) /\ MapDigit(s[from]) >= 0,
      value |-> IF neg THEN (Modulus - value) % Modulus ELSE value,
      used |-> from - 1 + Len(digits)]

-----------------------------------------------------------------------------

(* The next token, or the end of the file. *)
Tok == IF pos <= Len(text) THEN text[pos] ELSE [k |-> "EOF", v |-> "", chars |-> << >>]
At(k) == Tok.k = k
AtWord == At("name") \/ At("string")
(* The number at the token, if accept_int accepts one. *)
Number == IF At("number") THEN {n \in {AcceptInt(Tok.chars)} : n.ok} ELSE {}

CfgInit ==
  /\ source \in Files
  /\ \/ /\ edit = "none"
        /\ \E quotes \in {"name", "string"} : text = TextOf(Render(source), quotes)
     \/ \E e \in Edits(TextOf(Render(source), "name")) : edit = e.name /\ text = e.text
  /\ pos = 1 /\ parsing = "file" /\ file = [name |-> "", sections |-> << >>]

Accept(next) == pos' = pos + 1 /\ parsing' = next /\ UNCHANGED input
Stop(how) == parsing' = how /\ UNCHANGED <<input, pos, file>>

LastSection == Last(file.sections)
WithSection(s) == [file EXCEPT !.sections = Append(Front(@), s)]
WithEntry(e) == WithSection([LastSection EXCEPT !.entries = Append(@, e)])
LastEntry == Last(LastSection.entries)

(* The entry gets its type and its value. *)
SetValue(type, string, number) ==
  file' = WithSection([LastSection EXCEPT !.entries =
            Append(Front(@), [LastEntry EXCEPT !.type = type, !.string = string, !.number = number])])

(* A file that does not start with a name is no file; load_config gives up. *)
FileName ==
  /\ parsing = "file"
  /\ IF At("name")
       THEN Accept("fileOpen") /\ file' = [file EXCEPT !.name = Tok.v]
       ELSE Stop("null")

Brace(at, next) ==
  /\ parsing = at
  /\ IF At("{") THEN Accept(next) /\ UNCHANGED file ELSE Stop("fatal")

SectionType ==
  /\ parsing = "section"
  /\ IF At("name")
       THEN /\ Accept("sectionName")
            /\ file' = [file EXCEPT !.sections =
                          Append(@, [type |-> Tok.v, name |-> "", entries |-> << >>])]
       ELSE Stop("fatal")

SectionName ==
  /\ parsing = "sectionName"
  /\ IF AtWord
       THEN Accept("sectionOpen") /\ file' = WithSection([LastSection EXCEPT !.name = Tok.v])
       ELSE Stop("fatal")

EntryName ==
  /\ parsing = "entry"
  /\ IF At("name")
       THEN Accept("equals") /\ file' = WithEntry([name |-> Tok.v, type |-> "", string |-> "", number |-> 0])
       ELSE Stop("fatal")

Equals ==
  /\ parsing = "equals"
  /\ IF At("=") THEN Accept("value") /\ UNCHANGED file ELSE Stop("fatal")

(* A string, a number or a name.  What a number leaves of its characters is *)
(* what the next call reads.                                               *)
Value ==
  /\ parsing = "value"
  /\ \/ AtWord /\ Accept("semicolon") /\ SetValue("string", Tok.v, 0)
     \/ \E n \in Number :
          /\ SetValue("int64", "", n.value)
          /\ Accept(IF n.used = Len(Tok.chars) THEN "semicolon" ELSE "fatal")
     \/ ~ AtWord /\ Number = {} /\ Stop("fatal")

Semicolon ==
  /\ parsing = "semicolon"
  /\ IF At(";") THEN Accept("entryOrEnd") /\ UNCHANGED file ELSE Stop("fatal")

(* A brace ends the section; anything else has to be the next entry, but    *)
(* the end of the file is refused at once.                                 *)
EntryOrEnd ==
  /\ parsing = "entryOrEnd"
  /\ IF At("}") THEN Accept("sectionEnd") /\ UNCHANGED file
     ELSE IF At("EOF") THEN Stop("fatal") ELSE Stop("entry")

(* Mutant of SectionEnd: the comma may be left out. *)
SectionEndLoose ==
  /\ parsing = "sectionEnd"
  /\ IF At("}") THEN Accept("done") /\ UNCHANGED file
     ELSE IF At(",") THEN Accept("section") /\ UNCHANGED file
     ELSE IF At("name") THEN Stop("section") ELSE Stop("fatal")

(* Mutant of SectionEnd: the comma is read again. *)
SectionEndAgain ==
  /\ parsing = "sectionEnd"
  /\ IF At("}") THEN Accept("done") /\ UNCHANGED file
     ELSE IF At(",") THEN UNCHANGED cfgVars
     ELSE Stop("fatal")

(* A brace ends the file and a comma brings the next section. *)
SectionEnd ==
  /\ parsing = "sectionEnd"
  /\ IF At("}") THEN Accept("done") /\ UNCHANGED file
     ELSE IF At(",") THEN Accept("section") /\ UNCHANGED file
     ELSE Stop("fatal")

Stopped == parsing \in {"done", "null", "fatal"}

CfgNext ==
  \/ FileName \/ Brace("fileOpen", "section")
  \/ SectionType \/ SectionName \/ Brace("sectionOpen", "entry")
  \/ EntryName \/ Equals \/ Value \/ Semicolon \/ EntryOrEnd
  \/ SectionEnd

CfgSpec == CfgInit /\ [][CfgNext]_cfgVars

(* The parser runs until it stops. *)
CfgFairSpec == CfgSpec /\ WF_cfgVars(CfgNext)

-----------------------------------------------------------------------------
(* Properties. *)

(* A file that is parsed to its end is one of the grammar, and what was     *)
(* built is what it says: printed again, it gives the tokens consumed.     *)
(* Nothing is skipped, invented, or taken into the wrong section.          *)
OnlyTheGrammar ==
  parsing = "done" =>
    LET r == Render(file) IN
    /\ Len(r) = pos - 1
    /\ \A i \in DOMAIN r : text[i].k \in r[i].k /\ text[i].v = r[i].v
    /\ \A i \in DOMAIN r : text[i].k = "number" =>
         r[i].number = AcceptInt(text[i].chars).value

(* A file of the grammar is accepted, and its sections, its entries and the *)
(* values of its numbers are those that were meant.                        *)
SourceIsRead ==
  edit = "none" =>
    /\ parsing \notin {"null", "fatal"}
    /\ parsing = "done" => file = Meant(source) /\ pos = Len(text) + 1

(* The parser comes to an end with every file, also when it is cut off. *)
ParserStops == <>Stopped
=============================================================================
