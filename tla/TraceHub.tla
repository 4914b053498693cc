-------------------------------- MODULE TraceHub --------------------------------
(***************************************************************************)
(* The firmware trace memory of the Trace Hub: periph/tracehub/ftmr.c and  *)
(* util/trace.c.                                                           *)
(*                                                                         *)
(* Firmware writes the messages of a packet one by one to the addresses of *)
(* its channel.  The hub has one buffer for all of the channels: messages  *)
(* of another channel drop what is in it.  The message that a packet ends  *)
(* with, a FLAG, has the buffer decoded and the text of the packet         *)
(* printed, which is left out here.  A write is one action, with all that   *)
(* trace_msg does.                                                         *)
(***************************************************************************)
EXTENDS Integers, SequencesExt

CONSTANTS
  Channels,     (* the pairs of a master and a channel                      *)
  Size,         (* TRACEBUF_SIZE: 64 in the code                            *)
  Packets       (* what a channel sends: [type, bytes, data, flags], the    *)
                (*   header, the length, the pieces and the flags           *)

ASSUME TraceAssumption ==
  /\ Size \in Nat \ {0}
  /\ Channels \subseteq Nat \X Nat

VARIABLES
  tbuf_channel,  (* tbuf_master and tbuf_channel, or Nobody                 *)
  tbuf_msgs,     (* the buffer: what was in it before is not cleared        *)
  tbuf_pos,
  todo,          (* of each channel: what is left of its packet, ...        *)
  packet,        (* ... the packet, ...                                     *)
  alone,         (* ... and whether it had the hub for itself until now     *)
  ended,         (* the packet that the last write ended, ...               *)
  decoded        (* ... and the one it had decoded                          *)

vars == <<tbuf_channel, tbuf_msgs, tbuf_pos, todo, packet, alone, ended, decoded>>

Nobody == <<-1, -1>>
Nothing == [channel |-> Nobody, type |-> 0, data |-> <<>>]

-----------------------------------------------------------------------------
(* The messages of a packet. *)

(* The registers of a channel and what is written to them.                 *)
MsgType(reg) ==
  CASE reg = 0 -> "Dn" [] reg = 16 -> "DnTS" [] reg = 48 -> "FLAG"

Msg(reg, count, val) == [type |-> MsgType(reg), size |-> count, val |-> val]

(* The widths of the pieces of so many bytes: words, then a half word, then *)
(* a byte.                                                                 *)
Widths(bytes) ==
  [i \in 1 .. bytes \div 4 |-> 4]
    \o [i \in 1 .. (bytes % 4) \div 2 |-> 2] \o [i \in 1 .. bytes % 2 |-> 1]

(* A packet has as many pieces as its length takes. *)
ASSUME PacketsAssumption ==
  /\ Packets # {}
  /\ Packets \subseteq [type : Nat, bytes : Nat, data : Seq(Nat), flags : Nat]
  /\ \A p \in Packets : Len(p.data) = Len(Widths(p.bytes))

(* What firmware writes for a packet. *)
Messages(p) ==
  <<Msg(16, 4, p.type), Msg(0, 2, p.bytes)>>
    \o [i \in 1 .. Len(p.data) |-> Msg(0, Widths(p.bytes)[i], p.data[i])]
    \o <<Msg(48, 4, p.flags)>>

-----------------------------------------------------------------------------
(* The buffer. *)

Init ==
  /\ tbuf_channel = Nobody /\ tbuf_pos = 0
  /\ tbuf_msgs = [i \in 1 .. Size + 1 |-> Msg(0, 0, 0)]
  /\ todo = [c \in Channels |-> <<>>]
  /\ packet = [c \in Channels |-> CHOOSE p \in Packets : TRUE]
  /\ alone = [c \in Channels |-> FALSE]
  /\ ended = Nothing /\ decoded = Nothing

(* Looked at before the message is put: the buffer takes one too many.     *)
Overflows(pos) == pos > Size

(* Mutant of Same: the channels of one master are taken for one.           *)
SameMaster(c) == tbuf_channel[1] = c[1]

Same(c) == tbuf_channel = c

(* Where the message of a channel goes. *)
Place(c) == IF Same(c) THEN tbuf_pos + 1 ELSE 1

Ends(msgs, pos) == msgs[pos].type = "FLAG"

(* What trace_decode asks of a buffer that a FLAG ends. *)
Accepts(msgs, pos) ==
  /\ msgs[1].type = "DnTS" /\ msgs[1].size = 4
  /\ msgs[2].size = 2
  /\ msgs[pos].val = 0

Pieces(msgs) == [i \in 1 .. Len(Widths(msgs[2].val)) |-> msgs[2 + i].val]

(* Mutant of AfterDecode: a packet that is refused stays in the buffer.     *)
AfterDecodeKept(pos, accepted) == IF accepted THEN 0 ELSE pos

AfterDecode(pos, accepted) == 0

(* trace_decode, after each message. *)
Decode(c, msgs, pos) ==
  LET accepted == Ends(msgs, pos) /\ Accepts(msgs, pos) IN
  /\ tbuf_pos' = IF Ends(msgs, pos) THEN AfterDecode(pos, accepted) ELSE pos
  /\ tbuf_channel' = IF accepted THEN Nobody ELSE c
  /\ decoded' = IF accepted
                  THEN [channel |-> c, type |-> msgs[1].val, data |-> Pieces(msgs)]
                  ELSE Nothing

(* trace_msg: when the buffer has overflowed, the message is dropped.       *)
TraceMsg(c, msg) ==
  \/ /\ Overflows(tbuf_pos)
     /\ decoded' = Nothing
     /\ UNCHANGED <<tbuf_channel, tbuf_msgs, tbuf_pos>>
  \/ /\ ~ Overflows(tbuf_pos)
     /\ tbuf_msgs' = [i \in DOMAIN tbuf_msgs \cup {Place(c)} |->
                       IF i = Place(c) THEN msg ELSE tbuf_msgs[i]]
     /\ Decode(c, tbuf_msgs', Place(c))

-----------------------------------------------------------------------------
(* Firmware. *)

(* A channel writes a message: the first of a packet, or the next one.      *)
Write(c, p) ==
  LET first == todo[c] = <<>>
      msgs == IF first THEN Messages(p) ELSE todo[c] IN
  /\ first \/ p = packet[c]
  /\ TraceMsg(c, Head(msgs))
  /\ todo' = [todo EXCEPT ![c] = Tail(msgs)]
  /\ packet' = [packet EXCEPT ![c] = p]
  /\ alone' = [d \in Channels |-> d = c /\ (first \/ alone[c])]
  /\ ended' = IF Len(msgs) > 1 THEN Nothing
              ELSE [channel |-> c, type |-> p.type, data |-> p.data]

Next == \E c \in Channels, p \in Packets : Write(c, p)

Spec == Init /\ [][Next]_vars

-----------------------------------------------------------------------------
(* Properties. *)

TypeOK ==
  /\ tbuf_channel \in Channels \cup {Nobody}
  /\ tbuf_pos \in 0 .. Size + 1
  /\ DOMAIN tbuf_msgs = 1 .. Size + 1
  /\ \A c \in Channels : packet[c] \in Packets

(* Whatever the channels send between each other's messages, a packet that *)
(* is decoded is one that its channel has just sent, whole: no piece of    *)
(* another channel, of a packet before or of one that was dropped.         *)
DecodedIsSent == decoded # Nothing => decoded = ended

(* A packet of zero flags that fits the buffer and that no other channel   *)
(* disturbs.                                                               *)
Undisturbed(c) ==
  /\ ended.channel = c /\ alone[c]
  /\ packet[c].flags = 0 /\ Len(Messages(packet[c])) <= Size

(* It is decoded with its last message, also after packets that were        *)
(* dropped or refused, as long as no packet has been too long for the      *)
(* buffer.                                                                 *)
UndisturbedIsDecoded ==
  tbuf_pos <= Size => \A c \in Channels : Undisturbed(c) => decoded = ended

(* trace.c:139 "Trace buffer overflow, dropping packet!": a packet that is   *)
(* too long is dropped, and later ones are decoded.                        *)
OverflowDropsPacket ==
  \A c \in Channels : Undisturbed(c) => decoded = ended
=============================================================================
