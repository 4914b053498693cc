---------------------------- MODULE TraceHubProofs ----------------------------
(***************************************************************************)
(* The message buffer of the Trace Hub for any channels, any packets and   *)
(* any length of the buffer: what is decoded is what a channel has sent,   *)
(* and a packet that is not disturbed is decoded.                          *)
(***************************************************************************)
EXTENDS TraceHub, SequenceTheorems, TLAPS

AllMsgs == [type : {"Dn", "DnTS", "FLAG"}, size : {1, 2, 4}, val : Nat]

(* How much of its packet a channel has written. *)
Sent(c) == Len(Messages(packet[c])) - Len(todo[c])

(* What is left of the packet is its rest. *)
TodoInv ==
  \A c \in Channels :
    /\ todo[c] \in Seq(AllMsgs)
    /\ Sent(c) > 0
    /\ \A i \in 1 .. Len(todo[c]) : todo[c][i] = Messages(packet[c])[Sent(c) + i]

(* The buffer holds the last messages of the channel it belongs to, and     *)
(* none of a packet that has ended.                                        *)
BufferInv ==
  tbuf_pos <= Size =>
    \A c \in Channels : tbuf_channel = c =>
      /\ tbuf_pos <= Sent(c)
      /\ \A i \in 1 .. tbuf_pos :
           tbuf_msgs[i] = Messages(packet[c])[Sent(c) - tbuf_pos + i]
      /\ todo[c] = << >> => tbuf_pos = 0

(* A channel in the middle of a packet that nobody has disturbed has all    *)
(* that it wrote in the buffer.                                            *)
AloneInv ==
  tbuf_pos <= Size =>
    \A c \in Channels : alone[c] /\ todo[c] # << >> =>
      tbuf_channel = c /\ tbuf_pos = Sent(c)

HistoryOK == alone \in [Channels -> BOOLEAN] /\ packet \in [Channels -> Packets]
             /\ DOMAIN todo = Channels

Inv ==
  /\ TypeOK /\ HistoryOK /\ TodoInv /\ BufferInv /\ AloneInv
  /\ DecodedIsSent /\ UndisturbedIsDecoded

-----------------------------------------------------------------------------
(* The messages of a packet. *)

LEMMA WidthsType ==
  ASSUME NEW bytes \in Nat
  PROVE  Widths(bytes) \in Seq({1, 2, 4})
<1> DEFINE a == [i \in 1 .. bytes \div 4 |-> 4]
           b == [i \in 1 .. (bytes % 4) \div 2 |-> 2]
           c == [i \in 1 .. bytes % 2 |-> 1]
<1>1. bytes \div 4 \in Nat /\ (bytes % 4) \div 2 \in Nat /\ bytes % 2 \in Nat
  OBVIOUS
<1>2. a \in Seq({1, 2, 4}) /\ b \in Seq({1, 2, 4}) /\ c \in Seq({1, 2, 4})
  BY <1>1
<1>3. Widths(bytes) = (a \o b) \o c
  BY DEF Widths
<1> HIDE DEF a, b, c
<1> QED BY <1>2, <1>3, ConcatProperties

LEMMA MessagesOf ==
  ASSUME NEW p \in Packets
  PROVE  /\ Messages(p) \in Seq(AllMsgs)
         /\ p.data \in Seq(Nat) /\ Len(p.data) \in Nat
         /\ Len(Messages(p)) = Len(p.data) + 3
         /\ Messages(p)[1] = [type |-> "DnTS", size |-> 4, val |-> p.type]
         /\ Messages(p)[2] = [type |-> "Dn", size |-> 2, val |-> p.bytes]
         /\ \A i \in 1 .. Len(p.data) :
              /\ Messages(p)[2 + i].type = "Dn"
              /\ Messages(p)[2 + i].val = p.data[i]
         /\ Messages(p)[Len(p.data) + 3] = [type |-> "FLAG", size |-> 4, val |-> p.flags]
<1>1. /\ p.type \in Nat /\ p.bytes \in Nat /\ p.data \in Seq(Nat) /\ p.flags \in Nat
      /\ Len(p.data) = Len(Widths(p.bytes)) /\ Len(p.data) \in Nat
  BY PacketsAssumption
<1> DEFINE head == <<Msg(16, 4, p.type), Msg(0, 2, p.bytes)>>
           body == [i \in 1 .. Len(p.data) |-> Msg(0, Widths(p.bytes)[i], p.data[i])]
           foot == <<Msg(48, 4, p.flags)>>
<1>2. /\ Msg(16, 4, p.type) = [type |-> "DnTS", size |-> 4, val |-> p.type]
      /\ Msg(0, 2, p.bytes) = [type |-> "Dn", size |-> 2, val |-> p.bytes]
      /\ Msg(48, 4, p.flags) = [type |-> "FLAG", size |-> 4, val |-> p.flags]
      /\ \A w, v : Msg(0, w, v) = [type |-> "Dn", size |-> w, val |-> v]
  BY DEF Msg, MsgType
<1>3. head \in Seq(AllMsgs) /\ Len(head) = 2
  BY <1>1, <1>2 DEF AllMsgs
<1>4. foot \in Seq(AllMsgs) /\ Len(foot) = 1
  BY <1>1, <1>2 DEF AllMsgs
<1>5. body \in Seq(AllMsgs) /\ Len(body) = Len(p.data)
  <2>1. ASSUME NEW i \in 1 .. Len(p.data)
        PROVE  Msg(0, Widths(p.bytes)[i], p.data[i]) \in AllMsgs
    <3>1. Widths(p.bytes)[i] \in {1, 2, 4}
      BY <1>1, WidthsType, ElementOfSeq
    <3>2. p.data[i] \in Nat
      BY <1>1
    <3> QED BY <1>2, <3>1, <3>2 DEF AllMsgs
  <2> QED BY <1>1, <2>1
<1>6. /\ head[1] = [type |-> "DnTS", size |-> 4, val |-> p.type]
      /\ head[2] = [type |-> "Dn", size |-> 2, val |-> p.bytes]
      /\ foot[1] = [type |-> "FLAG", size |-> 4, val |-> p.flags]
      /\ \A i \in 1 .. Len(p.data) : body[i].type = "Dn" /\ body[i].val = p.data[i]
  BY <1>2
<1>7. Messages(p) = (head \o body) \o foot
  BY DEF Messages
<1> HIDE DEF head, body, foot
<1>8. /\ head \o body \in Seq(AllMsgs) /\ Len(head \o body) = Len(head) + Len(body)
      /\ \A i \in 1 .. Len(head) + Len(body) :
           (head \o body)[i] = IF i <= Len(head) THEN head[i] ELSE body[i - Len(head)]
  <2>1. head \in Seq(AllMsgs) /\ body \in Seq(AllMsgs)
    BY <1>3, <1>5
  <2>2. head \o body \in Seq(AllMsgs) /\ Len(head \o body) = Len(head) + Len(body)
    BY <2>1, ConcatProperties
  <2>3. \A i \in 1 .. Len(head) + Len(body) :
          (head \o body)[i] = IF i <= Len(head) THEN head[i] ELSE body[i - Len(head)]
    BY <2>1, ConcatProperties
  <2> QED BY <2>2, <2>3
<1> DEFINE n == Len(p.data)
           front == head \o body
<1>9. /\ n \in Nat /\ Len(front) = n + 2
      /\ front[1] = head[1] /\ front[2] = head[2]
      /\ \A i \in 1 .. n : front[2 + i] = body[i]
  <2>1. n \in Nat /\ Len(front) = n + 2
    BY <1>1, <1>3, <1>5, <1>8
  <2>2. \A i \in 1 .. n + 2 : front[i] = IF i <= 2 THEN head[i] ELSE body[i - 2]
    BY <1>1, <1>3, <1>5, <1>8
  <2>3. ASSUME NEW i \in 1 .. n PROVE front[2 + i] = body[i]
    <3>1. 2 + i \in 1 .. n + 2 /\ ~ (2 + i <= 2) /\ (2 + i) - 2 = i
      BY <2>1
    <3> QED BY <2>2, <3>1
  <2>4. 1 \in 1 .. n + 2 /\ 2 \in 1 .. n + 2
    BY <2>1
  <2>5. front[1] = head[1] /\ front[2] = head[2]
    <3> HIDE DEF n, front
    <3> QED BY <2>2, <2>4
  <2> HIDE DEF n, front
  <2> QED BY <2>1, <2>3, <2>5
<1> HIDE DEF front
<1>10. /\ front \o foot \in Seq(AllMsgs) /\ Len(front \o foot) = Len(front) + Len(foot)
       /\ \A i \in 1 .. Len(front) + Len(foot) :
            (front \o foot)[i] = IF i <= Len(front) THEN front[i] ELSE foot[i - Len(front)]
  <2>1. front \in Seq(AllMsgs)
    BY <1>8 DEF front
  <2>2. front \o foot \in Seq(AllMsgs) /\ Len(front \o foot) = Len(front) + Len(foot)
    BY <1>4, <2>1, ConcatProperties
  <2>3. \A i \in 1 .. Len(front) + Len(foot) :
          (front \o foot)[i] = IF i <= Len(front) THEN front[i] ELSE foot[i - Len(front)]
    BY <1>4, <2>1, ConcatProperties
  <2> QED BY <2>2, <2>3
<1>11. Messages(p) = front \o foot
  BY <1>7 DEF front
<1> HIDE DEF n
<1>12. Messages(p) \in Seq(AllMsgs) /\ Len(Messages(p)) = n + 3
  BY <1>4, <1>9, <1>10, <1>11
<1>13. \A i \in 1 .. n + 3 : Messages(p)[i] = IF i <= n + 2 THEN front[i] ELSE foot[i - (n + 2)]
  BY <1>4, <1>9, <1>10, <1>11
<1>14. Messages(p)[1] = head[1] /\ Messages(p)[2] = head[2]
  <2>1. 1 \in 1 .. n + 3 /\ 2 \in 1 .. n + 3 /\ 1 <= n + 2 /\ 2 <= n + 2
    BY <1>9
  <2> QED BY <1>9, <1>13, <2>1
<1>15. ASSUME NEW i \in 1 .. n PROVE Messages(p)[2 + i] = body[i]
  <2>1. 2 + i \in 1 .. n + 3 /\ 2 + i <= n + 2
    BY <1>9
  <2> QED BY <1>9, <1>13, <2>1
<1>16. Messages(p)[n + 3] = foot[1]
  <2>1. n + 3 \in 1 .. n + 3 /\ ~ (n + 3 <= n + 2) /\ (n + 3) - (n + 2) = 1
    BY <1>9
  <2> QED BY <1>13, <2>1
<1> QED BY <1>1, <1>6, <1>12, <1>14, <1>15, <1>16 DEF n

(* Only the first message of a packet is a header, and only the last a FLAG. *)
LEMMA FirstAndLast ==
  ASSUME NEW p \in Packets, NEW i \in 1 .. Len(Messages(p))
  PROVE  /\ Messages(p)[i].type = "DnTS" => i = 1
         /\ Messages(p)[i].type = "FLAG" <=> i = Len(Messages(p))
<1> DEFINE n == Len(p.data)
           m == Messages(p)
<1>1. /\ n \in Nat /\ Len(m) = n + 3
      /\ m[1].type = "DnTS" /\ m[2].type = "Dn" /\ m[n + 3].type = "FLAG"
      /\ \A j \in 1 .. n : m[2 + j].type = "Dn"
  <2>1. /\ n \in Nat /\ Len(m) = n + 3
        /\ m[1] = [type |-> "DnTS", size |-> 4, val |-> p.type]
        /\ m[2] = [type |-> "Dn", size |-> 2, val |-> p.bytes]
        /\ m[n + 3] = [type |-> "FLAG", size |-> 4, val |-> p.flags]
    BY MessagesOf
  <2>2. \A j \in 1 .. n : m[2 + j].type = "Dn"
    BY MessagesOf
  <2> HIDE DEF n, m
  <2> QED BY <2>1, <2>2
<1> HIDE DEF n, m
<1>2. CASE i = 1
  BY <1>1, <1>2 DEF m
<1>3. CASE i = 2
  BY <1>1, <1>3 DEF m
<1>4. CASE i - 2 \in 1 .. n
  <2>1. 2 + (i - 2) = i /\ i # 1 /\ i # n + 3
    BY <1>1, <1>4
  <2>2. m[2 + (i - 2)].type = "Dn"
    BY <1>1, <1>4
  <2> QED BY <1>1, <2>1, <2>2 DEF m
<1>5. CASE i = n + 3
  BY <1>1, <1>5 DEF m
<1>6. i \in 1 .. n + 3
  BY <1>1 DEF m
<1> QED BY <1>1, <1>2, <1>3, <1>4, <1>5, <1>6

(* A buffer that begins with a whole packet has its pieces. *)
LEMMA PiecesOf ==
  ASSUME NEW p \in Packets, NEW buf,
         \A i \in 1 .. Len(Messages(p)) : buf[i] = Messages(p)[i]
  PROVE  Pieces(buf) = p.data
<1> DEFINE n == Len(p.data)
           m == Messages(p)
<1>1. /\ n \in Nat /\ Len(m) = n + 3 /\ p.data \in Seq(Nat)
      /\ m[2] = [type |-> "Dn", size |-> 2, val |-> p.bytes]
      /\ \A i \in 1 .. n : m[2 + i].val = p.data[i]
  BY MessagesOf
<1>2. n = Len(Widths(p.bytes))
  BY PacketsAssumption
<1>3. \A i \in 1 .. Len(m) : buf[i] = m[i]
  OBVIOUS
<1>4. p.data = [i \in 1 .. n |-> p.data[i]]
  <2>1. p.data \in [1 .. n -> Nat]
    BY <1>1, LenProperties
  <2> QED BY <2>1
<1> HIDE DEF n, m
<1>5. buf[2].val = p.bytes
  <2>1. 2 \in 1 .. Len(m)
    BY <1>1
  <2> QED BY <1>1, <1>3, <2>1
<1>6. ASSUME NEW i \in 1 .. n PROVE buf[2 + i].val = p.data[i]
  <2>1. 2 + i \in 1 .. Len(m)
    BY <1>1
  <2> QED BY <1>1, <1>3, <2>1
<1>7. Pieces(buf) = [i \in 1 .. n |-> buf[2 + i].val]
  BY <1>2, <1>5 DEF Pieces
<1> QED BY <1>4, <1>6, <1>7

-----------------------------------------------------------------------------
(* A write. *)

(* What a channel has left to write of its packet, at a write.              *)
Rest(c, p) == IF todo[c] = << >> THEN Messages(p) ELSE todo[c]

LEMMA RestOf ==
  ASSUME Inv, NEW c \in Channels, NEW p \in Packets, Write(c, p)
  PROVE  /\ Rest(c, p) \in Seq(AllMsgs)
         /\ Len(Rest(c, p)) \in 1 .. Len(Messages(p))
         /\ \A i \in 1 .. Len(Rest(c, p)) :
              Rest(c, p)[i] = Messages(p)[Len(Messages(p)) - Len(Rest(c, p)) + i]
         /\ todo[c] # << >> => p = packet[c]
<1> DEFINE m == Messages(p)
<1>1. m \in Seq(AllMsgs) /\ Len(m) \in Nat \ {0}
  <2>1. m \in Seq(AllMsgs) /\ Len(p.data) \in Nat /\ Len(m) = Len(p.data) + 3
    BY MessagesOf
  <2> HIDE DEF m
  <2> QED BY <2>1
<1>2. CASE todo[c] = << >>
  <2>1. Rest(c, p) = m
    BY <1>2 DEF Rest
  <2> HIDE DEF m
  <2>2. /\ Rest(c, p) \in Seq(AllMsgs) /\ Len(Rest(c, p)) \in 1 .. Len(m)
        /\ \A i \in 1 .. Len(Rest(c, p)) : Rest(c, p)[i] = m[Len(m) - Len(Rest(c, p)) + i]
    <3>1. Len(m) - Len(m) = 0 /\ Len(m) \in 1 .. Len(m)
      BY <1>1
    <3>2. ASSUME NEW i \in 1 .. Len(m) PROVE m[i] = m[0 + i]
      BY <3>2
    <3> QED BY <1>1, <2>1, <3>1, <3>2
  <2> QED BY <1>2, <2>2 DEF m
<1>3. CASE todo[c] # << >>
  <2>1. p = packet[c] /\ Rest(c, p) = todo[c]
    BY <1>3 DEF Write, Rest
  <2>2. /\ todo[c] \in Seq(AllMsgs) /\ Len(m) - Len(todo[c]) > 0
        /\ \A i \in 1 .. Len(todo[c]) : todo[c][i] = m[Len(m) - Len(todo[c]) + i]
    BY <2>1 DEF Inv, TodoInv, Sent
  <2>3. Len(todo[c]) \in Nat \ {0}
    BY <1>3, <2>2, EmptySeq
  <2> HIDE DEF m
  <2>4. Len(todo[c]) \in 1 .. Len(m)
    BY <1>1, <2>2, <2>3
  <2> QED BY <2>1, <2>2, <2>4 DEF m
<1> QED BY <1>2, <1>3

LEMMA WriteInv ==
  ASSUME Inv, NEW c \in Channels, NEW p \in Packets, Write(c, p)
  PROVE  Inv'
<1> DEFINE m == Messages(p)
           L == Len(Messages(p))
           msgs == Rest(c, p)
           n == L - Len(msgs) + 1
           k == Place(c)
           first == todo[c] = << >>
(* The message that is written is the n-th of the packet. *)
<1>1. /\ m \in Seq(AllMsgs) /\ L \in Nat /\ L >= 3 /\ L = Len(m)
      /\ m[1] = [type |-> "DnTS", size |-> 4, val |-> p.type]
      /\ m[2] = [type |-> "Dn", size |-> 2, val |-> p.bytes]
      /\ m[L] = [type |-> "FLAG", size |-> 4, val |-> p.flags]
  <2>1. Len(p.data) \in Nat /\ L = Len(p.data) + 3
    BY MessagesOf
  <2>2. L \in Nat /\ L >= 3
    BY <2>1
  <2> QED BY <2>1, <2>2, MessagesOf
<1>2. /\ msgs \in Seq(AllMsgs) /\ Len(msgs) \in 1 .. L
      /\ \A i \in 1 .. Len(msgs) : msgs[i] = m[L - Len(msgs) + i]
      /\ ~ first => p = packet[c]
  BY RestOf
<1>3. /\ TraceMsg(c, Head(msgs))
      /\ todo' = [todo EXCEPT ![c] = Tail(msgs)]
      /\ packet' = [packet EXCEPT ![c] = p]
      /\ alone' = [d \in Channels |-> d = c /\ (first \/ alone[c])]
      /\ ended' = IF Len(msgs) > 1 THEN Nothing
                  ELSE [channel |-> c, type |-> p.type, data |-> p.data]
  BY DEF Write, Rest
<1>4. /\ TypeOK /\ HistoryOK /\ TodoInv /\ BufferInv /\ AloneInv
  BY DEF Inv
<1>5. first => msgs = m
  BY DEF Rest
<1>6. ~ first => msgs = todo[c]
  BY DEF Rest
<1> HIDE DEF m, L, msgs, first
<1>7. n \in 1 .. L /\ msgs # << >> /\ Head(msgs) = m[n]
  <2>1. msgs # << >> /\ Head(msgs) = msgs[1] /\ msgs[1] = m[L - Len(msgs) + 1]
    BY <1>2
  <2> QED BY <1>1, <1>2, <2>1
<1>8. Tail(msgs) \in Seq(AllMsgs) /\ Len(Tail(msgs)) = Len(msgs) - 1
      /\ \A i \in 1 .. Len(Tail(msgs)) : Tail(msgs)[i] = msgs[i + 1]
  BY <1>2, <1>7, HeadTailProperties
<1>9. todo'[c] = Tail(msgs) /\ packet'[c] = p /\ Sent(c)' = n
  <2>1. todo'[c] = Tail(msgs) /\ packet'[c] = p
    BY <1>3, <1>4 DEF HistoryOK
  <2>2. Sent(c)' = L - Len(Tail(msgs))
    BY <2>1 DEF Sent, L
  <2> QED BY <1>1, <1>2, <1>8, <2>1, <2>2
<1>10. ASSUME NEW d \in Channels, d # c
       PROVE  todo'[d] = todo[d] /\ packet'[d] = packet[d] /\ Sent(d)' = Sent(d)
  <2>1. todo'[d] = todo[d] /\ packet'[d] = packet[d]
    BY <1>3, <1>4, <1>10 DEF HistoryOK
  <2> QED BY <2>1 DEF Sent
<1>11. TodoInv'
  <2> SUFFICES ASSUME NEW d \in Channels
               PROVE  /\ todo'[d] \in Seq(AllMsgs) /\ Sent(d)' > 0
                      /\ \A i \in 1 .. Len(todo'[d]) :
                           todo'[d][i] = Messages(packet'[d])[Sent(d)' + i]
    BY DEF TodoInv
  <2>1. CASE d = c
    <3>1. ASSUME NEW i \in 1 .. Len(Tail(msgs))
          PROVE  Tail(msgs)[i] = m[n + i]
      <4>1. i + 1 \in 1 .. Len(msgs) /\ L - Len(msgs) + (i + 1) = n + i
        BY <1>1, <1>2, <1>8
      <4> QED BY <1>2, <1>8, <4>1
    <3> HIDE DEF n
    <3>2. n > 0
      BY <1>7, <1>1
    <3> QED BY <1>8, <1>9, <2>1, <3>1, <3>2 DEF m
  <2>2. CASE d # c
    BY <1>4, <1>10, <2>2 DEF TodoInv
  <2> QED BY <2>1, <2>2
<1>12. HistoryOK'
  <2>1. alone' \in [Channels -> BOOLEAN]
    <3>1. \A d \in Channels : (d = c /\ (first \/ alone[c])) \in BOOLEAN
      OBVIOUS
    <3> QED BY <1>3, <3>1
  <2> QED BY <1>3, <1>4, <2>1 DEF HistoryOK
<1>13. c # Nobody /\ Nothing.channel = Nobody
  BY TraceAssumption DEF Nobody, Nothing
<1>14. CASE Overflows(tbuf_pos)
  <2>1. /\ decoded' = Nothing
        /\ UNCHANGED <<tbuf_channel, tbuf_msgs, tbuf_pos>>
    BY <1>3, <1>14 DEF TraceMsg
  <2>2. ~ (tbuf_pos' <= Size)
    BY <1>4, <1>14, <2>1, TraceAssumption DEF Overflows, TypeOK
  <2>3. TypeOK'
    BY <1>4, <1>12, <2>1 DEF TypeOK, HistoryOK
  <2> QED BY <1>11, <1>12, <2>1, <2>2, <2>3
          DEF Inv, BufferInv, AloneInv, DecodedIsSent, UndisturbedIsDecoded
<1>15. CASE ~ Overflows(tbuf_pos)
  <2>1. /\ tbuf_msgs' = [i \in DOMAIN tbuf_msgs \cup {k} |->
                          IF i = k THEN m[n] ELSE tbuf_msgs[i]]
        /\ Decode(c, tbuf_msgs', k)
    BY <1>3, <1>7, <1>15 DEF TraceMsg
  <2>2. tbuf_pos \in 0 .. Size /\ Size \in Nat \ {0} /\ DOMAIN tbuf_msgs = 1 .. Size + 1
    BY <1>4, <1>15, TraceAssumption DEF Overflows, TypeOK
  (* The buffer holds the messages up to the n-th. *)
  <2>3. ASSUME tbuf_channel = c
        PROVE  /\ k = tbuf_pos + 1
               /\ first => tbuf_pos = 0
               /\ ~ first => tbuf_pos <= n - 1
               /\ ~ first => \A i \in 1 .. tbuf_pos : tbuf_msgs[i] = m[n - 1 - tbuf_pos + i]
    <3>1. k = tbuf_pos + 1
      BY <2>3 DEF Place, Same
    <3>2. first => tbuf_pos = 0
      BY <1>4, <2>2, <2>3 DEF BufferInv, first
    <3>3. ASSUME ~ first
          PROVE  /\ tbuf_pos <= n - 1
                 /\ \A i \in 1 .. tbuf_pos : tbuf_msgs[i] = m[n - 1 - tbuf_pos + i]
      <4>1. Sent(c) = n - 1
        <5>1. Sent(c) = L - Len(msgs)
          BY <1>2, <1>6, <3>3 DEF Sent, L
        <5> QED BY <1>1, <1>2, <5>1
      <4>2. Messages(packet[c]) = m
        BY <1>2, <3>3 DEF m
      <4> HIDE DEF n
      <4> QED BY <1>4, <2>2, <2>3, <4>1, <4>2 DEF BufferInv
    <3> QED BY <3>1, <3>2, <3>3
  <2>4. k \in 1 .. Size + 1 /\ k <= n
    <3>1. CASE tbuf_channel = c
      BY <1>1, <1>7, <2>2, <2>3, <3>1
    <3>2. CASE tbuf_channel # c
      BY <1>1, <1>7, <2>2, <3>2 DEF Place, Same
    <3> QED BY <3>1, <3>2
  <2>5. /\ DOMAIN tbuf_msgs' = 1 .. Size + 1 /\ tbuf_msgs'[k] = m[n]
        /\ \A i \in 1 .. k - 1 : tbuf_msgs'[i] = tbuf_msgs[i]
    <3> HIDE DEF n, k
    <3> QED BY <2>1, <2>2, <2>4
  <2>6. ASSUME NEW i \in 1 .. k
        PROVE  tbuf_msgs'[i] = m[n - k + i]
    <3>1. CASE i = k
      <4>1. n - k + k = n
        BY <1>1, <1>7, <2>4
      <4> HIDE DEF n, k
      <4> QED BY <2>5, <3>1, <4>1
    <3>2. CASE i # k
      <4>1. tbuf_channel = c /\ ~ first /\ k = tbuf_pos + 1 /\ i \in 1 .. tbuf_pos
        BY <2>2, <2>3, <2>4, <3>2 DEF Place, Same
      <4>2. n - 1 - tbuf_pos + i = n - k + i /\ i \in 1 .. k - 1
        BY <1>1, <1>7, <2>2, <4>1
      <4>3. tbuf_msgs[i] = m[n - 1 - tbuf_pos + i]
        BY <2>3, <4>1
      <4> HIDE DEF n, k
      <4> QED BY <2>5, <4>1, <4>2, <4>3
    <3> QED BY <3>1, <3>2
  (* An undisturbed packet is in it from its first message on. *)
  <2>7. ASSUME first \/ alone[c]
        PROVE  k = n
    <3>1. CASE first
      BY <1>1, <1>5, <2>2, <2>3, <2>4, <3>1 DEF L, m
    <3>2. CASE ~ first
      <4>1. tbuf_channel = c /\ tbuf_pos = Sent(c)
        BY <1>4, <2>2, <2>7, <3>2 DEF AloneInv, first
      <4>2. Sent(c) = L - Len(msgs)
        BY <1>2, <1>6, <3>2 DEF Sent, L
      <4> QED BY <1>1, <1>2, <2>3, <4>1, <4>2
    <3> QED BY <3>1, <3>2
  <2>8. Ends(tbuf_msgs', k) <=> n = L
    <3>1. m[n].type = "FLAG" <=> n = L
      BY <1>7, FirstAndLast DEF m, L
    <3> QED BY <2>5, <3>1 DEF Ends
  <2>9. ASSUME k = L, n = L
        PROVE  /\ \A i \in 1 .. L : tbuf_msgs'[i] = m[i]
               /\ Pieces(tbuf_msgs') = p.data
    <3>1. ASSUME NEW i \in 1 .. L PROVE tbuf_msgs'[i] = m[i]
      <4>1. n - k + i = i /\ i \in 1 .. k
        BY <1>1, <2>9
      <4> HIDE DEF n, k
      <4> QED BY <2>6, <4>1
    <3> QED BY <3>1, PiecesOf DEF m, L
  <2>10. CASE n # L
    <3>1. tbuf_pos' = k /\ tbuf_channel' = c /\ decoded' = Nothing
      BY <2>1, <2>8, <2>10 DEF Decode
    <3>2. ended' = Nothing /\ todo'[c] # << >>
      <4>1. Len(msgs) > 1
        BY <1>1, <1>2, <2>10
      <4>2. Len(Tail(msgs)) > 0
        BY <1>2, <1>8, <4>1
      <4>3. ended' = Nothing
        BY <1>3, <4>1
      <4>4. todo'[c] # << >>
        BY <1>8, <1>9, <4>2
      <4> QED BY <4>3, <4>4
    <3>3. TypeOK'
      BY <1>12, <2>4, <2>5, <3>1 DEF TypeOK, HistoryOK
    <3>4. BufferInv'
      <4> SUFFICES ASSUME NEW d \in Channels, tbuf_channel' = d
                   PROVE  /\ tbuf_pos' <= Sent(d)'
                          /\ \A i \in 1 .. tbuf_pos' :
                               tbuf_msgs'[i] = Messages(packet'[d])[Sent(d)' - tbuf_pos' + i]
                          /\ todo'[d] # << >>
        BY DEF BufferInv
      <4>1. d = c /\ Messages(packet'[d]) = m
        BY <1>9, <3>1 DEF m
      <4> HIDE DEF n, k
      <4> QED BY <1>9, <2>4, <2>6, <3>1, <3>2, <4>1
    <3>5. AloneInv'
      <4> SUFFICES ASSUME NEW d \in Channels, alone'[d]
                   PROVE  tbuf_channel' = d /\ tbuf_pos' = Sent(d)'
        BY DEF AloneInv
      <4>1. d = c /\ (first \/ alone[c])
        BY <1>3
      <4> HIDE DEF n, k
      <4> QED BY <1>9, <2>7, <3>1, <4>1
    <3>6. DecodedIsSent'
      BY <3>1 DEF DecodedIsSent
    <3>7. UndisturbedIsDecoded'
      <4>1. \A d \in Channels : ended'.channel # d
        BY <3>2, TraceAssumption DEF Nothing, Nobody
      <4> QED BY <4>1 DEF UndisturbedIsDecoded, Undisturbed
    <3> QED BY <1>11, <1>12, <3>3, <3>4, <3>5, <3>6, <3>7 DEF Inv
  <2>11. CASE n = L
    <3> DEFINE accepted == Ends(tbuf_msgs', k) /\ Accepts(tbuf_msgs', k)
    <3>1. /\ tbuf_pos' = 0
          /\ tbuf_channel' = IF accepted THEN Nobody ELSE c
          /\ decoded' = IF accepted
                          THEN [channel |-> c, type |-> tbuf_msgs'[1].val,
                                data |-> Pieces(tbuf_msgs')]
                          ELSE Nothing
      BY <2>1, <2>8, <2>11 DEF Decode, AfterDecode
    <3>2. /\ ended' = [channel |-> c, type |-> p.type, data |-> p.data]
          /\ todo'[c] = << >>
      <4>1. Len(msgs) = 1
        <5>1. \A a, b \in Nat : a - b + 1 = a => b = 1
          OBVIOUS
        <5>2. L - Len(msgs) + 1 = L /\ L \in Nat /\ Len(msgs) \in Nat
          BY <1>1, <1>2, <2>11
        <5> QED BY <5>1, <5>2, Zenon
      <4>2. Len(Tail(msgs)) = 0
        BY <1>8, <4>1
      <4> QED BY <1>3, <1>8, <1>9, <4>1, <4>2
    <3>3. TypeOK'
      BY <1>12, <2>2, <2>5, <3>1 DEF TypeOK, HistoryOK
    <3>4. BufferInv'
      <4>1. 0 <= Sent(c)'
        BY <1>1, <1>7, <1>9
      <4> SUFFICES ASSUME NEW d \in Channels, tbuf_channel' = d
                   PROVE  tbuf_pos' <= Sent(d)'
        BY <3>1 DEF BufferInv
      <4>2. d = c
        BY <3>1, TraceAssumption DEF Nobody
      <4> QED BY <3>1, <4>1, <4>2
    <3>5. AloneInv'
      BY <1>3, <3>2 DEF AloneInv
    <3>6. ASSUME k = L PROVE accepted => decoded' = ended'
      <4>1. tbuf_msgs'[1].val = p.type
        BY <1>1, <2>9, <2>11, <3>6
      <4> HIDE DEF accepted
      <4> QED BY <2>9, <2>11, <3>1, <3>2, <3>6, <4>1
    <3>7. DecodedIsSent'
      <4> SUFFICES ASSUME accepted PROVE decoded' = ended'
        BY <3>1 DEF DecodedIsSent
      <4>1. tbuf_msgs'[1].type = "DnTS"
        BY DEF Accepts
      <4>2. n - k + 1 \in 1 .. L /\ tbuf_msgs'[1] = m[n - k + 1]
        BY <1>1, <1>7, <2>4, <2>6
      <4>3. n - k + 1 = 1
        <5> HIDE DEF n, k
        <5> QED BY <4>1, <4>2, FirstAndLast DEF m, L
      <4>4. k = L
        BY <1>1, <2>4, <2>11, <4>3
      <4> HIDE DEF accepted
      <4> QED BY <3>6, <4>4
    <3>8. UndisturbedIsDecoded'
      <4> SUFFICES ASSUME NEW d \in Channels, Undisturbed(d)' PROVE decoded' = ended'
        BY DEF UndisturbedIsDecoded
      <4>1. d = c /\ (first \/ alone[c]) /\ p.flags = 0
        BY <1>3, <1>9, <3>2 DEF Undisturbed
      <4>2. k = L
        BY <2>7, <2>11, <4>1
      <4>3. /\ tbuf_msgs'[1] = m[1] /\ tbuf_msgs'[2] = m[2] /\ tbuf_msgs'[L] = m[L]
        BY <1>1, <2>9, <2>11, <4>2
      <4>4. Accepts(tbuf_msgs', k)
        BY <1>1, <4>1, <4>2, <4>3 DEF Accepts
      <4> QED BY <2>8, <2>11, <3>6, <4>2, <4>4
    <3> QED BY <1>11, <1>12, <3>3, <3>4, <3>5, <3>7, <3>8 DEF Inv
  <2> QED BY <2>10, <2>11
<1> QED BY <1>14, <1>15

-----------------------------------------------------------------------------
(* The specification. *)

LEMMA InitInv == Init => Inv
<1> SUFFICES ASSUME Init PROVE Inv
  OBVIOUS
<1> DEFINE p0 == CHOOSE p \in Packets : TRUE
<1>1. p0 \in Packets
  BY PacketsAssumption
<1>2. \A c \in Channels : packet[c] = p0 /\ todo[c] = << >> /\ ~ alone[c]
  BY DEF Init
<1>3. TypeOK
  <2>1. 0 \in 0 .. Size + 1
    BY TraceAssumption
  <2> QED BY <1>1, <1>2, <2>1 DEF Init, TypeOK
<1>4. HistoryOK
  BY <1>1 DEF Init, HistoryOK
<1>5. TodoInv
  <2>1. Len(p0.data) \in Nat /\ Len(Messages(p0)) = Len(p0.data) + 3
    BY <1>1, MessagesOf
  <2> HIDE DEF p0
  <2> SUFFICES ASSUME NEW c \in Channels
               PROVE  /\ todo[c] \in Seq(AllMsgs) /\ Sent(c) > 0
                      /\ \A i \in 1 .. Len(todo[c]) :
                           todo[c][i] = Messages(packet[c])[Sent(c) + i]
    BY DEF TodoInv
  <2>2. todo[c] = << >> /\ Len(todo[c]) = 0
    BY <1>2
  <2>3. Sent(c) = Len(Messages(p0)) - 0
    BY <1>2, <2>2 DEF Sent
  <2>4. Sent(c) > 0
    BY <2>1, <2>3
  <2> QED BY <2>2, <2>4
<1>6. BufferInv
  <2> SUFFICES ASSUME NEW c \in Channels, tbuf_channel = c PROVE FALSE
    BY DEF BufferInv
  <2> QED BY TraceAssumption DEF Init, Nobody
<1>7. AloneInv
  BY <1>2 DEF AloneInv
<1>8. DecodedIsSent /\ UndisturbedIsDecoded
  BY DEF Init, DecodedIsSent, UndisturbedIsDecoded
<1> QED BY <1>3, <1>4, <1>5, <1>6, <1>7, <1>8 DEF Inv

LEMMA NextInv == Inv /\ [Next]_vars => Inv'
<1>1. ASSUME Inv, Next PROVE Inv'
  BY <1>1, WriteInv DEF Next
<1>2. ASSUME Inv, UNCHANGED vars PROVE Inv'
  BY <1>2 DEF vars, Inv, TypeOK, HistoryOK, TodoInv, BufferInv, AloneInv,
              DecodedIsSent, UndisturbedIsDecoded, Undisturbed, Sent
<1> QED BY <1>1, <1>2

-----------------------------------------------------------------------------

(* The buffer is never written beyond the message after its last. *)
THEOREM TypeCorrect == Spec => []TypeOK
<1>1. Inv => TypeOK
  BY DEF Inv
<1> QED BY <1>1, InitInv, NextInv, PTL DEF Spec

(* A packet that is decoded is the one its channel has just sent, however   *)
(* the channels interleave.                                                *)
THEOREM OnlySentIsDecoded == Spec => []DecodedIsSent
<1>1. Inv => DecodedIsSent
  BY DEF Inv
<1> QED BY <1>1, InitInv, NextInv, PTL DEF Spec

(* Until the buffer overflows, a packet that nobody disturbs is decoded.   *)
THEOREM UndisturbedGetsThrough == Spec => []UndisturbedIsDecoded
<1>1. Inv => UndisturbedIsDecoded
  BY DEF Inv
<1> QED BY <1>1, InitInv, NextInv, PTL DEF Spec
=============================================================================
