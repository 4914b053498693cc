------------------------------ MODULE MCTraceHub ------------------------------
(***************************************************************************)
(* TraceHub with two channels of one master and a buffer of five messages. *)
(***************************************************************************)
EXTENDS TraceHub

Packet(type, bytes, data, flags) ==
  [type |-> type, bytes |-> bytes, data |-> data, flags |-> flags]

McChannels == {<<0, 0>>, <<0, 1>>}

(* A packet that fills the buffer, one that leaves room for a message of    *)
(* another, and one of two messages too many.                              *)
McPackets ==
  { Packet(2, 5, <<1, 2>>, 0), Packet(2, 1, <<2>>, 0),
    Packet(3, 16, <<1, 2, 3, 1>>, 0) }
=============================================================================
