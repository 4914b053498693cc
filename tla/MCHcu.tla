-------------------------------- MODULE MCHcu --------------------------------
(***************************************************************************)
(* Hcu with blocks of four cells, a length field of two and digests of two *)
(* words: the position at which a message ends in its block then meets     *)
(* every case of the padding (room for the length, no room, exactly full). *)
(***************************************************************************)
EXTENDS HcuInv

CONSTANTS a, b

(* Transfers shorter than a block, a block long and longer than a block.   *)
ShortAndLong == {<<a>>, <<b, a, b, a, a>>}
OneLong == {<<b, a, b, a, a>>}
=============================================================================
