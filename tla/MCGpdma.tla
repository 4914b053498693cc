------------------------------- MODULE MCGpdma -------------------------------
(***************************************************************************)
(* Gpdma with a buffer of two cells and six addresses of memory: sizes     *)
(* that take a part of a turn, exactly one, and two and a half.            *)
(***************************************************************************)
EXTENDS Gpdma

CONSTANTS x, y

McMapped == 1 .. 6
McAddrs == {0, 1, 2, 4}
McSizes == {0, 1, 2, 5}
=============================================================================
