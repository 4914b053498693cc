-------------------------------- MODULE MCSks --------------------------------
(***************************************************************************)
(* Sks with two short slots and two long ones, the number after the last   *)
(* and one beyond, and as many new keys as fill a long slot and a short    *)
(* one.  Firmware writes the attributes of the last slot, the wrap key's.  *)
(***************************************************************************)
EXTENDS Sks

McSlotWrites == 0 .. 5
McAtrWrites == {3}

(* A command of each kind that sks_do_operation tells apart. *)
McCmdWrites ==
  [go : {TRUE}, produce : {TRUE}, source : {"cpu", "aes", "hash"}, target : {"none"}]
  \cup [go : {TRUE}, produce : {FALSE}, source : {"none"}, target : {"none", "hash"}]
  \cup [go : {FALSE}, produce : {TRUE}, source : {"cpu"}, target : {"none"}]
=============================================================================
