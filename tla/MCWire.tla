-------------------------------- MODULE MCWire --------------------------------
(***************************************************************************)
(* Values for the constants of Wire: every size of file and of chunk that  *)
(* is small enough to enumerate, up to one beyond the largest that is      *)
(* accepted.                                                               *)
(***************************************************************************)
EXTENDS Wire

MCSizes == 0..15
MCChunkSizes == 0..9
=============================================================================
