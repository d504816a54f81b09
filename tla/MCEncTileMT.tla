----------------------------- MODULE MCEncTileMT -----------------------------
(***************************************************************************)
(* Instances of EncTileMT: three threads at most and up to five tiles, so  *)
(* that a worker has one tile, two, or is not used at all.                 *)
(***************************************************************************)
EXTENDS EncTileMT
=============================================================================
