---------------------------- MODULE MCTileJobsMT -----------------------------
(***************************************************************************)
(* TileJobsMT for TLC: the cfgs give numbers and Booleans, and MaxTiles,   *)
(* MaxGroups and MaxFrames bound the state.                                *)
(***************************************************************************)
EXTENDS TileJobsMT
=============================================================================
