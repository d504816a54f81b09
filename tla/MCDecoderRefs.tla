--------------------------- MODULE MCDecoderRefs ----------------------------
(***************************************************************************)
(* DecoderRefs for TLC: the constants are numbers and Booleans, which the  *)
(* cfgs give, and the state needs no constraint, since MaxFrames bounds it.*)
(***************************************************************************)
EXTENDS DecoderRefs
=============================================================================
