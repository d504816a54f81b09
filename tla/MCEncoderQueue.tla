--------------------------- MODULE MCEncoderQueue ----------------------------
(***************************************************************************)
(* Instances of EncoderQueue: a ring that is gone round more than once.    *)
(***************************************************************************)
EXTENDS EncoderQueue
=============================================================================
