--------------------------- MODULE MCEntropyCoder ----------------------------
(***************************************************************************)
(* Instances of EntropyCoder: probabilities with which a symbol costs from *)
(* next to nothing to a byte, chosen so that among the messages there are  *)
(* some in which a carry runs through several bytes.  The second table is  *)
(* one that update_cdf() has adapted to its first symbol for long: at rate *)
(* 6 the entries stick at 63, and the others have EC_MIN_PROB only.        *)
(***************************************************************************)
EXTENDS EntropyCoder

FewBools    == {128, 5000}
FewTables   == {<<2934, 1139, 0>>, <<63, 63, 0>>}
\* Nothing, or the zeros of trailing bits.
ZeroTrailers == {<<>>, <<0, 0, 0>>}
=============================================================================
