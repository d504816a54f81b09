---------------------------- MODULE MCPostFilter -----------------------------
(***************************************************************************)
(* Instances of PostFilter.  get_sync_range() is scaled down, so that the  *)
(* widths at which it changes are among the few columns of the instance.   *)
(***************************************************************************)
EXTENDS PostFilter

\* 1, then 2 from two columns on.
SyncRange12 == [c \in 1..MaxCols |-> IF c = 1 THEN 1 ELSE 2]

\* A frame of superblocks of 64 lines whose chroma planes are alike.
Format(height, ssY, lumaUnit, chromaUnit, lumaCols, chromaCols, on) ==
  [height |-> height, ssY |-> ssY, sb |-> 64, planes |-> 3,
   unit |-> [p \in 0..2 |-> IF p = 0 THEN lumaUnit ELSE chromaUnit],
   cols |-> [p \in 0..2 |-> IF p = 0 THEN lumaCols ELSE chromaCols],
   on   |-> on]

\* Three rows in either plane with the last one cut short, and four rows, which
\* need another allocation.
Fitting == {Format(160, 1, 64, 32, 2, 1, {0, 1}),
            Format(250, 0, 64, 64, 3, 2, {0})}

\* Chroma units half as high as superblocks, on a height where they come to one
\* row more.
Tight == {Format(95, 1, 64, 32, 1, 1, {0, 1, 2})}
=============================================================================
