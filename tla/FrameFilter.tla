---------------------------- MODULE FrameFilter -----------------------------
(***************************************************************************)
(* What the multi-threaded loop filter owes its caller, without workers,   *)
(* jobs or synchronisation.  A frame is a set of superblocks               *)
(* <<plane, row, column>>.  Each gets its vertical and then its horizontal *)
(* edges filtered, once each, and the horizontal filter of a superblock    *)
(* reads and writes pixels that the vertical filter of the superblock to   *)
(* its right, above it and above-right of it changes, so it comes after    *)
(* those (thread_loop_filter_rows() names the two superblocks it waits     *)
(* for).  Other filterings may come in any order.                          *)
(***************************************************************************)
EXTENDS Integers

CONSTANTS Planes, MaxRows, MaxCols

VARIABLES busy,    \* a frame is being filtered
          blocks,  \* its superblocks
          vdone,   \* those whose vertical edges are filtered
          hdone    \* those whose horizontal edges are filtered

avars == <<busy, blocks, vdone, hdone>>

Frame(on, rows, cols) == on \X (0..rows - 1) \X (0..cols - 1)

Needs(b) == {b[1]} \X {b[2] - 1, b[2]} \X {b[3], b[3] + 1}

AInit == busy = FALSE /\ blocks = {} /\ vdone = {} /\ hdone = {}

NewFrame == /\ ~busy
            /\ busy' = TRUE
            /\ \E on \in SUBSET Planes, rows \in 1..MaxRows, cols \in 1..MaxCols :
                 blocks' = Frame(on, rows, cols)
            /\ vdone' = {} /\ hdone' = {}

FilterVert == /\ busy
              /\ \E b \in blocks \ vdone : vdone' = vdone \cup {b}
              /\ UNCHANGED <<busy, blocks, hdone>>

FilterHorz == /\ busy
              /\ \E b \in blocks \ hdone :
                   /\ Needs(b) \cap blocks \subseteq vdone
                   /\ hdone' = hdone \cup {b}
              /\ UNCHANGED <<busy, blocks, vdone>>

EndFrame == /\ busy /\ vdone = blocks /\ hdone = blocks
            /\ busy' = FALSE
            /\ UNCHANGED <<blocks, vdone, hdone>>

Work == FilterVert \/ FilterHorz \/ EndFrame

ASpec == AInit /\ [][NewFrame \/ Work]_avars /\ WF_avars(Work)
=============================================================================
