----------------------------- MODULE PostFilter ------------------------------
(***************************************************************************)
(* What follows the tiles of a frame, in av1_decode_tg_tiles_and_wrapup()  *)
(* of the decoder and loopfilter_frame() of the encoder: the deblocking    *)
(* filter of LfRowMT and the loop restoration of LrRowMT, one after the    *)
(* other over the same picture and by the same array of workers.  Either   *)
(* may be left out for a frame, and the encoder calls the first several    *)
(* times to choose its strength.  The direction enhancement filter and the *)
(* upscaling between them run on the calling thread alone.                 *)
(*                                                                         *)
(* The calling thread is one: it begins neither stage inside the other.    *)
(* Nothing else keeps them apart, so what restoration reads is deblocked   *)
(* only because every worker is waited for.                                *)
(***************************************************************************)
EXTENDS LfRowMT

CONSTANTS Formats,  \* of LrRowMT
          MaxCalls  \* bound: calls of either stage

VARIABLES alloc, lrSyncRange, lrCur, lrTodo, lrPc, lrJob, lrCol, lrMain,
          lrStarted, lrFrame, lrFrames, filtered, copied

Lr == INSTANCE LrRowMT WITH
        MaxFrames <- MaxCalls, syncRange <- lrSyncRange, cur <- lrCur,
        todo <- lrTodo, pc <- lrPc, job <- lrJob, col <- lrCol,
        mainPc <- lrMain, started <- lrStarted, frame <- lrFrame,
        frames <- lrFrames

ASSUME RestorationAssumption == Lr!FormatsAssumption

lrVars == <<alloc, lrSyncRange, lrCur, lrTodo, lrPc, lrJob, lrCol, lrMain,
            lrStarted, lrFrame, lrFrames, filtered, copied>>

PInit == Init /\ Lr!Init

\* The calling thread begins a stage only when it is out of the other.
Deblock == /\ Next /\ UNCHANGED lrVars
           /\ lrMain = "run" => frames' = frames
Restore == /\ Lr!Next /\ UNCHANGED vars
           /\ mainPc = "run" => lrFrames' = lrFrames

PNext == /\ Deblock \/ Restore
         /\ frames' + lrFrames' <= MaxCalls

PSpec == PInit /\ [][PNext]_<<vars, lrVars>> /\ Fairness /\ Lr!Fairness

-----------------------------------------------------------------------------
(* Properties: those of either stage in its place, and of the two.         *)

StagesTypeOK      == TypeOK /\ Lr!TypeOK
LrInputIntact     == Lr!InputIntact
LrOutputComplete  == Lr!OutputComplete
LrRowsThere       == Lr!RowsThere

\* While a worker restores or copies lines of the frame no worker deblocks it,
\* and the other way round: the stages share the picture without a lock.
StagesApart == \/ \A w \in Workers : lrPc[w] \notin {"filter", "copy"}
               \/ \A w \in Workers : pc[w] \notin {"vert", "horz"}

\* Whatever stages a frame goes through, the calling thread comes out of them.
StagesEnd == (mainPc = "run" \/ lrMain = "run")
               ~> (mainPc = "ready" /\ lrMain = "ready")
=============================================================================
