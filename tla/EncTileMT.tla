----------------------------- MODULE EncTileMT ------------------------------
(***************************************************************************)
(* av1/encoder/ethread.c: the tile threads of the encoder.  The workers    *)
(* are created once, for the first frame that uses threads, as many as it  *)
(* has tile columns if g_threads allows.  The last one is the calling      *)
(* thread, with the data of the encoder itself; every other has a copy of  *)
(* them, refreshed for each frame.  Worker i encodes the tiles i,          *)
(* i + num_workers and so on, and when all are synchronised what they      *)
(* counted is added up.                                                    *)
(*                                                                         *)
(* Threads are used only for frames with one tile row, so that a tile is   *)
(* its column.  A step is one tile, or what the calling thread does        *)
(* between two calls of the worker interface.  launch(), execute() and     *)
(* sync() are taken as WorkerSpec describes them.                          *)
(***************************************************************************)
EXTENDS Integers

CONSTANTS MaxThreads,   \* bound: largest value of g_threads
          MaxCols,      \* bound: tile columns of a frame
          MaxFrames,    \* bound: how many frames are encoded
          ThreadsShrink \* whether g_threads may become less between frames

ASSUME EncAssumption == /\ MaxThreads \in Nat \ {0} /\ MaxCols \in Nat \ {0}
                        /\ MaxFrames \in Nat /\ ThreadsShrink \in BOOLEAN

Workers == 0..MaxThreads - 1
Tiles   == 0..MaxCols - 1

VARIABLES threads,      \* cpi->oxcf.max_threads
          numWorkers,   \* cpi->num_workers
          staff,        \* what each worker has: "none", "thread", the data of
                        \* the encoder ("main"), its data without a thread
                        \* ("noThread"), or data that are incomplete ("noData")
          mainPc,       \* "ready", or "run" inside av1_encode_tiles_mt()
          used,         \* num_workers: the workers used for the frame
          started,      \* those started so far
          pc, tile,     \* per worker: whether it is in its hook, and t there
          cols,         \* cm->tile_cols
          intrabc,      \* the tiles of the frame that choose intra block copy
          tdCounts,     \* td->counts: what a worker has counted, as pairs of
                        \* the number of a frame and a tile
          tdIntrabc,    \* td->intrabc_used_this_tile
          counts,       \* cpi->counts
          intrabcUsed,  \* cpi->intrabc_used
          encoded,      \* history: how often each tile has been encoded
          frames        \* frames whose tiles have been begun

settings == <<threads, numWorkers, staff>>
frameVars == <<cols, intrabc, frames>>
workerVars == <<pc, tile, tdCounts, tdIntrabc>>
vars == <<settings, mainPc, used, started, workerVars, frameVars, counts,
          intrabcUsed, encoded>>

NotEncoded == [t \in Tiles |-> 0]

Init == /\ threads \in 1..MaxThreads
        /\ numWorkers = 0 /\ staff = [w \in Workers |-> "none"]
        /\ mainPc = "ready" /\ used = 0 /\ started = 0
        /\ pc = [w \in Workers |-> "idle"]
        /\ tile = [w \in Workers |-> 0]
        /\ cols = 1 /\ intrabc = {} /\ frames = 0
        /\ tdCounts = [w \in Workers |-> {}]
        /\ tdIntrabc = [w \in Workers |-> FALSE]
        /\ counts = {} /\ intrabcUsed = FALSE
        /\ encoded = NotEncoded

Least(a, b) == IF a < b THEN a ELSE b

-----------------------------------------------------------------------------
(* The calling thread.                                                     *)

\* aom_codec_enc_config_set() with another g_threads.
Reconfigure == /\ mainPc = "ready"
               /\ threads' \in 1..MaxThreads
               /\ ThreadsShrink \/ threads' >= threads
               /\ UNCHANGED <<numWorkers, staff, mainPc, used, started, workerVars,
                              frameVars, counts, intrabcUsed, encoded>>

\* encode_frame_internal() up to the tiles: the counts start from zero.
NextFrame(c, ibc) == /\ mainPc = "ready" /\ frames < MaxFrames
                     /\ cols' = c /\ intrabc' = ibc /\ frames' = frames + 1

\* encode_tiles(): all tiles by the calling thread.
EncodeAlone(c, ibc) ==
  /\ NextFrame(c, ibc)
  /\ Least(threads, c) <= 1
  /\ counts' = {frames'} \X (0..c - 1)
  /\ encoded' = [t \in Tiles |-> IF t < c THEN 1 ELSE 0]
  /\ intrabcUsed' = (ibc # {})
  /\ UNCHANGED <<settings, mainPc, used, started, workerVars>>

\* How many workers there are after creation, and how many the frame uses.
Wanted(c)  == Least(threads, c)
Created(c) == IF numWorkers = 0 THEN Wanted(c) ELSE numWorkers

\* The workers that are created for the first frame.
Staffed(n) == [w \in Workers |-> IF w >= n THEN "none"
                                 ELSE IF w = n - 1 THEN "main" ELSE "thread"]

\* The counts that a worker starts with: cpi->counts, which are zero.
Copied(w) == {}

\* av1_encode_tiles_mt() up to the first launch.  A worker whose data are
\* incomplete is another matter.
Begin(c, ibc) ==
  LET n == Created(c) IN
  /\ NextFrame(c, ibc)
  /\ Least(threads, c) > 1
  /\ numWorkers' = n
  /\ staff' = IF numWorkers = 0 THEN Staffed(n) ELSE staff
  /\ used' = Least(Wanted(c), n)
  /\ \A w \in 0..used' - 1 : staff'[w] # "noData"
  /\ mainPc' = "run" /\ started' = 0
  /\ tdCounts' = [w \in Workers |-> IF w < used' THEN Copied(w) ELSE tdCounts[w]]
  /\ counts' = {} /\ encoded' = NotEncoded /\ intrabcUsed' = FALSE
  /\ UNCHANGED <<threads, pc, tile, tdIntrabc>>

\* A worker among those the frame uses lost its data to a failed allocation:
\* they are copied through a null pointer, and nothing is known from there on.
UsesNoData(c) ==
  /\ mainPc = "ready" /\ frames < MaxFrames
  /\ Least(threads, c) > 1 /\ numWorkers > 0
  /\ \E w \in 0..Least(Wanted(c), numWorkers) - 1 : staff[w] = "noData"
  /\ mainPc' = "undefined"
  /\ UNCHANGED <<settings, used, started, workerVars, frameVars, counts,
                 intrabcUsed, encoded>>

\* An allocation for worker w, or the creation of its thread, fails and leaves
\* by longjmp.  The worker has been counted.
CreateFails(c, w) ==
  /\ mainPc = "ready"
  /\ numWorkers = 0 /\ Least(threads, c) > 1
  /\ w < Wanted(c) - 1
  /\ numWorkers' = w + 1
  /\ \E lost \in {"noData", "noThread"} :
       staff' = [v \in Workers |-> IF v < w THEN "thread"
                                   ELSE IF v = w THEN lost ELSE "none"]
  /\ UNCHANGED <<threads, mainPc, used, started, workerVars, frameVars, counts,
                 intrabcUsed, encoded>>

\* Defect: all workers are launched, not only those the frame uses.
LaunchAll == /\ mainPc = "run" /\ started < numWorkers
             /\ started' = started + 1
             /\ pc' = [pc EXCEPT ![started] = "hook"]
             /\ tile' = [tile EXCEPT ![started] = started]
             /\ UNCHANGED <<settings, mainPc, used, tdCounts, tdIntrabc, frameVars,
                            counts, intrabcUsed, encoded>>

\* launch() of each worker used; execute() of the last of all.
Launch == /\ mainPc = "run" /\ started < used
          /\ started' = started + 1
          /\ pc' = [pc EXCEPT ![started] = "hook"]
          /\ tile' = [tile EXCEPT ![started] = started]
          /\ UNCHANGED <<settings, mainPc, used, tdCounts, tdIntrabc, frameVars,
                         counts, intrabcUsed, encoded>>

\* Defect: the counts of the last worker used are taken for the encoder's own.
AddedFew(w) == w < used - 1 \/ staff[w] = "main"

\* Whether what a worker counted is in the sums: the last of all workers counts
\* for the encoder itself, any other is added.
Added(w) == w < numWorkers - 1 \/ staff[w] = "main"

\* sync() of the workers used, and the sums.
Merge ==
  /\ mainPc = "run" /\ started = used
  /\ \A w \in 0..used - 1 : pc[w] = "idle"
  /\ mainPc' = "ready"
  /\ counts' = UNION {tdCounts[w] : w \in {v \in 0..used - 1 : Added(v)}}
  /\ intrabcUsed' = \E w \in 0..used - 1 : tdIntrabc[w]
  /\ UNCHANGED <<settings, used, started, workerVars, frameVars, encoded>>

-----------------------------------------------------------------------------
(* enc_worker_hook()                                                       *)

\* Defect: the stride is the number of threads the encoder may use.
StrideThreads == threads

Stride == numWorkers

\* av1_encode_tile() and the loop around it.
EncodeTile(w) ==
  LET t == tile[w] IN
  /\ pc[w] = "hook" /\ t < cols
  /\ encoded' = [encoded EXCEPT ![t] = @ + 1]
  /\ tdCounts' = [tdCounts EXCEPT ![w] = @ \cup {<<frames, t>>}]
  /\ tdIntrabc' = [tdIntrabc EXCEPT ![w] = t \in intrabc]
  /\ tile' = [tile EXCEPT ![w] = t + Stride]
  /\ UNCHANGED <<settings, mainPc, used, started, pc, frameVars, counts,
                 intrabcUsed>>

Return(w) == /\ pc[w] = "hook" /\ tile[w] >= cols
             /\ pc' = [pc EXCEPT ![w] = "idle"]
             /\ UNCHANGED <<settings, mainPc, used, started, tile, tdCounts,
                            tdIntrabc, frameVars, counts, intrabcUsed, encoded>>

-----------------------------------------------------------------------------
WorkerStep(w) == EncodeTile(w) \/ Return(w)

NewFrame == \E c \in 1..MaxCols :
              \/ \E ibc \in SUBSET (0..c - 1) : EncodeAlone(c, ibc) \/ Begin(c, ibc)
              \/ UsesNoData(c)
              \/ \E w \in Workers : CreateFails(c, w)

Next == \/ Reconfigure \/ NewFrame \/ Launch \/ Merge
        \/ \E w \in Workers : WorkerStep(w)

\* Threads that can run do; a caller need not bring another frame.
Fairness == /\ WF_vars(Launch) /\ WF_vars(Merge)
            /\ \A w \in Workers : WF_vars(WorkerStep(w))

Spec == Init /\ [][Next]_vars /\ Fairness

-----------------------------------------------------------------------------
(* Properties.                                                             *)

FrameTiles == 0..cols - 1
Short      == \E w \in Workers : staff[w] \in {"noThread", "noData"}

TypeOK ==
  /\ threads \in 1..MaxThreads /\ numWorkers \in 0..MaxThreads
  /\ staff \in [Workers -> {"none", "thread", "main", "noThread", "noData"}]
  /\ mainPc \in {"ready", "run", "undefined"}
  /\ used \in 0..MaxThreads /\ started \in 0..used
  /\ pc \in [Workers -> {"idle", "hook"}]
  /\ tile \in [Workers -> 0..MaxCols + MaxThreads - 1]
  /\ cols \in 1..MaxCols /\ intrabc \subseteq Tiles /\ frames \in Nat
  /\ tdCounts \in [Workers -> SUBSET (Nat \X Tiles)]
  /\ tdIntrabc \in [Workers -> BOOLEAN]
  /\ counts \subseteq Nat \X Tiles /\ intrabcUsed \in BOOLEAN
  /\ encoded \in [Tiles -> Nat]

\* The tiles that fall to worker w.
Mine(w) == {t \in Nat : \E k \in Nat : t = w + numWorkers * k}

\* What worker w has done of them.
Behind(w, t) == w < started /\ t < tile[w]

\* However many workers an earlier frame created, and whatever became of them, no
\* tile is encoded twice, and when the call returns each one has been encoded.
TilesOnce ==
  /\ \A t \in Tiles : encoded[t] <= 1
  /\ mainPc = "ready" /\ frames > 0 => \A t \in FrameTiles : encoded[t] = 1

\* The counts that the header and the next frame's probabilities are made of are
\* those of all tiles of this frame and of nothing else, unless the creation of
\* a worker failed in an earlier one.
CountsExact == mainPc = "ready" /\ frames > 0 /\ ~Short
                 => counts = {frames} \X FrameTiles

\* No more workers are created than g_threads allows, and the last is the caller.
StaffInv == /\ numWorkers <= threads
            /\ numWorkers > 0 /\ ~Short => staff[numWorkers - 1] = "main"

\* Between two calls everybody is idle.
RestInv == mainPc # "run" => /\ \A w \in Workers : pc[w] = "idle"
                             /\ \A t \in Tiles : encoded[t] <= 1

\* Inside a call either all workers are used or there are as many as tiles.
UsedInv == mainPc = "run" => /\ numWorkers > 0 /\ used = Least(cols, numWorkers)
                             /\ \A w \in Workers : w >= started => pc[w] = "idle"

\* A worker is at one of its tiles, and has returned only behind the last.
PlaceInv == mainPc = "run" =>
              \A w \in 0..started - 1 : /\ tile[w] \in Mine(w)
                                        /\ pc[w] = "idle" => tile[w] >= cols

\* What has been encoded and counted is what the workers have behind them.
WorkInv == mainPc = "run" =>
  \A w \in 0..numWorkers - 1 : \A t \in Tiles \cap Mine(w) :
    encoded[t] = IF Behind(w, t) THEN 1 ELSE 0

CountInv == mainPc = "run" =>
  \A w \in 0..used - 1 :
    /\ tdCounts[w] \subseteq {frames} \X FrameTiles
    /\ \A t \in FrameTiles \cap Mine(w) :
         Behind(w, t) => <<frames, t>> \in tdCounts[w]

\* The inductive invariant, as long as g_threads does not become less.
IInv == /\ TypeOK /\ StaffInv /\ RestInv /\ UsedInv /\ PlaceInv /\ WorkInv
        /\ CountInv /\ TilesOnce /\ CountsExact

\* encode_frame_internal(): "If intrabc is allowed but never selected, reset the
\* allow_intrabc flag."  What the header then says is what the tiles did.
IntrabcReported == mainPc = "ready" /\ ~Short => intrabcUsed = (intrabc # {})
=============================================================================
