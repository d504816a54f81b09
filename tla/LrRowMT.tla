------------------------------- MODULE LrRowMT -------------------------------
(***************************************************************************)
(* av1/common/thread_common.c: the multi-threaded loop restoration.        *)
(* foreach_rest_unit_in_planes_mt() queues one job per plane and row of    *)
(* restoration units, even rows first, launches the workers, runs the last *)
(* one itself and waits for all.  A worker filters the units of its row    *)
(* from left to right out of the frame into a second picture and, after    *)
(* the last one, copies lines of the result back into the frame.           *)
(*                                                                         *)
(* What makes this delicate is that the frame is input and output at once. *)
(* A unit reads RESTORATION_BORDER lines beyond its own and, while it is   *)
(* being filtered, overwrites them with saved boundary lines.  So an odd   *)
(* row follows one unit behind the even rows on either side, and an even   *)
(* row copies back only what no odd row reads, leaving the rest to them.   *)
(*                                                                         *)
(* A step is one restoration unit, one critical section, or one copy.  A   *)
(* worker in cond_wait is in "waitAbove" or "waitBelow".  Lines are        *)
(* counted from the top of the plane, which is tile_rect.top = 0.          *)
(***************************************************************************)
EXTENDS Integers, FiniteSets

CONSTANTS NumWorkers,  \* nworkers; the last one is the calling thread
          Formats,     \* the frames that may come: see FormatsAssumption
          MaxFrames    \* bound: how many frames are restored

YUV == 0..2

\* RESTORATION_BORDER and RESTORATION_UNIT_OFFSET
BORDER == 3
OFFSET == 8

\* height of the luma plane, ssY: whether chroma has half of it; sb: the size of
\* a superblock; planes: num_planes; unit: restoration_unit_size; cols:
\* horz_units_per_tile; on: the planes that are restored at all.
\* What the properties assume of the constants.
FormatsAssumption ==
  /\ NumWorkers \in Nat \ {0} /\ MaxFrames \in Nat
  /\ Formats \subseteq
       [height : Nat \ {0}, ssY : {0, 1}, sb : {64, 128}, planes : {1, 3},
        unit : [YUV -> {32, 64, 128, 256}], cols : [YUV -> Nat \ {0}],
        on : SUBSET YUV]
  /\ \A f \in Formats : \A p \in f.on : /\ p < f.planes
                                        /\ f.unit[p] = 32 => p > 0 /\ f.ssY = 1

VARIABLES alloc,     \* lr_sync->rows and num_planes, as last allocated
          syncRange, \* lr_sync->sync_range: 1, or 0 if there is no allocation
          cur,       \* lr_sync->cur_sb_col[plane][row], of the rows in use
          todo,      \* the queued jobs from jobs_dequeued on
          mainPc,    \* "ready", or "run" inside foreach_rest_unit_in_planes_mt()
          started,   \* workers launched for this frame
          pc, job, col,  \* per worker: its place in the code
          frame,     \* the frame being restored
          frames,    \* frames begun
          filtered,  \* history: the units of each row filtered so far
          copied     \* history: the jobs whose copy back has begun

syncVars   == <<alloc, syncRange>>
workerVars == <<pc, job, col>>
mainVars   == <<mainPc, started, frame, frames>>
vars == <<syncVars, cur, todo, workerVars, mainVars, filtered, copied>>

Workers == 1..NumWorkers

-----------------------------------------------------------------------------
(* The geometry of a frame.                                                *)

\* av1_whole_frame_rect()
SubY(f, p)        == IF p > 0 THEN f.ssY ELSE 0
PlaneHeight(f, p) == IF SubY(f, p) = 1 THEN (f.height + 1) \div 2 ELSE f.height

\* av1_lr_count_units_in_tile(): rounded to nearest, and at least one.
CountUnits(unit, size) ==
  IF (size + unit \div 2) \div unit < 1 THEN 1 ELSE (size + unit \div 2) \div unit

\* vert_units_per_tile
UnitRows(f, p) == CountUnits(f.unit[p], PlaneHeight(f, p))

\* num_rows_lr: counted in superblocks, not in restoration units.
AllocRows(f) ==
  LET rows == {CountUnits(f.sb, PlaneHeight(f, p)) : p \in 0..f.planes - 1}
  IN CHOOSE n \in rows : \A m \in rows : m <= n

\* The rows that the loop over y0 makes jobs for: another one is begun as long as
\* the row before it did not take the rest of the plane.
JobRows(f, p) ==
  {i \in 0..PlaneHeight(f, p) \div f.unit[p] :
     i > 0 => PlaneHeight(f, p) - (i - 1) * f.unit[p] >= (f.unit[p] * 3) \div 2}

IsLast(f, p, i) ==
  PlaneHeight(f, p) - i * f.unit[p] < (f.unit[p] * 3) \div 2

VOffset(f, p) == IF SubY(f, p) = 1 THEN OFFSET \div 2 ELSE OFFSET

\* limits.v_start and limits.v_end of a row
VStart(f, p, i) == IF i = 0 THEN 0 ELSE i * f.unit[p] - VOffset(f, p)
VEnd(f, p, i)   == IF IsLast(f, p, i) THEN PlaneHeight(f, p)
                   ELSE (i + 1) * f.unit[p] - VOffset(f, p)

\* Defect: every row copies back exactly its own lines.
CopyOwn(f, p, i) == [from |-> VStart(f, p, i), to |-> VEnd(f, p, i)]

\* v_copy_start and v_copy_end: even rows keep off the lines that odd ones read.
CopyLines(f, p, i) ==
  LET s == VStart(f, p, i)  e == VEnd(f, p, i)  h == PlaneHeight(f, p)
  IN IF i % 2 = 0
     THEN [from |-> IF i = 0 THEN 0 ELSE s + BORDER,
           to   |-> IF i = UnitRows(f, p) - 1 THEN h ELSE e - BORDER]
     ELSE [from |-> IF s - BORDER > 0 THEN s - BORDER ELSE 0,
           to   |-> IF e + BORDER < h THEN e + BORDER ELSE h]

\* The lines of the frame that filtering a unit reads and, where they lie
\* outside of the stripe, overwrites for the time being.
UsedLines(f, p, i) ==
  [from |-> IF VStart(f, p, i) - BORDER > 0 THEN VStart(f, p, i) - BORDER ELSE 0,
   to   |-> IF VEnd(f, p, i) + BORDER < PlaneHeight(f, p)
            THEN VEnd(f, p, i) + BORDER ELSE PlaneHeight(f, p)]

Meet(a, b) == a.from < b.to /\ b.from < a.to

-----------------------------------------------------------------------------
Jobs(f) == UNION {[plane : {p}, row : JobRows(f, p)] : p \in f.on}
NoJob   == [plane |-> 0, row |-> 0]

RowFun(f, v) == [p \in f.on |-> [i \in JobRows(f, p) |-> v]]

Init == /\ alloc = [rows |-> 0, planes |-> 0] /\ syncRange = 0
        /\ todo = {}
        /\ mainPc = "ready" /\ started = 0
        /\ pc = [w \in Workers |-> "idle"]
        /\ job = [w \in Workers |-> NoJob]
        /\ col = [w \in Workers |-> 0]
        /\ frame \in Formats /\ frames = 0
        /\ cur = RowFun(frame, -1)
        /\ filtered = RowFun(frame, 0)
        /\ copied = {}

\* The order of the queue: the even rows of all planes, then the odd ones.
Before(j, k) == \/ j.row % 2 < k.row % 2
                \/ j.row % 2 = k.row % 2 /\ j.plane < k.plane
                \/ j.row % 2 = k.row % 2 /\ j.plane = k.plane /\ j.row < k.row

\* Defect: only a change of the number of planes leads to a new allocation.
NeedsPlanes(f) == syncRange = 0 \/ f.planes # alloc.planes

\* Whether to allocate anew; more workers than before there never are (see LfRowMT).
NeedsAlloc(f) == \/ syncRange = 0
                 \/ AllocRows(f) # alloc.rows \/ f.planes # alloc.planes

\* av1_loop_restoration_filter_frame_mt() up to the first launch.
Begin(f) ==
  /\ mainPc = "ready" /\ frames < MaxFrames
  /\ IF NeedsAlloc(f)
     THEN alloc' = [rows |-> AllocRows(f), planes |-> f.planes] /\ syncRange' = 1
     ELSE UNCHANGED syncVars
  /\ cur' = RowFun(f, -1)
  /\ todo' = Jobs(f)
  /\ mainPc' = "run" /\ started' = 0
  /\ frame' = f /\ frames' = frames + 1
  /\ filtered' = RowFun(f, 0)
  /\ copied' = {}
  /\ UNCHANGED workerVars

\* CHECK_MEM_ERROR leaves loop_restoration_alloc() by longjmp with rows and
\* num_planes set and sync_range not.
BeginFails(f) ==
  /\ mainPc = "ready" /\ frames < MaxFrames
  /\ NeedsAlloc(f)
  /\ alloc' = [rows |-> AllocRows(f), planes |-> f.planes] /\ syncRange' = 0
  /\ frames' = frames + 1
  /\ UNCHANGED <<cur, todo, workerVars, mainPc, started, frame, filtered, copied>>

Launch == /\ mainPc = "run" /\ started < NumWorkers
          /\ started' = started + 1
          /\ pc' = [pc EXCEPT ![started + 1] = "take"]
          /\ UNCHANGED <<syncVars, cur, todo, job, col, mainPc, frame, frames,
                         filtered, copied>>

\* Defect: only the calling thread's own part is waited for.
FinishUnsynced == /\ mainPc = "run" /\ started = NumWorkers
                  /\ pc[NumWorkers] = "done"
                  /\ mainPc' = "ready"
                  /\ UNCHANGED <<syncVars, cur, todo, workerVars, started, frame,
                                 frames, filtered, copied>>

\* sync() of every worker
Finish == /\ mainPc = "run" /\ started = NumWorkers
          /\ \A w \in Workers : pc[w] = "done"
          /\ mainPc' = "ready"
          /\ pc' = [w \in Workers |-> "idle"]
          /\ job' = [w \in Workers |-> NoJob]
          /\ col' = [w \in Workers |-> 0]
          /\ UNCHANGED <<syncVars, cur, todo, started, frame, frames, filtered,
                         copied>>

-----------------------------------------------------------------------------
(* loop_restoration_row_worker() and av1_foreach_rest_unit_in_row().       *)

Odd(w)     == job[w].row % 2 = 1

LastCol(w) == col[w] = frame.cols[job[w].plane] - 1

\* Where a unit starts: odd rows read the cursors, even rows do not.
UnitStart(j) == IF j.row % 2 = 1 THEN "readAbove" ELSE "filter"

\* get_lr_job_info()
Take(w) ==
  /\ pc[w] = "take"
  /\ IF todo = {}
     THEN pc' = [pc EXCEPT ![w] = "done"] /\ UNCHANGED <<todo, job, col>>
     ELSE \E j \in todo :
            /\ \A k \in todo \ {j} : Before(j, k)
            /\ todo' = todo \ {j}
            /\ job' = [job EXCEPT ![w] = j]
            /\ col' = [col EXCEPT ![w] = 0]
            /\ pc' = [pc EXCEPT ![w] = UnitStart(j)]
  /\ UNCHANGED <<syncVars, cur, mainVars, filtered, copied>>

\* The test of lr_sync_read() on the progress of a row next to the reader's.
Blocked(p, row, c) == c > cur[p][row] - syncRange

\* Defect: the row below is not waited for.
BelowIgnored(w) == FALSE

\* Whether there is a row below that has to be waited for.
HasBelow(w) == job[w].row + 1 < UnitRows(frame, job[w].plane)

\* lr_sync_read(row, c), the first: an odd row has one above it.
ReadAbove(w) ==
  /\ pc[w] = "readAbove"
  /\ pc' = [pc EXCEPT ![w] =
              IF Blocked(job[w].plane, job[w].row - 1, col[w]) THEN "waitAbove"
              ELSE IF HasBelow(w) THEN "readBelow" ELSE "filter"]
  /\ UNCHANGED <<syncVars, cur, todo, job, col, mainVars, filtered, copied>>

\* lr_sync_read(row + 2, c), the second.
ReadBelow(w) ==
  /\ pc[w] = "readBelow"
  /\ pc' = [pc EXCEPT ![w] =
              IF Blocked(job[w].plane, job[w].row + 1, col[w]) THEN "waitBelow"
              ELSE "filter"]
  /\ UNCHANGED <<syncVars, cur, todo, job, col, mainVars, filtered, copied>>

\* After a unit: the next one of the row, or the copy of the row.
NextUnit(w) ==
  IF LastCol(w)
  THEN /\ copied' = copied \cup {job[w]}
       /\ UNCHANGED col
  ELSE /\ col' = [col EXCEPT ![w] = @ + 1]
       /\ UNCHANGED copied
AfterUnit(w) == IF LastCol(w) THEN "copy" ELSE UnitStart(job[w])

\* on_rest_unit(), to its end; an odd row publishes nothing.
Filter(w) ==
  /\ pc[w] = "filter"
  /\ filtered' = [filtered EXCEPT ![job[w].plane][job[w].row] = @ + 1]
  /\ IF Odd(w)
     THEN NextUnit(w) /\ pc' = [pc EXCEPT ![w] = AfterUnit(w)]
     ELSE UNCHANGED <<col, copied>> /\ pc' = [pc EXCEPT ![w] = "write"]
  /\ UNCHANGED <<syncVars, cur, todo, job, mainVars>>

\* Defect: the broadcast is for the row below only.
WokenBelowOnly(u, p, row) ==
  IF pc[u] = "waitAbove" /\ job[u] = [plane |-> p, row |-> row + 1]
  THEN "readAbove" ELSE pc[u]

\* Where a worker is after a broadcast on the condition of a row.
Woken(u, p, row) ==
  IF pc[u] = "waitAbove" /\ job[u] = [plane |-> p, row |-> row + 1]
  THEN "readAbove"
  ELSE IF pc[u] = "waitBelow" /\ job[u] = [plane |-> p, row |-> row - 1]
       THEN "readBelow" ELSE pc[u]

\* lr_sync_write(): with a sync_range of one every unit is published.
Write(w) ==
  LET p == job[w].plane  r == job[w].row IN
  /\ pc[w] = "write"
  /\ cur' = [cur EXCEPT ![p][r] =
               IF LastCol(w) THEN frame.cols[p] + syncRange ELSE col[w]]
  /\ NextUnit(w)
  /\ pc' = [u \in Workers |-> IF u = w THEN AfterUnit(w) ELSE Woken(u, p, r)]
  /\ UNCHANGED <<syncVars, todo, job, mainVars, filtered>>

\* The end of copy_funs[plane]()
Copy(w) ==
  /\ pc[w] = "copy"
  /\ pc' = [pc EXCEPT ![w] = "take"]
  /\ UNCHANGED <<syncVars, cur, todo, job, col, mainVars, filtered, copied>>

\* cond_wait may return without a broadcast.
Spurious(w) ==
  /\ \/ pc[w] = "waitAbove" /\ pc' = [pc EXCEPT ![w] = "readAbove"]
     \/ pc[w] = "waitBelow" /\ pc' = [pc EXCEPT ![w] = "readBelow"]
  /\ UNCHANGED <<syncVars, cur, todo, job, col, mainVars, filtered, copied>>

-----------------------------------------------------------------------------
WorkerStep(w) == \/ Take(w) \/ ReadAbove(w) \/ ReadBelow(w)
                 \/ Filter(w) \/ Write(w) \/ Copy(w)

Next == \/ \E f \in Formats : Begin(f) \/ BeginFails(f)
        \/ Launch \/ Finish
        \/ \E w \in Workers : WorkerStep(w) \/ Spurious(w)

\* Threads that can run do; a caller need not bring another frame.
Fairness == /\ WF_vars(Launch) /\ WF_vars(Finish)
            /\ \A w \in Workers : WF_vars(WorkerStep(w))

Spec == Init /\ [][Next]_vars /\ Fairness

-----------------------------------------------------------------------------
(* Properties.                                                             *)

Places == {"idle", "take", "readAbove", "waitAbove", "readBelow", "waitBelow",
           "filter", "write", "copy", "done"}

TypeOK ==
  /\ alloc \in [rows : Nat, planes : Nat] /\ syncRange \in {0, 1}
  /\ frame \in Formats /\ frames \in Nat
  /\ DOMAIN cur = frame.on /\ DOMAIN filtered = frame.on
  /\ \A p \in frame.on :
       /\ cur[p] \in [JobRows(frame, p) -> -1..frame.cols[p] + 1]
       /\ filtered[p] \in [JobRows(frame, p) -> 0..frame.cols[p]]
  /\ todo \subseteq Jobs(frame)
  /\ mainPc \in {"ready", "run"} /\ started \in 0..NumWorkers
  /\ pc \in [Workers -> Places]
  /\ job \in [Workers -> [plane : YUV, row : Nat]]
  /\ col \in [Workers -> Nat]
  /\ copied \subseteq Jobs(frame)

Filtering(w) == pc[w] = "filter"
RowDone(p, i) == filtered[p][i] = frame.cols[p]

\* A unit is filtered out of untouched input: while it is in the filter no lines
\* that it uses are or have been copied back, and no worker in a neighbouring
\* unit swaps boundary lines in and out of them.
InputIntact ==
  \A w \in Workers : Filtering(w) =>
    LET p == job[w].plane  mine == UsedLines(frame, p, job[w].row) IN
    /\ \A k \in copied : k.plane = p => ~Meet(mine, CopyLines(frame, p, k.row))
    /\ \A u \in Workers \ {w} :
         Filtering(u) /\ job[u].plane = p /\ col[u] - col[w] \in -1..1
           => ~Meet(mine, UsedLines(frame, p, job[u].row))

\* What is copied back has been filtered: all units of every row the lines
\* belong to.  On return every row is filtered and copied, and nobody is at work.
OutputComplete ==
  /\ \A k \in copied : \A i \in JobRows(frame, k.plane) :
       Meet(CopyLines(frame, k.plane, k.row),
            [from |-> VStart(frame, k.plane, i), to |-> VEnd(frame, k.plane, i)])
         => RowDone(k.plane, i)
  /\ mainPc = "ready" => \A w \in Workers : pc[w] = "idle"
  /\ mainPc = "ready" /\ started > 0 => copied = Jobs(frame)

\* The inductive invariant behind the first two.  Jobs: a job is queued, or held
\* by one worker, or copied.
Busy(w)  == pc[w] \notin {"idle", "take", "done"}
Reads    == {"readAbove", "waitAbove", "readBelow", "waitBelow"}

MainInv == /\ mainPc = "ready" => todo = {} /\ \A w \in Workers : pc[w] = "idle"
           /\ mainPc = "run" => /\ syncRange = 1
                                /\ \A w \in Workers : w > started => pc[w] = "idle"
           /\ \A w \in Workers : pc[w] = "done" => todo = {}

JobInv == \A w \in Workers : Busy(w) =>
            /\ job[w] \in Jobs(frame) \ todo
            /\ \A u \in Workers \ {w} : Busy(u) => job[u] # job[w]

BooksInv == /\ \A j \in todo : filtered[j.plane][j.row] = 0 /\ j \notin copied
            /\ \A k \in copied : RowDone(k.plane, k.row)
            /\ mainPc = "run" =>
                 Jobs(frame) \subseteq
                   todo \cup copied \cup {job[w] : w \in {v \in Workers : Busy(v)}}

\* A worker has filtered the units before its column, and is copying what it
\* has filtered to the end.
StepInv == \A w \in Workers : Busy(w) =>
  LET n == filtered[job[w].plane][job[w].row] IN
  /\ col[w] < frame.cols[job[w].plane]
  /\ pc[w] \in Reads \cup {"filter"} => n = col[w]
  /\ pc[w] \in Reads => Odd(w)
  /\ pc[w] = "write" => n = col[w] + 1 /\ ~Odd(w)
  /\ job[w] \in copied <=> pc[w] = "copy"

\* Progress published for a row never runs ahead of the row.
CurInv == \A p \in frame.on : \A i \in JobRows(frame, p) :
            cur[p][i] < filtered[p][i] \/ RowDone(p, i)

\* At least n units of the row are filtered, or all.
Ahead(p, i, n) == filtered[p][i] >= n \/ RowDone(p, i)

\* An odd row has seen its neighbours two units ahead, and is itself never
\* further than one unit behind them.
WaitInv == \A w \in Workers : Busy(w) /\ Odd(w) =>
  LET p == job[w].plane  r == job[w].row IN
  /\ pc[w] \in {"readBelow", "waitBelow", "filter"} => Ahead(p, r - 1, col[w] + 2)
  /\ pc[w] = "filter" /\ HasBelow(w) => Ahead(p, r + 1, col[w] + 2)

OddInv == \A p \in frame.on : \A i, k \in JobRows(frame, p) :
  i % 2 = 1 /\ (k = i - 1 \/ k = i + 1) /\ filtered[p][i] > 0
    => Ahead(p, k, filtered[p][i] + 1)

IInv == /\ TypeOK /\ MainInv /\ JobInv /\ BooksInv /\ StepInv /\ CurInv /\ WaitInv
        /\ OddInv /\ (mainPc = "ready" /\ started > 0 => copied = Jobs(frame))

\* Every job has its place in the queue, and every row its mutex, condition and
\* progress, even after an earlier allocation failed half-way.
RowsThere ==
  mainPc = "run" =>
    /\ syncRange # 0
    /\ \A j \in Jobs(frame) : j.row < alloc.rows /\ j.plane < alloc.planes
    /\ Cardinality(Jobs(frame)) <= alloc.rows * alloc.planes
=============================================================================
