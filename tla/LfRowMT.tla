------------------------------- MODULE LfRowMT -------------------------------
(***************************************************************************)
(* av1/common/thread_common.c: the row-based multi-threaded loop filter.   *)
(* loop_filter_rows_mt() queues one job per direction, plane and           *)
(* superblock row, launches the workers, runs the last one itself and      *)
(* waits for all.  A worker takes the next job and filters its row from    *)
(* left to right.  Vertical jobs (dir = 0) publish their progress in       *)
(* cur_sb_col, only every sync_range columns; horizontal jobs (dir = 1)    *)
(* wait for it with the condition variable of the row they depend on.      *)
(*                                                                         *)
(* A step is one filtered superblock, or one critical section: of          *)
(* job_mutex, or of the mutex of a row.  A worker in cond_wait is in       *)
(* "waitAbove" or "waitOwn", and the broadcast of sync_write() moves those *)
(* that wait on its row back to their test.  launch() and sync() of the    *)
(* workers are taken as WorkerSpec describes them.                         *)
(***************************************************************************)
EXTENDS Integers

CONSTANTS NumWorkers,  \* nworkers; the last one is the calling thread
          Planes,      \* the planes of a frame, numbered as in the code
          MaxRows,     \* bound: superblock rows of a frame
          MaxCols,     \* bound: superblock columns of a frame
          SyncRange,   \* get_sync_range() by number of superblock columns
          MaxFrames    \* bound: how many frames are filtered

ASSUME LfAssumption == /\ NumWorkers \in Nat \ {0}
                       /\ Planes \subseteq 0..2
                       /\ MaxRows \in Nat \ {0} /\ MaxCols \in Nat \ {0}
                       /\ SyncRange \in [1..MaxCols -> {1, 2, 4, 8}]
                       /\ MaxFrames \in Nat

VARIABLES rows,       \* lf_sync->rows: the rows that have mutexes and progress
          syncRange,  \* lf_sync->sync_range; 0 before the first allocation
          cur,        \* lf_sync->cur_sb_col[plane][row]
          todo,       \* the queued jobs from jobs_dequeued on
          mainPc,     \* "ready", or "run" inside loop_filter_rows_mt()
          started,    \* workers launched for this frame
          pc, job, col,          \* per worker: its place in the code
          frame,      \* the frame: superblock rows, columns, filtered planes
          frames,     \* frames begun
          vertDone,   \* history: superblocks of each row filtered so far ...
          horzDone    \* ... in either direction

syncVars   == <<rows, syncRange>>
workerVars == <<pc, job, col>>
mainVars   == <<mainPc, started, frame, frames>>
done       == <<vertDone, horzDone>>
vars == <<syncVars, cur, todo, workerVars, mainVars, done>>

Workers == 1..NumWorkers
RowIds  == 0..MaxRows - 1
Rows    == 0..frame.rows - 1
Jobs    == [dir : {0, 1}, plane : Planes, row : RowIds]
NoJob   == [dir |-> 0, plane |-> 0, row |-> 0]

Init == /\ rows = 0 /\ syncRange = 0
        /\ cur = [p \in Planes |-> [i \in RowIds |-> -1]]
        /\ todo = {}
        /\ mainPc = "ready" /\ started = 0
        /\ pc = [w \in Workers |-> "idle"]
        /\ job = [w \in Workers |-> NoJob]
        /\ col = [w \in Workers |-> 0]
        /\ frame = [rows |-> 1, cols |-> 1, on |-> {}]
        /\ frames = 0
        /\ vertDone = [p \in Planes |-> [i \in RowIds |-> 0]]
        /\ horzDone = [p \in Planes |-> [i \in RowIds |-> 0]]

-----------------------------------------------------------------------------
(* loop_filter_rows_mt(): the calling thread.                              *)

\* The planes of start..stop - 1 that have jobs, given those (lit) with a
\* nonzero filter level: an unfiltered luma plane ends the loop over planes.
PlanesOn(start, stop, lit) ==
  IF start = 0 /\ 0 \notin lit THEN {} ELSE lit \cap (start..stop - 1)

\* Defect: horizontal jobs are queued before vertical ones.
HorzFirst(j, k) == \/ j.dir > k.dir
                   \/ j.dir = k.dir /\ j.plane < k.plane
                   \/ j.dir = k.dir /\ j.plane = k.plane /\ j.row < k.row

\* The order of the queue: by direction, plane and row.
Before(j, k) == \/ j.dir < k.dir
                \/ j.dir = k.dir /\ j.plane < k.plane
                \/ j.dir = k.dir /\ j.plane = k.plane /\ j.row < k.row

\* Defect: a failed allocation is taken for a finished one.
NeedsRowsOnly(r) == r # rows

\* Whether the mutexes, conditions and progress have to be allocated anew.  That there
\* are more workers than before is a reason too, but none that arises: each caller
\* passes the number of workers it created, which it does once.
NeedsAlloc(r) == syncRange = 0 \/ r # rows

\* A frame begins.  sync_range stays that of the frame the rows were allocated
\* for, whatever the width is now.
Begin(r, c, on) ==
  /\ mainPc = "ready" /\ frames < MaxFrames
  /\ IF NeedsAlloc(r)
     THEN rows' = r /\ syncRange' = SyncRange[c]
     ELSE UNCHANGED syncVars
  /\ cur' = [p \in Planes |-> [i \in RowIds |-> -1]]
  /\ todo' = [dir : {0, 1}, plane : on, row : 0..r - 1]
  /\ mainPc' = "run" /\ started' = 0
  /\ frame' = [rows |-> r, cols |-> c, on |-> on]
  /\ frames' = frames + 1
  /\ vertDone' = [p \in Planes |-> [i \in RowIds |-> 0]]
  /\ horzDone' = [p \in Planes |-> [i \in RowIds |-> 0]]
  /\ UNCHANGED workerVars

\* An allocation fails: CHECK_MEM_ERROR leaves by longjmp, after
\* av1_loop_filter_dealloc() cleared lf_sync and rows was set.
BeginFails(r) ==
  /\ mainPc = "ready" /\ frames < MaxFrames
  /\ NeedsAlloc(r)
  /\ rows' = r /\ syncRange' = 0
  /\ frames' = frames + 1
  /\ UNCHANGED <<cur, todo, workerVars, mainPc, started, frame, done>>

Launch == /\ mainPc = "run" /\ started < NumWorkers
          /\ started' = started + 1
          /\ pc' = [pc EXCEPT ![started + 1] = "take"]
          /\ UNCHANGED <<syncVars, cur, todo, job, col, mainPc, frame, frames,
                         done>>

\* Defect: only the calling thread's own part is waited for.
FinishUnsynced == /\ mainPc = "run" /\ started = NumWorkers
                  /\ pc[NumWorkers] = "done"
                  /\ mainPc' = "ready"
                  /\ UNCHANGED <<syncVars, cur, todo, workerVars, started, frame,
                                 frames, done>>

\* sync() of every worker; what they worked on is out of scope then.
Finish == /\ mainPc = "run" /\ started = NumWorkers
          /\ \A w \in Workers : pc[w] = "done"
          /\ mainPc' = "ready"
          /\ pc' = [w \in Workers |-> "idle"]
          /\ job' = [w \in Workers |-> NoJob]
          /\ col' = [w \in Workers |-> 0]
          /\ UNCHANGED <<syncVars, cur, todo, started, frame, frames, done>>

-----------------------------------------------------------------------------
(* thread_loop_filter_rows(): the workers.                                 *)

\* Defect: the job at the head is looked at but not taken off the queue.
TakeShared(w) ==
  /\ pc[w] = "take"
  /\ IF todo = {}
     THEN pc' = [pc EXCEPT ![w] = "done"] /\ UNCHANGED <<todo, job, col>>
     ELSE \E j \in todo :
            /\ \A k \in todo \ {j} : Before(j, k)
            /\ todo' \in {todo, todo \ {j}}
            /\ job' = [job EXCEPT ![w] = j]
            /\ col' = [col EXCEPT ![w] = 0]
            /\ pc' = [pc EXCEPT ![w] = IF j.dir = 0 THEN "vert"
                                                    ELSE "readAbove"]
  /\ UNCHANGED <<syncVars, cur, mainVars, done>>

\* get_lf_job_info()
Take(w) ==
  /\ pc[w] = "take"
  /\ IF todo = {}
     THEN pc' = [pc EXCEPT ![w] = "done"] /\ UNCHANGED <<todo, job, col>>
     ELSE \E j \in todo :
            /\ \A k \in todo \ {j} : Before(j, k)
            /\ todo' = todo \ {j}
            /\ job' = [job EXCEPT ![w] = j]
            /\ col' = [col EXCEPT ![w] = 0]
            /\ pc' = [pc EXCEPT ![w] = IF j.dir = 0 THEN "vert"
                                                    ELSE "readAbove"]
  /\ UNCHANGED <<syncVars, cur, mainVars, done>>

\* On to the next superblock of the row, or to the next job.
NextCol(w, start) ==
  IF col[w] + 1 < frame.cols
  THEN /\ col' = [col EXCEPT ![w] = @ + 1]
       /\ pc' = [pc EXCEPT ![w] = start]
  ELSE /\ pc' = [pc EXCEPT ![w] = "take"]
       /\ UNCHANGED col

\* av1_filter_block_plane_vert()
Vert(w) ==
  /\ pc[w] = "vert"
  /\ vertDone' = [vertDone EXCEPT ![job[w].plane][job[w].row] = @ + 1]
  /\ pc' = [pc EXCEPT ![w] = "write"]
  /\ UNCHANGED <<syncVars, cur, todo, job, col, mainVars, horzDone>>

\* Defect: a worker that waits for its own row is not woken.
WokenAboveOnly(u, plane, row) ==
  IF /\ pc[u] = "waitAbove" /\ job[u].plane = plane /\ job[u].row = row + 1
  THEN "readAbove" ELSE pc[u]

\* Where a worker is after a broadcast on the condition of a row: those that
\* wait on it test cur_sb_col again.
Woken(u, plane, row) ==
  IF /\ pc[u] = "waitAbove" /\ job[u].plane = plane /\ job[u].row = row + 1
  THEN "readAbove"
  ELSE IF pc[u] = "waitOwn" /\ job[u].plane = plane /\ job[u].row = row
       THEN "readOwn" ELSE pc[u]

\* Defect: progress is published one column ahead.
CurAhead(c) == IF c < frame.cols - 1 THEN c + 1 ELSE frame.cols + syncRange

\* The progress that sync_write() publishes after column c.
CurAfter(c) == IF c < frame.cols - 1 THEN c ELSE frame.cols + syncRange

\* sync_write()
Write(w) ==
  LET c == col[w]  p == job[w].plane  r == job[w].row
      sig == c = frame.cols - 1 \/ c % syncRange = 0
      next == IF c + 1 < frame.cols THEN "vert" ELSE "take"
  IN /\ pc[w] = "write"
     /\ IF sig THEN cur' = [cur EXCEPT ![p][r] = CurAfter(c)]
               ELSE UNCHANGED cur
     /\ pc' = [u \in Workers |-> IF u = w THEN next
                                 ELSE IF sig THEN Woken(u, p, r) ELSE pc[u]]
     /\ col' = IF c + 1 < frame.cols THEN [col EXCEPT ![w] = c + 1] ELSE col
     /\ UNCHANGED <<syncVars, todo, job, mainVars, done>>

\* Defect: the columns of a group are not waited for.
BlockedGroupless(plane, row, c) == c > cur[plane][row - 1]

\* The test of sync_read() on the progress of the row above the given one.
Blocked(plane, row, c) == c > cur[plane][row - 1] - syncRange

\* sync_read(r, c): the row above, unless this is the first row.
ReadAbove(w) ==
  LET r == job[w].row IN
  /\ pc[w] = "readAbove"
  /\ pc' = [pc EXCEPT ![w] =
              IF /\ r # 0 /\ col[w] % syncRange = 0
                 /\ Blocked(job[w].plane, r, col[w])
              THEN "waitAbove" ELSE "readOwn"]
  /\ UNCHANGED <<syncVars, cur, todo, job, col, mainVars, done>>

\* sync_read(r + 1, c): the row itself.
ReadOwn(w) ==
  /\ pc[w] = "readOwn"
  /\ pc' = [pc EXCEPT ![w] =
              IF /\ col[w] % syncRange = 0
                 /\ Blocked(job[w].plane, job[w].row + 1, col[w])
              THEN "waitOwn" ELSE "horz"]
  /\ UNCHANGED <<syncVars, cur, todo, job, col, mainVars, done>>

\* av1_filter_block_plane_horz()
Horz(w) ==
  /\ pc[w] = "horz"
  /\ horzDone' = [horzDone EXCEPT ![job[w].plane][job[w].row] = @ + 1]
  /\ NextCol(w, "readAbove")
  /\ UNCHANGED <<syncVars, cur, todo, job, mainVars, vertDone>>

\* cond_wait may return without a broadcast.
Spurious(w) ==
  /\ \/ pc[w] = "waitAbove" /\ pc' = [pc EXCEPT ![w] = "readAbove"]
     \/ pc[w] = "waitOwn" /\ pc' = [pc EXCEPT ![w] = "readOwn"]
  /\ UNCHANGED <<syncVars, cur, todo, job, col, mainVars, done>>

-----------------------------------------------------------------------------
WorkerStep(w) == \/ Take(w) \/ Vert(w) \/ Write(w)
                 \/ ReadAbove(w) \/ ReadOwn(w) \/ Horz(w)

NewFrame == \E r \in 1..MaxRows :
              \/ BeginFails(r)
              \/ \E c \in 1..MaxCols, start \in 0..2, stop \in 1..3,
                    lit \in SUBSET Planes : Begin(r, c, PlanesOn(start, stop, lit))

Next == \/ NewFrame \/ Launch \/ Finish
        \/ \E w \in Workers : WorkerStep(w) \/ Spurious(w)

\* Threads that can run do; a caller need not bring another frame.
Fairness == /\ WF_vars(Launch) /\ WF_vars(Finish)
            /\ \A w \in Workers : WF_vars(WorkerStep(w))

Spec == Init /\ [][Next]_vars /\ Fairness

-----------------------------------------------------------------------------
(* Properties.                                                             *)

Places == {"idle", "take", "vert", "write", "readAbove", "waitAbove", "readOwn",
           "waitOwn", "horz", "done"}

TypeOK ==
  /\ rows \in 0..MaxRows /\ syncRange \in {0, 1, 2, 4, 8}
  /\ cur \in [Planes -> [RowIds -> Int]]
  /\ todo \subseteq Jobs
  /\ mainPc \in {"ready", "run"} /\ started \in 0..NumWorkers
  /\ pc \in [Workers -> Places]
  /\ job \in [Workers -> [dir : {0, 1}, plane : 0..2, row : Nat]]
  /\ col \in [Workers -> 0..MaxCols]
  /\ frame \in [rows : 1..MaxRows, cols : 1..MaxCols, on : SUBSET Planes]
  /\ frames \in Nat
  /\ vertDone \in [Planes -> [RowIds -> 0..MaxCols]]
  /\ horzDone \in [Planes -> [RowIds -> 0..MaxCols]]

\* The first `count' superblocks of a row have had their vertical edges filtered,
\* or the whole row if it is shorter.
VertAhead(p, r, count) == \/ vertDone[p][r] >= count
                          \/ vertDone[p][r] = frame.cols

\* Horizontal edges of a superblock are filtered only after the vertical edges
\* of that superblock and of its right, upper and upper-right neighbours.
FilterOrder ==
  \A w \in Workers : pc[w] = "horz" =>
    LET p == job[w].plane  r == job[w].row IN
    /\ VertAhead(p, r, col[w] + 2)
    /\ r # 0 => VertAhead(p, r - 1, col[w] + 2)

\* When loop_filter_rows_mt() returns every superblock of the planes that are
\* to be filtered has been filtered in both directions, once, and no worker is
\* in the frame any more.
FrameComplete ==
  mainPc = "ready" =>
    /\ \A w \in Workers : pc[w] = "idle"
    /\ \A p \in frame.on, r \in Rows :
         vertDone[p][r] = frame.cols /\ horzDone[p][r] = frame.cols

\* No worker touches the mutex, condition or progress of a row that has not
\* been allocated, even after an earlier allocation failed half-way.
RowsAllocated == mainPc = "run" => rows = frame.rows /\ syncRange # 0

\* The inductive invariant behind them.  Jobs: a queued job is untouched, one
\* that a worker has is done up to the worker's column, any other is finished.
Busy(w)     == pc[w] \notin {"idle", "take", "done"}
FrameJobs   == [dir : {0, 1}, plane : frame.on, row : Rows]
Count(j)    == IF j.dir = 0 THEN vertDone[j.plane][j.row]
                            ELSE horzDone[j.plane][j.row]
Progress(w) == IF pc[w] = "write" THEN col[w] + 1 ELSE col[w]

MainInv == /\ mainPc = "ready" =>
                /\ todo = {}
                /\ \A w \in Workers : pc[w] = "idle"
           /\ mainPc = "run" =>
                \A w \in Workers : w > started => pc[w] = "idle"
           /\ \A w \in Workers : pc[w] = "done" => todo = {}
           /\ RowsAllocated
JobInv == /\ todo \subseteq FrameJobs
          /\ \A w \in Workers : Busy(w) =>
               /\ job[w] \in FrameJobs \ todo
               /\ col[w] < frame.cols
               /\ pc[w] \in {"vert", "write"} <=> job[w].dir = 0
          /\ \A w, u \in Workers :
               Busy(w) /\ Busy(u) /\ job[w] = job[u] => w = u
CountInv == /\ \A p \in Planes, r \in RowIds : /\ vertDone[p][r] <= frame.cols
                                             /\ horzDone[p][r] <= frame.cols
            /\ \A j \in todo : Count(j) = 0
            /\ \A w \in Workers : Busy(w) => Count(job[w]) = Progress(w)
            /\ \A j \in FrameJobs \ todo :
                 \/ \E w \in Workers : Busy(w) /\ job[w] = j
                 \/ Count(j) = frame.cols
\* Published progress never exceeds the filtered columns, and a worker that has
\* passed sync_read() has the columns of its group and one more behind it.
CurInv == \A p \in Planes, r \in RowIds : VertAhead(p, r, cur[p][r] + 1)
Group(c) == (c - (c % syncRange)) + syncRange + 1
WaitInv ==
  \A w \in Workers : Busy(w) /\ job[w].dir = 1 =>
    LET p == job[w].plane  r == job[w].row  inGroup == col[w] % syncRange # 0 IN
    /\ r # 0 /\ (inGroup \/ pc[w] \in {"readOwn", "waitOwn", "horz"})
         => VertAhead(p, r - 1, Group(col[w]))
    /\ inGroup \/ pc[w] = "horz" => VertAhead(p, r, Group(col[w]))

\* The queue, the cursors and the superblocks filtered agree while the rows are
\* filtered: the inductive invariant behind the properties.
IInv == TypeOK /\ MainInv /\ JobInv /\ CountInv /\ CurInv /\ WaitInv

\* The filter implements FrameFilter.
FilteredBlocks(count) ==
  {b \in frame.on \X Rows \X (0..frame.cols - 1) : b[3] < count[b[1]][b[2]]}

Abstract == INSTANCE FrameFilter WITH
              busy   <- mainPc = "run",
              blocks <- frame.on \X Rows \X (0..frame.cols - 1),
              vdone  <- FilteredBlocks(vertDone),
              hdone  <- FilteredBlocks(horzDone)
FilterRefinement == Abstract!ASpec
=============================================================================
