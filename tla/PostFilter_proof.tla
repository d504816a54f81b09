--------------------------- MODULE PostFilter_proof ---------------------------
(***************************************************************************)
(* Proofs about the two stages after reconstruction, for any number of     *)
(* workers, any frame sizes and any sync_range that get_sync_range() can   *)
(* return: first the deblocking filter of LfRowMT alone, then both stages  *)
(* on one picture, as PostFilter composes them.  LrRowMT_proof has the     *)
(* restoration alone.                                                      *)
(***************************************************************************)
EXTENDS PostFilter, TLAPS

-----------------------------------------------------------------------------
(***************************************************************************)
(* The deblocking filter.  The argument: every job is queued, held by one  *)
(* worker, or finished (JobInv, CountInv); progress published for a row    *)
(* never runs ahead of the row (CurInv); so a worker that has passed       *)
(* sync_read() at the start of a group of sync_range columns has all the   *)
(* vertical filtering behind it that the columns of the group need         *)
(* (WaitInv).                                                              *)
(***************************************************************************)

USE DEF syncVars, workerVars, mainVars, done, Places

\* The group of a column and that of the next one in it are the same.
LEMMA GroupSame ==
  ASSUME syncRange \in {1, 2, 4, 8}, NEW c \in Nat,
         (c + 1) % syncRange # 0
  PROVE  Group(c + 1) = Group(c)
<1>1. CASE syncRange = 1
  BY <1>1 DEF Group
<1>2. CASE syncRange = 2
  BY <1>2 DEF Group
<1>3. CASE syncRange = 4
  BY <1>3 DEF Group
<1>4. CASE syncRange = 8
  BY <1>4 DEF Group
<1>5. QED
  BY <1>1, <1>2, <1>3, <1>4

\* A group reaches beyond the right neighbour of each of its columns.
LEMMA GroupReach ==
  ASSUME syncRange \in {1, 2, 4, 8}, NEW c \in Nat
  PROVE  /\ Group(c) \in Nat
         /\ Group(c) >= c + 2
         /\ c % syncRange = 0 => Group(c) = c + syncRange + 1
<1>1. CASE syncRange = 1
  BY <1>1 DEF Group
<1>2. CASE syncRange = 2
  BY <1>2 DEF Group
<1>3. CASE syncRange = 4
  BY <1>3 DEF Group
<1>4. CASE syncRange = 8
  BY <1>4 DEF Group
<1>5. QED
  BY <1>1, <1>2, <1>3, <1>4

\* Column 0 starts a group.
LEMMA GroupStart ==
  ASSUME syncRange \in {1, 2, 4, 8} PROVE 0 % syncRange = 0
<1>1. CASE syncRange = 1
  BY <1>1
<1>2. CASE syncRange = 2
  BY <1>2
<1>3. CASE syncRange = 4
  BY <1>3
<1>4. CASE syncRange = 8
  BY <1>4
<1>5. QED
  BY <1>1, <1>2, <1>3, <1>4

\* Initially nothing is queued and nobody works.
LEMMA InitIInv == Init => IInv
<1> SUFFICES ASSUME Init PROVE IInv
  OBVIOUS
<1> USE LfAssumption DEF Init, Workers, RowIds, Rows, NoJob
<1>1. TypeOK
  BY DEF TypeOK, Jobs
<1>2. MainInv
  BY DEF MainInv, RowsAllocated
<1>3. JobInv
  BY DEF JobInv, FrameJobs, Busy
<1>4. CountInv
  BY DEF CountInv, FrameJobs, Busy
<1>5. CurInv
  BY DEF CurInv, VertAhead
<1>6. WaitInv
  BY DEF WaitInv, Busy
<1>7. QED
  BY <1>1, <1>2, <1>3, <1>4, <1>5, <1>6 DEF IInv

\* A new frame.
LEMMA BeginIInv ==
  ASSUME IInv, NEW r \in 1..MaxRows, NEW c \in 1..MaxCols,
         NEW on \in SUBSET Planes, Begin(r, c, on)
  PROVE  IInv'
<1> USE LfAssumption DEF Begin, Workers, RowIds, Rows
<1>1. TypeOK'
  <2>1. todo' \subseteq Jobs
    <3>1. 0..r - 1 \subseteq RowIds
      OBVIOUS
    <3>2. todo' = [dir : {0, 1}, plane : on, row : 0..r - 1]
      OBVIOUS
    <3>3. QED
      BY ONLY <3>1, <3>2, on \in SUBSET Planes DEF Jobs
  <2>2. rows' \in 0..MaxRows /\ syncRange' \in {0, 1, 2, 4, 8}
    BY DEF IInv, TypeOK, NeedsAlloc
  <2>3. /\ cur' \in [Planes -> [RowIds -> Int]]
        /\ vertDone' \in [Planes -> [RowIds -> 0..MaxCols]]
        /\ horzDone' \in [Planes -> [RowIds -> 0..MaxCols]]
    OBVIOUS
  <2>4. /\ frame' \in [rows : 1..MaxRows, cols : 1..MaxCols, on : SUBSET Planes]
        /\ mainPc' \in {"ready", "run"} /\ started' \in 0..NumWorkers
    OBVIOUS
  <2>5. frames' \in Nat /\ UNCHANGED <<pc, job, col>>
    BY DEF IInv, TypeOK, workerVars
  <2>6. QED
    BY <2>1, <2>2, <2>3, <2>4, <2>5 DEF IInv, TypeOK
<1>2. rows' = r /\ syncRange' # 0
  <2>1. SyncRange[c] \in {1, 2, 4, 8}
    OBVIOUS
  <2>2. QED
    BY <2>1 DEF NeedsAlloc, IInv, TypeOK
<1>3. \A w \in Workers : pc'[w] = "idle"
  BY DEF IInv, MainInv
<1>4. MainInv'
  BY <1>2, <1>3 DEF MainInv, RowsAllocated
<1>5. JobInv'
  BY <1>3 DEF JobInv, FrameJobs, Busy
<1>6. CountInv'
  <2>1. \A p \in Planes, i \in RowIds : /\ vertDone'[p][i] <= frame.cols'
                                        /\ horzDone'[p][i] <= frame.cols'
    OBVIOUS
  <2>2. FrameJobs' = todo'
    BY DEF FrameJobs
  <2>3. \A j \in todo' : Count(j)' = 0
    <3>1. \A j \in todo' : j.plane \in Planes /\ j.row \in RowIds
      <4>1. on \subseteq Planes /\ 0..r - 1 \subseteq RowIds
        OBVIOUS
      <4>2. todo' = [dir : {0, 1}, plane : on, row : 0..r - 1]
        OBVIOUS
      <4>3. QED
        BY ONLY <4>1, <4>2
    <3>2. QED
      BY <3>1 DEF Count
  <2>4. QED
    BY <2>1, <2>2, <2>3, <1>3 DEF CountInv, Busy
<1>7. CurInv'
  BY DEF CurInv, VertAhead
<1>8. WaitInv'
  BY <1>3 DEF WaitInv, Busy
<1>9. QED
  BY <1>1, <1>4, <1>5, <1>6, <1>7, <1>8 DEF IInv

\* The calling thread's other steps.
LEMMA MainIInv ==
  ASSUME IInv,
         (\E r \in 1..MaxRows : BeginFails(r)) \/ Launch \/ Finish
  PROVE  IInv'
<1> USE LfAssumption DEF Workers
<1>1. CASE \E r \in 1..MaxRows : BeginFails(r)
  <2> PICK r \in 1..MaxRows : BeginFails(r)
    BY <1>1
  <2> USE DEF BeginFails
  <2>1. TypeOK'
    <3>1. rows' \in 0..MaxRows /\ frames' \in Nat
      BY DEF IInv, TypeOK
    <3>2. QED
      BY <3>1 DEF IInv, TypeOK
  <2>11. MainInv'
    BY DEF IInv, MainInv, RowsAllocated
  <2>2. JobInv' /\ CountInv' /\ CurInv'
    BY DEF IInv, JobInv, CountInv, CurInv, VertAhead, FrameJobs, Rows, Busy,
           Count, Progress
  <2>3. WaitInv'
    BY DEF IInv, MainInv, WaitInv, Busy
  <2>4. QED
    BY <2>1, <2>11, <2>2, <2>3 DEF IInv
<1>2. CASE Launch
  <2> USE <1>2 DEF Launch
  <2>1. started + 1 \in Workers /\ pc[started + 1] = "idle"
    BY DEF IInv, TypeOK, MainInv
  <2>2. TypeOK'
    <3>1. started' \in 0..NumWorkers
      BY DEF IInv, TypeOK
    <3>2. pc' \in [Workers -> Places]
      BY DEF IInv, TypeOK
    <3>3. QED
      BY <3>1, <3>2 DEF IInv, TypeOK
  <2>3. \A w \in Workers : \/ pc'[w] = pc[w]
                           \/ pc[w] = "idle" /\ pc'[w] = "take"
    BY <2>1 DEF IInv, TypeOK
  <2>4. MainInv'
    BY <2>3 DEF IInv, MainInv, RowsAllocated, TypeOK
  <2>5. \A w \in Workers : /\ Busy(w)' <=> Busy(w)
                           /\ Busy(w) => pc'[w] = pc[w]
    BY <2>3 DEF Busy
  <2>6. JobInv'
    BY <2>5 DEF IInv, JobInv, FrameJobs, Rows
  <2>7. CountInv' /\ CurInv'
    BY <2>5 DEF IInv, CountInv, CurInv, VertAhead, FrameJobs, Rows, Count,
                Progress
  <2>8. WaitInv'
    BY <2>5 DEF IInv, WaitInv, VertAhead, Group
  <2>9. QED
    BY <2>2, <2>4, <2>6, <2>7, <2>8 DEF IInv
<1>3. CASE Finish
  <2> USE <1>3 DEF Finish
  <2>1. todo = {}
    BY DEF IInv, MainInv, TypeOK
  <2>2. TypeOK'
    <3>1. job' \in [Workers -> [dir : {0, 1}, plane : 0..2, row : Nat]]
      BY DEF NoJob
    <3>2. col' \in [Workers -> 0..MaxCols]
      OBVIOUS
    <3>3. pc' \in [Workers -> Places]
      OBVIOUS
    <3>4. QED
      BY <3>1, <3>2, <3>3 DEF IInv, TypeOK
  <2>3. MainInv'
    BY <2>1 DEF MainInv, RowsAllocated
  <2>4. JobInv' /\ CountInv' /\ CurInv'
    BY DEF IInv, TypeOK, JobInv, CountInv, CurInv, VertAhead, FrameJobs, Rows,
           Busy, Count, Progress
  <2>5. WaitInv'
    BY DEF WaitInv, Busy
  <2>6. QED
    BY <2>2, <2>3, <2>4, <2>5 DEF IInv
<1>4. QED
  BY <1>1, <1>2, <1>3

-----------------------------------------------------------------------------
\* A job is determined by its direction, plane and row.
LEMMA JobFields ==
  ASSUME NEW j \in FrameJobs, NEW k \in FrameJobs,
         j.dir = k.dir, j.plane = k.plane, j.row = k.row
  PROVE  j = k
BY DEF FrameJobs

\* The jobs of a frame are about its planes and allocated rows.
LEMMA JobDomain ==
  ASSUME IInv, NEW k \in FrameJobs
  PROVE  k.dir \in {0, 1} /\ k.plane \in Planes /\ k.row \in RowIds
<1>1. frame.on \subseteq Planes /\ frame.rows \in 1..MaxRows
  BY DEF IInv, TypeOK
<1>2. Rows \subseteq RowIds
  BY ONLY <1>1, LfAssumption DEF Rows, RowIds
<1>3. k.dir \in {0, 1} /\ k.plane \in frame.on /\ k.row \in Rows
  BY DEF FrameJobs
<1>4. QED
  BY <1>1, <1>2, <1>3

\* What a busy worker is known to have.
LEMMA BusyFacts ==
  ASSUME IInv, NEW w \in Workers, Busy(w)
  PROVE  /\ mainPc = "run" /\ syncRange \in {1, 2, 4, 8} /\ rows = frame.rows
         /\ frame.rows \in 1..MaxRows /\ frame.cols \in 1..MaxCols
         /\ job[w] \in FrameJobs /\ job[w] \notin todo
         /\ job[w].plane \in Planes /\ job[w].plane \in frame.on
         /\ job[w].row \in RowIds /\ job[w].row \in Rows /\ job[w].row \in Nat
         /\ job[w].dir \in {0, 1}
         /\ col[w] \in Nat /\ col[w] < frame.cols
<1> USE LfAssumption DEF IInv
<1>1. mainPc = "run"
  BY DEF TypeOK, MainInv, Busy
<1>2. syncRange \in {1, 2, 4, 8} /\ rows = frame.rows
  BY <1>1 DEF TypeOK, MainInv, RowsAllocated
<1>3. frame.rows \in 1..MaxRows /\ frame.cols \in 1..MaxCols
  BY DEF TypeOK
<1>4. job[w] \in FrameJobs /\ job[w] \notin todo /\ col[w] < frame.cols
  BY DEF JobInv
<1>5. frame.on \subseteq Planes /\ Rows \subseteq RowIds /\ Rows \subseteq Nat
  BY <1>3 DEF TypeOK, Rows, RowIds
<1>6. /\ job[w].plane \in frame.on /\ job[w].row \in Rows
      /\ job[w].dir \in {0, 1}
  BY <1>4 DEF FrameJobs
<1>7. col[w] \in Nat
  BY DEF TypeOK
<1>8. QED
  BY <1>1, <1>2, <1>3, <1>4, <1>5, <1>6, <1>7

\* get_lf_job_info(): the job changes hands.
LEMMA TakeIInv ==
  ASSUME IInv, NEW w \in Workers, Take(w)
  PROVE  IInv'
<1> USE LfAssumption DEF Take
<1>1. CASE todo = {}
  <2>1. UNCHANGED <<syncVars, cur, todo, job, col, mainVars, done>>
    BY <1>1
  <2>2. pc' = [pc EXCEPT ![w] = "done"]
    BY <1>1
  <2>3. TypeOK'
    BY <2>1, <2>2 DEF IInv, TypeOK, Jobs, RowIds
  <2>4. \A u \in Workers : /\ Busy(u)' <=> Busy(u)
                           /\ Busy(u) => pc'[u] = pc[u]
    BY <2>2 DEF Busy, IInv, TypeOK
  <2>5. MainInv'
    BY <1>1, <2>1, <2>2 DEF IInv, MainInv, TypeOK, RowsAllocated
  <2>6. JobInv'
    BY <2>1, <2>4 DEF IInv, JobInv, FrameJobs, Rows
  <2>7. CountInv' /\ CurInv'
    BY <2>1, <2>4 DEF IInv, CountInv, CurInv, VertAhead, FrameJobs, Rows,
                      Count, Progress
  <2>8. WaitInv'
    BY <2>1, <2>4 DEF IInv, WaitInv, VertAhead, Group
  <2>9. QED
    BY <2>3, <2>5, <2>6, <2>7, <2>8 DEF IInv
<1>2. ASSUME NEW j \in todo,
             todo' = todo \ {j},
             job' = [job EXCEPT ![w] = j],
             col' = [col EXCEPT ![w] = 0],
             pc' = [pc EXCEPT ![w] = IF j.dir = 0 THEN "vert" ELSE "readAbove"]
      PROVE  IInv'
  <2> UNCHANGED <<syncVars, cur, mainVars, done>>
    OBVIOUS
  <2>1. mainPc = "run" /\ j \in FrameJobs /\ ~Busy(w)
    BY DEF IInv, TypeOK, MainInv, JobInv, Busy
  <2>2. /\ j.dir \in {0, 1} /\ j.plane \in frame.on /\ j.row \in Rows
        /\ Rows \subseteq Nat /\ frame.on \subseteq 0..2
    <3>1. Rows \subseteq Nat /\ frame.on \subseteq 0..2
      <4>1. frame.rows \in Nat /\ frame.on \subseteq Planes
        BY DEF IInv, TypeOK
      <4>2. frame.on \subseteq 0..2
        BY <4>1
      <4>3. Rows \subseteq Nat
        BY ONLY <4>1 DEF Rows
      <4>4. QED
        BY <4>2, <4>3
    <3>2. QED
      BY <3>1, <2>1 DEF FrameJobs
  <2>3. TypeOK'
    <3>1. todo' \subseteq Jobs
      BY <1>2 DEF IInv, TypeOK
    <3>2. job' \in [Workers -> [dir : {0, 1}, plane : 0..2, row : Nat]]
      <4>1. j \in [dir : {0, 1}, plane : 0..2, row : Nat]
        BY <2>1, <2>2 DEF FrameJobs
      <4>2. QED
        BY <4>1, <1>2 DEF IInv, TypeOK
    <3>3. col' \in [Workers -> 0..MaxCols] /\ pc' \in [Workers -> Places]
      BY <1>2 DEF IInv, TypeOK
    <3>4. QED
      BY <3>1, <3>2, <3>3 DEF IInv, TypeOK
  <2>4. MainInv'
    BY <1>2, <2>1 DEF IInv, MainInv, TypeOK, RowsAllocated
  <2>5. /\ Busy(w)' /\ job'[w] = j /\ col'[w] = 0
        /\ pc'[w] = IF j.dir = 0 THEN "vert" ELSE "readAbove"
    BY <1>2 DEF Busy, IInv, TypeOK
  <2>6. \A u \in Workers \ {w} :
          /\ pc'[u] = pc[u] /\ job'[u] = job[u] /\ col'[u] = col[u]
          /\ Busy(u)' <=> Busy(u)
    BY <1>2 DEF Busy, IInv, TypeOK
  <2>7. JobInv'
    <3>1. todo' \subseteq FrameJobs'
      BY <1>2 DEF IInv, JobInv, FrameJobs, Rows
    <3>2. \A u \in Workers : Busy(u)' =>
            /\ job'[u] \in FrameJobs' \ todo'
            /\ col'[u] < frame.cols'
            /\ pc'[u] \in {"vert", "write"} <=> job'[u].dir = 0
      <4>1. FrameJobs' = FrameJobs
        BY DEF FrameJobs, Rows
      <4>2. frame.cols \in Nat \ {0}
        BY DEF IInv, TypeOK
      <4>3. ASSUME NEW u \in Workers \ {w}, Busy(u)'
            PROVE  /\ job'[u] \in FrameJobs' \ todo'
                   /\ col'[u] < frame.cols'
                   /\ pc'[u] \in {"vert", "write"} <=> job'[u].dir = 0
        BY <4>3, <4>1, <2>6, <1>2 DEF IInv, JobInv
      <4>4. /\ job'[w] \in FrameJobs' \ todo'
            /\ col'[w] < frame.cols'
            /\ pc'[w] \in {"vert", "write"} <=> job'[w].dir = 0
        BY <4>1, <4>2, <2>1, <2>2, <2>5, <1>2
      <4>5. QED
        BY <4>3, <4>4
    <3>3. \A u, v \in Workers :
            Busy(u)' /\ Busy(v)' /\ job'[u] = job'[v] => u = v
      BY <2>5, <2>6 DEF IInv, JobInv
    <3>4. QED
      BY <3>1, <3>2, <3>3 DEF JobInv
  <2>8. CountInv'
    <3>1. \A k : Count(k)' = Count(k)
      BY DEF Count
    <3>2. Progress(w)' = 0
      BY <2>5 DEF Progress
    <3>3. \A u \in Workers \ {w} : Progress(u)' = Progress(u)
      BY <2>6 DEF Progress
    <3>4. \A u \in Workers : Busy(u)' => (Count(job[u]) = Progress(u))'
      BY <3>1, <3>2, <3>3, <2>5, <2>6 DEF IInv, CountInv
    <3>5. \A k \in FrameJobs' \ todo' :
            \/ \E u \in Workers : Busy(u)' /\ job'[u] = k
            \/ Count(k)' = frame.cols'
      <4>1. FrameJobs' = FrameJobs
        BY DEF FrameJobs, Rows
      <4>2. TAKE k \in FrameJobs' \ todo'
      <4>3. CASE k = j
        BY <4>3, <2>5
      <4>4. CASE k # j
        <5>1. k \in FrameJobs \ todo
          BY <4>1, <4>4, <1>2
        <5>2. CASE Count(k) = frame.cols
          BY <5>2, <3>1
        <5>3. CASE \E u \in Workers : Busy(u) /\ job[u] = k
          BY <5>3, <2>1, <2>6
        <5>4. QED
          BY <5>1, <5>2, <5>3 DEF IInv, CountInv
      <4>5. QED
        BY <4>3, <4>4
    <3>6. QED
      BY <3>1, <3>4, <3>5, <1>2 DEF IInv, CountInv
  <2>9. CurInv'
    BY DEF IInv, CurInv, VertAhead
  <2>10. WaitInv'
    <3>1. syncRange \in {1, 2, 4, 8}
      BY <2>1 DEF IInv, MainInv, RowsAllocated, TypeOK
    <3>2. 0 % syncRange = 0
      BY <3>1, GroupStart
    <3>3. QED
      BY <3>2, <2>5, <2>6 DEF IInv, WaitInv, VertAhead, Group
  <2>11. QED
    BY <2>3, <2>4, <2>7, <2>8, <2>9, <2>10 DEF IInv
<1>3. QED
  BY <1>1, <1>2

-----------------------------------------------------------------------------
Reading == {"readAbove", "waitAbove", "readOwn", "waitOwn", "horz"}

\* Steps of workers that read: only the waiting is affected.
LEMMA ReadingIInv ==
  ASSUME IInv, UNCHANGED <<syncVars, cur, todo, job, col, mainVars, done>>,
         pc' \in [Workers -> Places],
         \A u \in Workers : \/ pc'[u] = pc[u]
                            \/ pc[u] \in Reading /\ pc'[u] \in Reading
  PROVE  /\ TypeOK' /\ MainInv' /\ JobInv' /\ CountInv' /\ CurInv'
         /\ \A u \in Workers : Busy(u)' <=> Busy(u)
<1> USE DEF Reading
<1>1. TypeOK'
  BY DEF IInv, TypeOK, Jobs, RowIds
<1>2. MainInv'
  BY DEF IInv, MainInv, RowsAllocated
<1>3. \A u \in Workers : /\ Busy(u)' <=> Busy(u)
                         /\ Progress(u)' = Progress(u)
                         /\ pc'[u] \in {"vert", "write"} <=>
                              pc[u] \in {"vert", "write"}
  BY DEF Busy, Progress
<1>4. JobInv'
  BY <1>3 DEF IInv, JobInv, FrameJobs, Rows
<1>5. CountInv'
  BY <1>3 DEF IInv, CountInv, FrameJobs, Rows, Count
<1>6. CurInv'
  BY DEF IInv, CurInv, VertAhead
<1>7. QED
  BY <1>1, <1>2, <1>3, <1>4, <1>5, <1>6

\* Progress that has reached a column's group shows that the vertical
\* filtering the group needs is done.
LEMMA PassedIsAhead ==
  ASSUME IInv, syncRange \in {1, 2, 4, 8},
         NEW p \in Planes, NEW r \in RowIds, NEW c \in Nat,
         c % syncRange = 0, ~(c > cur[p][r] - syncRange)
  PROVE  VertAhead(p, r, Group(c))
<1>1. /\ cur[p][r] \in Int /\ vertDone[p][r] \in Nat
      /\ VertAhead(p, r, cur[p][r] + 1)
  BY LfAssumption DEF IInv, TypeOK, CurInv
<1>2. Group(c) = c + syncRange + 1
  BY GroupReach
<1>3. QED
  BY <1>1, <1>2 DEF VertAhead

\* sync_read(r, c).
LEMMA ReadAboveIInv ==
  ASSUME IInv, NEW w \in Workers, ReadAbove(w)
  PROVE  IInv'
<1> USE DEF ReadAbove
<1>1. Busy(w)
  BY DEF Busy
<1>2. /\ pc' \in [Workers -> Places]
      /\ \A u \in Workers \ {w} : pc'[u] = pc[u]
      /\ pc'[w] \in {"waitAbove", "readOwn"}
  BY DEF IInv, TypeOK
<1>3. /\ TypeOK' /\ MainInv' /\ JobInv' /\ CountInv' /\ CurInv'
      /\ \A u \in Workers : Busy(u)' <=> Busy(u)
  BY <1>2, ReadingIInv DEF Reading
<1>4. ASSUME pc'[w] = "readOwn", job[w].row # 0
      PROVE  VertAhead(job[w].plane, job[w].row - 1, Group(col[w]))
  <2>1. CASE col[w] % syncRange # 0
    BY <2>1, <1>1, <1>4, BusyFacts DEF IInv, WaitInv, JobInv
  <2>2. CASE col[w] % syncRange = 0
    <3>1. ~Blocked(job[w].plane, job[w].row, col[w])
      BY <2>2, <1>4 DEF IInv, TypeOK
    <3>2. job[w].row - 1 \in RowIds
      BY <1>1, <1>4, BusyFacts, LfAssumption DEF RowIds
    <3>3. QED
      BY <3>1, <3>2, <2>2, <1>1, BusyFacts, PassedIsAhead DEF Blocked
  <2>3. QED
    BY <2>1, <2>2
<1>5. WaitInv'
  BY <1>2, <1>3, <1>4 DEF IInv, WaitInv, VertAhead, Group
<1>6. QED
  BY <1>3, <1>5 DEF IInv

\* sync_read(r + 1, c).
LEMMA ReadOwnIInv ==
  ASSUME IInv, NEW w \in Workers, ReadOwn(w)
  PROVE  IInv'
<1> USE DEF ReadOwn
<1>1. Busy(w) /\ job[w].dir = 1
  BY DEF Busy, IInv, JobInv, FrameJobs
<1>2. /\ pc' \in [Workers -> Places]
      /\ \A u \in Workers \ {w} : pc'[u] = pc[u]
      /\ pc'[w] \in {"waitOwn", "horz"}
  BY DEF IInv, TypeOK
<1>3. /\ TypeOK' /\ MainInv' /\ JobInv' /\ CountInv' /\ CurInv'
      /\ \A u \in Workers : Busy(u)' <=> Busy(u)
  BY <1>2, ReadingIInv DEF Reading
<1>4. ASSUME pc'[w] = "horz"
      PROVE  VertAhead(job[w].plane, job[w].row, Group(col[w]))
  <2>1. CASE col[w] % syncRange # 0
    BY <2>1, <1>1 DEF IInv, WaitInv
  <2>2. CASE col[w] % syncRange = 0
    <3>1. ~Blocked(job[w].plane, job[w].row + 1, col[w])
      BY <2>2, <1>4 DEF IInv, TypeOK
    <3>2. (job[w].row + 1) - 1 = job[w].row
      BY <1>1, BusyFacts
    <3>3. QED
      BY <3>1, <3>2, <2>2, <1>1, BusyFacts, PassedIsAhead DEF Blocked
  <2>3. QED
    BY <2>1, <2>2
<1>5. job[w].row # 0 => VertAhead(job[w].plane, job[w].row - 1, Group(col[w]))
  BY <1>1 DEF IInv, WaitInv
<1>6. WaitInv'
  BY <1>2, <1>3, <1>4, <1>5 DEF IInv, WaitInv, VertAhead, Group
<1>7. QED
  BY <1>3, <1>6 DEF IInv

\* A wakeup without a broadcast.
LEMMA SpuriousIInv ==
  ASSUME IInv, NEW w \in Workers, Spurious(w)
  PROVE  IInv'
<1> USE DEF Spurious
<1>1. /\ pc' \in [Workers -> Places]
      /\ \A u \in Workers \ {w} : pc'[u] = pc[u]
      /\ \/ pc[w] = "waitAbove" /\ pc'[w] = "readAbove"
         \/ pc[w] = "waitOwn" /\ pc'[w] = "readOwn"
  BY DEF IInv, TypeOK
<1>2. /\ TypeOK' /\ MainInv' /\ JobInv' /\ CountInv' /\ CurInv'
      /\ \A u \in Workers : Busy(u)' <=> Busy(u)
  BY <1>1, ReadingIInv DEF Reading
<1>3. WaitInv'
  BY <1>1, <1>2 DEF IInv, WaitInv, VertAhead, Group
<1>4. QED
  BY <1>2, <1>3 DEF IInv

-----------------------------------------------------------------------------
\* The vertical filter of one superblock.
LEMMA VertIInv ==
  ASSUME IInv, NEW w \in Workers, Vert(w)
  PROVE  IInv'
<1> USE DEF Vert
<1> DEFINE P == job[w].plane
           R == job[w].row
<1>1. Busy(w) /\ job[w].dir = 0 /\ pc[w] = "vert"
  BY DEF Busy, IInv, JobInv
<1>2. P \in Planes /\ R \in RowIds /\ col[w] \in Nat /\ col[w] < frame.cols
      /\ frame.cols \in 1..MaxCols /\ job[w] \in FrameJobs \ todo
  BY <1>1, BusyFacts
<1>3. vertDone[P][R] = col[w]
  BY <1>1 DEF IInv, CountInv, Count, Progress
<1>4. /\ \A p \in Planes, r \in RowIds :
           vertDone'[p][r] = IF p = P /\ r = R THEN col[w] + 1
                                              ELSE vertDone[p][r]
      /\ vertDone' \in [Planes -> [RowIds -> 0..MaxCols]]
  <2>1. vertDone' = [vertDone EXCEPT ![P] =
                       [vertDone[P] EXCEPT ![R] = vertDone[P][R] + 1]]
    OBVIOUS
  <2>2. vertDone \in [Planes -> [RowIds -> 0..MaxCols]]
    BY DEF IInv, TypeOK
  <2>3. col[w] + 1 \in 0..MaxCols
    BY <1>2, LfAssumption
  <2>4. [vertDone[P] EXCEPT ![R] = vertDone[P][R] + 1]
          \in [RowIds -> 0..MaxCols]
    BY <2>2, <2>3, <1>2, <1>3
  <2>5. QED
    BY <2>1, <2>2, <2>4, <1>2, <1>3
<1>5. /\ pc' \in [Workers -> Places] /\ pc'[w] = "write"
      /\ \A u \in Workers \ {w} : pc'[u] = pc[u]
  BY DEF IInv, TypeOK
<1>6. \A u \in Workers : Busy(u)' <=> Busy(u)
  BY <1>1, <1>5 DEF Busy
<1>7. TypeOK'
  BY <1>4, <1>5 DEF IInv, TypeOK, Jobs, RowIds
<1>8. MainInv'
  BY <1>1, <1>5, BusyFacts DEF IInv, MainInv, RowsAllocated, Busy
<1>9. JobInv'
  BY <1>1, <1>5, <1>6 DEF IInv, JobInv, FrameJobs, Rows
<1>10. \A k \in FrameJobs : k # job[w] => Count(k)' = Count(k)
  <2>1. ASSUME NEW k \in FrameJobs, k # job[w], k.dir = 0
        PROVE  Count(k)' = Count(k)
    <3>1. k.plane # P \/ k.row # R
      BY <2>1, <1>1, <1>2, JobFields
    <3>2. k.plane \in Planes /\ k.row \in RowIds
      BY JobDomain
    <3>3. QED
      BY <3>1, <3>2, <2>1, <1>4 DEF Count
  <2>2. QED
    BY <2>1 DEF Count
<1>11. Count(job[w])' = col[w] + 1
  BY <1>1, <1>2, <1>4 DEF Count
<1>12. CountInv'
  <2>1. FrameJobs' = FrameJobs
    BY DEF FrameJobs, Rows
  <2>2. \A p \in Planes, r \in RowIds :
          vertDone'[p][r] <= frame.cols' /\ horzDone'[p][r] <= frame.cols'
    BY <1>2, <1>4 DEF IInv, CountInv
  <2>3. \A j \in todo' : Count(j)' = 0
    BY <1>2, <1>10 DEF IInv, CountInv, JobInv
  <2>4. \A u \in Workers : Busy(u)' => Count(job[u])' = Progress(u)'
    <3>1. Progress(w)' = col[w] + 1
      BY <1>5 DEF Progress
    <3>2. ASSUME NEW u \in Workers \ {w}, Busy(u)
          PROVE  Count(job[u])' = Progress(u)'
      <4>1. job[u] \in FrameJobs /\ job[u] # job[w]
        BY <3>2, <1>1 DEF IInv, JobInv
      <4>2. Progress(u)' = Progress(u)
        BY <1>5 DEF Progress
      <4>3. QED
        BY <4>1, <4>2, <3>2, <1>10 DEF IInv, CountInv
    <3>3. QED
      BY <3>1, <3>2, <1>6, <1>11
  <2>5. \A j \in FrameJobs' \ todo' :
          \/ \E u \in Workers : Busy(u)' /\ job'[u] = j
          \/ Count(j)' = frame.cols'
    <3>1. TAKE j \in FrameJobs' \ todo'
    <3>2. CASE j = job[w]
      BY <3>2, <1>1, <1>6
    <3>3. CASE j # job[w]
      BY <3>3, <2>1, <1>6, <1>10 DEF IInv, CountInv
    <3>4. QED
      BY <3>2, <3>3
  <2>6. QED
    BY <2>2, <2>3, <2>4, <2>5 DEF CountInv
<1>13. \A p \in Planes, r \in RowIds, n \in Int :
         VertAhead(p, r, n) => VertAhead(p, r, n)'
  BY <1>2, <1>3, <1>4 DEF VertAhead, IInv, TypeOK
<1>14. CurInv'
  BY <1>13, LfAssumption DEF IInv, CurInv, TypeOK
<1>15. WaitInv'
  <2>1. ASSUME NEW u \in Workers, Busy(u)', job[u].dir = 1
        PROVE  /\ u # w /\ pc'[u] = pc[u] /\ Busy(u)
               /\ job[u].plane \in Planes /\ job[u].row \in RowIds
               /\ job[u].row # 0 => job[u].row - 1 \in RowIds
               /\ Group(col[u]) \in Int /\ Group(col[u])' = Group(col[u])
    <3>1. Busy(u) /\ u # w /\ pc'[u] = pc[u]
      BY <2>1, <1>1, <1>5, <1>6
    <3>2. /\ job[u].plane \in Planes /\ job[u].row \in RowIds
          /\ col[u] \in Nat /\ syncRange \in {1, 2, 4, 8}
      BY <3>1, BusyFacts
    <3>3. job[u].row # 0 => job[u].row - 1 \in RowIds
      BY <3>2, LfAssumption DEF RowIds
    <3>4. Group(col[u]) \in Int /\ Group(col[u])' = Group(col[u])
      BY <3>2, GroupReach DEF Group
    <3>5. QED
      BY <3>1, <3>2, <3>3, <3>4
  <2>2. QED
    BY <2>1, <1>13 DEF IInv, WaitInv
<1>16. QED
  BY <1>7, <1>8, <1>9, <1>12, <1>14, <1>15 DEF IInv

-----------------------------------------------------------------------------
\* The horizontal filter of one superblock, and on to the next.
LEMMA HorzIInv ==
  ASSUME IInv, NEW w \in Workers, Horz(w)
  PROVE  IInv'
<1> USE DEF Horz, NextCol
<1> DEFINE P == job[w].plane
           R == job[w].row
<1>1. Busy(w) /\ job[w].dir = 1 /\ pc[w] = "horz"
  BY BusyFacts DEF Busy, IInv, JobInv
<1>2. P \in Planes /\ R \in RowIds /\ R \in Nat
      /\ col[w] \in Nat /\ col[w] < frame.cols
      /\ frame.cols \in 1..MaxCols /\ job[w] \in FrameJobs \ todo
      /\ syncRange \in {1, 2, 4, 8}
  BY <1>1, BusyFacts
<1>3. horzDone[P][R] = col[w]
  BY <1>1 DEF IInv, CountInv, Count, Progress
<1>4. /\ \A p \in Planes, r \in RowIds :
           horzDone'[p][r] = IF p = P /\ r = R THEN col[w] + 1
                                              ELSE horzDone[p][r]
      /\ horzDone' \in [Planes -> [RowIds -> 0..MaxCols]]
  <2>1. horzDone' = [horzDone EXCEPT ![P] =
                       [horzDone[P] EXCEPT ![R] = horzDone[P][R] + 1]]
    OBVIOUS
  <2>2. horzDone \in [Planes -> [RowIds -> 0..MaxCols]]
    BY DEF IInv, TypeOK
  <2>3. col[w] + 1 \in 0..MaxCols
    BY <1>2, LfAssumption
  <2>4. [horzDone[P] EXCEPT ![R] = horzDone[P][R] + 1]
          \in [RowIds -> 0..MaxCols]
    BY <2>2, <2>3, <1>2, <1>3
  <2>5. QED
    BY <2>1, <2>2, <2>4, <1>2, <1>3
<1>5. /\ pc' \in [Workers -> Places] /\ col' \in [Workers -> 0..MaxCols]
      /\ \A u \in Workers \ {w} : pc'[u] = pc[u] /\ col'[u] = col[u]
      /\ \/ col[w] + 1 < frame.cols /\ pc'[w] = "readAbove" /\ col'[w] = col[w] + 1
         \/ col[w] + 1 = frame.cols /\ pc'[w] = "take"
  <2>1. pc \in [Workers -> Places] /\ col \in [Workers -> 0..MaxCols]
    BY DEF IInv, TypeOK
  <2>2. CASE col[w] + 1 < frame.cols
    <3>1. col[w] + 1 \in 0..MaxCols
      BY <2>2, <1>2, LfAssumption
    <3>2. /\ pc' = [pc EXCEPT ![w] = "readAbove"]
          /\ col' = [col EXCEPT ![w] = col[w] + 1]
      BY <2>2
    <3>3. QED
      BY <2>1, <2>2, <3>1, <3>2
  <2>3. CASE ~(col[w] + 1 < frame.cols)
    <3>1. pc' = [pc EXCEPT ![w] = "take"] /\ col' = col
      BY <2>3
    <3>2. col[w] + 1 = frame.cols
      BY <2>3, <1>2, LfAssumption
    <3>3. QED
      BY <2>1, <3>1, <3>2
  <2>4. QED
    BY <2>2, <2>3
<1>6. /\ \A u \in Workers \ {w} : Busy(u)' <=> Busy(u)
      /\ Busy(w)' <=> pc'[w] = "readAbove"
  BY <1>5 DEF Busy
<1>7. TypeOK'
  BY <1>4, <1>5 DEF IInv, TypeOK, Jobs, RowIds
<1>8. MainInv'
  <2>1. mainPc = "run" /\ \A u \in Workers : pc'[u] = "done" => pc[u] = "done"
    BY <1>1, <1>5, BusyFacts
  <2>2. \A u \in Workers : pc[u] = "idle" => pc'[u] = "idle"
    BY <1>1, <1>5
  <2>3. QED
    BY <2>1, <2>2 DEF IInv, MainInv, RowsAllocated
<1>9. JobInv'
  <2>1. FrameJobs' = FrameJobs
    BY DEF FrameJobs, Rows
  <2>2. \A u \in Workers : Busy(u)' => Busy(u)
    BY <1>1, <1>6
  <2>3. \A u \in Workers : Busy(u)' =>
          /\ job'[u] \in FrameJobs' \ todo'
          /\ col'[u] < frame.cols'
          /\ pc'[u] \in {"vert", "write"} <=> job'[u].dir = 0
    BY <2>1, <2>2, <1>1, <1>5, <1>6 DEF IInv, JobInv
  <2>4. QED
    BY <2>1, <2>2, <2>3 DEF IInv, JobInv
<1>10. \A k \in FrameJobs : k # job[w] => Count(k)' = Count(k)
  <2>1. ASSUME NEW k \in FrameJobs, k # job[w], k.dir # 0
        PROVE  Count(k)' = Count(k)
    <3>1. k.plane \in Planes /\ k.row \in RowIds /\ k.dir = 1
      BY <2>1, JobDomain
    <3>2. k.plane # P \/ k.row # R
      BY <2>1, <3>1, <1>1, <1>2, JobFields
    <3>3. QED
      BY <3>1, <3>2, <2>1, <1>4 DEF Count
  <2>2. QED
    BY <2>1 DEF Count
<1>11. Count(job[w])' = col[w] + 1
  BY <1>1, <1>2, <1>4 DEF Count
<1>12. CountInv'
  <2>1. FrameJobs' = FrameJobs
    BY DEF FrameJobs, Rows
  <2>2. \A p \in Planes, r \in RowIds :
          vertDone'[p][r] <= frame.cols' /\ horzDone'[p][r] <= frame.cols'
    BY <1>2, <1>4 DEF IInv, CountInv
  <2>3. \A j \in todo' : Count(j)' = 0
    BY <1>2, <1>10 DEF IInv, CountInv, JobInv
  <2>4. \A u \in Workers : Busy(u)' => Count(job[u])' = Progress(u)'
    <3>1. Busy(w)' => Progress(w)' = col[w] + 1
      BY <1>5, <1>6 DEF Progress
    <3>2. ASSUME NEW u \in Workers \ {w}, Busy(u)
          PROVE  Count(job[u])' = Progress(u)'
      <4>1. job[u] \in FrameJobs /\ job[u] # job[w]
        BY <3>2, <1>1 DEF IInv, JobInv
      <4>2. Progress(u)' = Progress(u)
        BY <1>5 DEF Progress
      <4>3. QED
        BY <4>1, <4>2, <3>2, <1>10 DEF IInv, CountInv
    <3>3. QED
      BY <3>1, <3>2, <1>6, <1>11
  <2>5. \A j \in FrameJobs' \ todo' :
          \/ \E u \in Workers : Busy(u)' /\ job'[u] = j
          \/ Count(j)' = frame.cols'
    <3>1. TAKE j \in FrameJobs' \ todo'
    <3>2. CASE j = job[w]
      BY <3>2, <1>5, <1>6, <1>11
    <3>3. CASE j # job[w]
      BY <3>3, <2>1, <1>6, <1>10 DEF IInv, CountInv
    <3>4. QED
      BY <3>2, <3>3
  <2>6. QED
    BY <2>2, <2>3, <2>4, <2>5 DEF CountInv
<1>13. CurInv'
  BY DEF IInv, CurInv, VertAhead
<1>14. WaitInv'
  <2>1. ASSUME NEW u \in Workers \ {w}
        PROVE  /\ pc'[u] = pc[u] /\ col'[u] = col[u]
               /\ Group(col[u])' = Group(col[u])
    BY <1>5 DEF Group
  <2>2. ASSUME pc'[w] = "readAbove", col'[w] % syncRange # 0
        PROVE  Group(col[w])' = Group(col[w]) /\ col'[w] = col[w] + 1
    <3>1. col'[w] = col[w] + 1
      BY <1>5, <2>2
    <3>2. QED
      BY <3>1, <1>2, <2>2, GroupSame DEF Group
  <2>3. /\ R # 0 => VertAhead(P, R - 1, Group(col[w]))
        /\ VertAhead(P, R, Group(col[w]))
    BY <1>1 DEF IInv, WaitInv
  <2>4. ASSUME NEW u \in Workers, Busy(u)', job[u].dir = 1
        PROVE  /\ /\ job[u].row # 0
                  /\ \/ col'[u] % syncRange # 0
                     \/ pc'[u] \in {"readOwn", "waitOwn", "horz"}
                  => VertAhead(job[u].plane, job[u].row - 1, Group(col[u])')
               /\ (col'[u] % syncRange # 0 \/ pc'[u] = "horz")
                  => VertAhead(job[u].plane, job[u].row, Group(col[u])')
    <3>1. CASE u = w
      <4>1. pc'[w] = "readAbove"
        BY <3>1, <2>4, <1>6
      <4>2. QED
        BY <3>1, <4>1, <2>2, <2>3
    <3>2. CASE u # w
      <4>1. /\ pc'[u] = pc[u] /\ col'[u] = col[u] /\ Busy(u)
            /\ Group(col[u])' = Group(col[u])
        <5>1. /\ pc'[u] = pc[u] /\ col'[u] = col[u]
              /\ Group(col[u])' = Group(col[u])
          BY <3>2, <2>1
        <5>2. Busy(u)
          BY <2>4, <5>1 DEF Busy
        <5>3. QED
          BY <5>1, <5>2
      <4>2. /\ (/\ job[u].row # 0
                /\ \/ col[u] % syncRange # 0
                   \/ pc[u] \in {"readOwn", "waitOwn", "horz"})
               => VertAhead(job[u].plane, job[u].row - 1, Group(col[u]))
            /\ (col[u] % syncRange # 0 \/ pc[u] = "horz")
               => VertAhead(job[u].plane, job[u].row, Group(col[u]))
        BY <4>1, <2>4 DEF IInv, WaitInv
      <4>3. QED
        BY <4>1, <4>2
    <3>3. QED
      BY <3>1, <3>2
  <2>5. QED
    BY <2>4 DEF WaitInv, VertAhead
<1>15. QED
  BY <1>7, <1>8, <1>9, <1>12, <1>13, <1>14 DEF IInv

-----------------------------------------------------------------------------
\* sync_write(): progress is published, and waiting workers are woken.
LEMMA WriteIInv ==
  ASSUME IInv, NEW w \in Workers, Write(w)
  PROVE  IInv'
<1> USE DEF Write
<1> DEFINE P == job[w].plane
           R == job[w].row
           next == IF col[w] + 1 < frame.cols THEN "vert" ELSE "take"
<1>1. Busy(w) /\ job[w].dir = 0 /\ pc[w] = "write"
  BY DEF Busy, IInv, JobInv
<1>2. P \in Planes /\ R \in RowIds
      /\ col[w] \in Nat /\ col[w] < frame.cols
      /\ frame.cols \in 1..MaxCols /\ job[w] \in FrameJobs \ todo
      /\ syncRange \in {1, 2, 4, 8}
  BY <1>1, BusyFacts
<1>3. vertDone[P][R] = col[w] + 1
  BY <1>1 DEF IInv, CountInv, Count, Progress
<1>4. /\ pc'[w] = next
      /\ \A u \in Workers \ {w} :
           \/ pc'[u] = pc[u]
           \/ pc[u] = "waitAbove" /\ pc'[u] = "readAbove"
           \/ pc[u] = "waitOwn" /\ pc'[u] = "readOwn"
  BY DEF Woken
<1>5. pc' \in [Workers -> Places]
  <2>1. pc' = [u \in Workers |-> pc'[u]]
    OBVIOUS
  <2>2. \A u \in Workers : pc'[u] \in Places
    BY <1>4 DEF IInv, TypeOK
  <2>3. QED
    BY <2>1, <2>2
<1>6. /\ col' \in [Workers -> 0..MaxCols]
      /\ \A u \in Workers \ {w} : col'[u] = col[u]
      /\ \/ col[w] + 1 < frame.cols /\ pc'[w] = "vert" /\ col'[w] = col[w] + 1
         \/ col[w] + 1 = frame.cols /\ pc'[w] = "take"
  <2>1. col \in [Workers -> 0..MaxCols]
    BY DEF IInv, TypeOK
  <2>2. CASE col[w] + 1 < frame.cols
    <3>1. col[w] + 1 \in 0..MaxCols
      BY <2>2, <1>2, LfAssumption
    <3>2. pc'[w] = "vert" /\ col' = [col EXCEPT ![w] = col[w] + 1]
      BY <2>2, <1>4
    <3>3. QED
      BY <2>1, <2>2, <3>1, <3>2
  <2>3. CASE ~(col[w] + 1 < frame.cols)
    <3>1. pc'[w] = "take" /\ col' = col
      BY <2>3, <1>4
    <3>2. col[w] + 1 = frame.cols
      BY <2>3, <1>2, LfAssumption
    <3>3. QED
      BY <2>1, <3>1, <3>2
  <2>4. QED
    BY <2>2, <2>3
<1>7. /\ \A u \in Workers \ {w} : Busy(u)' <=> Busy(u)
      /\ Busy(w)' <=> pc'[w] = "vert"
  BY <1>4, <1>6 DEF Busy
<1>8. /\ cur' \in [Planes -> [RowIds -> Int]]
      /\ \A p \in Planes, r \in RowIds :
           \/ cur'[p][r] = cur[p][r]
           \/ p = P /\ r = R /\ cur'[p][r] = CurAfter(col[w])
  <2>1. cur \in [Planes -> [RowIds -> Int]] /\ CurAfter(col[w]) \in Int
    BY <1>2, LfAssumption DEF IInv, TypeOK, CurAfter
  <2>2. CASE cur' = cur
    BY <2>1, <2>2
  <2>3. CASE cur' = [cur EXCEPT ![P][R] = CurAfter(col[w])]
    <3>1. cur' = [cur EXCEPT ![P] = [cur[P] EXCEPT ![R] = CurAfter(col[w])]]
      BY <2>3
    <3>2. [cur[P] EXCEPT ![R] = CurAfter(col[w])] \in [RowIds -> Int]
      BY <2>1, <1>2
    <3>3. QED
      BY <2>1, <3>1, <3>2, <1>2
  <2>4. QED
    BY <2>2, <2>3
<1>9. TypeOK'
  BY <1>5, <1>6, <1>8 DEF IInv, TypeOK, Jobs, RowIds
<1>10. MainInv'
  <2>1. mainPc = "run" /\ \A u \in Workers : pc'[u] = "done" => pc[u] = "done"
    BY <1>1, <1>4, BusyFacts
  <2>2. \A u \in Workers : pc[u] = "idle" => pc'[u] = "idle"
    BY <1>1, <1>4
  <2>3. QED
    BY <2>1, <2>2 DEF IInv, MainInv, RowsAllocated
<1>11. JobInv'
  <2>1. FrameJobs' = FrameJobs
    BY DEF FrameJobs, Rows
  <2>2. \A u \in Workers : Busy(u)' => Busy(u)
    BY <1>1, <1>7
  <2>3. \A u \in Workers \ {w} :
          pc'[u] \in {"vert", "write"} <=> pc[u] \in {"vert", "write"}
    BY <1>4
  <2>4. \A u \in Workers : Busy(u)' =>
          /\ job'[u] \in FrameJobs' \ todo'
          /\ col'[u] < frame.cols'
          /\ pc'[u] \in {"vert", "write"} <=> job'[u].dir = 0
    BY <2>1, <2>2, <2>3, <1>1, <1>6, <1>7 DEF IInv, JobInv
  <2>5. QED
    BY <2>1, <2>2, <2>4 DEF IInv, JobInv
<1>12. CountInv'
  <2>1. FrameJobs' = FrameJobs /\ \A k : Count(k)' = Count(k)
    BY DEF FrameJobs, Rows, Count
  <2>2. Count(job[w]) = col[w] + 1
    BY <1>1 DEF IInv, CountInv, Progress
  <2>3. \A u \in Workers : Busy(u)' => Count(job[u])' = Progress(u)'
    <3>1. Busy(w)' => Progress(w)' = col[w] + 1
      BY <1>6, <1>7 DEF Progress
    <3>2. \A u \in Workers \ {w} : Progress(u)' = Progress(u)
      BY <1>4, <1>6 DEF Progress
    <3>3. QED
      BY <3>1, <3>2, <2>1, <2>2, <1>7 DEF IInv, CountInv
  <2>4. \A j \in FrameJobs' \ todo' :
          \/ \E u \in Workers : Busy(u)' /\ job'[u] = j
          \/ Count(j)' = frame.cols'
    <3>1. TAKE j \in FrameJobs' \ todo'
    <3>2. CASE j = job[w]
      BY <3>2, <2>1, <2>2, <1>6, <1>7
    <3>3. CASE j # job[w]
      BY <3>3, <2>1, <1>7 DEF IInv, CountInv
    <3>4. QED
      BY <3>2, <3>3
  <2>5. QED
    BY <2>1, <2>3, <2>4 DEF IInv, CountInv
<1>13. CurInv'
  <2>1. CurAfter(col[w]) = col[w] \/ vertDone[P][R] = frame.cols
    BY <1>2, <1>3, LfAssumption DEF CurAfter
  <2>2. QED
    BY <2>1, <1>2, <1>3, <1>8 DEF IInv, CurInv, VertAhead
<1>14. WaitInv'
  <2>1. ASSUME NEW u \in Workers, Busy(u)', job[u].dir = 1
        PROVE  /\ (/\ job[u].row # 0
                   /\ \/ col'[u] % syncRange # 0
                      \/ pc'[u] \in {"readOwn", "waitOwn", "horz"})
                  => VertAhead(job[u].plane, job[u].row - 1, Group(col[u])')
               /\ (col'[u] % syncRange # 0 \/ pc'[u] = "horz")
                  => VertAhead(job[u].plane, job[u].row, Group(col[u])')
    <3>1. u # w /\ Busy(u) /\ col'[u] = col[u]
      BY <2>1, <1>1, <1>6, <1>7
    <3>2. Group(col[u])' = Group(col[u])
      BY <3>1 DEF Group
    <3>3. /\ pc'[u] \in {"readOwn", "waitOwn", "horz"} =>
               pc[u] \in {"readOwn", "waitOwn", "horz"}
          /\ pc'[u] = "horz" => pc[u] = "horz"
      BY <3>1, <1>4
    <3>4. /\ (/\ job[u].row # 0
              /\ \/ col[u] % syncRange # 0
                 \/ pc[u] \in {"readOwn", "waitOwn", "horz"})
             => VertAhead(job[u].plane, job[u].row - 1, Group(col[u]))
          /\ (col[u] % syncRange # 0 \/ pc[u] = "horz")
             => VertAhead(job[u].plane, job[u].row, Group(col[u]))
      BY <3>1, <2>1 DEF IInv, WaitInv
    <3>5. QED
      BY <3>1, <3>2, <3>3, <3>4
  <2>2. QED
    BY <2>1 DEF WaitInv, VertAhead
<1>15. QED
  BY <1>9, <1>10, <1>11, <1>12, <1>13, <1>14 DEF IInv

-----------------------------------------------------------------------------
\* Every step of the caller and of the workers keeps the inductive invariant.
LEMMA StepIInv == IInv /\ [Next]_vars => IInv'
<1> SUFFICES ASSUME IInv, [Next]_vars PROVE IInv'
  OBVIOUS
<1>1. CASE NewFrame
  <2>1. CASE \E r \in 1..MaxRows : BeginFails(r)
    BY <2>1, MainIInv
  <2>2. ASSUME NEW r \in 1..MaxRows, NEW c \in 1..MaxCols, NEW start \in 0..2,
               NEW stop \in 1..3, NEW lit \in SUBSET Planes,
               Begin(r, c, PlanesOn(start, stop, lit))
        PROVE  IInv'
    <3>1. PlanesOn(start, stop, lit) \in SUBSET Planes
      BY DEF PlanesOn
    <3>2. QED
      BY <3>1, <2>2, BeginIInv
  <2>3. QED
    BY <1>1, <2>1, <2>2 DEF NewFrame
<1>2. CASE Launch \/ Finish
  BY <1>2, MainIInv
<1>3. ASSUME NEW w \in Workers, WorkerStep(w) PROVE IInv'
  BY <1>3, TakeIInv, VertIInv, WriteIInv, ReadAboveIInv, ReadOwnIInv, HorzIInv
     DEF WorkerStep
<1>4. ASSUME NEW w \in Workers, Spurious(w) PROVE IInv'
  BY <1>4, SpuriousIInv
<1>5. CASE UNCHANGED vars
  BY <1>5 DEF vars, IInv, TypeOK, MainInv, RowsAllocated, JobInv, CountInv,
     CurInv, WaitInv, VertAhead, Group, Busy, Count, Progress, FrameJobs, Rows,
     Jobs, RowIds
<1>6. QED
  BY <1>1, <1>2, <1>3, <1>4, <1>5 DEF Next

THEOREM Inductive == Spec => []IInv
BY InitIInv, StepIInv, PTL DEF Spec

\* The types of the loop filter's synchronisation data; in particular no row is
\* filtered more often than it has superblocks.
THEOREM TypeCorrect == Spec => []TypeOK
<1>1. IInv => TypeOK
  BY DEF IInv
<1>2. QED
  BY <1>1, Inductive, PTL

LEMMA OrderFollows == IInv => FilterOrder
<1>1. ASSUME IInv, NEW w \in Workers, pc[w] = "horz"
      PROVE  /\ VertAhead(job[w].plane, job[w].row, col[w] + 2)
             /\ job[w].row # 0 =>
                  VertAhead(job[w].plane, job[w].row - 1, col[w] + 2)
  <2>1. Busy(w) /\ job[w].dir = 1
    BY <1>1, BusyFacts DEF Busy, IInv, JobInv
  <2>2. /\ Group(col[w]) \in Nat /\ Group(col[w]) >= col[w] + 2
        /\ col[w] \in Nat /\ job[w].plane \in Planes /\ job[w].row \in RowIds
    BY <1>1, <2>1, BusyFacts, GroupReach
  <2>3. job[w].row # 0 => job[w].row - 1 \in RowIds
    BY <2>2, LfAssumption DEF RowIds
  <2>4. /\ VertAhead(job[w].plane, job[w].row, Group(col[w]))
        /\ job[w].row # 0 =>
             VertAhead(job[w].plane, job[w].row - 1, Group(col[w]))
    BY <1>1, <2>1 DEF IInv, WaitInv
  <2>5. \A p \in Planes, r \in RowIds : vertDone[p][r] \in Nat
    BY <1>1, LfAssumption DEF IInv, TypeOK
  <2>6. QED
    BY <2>2, <2>3, <2>4, <2>5 DEF VertAhead
<1>2. QED
  BY <1>1 DEF FilterOrder

\* Horizontal edges are never filtered before the vertical edges they depend
\* on, for any number of workers, frame size and sync_range.
THEOREM OrderKept == Spec => []FilterOrder
BY OrderFollows, Inductive, PTL

LEMMA CompleteFollows == IInv => FrameComplete
<1>1. ASSUME IInv, mainPc = "ready"
      PROVE  /\ \A w \in Workers : pc[w] = "idle"
             /\ \A p \in frame.on, r \in Rows :
                  vertDone[p][r] = frame.cols /\ horzDone[p][r] = frame.cols
  <2>1. todo = {} /\ \A w \in Workers : pc[w] = "idle" /\ ~Busy(w)
    BY <1>1 DEF IInv, MainInv, Busy
  <2>2. \A j \in FrameJobs : Count(j) = frame.cols
    BY <1>1, <2>1 DEF IInv, CountInv
  <2>3. ASSUME NEW p \in frame.on, NEW r \in Rows
        PROVE  vertDone[p][r] = frame.cols /\ horzDone[p][r] = frame.cols
    <3>1. /\ [dir |-> 0, plane |-> p, row |-> r] \in FrameJobs
          /\ [dir |-> 1, plane |-> p, row |-> r] \in FrameJobs
      BY DEF FrameJobs
    <3>2. /\ Count([dir |-> 0, plane |-> p, row |-> r]) = vertDone[p][r]
          /\ Count([dir |-> 1, plane |-> p, row |-> r]) = horzDone[p][r]
      BY DEF Count
    <3>3. QED
      BY <3>1, <3>2, <2>2
  <2>4. QED
    BY <2>1, <2>3
<1>2. QED
  BY <1>1 DEF FrameComplete

\* When the call returns the whole frame has been filtered, each superblock once
\* in each direction, and all workers have stopped.
THEOREM CompleteOnReturn == Spec => []FrameComplete
BY CompleteFollows, Inductive, PTL

\* A frame runs only on rows whose synchronisation data were allocated.
THEOREM AllocatedRows == Spec => []RowsAllocated
<1>1. IInv => RowsAllocated
  BY DEF IInv, MainInv
<1>2. QED
  BY <1>1, Inductive, PTL

-----------------------------------------------------------------------------
(* The filter implements FrameFilter, as far as safety goes.               *)

Blocks == frame.on \X Rows \X (0..frame.cols - 1)

\* One superblock more in a row is one superblock more in the set.
LEMMA OneBlockMore ==
  ASSUME NEW d, NEW e, NEW P \in frame.on, NEW R \in Rows, NEW c \in Nat,
         c < frame.cols, frame.cols \in Nat,
         \A p \in frame.on, r \in Rows : d[p][r] \in Nat,
         d[P][R] = c, e[P][R] = c + 1,
         \A p \in frame.on, r \in Rows : p # P \/ r # R => e[p][r] = d[p][r]
  PROVE  /\ <<P, R, c>> \in Blocks \ FilteredBlocks(d)
         /\ FilteredBlocks(e) = FilteredBlocks(d) \cup {<<P, R, c>>}
<1>1. <<P, R, c>> \in Blocks
  BY DEF Blocks
<1>2. <<P, R, c>> \notin FilteredBlocks(d)
  BY DEF FilteredBlocks
<1>3. ASSUME NEW p \in frame.on, NEW r \in Rows, NEW k \in 0..frame.cols - 1
      PROVE  k < e[p][r] <=> k < d[p][r] \/ <<p, r, k>> = <<P, R, c>>
  <2>1. CASE p = P /\ r = R
    BY <2>1
  <2>2. CASE p # P \/ r # R
    BY <2>2
  <2>3. QED
    BY <2>1, <2>2
<1>4. ASSUME NEW b \in Blocks
      PROVE  b[3] < e[b[1]][b[2]] <=> b[3] < d[b[1]][b[2]] \/ b = <<P, R, c>>
  <2>1. PICK p \in frame.on, r \in Rows, k \in 0..frame.cols - 1 : b = <<p, r, k>>
    BY DEF Blocks
  <2>2. QED
    BY <1>3, <2>1
<1>5. QED
  BY <1>1, <1>2, <1>4 DEF FilteredBlocks, Blocks

\* The sets of the superblocks filtered depend on the counts and the frame only.
LEMMA SameBlocks ==
  ASSUME frame' = frame, vertDone' = vertDone, horzDone' = horzDone
  PROVE  /\ Blocks' = Blocks
         /\ FilteredBlocks(vertDone)' = FilteredBlocks(vertDone)
         /\ FilteredBlocks(horzDone)' = FilteredBlocks(horzDone)
BY DEF Blocks, FilteredBlocks, Rows

\* A row that is filtered that far has the superblock behind it.
LEMMA AheadHas ==
  ASSUME NEW p \in frame.on, NEW r \in Rows, NEW n \in Nat,
         NEW k \in 0..frame.cols - 1, k < n, frame.cols \in Nat,
         vertDone[p][r] \in Nat, VertAhead(p, r, n)
  PROVE  <<p, r, k>> \in FilteredBlocks(vertDone)
<1>1. k < vertDone[p][r]
  BY DEF VertAhead
<1>2. QED
  BY <1>1 DEF FilteredBlocks

\* What is known of the counts of the frame's rows.
LEMMA FrameCounts ==
  ASSUME IInv
  PROVE  /\ frame.cols \in Nat /\ frame.on \subseteq Planes /\ Rows \subseteq RowIds
         /\ Rows \subseteq Nat
         /\ \A p \in Planes, r \in RowIds :
              vertDone[p][r] \in Nat /\ horzDone[p][r] \in Nat
<1>1. frame.rows \in 1..MaxRows /\ frame.cols \in 1..MaxCols /\ frame.on \subseteq Planes
  BY DEF IInv, TypeOK
<1>2. Rows \subseteq RowIds /\ Rows \subseteq Nat /\ frame.cols \in Nat
  BY <1>1, LfAssumption DEF Rows, RowIds
<1>3. \A p \in Planes, r \in RowIds :
        vertDone[p][r] \in Nat /\ horzDone[p][r] \in Nat
  BY LfAssumption DEF IInv, TypeOK
<1>4. QED
  BY <1>1, <1>2, <1>3

LEMMA VertRefines ==
  ASSUME IInv, NEW w \in Workers, Vert(w) PROVE Abstract!FilterVert
<1> DEFINE P == job[w].plane
           R == job[w].row
<1>1. Busy(w) /\ job[w].dir = 0 /\ pc[w] = "vert"
  BY DEF Vert, Busy, IInv, JobInv
<1>2. /\ P \in frame.on /\ R \in Rows /\ P \in Planes /\ R \in RowIds
      /\ col[w] \in Nat /\ col[w] < frame.cols /\ mainPc = "run"
  BY <1>1, BusyFacts
<1>3. vertDone[P][R] = col[w]
  BY <1>1 DEF IInv, CountInv, Count, Progress
<1>4. /\ vertDone' = [vertDone EXCEPT ![P][R] = @ + 1]
      /\ UNCHANGED <<mainPc, frame, horzDone>>
  BY DEF Vert
<1>5. vertDone \in [Planes -> [RowIds -> 0..MaxCols]]
  BY DEF IInv, TypeOK
<1>6. /\ vertDone'[P][R] = col[w] + 1
      /\ \A p \in Planes, r \in RowIds :
           p # P \/ r # R => vertDone'[p][r] = vertDone[p][r]
  BY <1>2, <1>3, <1>4, <1>5
<1>7. /\ <<P, R, col[w]>> \in Blocks \ FilteredBlocks(vertDone)
      /\ FilteredBlocks(vertDone') = FilteredBlocks(vertDone) \cup {<<P, R, col[w]>>}
  <2>1. \A p \in frame.on, r \in Rows : vertDone[p][r] \in Nat
    BY FrameCounts
  <2>2. \A p \in frame.on, r \in Rows :
          p # P \/ r # R => vertDone'[p][r] = vertDone[p][r]
    BY <1>6, FrameCounts
  <2>3. frame.cols \in Nat
    BY FrameCounts
  <2>4. QED
    BY <1>2, <1>3, <1>6, <2>1, <2>2, <2>3, OneBlockMore
<1>8. /\ Blocks' = Blocks
      /\ FilteredBlocks(horzDone)' = FilteredBlocks(horzDone)
      /\ FilteredBlocks(vertDone)' = FilteredBlocks(vertDone')
  BY <1>4 DEF Blocks, FilteredBlocks, Rows
<1>9. QED
  BY <1>2, <1>4, <1>7, <1>8 DEF Abstract!FilterVert, Blocks

LEMMA HorzRefines ==
  ASSUME IInv, NEW w \in Workers, Horz(w) PROVE Abstract!FilterHorz
<1> DEFINE P == job[w].plane
           R == job[w].row
           b == <<P, R, col[w]>>
<1>1. Busy(w) /\ job[w].dir = 1 /\ pc[w] = "horz"
  BY BusyFacts DEF Horz, Busy, IInv, JobInv
<1>2. /\ P \in frame.on /\ R \in Rows /\ P \in Planes /\ R \in RowIds /\ R \in Nat
      /\ col[w] \in Nat /\ col[w] < frame.cols /\ mainPc = "run"
  BY <1>1, BusyFacts
<1>3. horzDone[P][R] = col[w]
  BY <1>1 DEF IInv, CountInv, Count, Progress
<1>4. /\ horzDone' = [horzDone EXCEPT ![P][R] = @ + 1]
      /\ UNCHANGED <<mainPc, frame, vertDone>>
  BY DEF Horz
<1>5. horzDone \in [Planes -> [RowIds -> 0..MaxCols]]
  BY DEF IInv, TypeOK
<1>6. /\ horzDone'[P][R] = col[w] + 1
      /\ \A p \in Planes, r \in RowIds :
           p # P \/ r # R => horzDone'[p][r] = horzDone[p][r]
  BY <1>2, <1>3, <1>4, <1>5
<1>7. /\ b \in Blocks \ FilteredBlocks(horzDone)
      /\ FilteredBlocks(horzDone') = FilteredBlocks(horzDone) \cup {b}
  <2>1. \A p \in frame.on, r \in Rows : horzDone[p][r] \in Nat
    BY FrameCounts
  <2>2. \A p \in frame.on, r \in Rows :
          p # P \/ r # R => horzDone'[p][r] = horzDone[p][r]
    BY <1>6, FrameCounts
  <2>3. frame.cols \in Nat
    BY FrameCounts
  <2>4. QED
    BY <1>2, <1>3, <1>6, <2>1, <2>2, <2>3, OneBlockMore
<1>8. Abstract!Needs(b) \cap Blocks \subseteq FilteredBlocks(vertDone)
  <2>1. SUFFICES ASSUME NEW x \in Abstract!Needs(b), x \in Blocks
                 PROVE  x \in FilteredBlocks(vertDone)
    OBVIOUS
  <2>2. PICK r \in {R - 1, R}, k \in {col[w], col[w] + 1} : x = <<P, r, k>>
    BY DEF Abstract!Needs
  <2>3. r \in Rows /\ k \in 0..frame.cols - 1
    BY <2>1, <2>2 DEF Blocks
  <2>4. VertAhead(P, R, col[w] + 2) /\ (R # 0 => VertAhead(P, R - 1, col[w] + 2))
    BY <1>1, OrderFollows DEF FilterOrder
  <2>5. VertAhead(P, r, col[w] + 2)
    <3>1. r = R - 1 => R # 0
      BY <1>2, <2>3, FrameCounts
    <3>2. QED
      BY <2>2, <2>4, <3>1
  <2>6. col[w] + 2 \in Nat /\ k < col[w] + 2
    BY <1>2
  <2>7. vertDone[P][r] \in Nat /\ frame.cols \in Nat
    BY <1>2, <2>3, FrameCounts
  <2>8. QED
    BY <1>2, <2>2, <2>3, <2>5, <2>6, <2>7, AheadHas
<1>9. /\ Blocks' = Blocks
      /\ FilteredBlocks(vertDone)' = FilteredBlocks(vertDone)
      /\ FilteredBlocks(horzDone)' = FilteredBlocks(horzDone')
  BY <1>4 DEF Blocks, FilteredBlocks, Rows
<1> HIDE DEF b
<1>10. QED
  BY <1>2, <1>4, <1>7, <1>8, <1>9 DEF Abstract!FilterHorz, Blocks

LEMMA BeginRefines ==
  ASSUME NEW r \in 1..MaxRows, NEW c \in 1..MaxCols, NEW on \in SUBSET Planes,
         Begin(r, c, on)
  PROVE  Abstract!NewFrame
<1>1. /\ mainPc = "ready" /\ mainPc' = "run"
      /\ frame' = [rows |-> r, cols |-> c, on |-> on]
      /\ vertDone' = [p \in Planes |-> [i \in RowIds |-> 0]]
      /\ horzDone' = [p \in Planes |-> [i \in RowIds |-> 0]]
  BY DEF Begin
<1>2. Blocks' = on \X (0..r - 1) \X (0..c - 1)
  BY <1>1 DEF Blocks, Rows
<1>3. r - 1 \in 0..MaxRows - 1 /\ c \in Nat
  BY LfAssumption
<1>4. ASSUME NEW b \in Blocks'
      PROVE  ~(b[3] < vertDone'[b[1]][b[2]]) /\ ~(b[3] < horzDone'[b[1]][b[2]])
  <2>1. PICK p \in on, i \in 0..r - 1, k \in 0..c - 1 : b = <<p, i, k>>
    BY <1>2
  <2>2. p \in Planes /\ i \in RowIds /\ k \in Nat
    BY <1>3, LfAssumption DEF RowIds
  <2>3. vertDone'[p][i] = 0 /\ horzDone'[p][i] = 0
    BY <1>1, <2>2
  <2>4. QED
    BY <2>1, <2>2, <2>3
<1>5. FilteredBlocks(vertDone)' = {} /\ FilteredBlocks(horzDone)' = {}
  BY <1>4 DEF FilteredBlocks, Blocks
<1>6. Blocks' = Abstract!Frame(on, r, c)
  BY <1>2 DEF Abstract!Frame
<1>7. QED
  BY <1>1, <1>5, <1>6 DEF Abstract!NewFrame, Blocks

LEMMA CompleteFollowsNext == IInv' => FrameComplete'
<1>1. IInv => FrameComplete
  BY CompleteFollows
<1>2. QED
  BY <1>1, PTL

LEMMA FinishRefines ==
  ASSUME IInv, IInv', Finish PROVE Abstract!EndFrame
<1>1. /\ mainPc = "run" /\ mainPc' = "ready"
      /\ UNCHANGED <<frame, vertDone, horzDone>>
  BY DEF Finish
<1>2. \A p \in frame.on, r \in Rows :
        vertDone[p][r] = frame.cols /\ horzDone[p][r] = frame.cols
  BY <1>1, CompleteFollowsNext DEF FrameComplete, Rows
<1>3. ASSUME NEW b \in Blocks
      PROVE  b[3] < vertDone[b[1]][b[2]] /\ b[3] < horzDone[b[1]][b[2]]
  <2>1. PICK p \in frame.on, r \in Rows, k \in 0..frame.cols - 1 : b = <<p, r, k>>
    BY DEF Blocks
  <2>2. frame.cols \in Nat
    BY FrameCounts
  <2>3. QED
    BY <1>2, <2>1, <2>2
<1>4. FilteredBlocks(vertDone) = Blocks /\ FilteredBlocks(horzDone) = Blocks
  BY <1>3 DEF FilteredBlocks, Blocks
<1>5. QED
  BY <1>1, <1>4, SameBlocks DEF Abstract!EndFrame, Blocks

\* Every step of the filter is a step of FrameFilter or none.
LEMMA StepRefines ==
  ASSUME IInv, IInv', [Next]_vars
  PROVE  [Abstract!NewFrame \/ Abstract!Work]_(Abstract!avars)
<1>1. ASSUME UNCHANGED <<mainPc, frame, vertDone, horzDone>>
      PROVE  UNCHANGED Abstract!avars
  BY <1>1, SameBlocks DEF Abstract!avars, Blocks
<1>2. CASE NewFrame
  <2>1. CASE \E r \in 1..MaxRows : BeginFails(r)
    BY <1>1, <2>1 DEF BeginFails
  <2>2. ASSUME NEW r \in 1..MaxRows, NEW c \in 1..MaxCols, NEW start \in 0..2,
               NEW stop \in 1..3, NEW lit \in SUBSET Planes,
               Begin(r, c, PlanesOn(start, stop, lit))
        PROVE  Abstract!NewFrame
    <3>1. PlanesOn(start, stop, lit) \in SUBSET Planes
      BY DEF PlanesOn
    <3>2. QED
      BY <2>2, <3>1, BeginRefines
  <2>3. QED
    BY <1>2, <2>1, <2>2 DEF NewFrame
<1>3. CASE Launch
  BY <1>1, <1>3 DEF Launch
<1>4. CASE Finish
  BY <1>4, FinishRefines DEF Abstract!Work
<1>5. ASSUME NEW w \in Workers, WorkerStep(w) \/ Spurious(w)
      PROVE  Abstract!Work \/ UNCHANGED Abstract!avars
  <2>1. CASE Vert(w)
    BY <2>1, VertRefines DEF Abstract!Work
  <2>2. CASE Horz(w)
    BY <2>2, HorzRefines DEF Abstract!Work
  <2>3. CASE Take(w) \/ Write(w) \/ ReadAbove(w) \/ ReadOwn(w) \/ Spurious(w)
    BY <1>1, <2>3 DEF Take, Write, ReadAbove, ReadOwn, Spurious
  <2>4. QED
    BY <1>5, <2>1, <2>2, <2>3 DEF WorkerStep
<1>6. CASE UNCHANGED vars
  BY <1>1, <1>6 DEF vars
<1>7. QED
  BY <1>2, <1>3, <1>4, <1>5, <1>6 DEF Next

LEMMA InitRefines == Init => Abstract!AInit
<1> SUFFICES ASSUME Init PROVE Abstract!AInit
  OBVIOUS
<1>1. mainPc = "ready" /\ frame.on = {}
  BY DEF Init
<1>2. Blocks = {}
  BY <1>1 DEF Blocks
<1>3. QED
  BY <1>1, <1>2 DEF Abstract!AInit, FilteredBlocks, Blocks

\* The filter implements FrameFilter: superblocks are filtered once in each
\* direction, in an order that the pixels allow, and a frame ends when all are.
THEOREM Implements ==
  Spec => Abstract!AInit /\ [][Abstract!NewFrame \/ Abstract!Work]_(Abstract!avars)
BY InitIInv, StepIInv, InitRefines, StepRefines, PTL DEF Spec

-----------------------------------------------------------------------------
(***************************************************************************)
(* Both stages.  What is proved of either stage alone holds of both on one *)
(* picture, and the stages never meet in it.  The argument: the calling    *)
(* thread is inside one stage at most (OneStage), and a stage that it is   *)
(* not inside has all its workers idle.                                    *)
(***************************************************************************)
HIDE DEF syncVars, workerVars, mainVars, done, Places

\* The restoration with its theorems.
LrP == INSTANCE LrRowMT_proof WITH
         MaxFrames <- MaxCalls, syncRange <- lrSyncRange, cur <- lrCur,
         todo <- lrTodo, pc <- lrPc, job <- lrJob, col <- lrCol,
         mainPc <- lrMain, started <- lrStarted, frame <- lrFrame,
         frames <- lrFrames

\* LrP is Lr, with proofs.
LEMMA SameFormats == LrP!FormatsAssumption
BY RestorationAssumption
   DEF Lr!FormatsAssumption, LrP!FormatsAssumption, Lr!YUV, LrP!YUV

LEMMA SameInit == Lr!Init => LrP!Init
BY Zenon DEF Lr!Init, LrP!Init, Lr!RowFun, LrP!RowFun, Lr!JobRows, LrP!JobRows,
   Lr!PlaneHeight, LrP!PlaneHeight, Lr!SubY, LrP!SubY, Lr!NoJob, LrP!NoJob,
   Lr!Workers, LrP!Workers

LEMMA SameNext == Lr!Next => LrP!Next
BY Zenon DEF Lr!Next, LrP!Next, Lr!Workers, LrP!Workers, Lr!Begin, LrP!Begin, Lr!BeginFails,
   LrP!BeginFails, Lr!NeedsAlloc, LrP!NeedsAlloc, Lr!Launch, LrP!Launch, Lr!Finish,
   LrP!Finish, Lr!WorkerStep, LrP!WorkerStep, Lr!Spurious, LrP!Spurious, Lr!Take,
   LrP!Take, Lr!ReadAbove, LrP!ReadAbove, Lr!ReadBelow, LrP!ReadBelow, Lr!Filter,
   LrP!Filter, Lr!Write, LrP!Write, Lr!Copy, LrP!Copy, Lr!Before, LrP!Before,
   Lr!UnitStart, LrP!UnitStart, Lr!Blocked, LrP!Blocked, Lr!HasBelow, LrP!HasBelow,
   Lr!NextUnit, LrP!NextUnit, Lr!AfterUnit, LrP!AfterUnit, Lr!LastCol, LrP!LastCol,
   Lr!Odd, LrP!Odd, Lr!Woken, LrP!Woken, Lr!NoJob, LrP!NoJob, Lr!RowFun, LrP!RowFun,
   Lr!syncVars, LrP!syncVars, Lr!workerVars, LrP!workerVars, Lr!mainVars,
   LrP!mainVars, Lr!JobRows, LrP!JobRows, Lr!PlaneHeight, LrP!PlaneHeight, Lr!SubY,
   LrP!SubY, Lr!UnitRows, LrP!UnitRows, Lr!CountUnits, LrP!CountUnits,
   Lr!AllocRows, LrP!AllocRows, Lr!Jobs, LrP!Jobs

\* The properties are the same, too.
LEMMA SameIntact == LrP!InputIntact => LrInputIntact
BY Zenon DEF LrInputIntact, Lr!InputIntact, LrP!InputIntact, Lr!Workers,
   LrP!Workers, Lr!Filtering, LrP!Filtering, Lr!UsedLines, LrP!UsedLines,
   Lr!CopyLines, LrP!CopyLines, Lr!VStart, LrP!VStart, Lr!VEnd, LrP!VEnd,
   Lr!VOffset, LrP!VOffset, Lr!IsLast, LrP!IsLast, Lr!BORDER, LrP!BORDER,
   Lr!OFFSET, LrP!OFFSET, Lr!Meet, LrP!Meet, Lr!PlaneHeight, LrP!PlaneHeight,
   Lr!SubY, LrP!SubY, Lr!UnitRows, LrP!UnitRows, Lr!CountUnits, LrP!CountUnits

LEMMA SameComplete == LrP!OutputComplete => LrOutputComplete
BY Zenon DEF LrOutputComplete, Lr!OutputComplete, LrP!OutputComplete, Lr!Workers,
   LrP!Workers, Lr!JobRows, LrP!JobRows, Lr!RowDone, LrP!RowDone, Lr!Jobs, LrP!Jobs,
   Lr!CopyLines, LrP!CopyLines, Lr!VStart, LrP!VStart, Lr!VEnd, LrP!VEnd,
   Lr!VOffset, LrP!VOffset, Lr!IsLast, LrP!IsLast, Lr!BORDER, LrP!BORDER,
   Lr!OFFSET, LrP!OFFSET, Lr!Meet, LrP!Meet, Lr!PlaneHeight, LrP!PlaneHeight,
   Lr!SubY, LrP!SubY, Lr!UnitRows, LrP!UnitRows, Lr!CountUnits, LrP!CountUnits

LEMMA SameTypes == LrP!TypeOK => Lr!TypeOK
BY Zenon DEF Lr!TypeOK, LrP!TypeOK, Lr!JobRows, LrP!JobRows, Lr!Jobs, LrP!Jobs,
   Lr!Workers, LrP!Workers, Lr!Places, LrP!Places, Lr!YUV, LrP!YUV,
   Lr!PlaneHeight, LrP!PlaneHeight, Lr!SubY, LrP!SubY

-----------------------------------------------------------------------------
\* The calling thread is inside one stage at most.
OneStage == mainPc = "ready" \/ lrMain = "ready"

PInv == IInv /\ LrP!IInv /\ OneStage

LEMMA PInitInv == PInit => PInv
<1> SUFFICES ASSUME PInit PROVE PInv
  OBVIOUS
<1>1. IInv
  BY InitIInv DEF PInit
<1>2. LrP!IInv
  BY SameInit, SameFormats, LrP!InitIInv DEF PInit
<1>3. OneStage
  BY DEF PInit, Init, OneStage
<1>4. QED
  BY <1>1, <1>2, <1>3 DEF PInv

\* A step of one stage that does not begin a frame leaves the caller where it was,
\* or takes it out.
LEMMA NoBegin ==
  ASSUME frames \in Nat, Next, frames' = frames, mainPc = "ready"
  PROVE  mainPc' = "ready"
<1>1. CASE NewFrame
  <2>1. frames' = frames + 1
    BY <1>1 DEF NewFrame, Begin, BeginFails
  <2>2. QED
    BY <2>1
<1>2. CASE Launch \/ Finish
  BY <1>2 DEF Launch, Finish
<1>3. ASSUME NEW w \in Workers, WorkerStep(w) \/ Spurious(w) PROVE mainPc' = mainPc
  BY <1>3 DEF WorkerStep, Spurious, Take, Vert, Horz, Write, ReadAbove, ReadOwn,
     mainVars
<1>4. QED
  BY <1>1, <1>2, <1>3 DEF Next

LEMMA NoBeginRestore ==
  ASSUME lrFrames \in Nat, Lr!Next, lrFrames' = lrFrames, lrMain = "ready"
  PROVE  lrMain' = "ready"
<1>1. ASSUME NEW f \in Formats, Lr!Begin(f) \/ Lr!BeginFails(f) PROVE FALSE
  <2>1. lrFrames' = lrFrames + 1
    BY <1>1 DEF Lr!Begin, Lr!BeginFails
  <2>2. QED
    BY <2>1
<1>2. CASE Lr!Launch \/ Lr!Finish
  BY <1>2 DEF Lr!Launch, Lr!Finish
<1>3. ASSUME NEW w \in Lr!Workers, Lr!WorkerStep(w) \/ Lr!Spurious(w)
      PROVE  lrMain' = lrMain
  BY <1>3 DEF Lr!WorkerStep, Lr!Spurious, Lr!Take, Lr!ReadAbove, Lr!ReadBelow,
     Lr!Filter, Lr!Write, Lr!Copy, Lr!mainVars
<1>4. QED
  BY <1>1, <1>2, <1>3 DEF Lr!Next

LEMMA PStepInv == PInv /\ [PNext]_<<vars, lrVars>> => PInv'
<1> SUFFICES ASSUME PInv, [PNext]_<<vars, lrVars>> PROVE PInv'
  OBVIOUS
<1>1. /\ IInv /\ LrP!IInv /\ LrP!FormatsAssumption
      /\ frames \in Nat /\ lrFrames \in Nat
      /\ mainPc \in {"ready", "run"} /\ lrMain \in {"ready", "run"}
  <2>1. IInv /\ LrP!IInv /\ LrP!FormatsAssumption
    BY SameFormats DEF PInv
  <2>2. frames \in Nat /\ mainPc \in {"ready", "run"}
    BY <2>1 DEF IInv, TypeOK
  <2>3. lrFrames \in Nat /\ lrMain \in {"ready", "run"}
    BY <2>1 DEF LrP!IInv, LrP!TypeOK
  <2>4. QED
    BY <2>1, <2>2, <2>3
<1>2. UNCHANGED lrVars => UNCHANGED LrP!vars
  BY DEF lrVars, LrP!vars, LrP!syncVars, LrP!workerVars, LrP!mainVars
<1>3. CASE Deblock
  <2>1. IInv'
    BY <1>1, <1>3, StepIInv DEF Deblock
  <2>2. LrP!IInv'
    BY <1>1, <1>2, <1>3, LrP!StepIInv DEF Deblock
  <2>3. lrMain' = lrMain
    BY <1>3 DEF Deblock, lrVars
  <2>4. lrMain = "run" => mainPc' = "ready"
    BY <1>1, <1>3, NoBegin DEF Deblock, PInv, OneStage
  <2>5. QED
    BY <1>1, <2>1, <2>2, <2>3, <2>4 DEF PInv, OneStage
<1>4. CASE Restore
  <2>1. IInv'
    BY <1>1, <1>4, StepIInv DEF Restore
  <2>2. LrP!IInv'
    BY <1>1, <1>4, SameNext, LrP!StepIInv DEF Restore
  <2>3. mainPc' = mainPc
    BY <1>4 DEF Restore, vars, mainVars
  <2>4. mainPc = "run" => lrMain' = "ready"
    BY <1>1, <1>4, NoBeginRestore DEF Restore, PInv, OneStage
  <2>5. QED
    BY <1>1, <2>1, <2>2, <2>3, <2>4 DEF PInv, OneStage
<1>5. CASE UNCHANGED <<vars, lrVars>>
  <2>1. UNCHANGED vars /\ UNCHANGED lrVars
    BY <1>5
  <2>2. IInv'
    BY <1>1, <2>1, StepIInv
  <2>3. LrP!IInv'
    BY <1>1, <1>2, <2>1, LrP!StepIInv
  <2>4. OneStage'
    BY <2>1 DEF PInv, OneStage, vars, mainVars, lrVars
  <2>5. QED
    BY <2>2, <2>3, <2>4 DEF PInv
<1>6. QED
  BY <1>3, <1>4, <1>5 DEF PNext

\* Both stages keep their invariants when they share picture and workers, and the
\* calling thread is inside one of them at most.
THEOREM StagesInductive == PSpec => []PInv
BY PInitInv, PStepInv, PTL DEF PSpec

\* Every variable of the two keeps to its type.
THEOREM StagesTypeCorrect == PSpec => []StagesTypeOK
<1>1. PInv => StagesTypeOK
  BY SameTypes DEF PInv, IInv, LrP!IInv, StagesTypeOK
<1>2. QED
  BY <1>1, StagesInductive, PTL

\* While a worker restores or copies lines no worker deblocks, for any number of
\* workers and calls: the stages need no lock between them.
THEOREM NeverMeet == PSpec => []StagesApart
<1>1. ASSUME PInv PROVE StagesApart
  <2>1. CASE mainPc = "ready"
    <3>1. \A w \in Workers : pc[w] = "idle"
      BY <1>1, <2>1 DEF PInv, IInv, MainInv
    <3>2. QED
      BY <3>1 DEF StagesApart
  <2>2. CASE lrMain = "ready"
    <3>1. \A w \in LrP!Workers : lrPc[w] = "idle"
      BY <1>1, <2>2 DEF PInv, LrP!IInv, LrP!MainInv
    <3>2. \A w \in Workers : lrPc[w] = "idle"
      BY <3>1 DEF Workers, LrP!Workers
    <3>3. QED
      BY <3>2 DEF StagesApart
  <2>3. QED
    BY <1>1, <2>1, <2>2 DEF PInv, OneStage
<1>2. QED
  BY <1>1, StagesInductive, PTL

\* No unit is restored out of lines that are being copied over or swapped.
THEOREM RestoreIntact == PSpec => []LrInputIntact
<1>1. PInv => LrInputIntact
  BY SameFormats, SameIntact, LrP!IntactFollows DEF PInv
<1>2. QED
  BY <1>1, StagesInductive, PTL

\* Only finished rows are copied back, and on return all of them are.
THEOREM RestoreComplete == PSpec => []LrOutputComplete
<1>1. PInv => LrOutputComplete
  BY SameFormats, SameComplete, LrP!CompleteFollows DEF PInv
<1>2. QED
  BY <1>1, StagesInductive, PTL

LEMMA SameRowsThere == LrP!RowsThere => LrRowsThere
<1>1. Lr!Jobs(lrFrame) = LrP!Jobs(lrFrame)
  BY Zenon DEF Lr!Jobs, LrP!Jobs, Lr!JobRows, LrP!JobRows, Lr!PlaneHeight,
     LrP!PlaneHeight, Lr!SubY, LrP!SubY
<1>2. Lr!Cardinality(Lr!Jobs(lrFrame)) = LrP!Cardinality(Lr!Jobs(lrFrame))
  BY Zenon DEF Lr!Cardinality, LrP!Cardinality, Lr!IsFiniteSet, LrP!IsFiniteSet
<1>3. QED
  BY <1>1, <1>2 DEF LrRowsThere, Lr!RowsThere, LrP!RowsThere

\* Between the calls of the deblocking filter, too, a frame is restored with the
\* arrays of its own size.
LEMMA PStepAlloc ==
  ASSUME PInv, LrP!AllocInv, [PNext]_<<vars, lrVars>>
  PROVE  LrP!AllocInv'
<1>1. LrP!IInv
  BY DEF PInv
<1>2. CASE Restore
  BY <1>1, <1>2, SameNext, LrP!StepAlloc DEF Restore
<1>3. CASE UNCHANGED lrVars
  <2>1. UNCHANGED LrP!vars
    BY <1>3 DEF lrVars, LrP!vars, LrP!syncVars, LrP!workerVars, LrP!mainVars
  <2>2. QED
    BY <1>1, <2>1, LrP!StepAlloc
<1>4. QED
  BY <1>2, <1>3 DEF PNext, Deblock

\* Every job of the restoration has its place in the queue and every row its mutex,
\* condition and progress, as long as no chroma plane of half units has an odd
\* number of lines.
THEOREM RestoreHasRows ==
  (\A f \in Formats : LrP!UnitsFit(f)) => (PSpec => []LrRowsThere)
<1> SUFFICES ASSUME \A f \in Formats : LrP!UnitsFit(f) PROVE PSpec => []LrRowsThere
  OBVIOUS
<1>1. PInit => PInv /\ LrP!AllocInv
  <2>1. Lr!Init => LrP!AllocInv
    BY DEF Lr!Init, LrP!AllocInv
  <2>2. QED
    BY <2>1, PInitInv DEF PInit
<1>2. (PInv /\ LrP!AllocInv) /\ [PNext]_<<vars, lrVars>> => (PInv /\ LrP!AllocInv)'
  BY PStepInv, PStepAlloc
<1>3. PInv /\ LrP!AllocInv => LrRowsThere
  BY SameFormats, SameRowsThere, LrP!RowsFollow DEF PInv
<1>4. QED
  BY <1>1, <1>2, <1>3, PTL DEF PSpec
===============================================================================
