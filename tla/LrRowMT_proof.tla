---------------------------- MODULE LrRowMT_proof ----------------------------
(***************************************************************************)
(* Proofs about LrRowMT for any number of workers and of frames, of any    *)
(* heights, unit sizes and numbers of units.  The argument has two halves. *)
(* The geometry: rows that are not neighbours never touch, and an even row *)
(* copies back nothing that its odd neighbours read.  The progress: an odd *)
(* row is always at least one unit behind both neighbours (WaitInv and     *)
(* OddInv), because what is published never runs ahead (CurInv).           *)
(***************************************************************************)
EXTENDS LrRowMT, FiniteSetTheorems, TLAPS

(***************************************************************************)
(* The geometry of a frame.                                                *)
(***************************************************************************)

\* The numbers that the geometry of a plane is made of.
LEMMA Dim ==
  ASSUME FormatsAssumption, NEW f \in Formats, NEW p \in f.on
  PROVE  /\ f.unit[p] \in {32, 64, 128, 256} /\ VOffset(f, p) \in {4, 8}
         /\ PlaneHeight(f, p) \in Nat \ {0} /\ f.cols[p] \in Nat \ {0}
         /\ p \in YUV
<1>1. /\ f.height \in Nat \ {0} /\ f.ssY \in {0, 1} /\ p \in YUV
      /\ f.unit \in [YUV -> {32, 64, 128, 256}] /\ f.cols \in [YUV -> Nat \ {0}]
  BY DEF FormatsAssumption
<1>2. SubY(f, p) \in {0, 1}
  BY <1>1 DEF SubY
<1>3. QED
  BY <1>1, <1>2 DEF VOffset, PlaneHeight, OFFSET

\* A row of job number i is a number, and so is every one before it.
LEMMA RowsDown ==
  ASSUME FormatsAssumption, NEW f \in Formats, NEW p \in f.on,
         NEW i \in JobRows(f, p)
  PROVE  /\ i \in Nat
         /\ i > 0 => i - 1 \in JobRows(f, p)
<1>1. /\ f.unit[p] \in {32, 64, 128, 256} /\ PlaneHeight(f, p) \in Nat \ {0}
  BY Dim
<1>2. CASE f.unit[p] = 32
  BY <1>1, <1>2 DEF JobRows
<1>3. CASE f.unit[p] = 64
  BY <1>1, <1>3 DEF JobRows
<1>4. CASE f.unit[p] = 128
  BY <1>1, <1>4 DEF JobRows
<1>5. CASE f.unit[p] = 256
  BY <1>1, <1>5 DEF JobRows
<1>6. QED
  BY <1>1, <1>2, <1>3, <1>4, <1>5

\* The loop over y0 makes as many rows as av1_lr_count_units_in_tile() counts.
LEMMA RowsCount ==
  ASSUME FormatsAssumption, NEW f \in Formats, NEW p \in f.on,
         NEW i \in JobRows(f, p)
  PROVE  /\ i < UnitRows(f, p) /\ UnitRows(f, p) \in Nat
         /\ i + 1 < UnitRows(f, p) <=> i + 1 \in JobRows(f, p)
         /\ i = UnitRows(f, p) - 1 <=> IsLast(f, p, i)
<1>1. /\ f.unit[p] \in {32, 64, 128, 256} /\ PlaneHeight(f, p) \in Nat \ {0}
  BY Dim
<1>2. CASE f.unit[p] = 32
  BY <1>1, <1>2 DEF JobRows, UnitRows, CountUnits, IsLast
<1>3. CASE f.unit[p] = 64
  BY <1>1, <1>3 DEF JobRows, UnitRows, CountUnits, IsLast
<1>4. CASE f.unit[p] = 128
  BY <1>1, <1>4 DEF JobRows, UnitRows, CountUnits, IsLast
<1>5. CASE f.unit[p] = 256
  BY <1>1, <1>5 DEF JobRows, UnitRows, CountUnits, IsLast
<1>6. QED
  BY <1>1, <1>2, <1>3, <1>4, <1>5

\* The zero row is always there.
LEMMA RowZero ==
  ASSUME FormatsAssumption, NEW f \in Formats, NEW p \in f.on
  PROVE  0 \in JobRows(f, p)
<1>1. /\ f.unit[p] \in {32, 64, 128, 256} /\ PlaneHeight(f, p) \in Nat \ {0}
  BY Dim
<1>2. CASE f.unit[p] = 32
  BY <1>1, <1>2 DEF JobRows
<1>3. CASE f.unit[p] = 64
  BY <1>1, <1>3 DEF JobRows
<1>4. CASE f.unit[p] = 128
  BY <1>1, <1>4 DEF JobRows
<1>5. CASE f.unit[p] = 256
  BY <1>1, <1>5 DEF JobRows
<1>6. QED
  BY <1>1, <1>2, <1>3, <1>4, <1>5

\* Where a row starts and ends: behind the one before, and higher than two borders.
LEMMA RowLines ==
  ASSUME FormatsAssumption, NEW f \in Formats, NEW p \in f.on,
         NEW i \in JobRows(f, p)
  PROVE  /\ VStart(f, p, i) \in Nat /\ VEnd(f, p, i) \in Nat
         /\ VEnd(f, p, i) <= PlaneHeight(f, p)
         /\ i > 0 => VStart(f, p, i) > 2 * BORDER
         /\ i = UnitRows(f, p) - 1 => VEnd(f, p, i) = PlaneHeight(f, p)
         /\ i # UnitRows(f, p) - 1 => VEnd(f, p, i) = VStart(f, p, i + 1)
         /\ i # 0 => VEnd(f, p, i) - VStart(f, p, i) > 2 * BORDER
<1>1. /\ f.unit[p] \in {32, 64, 128, 256} /\ PlaneHeight(f, p) \in Nat \ {0}
      /\ VOffset(f, p) \in {4, 8}
  BY Dim
<1>2. i = UnitRows(f, p) - 1 <=> IsLast(f, p, i)
  BY RowsCount
<1>3. CASE f.unit[p] = 32
  BY <1>1, <1>2, <1>3 DEF JobRows, VStart, VEnd, IsLast, BORDER
<1>4. CASE f.unit[p] = 64
  BY <1>1, <1>2, <1>4 DEF JobRows, VStart, VEnd, IsLast, BORDER
<1>5. CASE f.unit[p] = 128
  BY <1>1, <1>2, <1>5 DEF JobRows, VStart, VEnd, IsLast, BORDER
<1>6. CASE f.unit[p] = 256
  BY <1>1, <1>2, <1>6 DEF JobRows, VStart, VEnd, IsLast, BORDER
<1>7. QED
  BY <1>1, <1>3, <1>4, <1>5, <1>6

\* Between rows that are not neighbours lies more than two borders.
LEMMA RowsApart ==
  ASSUME FormatsAssumption, NEW f \in Formats, NEW p \in f.on,
         NEW i \in JobRows(f, p), NEW j \in JobRows(f, p), i + 1 < j
  PROVE  VEnd(f, p, i) + 2 * BORDER < VStart(f, p, j)
<1>1. /\ f.unit[p] \in {32, 64, 128, 256} /\ PlaneHeight(f, p) \in Nat \ {0}
      /\ VOffset(f, p) \in {4, 8}
  BY Dim
<1>2. i \in Nat /\ j \in Nat
  BY RowsDown
<1>3. CASE f.unit[p] = 32
  BY <1>1, <1>2, <1>3 DEF JobRows, VStart, VEnd, IsLast, BORDER
<1>4. CASE f.unit[p] = 64
  BY <1>1, <1>2, <1>4 DEF JobRows, VStart, VEnd, IsLast, BORDER
<1>5. CASE f.unit[p] = 128
  BY <1>1, <1>2, <1>5 DEF JobRows, VStart, VEnd, IsLast, BORDER
<1>6. CASE f.unit[p] = 256
  BY <1>1, <1>2, <1>6 DEF JobRows, VStart, VEnd, IsLast, BORDER
<1>7. QED
  BY <1>1, <1>3, <1>4, <1>5, <1>6

\* The rows counted for the allocation: a largest number of a few.
LEMMA AllocNat ==
  ASSUME FormatsAssumption, NEW f \in Formats
  PROVE  AllocRows(f) \in Nat /\ f.planes \in Nat
<1>1. /\ f.height \in Nat \ {0} /\ f.ssY \in {0, 1} /\ f.sb \in {64, 128}
      /\ f.planes \in {1, 3}
  BY DEF FormatsAssumption
<1> DEFINE n(p) == CountUnits(f.sb, PlaneHeight(f, p))
<1>2. ASSUME NEW p \in 0..f.planes - 1 PROVE n(p) \in Nat
  <2>1. PlaneHeight(f, p) \in Nat
    BY <1>1 DEF PlaneHeight, SubY
  <2>2. CASE f.sb = 64
    BY <2>1, <2>2 DEF CountUnits
  <2>3. CASE f.sb = 128
    BY <2>1, <2>3 DEF CountUnits
  <2>4. QED
    BY <1>1, <2>2, <2>3
<1> DEFINE rows == {n(p) : p \in 0..f.planes - 1}
<1>3. AllocRows(f) = CHOOSE k \in rows : \A m \in rows : m <= k
  BY DEF AllocRows
<1>4. \E k \in rows : \A m \in rows : m <= k
  <2> HIDE DEF n
  <2>1. CASE f.planes = 1
    <3>1. n(0) \in rows /\ \A m \in rows : m = n(0)
      BY <2>1
    <3>2. QED
      BY <1>2, <2>1, <3>1
  <2>2. CASE f.planes = 3
    <3>1. /\ n(0) \in rows /\ n(1) \in rows /\ n(2) \in rows
          /\ \A m \in rows : m = n(0) \/ m = n(1) \/ m = n(2)
      BY <2>2
    <3>2. n(0) \in Nat /\ n(1) \in Nat /\ n(2) \in Nat
      BY <1>2, <2>2
    <3>3. QED
      BY <3>1, <3>2
  <2>3. QED
    BY <1>1, <2>1, <2>2
<1>5. rows \subseteq Nat
  BY <1>2
<1> HIDE DEF rows
<1>6. AllocRows(f) \in rows
  BY Zenon, <1>3, <1>4
<1>7. AllocRows(f) \in Nat
  BY Zenon, <1>5, <1>6
<1>8. QED
  BY <1>1, <1>7

\* The lines of a row as they are cut.
Own(f, p, i) == [from |-> VStart(f, p, i), to |-> VEnd(f, p, i)]

\* Lines that stay within one border of row i.
Within(f, p, i, a) == /\ a.from \in Int /\ a.to \in Int
                      /\ a.from >= VStart(f, p, i) - BORDER
                      /\ a.to <= VEnd(f, p, i) + BORDER

\* Nothing reaches further than one border beyond its row.
LEMMA OneBorder ==
  ASSUME FormatsAssumption, NEW f \in Formats, NEW p \in f.on,
         NEW i \in JobRows(f, p)
  PROVE  /\ Within(f, p, i, UsedLines(f, p, i))
         /\ Within(f, p, i, CopyLines(f, p, i))
         /\ Within(f, p, i, Own(f, p, i))
<1>1. /\ PlaneHeight(f, p) \in Nat /\ i \in Nat
      /\ VStart(f, p, i) \in Nat /\ VEnd(f, p, i) \in Nat
      /\ VEnd(f, p, i) <= PlaneHeight(f, p)
      /\ i > 0 => VStart(f, p, i) > 2 * BORDER
      /\ i = UnitRows(f, p) - 1 => VEnd(f, p, i) = PlaneHeight(f, p)
  BY Dim, RowLines, RowsDown
<1>2. i = 0 => VStart(f, p, i) = 0
  BY DEF VStart
<1>3. Within(f, p, i, UsedLines(f, p, i))
  BY <1>1, <1>2 DEF Within, UsedLines, BORDER
<1>4. Within(f, p, i, CopyLines(f, p, i))
  <2>1. CASE i % 2 = 0
    <3>1. CopyLines(f, p, i) =
            [from |-> IF i = 0 THEN 0 ELSE VStart(f, p, i) + BORDER,
             to   |-> IF i = UnitRows(f, p) - 1 THEN PlaneHeight(f, p)
                      ELSE VEnd(f, p, i) - BORDER]
      BY <2>1 DEF CopyLines
    <3>2. QED
      BY <1>1, <1>2, <3>1 DEF Within, BORDER
  <2>2. CASE i % 2 # 0
    <3>1. CopyLines(f, p, i) =
            [from |-> IF VStart(f, p, i) - BORDER > 0 THEN VStart(f, p, i) - BORDER
                      ELSE 0,
             to   |-> IF VEnd(f, p, i) + BORDER < PlaneHeight(f, p)
                      THEN VEnd(f, p, i) + BORDER ELSE PlaneHeight(f, p)]
      BY <2>2 DEF CopyLines
    <3>2. QED
      BY <1>1, <1>2, <3>1 DEF Within, BORDER
  <2>3. QED
    BY <2>1, <2>2
<1>5. Within(f, p, i, Own(f, p, i))
  BY <1>1 DEF Within, Own, BORDER
<1>6. QED
  BY <1>3, <1>4, <1>5

\* Rows that are not neighbours do not touch.
LEMMA FarApart ==
  ASSUME FormatsAssumption, NEW f \in Formats, NEW p \in f.on,
         NEW i \in JobRows(f, p), NEW j \in JobRows(f, p),
         i # j, j # i + 1, i # j + 1,
         NEW a, Within(f, p, i, a), NEW b, Within(f, p, j, b)
  PROVE  ~Meet(a, b)
<1>1. /\ i \in Nat /\ j \in Nat
      /\ VStart(f, p, i) \in Nat /\ VEnd(f, p, i) \in Nat
      /\ VStart(f, p, j) \in Nat /\ VEnd(f, p, j) \in Nat
  BY RowsDown, RowLines
<1>2. CASE i + 1 < j
  <2>1. VEnd(f, p, i) + 2 * BORDER < VStart(f, p, j)
    BY <1>2, RowsApart
  <2>2. QED
    BY <1>1, <2>1 DEF Within, Meet, BORDER
<1>3. CASE j + 1 < i
  <2>1. VEnd(f, p, j) + 2 * BORDER < VStart(f, p, i)
    BY <1>3, RowsApart
  <2>2. QED
    BY <1>1, <2>1 DEF Within, Meet, BORDER
<1>4. QED
  BY <1>1, <1>2, <1>3

\* What an even row copies back its odd neighbours do not use.
LEMMA EvenKeepsOff ==
  ASSUME FormatsAssumption, NEW f \in Formats, NEW p \in f.on,
         NEW i \in JobRows(f, p), NEW k \in JobRows(f, p),
         i % 2 = 0, k = i + 1 \/ i = k + 1,
         NEW b, Within(f, p, k, b)
  PROVE  ~Meet(b, CopyLines(f, p, i)) /\ ~Meet(CopyLines(f, p, i), b)
<1>1. /\ i \in Nat /\ k \in Nat /\ PlaneHeight(f, p) \in Nat
      /\ VStart(f, p, i) \in Nat /\ VEnd(f, p, i) \in Nat
      /\ VStart(f, p, k) \in Nat /\ VEnd(f, p, k) \in Nat
  BY RowsDown, RowLines, Dim
<1>2. CopyLines(f, p, i) =
        [from |-> IF i = 0 THEN 0 ELSE VStart(f, p, i) + BORDER,
         to   |-> IF i = UnitRows(f, p) - 1 THEN PlaneHeight(f, p)
                  ELSE VEnd(f, p, i) - BORDER]
  BY DEF CopyLines
<1>3. CASE k = i + 1
  <2>1. i # UnitRows(f, p) - 1
    <3>1. i + 1 < UnitRows(f, p)
      BY <1>3, RowsCount
    <3>2. QED
      BY <1>1, <3>1, RowsCount
  <2>2. VEnd(f, p, i) = VStart(f, p, k)
    BY <1>3, <2>1, RowLines
  <2>3. QED
    BY <1>1, <1>2, <2>1, <2>2 DEF Within, Meet, BORDER
<1>4. CASE i = k + 1
  <2>1. k # UnitRows(f, p) - 1 /\ i # 0
    <3>1. k + 1 < UnitRows(f, p)
      BY <1>4, RowsCount
    <3>2. QED
      BY <1>1, <1>4, <3>1, RowsCount
  <2>2. VEnd(f, p, k) = VStart(f, p, i)
    BY <1>4, <2>1, RowLines
  <2>3. QED
    BY <1>1, <1>2, <2>1, <2>2 DEF Within, Meet, BORDER
<1>5. QED
  BY <1>3, <1>4

(***************************************************************************)
(* What the invariant says of the lines.                                   *)
(***************************************************************************)

\* The facts about one worker that has a job.
LEMMA BusyFacts ==
  ASSUME FormatsAssumption, IInv, NEW w \in Workers, Busy(w)
  PROVE  /\ frame \in Formats /\ job[w] \in Jobs(frame)
         /\ job[w].plane \in frame.on
         /\ job[w].row \in JobRows(frame, job[w].plane) /\ job[w].row \in Nat
         /\ job[w] = [plane |-> job[w].plane, row |-> job[w].row]
         /\ col[w] \in Nat /\ col[w] < frame.cols[job[w].plane]
<1>1. frame \in Formats /\ col[w] \in Nat
  BY DEF IInv, TypeOK
<1>2. job[w] \in Jobs(frame)
  BY DEF IInv, JobInv
<1>3. PICK p \in frame.on : job[w] \in [plane : {p}, row : JobRows(frame, p)]
  BY <1>2 DEF Jobs
<1>4. /\ job[w].plane = p /\ job[w].row \in JobRows(frame, p)
      /\ job[w] = [plane |-> job[w].plane, row |-> job[w].row]
  BY <1>3
<1>5. job[w].row \in Nat
  BY <1>1, <1>4, RowsDown
<1>6. col[w] < frame.cols[job[w].plane]
  BY DEF IInv, StepInv
<1>7. QED
  BY <1>1, <1>2, <1>3, <1>4, <1>5, <1>6

\* ... and about one job of the frame.
LEMMA JobFacts ==
  ASSUME FormatsAssumption, frame \in Formats, NEW j \in Jobs(frame)
  PROVE  /\ j.plane \in frame.on /\ j.row \in JobRows(frame, j.plane)
         /\ j.row \in Nat /\ j = [plane |-> j.plane, row |-> j.row]
<1>1. PICK p \in frame.on : j \in [plane : {p}, row : JobRows(frame, p)]
  BY DEF Jobs
<1>2. QED
  BY <1>1, RowsDown

\* How far a row is is a number of its units.
LEMMA Done ==
  ASSUME FormatsAssumption, TypeOK, NEW p \in frame.on,
         NEW i \in JobRows(frame, p)
  PROVE  /\ filtered[p][i] \in 0..frame.cols[p] /\ frame.cols[p] \in Nat \ {0}
         /\ cur[p][i] \in -1..frame.cols[p] + 1
BY Dim DEF TypeOK

\* The neighbours of an odd row that is finished are finished.
LEMMA OddLast ==
  ASSUME FormatsAssumption, IInv, NEW p \in frame.on,
         NEW i \in JobRows(frame, p), NEW k \in JobRows(frame, p),
         i % 2 = 1, k = i + 1 \/ i = k + 1, RowDone(p, i)
  PROVE  RowDone(p, k)
<1>1. TypeOK /\ frame \in Formats
  BY DEF IInv, TypeOK
<1>2. /\ filtered[p][i] \in 0..frame.cols[p] /\ frame.cols[p] \in Nat \ {0}
      /\ filtered[p][k] \in 0..frame.cols[p] /\ i \in Nat /\ k \in Nat
  BY <1>1, Done, RowsDown
<1>3. filtered[p][i] > 0 /\ (k = i - 1 \/ k = i + 1)
  BY <1>2 DEF RowDone
<1>4. Ahead(p, k, filtered[p][i] + 1)
  BY <1>3 DEF IInv, OddInv
<1>5. QED
  BY <1>2, <1>4 DEF Ahead, RowDone

\* InputIntact follows.
LEMMA IntactFollows == ASSUME FormatsAssumption, IInv PROVE InputIntact
<1> SUFFICES ASSUME NEW w \in Workers, Filtering(w)
             PROVE  LET p == job[w].plane  mine == UsedLines(frame, p, job[w].row) IN
                    /\ \A k \in copied : k.plane = p =>
                         ~Meet(mine, CopyLines(frame, p, k.row))
                    /\ \A u \in Workers \ {w} :
                         Filtering(u) /\ job[u].plane = p /\ col[u] - col[w] \in -1..1
                           => ~Meet(mine, UsedLines(frame, p, job[u].row))
  BY DEF InputIntact
<1> DEFINE p == job[w].plane
           i == job[w].row
<1>1. Busy(w) /\ pc[w] = "filter" /\ TypeOK
  BY DEF Filtering, Busy, IInv
<1>2. /\ frame \in Formats /\ p \in frame.on /\ i \in JobRows(frame, p) /\ i \in Nat
      /\ col[w] \in Nat /\ col[w] < frame.cols[p]
  BY <1>1, BusyFacts
<1>3. filtered[p][i] = col[w] /\ job[w] \notin copied /\ ~RowDone(p, i)
  <2>1. filtered[p][i] = col[w] /\ job[w] \notin copied
    BY <1>1 DEF IInv, StepInv
  <2>2. QED
    BY <1>1, <1>2, <2>1, Done DEF RowDone
<1>4. Within(frame, p, i, UsedLines(frame, p, i))
  BY <1>2, OneBorder
<1>5. ASSUME NEW k \in copied, k.plane = p
      PROVE  ~Meet(UsedLines(frame, p, i), CopyLines(frame, p, k.row))
  <2>1. k \in Jobs(frame)
    BY DEF IInv, TypeOK
  <2>2. k.row \in JobRows(frame, p) /\ k.row \in Nat /\ RowDone(p, k.row)
    BY <1>2, <1>5, <2>1, JobFacts DEF IInv, BooksInv
  <2>3. k.row # i
    BY <1>3, <2>2
  <2>4. Within(frame, p, k.row, CopyLines(frame, p, k.row))
    BY <1>2, <2>2, OneBorder
  <2>5. CASE k.row # i + 1 /\ i # k.row + 1
    BY <1>2, <1>4, <2>2, <2>3, <2>4, <2>5, FarApart
  <2>6. CASE (k.row = i + 1 \/ i = k.row + 1) /\ k.row % 2 = 0
    BY <1>2, <1>4, <2>2, <2>6, EvenKeepsOff
  <2>7. CASE (k.row = i + 1 \/ i = k.row + 1) /\ k.row % 2 = 1
    BY <1>2, <1>3, <2>2, <2>7, OddLast
  <2>8. k.row % 2 \in {0, 1}
    BY <2>2
  <2>9. QED
    BY <2>5, <2>6, <2>7, <2>8
<1>6. ASSUME NEW u \in Workers \ {w}, Filtering(u), job[u].plane = p,
             col[u] - col[w] \in -1..1
      PROVE  ~Meet(UsedLines(frame, p, i), UsedLines(frame, p, job[u].row))
  <2> DEFINE k == job[u].row
  <2>1. Busy(u) /\ pc[u] = "filter"
    BY <1>6 DEF Filtering, Busy
  <2>2. /\ k \in JobRows(frame, p) /\ k \in Nat /\ col[u] \in Nat
        /\ col[u] < frame.cols[p] /\ job[u] = [plane |-> p, row |-> k]
    BY <1>6, <2>1, BusyFacts
  <2>3. k # i
    <3>1. job[u] # job[w] /\ job[w] = [plane |-> p, row |-> i]
      BY <1>1, <2>1, BusyFacts DEF IInv, JobInv
    <3>2. QED
      BY <2>2, <3>1
  <2>4. filtered[p][k] = col[u]
    BY <1>6, <2>1 DEF IInv, StepInv
  <2>5. ~(k = i + 1 \/ i = k + 1)
    <3>1. SUFFICES ASSUME k = i + 1 \/ i = k + 1 PROVE FALSE
      OBVIOUS
    <3>2. frame.cols[p] \in Nat
      BY <1>2, Dim
    <3>3. CASE i % 2 = 1
      <4>1. Ahead(p, k, col[w] + 2)
        <5>1. Odd(w)
          BY <3>3 DEF Odd
        <5>2. CASE i = k + 1
          <6>1. k = i - 1
            BY <1>2, <2>2, <5>2
          <6>2. QED
            BY <1>1, <5>1, <6>1 DEF IInv, WaitInv
        <5>3. CASE k = i + 1
          <6>1. HasBelow(w)
            BY <1>2, <2>2, <5>3, RowsCount DEF HasBelow
          <6>2. QED
            BY <1>1, <5>1, <5>3, <6>1 DEF IInv, WaitInv
        <5>4. QED
          BY <3>1, <5>2, <5>3
      <4>2. QED
        BY <1>2, <1>6, <2>2, <2>4, <3>2, <4>1 DEF Ahead, RowDone
    <3>4. CASE k % 2 = 1
      <4>1. Ahead(p, i, col[u] + 2)
        <5>1. Odd(u)
          BY <3>4 DEF Odd
        <5>2. CASE k = i + 1
          <6>1. i = k - 1
            BY <1>2, <2>2, <5>2
          <6>2. QED
            BY <1>6, <2>1, <5>1, <6>1 DEF IInv, WaitInv
        <5>3. CASE i = k + 1
          <6>1. HasBelow(u)
            BY <1>2, <1>6, <2>2, <5>3, RowsCount DEF HasBelow
          <6>2. QED
            BY <1>6, <2>1, <5>1, <5>3, <6>1 DEF IInv, WaitInv
        <5>4. QED
          BY <3>1, <5>2, <5>3
      <4>2. QED
        BY <1>2, <1>3, <1>6, <2>2, <3>2, <4>1 DEF Ahead, RowDone
    <3>5. i % 2 = 1 \/ k % 2 = 1
      BY <1>2, <2>2, <3>1
    <3>6. QED
      BY <3>3, <3>4, <3>5
  <2>6. Within(frame, p, k, UsedLines(frame, p, k))
    BY <1>2, <2>2, OneBorder
  <2>7. QED
    BY <1>2, <1>4, <2>2, <2>3, <2>5, <2>6, FarApart
<1>7. QED
  BY <1>5, <1>6

\* OutputComplete follows.
LEMMA CompleteFollows == ASSUME FormatsAssumption, IInv PROVE OutputComplete
<1>1. ASSUME NEW k \in copied, NEW i \in JobRows(frame, k.plane),
             Meet(CopyLines(frame, k.plane, k.row), Own(frame, k.plane, i))
      PROVE  RowDone(k.plane, i)
  <2> DEFINE p == k.plane
             r == k.row
  <2>1. frame \in Formats /\ k \in Jobs(frame)
    BY DEF IInv, TypeOK
  <2>2. p \in frame.on /\ r \in JobRows(frame, p) /\ r \in Nat /\ RowDone(p, r)
    BY <2>1, JobFacts DEF IInv, BooksInv
  <2>3. i \in Nat
    BY <2>1, <2>2, RowsDown
  <2>4. /\ Within(frame, p, r, CopyLines(frame, p, r))
        /\ Within(frame, p, i, Own(frame, p, i))
    BY <2>1, <2>2, OneBorder
  <2>5. CASE i = r
    BY <2>2, <2>5
  <2>6. CASE i # r /\ i # r + 1 /\ r # i + 1
    BY <1>1, <2>1, <2>2, <2>3, <2>4, <2>6, FarApart
  <2>7. CASE (i = r + 1 \/ r = i + 1) /\ r % 2 = 0
    BY <1>1, <2>1, <2>2, <2>4, <2>7, EvenKeepsOff
  <2>8. CASE (i = r + 1 \/ r = i + 1) /\ r % 2 = 1
    BY <2>2, <2>8, OddLast
  <2>9. r % 2 \in {0, 1}
    BY <2>2
  <2>10. QED
    BY <2>5, <2>6, <2>7, <2>8, <2>9
<1>2. mainPc = "ready" => \A w \in Workers : pc[w] = "idle"
  BY DEF IInv, MainInv
<1>3. mainPc = "ready" /\ started > 0 => copied = Jobs(frame)
  BY DEF IInv
<1>4. QED
  BY <1>1, <1>2, <1>3 DEF OutputComplete, Own

(***************************************************************************)
(* The calling thread.                                                     *)
(***************************************************************************)

LEMMA InitIInv == ASSUME FormatsAssumption, Init PROVE IInv
<1>1. /\ alloc = [rows |-> 0, planes |-> 0] /\ syncRange = 0 /\ todo = {}
      /\ mainPc = "ready" /\ started = 0
      /\ pc = [w \in Workers |-> "idle"]
      /\ job = [w \in Workers |-> [plane |-> 0, row |-> 0]]
      /\ col = [w \in Workers |-> 0]
      /\ frame \in Formats /\ frames = 0 /\ copied = {}
      /\ cur = [p \in frame.on |-> [i \in JobRows(frame, p) |-> -1]]
      /\ filtered = [p \in frame.on |-> [i \in JobRows(frame, p) |-> 0]]
  BY DEF Init, RowFun, NoJob
<1>2. \A p \in frame.on : frame.cols[p] \in Nat \ {0}
  BY <1>1, Dim
<1>3. TypeOK
  <2>1. NumWorkers \in Nat
    BY DEF FormatsAssumption
  <2>2. \A p \in frame.on :
          /\ cur[p] \in [JobRows(frame, p) -> -1..frame.cols[p] + 1]
          /\ filtered[p] \in [JobRows(frame, p) -> 0..frame.cols[p]]
    BY <1>1, <1>2
  <2>3. DOMAIN cur = frame.on /\ DOMAIN filtered = frame.on
    BY <1>1
  <2>4. pc \in [Workers -> Places] /\ col \in [Workers -> Nat]
        /\ job \in [Workers -> [plane : YUV, row : Nat]]
    BY <1>1 DEF Places, YUV
  <2>5. /\ alloc \in [rows : Nat, planes : Nat] /\ started \in 0..NumWorkers
        /\ todo \subseteq Jobs(frame) /\ copied \subseteq Jobs(frame)
    BY <1>1, <2>1
  <2>6. QED
    BY <1>1, <2>2, <2>3, <2>4, <2>5 DEF TypeOK
<1>4. \A w \in Workers : ~Busy(w)
  BY <1>1 DEF Busy
<1>5. MainInv
  BY <1>1 DEF MainInv
<1>6. JobInv /\ StepInv /\ WaitInv
  BY <1>4 DEF JobInv, StepInv, WaitInv
<1>7. BooksInv
  BY <1>1 DEF BooksInv
<1>8. CurInv
  BY <1>1 DEF CurInv
<1>9. OddInv
  BY <1>1 DEF OddInv
<1>10. QED
  BY <1>1, <1>3, <1>5, <1>6, <1>7, <1>8, <1>9 DEF IInv

LEMMA BeginIInv ==
  ASSUME FormatsAssumption, IInv, NEW f \in Formats, Begin(f) PROVE IInv'
<1>1. /\ mainPc = "ready" /\ mainPc' = "run" /\ started' = 0
      /\ frame' = f /\ frames' = frames + 1 /\ todo' = Jobs(f) /\ copied' = {}
      /\ cur' = [p \in f.on |-> [i \in JobRows(f, p) |-> -1]]
      /\ filtered' = [p \in f.on |-> [i \in JobRows(f, p) |-> 0]]
      /\ pc' = pc /\ job' = job /\ col' = col
  BY DEF Begin, RowFun, workerVars
<1>2. \A p \in f.on : f.cols[p] \in Nat \ {0}
  BY Dim
<1>3. syncRange' = 1 /\ alloc' \in [rows : Nat, planes : Nat]
  <2>1. CASE NeedsAlloc(f)
    <3>1. AllocRows(f) \in Nat /\ f.planes \in Nat
      BY AllocNat
    <3>2. QED
      BY <2>1, <3>1 DEF Begin
  <2>2. CASE ~NeedsAlloc(f)
    BY <2>2 DEF Begin, NeedsAlloc, syncVars, IInv, TypeOK
  <2>3. QED
    BY <2>1, <2>2
<1>4. TypeOK'
  <2>1. \A p \in f.on :
          /\ cur'[p] \in [JobRows(f, p) -> -1..f.cols[p] + 1]
          /\ filtered'[p] \in [JobRows(f, p) -> 0..f.cols[p]]
    BY <1>1, <1>2
  <2>2. DOMAIN cur' = f.on /\ DOMAIN filtered' = f.on
    BY <1>1
  <2>3. frames' \in Nat /\ started' \in 0..NumWorkers
    BY <1>1 DEF IInv, TypeOK, FormatsAssumption
  <2>4. todo' \subseteq Jobs(frame') /\ copied' \subseteq Jobs(frame')
    BY <1>1
  <2>5. QED
    BY <1>1, <1>3, <2>1, <2>2, <2>3, <2>4 DEF IInv, TypeOK
<1>5. \A w \in Workers : pc'[w] = "idle" /\ ~Busy(w)'
  BY <1>1 DEF IInv, MainInv, Busy
<1>6. MainInv'
  BY <1>1, <1>3, <1>5 DEF MainInv
<1>7. JobInv' /\ StepInv' /\ WaitInv'
  BY <1>5 DEF JobInv, StepInv, WaitInv
<1>8. BooksInv'
  <2>1. ASSUME NEW j \in Jobs(f) PROVE filtered'[j.plane][j.row] = 0
    <3>1. PICK p \in f.on : j \in [plane : {p}, row : JobRows(f, p)]
      BY DEF Jobs
    <3>2. QED
      BY <1>1, <3>1
  <2>2. QED
    BY <1>1, <2>1 DEF BooksInv
<1>9. CurInv'
  BY <1>1 DEF CurInv
<1>10. OddInv'
  BY <1>1 DEF OddInv
<1>11. QED
  BY <1>1, <1>4, <1>6, <1>7, <1>8, <1>9, <1>10 DEF IInv

LEMMA BeginFailsIInv ==
  ASSUME FormatsAssumption, IInv, NEW f \in Formats, BeginFails(f) PROVE IInv'
<1>1. /\ mainPc = "ready" /\ mainPc' = mainPc /\ syncRange' = 0
      /\ alloc' = [rows |-> AllocRows(f), planes |-> f.planes]
      /\ frames' = frames + 1
      /\ UNCHANGED <<cur, todo, pc, job, col, started, frame, filtered, copied>>
  BY DEF BeginFails, workerVars
<1>2. AllocRows(f) \in Nat /\ f.planes \in Nat
  BY AllocNat
<1>3. TypeOK'
  BY <1>1, <1>2 DEF IInv, TypeOK
<1>4. \A w \in Workers : Busy(w)' <=> Busy(w)
  BY <1>1 DEF Busy
<1>5. MainInv'
  BY <1>1 DEF IInv, MainInv
<1>6. JobInv' /\ StepInv' /\ WaitInv'
  <2>1. \A w \in Workers : ~Busy(w)'
    BY <1>1, <1>4 DEF IInv, MainInv, Busy
  <2>2. QED
    BY <2>1 DEF JobInv, StepInv, WaitInv
<1>7. BooksInv' /\ CurInv' /\ OddInv'
  BY <1>1 DEF IInv, BooksInv, CurInv, OddInv, RowDone, Ahead
<1>8. QED
  BY <1>1, <1>3, <1>5, <1>6, <1>7 DEF IInv

\* A step that leaves every worker where it is, or at a place without a job, and
\* touches no job, keeps what the invariant says of jobs and rows.
LEMMA NothingDone ==
  ASSUME IInv, UNCHANGED <<cur, todo, job, col, frame, filtered, copied>>,
         \A w \in Workers : Busy(w)' <=> Busy(w),
         \A w \in Workers : Busy(w) => pc'[w] = pc[w]
  PROVE  JobInv' /\ StepInv' /\ WaitInv' /\ CurInv' /\ OddInv'
<1>1. JobInv'
  BY DEF IInv, JobInv
<1>2. StepInv'
  BY DEF IInv, StepInv, Odd
<1>3. WaitInv'
  BY DEF IInv, WaitInv, Odd, Ahead, RowDone, HasBelow
<1>4. CurInv' /\ OddInv'
  BY DEF IInv, CurInv, OddInv, Ahead, RowDone
<1>5. QED
  BY <1>1, <1>2, <1>3, <1>4

LEMMA LaunchIInv ==
  ASSUME FormatsAssumption, IInv, Launch PROVE IInv'
<1>1. /\ mainPc = "run" /\ started < NumWorkers /\ started' = started + 1
      /\ pc' = [pc EXCEPT ![started + 1] = "take"]
      /\ UNCHANGED <<alloc, syncRange, cur, todo, job, col, mainPc, frame, frames,
                     filtered, copied>>
  BY DEF Launch, syncVars
<1>2. /\ NumWorkers \in Nat \ {0} /\ started \in 0..NumWorkers
      /\ pc \in [Workers -> Places]
  BY DEF FormatsAssumption, IInv, TypeOK
<1>3. started + 1 \in Workers
  BY <1>1, <1>2 DEF Workers
<1>4. pc[started + 1] = "idle"
  BY <1>1, <1>2, <1>3 DEF IInv, MainInv
<1>5. /\ pc' \in [Workers -> Places] /\ pc'[started + 1] = "take"
      /\ \A w \in Workers : w # started + 1 => pc'[w] = pc[w]
  BY <1>1, <1>2, <1>3 DEF Places
<1>6. \A w \in Workers : Busy(w)' <=> Busy(w)
  BY <1>4, <1>5 DEF Busy
<1>7. \A w \in Workers : Busy(w) => pc'[w] = pc[w]
  BY <1>4, <1>5 DEF Busy
<1>8. TypeOK'
  BY <1>1, <1>2, <1>5 DEF IInv, TypeOK
<1>9. MainInv'
  <2>1. \A w \in Workers : w > started' => pc'[w] = "idle"
    BY <1>1, <1>2, <1>5 DEF IInv, MainInv, Workers
  <2>2. \A w \in Workers : pc'[w] = "done" => todo' = {}
    BY <1>1, <1>5 DEF IInv, MainInv
  <2>3. QED
    BY <1>1, <2>1, <2>2 DEF IInv, MainInv
<1>10. BooksInv'
  BY <1>1, <1>6 DEF IInv, BooksInv, RowDone
<1>11. JobInv' /\ StepInv' /\ WaitInv' /\ CurInv' /\ OddInv'
  BY <1>1, <1>6, <1>7, NothingDone
<1>12. QED
  BY <1>1, <1>8, <1>9, <1>10, <1>11 DEF IInv

\* When all workers are done no job is left, so that every one is copied.
LEMMA FinishIInv ==
  ASSUME FormatsAssumption, IInv, Finish PROVE IInv'
<1>1. /\ mainPc = "run" /\ mainPc' = "ready" /\ started = NumWorkers
      /\ \A w \in Workers : pc[w] = "done"
      /\ pc' = [w \in Workers |-> "idle"]
      /\ job' = [w \in Workers |-> [plane |-> 0, row |-> 0]]
      /\ col' = [w \in Workers |-> 0]
      /\ UNCHANGED <<alloc, syncRange, cur, todo, started, frame, frames, filtered,
                     copied>>
  BY DEF Finish, NoJob, syncVars
<1>2. \A w \in Workers : ~Busy(w)
  BY <1>1 DEF Busy
<1>3. 1 \in Workers
  BY DEF FormatsAssumption, Workers
<1>4. todo = {}
  BY <1>1, <1>3 DEF IInv, MainInv
<1>5. copied = Jobs(frame)
  <2>1. Jobs(frame) \subseteq copied
    BY <1>1, <1>2, <1>4 DEF IInv, BooksInv
  <2>2. copied \subseteq Jobs(frame)
    BY DEF IInv, TypeOK
  <2>3. QED
    BY <2>1, <2>2
<1>6. \A w \in Workers : pc'[w] = "idle" /\ ~Busy(w)'
  BY <1>1 DEF Busy
<1>7. TypeOK'
  <2>1. pc' \in [Workers -> Places] /\ col' \in [Workers -> Nat]
        /\ job' \in [Workers -> [plane : YUV, row : Nat]]
    BY <1>1 DEF Places, YUV
  <2>2. QED
    BY <1>1, <2>1 DEF IInv, TypeOK
<1>8. MainInv'
  BY <1>1, <1>4, <1>6 DEF MainInv
<1>9. JobInv' /\ StepInv' /\ WaitInv'
  BY <1>6 DEF JobInv, StepInv, WaitInv
<1>10. BooksInv' /\ CurInv' /\ OddInv'
  BY <1>1, <1>4 DEF IInv, BooksInv, CurInv, OddInv, RowDone, Ahead
<1>11. QED
  BY <1>1, <1>5, <1>7, <1>8, <1>9, <1>10 DEF IInv

(***************************************************************************)
(* A worker.                                                               *)
(***************************************************************************)

\* Between the tests of its cursors a worker changes nothing but its place.
LEMMA ReadMoves ==
  ASSUME FormatsAssumption, IInv, NEW w \in Workers, pc[w] \in Reads,
         NEW x \in Reads \cup {"filter"}, pc' = [pc EXCEPT ![w] = x],
         UNCHANGED <<alloc, syncRange, cur, todo, job, col, mainPc, started, frame,
                     frames, filtered, copied>>,
         x \in {"readBelow", "waitBelow", "filter"}
           => Ahead(job[w].plane, job[w].row - 1, col[w] + 2),
         x = "filter" /\ HasBelow(w)
           => Ahead(job[w].plane, job[w].row + 1, col[w] + 2)
  PROVE  IInv'
<1>1. pc \in [Workers -> Places] /\ mainPc \in {"ready", "run"}
  BY DEF IInv, TypeOK
<1>2. /\ pc' \in [Workers -> Places] /\ pc'[w] = x
      /\ \A u \in Workers \ {w} : pc'[u] = pc[u]
  BY <1>1 DEF Reads, Places
<1>3. Busy(w) /\ Busy(w)' /\ \A u \in Workers : Busy(u)' <=> Busy(u)
  BY <1>2 DEF Busy, Reads
<1>4. TypeOK'
  BY <1>2 DEF IInv, TypeOK
<1>5. MainInv'
  <2>1. mainPc = "run"
    BY <1>1, <1>3 DEF IInv, MainInv, Busy
  <2>2. pc[w] # "idle" /\ pc'[w] # "done"
    BY <1>2, <1>3 DEF Busy
  <2>3. \A u \in Workers : pc'[u] = "done" => pc[u] = "done"
    BY <1>2, <2>2
  <2>4. \A u \in Workers : u > started => pc'[u] = "idle"
    BY <1>2, <2>1, <2>2 DEF IInv, MainInv
  <2>5. QED
    BY <2>1, <2>3, <2>4 DEF IInv, MainInv
<1>6. JobInv' /\ BooksInv'
  BY <1>3 DEF IInv, JobInv, BooksInv, RowDone
<1>7. StepInv'
  BY <1>2, <1>3 DEF IInv, StepInv, Reads, Odd
<1>8. WaitInv'
  <2>1. \A q, i, n : Ahead(q, i, n)' <=> Ahead(q, i, n)
    BY DEF Ahead, RowDone
  <2>2. \A u \in Workers : HasBelow(u)' <=> HasBelow(u)
    BY DEF HasBelow
  <2>3. \A u \in Workers : Odd(u)' <=> Odd(u)
    BY DEF Odd
  <2>4. WaitInv
    BY DEF IInv
  <2>5. QED
    BY <1>2, <1>3, <2>1, <2>2, <2>3, <2>4 DEF WaitInv
<1>9. CurInv' /\ OddInv'
  BY DEF IInv, CurInv, OddInv, Ahead, RowDone
<1>10. QED
  BY <1>4, <1>5, <1>6, <1>7, <1>8, <1>9 DEF IInv

\* A cursor that does not block the reader tells it two units ahead.
LEMMA NotBlocked ==
  ASSUME FormatsAssumption, IInv, syncRange = 1, NEW p \in frame.on,
         NEW i \in JobRows(frame, p), NEW c \in Nat, ~Blocked(p, i, c)
  PROVE  Ahead(p, i, c + 2)
<1>1. TypeOK
  BY DEF IInv
<1>2. /\ filtered[p][i] \in 0..frame.cols[p] /\ frame.cols[p] \in Nat
      /\ cur[p][i] \in -1..frame.cols[p] + 1
  BY <1>1, Done
<1>3. cur[p][i] < filtered[p][i] \/ RowDone(p, i)
  BY DEF IInv, CurInv
<1>4. QED
  BY <1>2, <1>3 DEF Blocked, Ahead

LEMMA InRun ==
  ASSUME IInv, NEW w \in Workers, Busy(w)
  PROVE  mainPc = "run" /\ syncRange = 1
BY DEF IInv, TypeOK, MainInv, Busy

LEMMA ReadAboveIInv ==
  ASSUME FormatsAssumption, IInv, NEW w \in Workers, ReadAbove(w) PROVE IInv'
<1> DEFINE p == job[w].plane
           r == job[w].row
           x == IF Blocked(p, r - 1, col[w]) THEN "waitAbove"
                ELSE IF HasBelow(w) THEN "readBelow" ELSE "filter"
<1>1. /\ pc[w] = "readAbove" /\ pc' = [pc EXCEPT ![w] = x]
      /\ UNCHANGED <<alloc, syncRange, cur, todo, job, col, mainPc, started, frame,
                     frames, filtered, copied>>
  BY DEF ReadAbove, syncVars, mainVars
<1>2. Busy(w) /\ pc[w] \in Reads
  BY <1>1 DEF Busy, Reads
<1>3. /\ frame \in Formats /\ p \in frame.on /\ r \in JobRows(frame, p) /\ r \in Nat
      /\ col[w] \in Nat
  BY <1>2, BusyFacts
<1>4. r - 1 \in JobRows(frame, p)
  <2>1. r % 2 = 1
    BY <1>2 DEF IInv, StepInv, Odd
  <2>2. r > 0
    BY <1>3, <2>1
  <2>3. QED
    BY <1>3, <2>2, RowsDown
<1>5. x # "waitAbove" => Ahead(p, r - 1, col[w] + 2)
  <2>1. syncRange = 1
    BY <1>2, InRun
  <2>2. QED
    BY <1>3, <1>4, <2>1, NotBlocked
<1>6. x \in Reads \cup {"filter"}
  BY DEF Reads
<1>7. x = "filter" => ~HasBelow(w)
  OBVIOUS
<1> HIDE DEF x
<1>8. x \in {"readBelow", "waitBelow", "filter"} => x # "waitAbove"
  OBVIOUS
<1>9. QED
  BY <1>1, <1>2, <1>5, <1>6, <1>7, <1>8, ReadMoves

LEMMA ReadBelowIInv ==
  ASSUME FormatsAssumption, IInv, NEW w \in Workers, ReadBelow(w) PROVE IInv'
<1> DEFINE p == job[w].plane
           r == job[w].row
           x == IF Blocked(p, r + 1, col[w]) THEN "waitBelow" ELSE "filter"
<1>1. /\ pc[w] = "readBelow" /\ pc' = [pc EXCEPT ![w] = x]
      /\ UNCHANGED <<alloc, syncRange, cur, todo, job, col, mainPc, started, frame,
                     frames, filtered, copied>>
  BY DEF ReadBelow, syncVars, mainVars
<1>2. Busy(w) /\ pc[w] \in Reads
  BY <1>1 DEF Busy, Reads
<1>3. /\ frame \in Formats /\ p \in frame.on /\ r \in JobRows(frame, p) /\ r \in Nat
      /\ col[w] \in Nat
  BY <1>2, BusyFacts
<1>4. Ahead(p, r - 1, col[w] + 2)
  <2>1. Odd(w)
    BY <1>2 DEF IInv, StepInv
  <2>2. QED
    BY <1>1, <1>2, <2>1 DEF IInv, WaitInv
<1>5. x = "filter" /\ HasBelow(w) => Ahead(p, r + 1, col[w] + 2)
  <2>1. syncRange = 1
    BY <1>2, InRun
  <2>2. HasBelow(w) => r + 1 \in JobRows(frame, p)
    BY <1>3, RowsCount DEF HasBelow
  <2>3. QED
    BY <1>3, <2>1, <2>2, NotBlocked
<1>6. x \in Reads \cup {"filter"}
  BY DEF Reads
<1> HIDE DEF x
<1>7. QED
  BY <1>1, <1>2, <1>4, <1>5, <1>6, ReadMoves

LEMMA SpuriousIInv ==
  ASSUME FormatsAssumption, IInv, NEW w \in Workers, Spurious(w) PROVE IInv'
<1>1. /\ \/ pc[w] = "waitAbove" /\ pc' = [pc EXCEPT ![w] = "readAbove"]
         \/ pc[w] = "waitBelow" /\ pc' = [pc EXCEPT ![w] = "readBelow"]
      /\ UNCHANGED <<alloc, syncRange, cur, todo, job, col, mainPc, started, frame,
                     frames, filtered, copied>>
  BY DEF Spurious, syncVars, mainVars
<1>2. Busy(w) /\ pc[w] \in Reads
  BY <1>1 DEF Busy, Reads
<1>3. Odd(w)
  BY <1>2 DEF IInv, StepInv
<1>4. pc[w] = "waitBelow" => Ahead(job[w].plane, job[w].row - 1, col[w] + 2)
  BY <1>2, <1>3 DEF IInv, WaitInv
<1>5. CASE pc[w] = "waitAbove" /\ pc' = [pc EXCEPT ![w] = "readAbove"]
  <2>1. "readAbove" \in Reads \cup {"filter"}
    BY DEF Reads
  <2>2. QED
    BY <1>1, <1>2, <1>5, <2>1, ReadMoves
<1>6. CASE pc[w] = "waitBelow" /\ pc' = [pc EXCEPT ![w] = "readBelow"]
  <2>1. "readBelow" \in Reads \cup {"filter"}
    BY DEF Reads
  <2>2. QED
    BY <1>1, <1>2, <1>4, <1>6, <2>1, ReadMoves
<1>7. QED
  BY <1>1, <1>5, <1>6

\* A copy leaves the job among those that are copied.
LEMMA CopyIInv ==
  ASSUME FormatsAssumption, IInv, NEW w \in Workers, Copy(w) PROVE IInv'
<1>1. /\ pc[w] = "copy" /\ pc' = [pc EXCEPT ![w] = "take"]
      /\ UNCHANGED <<alloc, syncRange, cur, todo, job, col, mainPc, started, frame,
                     frames, filtered, copied>>
  BY DEF Copy, syncVars, mainVars
<1>2. pc \in [Workers -> Places]
  BY DEF IInv, TypeOK
<1>3. /\ pc' \in [Workers -> Places] /\ pc'[w] = "take"
      /\ \A u \in Workers \ {w} : pc'[u] = pc[u]
  BY <1>1, <1>2 DEF Places
<1>4. Busy(w) /\ ~Busy(w)' /\ \A u \in Workers \ {w} : Busy(u)' <=> Busy(u)
  BY <1>1, <1>3 DEF Busy
<1>5. mainPc = "run" /\ job[w] \in copied
  BY <1>1, <1>4, InRun DEF IInv, StepInv
<1>6. TypeOK'
  BY <1>1, <1>3 DEF IInv, TypeOK
<1>7. MainInv'
  <2>1. \A u \in Workers : pc'[u] = "done" => pc[u] = "done"
    BY <1>3
  <2>2. \A u \in Workers : u > started => pc'[u] = "idle"
    <3>1. \A u \in Workers : u > started => pc[u] = "idle"
      BY <1>5 DEF IInv, MainInv
    <3>2. QED
      BY <1>1, <1>3, <3>1
  <2>3. QED
    BY <1>1, <1>5, <2>1, <2>2 DEF IInv, MainInv
<1>8. JobInv'
  BY <1>1, <1>4 DEF IInv, JobInv
<1>9. StepInv'
  BY <1>1, <1>3, <1>4 DEF IInv, StepInv, Odd
<1>10. WaitInv'
  BY <1>1, <1>3, <1>4 DEF IInv, WaitInv, Odd, HasBelow, Ahead, RowDone
<1>11. BooksInv'
  <2>1. BooksInv
    BY DEF IInv
  <2>2. ASSUME NEW j \in Jobs(frame)
        PROVE  j \in todo \cup copied \cup {job[v] : v \in {u \in Workers : Busy(u)'}}
    BY <1>4, <1>5, <2>1 DEF BooksInv
  <2>3. QED
    BY <1>1, <2>1, <2>2 DEF BooksInv, RowDone
<1>12. CurInv' /\ OddInv'
  BY <1>1 DEF IInv, CurInv, OddInv, Ahead, RowDone
<1>13. QED
  BY <1>1, <1>5, <1>6, <1>7, <1>8, <1>9, <1>10, <1>11, <1>12 DEF IInv

\* A worker takes the first job, or finds none and is done.
LEMMA TakeIInv ==
  ASSUME FormatsAssumption, IInv, NEW w \in Workers, Take(w) PROVE IInv'
<1>1. /\ pc[w] = "take"
      /\ UNCHANGED <<alloc, syncRange, cur, mainPc, started, frame, frames,
                     filtered, copied>>
  BY DEF Take, syncVars, mainVars
<1>2. /\ pc \in [Workers -> Places] /\ col \in [Workers -> Nat]
      /\ job \in [Workers -> [plane : YUV, row : Nat]]
      /\ mainPc \in {"ready", "run"} /\ frame \in Formats
      /\ todo \subseteq Jobs(frame)
  BY DEF IInv, TypeOK
<1>3. ~Busy(w)
  BY <1>1 DEF Busy
<1>4. mainPc = "run"
  BY <1>1, <1>2 DEF IInv, MainInv
<1>5. \A u \in Workers : u > started => u # w /\ pc[u] = "idle"
  BY <1>1, <1>4 DEF IInv, MainInv
<1>6. CurInv' /\ OddInv'
  BY <1>1 DEF IInv, CurInv, OddInv, Ahead, RowDone
<1>7. CASE todo = {}
  <2>1. pc' = [pc EXCEPT ![w] = "done"] /\ UNCHANGED <<todo, job, col>>
    BY <1>7 DEF Take
  <2>2. /\ pc' \in [Workers -> Places] /\ pc'[w] = "done"
        /\ \A u \in Workers \ {w} : pc'[u] = pc[u]
    BY <1>2, <2>1 DEF Places
  <2>3. /\ \A u \in Workers : Busy(u)' <=> Busy(u)
        /\ \A u \in Workers : Busy(u) => pc'[u] = pc[u]
    BY <1>3, <2>2 DEF Busy
  <2>4. TypeOK'
    BY <1>1, <2>1, <2>2 DEF IInv, TypeOK
  <2>5. MainInv'
    BY <1>1, <1>4, <1>5, <1>7, <2>1, <2>2 DEF IInv, MainInv
  <2>6. JobInv' /\ StepInv' /\ WaitInv'
    BY <1>1, <2>1, <2>3, NothingDone
  <2>7. BooksInv'
    BY <1>1, <2>1, <2>3 DEF IInv, BooksInv, RowDone
  <2>8. QED
    BY <1>1, <1>4, <1>6, <2>4, <2>5, <2>6, <2>7 DEF IInv
<1>8. CASE todo # {}
  <2>1. PICK j \in todo : /\ todo' = todo \ {j}
                          /\ job' = [job EXCEPT ![w] = j]
                          /\ col' = [col EXCEPT ![w] = 0]
                          /\ pc' = [pc EXCEPT ![w] = UnitStart(j)]
    BY <1>8 DEF Take
  <2>2. /\ j \in Jobs(frame) /\ j.plane \in frame.on /\ j.row \in Nat
        /\ j.plane \in YUV /\ frame.cols[j.plane] \in Nat \ {0}
        /\ j \in [plane : YUV, row : Nat]
    <3>1. j \in Jobs(frame)
      BY <1>2, <2>1
    <3>2. /\ j.plane \in frame.on /\ j.row \in Nat
          /\ j = [plane |-> j.plane, row |-> j.row]
      BY <1>2, <3>1, JobFacts
    <3>3. j.plane \in YUV /\ frame.cols[j.plane] \in Nat \ {0}
      BY <1>2, <3>2, Dim
    <3>4. QED
      BY <3>1, <3>2, <3>3
  <2>3. UnitStart(j) \in {"readAbove", "filter"}
        /\ (UnitStart(j) = "readAbove" <=> j.row % 2 = 1)
    BY DEF UnitStart
  <2>4. /\ pc' \in [Workers -> Places] /\ pc'[w] = UnitStart(j)
        /\ \A u \in Workers \ {w} : pc'[u] = pc[u]
    <3>1. UnitStart(j) \in Places
      BY <2>3 DEF Places
    <3>2. QED
      BY <1>2, <2>1, <3>1
  <2>5. /\ job' \in [Workers -> [plane : YUV, row : Nat]] /\ job'[w] = j
        /\ \A u \in Workers \ {w} : job'[u] = job[u]
    BY <1>2, <2>1, <2>2
  <2>6. /\ col' \in [Workers -> Nat] /\ col'[w] = 0
        /\ \A u \in Workers \ {w} : col'[u] = col[u]
    BY <1>2, <2>1
  <2>7. Busy(w)' /\ \A u \in Workers \ {w} : Busy(u)' <=> Busy(u)
    BY <2>3, <2>4 DEF Busy
  <2>8. TypeOK'
    BY <1>1, <1>2, <2>1, <2>4, <2>5, <2>6 DEF IInv, TypeOK
  <2>9. MainInv'
    <3>1. \A u \in Workers : pc'[u] # "done"
      BY <1>8, <2>3, <2>4 DEF IInv, MainInv
    <3>2. \A u \in Workers : u > started => pc'[u] = "idle"
      BY <1>5, <2>4
    <3>3. syncRange = 1
      BY <1>4 DEF IInv, MainInv
    <3>4. QED
      BY <1>1, <1>4, <3>1, <3>2, <3>3 DEF MainInv
  <2>10. JobInv'
    <3>1. \A u \in Workers \ {w} : Busy(u) => job[u] # j
      BY <2>1 DEF IInv, JobInv
    <3>2. ASSUME NEW u \in Workers, Busy(u)'
          PROVE  /\ job'[u] \in Jobs(frame) \ todo'
                 /\ \A v \in Workers \ {u} : Busy(v)' => job'[u] # job'[v]
      <4>1. CASE u = w
        BY <2>1, <2>2, <2>5, <2>7, <3>1, <4>1
      <4>2. CASE u # w
        <5>1. Busy(u) /\ job'[u] = job[u]
          BY <2>5, <2>7, <3>2, <4>2
        <5>2. job[u] \in Jobs(frame) \ todo'
          BY <2>1, <5>1 DEF IInv, JobInv
        <5>3. ASSUME NEW v \in Workers \ {u}, Busy(v)' PROVE job'[u] # job'[v]
          <6>1. CASE v = w
            BY <2>5, <3>1, <4>2, <5>1, <6>1
          <6>2. CASE v # w
            BY <2>5, <2>7, <5>1, <5>3, <6>2 DEF IInv, JobInv
          <6>3. QED
            BY <6>1, <6>2
        <5>4. QED
          BY <5>1, <5>2, <5>3
      <4>3. QED
        BY <4>1, <4>2
    <3>3. QED
      BY <1>1, <3>2 DEF JobInv
  <2>11. filtered[j.plane][j.row] = 0 /\ j \notin copied
    BY <2>1 DEF IInv, BooksInv
  <2>12. BooksInv'
    <3>1. BooksInv
      BY DEF IInv
    <3>2. ASSUME NEW i \in Jobs(frame)
          PROVE  i \in todo' \cup copied
                     \cup {job'[v] : v \in {u \in Workers : Busy(u)'}}
      <4>1. CASE i = j
        BY <2>5, <2>7, <4>1
      <4>2. CASE i \in copied \cup (todo \ {j})
        BY <2>1, <4>2
      <4>3. CASE i \in {job[v] : v \in {u \in Workers : Busy(u)}}
        <5>1. PICK v \in Workers : Busy(v) /\ i = job[v]
          BY <4>3
        <5>2. v # w
          BY <1>3, <5>1
        <5>3. Busy(v)' /\ job'[v] = i
          BY <2>5, <2>7, <5>1, <5>2
        <5>4. QED
          BY <5>3
      <4>4. QED
        BY <1>4, <3>1, <4>1, <4>2, <4>3 DEF BooksInv
    <3>3. QED
      BY <1>1, <2>1, <3>1, <3>2 DEF BooksInv, RowDone
  <2>13. StepInv'
    <3>1. \A u \in Workers \ {w} : Odd(u)' <=> Odd(u)
      BY <2>5 DEF Odd
    <3>2. Odd(w)' <=> j.row % 2 = 1
      BY <2>5 DEF Odd
    <3>3. ASSUME NEW u \in Workers, Busy(u)'
          PROVE  /\ col'[u] < frame.cols[job'[u].plane]
                 /\ pc'[u] \in Reads \cup {"filter"}
                      => filtered[job'[u].plane][job'[u].row] = col'[u]
                 /\ pc'[u] \in Reads => Odd(u)'
                 /\ pc'[u] = "write"
                      => /\ filtered[job'[u].plane][job'[u].row] = col'[u] + 1
                         /\ ~Odd(u)'
                 /\ job'[u] \in copied <=> pc'[u] = "copy"
      <4>1. CASE u = w
        BY <2>2, <2>3, <2>4, <2>5, <2>6, <2>11, <3>2, <4>1 DEF Reads
      <4>2. CASE u # w
        <5>1. Busy(u) /\ job'[u] = job[u] /\ col'[u] = col[u] /\ pc'[u] = pc[u]
          BY <2>4, <2>5, <2>6, <2>7, <3>3, <4>2
        <5>2. QED
          BY <3>1, <4>2, <5>1 DEF IInv, StepInv
      <4>3. QED
        BY <4>1, <4>2
    <3>4. QED
      BY <1>1, <3>3 DEF StepInv
  <2>14. WaitInv'
    <3>1. \A q, i, n : Ahead(q, i, n)' <=> Ahead(q, i, n)
      BY <1>1 DEF Ahead, RowDone
    <3>2. ASSUME NEW u \in Workers, Busy(u)', Odd(u)'
          PROVE  /\ pc'[u] \in {"readBelow", "waitBelow", "filter"}
                      => Ahead(job'[u].plane, job'[u].row - 1, col'[u] + 2)
                 /\ pc'[u] = "filter" /\ HasBelow(u)'
                      => Ahead(job'[u].plane, job'[u].row + 1, col'[u] + 2)
      <4>1. CASE u = w
        BY <2>3, <2>4, <2>5, <3>2, <4>1 DEF Odd
      <4>2. CASE u # w
        <5>1. Busy(u) /\ job'[u] = job[u] /\ col'[u] = col[u] /\ pc'[u] = pc[u]
          BY <2>4, <2>5, <2>6, <2>7, <3>2, <4>2
        <5>2. Odd(u) /\ (HasBelow(u)' <=> HasBelow(u))
          BY <1>1, <3>2, <5>1 DEF Odd, HasBelow
        <5>3. QED
          BY <5>1, <5>2 DEF IInv, WaitInv
      <4>3. QED
        BY <4>1, <4>2
    <3>3. QED
      BY <1>1, <3>1, <3>2 DEF WaitInv
  <2>15. QED
    BY <1>1, <1>4, <1>6, <2>8, <2>9, <2>10, <2>12, <2>13, <2>14 DEF IInv
<1>9. QED
  BY <1>7, <1>8

\* Ahead in the next state, of the row and number that it is given.
AheadNext(p, i, n) == filtered'[p][i] >= n \/ filtered'[p][i] = frame.cols[p]

LEMMA OddPositive == ASSUME NEW n \in Nat, n % 2 = 1 PROVE n > 0
OBVIOUS

\* What every step that finishes a unit, or publishes it, has in common.
LEMMA UnitIInv ==
  ASSUME FormatsAssumption, IInv, NEW w \in Workers, pc[w] \in {"filter", "write"},
         UNCHANGED <<alloc, syncRange, todo, job, mainPc, started, frame, frames>>,
         DOMAIN cur' = frame.on, DOMAIN filtered' = frame.on,
         \A q \in frame.on :
           /\ cur'[q] \in [JobRows(frame, q) -> -1..frame.cols[q] + 1]
           /\ filtered'[q] \in [JobRows(frame, q) -> 0..frame.cols[q]],
         CurInv', OddInv',
         \A q \in frame.on : \A k \in JobRows(frame, q) : \A n \in Int :
           Ahead(q, k, n) => AheadNext(q, k, n),
         \A j \in todo : filtered'[j.plane][j.row] = 0,
         \A k \in copied : RowDone(k.plane, k.row)',
         \A u \in Workers \ {w} : Busy(u) =>
           filtered'[job[u].plane][job[u].row] = filtered[job[u].plane][job[u].row],
         filtered'[job[w].plane][job[w].row] = col[w] + 1,
         pc' \in [Workers -> Places],
         \A u \in Workers \ {w} : \/ pc'[u] = pc[u]
                                  \/ pc[u] = "waitAbove" /\ pc'[u] = "readAbove"
                                  \/ pc[u] = "waitBelow" /\ pc'[u] = "readBelow",
         \/ pc'[w] = "write" /\ ~Odd(w) /\ UNCHANGED <<col, copied>>
         \/ NextUnit(w) /\ pc'[w] = AfterUnit(w)
  PROVE  IInv'
<1> DEFINE p == job[w].plane
           i == job[w].row
<1>1. /\ pc \in [Workers -> Places] /\ col \in [Workers -> Nat]
      /\ mainPc \in {"ready", "run"} /\ copied \subseteq Jobs(frame)
  BY DEF IInv, TypeOK
<1>2. Busy(w)
  BY DEF Busy
<1>3. /\ frame \in Formats /\ p \in frame.on /\ i \in JobRows(frame, p) /\ i \in Nat
      /\ col[w] \in Nat /\ col[w] < frame.cols[p] /\ job[w] \in Jobs(frame)
      /\ frame.cols[p] \in Nat
  BY <1>2, BusyFacts, Dim
<1>4. pc'[w] \in {"write", "copy", "readAbove", "filter"}
  BY DEF AfterUnit, UnitStart
<1>5. \A u \in Workers : Busy(u)' <=> Busy(u)
  BY <1>2, <1>4 DEF Busy
<1>6. job[w] \notin todo /\ job[w] \notin copied
      /\ \A u \in Workers \ {w} : Busy(u) => job[u] # job[w]
  BY <1>2 DEF IInv, JobInv, StepInv
<1>7. /\ col' \in [Workers -> Nat]
      /\ \A u \in Workers \ {w} : col'[u] = col[u]
  BY <1>1, <1>3 DEF NextUnit
<1>8. copied' \subseteq copied \cup {job[w]}
  BY DEF NextUnit
<1>9. \/ /\ copied' = copied /\ pc'[w] # "copy" /\ col'[w] < frame.cols[p]
         /\ pc'[w] = "write" => col'[w] = col[w] /\ ~Odd(w)
         /\ pc'[w] # "write" => /\ pc'[w] = UnitStart(job[w])
                                /\ col'[w] = col[w] + 1
      \/ /\ copied' = copied \cup {job[w]} /\ pc'[w] = "copy"
         /\ col'[w] = col[w] /\ col[w] + 1 = frame.cols[p]
  <2>1. CASE pc'[w] = "write" /\ ~Odd(w) /\ UNCHANGED <<col, copied>>
    BY <1>3, <2>1
  <2>2. CASE NextUnit(w) /\ pc'[w] = AfterUnit(w) /\ LastCol(w)
    BY <1>3, <2>2 DEF NextUnit, AfterUnit, LastCol
  <2>3. CASE NextUnit(w) /\ pc'[w] = AfterUnit(w) /\ ~LastCol(w)
    <3>1. UNCHANGED copied /\ col'[w] = col[w] + 1 /\ pc'[w] = UnitStart(job[w])
      BY <1>1, <2>3 DEF NextUnit, AfterUnit
    <3>2. pc'[w] # "copy" /\ pc'[w] # "write"
      BY <3>1 DEF UnitStart
    <3>3. col[w] + 1 < frame.cols[p]
      BY <1>3, <2>3 DEF LastCol
    <3>4. QED
      BY <3>1, <3>2, <3>3
  <2>4. QED
    BY <2>1, <2>2, <2>3
<1>10. TypeOK'
  BY <1>3, <1>7, <1>8 DEF IInv, TypeOK
<1>11. mainPc = "run"
  BY <1>2, InRun
<1>12. MainInv'
  <2>1. \A u \in Workers : pc'[u] = "done" => pc[u] = "done"
    BY <1>4
  <2>2. \A u \in Workers : u > started => pc[u] = "idle"
    BY <1>11 DEF IInv, MainInv
  <2>3. \A u \in Workers : u > started => pc'[u] = "idle"
    BY <2>2
  <2>4. QED
    BY <1>11, <2>1, <2>3 DEF IInv, MainInv
<1>13. JobInv'
  BY <1>5 DEF IInv, JobInv
<1>14. BooksInv'
  <2>1. BooksInv
    BY DEF IInv
  <2>2. \A j \in todo : filtered'[j.plane][j.row] = 0 /\ j \notin copied'
    BY <1>6, <1>8, <2>1 DEF BooksInv
  <2>3. \A k \in copied' : RowDone(k.plane, k.row)'
    <3>1. CASE copied' = copied
      BY <3>1
    <3>2. CASE copied' = copied \cup {job[w]} /\ col[w] + 1 = frame.cols[p]
      BY <3>2 DEF RowDone
    <3>3. QED
      BY <1>9, <3>1, <3>2
  <2>4. copied \subseteq copied'
    BY <1>9
  <2>5. Jobs(frame) \subseteq todo \cup copied'
                      \cup {job[u] : u \in {v \in Workers : Busy(v)'}}
    BY <1>5, <1>11, <2>1, <2>4 DEF BooksInv
  <2>6. QED
    BY <2>2, <2>3, <2>5 DEF BooksInv
<1>15. StepInv'
  <2>1. \A u \in Workers : Odd(u)' <=> Odd(u)
    BY DEF Odd
  <2>2. ASSUME NEW u \in Workers, Busy(u)'
        PROVE  /\ col'[u] < frame.cols[job[u].plane]
               /\ pc'[u] \in Reads \cup {"filter"}
                    => filtered'[job[u].plane][job[u].row] = col'[u]
               /\ pc'[u] \in Reads => Odd(u)
               /\ pc'[u] = "write"
                    => /\ filtered'[job[u].plane][job[u].row] = col'[u] + 1
                       /\ ~Odd(u)
               /\ job[u] \in copied' <=> pc'[u] = "copy"
    <3>1. CASE u = w
      <4>1. UnitStart(job[w]) \in {"readAbove", "filter"}
            /\ (UnitStart(job[w]) = "readAbove" => Odd(w))
        BY DEF UnitStart, Odd
      <4>2. CASE pc'[w] = "copy"
        BY <1>3, <1>9, <3>1, <4>2 DEF Reads
      <4>3. CASE pc'[w] = "write"
        BY <1>3, <1>6, <1>9, <3>1, <4>3 DEF Reads
      <4>4. CASE pc'[w] # "write" /\ pc'[w] # "copy"
        BY <1>3, <1>6, <1>9, <3>1, <4>1, <4>4 DEF Reads
      <4>5. QED
        BY <4>2, <4>3, <4>4
    <3>2. CASE u # w
      <4>1. Busy(u) /\ col'[u] = col[u]
            /\ filtered'[job[u].plane][job[u].row]
                 = filtered[job[u].plane][job[u].row]
        BY <1>5, <1>7, <2>2, <3>2
      <4>2. /\ pc'[u] \in Reads <=> pc[u] \in Reads
            /\ pc'[u] = "filter" <=> pc[u] = "filter"
            /\ pc'[u] = "write" <=> pc[u] = "write"
            /\ pc'[u] = "copy" <=> pc[u] = "copy"
        BY <3>2 DEF Reads
      <4>3. job[u] \in copied' <=> job[u] \in copied
        BY <1>6, <1>9, <3>2, <4>1
      <4>4. QED
        BY <4>1, <4>2, <4>3 DEF IInv, StepInv
    <3>3. QED
      BY <3>1, <3>2
  <2>3. QED
    BY <2>1, <2>2 DEF StepInv
<1>16. WaitInv'
  <2>1. \A u \in Workers : /\ Odd(u)' <=> Odd(u)
                           /\ HasBelow(u)' <=> HasBelow(u)
    BY DEF Odd, HasBelow
  <2>2. ASSUME NEW u \in Workers, Busy(u)', Odd(u)
        PROVE  /\ pc'[u] \in {"readBelow", "waitBelow", "filter"}
                    => AheadNext(job[u].plane, job[u].row - 1, col'[u] + 2)
               /\ pc'[u] = "filter" /\ HasBelow(u)
                    => AheadNext(job[u].plane, job[u].row + 1, col'[u] + 2)
    <3>1. CASE u = w
      <4>1. pc'[w] \notin {"readBelow", "waitBelow", "filter"}
        BY <1>4, <1>9, <2>2, <3>1 DEF UnitStart, Odd
      <4>2. QED
        BY <3>1, <4>1
    <3>2. CASE u # w
      <4>1. Busy(u) /\ col'[u] = col[u] /\ col[u] \in Nat
        BY <1>1, <1>5, <1>7, <2>2, <3>2
      <4>2. /\ job[u].plane \in frame.on /\ job[u].row \in Nat
            /\ job[u].row \in JobRows(frame, job[u].plane)
        BY <4>1, BusyFacts
      <4>3. job[u].row - 1 \in JobRows(frame, job[u].plane)
        <5>1. job[u].row > 0
          <6>1. job[u].row % 2 = 1
            BY <2>2 DEF Odd
          <6>2. QED
            BY <4>2, <6>1, OddPositive, Zenon
        <5>2. QED
          BY <1>3, <4>2, <5>1, RowsDown
      <4>4. HasBelow(u) => job[u].row + 1 \in JobRows(frame, job[u].plane)
        BY <1>3, <4>2, RowsCount DEF HasBelow
      <4>5. /\ pc[u] \in {"readBelow", "waitBelow", "filter"}
                 => Ahead(job[u].plane, job[u].row - 1, col[u] + 2)
            /\ pc[u] = "filter" /\ HasBelow(u)
                 => Ahead(job[u].plane, job[u].row + 1, col[u] + 2)
        BY <2>2, <4>1 DEF IInv, WaitInv
      <4>6. /\ pc'[u] \in {"readBelow", "waitBelow", "filter"}
                 => pc[u] \in {"readBelow", "waitBelow", "filter"}
            /\ pc'[u] = "filter" => pc[u] = "filter"
        BY <3>2
      <4>7. col[u] + 2 \in Int
        BY <4>1
      <4>8. /\ Ahead(job[u].plane, job[u].row - 1, col[u] + 2)
                 => AheadNext(job[u].plane, job[u].row - 1, col[u] + 2)
            /\ HasBelow(u) /\ Ahead(job[u].plane, job[u].row + 1, col[u] + 2)
                 => AheadNext(job[u].plane, job[u].row + 1, col[u] + 2)
        BY <4>2, <4>3, <4>4, <4>7
      <4>9. QED
        BY <4>1, <4>5, <4>6, <4>8
    <3>3. QED
      BY <3>1, <3>2
  <2>3. QED
    BY <2>1, <2>2 DEF WaitInv, Ahead, AheadNext, RowDone
<1>17. QED
  BY <1>10, <1>11, <1>12, <1>13, <1>14, <1>15, <1>16 DEF IInv

\* A unit more of a row: nothing else moves, and no odd row overtakes.
LEMMA FilterIInv ==
  ASSUME FormatsAssumption, IInv, NEW w \in Workers, Filter(w) PROVE IInv'
<1> DEFINE p == job[w].plane
           i == job[w].row
<1>1. /\ pc[w] = "filter"
      /\ filtered' = [filtered EXCEPT ![p][i] = @ + 1]
      /\ UNCHANGED <<alloc, syncRange, cur, todo, job, mainPc, started, frame, frames>>
  BY DEF Filter, syncVars, mainVars
<1>2. TypeOK /\ Busy(w) /\ pc \in [Workers -> Places]
  BY <1>1 DEF IInv, TypeOK, Busy
<1>3. /\ frame \in Formats /\ p \in frame.on /\ i \in JobRows(frame, p) /\ i \in Nat
      /\ col[w] \in Nat /\ col[w] < frame.cols[p]
      /\ job[w] = [plane |-> p, row |-> i]
  BY <1>2, BusyFacts
<1>4. filtered[p][i] = col[w]
  BY <1>1, <1>2 DEF IInv, StepInv
<1>5. /\ DOMAIN filtered = frame.on
      /\ \A q \in frame.on :
           /\ filtered[q] \in [JobRows(frame, q) -> 0..frame.cols[q]]
           /\ frame.cols[q] \in Nat
  BY <1>2, <1>3, Dim DEF TypeOK
<1>6. filtered'[p][i] = col[w] + 1
  BY <1>1, <1>3, <1>4, <1>5
<1>7. \A q \in frame.on : \A k \in JobRows(frame, q) :
        q # p \/ k # i => filtered'[q][k] = filtered[q][k]
  BY <1>1, <1>3, <1>5
<1>8. DOMAIN filtered' = frame.on
  BY <1>1, <1>5
<1>9. \A q \in frame.on : filtered'[q] \in [JobRows(frame, q) -> 0..frame.cols[q]]
  <2>1. TAKE q \in frame.on
  <2>2. CASE q = p
    <3>1. filtered'[p] = [filtered[p] EXCEPT ![i] = @ + 1]
      BY <1>1, <1>3, <1>5
    <3>2. col[w] + 1 \in 0..frame.cols[p]
      BY <1>3, <1>5
    <3>3. QED
      BY <1>3, <1>4, <1>5, <2>2, <3>1, <3>2
  <2>3. CASE q # p
    BY <1>1, <1>5, <2>3
  <2>4. QED
    BY <2>2, <2>3
<1>10. ~RowDone(p, i)
  BY <1>3, <1>4, <1>5 DEF RowDone
<1>11. ASSUME NEW q \in frame.on, NEW k \in JobRows(frame, q)
       PROVE  RowDone(q, k) => RowDone(q, k)'
  BY <1>1, <1>7, <1>10 DEF RowDone
<1>12. ASSUME NEW q \in frame.on, NEW k \in JobRows(frame, q)
       PROVE  filtered'[q][k] >= filtered[q][k] /\ filtered[q][k] \in Nat
              /\ filtered'[q][k] \in Nat
  <2>1. filtered[q][k] \in Nat /\ filtered'[q][k] \in Nat
    BY <1>5, <1>9
  <2>2. CASE q = p /\ k = i
    BY <1>4, <1>6, <2>1, <2>2
  <2>3. CASE q # p \/ k # i
    BY <1>7, <2>1, <2>3
  <2>4. QED
    BY <2>1, <2>2, <2>3
<1>13. \A q \in frame.on : \A k \in JobRows(frame, q) : \A n \in Int :
         Ahead(q, k, n) => AheadNext(q, k, n)
  BY <1>1, <1>11, <1>12 DEF Ahead, AheadNext, RowDone
<1>14. CurInv'
  <2>1. ASSUME NEW q \in frame.on, NEW k \in JobRows(frame, q)
        PROVE  cur[q][k] < filtered'[q][k] \/ RowDone(q, k)'
    <3>1. cur[q][k] < filtered[q][k] \/ RowDone(q, k)
      BY DEF IInv, CurInv
    <3>2. cur[q][k] \in Int
      BY <1>2, <1>3, Done
    <3>3. QED
      BY <1>11, <1>12, <3>1, <3>2
  <2>2. QED
    BY <1>1, <2>1 DEF CurInv
<1>15. OddInv'
  <2>1. ASSUME NEW q \in frame.on, NEW m \in JobRows(frame, q),
               NEW k \in JobRows(frame, q), m % 2 = 1, k = m - 1 \/ k = m + 1,
               filtered'[q][m] > 0
        PROVE  AheadNext(q, k, filtered'[q][m] + 1)
    <3>1. filtered'[q][m] + 1 \in Int /\ filtered[q][m] \in Nat
      BY <1>12
    <3>2. CASE q = p /\ m = i
      <4>1. Odd(w)
        BY <2>1, <3>2 DEF Odd
      <4>2. k = i + 1 => HasBelow(w)
        BY <1>3, <2>1, <3>2, RowsCount DEF HasBelow
      <4>3. Ahead(p, k, col[w] + 2)
        BY <1>1, <1>2, <2>1, <3>2, <4>1, <4>2 DEF IInv, WaitInv
      <4>4. filtered'[q][m] + 1 = col[w] + 2
        BY <1>3, <1>6, <3>2
      <4>5. Ahead(q, k, filtered'[q][m] + 1)
        BY <3>2, <4>3, <4>4
      <4>6. QED
        BY <1>13, <2>1, <3>1, <4>5
    <3>3. CASE q # p \/ m # i
      <4>1. filtered'[q][m] = filtered[q][m]
        BY <1>7, <3>3
      <4>2. Ahead(q, k, filtered[q][m] + 1)
        BY <2>1, <4>1 DEF IInv, OddInv
      <4>3. Ahead(q, k, filtered'[q][m] + 1)
        BY <4>1, <4>2
      <4>4. QED
        BY <1>13, <2>1, <3>1, <4>3
    <3>4. QED
      BY <3>2, <3>3
  <2>2. QED
    BY <1>1, <2>1 DEF OddInv, Ahead, AheadNext, RowDone
<1>16. job[w] \notin todo /\ \A u \in Workers \ {w} : Busy(u) => job[u] # job[w]
  BY <1>2 DEF IInv, JobInv
<1>17. \A j \in todo : filtered'[j.plane][j.row] = 0
  <2>1. TAKE j \in todo
  <2>2. j \in Jobs(frame) /\ filtered[j.plane][j.row] = 0
    BY <1>2 DEF IInv, BooksInv, TypeOK
  <2>3. /\ j.plane \in frame.on /\ j.row \in JobRows(frame, j.plane)
        /\ j = [plane |-> j.plane, row |-> j.row]
    BY <1>3, <2>2, JobFacts
  <2>4. j.plane # p \/ j.row # i
    BY <1>3, <1>16, <2>3
  <2>5. QED
    BY <1>7, <2>2, <2>3, <2>4
<1>18. \A k \in copied : RowDone(k.plane, k.row)'
  <2>1. TAKE k \in copied
  <2>2. k \in Jobs(frame) /\ RowDone(k.plane, k.row)
    BY <1>2 DEF IInv, BooksInv, TypeOK
  <2>3. k.plane \in frame.on /\ k.row \in JobRows(frame, k.plane)
    BY <1>3, <2>2, JobFacts
  <2>4. QED
    BY <1>11, <2>2, <2>3
<1>19. \A u \in Workers \ {w} : Busy(u) =>
         filtered'[job[u].plane][job[u].row] = filtered[job[u].plane][job[u].row]
  <2>1. SUFFICES ASSUME NEW u \in Workers \ {w}, Busy(u)
                 PROVE  filtered'[job[u].plane][job[u].row]
                          = filtered[job[u].plane][job[u].row]
    OBVIOUS
  <2>2. /\ job[u].plane \in frame.on /\ job[u].row \in JobRows(frame, job[u].plane)
        /\ job[u] = [plane |-> job[u].plane, row |-> job[u].row]
    BY <2>1, BusyFacts
  <2>3. job[u].plane # p \/ job[u].row # i
    BY <1>3, <1>16, <2>1, <2>2
  <2>4. QED
    BY <1>7, <2>2, <2>3
<1>20. \/ pc' = [pc EXCEPT ![w] = "write"] /\ ~Odd(w) /\ UNCHANGED <<col, copied>>
       \/ NextUnit(w) /\ pc' = [pc EXCEPT ![w] = AfterUnit(w)]
  BY DEF Filter
<1>21. AfterUnit(w) \in Places
  BY DEF AfterUnit, UnitStart, Places
<1>22. /\ pc' \in [Workers -> Places]
       /\ \A u \in Workers \ {w} : pc'[u] = pc[u]
  BY <1>2, <1>20, <1>21 DEF Places
<1>23. \/ pc'[w] = "write" /\ ~Odd(w) /\ UNCHANGED <<col, copied>>
       \/ NextUnit(w) /\ pc'[w] = AfterUnit(w)
  BY <1>2, <1>20
<1>24. \A q \in frame.on : cur'[q] \in [JobRows(frame, q) -> -1..frame.cols[q] + 1]
  BY <1>1, <1>2 DEF TypeOK
<1>25. DOMAIN cur' = frame.on
  BY <1>1, <1>2 DEF TypeOK
<1>26. QED
  BY <1>1, <1>6, <1>8, <1>9, <1>13, <1>14, <1>15, <1>17, <1>18, <1>19, <1>22,
     <1>23, <1>24, <1>25, UnitIInv

\* Publishing a unit of an even row: no more than what is filtered.
LEMMA WriteIInv ==
  ASSUME FormatsAssumption, IInv, NEW w \in Workers, Write(w) PROVE IInv'
<1> DEFINE p == job[w].plane
           i == job[w].row
           x == IF LastCol(w) THEN frame.cols[p] + syncRange ELSE col[w]
<1>1. /\ pc[w] = "write" /\ cur' = [cur EXCEPT ![p][i] = x] /\ NextUnit(w)
      /\ pc' = [u \in Workers |-> IF u = w THEN AfterUnit(w) ELSE Woken(u, p, i)]
      /\ UNCHANGED <<alloc, syncRange, todo, job, mainPc, started, frame, frames,
                     filtered>>
  BY DEF Write, syncVars, mainVars
<1>2. TypeOK /\ Busy(w) /\ pc \in [Workers -> Places]
  BY <1>1 DEF IInv, TypeOK, Busy
<1>3. /\ frame \in Formats /\ p \in frame.on /\ i \in JobRows(frame, p)
      /\ col[w] \in Nat /\ col[w] < frame.cols[p] /\ frame.cols[p] \in Nat
  <2>1. /\ frame \in Formats /\ p \in frame.on /\ i \in JobRows(frame, p)
        /\ col[w] \in Nat /\ col[w] < frame.cols[p]
    BY <1>2, BusyFacts
  <2>2. QED
    BY <2>1, Dim
<1>4. filtered[p][i] = col[w] + 1
  BY <1>1, <1>2 DEF IInv, StepInv
<1>5. x \in -1..frame.cols[p] + 1 /\ (x < filtered[p][i] \/ RowDone(p, i))
  <2>1. syncRange = 1
    BY <1>2, InRun
  <2>2. QED
    BY <1>3, <1>4, <2>1 DEF LastCol, RowDone
<1> HIDE DEF x
<1>6. /\ DOMAIN cur = frame.on /\ DOMAIN filtered = frame.on
      /\ \A q \in frame.on :
           /\ cur[q] \in [JobRows(frame, q) -> -1..frame.cols[q] + 1]
           /\ filtered[q] \in [JobRows(frame, q) -> 0..frame.cols[q]]
  BY <1>2 DEF TypeOK
<1>7. cur'[p][i] = x /\ DOMAIN cur' = frame.on
  BY <1>1, <1>3, <1>6
<1>8. \A q \in frame.on : \A k \in JobRows(frame, q) :
        q # p \/ k # i => cur'[q][k] = cur[q][k]
  BY <1>1, <1>3, <1>6
<1>9. \A q \in frame.on : cur'[q] \in [JobRows(frame, q) -> -1..frame.cols[q] + 1]
  <2>1. TAKE q \in frame.on
  <2>2. CASE q = p
    <3>1. cur'[p] = [cur[p] EXCEPT ![i] = x]
      BY <1>1, <1>3, <1>6
    <3>2. QED
      BY <1>3, <1>5, <1>6, <2>2, <3>1
  <2>3. CASE q # p
    BY <1>1, <1>6, <2>3
  <2>4. QED
    BY <2>2, <2>3
<1>10. CurInv'
  <2>1. ASSUME NEW q \in frame.on, NEW k \in JobRows(frame, q)
        PROVE  cur'[q][k] < filtered[q][k] \/ RowDone(q, k)
    <3>1. CASE q = p /\ k = i
      BY <1>5, <1>7, <3>1
    <3>2. CASE q # p \/ k # i
      BY <1>8, <3>2 DEF IInv, CurInv
    <3>3. QED
      BY <3>1, <3>2
  <2>2. QED
    BY <1>1, <2>1 DEF CurInv, RowDone
<1>11. OddInv'
  BY <1>1 DEF IInv, OddInv, Ahead, RowDone
<1>12. \A q \in frame.on : \A k \in JobRows(frame, q) : \A n \in Int :
         Ahead(q, k, n) => AheadNext(q, k, n)
  BY <1>1 DEF Ahead, AheadNext, RowDone
<1>13. /\ \A j \in todo : filtered'[j.plane][j.row] = 0
       /\ \A k \in copied : RowDone(k.plane, k.row)'
  BY <1>1 DEF IInv, BooksInv, RowDone
<1>14. \A u \in Workers \ {w} : \/ pc'[u] = pc[u]
                                \/ pc[u] = "waitAbove" /\ pc'[u] = "readAbove"
                                \/ pc[u] = "waitBelow" /\ pc'[u] = "readBelow"
  BY <1>1 DEF Woken
<1>15. pc'[w] = AfterUnit(w)
  BY <1>1
<1>16. pc' \in [Workers -> Places]
  <2>1. AfterUnit(w) \in Places
    BY DEF AfterUnit, UnitStart, Places
  <2>2. \A u \in Workers : pc'[u] \in Places
    BY <1>2, <1>14, <1>15, <2>1 DEF Places
  <2>3. QED
    BY <1>1, <2>2
<1>17. \A q \in frame.on : filtered'[q] \in [JobRows(frame, q) -> 0..frame.cols[q]]
  BY <1>1, <1>6
<1>18. DOMAIN filtered' = frame.on /\ filtered'[p][i] = col[w] + 1
  BY <1>1, <1>4, <1>6
<1>19. QED
  BY <1>1, <1>7, <1>9, <1>10, <1>11, <1>12, <1>13, <1>14, <1>15, <1>16, <1>17,
     <1>18, UnitIInv

(***************************************************************************)
(* The theorems.                                                           *)
(***************************************************************************)

LEMMA StepIInv ==
  ASSUME FormatsAssumption, IInv, [Next]_vars PROVE IInv'
<1>1. CASE UNCHANGED vars
  <2>1. UNCHANGED <<alloc, syncRange, cur, todo, pc, job, col, mainPc, started,
                    frame, frames, filtered, copied>>
    BY <1>1 DEF vars, syncVars, workerVars, mainVars
  <2>2. TypeOK' /\ MainInv' /\ CurInv' /\ OddInv'
    BY <2>1 DEF IInv, TypeOK, MainInv, CurInv, OddInv, Ahead, RowDone
  <2>3. JobInv' /\ BooksInv' /\ StepInv'
    BY <2>1 DEF IInv, JobInv, BooksInv, StepInv, Busy, RowDone, Odd
  <2>4. WaitInv'
    BY <2>1 DEF IInv, WaitInv, Busy, Odd, HasBelow, Ahead, RowDone
  <2>5. QED
    BY <2>1, <2>2, <2>3, <2>4 DEF IInv
<1>2. ASSUME NEW f \in Formats, Begin(f) PROVE IInv'
  BY <1>2, BeginIInv
<1>3. ASSUME NEW f \in Formats, BeginFails(f) PROVE IInv'
  BY <1>3, BeginFailsIInv
<1>4. CASE Launch
  BY <1>4, LaunchIInv
<1>5. CASE Finish
  BY <1>5, FinishIInv
<1>6. ASSUME NEW w \in Workers, WorkerStep(w) PROVE IInv'
  BY <1>6, TakeIInv, ReadAboveIInv, ReadBelowIInv, FilterIInv, WriteIInv, CopyIInv
     DEF WorkerStep
<1>7. ASSUME NEW w \in Workers, Spurious(w) PROVE IInv'
  BY <1>7, SpuriousIInv
<1>8. QED
  BY <1>1, <1>2, <1>3, <1>4, <1>5, <1>6, <1>7 DEF Next

\* The behaviours without the fairness: what safety rests on.
Safe == Init /\ [][Next]_vars

\* The inductive invariant, of any number of workers and frames.
THEOREM Safety == FormatsAssumption => (Safe => []IInv)
<1> SUFFICES ASSUME FormatsAssumption PROVE Safe => []IInv
  OBVIOUS
<1>1. Init => IInv
  BY InitIInv
<1>2. IInv /\ [Next]_vars => IInv'
  BY StepIInv
<1>3. QED
  BY <1>1, <1>2, PTL DEF Safe

\* Every variable keeps to its type.
THEOREM TypeCorrect == FormatsAssumption => (Spec => []TypeOK)
<1> SUFFICES ASSUME FormatsAssumption PROVE Spec => []TypeOK
  OBVIOUS
<1>1. Init => IInv
  BY InitIInv
<1>2. IInv /\ [Next]_vars => IInv'
  BY StepIInv
<1>3. IInv => TypeOK
  BY DEF IInv
<1>4. QED
  BY <1>1, <1>2, <1>3, PTL DEF Spec

\* No unit is filtered while lines that it reads are copied over or swapped, in
\* frames of any height, unit size and number of planes.
THEOREM Intact == FormatsAssumption => (Spec => []InputIntact)
<1> SUFFICES ASSUME FormatsAssumption PROVE Spec => []InputIntact
  OBVIOUS
<1>1. Init => IInv
  BY InitIInv
<1>2. IInv /\ [Next]_vars => IInv'
  BY StepIInv
<1>3. IInv => InputIntact
  BY IntactFollows
<1>4. QED
  BY <1>1, <1>2, <1>3, PTL DEF Spec

\* Only finished rows are copied back, and on return all of them are.
THEOREM Complete == FormatsAssumption => (Spec => []OutputComplete)
<1> SUFFICES ASSUME FormatsAssumption PROVE Spec => []OutputComplete
  OBVIOUS
<1>1. Init => IInv
  BY InitIInv
<1>2. IInv /\ [Next]_vars => IInv'
  BY StepIInv
<1>3. IInv => OutputComplete
  BY CompleteFollows
<1>4. QED
  BY <1>1, <1>2, <1>3, PTL DEF Spec

-----------------------------------------------------------------------------
(* The rows that are there.                                                *)

\* What decode_restoration_mode() reads: luma units at least as high as a
\* superblock, and chroma units half of that at most where chroma has half the
\* lines; in the frames meant here only of an even height.
UnitsFit(f) ==
  \A p \in f.on : \/ f.unit[p] >= f.sb
                  \/ SubY(f, p) = 1 /\ 2 * f.unit[p] >= f.sb /\ f.height % 2 = 0

\* Rows are allocated for the plane with the most rows of superblocks.
LEMMA AllocLeast ==
  ASSUME FormatsAssumption, NEW f \in Formats, NEW p \in 0..f.planes - 1
  PROVE  CountUnits(f.sb, PlaneHeight(f, p)) <= AllocRows(f)
<1>1. /\ f.height \in Nat \ {0} /\ f.ssY \in {0, 1} /\ f.sb \in {64, 128}
      /\ f.planes \in {1, 3}
  BY DEF FormatsAssumption
<1> DEFINE n(q) == CountUnits(f.sb, PlaneHeight(f, q))
<1>2. ASSUME NEW q \in 0..f.planes - 1 PROVE n(q) \in Nat
  <2>1. PlaneHeight(f, q) \in Nat
    BY <1>1 DEF PlaneHeight, SubY
  <2>2. CASE f.sb = 64
    BY <2>1, <2>2 DEF CountUnits
  <2>3. CASE f.sb = 128
    BY <2>1, <2>3 DEF CountUnits
  <2>4. QED
    BY <1>1, <2>2, <2>3
<1> DEFINE rows == {n(q) : q \in 0..f.planes - 1}
<1>3. AllocRows(f) = CHOOSE k \in rows : \A m \in rows : m <= k
  BY DEF AllocRows
<1>4. \E k \in rows : \A m \in rows : m <= k
  <2> HIDE DEF n
  <2>1. CASE f.planes = 1
    <3>1. n(0) \in rows /\ \A m \in rows : m = n(0)
      BY <2>1
    <3>2. QED
      BY <1>2, <2>1, <3>1
  <2>2. CASE f.planes = 3
    <3>1. /\ n(0) \in rows /\ n(1) \in rows /\ n(2) \in rows
          /\ \A m \in rows : m = n(0) \/ m = n(1) \/ m = n(2)
      BY <2>2
    <3>2. n(0) \in Nat /\ n(1) \in Nat /\ n(2) \in Nat
      BY <1>2, <2>2
    <3>3. QED
      BY <3>1, <3>2
  <2>3. QED
    BY <1>1, <2>1, <2>2
<1>5. n(p) \in rows
  OBVIOUS
<1> HIDE DEF rows
<1>6. \A m \in rows : m <= AllocRows(f)
  BY Zenon, <1>3, <1>4
<1>7. QED
  BY <1>5, <1>6

\* A plane has no more rows of units than rows were allocated for.
LEMMA UnitRowsFit ==
  ASSUME FormatsAssumption, NEW f \in Formats, UnitsFit(f), NEW p \in f.on
  PROVE  UnitRows(f, p) <= AllocRows(f)
<1>1. /\ f.height \in Nat \ {0} /\ f.ssY \in {0, 1} /\ f.sb \in {64, 128}
      /\ f.planes \in {1, 3} /\ p \in 0..f.planes - 1
  BY DEF FormatsAssumption, YUV
<1>2. /\ f.unit[p] \in {32, 64, 128, 256} /\ PlaneHeight(f, p) \in Nat \ {0}
  BY Dim
<1>3. AllocRows(f) \in Nat
  BY AllocNat
<1>4. CASE f.unit[p] >= f.sb
  <2> DEFINE h == PlaneHeight(f, p)
  <2> HIDE DEF h
  <2>1. CountUnits(f.unit[p], h) <= CountUnits(f.sb, h)
    <3>1. h \in Nat
      BY <1>2 DEF h
    <3>2. CASE f.unit[p] = 32
      BY <1>1, <1>4, <3>2
    <3>3. CASE f.unit[p] = 64 /\ f.sb = 64
      BY <3>1, <3>3 DEF CountUnits
    <3>4. CASE f.unit[p] = 128 /\ f.sb = 64
      BY <3>1, <3>4 DEF CountUnits
    <3>5. CASE f.unit[p] = 128 /\ f.sb = 128
      BY <3>1, <3>5 DEF CountUnits
    <3>6. CASE f.unit[p] = 256 /\ f.sb = 64
      BY <3>1, <3>6 DEF CountUnits
    <3>7. CASE f.unit[p] = 256 /\ f.sb = 128
      BY <3>1, <3>7 DEF CountUnits
    <3>8. QED
      BY <1>1, <1>2, <1>4, <3>2, <3>3, <3>4, <3>5, <3>6, <3>7
  <2>2. CountUnits(f.sb, h) <= AllocRows(f)
    BY <1>1, AllocLeast DEF h
  <2>3. CountUnits(f.unit[p], h) \in Int /\ CountUnits(f.sb, h) \in Int
    BY <1>1, <1>2 DEF CountUnits, h
  <2>4. QED
    BY <1>3, <2>1, <2>2, <2>3 DEF UnitRows, h
<1>5. CASE SubY(f, p) = 1 /\ 2 * f.unit[p] >= f.sb /\ f.height % 2 = 0
  <2>1. PICK c \in Nat : f.height = 2 * c
    <3>1. f.height = 2 * (f.height \div 2) /\ f.height \div 2 \in Nat
      BY <1>1, <1>5
    <3>2. QED
      BY <3>1
  <2>2. PlaneHeight(f, p) = c /\ PlaneHeight(f, 0) = 2 * c
    BY <1>5, <2>1 DEF PlaneHeight, SubY
  <2>3. CountUnits(f.unit[p], c) <= CountUnits(f.sb, 2 * c)
    <3>1. CASE f.unit[p] = 32 /\ f.sb = 64
      BY <3>1 DEF CountUnits
    <3>2. CASE f.unit[p] = 64 /\ f.sb = 64
      BY <3>2 DEF CountUnits
    <3>3. CASE f.unit[p] = 64 /\ f.sb = 128
      BY <3>3 DEF CountUnits
    <3>4. CASE f.unit[p] = 128 /\ f.sb = 64
      BY <3>4 DEF CountUnits
    <3>5. CASE f.unit[p] = 128 /\ f.sb = 128
      BY <3>5 DEF CountUnits
    <3>6. CASE f.unit[p] = 256 /\ f.sb = 64
      BY <3>6 DEF CountUnits
    <3>7. CASE f.unit[p] = 256 /\ f.sb = 128
      BY <3>7 DEF CountUnits
    <3>8. QED
      BY <1>1, <1>2, <1>5, <3>1, <3>2, <3>3, <3>4, <3>5, <3>6, <3>7
  <2>4. CountUnits(f.sb, 2 * c) <= AllocRows(f)
    BY <1>1, <2>2, AllocLeast
  <2>5. CountUnits(f.unit[p], c) \in Int /\ CountUnits(f.sb, 2 * c) \in Int
    BY <1>1, <1>2 DEF CountUnits
  <2>6. QED
    BY <1>3, <2>2, <2>3, <2>4, <2>5 DEF UnitRows
<1>6. QED
  BY <1>4, <1>5 DEF UnitsFit

\* As many pairs of a plane and a row as the two numbers say.
LEMMA JobsCount ==
  ASSUME NEW S, NEW m \in Nat, NEW n \in Nat,
         \A j \in S : /\ j = [plane |-> j.plane, row |-> j.row]
                      /\ j.plane \in 0..m - 1 /\ j.row \in 0..n - 1
  PROVE  Cardinality(S) <= n * m
<1> DEFINE A == 0..m - 1
           B == 0..n - 1
           g == [j \in S |-> <<j.plane, j.row>>]
<1>1. /\ IsFiniteSet(A) /\ Cardinality(A) = m
      /\ IsFiniteSet(B) /\ Cardinality(B) = n
  <2>1. 0 \in Int /\ m - 1 \in Int /\ n - 1 \in Int
    OBVIOUS
  <2>2. IsFiniteSet(A) /\ Cardinality(A) = IF 0 > m - 1 THEN 0 ELSE (m - 1) - 0 + 1
    BY <2>1, FS_Interval
  <2>3. IsFiniteSet(B) /\ Cardinality(B) = IF 0 > n - 1 THEN 0 ELSE (n - 1) - 0 + 1
    BY <2>1, FS_Interval
  <2>4. QED
    BY <2>2, <2>3
<1>2. IsFiniteSet(A \X B) /\ Cardinality(A \X B) = m * n
  BY <1>1, FS_Product
<1>3. g \in Injection(S, A \X B)
  <2>1. g \in [S -> A \X B]
    OBVIOUS
  <2>2. ASSUME NEW j \in S, NEW k \in S, g[j] = g[k] PROVE j = k
    <3>1. j.plane = k.plane /\ j.row = k.row
      BY <2>2
    <3>2. QED
      BY <3>1
  <2>3. QED
    BY <2>1, <2>2 DEF Injection, IsInjective
<1>4. Cardinality(S) <= m * n
  BY <1>2, <1>3, FS_Injection
<1>5. QED
  BY <1>4

\* Every job of a frame whose units fit has its place.
LEMMA JobsFit ==
  ASSUME FormatsAssumption, NEW f \in Formats, UnitsFit(f)
  PROVE  /\ \A j \in Jobs(f) : j.row < AllocRows(f) /\ j.plane < f.planes
         /\ Cardinality(Jobs(f)) <= AllocRows(f) * f.planes
<1>1. AllocRows(f) \in Nat /\ f.planes \in Nat
  BY AllocNat
<1>2. ASSUME NEW j \in Jobs(f)
      PROVE  /\ j = [plane |-> j.plane, row |-> j.row]
             /\ j.plane \in 0..f.planes - 1 /\ j.row \in 0..AllocRows(f) - 1
  <2>1. PICK p \in f.on : j \in [plane : {p}, row : JobRows(f, p)]
    BY DEF Jobs
  <2>2. j = [plane |-> j.plane, row |-> j.row] /\ j.plane = p /\ j.row \in JobRows(f, p)
    BY <2>1
  <2>3. p \in Nat /\ p < f.planes
    BY <1>1, Dim DEF FormatsAssumption, YUV
  <2>4. j.row \in Nat /\ j.row < UnitRows(f, p) /\ UnitRows(f, p) \in Nat
    BY <2>2, RowsDown, RowsCount
  <2>5. UnitRows(f, p) <= AllocRows(f)
    BY UnitRowsFit
  <2>6. QED
    BY <1>1, <2>2, <2>3, <2>4, <2>5
<1>3. Cardinality(Jobs(f)) <= AllocRows(f) * f.planes
  BY <1>1, <1>2, JobsCount
<1>4. QED
  BY <1>1, <1>2, <1>3

\* A frame is restored with the arrays of its own size.
AllocInv == mainPc = "run" =>
              /\ syncRange = 1
              /\ alloc.rows = AllocRows(frame) /\ alloc.planes = frame.planes

LEMMA StepAlloc == IInv /\ AllocInv /\ [Next]_vars => AllocInv'
<1> SUFFICES ASSUME IInv, AllocInv, [Next]_vars PROVE AllocInv'
  OBVIOUS
<1>1. ASSUME NEW f \in Formats, Begin(f) PROVE AllocInv'
  <2>1. frame' = f
    BY <1>1 DEF Begin
  <2>2. CASE NeedsAlloc(f)
    BY <1>1, <2>1, <2>2 DEF Begin, AllocInv, AllocRows, PlaneHeight, SubY, CountUnits
  <2>3. CASE ~NeedsAlloc(f)
    <3>1. /\ syncRange' = syncRange /\ alloc' = alloc /\ syncRange # 0
          /\ alloc.rows = AllocRows(f) /\ alloc.planes = f.planes
      BY <1>1, <2>3 DEF Begin, NeedsAlloc, syncVars
    <3>2. AllocRows(frame)' = AllocRows(f)
      BY <2>1 DEF AllocRows, PlaneHeight, SubY, CountUnits
    <3>3. syncRange \in {0, 1}
      BY DEF IInv, TypeOK
    <3>4. QED
      BY <2>1, <3>1, <3>2, <3>3 DEF AllocInv
  <2>4. QED
    BY <2>2, <2>3
<1>2. ASSUME NEW f \in Formats, BeginFails(f) PROVE AllocInv'
  BY <1>2 DEF BeginFails, AllocInv
<1>3. CASE Launch
  BY <1>3 DEF Launch, AllocInv, syncVars
<1>4. CASE Finish
  BY <1>4 DEF Finish, AllocInv
<1>5. ASSUME NEW w \in Workers, WorkerStep(w) \/ Spurious(w) PROVE AllocInv'
  <2>1. UNCHANGED <<alloc, syncRange, mainPc, frame>>
    BY <1>5 DEF WorkerStep, Spurious, Take, ReadAbove, ReadBelow, Filter, Write,
       Copy, mainVars, syncVars
  <2>2. QED
    BY <2>1 DEF AllocInv
<1>6. CASE UNCHANGED vars
  BY <1>6 DEF AllocInv, vars, syncVars, mainVars
<1>7. QED
  BY <1>1, <1>2, <1>3, <1>4, <1>5, <1>6 DEF Next

\* Rows and workers fit together in every state.
LEMMA RowsFollow ==
  ASSUME FormatsAssumption, IInv, AllocInv, \A f \in Formats : UnitsFit(f)
  PROVE  RowsThere
<1>1. frame \in Formats
  BY DEF IInv, TypeOK
<1>2. QED
  BY <1>1, JobsFit DEF AllocInv, RowsThere

\* Every job has its place in the queue and every row its mutex, condition and
\* progress, as long as no chroma plane of half units has an odd number of lines.
THEOREM JobsHaveRows ==
  FormatsAssumption /\ (\A f \in Formats : UnitsFit(f)) => (Spec => []RowsThere)
<1> SUFFICES ASSUME FormatsAssumption, \A f \in Formats : UnitsFit(f)
             PROVE  Spec => []RowsThere
  OBVIOUS
<1>1. Init => IInv /\ AllocInv
  BY InitIInv DEF Init, AllocInv
<1>2. (IInv /\ AllocInv) /\ [Next]_vars => (IInv /\ AllocInv)'
  BY StepIInv, StepAlloc
<1>3. IInv /\ AllocInv => RowsThere
  BY RowsFollow
<1>4. QED
  BY <1>1, <1>2, <1>3, PTL DEF Spec
=============================================================================
