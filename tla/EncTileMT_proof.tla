--------------------------- MODULE EncTileMT_proof ---------------------------
(***************************************************************************)
(* Proofs about EncTileMT for any number of threads, tile columns and      *)
(* frames, as long as g_threads does not become less: every tile is        *)
(* encoded exactly once, and what is counted is added up exactly once.     *)
(***************************************************************************)
EXTENDS EncTileMT, WellFoundedInduction, TLAPS

(***************************************************************************)
(* Arithmetic: every tile falls to exactly one worker.                     *)
(***************************************************************************)

\* Every number has a remainder: the loops that start at 0..n-1 with stride n
\* reach every tile.
LEMMA Division ==
  ASSUME NEW n \in Nat \ {0}, NEW t \in Nat
  PROVE  \E w \in 0..n - 1 : \E k \in Nat : t = w + n * k
<1> DEFINE R == OpToRel(<, Nat)
           T == {r \in Nat : \E k \in Nat : t = r + n * k}
<1>1. IsWellFoundedOn(R, Nat)
  BY NatLessThanWellFounded
<1>2. \A x, y \in Nat : y < x => <<y, x>> \in R
  BY DEF OpToRel
<1>3. t \in T
  <2>1. t = t + n * 0
    OBVIOUS
  <2>2. QED
    BY <2>1
<1>4. T \subseteq Nat
  OBVIOUS
<1> HIDE DEF R
<1>5. PICK r \in T : \A s \in T : ~(<<s, r>> \in R)
  <2> HIDE DEF T
  <2>1. QED
    BY <1>1, <1>3, <1>4, WFMin
<1>6. PICK k \in Nat : r \in Nat /\ t = r + n * k
  BY <1>5
<1>7. CASE r >= n
  <2>1. r - n \in Nat /\ r - n < r
    BY <1>6, <1>7
  <2>2. t = (r - n) + n * (k + 1)
    BY <1>6, <2>1
  <2>3. r - n \in T
    BY <2>1, <2>2, <1>6
  <2>4. QED
    BY <2>1, <2>3, <1>2, <1>5, <1>6
<1>8. CASE r < n
  BY <1>6, <1>8
<1>9. QED
  BY <1>6, <1>7, <1>8

\* A larger quotient makes a larger number, whatever the remainders.
LEMMA Larger ==
  ASSUME NEW n \in Nat \ {0}, NEW w \in 0..n - 1, NEW v \in 0..n - 1,
         NEW k \in Nat, NEW j \in Nat, k < j
  PROVE  w + n * k < v + n * j
<1>1. n * j >= n * (k + 1)
  BY SMT
<1>2. n * (k + 1) = n * k + n
  BY SMT
<1>3. QED
  BY <1>1, <1>2

\* ... and only one.
LEMMA OneOwner ==
  ASSUME NEW n \in Nat \ {0}, NEW w \in 0..n - 1, NEW v \in 0..n - 1,
         NEW k \in Nat, NEW j \in Nat, w + n * k = v + n * j
  PROVE  w = v /\ k = j
<1>1. ~(k < j)
  <2>1. SUFFICES ASSUME k < j PROVE FALSE
    OBVIOUS
  <2>2. w + n * k < v + n * j
    BY <2>1, Larger
  <2>3. n * k \in Nat /\ n * j \in Nat
    OBVIOUS
  <2>4. QED
    BY <2>2, <2>3
<1>2. ~(j < k)
  <2>1. SUFFICES ASSUME j < k PROVE FALSE
    OBVIOUS
  <2>2. v + n * j < w + n * k
    BY <2>1, Larger
  <2>3. n * k \in Nat /\ n * j \in Nat
    OBVIOUS
  <2>4. QED
    BY <2>2, <2>3
<1>3. k = j
  BY <1>1, <1>2
<1>4. QED
  <2>1. n * k \in Nat
    OBVIOUS
  <2>2. QED
    BY <1>3, <2>1

\* No tile of a worker lies between two that follow each other by the stride.
LEMMA NextTile ==
  ASSUME NEW n \in Nat \ {0}, NEW w \in 0..n - 1, NEW k \in Nat, NEW j \in Nat,
         w + n * j < w + n * k + n
  PROVE  w + n * j <= w + n * k
<1>1. CASE j <= k
  <2>1. n * j <= n * k
    BY <1>1, SMT
  <2>2. n * j \in Nat /\ n * k \in Nat
    OBVIOUS
  <2>3. QED
    BY <2>1, <2>2
<1>2. CASE k + 1 <= j
  <2>1. n * (k + 1) <= n * j
    BY <1>2, SMT
  <2>2. n * (k + 1) = n * k + n
    BY SMT
  <2>3. n * j \in Nat /\ n * k \in Nat
    OBVIOUS
  <2>4. QED
    BY <2>1, <2>2, <2>3
<1>3. QED
  BY <1>1, <1>2

\* Every tile has an owner among the workers created.
LEMMA HasOwner ==
  ASSUME numWorkers \in Nat \ {0}, NEW t \in Nat
  PROVE  \E w \in 0..numWorkers - 1 : t \in Mine(w)
<1>1. PICK w \in 0..numWorkers - 1 : \E k \in Nat : t = w + numWorkers * k
  BY Division
<1>2. QED
  BY <1>1 DEF Mine

\* ... among the workers used, if it is a tile of the frame.
LEMMA HasUsedOwner ==
  ASSUME numWorkers \in Nat \ {0}, cols \in Nat, used = Least(cols, numWorkers),
         NEW t \in FrameTiles
  PROVE  \E w \in 0..used - 1 : t \in Mine(w)
<1>1. t \in Nat /\ t < cols
  BY DEF FrameTiles
<1>2. PICK w \in 0..numWorkers - 1 : t \in Mine(w)
  BY <1>1, HasOwner
<1>3. PICK k \in Nat : t = w + numWorkers * k
  BY <1>2 DEF Mine
<1>4. numWorkers * k \in Nat
  OBVIOUS
<1>5. w <= t
  BY <1>3, <1>4
<1>6. w \in 0..used - 1
  <2>1. w < cols /\ w < numWorkers
    BY <1>1, <1>5
  <2>2. w < used
    BY <2>1 DEF Least
  <2>3. used \in Nat
    BY DEF Least
  <2>4. QED
    BY <2>2, <2>3
<1>7. QED
  BY <1>2, <1>6

LEMMA MineApart ==
  ASSUME numWorkers \in Nat \ {0}, NEW w \in 0..numWorkers - 1,
         NEW v \in 0..numWorkers - 1, NEW t \in Mine(w), t \in Mine(v)
  PROVE  w = v
<1>1. PICK k \in Nat : t = w + numWorkers * k
  BY DEF Mine
<1>2. PICK j \in Nat : t = v + numWorkers * j
  BY DEF Mine
<1>3. w + numWorkers * k = v + numWorkers * j
  BY <1>1, <1>2
<1>4. QED
  BY <1>3, OneOwner

\* One stride further is the next tile of the same worker.
LEMMA MineNext ==
  ASSUME numWorkers \in Nat \ {0}, NEW w \in 0..numWorkers - 1,
         NEW t \in Mine(w)
  PROVE  /\ t + numWorkers \in Mine(w)
         /\ \A u \in Mine(w) : u < t + numWorkers => u <= t
<1>1. PICK k \in Nat : t = w + numWorkers * k
  BY DEF Mine
<1>2. t + numWorkers \in Mine(w)
  <2>1. t + numWorkers = w + numWorkers * (k + 1) /\ t + numWorkers \in Nat
    <3>1. numWorkers * (k + 1) = numWorkers * k + numWorkers
      BY SMT
    <3>2. numWorkers * k \in Nat
      OBVIOUS
    <3>3. QED
      BY <1>1, <3>1, <3>2
  <2>2. k + 1 \in Nat
    OBVIOUS
  <2>3. \E j \in Nat : t + numWorkers = w + numWorkers * j
    BY <2>1, <2>2
  <2>4. QED
    BY <2>1, <2>3 DEF Mine
<1>3. ASSUME NEW u \in Mine(w), u < t + numWorkers PROVE u <= t
  <2>1. PICK j \in Nat : u = w + numWorkers * j
    BY DEF Mine
  <2>2. QED
    BY <1>1, <1>3, <2>1, NextTile
<1>4. QED
  BY <1>2, <1>3

LEMMA MineFrom ==
  ASSUME numWorkers \in Nat \ {0}, NEW w \in 0..numWorkers - 1
  PROVE  w \in Mine(w) /\ \A t \in Mine(w) : t >= w
<1>1. w = w + numWorkers * 0 /\ w \in Nat
  OBVIOUS
<1>2. \A k \in Nat : numWorkers * k \in Nat
  OBVIOUS
<1>3. QED
  BY <1>1, <1>2 DEF Mine

(***************************************************************************)
(* The initial state.                                                      *)
(***************************************************************************)

LEMMA InitIInv == Init => IInv
<1> SUFFICES ASSUME Init PROVE IInv
  OBVIOUS
<1>1. /\ threads \in 1..MaxThreads /\ numWorkers = 0 /\ used = 0 /\ started = 0
      /\ staff = [w \in Workers |-> "none"] /\ mainPc = "ready"
      /\ pc = [w \in Workers |-> "idle"] /\ tile = [w \in Workers |-> 0]
      /\ cols = 1 /\ intrabc = {} /\ frames = 0
      /\ tdCounts = [w \in Workers |-> {}] /\ counts = {}
      /\ encoded = [t \in Tiles |-> 0]
  BY DEF Init, NotEncoded
<1>2. tdIntrabc \in [Workers -> BOOLEAN] /\ intrabcUsed \in BOOLEAN
  BY Zenon DEF Init
<1>3. TypeOK
  BY <1>1, <1>2, EncAssumption DEF TypeOK, Workers, Tiles
<1>4. StaffInv
  BY <1>1, EncAssumption DEF StaffInv
<1>5. RestInv /\ TilesOnce /\ CountsExact
  BY <1>1 DEF RestInv, TilesOnce, CountsExact
<1>6. UsedInv /\ PlaceInv /\ WorkInv /\ CountInv
  BY <1>1 DEF UsedInv, PlaceInv, WorkInv, CountInv
<1>7. QED
  BY <1>3, <1>4, <1>5, <1>6 DEF IInv

(***************************************************************************)
(* The calling thread between two calls: nothing is known of the workers   *)
(* but that they are idle, and only the type, StaffInv, RestInv and the    *)
(* two properties say anything.                                            *)
(***************************************************************************)

\* Outside a call the parts of the invariant about a call are empty.
LEMMA OutsideCall ==
  ASSUME mainPc' # "run"
  PROVE  UsedInv' /\ PlaceInv' /\ WorkInv' /\ CountInv'
BY DEF UsedInv, PlaceInv, WorkInv, CountInv

LEMMA ReconfigureIInv ==
  ASSUME IInv, ~ThreadsShrink, Reconfigure PROVE IInv'
<1>1. /\ mainPc = "ready" /\ threads' \in 1..MaxThreads /\ threads' >= threads
      /\ UNCHANGED <<numWorkers, staff, mainPc, used, started, pc, tile,
                     tdCounts, tdIntrabc, cols, intrabc, frames, counts,
                     intrabcUsed, encoded>>
  BY Zenon DEF Reconfigure, workerVars, frameVars
<1>2. TypeOK'
  BY <1>1 DEF IInv, TypeOK
<1>3. StaffInv'
  BY <1>1, EncAssumption DEF IInv, TypeOK, StaffInv, Short
<1>4. RestInv' /\ TilesOnce' /\ CountsExact'
  BY <1>1 DEF IInv, RestInv, TilesOnce, CountsExact, FrameTiles, Short
<1>5. QED
  BY <1>1, <1>2, <1>3, <1>4, OutsideCall DEF IInv

LEMMA EncodeAloneIInv ==
  ASSUME IInv, NEW c \in 1..MaxCols, NEW ibc \in SUBSET (0..c - 1),
         EncodeAlone(c, ibc)
  PROVE  IInv'
<1>1. /\ mainPc = "ready" /\ mainPc' = "ready" /\ cols' = c /\ intrabc' = ibc
      /\ frames' = frames + 1 /\ counts' = {frames'} \X (0..c - 1)
      /\ encoded' = [t \in Tiles |-> IF t < c THEN 1 ELSE 0]
      /\ UNCHANGED <<threads, numWorkers, staff, used, started, pc, tile, tdCounts,
                     tdIntrabc>>
  BY DEF EncodeAlone, NextFrame, settings, workerVars
<1>2. intrabcUsed' \in BOOLEAN /\ tdIntrabc' \in [Workers -> BOOLEAN]
  <2>1. intrabcUsed' = (ibc # {}) /\ tdIntrabc' = tdIntrabc
    BY Zenon DEF EncodeAlone, workerVars
  <2>2. QED
    BY Zenon, <2>1 DEF IInv, TypeOK
<1>3. TypeOK'
  <2>1. 0..c - 1 \subseteq Tiles
    BY EncAssumption DEF Tiles
  <2>2. frames' \in Nat /\ counts' \subseteq Nat \X Tiles
    BY <1>1, <2>1 DEF IInv, TypeOK
  <2>3. intrabc' \subseteq Tiles /\ encoded' \in [Tiles -> Nat]
    BY <1>1, <2>1
  <2>4. QED
    BY <1>1, <1>2, <2>2, <2>3 DEF IInv, TypeOK
<1>4. StaffInv'
  BY <1>1 DEF IInv, StaffInv, Short
<1>5. RestInv' /\ TilesOnce' /\ CountsExact'
  <2>1. FrameTiles' = 0..c - 1 /\ FrameTiles' \subseteq Tiles
    BY <1>1, EncAssumption DEF FrameTiles, Tiles
  <2>2. QED
    BY <1>1, <2>1 DEF IInv, RestInv, TilesOnce, CountsExact
<1>6. QED
  BY <1>1, <1>3, <1>4, <1>5, OutsideCall DEF IInv

LEMMA UsesNoDataIInv ==
  ASSUME IInv, NEW c \in 1..MaxCols, UsesNoData(c) PROVE IInv'
<1>1. /\ mainPc = "ready" /\ mainPc' = "undefined"
      /\ UNCHANGED <<threads, numWorkers, staff, used, started, pc, tile, tdCounts,
                     tdIntrabc, cols, intrabc, frames, counts, intrabcUsed,
                     encoded>>
  BY DEF UsesNoData, settings, workerVars, frameVars
<1>2. TypeOK' /\ StaffInv'
  BY <1>1 DEF IInv, TypeOK, StaffInv, Short
<1>3. RestInv' /\ TilesOnce' /\ CountsExact'
  BY <1>1 DEF IInv, RestInv, TilesOnce, CountsExact
<1>4. QED
  BY <1>1, <1>2, <1>3, OutsideCall DEF IInv

LEMMA CreateFailsIInv ==
  ASSUME IInv, NEW c \in 1..MaxCols, NEW w \in Workers, CreateFails(c, w)
  PROVE  IInv'
<1>1. PICK lost \in {"noData", "noThread"} :
        staff' = [v \in Workers |-> IF v < w THEN "thread"
                                    ELSE IF v = w THEN lost ELSE "none"]
  BY Zenon DEF CreateFails
<1>2. /\ mainPc = "ready" /\ w < Least(threads, c) - 1 /\ numWorkers' = w + 1
      /\ UNCHANGED <<threads, mainPc, used, started, pc, tile, tdCounts, tdIntrabc,
                     cols, intrabc, frames, counts, intrabcUsed, encoded>>
  BY Zenon DEF CreateFails, Wanted, workerVars, frameVars
<1>3. w + 1 <= threads /\ w \in Nat
  BY <1>2, EncAssumption DEF Least, IInv, TypeOK, Workers
<1>4. Short'
  BY <1>1 DEF Short, Workers
<1>5. numWorkers' \in 0..MaxThreads
  BY <1>2, <1>3, EncAssumption DEF IInv, TypeOK
<1>6. TypeOK'
  BY <1>1, <1>2, <1>5 DEF IInv, TypeOK
<1>7. StaffInv'
  BY <1>2, <1>3, <1>4 DEF StaffInv
<1>8. RestInv' /\ TilesOnce' /\ CountsExact'
  BY <1>2, <1>4 DEF IInv, RestInv, TilesOnce, CountsExact, FrameTiles
<1>9. QED
  BY <1>2, <1>6, <1>7, <1>8, OutsideCall DEF IInv

(***************************************************************************)
(* The start of a call.  That g_threads has not become less is what makes  *)
(* the workers used either all or as many as the tiles.                    *)
(***************************************************************************)
LEMMA BeginIInv ==
  ASSUME IInv, NEW c \in 1..MaxCols, NEW ibc \in SUBSET (0..c - 1), Begin(c, ibc)
  PROVE  IInv'
<1>1. /\ mainPc = "ready" /\ mainPc' = "run" /\ started' = 0
      /\ cols' = c /\ intrabc' = ibc /\ frames' = frames + 1
      /\ counts' = {} /\ encoded' = NotEncoded
      /\ UNCHANGED <<threads, pc, tile>>
  BY DEF Begin, NextFrame
<1>2. /\ Least(threads, c) > 1 /\ numWorkers' = Created(c)
      /\ staff' = IF numWorkers = 0 THEN Staffed(Created(c)) ELSE staff
      /\ used' = Least(Wanted(c), Created(c))
      /\ tdCounts' = [w \in Workers |-> IF w < used' THEN Copied(w)
                                        ELSE tdCounts[w]]
  BY DEF Begin
<1>3. intrabcUsed' \in BOOLEAN /\ tdIntrabc' \in [Workers -> BOOLEAN]
  BY Zenon DEF Begin, IInv, TypeOK
<1>4. c \in Nat \ {0} /\ threads \in 1..MaxThreads /\ numWorkers \in 0..MaxThreads
      /\ numWorkers <= threads /\ MaxThreads \in Nat
  BY EncAssumption DEF IInv, TypeOK, StaffInv
<1>5. numWorkers' \in 1..threads /\ used' = Least(c, numWorkers')
  BY <1>2, <1>4 DEF Created, Wanted, Least
<1>6. used' \in 1..MaxThreads
  BY <1>4, <1>5 DEF Least
<1>7. TypeOK'
  <2>1. staff' \in [Workers -> {"none", "thread", "main", "noThread", "noData"}]
    BY <1>2 DEF Staffed, IInv, TypeOK
  <2>2. intrabc' \subseteq Tiles
    BY <1>1, EncAssumption DEF Tiles
  <2>3. tdCounts' \in [Workers -> SUBSET (Nat \X Tiles)]
    BY <1>2 DEF Copied, IInv, TypeOK
  <2>4. encoded' \in [Tiles -> Nat]
    BY <1>1 DEF NotEncoded
  <2>5. frames' \in Nat
    BY <1>1 DEF IInv, TypeOK
  <2>6. numWorkers' \in 0..MaxThreads /\ used' \in 0..MaxThreads
        /\ started' \in 0..used'
    BY <1>1, <1>4, <1>5, <1>6
  <2>7. QED
    BY <1>1, <1>3, <2>1, <2>2, <2>3, <2>4, <2>5, <2>6 DEF IInv, TypeOK
<1>8. StaffInv'
  <2>1. CASE numWorkers = 0
    <3>1. staff'[numWorkers' - 1] = "main"
      BY <1>2, <1>4, <1>5, <2>1 DEF Staffed, Workers
    <3>2. QED
      BY <1>1, <1>4, <1>5, <3>1 DEF StaffInv
  <2>2. CASE numWorkers # 0
    BY <1>1, <1>2, <2>2 DEF Created, IInv, StaffInv, Short
  <2>3. QED
    BY <2>1, <2>2
<1>9. UsedInv'
  BY <1>1, <1>4, <1>5 DEF IInv, RestInv, UsedInv
<1>10. PlaceInv' /\ RestInv' /\ CountsExact'
  BY <1>1 DEF PlaceInv, RestInv, CountsExact
<1>11. WorkInv'
  BY <1>1 DEF WorkInv, Behind, NotEncoded
<1>12. CountInv'
  <2>1. ASSUME NEW w \in 0..used' - 1 PROVE tdCounts'[w] = {}
    BY <1>2, <1>6, EncAssumption DEF Copied, Workers
  <2>2. ASSUME NEW w \in 0..used' - 1, NEW t PROVE ~Behind(w, t)'
    BY <1>1, <1>6 DEF Behind
  <2>3. QED
    BY <2>1, <2>2 DEF CountInv
<1>13. TilesOnce'
  BY <1>1 DEF TilesOnce, NotEncoded
<1>14. QED
  BY <1>7, <1>8, <1>9, <1>10, <1>11, <1>12, <1>13 DEF IInv

(***************************************************************************)
(* Inside a call.                                                          *)
(***************************************************************************)

\* What the steps of a call need of the sizes.
LEMMA InCall ==
  ASSUME IInv, mainPc = "run"
  PROVE  /\ numWorkers \in Nat \ {0} /\ cols \in Nat \ {0} /\ used \in Nat
         /\ used = Least(cols, numWorkers) /\ used <= numWorkers
         /\ numWorkers <= MaxThreads /\ cols <= MaxCols
         /\ MaxThreads \in Nat /\ MaxCols \in Nat
         /\ started \in 0..used
<1>1. numWorkers \in 0..MaxThreads /\ cols \in 1..MaxCols /\ numWorkers > 0
      /\ used \in 0..MaxThreads /\ started \in 0..used
      /\ used = Least(cols, numWorkers)
  BY DEF IInv, TypeOK, UsedInv
<1>2. QED
  BY <1>1, EncAssumption DEF Least

LEMMA LaunchIInv == ASSUME IInv, Launch PROVE IInv'
<1>1. /\ mainPc = "run" /\ started < used /\ started' = started + 1
      /\ pc' = [pc EXCEPT ![started] = "hook"]
      /\ tile' = [tile EXCEPT ![started] = started]
      /\ UNCHANGED <<threads, numWorkers, staff, mainPc, used, tdCounts, tdIntrabc,
                     cols, intrabc, frames, counts, intrabcUsed, encoded>>
  BY Zenon DEF Launch, settings, frameVars
<1>2. /\ numWorkers \in Nat \ {0} /\ used \in Nat /\ used <= numWorkers
      /\ numWorkers <= MaxThreads /\ MaxThreads \in Nat /\ MaxCols \in Nat \ {0}
      /\ started \in 0..used
  BY <1>1, InCall, EncAssumption
<1>3. started \in Workers /\ started \in 0..numWorkers - 1
  BY <1>1, <1>2 DEF Workers
<1>4. /\ pc \in [Workers -> {"idle", "hook"}]
      /\ tile \in [Workers -> 0..MaxCols + MaxThreads - 1]
  BY DEF IInv, TypeOK
<1>5. TypeOK'
  <2>1. started' \in 0..used'
    BY <1>1, <1>2
  <2>2. started \in 0..MaxCols + MaxThreads - 1
    BY <1>1, <1>2
  <2>3. pc' \in [Workers -> {"idle", "hook"}]
        /\ tile' \in [Workers -> 0..MaxCols + MaxThreads - 1]
    BY <1>1, <1>3, <1>4, <2>2
  <2>4. QED
    BY <1>1, <2>1, <2>3 DEF IInv, TypeOK
<1>6. StaffInv' /\ RestInv' /\ CountsExact' /\ TilesOnce'
  BY <1>1 DEF IInv, StaffInv, Short, RestInv, CountsExact, TilesOnce
<1>7. UsedInv'
  <2>1. \A w \in Workers : w >= started' => pc'[w] = "idle"
    BY <1>1, <1>2, <1>3, <1>4 DEF IInv, UsedInv, Workers
  <2>2. QED
    BY <1>1, <2>1 DEF IInv, UsedInv
<1>8. started \in Mine(started) /\ \A t \in Mine(started) : t >= started
  BY <1>2, <1>3, MineFrom
<1>9. \A w : Mine(w)' = Mine(w)
  BY <1>1 DEF Mine
<1>10. PlaceInv'
  <2>1. ASSUME NEW w \in 0..started' - 1
        PROVE  tile'[w] \in Mine(w)' /\ (pc'[w] = "idle" => tile'[w] >= cols')
    <3>1. CASE w = started
      <4>1. tile'[w] = started /\ pc'[w] = "hook"
        BY <1>1, <1>3, <1>4, <3>1
      <4>2. QED
        BY <1>8, <1>9, <3>1, <4>1
    <3>2. CASE w # started
      <4>1. w \in 0..started - 1 /\ w \in Workers
        BY <1>1, <1>2, <3>2 DEF Workers
      <4>2. tile'[w] = tile[w] /\ pc'[w] = pc[w]
        BY <1>1, <1>4, <3>2, <4>1
      <4>3. tile[w] \in Mine(w) /\ (pc[w] = "idle" => tile[w] >= cols)
        <5>1. PlaceInv /\ mainPc = "run"
          BY <1>1 DEF IInv
        <5>2. QED
          BY <4>1, <5>1 DEF PlaceInv
      <4>4. QED
        BY <1>1, <1>9, <4>2, <4>3
    <3>3. QED
      BY <3>1, <3>2
  <2>2. QED
    BY <2>1 DEF PlaceInv
<1>11. \A w \in 0..numWorkers - 1 : \A t \in Mine(w) :
         Behind(w, t)' <=> Behind(w, t)
  <2> SUFFICES ASSUME NEW w \in 0..numWorkers - 1, NEW t \in Mine(w)
               PROVE  Behind(w, t)' <=> Behind(w, t)
    OBVIOUS
  <2>1. w \in Workers
    BY <1>2 DEF Workers
  <2>2. t \in Nat
    BY DEF Mine
  <2>3. CASE w = started
    <3>1. tile'[w] = started
      BY <1>1, <1>4, <2>1, <2>3
    <3>2. t >= started
      BY <1>8, <2>3
    <3>3. QED
      BY <1>2, <2>2, <2>3, <3>1, <3>2 DEF Behind
  <2>4. CASE w # started
    <3>1. tile'[w] = tile[w]
      BY <1>1, <1>4, <2>1, <2>4
    <3>2. (w < started') <=> (w < started)
      BY <1>1, <1>2, <2>4
    <3>3. QED
      BY <3>1, <3>2 DEF Behind
  <2>5. QED
    BY <2>3, <2>4
<1>12. WorkInv'
  BY <1>1, <1>9, <1>11 DEF IInv, WorkInv
<1>13. CountInv'
  <2>1. 0..used - 1 \subseteq 0..numWorkers - 1
    BY <1>2
  <2>2. QED
    BY <1>1, <1>9, <1>11, <2>1 DEF IInv, CountInv, FrameTiles
<1>14. QED
  BY <1>5, <1>6, <1>7, <1>10, <1>12, <1>13 DEF IInv

\* Inside a call no tile has been encoded more than once.
LEMMA OnceInCall ==
  ASSUME numWorkers \in Nat \ {0}, mainPc = "run", WorkInv,
         NEW t \in Tiles, t \in Nat
  PROVE  encoded[t] <= 1
<1>1. PICK w \in 0..numWorkers - 1 : t \in Mine(w)
  BY HasOwner
<1>2. encoded[t] = IF Behind(w, t) THEN 1 ELSE 0
  BY <1>1 DEF WorkInv
<1>3. QED
  BY <1>2

\* Only a worker that has been started is in its hook, and it is in a call.
LEMMA HookInCall ==
  ASSUME IInv, NEW w \in Workers, pc[w] = "hook"
  PROVE  mainPc = "run" /\ w \in 0..started - 1
<1>1. mainPc = "run"
  BY DEF IInv, RestInv
<1>2. w < started
  <2>1. UsedInv /\ started \in 0..used /\ used \in 0..MaxThreads
    BY DEF IInv, TypeOK
  <2>2. ~(w >= started)
    BY <1>1, <2>1 DEF UsedInv
  <2>3. w \in Nat
    BY EncAssumption DEF Workers
  <2>4. QED
    BY <2>1, <2>2, <2>3, EncAssumption
<1>3. w \in Nat /\ started \in Int
  <2>1. started \in 0..used /\ used \in 0..MaxThreads
    BY DEF IInv, TypeOK
  <2>2. QED
    BY <2>1, EncAssumption DEF Workers
<1>4. QED
  BY <1>1, <1>2, <1>3

LEMMA EncodeTileIInv ==
  ASSUME IInv, NEW w \in Workers, EncodeTile(w) PROVE IInv'
<1> DEFINE t == tile[w]
<1>1. /\ pc[w] = "hook" /\ t < cols
      /\ encoded' = [encoded EXCEPT ![t] = @ + 1]
      /\ tdCounts' = [tdCounts EXCEPT ![w] = @ \cup {<<frames, t>>}]
      /\ tile' = [tile EXCEPT ![w] = t + numWorkers]
      /\ UNCHANGED <<threads, numWorkers, staff, mainPc, used, started, pc, cols,
                     intrabc, frames, counts, intrabcUsed>>
  BY Zenon DEF EncodeTile, Stride, settings, frameVars
<1>2. tdIntrabc' \in [Workers -> BOOLEAN] /\ intrabcUsed' \in BOOLEAN
  <2>1. tdIntrabc' = [tdIntrabc EXCEPT ![w] = t \in intrabc]
        /\ intrabcUsed' = intrabcUsed
    BY Zenon DEF EncodeTile
  <2>2. (t \in intrabc) \in BOOLEAN
    OBVIOUS
  <2>3. QED
    BY Zenon, <2>1, <2>2 DEF IInv, TypeOK
<1>3. mainPc = "run" /\ w \in 0..started - 1
  BY <1>1, HookInCall
<1>4. /\ numWorkers \in Nat \ {0} /\ cols \in Nat /\ used \in Nat
      /\ used <= numWorkers /\ numWorkers <= MaxThreads /\ cols <= MaxCols
      /\ MaxThreads \in Nat /\ MaxCols \in Nat /\ started \in 0..used
  BY <1>3, InCall
<1>5. w \in 0..numWorkers - 1 /\ w < started
  BY <1>3, <1>4
<1>6. t \in Mine(w) /\ t \in Nat
  <2>1. PlaceInv
    BY DEF IInv
  <2>2. QED
    BY <1>3, <2>1 DEF PlaceInv, Mine
<1>7. t \in Tiles /\ t \in FrameTiles
  BY <1>1, <1>4, <1>6 DEF Tiles, FrameTiles
<1>8. /\ encoded \in [Tiles -> Nat] /\ frames \in Nat
      /\ tile \in [Workers -> 0..MaxCols + MaxThreads - 1]
      /\ tdCounts \in [Workers -> SUBSET (Nat \X Tiles)]
  BY DEF IInv, TypeOK
<1>9. t + numWorkers \in Mine(w)
      /\ \A u \in Mine(w) : u < t + numWorkers => u <= t
  BY <1>4, <1>5, <1>6, MineNext
<1>10. \A v : Mine(v)' = Mine(v)
  BY <1>1 DEF Mine
<1> HIDE DEF t
<1>11. tile'[w] = t + numWorkers /\ \A v \in Workers \ {w} : tile'[v] = tile[v]
  BY <1>1, <1>8
<1>12. 0..numWorkers - 1 \subseteq Workers
  BY <1>4 DEF Workers
<1>13. TypeOK'
  <2>1. t + numWorkers \in 0..MaxCols + MaxThreads - 1
    BY <1>1, <1>4, <1>6
  <2>2. tile' \in [Workers -> 0..MaxCols + MaxThreads - 1]
    BY <1>1, <1>8, <2>1
  <2>3. encoded' \in [Tiles -> Nat]
    BY <1>1, <1>7, <1>8
  <2>4. tdCounts' \in [Workers -> SUBSET (Nat \X Tiles)]
    BY <1>1, <1>7, <1>8
  <2>5. QED
    BY <1>1, <1>2, <2>2, <2>3, <2>4 DEF IInv, TypeOK
<1>14. StaffInv' /\ RestInv' /\ CountsExact' /\ UsedInv'
  BY <1>1, <1>3 DEF IInv, StaffInv, Short, RestInv, CountsExact, UsedInv
<1>15. PlaceInv'
  <2>1. PlaceInv
    BY DEF IInv
  <2>2. ASSUME NEW v \in 0..started - 1
        PROVE  tile'[v] \in Mine(v) /\ (pc[v] = "idle" => tile'[v] >= cols)
    <3>1. CASE v = w
      BY <1>1, <1>9, <1>11, <3>1
    <3>2. CASE v # w
      <4>1. v \in Workers
        BY <1>4, <1>12
      <4>2. tile'[v] = tile[v]
        BY <1>11, <3>2, <4>1
      <4>3. QED
        BY <1>3, <2>1, <4>2 DEF PlaceInv
    <3>3. QED
      BY <3>1, <3>2
  <2>3. QED
    BY <1>1, <1>10, <2>2 DEF PlaceInv
<1>16. ~Behind(w, t)
  BY <1>4, <1>6 DEF Behind, t
<1>17. \A u \in Mine(w) : Behind(w, u)' <=> Behind(w, u) \/ u = t
  <2> SUFFICES ASSUME NEW u \in Mine(w)
               PROVE  Behind(w, u)' <=> Behind(w, u) \/ u = t
    OBVIOUS
  <2>1. u \in Nat
    BY DEF Mine
  <2>2. Behind(w, u)' <=> u < t + numWorkers
    BY <1>1, <1>5, <1>11 DEF Behind
  <2>3. Behind(w, u) <=> u < t
    BY <1>5 DEF Behind, t
  <2>4. u < t + numWorkers <=> u <= t
    BY <1>4, <1>6, <1>9, <2>1
  <2>5. QED
    BY <1>6, <2>1, <2>2, <2>3, <2>4
<1>18. \A v \in Workers \ {w} : \A u : Behind(v, u)' <=> Behind(v, u)
  BY <1>1, <1>11 DEF Behind
<1>19. WorkInv'
  <2>1. WorkInv
    BY DEF IInv
  <2>2. ASSUME NEW v \in 0..numWorkers - 1, NEW u \in Tiles \cap Mine(v)
        PROVE  encoded'[u] = IF Behind(v, u)' THEN 1 ELSE 0
    <3>1. encoded[u] = IF Behind(v, u) THEN 1 ELSE 0
      BY <1>3, <2>1 DEF WorkInv
    <3>2. CASE v = w /\ u = t
      <4>1. encoded[t] = 0
        BY <1>16, <3>1, <3>2
      <4>2. encoded'[t] = 1
        BY <1>1, <1>7, <1>8, <4>1
      <4>3. QED
        BY <1>17, <3>2, <4>2
    <3>3. CASE v = w /\ u # t
      <4>1. encoded'[u] = encoded[u]
        BY <1>1, <1>8, <3>3
      <4>2. QED
        BY <1>17, <3>1, <3>3, <4>1
    <3>4. CASE v # w
      <4>1. u # t
        BY <1>4, <1>5, <1>6, <3>4, MineApart
      <4>2. encoded'[u] = encoded[u]
        BY <1>1, <1>8, <4>1
      <4>3. Behind(v, u)' <=> Behind(v, u)
        BY <1>12, <1>18, <3>4
      <4>4. QED
        BY <3>1, <4>2, <4>3
    <3>5. QED
      BY <3>2, <3>3, <3>4
  <2>3. QED
    BY <1>1, <1>10, <2>2 DEF WorkInv
<1>20. CountInv'
  <2>1. CountInv
    BY DEF IInv
  <2>2. ASSUME NEW v \in 0..used - 1
        PROVE  /\ tdCounts'[v] \subseteq {frames} \X FrameTiles
               /\ \A u \in FrameTiles \cap Mine(v) :
                    Behind(v, u)' => <<frames, u>> \in tdCounts'[v]
    <3>1. /\ tdCounts[v] \subseteq {frames} \X FrameTiles
          /\ \A u \in FrameTiles \cap Mine(v) :
               Behind(v, u) => <<frames, u>> \in tdCounts[v]
      BY <1>3, <2>1 DEF CountInv
    <3>2. v \in Workers
      BY <1>4, <1>12
    <3>3. CASE v = w
      <4>1. tdCounts'[v] = tdCounts[v] \cup {<<frames, t>>}
        BY <1>1, <1>8, <3>3
      <4>2. QED
        BY <1>7, <1>17, <3>1, <3>3, <4>1
    <3>4. CASE v # w
      <4>1. tdCounts'[v] = tdCounts[v]
        BY <1>1, <1>8, <3>2, <3>4
      <4>2. QED
        BY <1>18, <3>1, <3>2, <3>4, <4>1
    <3>5. QED
      BY <3>3, <3>4
  <2>3. FrameTiles' = FrameTiles
    BY <1>1 DEF FrameTiles
  <2>4. QED
    BY <1>1, <1>10, <2>2, <2>3 DEF CountInv
<1>21. TilesOnce'
  <2>1. \A u \in Tiles : encoded'[u] <= 1
    <3> SUFFICES ASSUME NEW u \in Tiles PROVE encoded'[u] <= 1
      OBVIOUS
    <3>1. numWorkers' \in Nat \ {0} /\ mainPc' = "run" /\ u \in Nat
      BY <1>1, <1>3, <1>4, EncAssumption DEF Tiles
    <3>2. PICK v \in 0..numWorkers - 1 : u \in Mine(v)
      BY <1>4, <3>1, HasOwner
    <3>3. encoded'[u] = IF Behind(v, u)' THEN 1 ELSE 0
      BY <1>1, <1>10, <1>19, <3>1, <3>2 DEF WorkInv
    <3>4. QED
      BY <3>3
  <2>2. QED
    BY <1>1, <1>3, <2>1 DEF TilesOnce
<1>22. QED
  BY <1>13, <1>14, <1>15, <1>19, <1>20, <1>21 DEF IInv

LEMMA ReturnIInv ==
  ASSUME IInv, NEW w \in Workers, Return(w) PROVE IInv'
<1>1. /\ pc[w] = "hook" /\ tile[w] >= cols
      /\ pc' = [pc EXCEPT ![w] = "idle"]
      /\ UNCHANGED <<threads, numWorkers, staff, mainPc, used, started, tile,
                     tdCounts, tdIntrabc, cols, intrabc, frames, counts,
                     intrabcUsed, encoded>>
  BY Zenon DEF Return, settings, frameVars
<1>2. mainPc = "run"
  BY <1>1, HookInCall
<1>3. pc \in [Workers -> {"idle", "hook"}]
  BY DEF IInv, TypeOK
<1>4. /\ pc'[w] = "idle" /\ pc' \in [Workers -> {"idle", "hook"}]
      /\ \A v \in Workers \ {w} : pc'[v] = pc[v]
  BY <1>1, <1>3
<1>5. TypeOK' /\ StaffInv'
  BY <1>1, <1>4 DEF IInv, TypeOK, StaffInv, Short
<1>6. RestInv' /\ TilesOnce' /\ CountsExact'
  BY <1>1, <1>2 DEF IInv, RestInv, TilesOnce, CountsExact
<1>7. UsedInv'
  BY <1>1, <1>2, <1>4 DEF IInv, UsedInv
<1>8. PlaceInv'
  <2>1. PlaceInv
    BY DEF IInv
  <2>2. ASSUME NEW v \in 0..started - 1
        PROVE  tile[v] \in Mine(v) /\ (pc'[v] = "idle" => tile[v] >= cols)
    <3>1. v \in Workers
      <4>1. started \in 0..used /\ used <= numWorkers /\ numWorkers <= MaxThreads
            /\ used \in Nat /\ numWorkers \in Nat /\ MaxThreads \in Nat
        BY <1>2, InCall
      <4>2. QED
        BY <4>1 DEF Workers
    <3>2. CASE v = w
      BY <1>1, <1>2, <2>1, <3>2 DEF PlaceInv
    <3>3. CASE v # w
      <4>1. pc'[v] = pc[v]
        BY <1>4, <3>1, <3>3
      <4>2. QED
        BY <1>2, <2>1, <4>1 DEF PlaceInv
    <3>4. QED
      BY <3>2, <3>3
  <2>3. \A v : Mine(v)' = Mine(v)
    BY <1>1 DEF Mine
  <2>4. QED
    BY <1>1, <2>2, <2>3 DEF PlaceInv
<1>9. WorkInv' /\ CountInv'
  <2>1. \A v : Mine(v)' = Mine(v) /\ \A u : Behind(v, u)' <=> Behind(v, u)
    BY <1>1 DEF Mine, Behind
  <2>2. FrameTiles' = FrameTiles
    BY <1>1 DEF FrameTiles
  <2>3. WorkInv /\ CountInv
    BY DEF IInv
  <2>4. QED
    BY <1>1, <2>1, <2>2, <2>3 DEF WorkInv, CountInv
<1>10. QED
  BY <1>5, <1>6, <1>7, <1>8, <1>9 DEF IInv

(***************************************************************************)
(* The end of a call: every tile of the frame lies behind its worker, and  *)
(* every worker used is added up or is the encoder itself.                 *)
(***************************************************************************)
LEMMA MergeIInv == ASSUME IInv, Merge PROVE IInv'
<1>1. /\ mainPc = "run" /\ mainPc' = "ready" /\ started = used
      /\ \A w \in 0..used - 1 : pc[w] = "idle"
      /\ counts' = UNION {tdCounts[w] : w \in {v \in 0..used - 1 : Added(v)}}
      /\ UNCHANGED <<threads, numWorkers, staff, used, started, pc, tile, tdCounts,
                     tdIntrabc, cols, intrabc, frames, encoded>>
  BY Zenon DEF Merge, settings, workerVars, frameVars
<1>2. intrabcUsed' \in BOOLEAN /\ tdIntrabc' \in [Workers -> BOOLEAN]
  <2>1. intrabcUsed' = (\E w \in 0..used - 1 : tdIntrabc[w])
        /\ tdIntrabc' = tdIntrabc
    BY Zenon DEF Merge, workerVars
  <2>2. (\E w \in 0..used - 1 : tdIntrabc[w]) \in BOOLEAN
    OBVIOUS
  <2>3. QED
    BY Zenon, <2>1, <2>2 DEF IInv, TypeOK
<1>3. /\ numWorkers \in Nat \ {0} /\ cols \in Nat /\ used \in Nat
      /\ used = Least(cols, numWorkers) /\ used <= numWorkers
      /\ numWorkers <= MaxThreads /\ cols <= MaxCols
      /\ MaxThreads \in Nat /\ MaxCols \in Nat
  BY <1>1, InCall
<1>4. 0..used - 1 \subseteq Workers /\ 0..used - 1 \subseteq 0..numWorkers - 1
  BY <1>3 DEF Workers
<1>5. FrameTiles \subseteq Tiles /\ FrameTiles' = FrameTiles
  BY <1>1, <1>3 DEF FrameTiles, Tiles
<1>6. ASSUME NEW t \in FrameTiles
      PROVE  \E w \in 0..used - 1 : t \in Mine(w) /\ Behind(w, t)
  <2>1. PICK w \in 0..used - 1 : t \in Mine(w)
    BY <1>3, HasUsedOwner
  <2>2. tile[w] >= cols /\ tile[w] \in Nat
    <3>1. PlaceInv /\ w \in 0..started - 1 /\ pc[w] = "idle"
      BY <1>1 DEF IInv
    <3>2. QED
      BY <1>1, <3>1 DEF PlaceInv, Mine
  <2>3. t < tile[w]
    BY <1>3, <2>2 DEF FrameTiles
  <2>4. QED
    BY <1>1, <1>3, <2>1, <2>3 DEF Behind
<1>7. \A t \in FrameTiles : encoded[t] = 1
  <2> SUFFICES ASSUME NEW t \in FrameTiles PROVE encoded[t] = 1
    OBVIOUS
  <2>1. PICK w \in 0..used - 1 : t \in Mine(w) /\ Behind(w, t)
    BY <1>6
  <2>2. WorkInv /\ w \in 0..numWorkers - 1 /\ t \in Tiles \cap Mine(w)
    BY <1>4, <1>5, <2>1 DEF IInv
  <2>3. QED
    BY <1>1, <2>1, <2>2 DEF WorkInv
<1>8. TilesOnce'
  BY <1>1, <1>5, <1>7 DEF IInv, TilesOnce
<1>9. RestInv'
  <2>1. \A w \in Workers : pc[w] = "idle"
    <3> SUFFICES ASSUME NEW w \in Workers PROVE pc[w] = "idle"
      OBVIOUS
    <3>1. w \in Nat
      BY EncAssumption DEF Workers
    <3>2. CASE w < used
      BY <1>1, <1>3, <3>1, <3>2
    <3>3. CASE w >= used
      BY <1>1, <3>3 DEF IInv, UsedInv
    <3>4. QED
      BY <1>3, <3>1, <3>2, <3>3
  <2>2. QED
    BY <1>1, <2>1 DEF IInv, TilesOnce, RestInv
<1>10. \A w \in 0..used - 1 : tdCounts[w] \subseteq {frames} \X FrameTiles
  BY <1>1 DEF IInv, CountInv
<1>11. counts' \subseteq {frames} \X FrameTiles
  BY <1>1, <1>10
<1>12. ASSUME ~Short PROVE {frames} \X FrameTiles \subseteq counts'
  <2>1. staff[numWorkers - 1] = "main"
    BY <1>3, <1>12 DEF IInv, StaffInv
  <2>2. \A w \in 0..used - 1 : Added(w)
    <3> SUFFICES ASSUME NEW w \in 0..used - 1 PROVE Added(w)
      OBVIOUS
    <3>1. w < numWorkers - 1 \/ w = numWorkers - 1
      BY <1>3
    <3>2. QED
      BY <2>1, <3>1 DEF Added
  <2>3. ASSUME NEW t \in FrameTiles PROVE <<frames, t>> \in counts'
    <3>1. PICK w \in 0..used - 1 : t \in Mine(w) /\ Behind(w, t)
      BY <1>6
    <3>2. <<frames, t>> \in tdCounts[w]
      BY <1>1, <3>1 DEF IInv, CountInv
    <3>3. QED
      BY <1>1, <2>2, <3>2
  <2>4. QED
    BY <2>3
<1>13. CountsExact'
  <2>1. Short' = Short
    BY <1>1 DEF Short
  <2>2. QED
    BY <1>1, <1>5, <1>11, <1>12, <2>1 DEF CountsExact
<1>14. TypeOK'
  <2>1. counts' \subseteq Nat \X Tiles
    BY <1>5, <1>11 DEF IInv, TypeOK
  <2>2. QED
    BY <1>1, <1>2, <2>1 DEF IInv, TypeOK
<1>15. StaffInv'
  BY <1>1 DEF IInv, StaffInv, Short
<1>16. QED
  BY <1>1, <1>8, <1>9, <1>13, <1>14, <1>15, OutsideCall DEF IInv

(***************************************************************************)
(* The theorems.                                                           *)
(***************************************************************************)

LEMMA StepIInv == ASSUME ~ThreadsShrink, IInv, Next PROVE IInv'
<1>1. CASE Reconfigure
  BY <1>1, ReconfigureIInv
<1>2. CASE NewFrame
  <2>1. PICK c \in 1..MaxCols :
          \/ \E ibc \in SUBSET (0..c - 1) : EncodeAlone(c, ibc) \/ Begin(c, ibc)
          \/ UsesNoData(c)
          \/ \E w \in Workers : CreateFails(c, w)
    BY Zenon, <1>2 DEF NewFrame
  <2>2. QED
    BY Zenon, <2>1, EncodeAloneIInv, BeginIInv, UsesNoDataIInv, CreateFailsIInv
<1>3. CASE Launch
  BY <1>3, LaunchIInv
<1>4. CASE Merge
  BY <1>4, MergeIInv
<1>5. CASE \E w \in Workers : WorkerStep(w)
  BY Zenon, <1>5, EncodeTileIInv, ReturnIInv DEF WorkerStep
<1>6. QED
  BY Zenon, <1>1, <1>2, <1>3, <1>4, <1>5 DEF Next

LEMMA StutterIInv == ASSUME IInv, UNCHANGED vars PROVE IInv'
<1>1. UNCHANGED <<threads, numWorkers, staff, mainPc, used, started, pc, tile,
                  tdCounts, tdIntrabc, cols, intrabc, frames, counts,
                  intrabcUsed, encoded>>
  BY Zenon DEF vars, settings, workerVars, frameVars
<1>2. TypeOK' /\ StaffInv' /\ RestInv' /\ UsedInv'
  BY <1>1 DEF IInv, TypeOK, StaffInv, Short, RestInv, UsedInv
<1>3. PlaceInv' /\ WorkInv' /\ CountInv'
  BY <1>1 DEF IInv, PlaceInv, WorkInv, CountInv, Mine, Behind, FrameTiles
<1>4. TilesOnce' /\ CountsExact'
  BY <1>1 DEF IInv, TilesOnce, CountsExact, FrameTiles, Short
<1>5. QED
  BY <1>2, <1>3, <1>4 DEF IInv

\* The inductive invariant: at every moment the tiles that a worker has behind
\* it, and only these, are encoded and counted.
THEOREM Inductive == ~ThreadsShrink => (Spec => []IInv)
<1> SUFFICES ASSUME ~ThreadsShrink PROVE Spec => []IInv
  OBVIOUS
<1>1. IInv /\ [Next]_vars => IInv'
  BY Zenon, StepIInv, StutterIInv
<1>2. QED
  BY <1>1, InitIInv, PTL DEF Spec

\* Every variable keeps its type, whatever is created, fails or is launched.
THEOREM TypeCorrect == ~ThreadsShrink => (Spec => []TypeOK)
<1>1. IInv => TypeOK
  BY DEF IInv
<1>2. QED
  BY <1>1, Inductive, PTL

\* enc_worker_hook(): for every number of threads and of tile columns, and
\* whatever an earlier frame created, each tile is encoded exactly once.
THEOREM Once == ~ThreadsShrink => (Spec => []TilesOnce)
<1>1. IInv => TilesOnce
  BY DEF IInv
<1>2. QED
  BY <1>1, Inductive, PTL

\* av1_encode_tiles_mt(): the sums are those of all tiles of the frame and of
\* nothing else, although one worker is not added up but counts for the encoder.
THEOREM CountsComplete == ~ThreadsShrink => (Spec => []CountsExact)
<1>1. IInv => CountsExact
  BY DEF IInv
<1>2. QED
  BY <1>1, Inductive, PTL
==============================================================================
