-------------------------- MODULE TileJobsMT_proof ---------------------------
(***************************************************************************)
(* Proofs about TileJobsMT, for any number of threads, tiles, groups and   *)
(* frames, with failures and without.                                      *)
(***************************************************************************)
EXTENDS TileJobsMT, TLAPS

-----------------------------------------------------------------------------
\* Counting S is adding one to each of its tiles.
LEMMA CountedType ==
  ASSUME NEW f \in [TileIds -> Nat], NEW S
  PROVE  /\ Counted(f, S) \in [TileIds -> Nat]
         /\ \A t \in S \cap TileIds : Counted(f, S)[t] = f[t] + 1
         /\ \A t \in TileIds \ S : Counted(f, S)[t] = f[t]
BY DEF Counted, TileIds

\* A group of at least one tile has at least one worker and at most all of them.
LEMMA NumWorkersType ==
  ASSUME NEW s \in TileIds, NEW e \in TileIds, s <= e
  PROVE  NumWorkers(s, e) \in Workers
BY TileAssumption DEF NumWorkers, Workers, TileIds

\* The thread data of the calling thread is that of the last worker.
LEMMA LastWorker == MaxThreads \in Workers
BY TileAssumption DEF Workers

\* One more group is still a number of groups.
LEMMA OneMoreGroup == groups \in Nat /\ groups' = groups + 1 => groups' \in Nat
OBVIOUS

LEMMA InitIInv == Init => IInv
<1> SUFFICES ASSUME Init PROVE IInv
  OBVIOUS
<1> USE TileAssumption DEF Init
<1>1. TypeOK
  <2>1. 0 \in TileIds /\ 1 \in Workers
    BY DEF TileIds, Workers
  <2>2. QED
    BY <2>1 DEF TypeOK
<1>2. BusyInv /\ PlaceInv /\ DamageInv /\ VerdictInv /\ AcceptedIsDecoded
  BY DEF BusyInv, PlaceInv, Holds, DamageInv, Open, VerdictInv, AcceptedIsDecoded,
         Workers, TileIds
<1>3. BooksInv /\ EmptyInv
  BY DEF BooksInv, EmptyInv, Open, TileIds
<1>4. QED
  BY <1>1, <1>2, <1>3 DEF IInv

-----------------------------------------------------------------------------
(* The type invariant.                                                     *)

LEMMA StepType == TypeOK /\ [Next]_vars => TypeOK'
<1> SUFFICES ASSUME TypeOK, [Next]_vars PROVE TypeOK'
  OBVIOUS
<1> USE TileAssumption DEF TypeOK, frame, jobs, threads
<1>1. ASSUME NEW n \in 1..MaxTiles, NEW bad \in SUBSET (0..n - 1),
             StartFrame(n, bad)
      PROVE  TypeOK'
  BY <1>1 DEF StartFrame, TileIds
<1>2. ASSUME NEW t \in TileIds, SingleTile(t) PROVE TypeOK'
  <2>1. /\ Counted(asked, {t}) \in [TileIds -> Nat]
        /\ Counted(times, {t}) \in [TileIds -> Nat]
    BY CountedType
  <2>2. corrupted' \subseteq Workers
    <3>1. Marks(MaxThreads, t) \/ Leaves(MaxThreads)
      BY <1>2, Zenon DEF SingleTile
    <3>2. QED
      BY <3>1, LastWorker DEF Marks, Leaves
  <2>3. /\ phase' \in {"ready", "groups"}
        /\ verdict' \in {"none", "accepted", "rejected"}
    BY <1>2 DEF SingleTile, Rejected, Passed
  <2>4. groups' \in Nat
    <3>1. groups' = groups + 1
      BY <1>2, Zenon DEF SingleTile
    <3>2. QED
      BY <3>1, OneMoreGroup, Zenon
  <2>5. QED
    BY <1>2, <2>1, <2>2, <2>3, <2>4 DEF SingleTile
<1>3. ASSUME NEW s \in TileIds, NEW e \in TileIds, StartGroup(s, e) PROVE TypeOK'
  <2>1. nw' \in Workers /\ started' \in 0..nw'
    BY <1>3, NumWorkersType DEF StartGroup, ReadsGroup, Workers
  <2>2. todo' \subseteq TileIds /\ last' \in 0..tiles' - 1
    BY <1>3 DEF StartGroup, ReadsGroup, Group, TileIds
  <2>3. asked' \in [TileIds -> Nat]
    BY <1>3, CountedType DEF StartGroup
  <2>4. groups' \in Nat
    <3>1. groups' = groups + 1
      BY <1>3, Zenon DEF StartGroup
    <3>2. QED
      BY <3>1, OneMoreGroup, Zenon
  <2>5. made' \in 0..MaxThreads /\ layout' \in 0..MaxTiles /\ queue' \in 0..MaxTiles
    <3>1. made' = MaxThreads /\ layout' = tiles /\ queue' = tiles
      BY <1>3, Zenon DEF StartGroup
    <3>2. tiles \in 1..MaxTiles
      BY Zenon
    <3> HIDE DEF TypeOK
    <3>3. QED
      BY <3>1, <3>2
  <2>6. QED
    BY <1>3, <2>1, <2>2, <2>3, <2>4, <2>5 DEF StartGroup
<1>4. ASSUME NEW s \in TileIds, NEW e \in TileIds,
             UsesNoWorkers(s, e) \/ UsesNoQueue(s, e)
      PROVE  TypeOK'
  BY <1>4 DEF UsesNoWorkers, UsesNoQueue
<1>5. CASE NoMoreGroups \/ CreateFails \/ SetupFails \/ AllocFails
  <2>1. CASE NoMoreGroups
    BY <2>1 DEF NoMoreGroups, Rejected
  <2>2. CASE CreateFails
    BY <2>2 DEF CreateFails, Rejected
  <2>3. CASE AllocFails
    BY <2>3 DEF AllocFails, Rejected
  <2>4. CASE SetupFails
    BY <2>4 DEF SetupFails, Rejected
  <2>5. QED
    BY <1>5, <2>1, <2>2, <2>3, <2>4
<1>6. CASE Launch
  BY <1>6 DEF Launch, Workers
<1>7. CASE Merge \/ Handler
  BY <1>7 DEF Merge, Handler, Rejected, Passed
<1>8. CASE Jumps
  BY <1>8 DEF Jumps, Leaves
<1>9. ASSUME NEW w \in Workers, Worker(w) PROVE TypeOK'
  <2>1. CASE Take(w)
    BY <2>1 DEF Take, TakesTile
  <2>2. CASE Empties(w) \/ Drops(w)
    BY <2>2 DEF Empties, Drops, Returns
  <2>3. CASE Decode(w)
    <3>1. times' \in [TileIds -> Nat]
      BY <2>3, CountedType DEF Decode
    <3>2. corrupted' \subseteq Workers
      BY <2>3 DEF Decode, Marks
    <3>3. QED
      BY <2>3, <3>1, <3>2 DEF Decode
  <2>4. QED
    BY <1>9, <2>1, <2>2, <2>3 DEF Worker
<1>10. CASE UNCHANGED vars
  BY <1>10 DEF vars
<1>11. QED
  BY <1>1, <1>2, <1>3, <1>4, <1>5, <1>6, <1>7, <1>8, <1>9, <1>10
     DEF Next, Groups, Caller

-----------------------------------------------------------------------------
(* The inductive invariant, action by action.                              *)

Rest == /\ BusyInv /\ PlaceInv /\ BooksInv /\ DamageInv /\ EmptyInv
        /\ VerdictInv /\ AcceptedIsDecoded

\* A busy worker is one of a group that is not over.
LEMMA BusyPhase ==
  ASSUME TypeOK, BusyInv, NEW w \in Workers, pc[w] # "idle"
  PROVE  phase \in {"launch", "handler"} /\ w <= started
BY DEF TypeOK, BusyInv

\* Where every worker is idle, no tile is in anybody's hands.
LEMMA IdleHands ==
  ASSUME \A w \in Workers : pc[w] = "idle"
  PROVE  \A t \in TileIds : InHands(t) = 0 /\ \A w \in Workers : ~Holds(w, t)
BY DEF InHands, Holds

\* InHands depends on who holds what.
LEMMA SameHands ==
  ASSUME NEW t, \A w \in Workers : Holds(w, t)' <=> Holds(w, t)
  PROVE  InHands(t)' = InHands(t)
BY DEF InHands

\* Outside of a group, the books balance or at least do not overflow.
LEMMA TimesBelow ==
  ASSUME TypeOK, BooksInv
  PROVE  \A t \in TileIds : times[t] <= asked[t]
<1> TAKE t \in TileIds
<1>1. /\ times[t] \in Nat /\ asked[t] \in Nat
      /\ InQueue(t) \in Nat /\ InHands(t) \in Nat
  BY DEF TypeOK, InQueue, InHands
<1>2. CASE phase \in {"launch", "handler"}
  <2>1. times[t] + InQueue(t) + InHands(t) <= asked[t]
    BY <1>2 DEF BooksInv
  <2>2. QED
    BY <1>1, <2>1
<1>3. CASE phase \notin {"launch", "handler"}
  BY <1>3 DEF BooksInv
<1>4. QED
  BY <1>2, <1>3

\* What the invariant says of a state in which no worker is at work and no group
\* is open, from the few facts that are left.
LEMMA Quiet ==
  ASSUME TypeOK',
         phase' \in {"ready", "groups", "no workers", "no queue"},
         (\A w \in Workers : pc[w] = "idle")',
         (\A t \in TileIds : times[t] <= asked[t])',
         phase' = "groups" \/ verdict' = "accepted" =>
           (\A t \in TileIds : times[t] = asked[t] /\ (t \in damaged => times[t] = 0))',
         verdict' = "accepted" => phase' = "ready"
  PROVE  Rest'
<1>1. BusyInv' /\ VerdictInv'
  BY DEF BusyInv, VerdictInv
<1>2. PlaceInv'
  BY DEF PlaceInv, Holds
<1>3. (phase \notin {"launch", "handler"})' /\ ~Open'
  BY DEF Open
<1>4. BooksInv' /\ EmptyInv'
  BY <1>3 DEF BooksInv, EmptyInv
<1>5. AcceptedIsDecoded'
  BY DEF AcceptedIsDecoded
<1>6. (damaged \subseteq TileIds)'
  BY DEF TypeOK
<1>7. DamageInv'
  BY <1>3, <1>6 DEF DamageInv
<1>8. QED
  BY <1>1, <1>2, <1>4, <1>5, <1>7 DEF Rest

LEMMA StartFrameKeeps ==
  ASSUME IInv, TypeOK', NEW n, NEW bad, StartFrame(n, bad)
  PROVE  Rest'
<1>1. \A w \in Workers : pc[w] = "idle"
  BY DEF IInv, BusyInv, StartFrame
<1>2. /\ phase' = "groups" /\ verdict' = "none" /\ pc' = pc
      /\ asked' = [t \in TileIds |-> 0] /\ times' = [t \in TileIds |-> 0]
  BY DEF StartFrame, threads
<1>3. QED
  BY <1>1, <1>2, Quiet DEF Workers

\* Between two groups of a frame: everything the groups named is decoded.
LEMMA BetweenGroups ==
  ASSUME IInv, phase = "groups"
  PROVE  /\ \A w \in Workers : pc[w] = "idle"
         /\ \A t \in TileIds : times[t] = asked[t] /\ (t \in damaged => times[t] = 0)
         /\ \A t \in TileIds : times[t] <= asked[t]
         /\ verdict # "accepted"
BY TimesBelow DEF IInv, BusyInv, BooksInv, DamageInv, VerdictInv

LEMMA SingleTileKeeps ==
  ASSUME IInv, TypeOK', NEW s \in TileIds, SingleTile(s)
  PROVE  Rest'
<1>1. /\ phase = "groups" /\ pc' = pc /\ damaged' = damaged
      /\ asked' = Counted(asked, {s}) /\ times' = Counted(times, {s})
      /\ IF s \in damaged THEN Rejected ELSE Passed(s)
  BY DEF SingleTile, ReadsGroup
<1>2. /\ \A w \in Workers : pc[w] = "idle"
      /\ \A t \in TileIds : times[t] = asked[t] /\ (t \in damaged => times[t] = 0)
      /\ verdict # "accepted"
  BY <1>1, BetweenGroups
<1>3. /\ asked \in [TileIds -> Nat] /\ times \in [TileIds -> Nat]
      /\ times' \in [TileIds -> Nat]
  BY DEF IInv, TypeOK
<1>4. \A t \in TileIds : times'[t] = asked'[t]
  BY <1>1, <1>2, <1>3, CountedType DEF Counted
<1>5. \A t \in TileIds : times'[t] <= asked'[t]
  BY <1>3, <1>4
<1>6. CASE s \in damaged
  <2>1. phase' = "ready" /\ verdict' = "rejected"
    BY <1>1, <1>6 DEF Rejected
  <2>2. QED
    BY <1>1, <1>2, <1>5, <2>1, Quiet
<1>7. CASE s \notin damaged
  <2>1. /\ phase' \in {"ready", "groups"}
        /\ verdict' = "accepted" => phase' = "ready"
    BY <1>1, <1>2, <1>7 DEF Passed
  <2>2. \A t \in TileIds : t \in damaged => times'[t] = 0
    BY <1>1, <1>2, <1>3, <1>7, CountedType
  <2>3. QED
    BY <1>1, <1>2, <1>4, <1>5, <2>1, <2>2, Quiet
<1>8. QED
  BY <1>6, <1>7

\* A frame that ends between two groups, or in undefined behaviour.
LEMMA LeavesKeep ==
  ASSUME IInv, TypeOK',
         \/ NoMoreGroups \/ CreateFails \/ SetupFails \/ AllocFails
         \/ \E s, e \in TileIds : UsesNoWorkers(s, e) \/ UsesNoQueue(s, e)
  PROVE  Rest'
<1> DEFINE Left == /\ phase = "groups"
                   /\ phase' \in {"ready", "no workers", "no queue"}
                   /\ pc' = pc /\ asked' = asked /\ times' = times
                   /\ verdict' \in {"rejected", verdict}
<1>1. Left
  <2>1. CASE NoMoreGroups
    BY <2>1 DEF NoMoreGroups, Rejected, threads
  <2>2. CASE CreateFails
    BY <2>2 DEF CreateFails, Rejected, threads
  <2>3. CASE AllocFails
    BY <2>3 DEF AllocFails, Rejected, threads
  <2>4. ASSUME NEW s \in TileIds, NEW e \in TileIds, UsesNoWorkers(s, e)
        PROVE  Left
    BY <2>4 DEF UsesNoWorkers, ReadsGroup, threads
  <2>5. ASSUME NEW s \in TileIds, NEW e \in TileIds, UsesNoQueue(s, e)
        PROVE  Left
    BY <2>5 DEF UsesNoQueue, ReadsGroup, threads
  <2>6. CASE SetupFails
    BY <2>6 DEF SetupFails, Rejected, threads
  <2>7. QED
    BY <2>1, <2>2, <2>3, <2>4, <2>5, <2>6
<1>2. QED
  BY <1>1, BetweenGroups, Quiet

-----------------------------------------------------------------------------
(* The actions of a group.                                                 *)

LEMMA StartGroupKeeps ==
  ASSUME IInv, TypeOK', NEW s \in TileIds, NEW e \in TileIds, StartGroup(s, e)
  PROVE  Rest'
<1>1. /\ phase = "groups" /\ phase' = "launch" /\ pc' = pc /\ tile' = tile
      /\ started' = 0 /\ made' = MaxThreads /\ todo' = Group(s, e)
      /\ times' = times /\ damaged' = damaged /\ verdict' = verdict
      /\ asked' = Counted(asked, Group(s, e))
  BY Zenon DEF StartGroup, ReadsGroup, threads
<1>2. /\ \A w \in Workers : pc[w] = "idle"
      /\ \A t \in TileIds : times[t] = asked[t] /\ (t \in damaged => times[t] = 0)
      /\ verdict # "accepted"
  BY <1>1, BetweenGroups
<1>3. /\ asked \in [TileIds -> Nat] /\ times \in [TileIds -> Nat]
      /\ damaged \subseteq TileIds
  BY DEF IInv, TypeOK
<1>4. (\A t \in TileIds : InHands(t) = 0 /\ \A w \in Workers : ~Holds(w, t))'
  BY <1>1, <1>2 DEF InHands, Holds
<1>5. BusyInv' /\ PlaceInv'
  BY <1>1, <1>2, <1>4 DEF BusyInv, PlaceInv
<1>6. \A t \in TileIds : (times[t] + InQueue(t) + InHands(t) = asked[t])'
  BY <1>1, <1>2, <1>3, <1>4, CountedType DEF InQueue
<1>7. \A t \in TileIds : (times[t] + InQueue(t) + InHands(t) <= asked[t])'
  <2> TAKE t \in TileIds
  <2>1. asked'[t] \in Nat
    BY <1>1, <1>3, CountedType
  <2>2. QED
    BY <1>6, <2>1
<1>8. BooksInv'
  BY <1>1, <1>6, <1>7 DEF BooksInv
<1>9. DamageInv' /\ EmptyInv'
  BY <1>1, <1>2, <1>3 DEF DamageInv, EmptyInv
<1>10. VerdictInv' /\ AcceptedIsDecoded'
  BY <1>1, <1>2 DEF VerdictInv, AcceptedIsDecoded
<1>11. QED
  BY <1>5, <1>8, <1>9, <1>10 DEF Rest

LEMMA LaunchKeeps ==
  ASSUME IInv, TypeOK', Launch
  PROVE  Rest'
<1> DEFINE new == started + 1
<1>1. /\ phase = "launch" /\ phase' = phase /\ tile' = tile
      /\ started' = new /\ started < nw /\ made' = made /\ todo' = todo
      /\ pc' = [pc EXCEPT ![new] = "take"]
      /\ hadError' = hadError \ {new} /\ corrupted' = corrupted
      /\ times' = times /\ asked' = asked /\ damaged' = damaged
      /\ verdict' = verdict
  BY DEF Launch, frame
<1>2. /\ new \in Workers /\ pc \in [Workers -> {"idle", "take", "tile"}]
      /\ started \in Nat
  BY <1>1, TileAssumption DEF IInv, TypeOK, Workers
<1>3. pc[new] = "idle"
  <2>1. pc[new] # "idle" => new <= started
    BY <1>2 DEF IInv, BusyInv
  <2>2. ~(new <= started)
    BY <1>2
  <2>3. QED
    BY <2>1, <2>2
<1>4. \A w \in Workers : \A t : Holds(w, t)' <=> Holds(w, t)
  BY <1>1, <1>2, <1>3 DEF Holds
<1>5. \A t : InHands(t)' = InHands(t) /\ InQueue(t)' = InQueue(t)
  BY <1>1, <1>4 DEF InHands, InQueue
<1>6. BusyInv'
  BY <1>1, <1>2, <1>3 DEF IInv, BusyInv, Workers
<1>7. PlaceInv'
  BY <1>1, <1>4 DEF IInv, PlaceInv
<1>8. Stained => Stained'
  <2>1. SUFFICES ASSUME NEW w \in 1..started,
                        w \in hadError \/ (w \in corrupted /\ pc[w] # "idle")
                 PROVE  Stained'
    BY DEF Stained
  <2>2. w \in 1..started' /\ w # new /\ pc'[w] = pc[w]
    BY <1>1, <1>2
  <2>3. QED
    BY <1>1, <2>1, <2>2 DEF Stained
<1>9. BooksInv' /\ DamageInv'
  BY <1>1, <1>5, <1>8 DEF IInv, BooksInv, DamageInv, Open
<1>10. EmptyInv'
  <2>1. SUFFICES ASSUME NEW w \in 1..new, pc'[w] = "idle", w \notin hadError'
                 PROVE  todo' = {}
    BY <1>1 DEF EmptyInv
  <2>2. w # new
    BY <1>1, <1>2, <2>1
  <2>3. w \in 1..started /\ pc[w] = "idle" /\ w \notin hadError
    BY <1>1, <1>2, <2>1, <2>2
  <2>4. QED
    BY <1>1, <2>3 DEF IInv, EmptyInv, Open
<1>11. VerdictInv' /\ AcceptedIsDecoded'
  BY <1>1 DEF IInv, VerdictInv, AcceptedIsDecoded
<1>12. QED
  BY <1>6, <1>7, <1>9, <1>10, <1>11 DEF Rest

\* All workers have returned: without an error, the queue is empty, nothing is in
\* anybody's hands and nobody has met a damaged tile.
LEMMA MergeKeeps ==
  ASSUME IInv, TypeOK', Merge
  PROVE  Rest'
<1>1. /\ phase = "launch" /\ started = nw /\ pc' = pc
      /\ \A w \in 1..nw : pc[w] = "idle"
      /\ times' = times /\ asked' = asked /\ damaged' = damaged
      /\ IF Spoilt THEN Rejected ELSE Passed(last)
  BY DEF Merge, frame, threads
<1>2. nw \in Workers /\ 1 \in 1..nw /\ verdict # "accepted"
  <2>1. nw \in Workers
    BY DEF IInv, TypeOK
  <2>2. 1 \in 1..nw
    BY <2>1 DEF Workers
  <2>3. verdict # "accepted"
    BY <1>1 DEF IInv, VerdictInv
  <2>4. QED
    BY <2>1, <2>2, <2>3
<1>3. \A w \in Workers : pc[w] = "idle"
  BY <1>1, <1>2 DEF IInv, BusyInv, Workers
<1>4. \A t \in TileIds : times[t] <= asked[t]
  BY TimesBelow DEF IInv
<1>5. CASE Spoilt
  <2>1. phase' = "ready" /\ verdict' = "rejected"
    BY <1>1, <1>5 DEF Rejected
  <2>2. QED
    BY <1>1, <1>3, <1>4, <2>1, Quiet
<1>6. CASE ~Spoilt
  <2>1. /\ phase' \in {"ready", "groups"}
        /\ verdict' = "accepted" => phase' = "ready"
    BY <1>1, <1>2, <1>6 DEF Passed
  <2>2. ~Stained
    BY <1>1, <1>6 DEF Stained, Spoilt
  <2>3. todo = {}
    BY <1>1, <1>2, <1>6 DEF IInv, EmptyInv, Open, Spoilt
  <2>4. \A t \in TileIds : InQueue(t) = 0 /\ InHands(t) = 0
    BY <1>3, <2>3, IdleHands DEF InQueue
  <2>5. \A t \in TileIds : times[t] = asked[t]
    <3> TAKE t \in TileIds
    <3>1. times[t] + InQueue(t) + InHands(t) = asked[t] /\ times[t] \in Nat
      BY <1>1, <2>2 DEF IInv, TypeOK, BooksInv, Open
    <3>2. QED
      BY <2>4, <3>1
  <2>6. \A t \in TileIds : t \in damaged => times[t] = 0
    BY <1>1, <2>2 DEF IInv, DamageInv, Open
  <2>7. QED
    BY <1>1, <1>3, <1>4, <2>1, <2>5, <2>6, Quiet
<1>7. QED
  BY <1>5, <1>6

LEMMA HandlerKeeps ==
  ASSUME IInv, TypeOK', Handler
  PROVE  Rest'
<1>1. /\ phase = "handler" /\ phase' = "ready" /\ verdict' = "rejected"
      /\ pc' = pc /\ \A w \in 1..made : pc[w] = "idle"
      /\ times' = times /\ asked' = asked
  BY DEF Handler, Rejected, threads
<1>2. \A w \in Workers : pc[w] = "idle"
  BY <1>1 DEF IInv, BusyInv, Workers
<1>3. \A t \in TileIds : times[t] <= asked[t]
  BY TimesBelow DEF IInv
<1>4. QED
  BY <1>1, <1>2, <1>3, Quiet

LEMMA JumpsKeeps ==
  ASSUME IInv, TypeOK', Jumps
  PROVE  Rest'
<1>1. /\ phase = "launch" /\ phase' = "handler" /\ made' = made /\ todo' = todo
      /\ pc' = [pc EXCEPT ![nw] = "idle"] /\ tile' = tile
      /\ started' = started /\ verdict' = verdict
      /\ times' = times /\ asked' = asked
      /\ \A w \in Workers : w # nw => (w \in corrupted' <=> w \in corrupted)
  BY DEF Jumps, Leaves, frame
<1>2. /\ nw \in Workers /\ pc \in [Workers -> {"idle", "take", "tile"}]
      /\ asked \in [TileIds -> Nat] /\ times \in [TileIds -> Nat]
  BY DEF IInv, TypeOK
<1>3. \A w \in Workers : \A t : Holds(w, t)' => Holds(w, t)
  BY <1>1, <1>2 DEF Holds
<1>4. BusyInv'
  BY <1>1, <1>2 DEF IInv, BusyInv
<1>5. PlaceInv'
  BY <1>1, <1>3 DEF IInv, PlaceInv
<1>6. \A t \in TileIds : (times[t] + InQueue(t) + InHands(t) <= asked[t])'
  <2> TAKE t \in TileIds
  <2>1. InQueue(t)' = InQueue(t) /\ InQueue(t) \in Nat
    BY <1>1 DEF InQueue
  <2>2. InHands(t)' <= InHands(t) /\ InHands(t) \in Nat /\ InHands(t)' \in Nat
    BY <1>3 DEF InHands
  <2>3. times[t] + InQueue(t) + InHands(t) <= asked[t]
    BY <1>1 DEF IInv, BooksInv
  <2>4. QED
    BY <1>1, <1>2, <2>1, <2>2, <2>3
<1>7. BooksInv' /\ DamageInv' /\ EmptyInv'
  BY <1>1, <1>6 DEF BooksInv, DamageInv, EmptyInv, Open
<1>8. VerdictInv' /\ AcceptedIsDecoded'
  BY <1>1 DEF IInv, VerdictInv, AcceptedIsDecoded
<1>9. QED
  BY <1>4, <1>5, <1>7, <1>8 DEF Rest

-----------------------------------------------------------------------------
(* The actions of a worker.                                                *)

\* A worker at work is one that the open group, or the one whose handler runs,
\* launched; it was launched before the calling thread merges the flags.
LEMMA AtWork ==
  ASSUME IInv, NEW w \in Workers, pc[w] # "idle"
  PROVE  /\ phase \in {"launch", "handler"} /\ w \in 1..started
         /\ started \in Nat /\ verdict # "accepted"
<1>1. TypeOK /\ BusyInv
  BY DEF IInv
<1>2. phase \in {"launch", "handler"} /\ w <= started
  BY <1>1, BusyPhase
<1>3. w \in Nat /\ w >= 1 /\ started \in Nat
  <2>1. nw \in Workers /\ started \in 0..nw
    BY <1>1 DEF TypeOK
  <2>2. QED
    BY <2>1 DEF Workers
<1>4. verdict # "accepted"
  BY <1>2 DEF IInv, VerdictInv
<1>5. QED
  BY <1>2, <1>3, <1>4

\* What a worker's step leaves to show: the state is still one of a group.
LEMMA StillOpen ==
  ASSUME phase' = phase, phase \in {"launch", "handler"},
         verdict' = verdict, verdict # "accepted"
  PROVE  VerdictInv' /\ AcceptedIsDecoded' /\ Open' = Open
BY DEF VerdictInv, AcceptedIsDecoded, Open

\* The numbers that the books add up.
LEMMA BooksType ==
  ASSUME TypeOK, NEW t \in TileIds
  PROVE  /\ times[t] \in Nat /\ asked[t] \in Nat
         /\ InQueue(t) \in {0, 1} /\ InHands(t) \in {0, 1}
BY DEF TypeOK, InQueue, InHands

\* Whatever leaves the sum of the books as it is, and every stain, keeps them.
LEMMA BalanceKept ==
  ASSUME IInv, phase' = phase, phase \in {"launch", "handler"},
         asked' = asked, Stained => Stained',
         \A t \in TileIds : (times[t] + InQueue(t) + InHands(t))'
                              = times[t] + InQueue(t) + InHands(t)
  PROVE  BooksInv'
BY DEF IInv, BooksInv, Open

LEMMA TakeKeeps ==
  ASSUME IInv, TypeOK', NEW w \in Workers, Take(w)
  PROVE  Rest'
<1>1. PICK u \in todo : TakesTile(w, u)
  BY DEF Take
<1>2. /\ todo' = todo \ {u} /\ tile' = [tile EXCEPT ![w] = u]
      /\ pc' = [pc EXCEPT ![w] = "tile"] /\ pc[w] = "take" /\ w \notin corrupted
      /\ phase' = phase /\ started' = started /\ made' = made
      /\ corrupted' = corrupted /\ hadError' = hadError
      /\ times' = times /\ asked' = asked /\ damaged' = damaged
      /\ verdict' = verdict
  BY <1>1 DEF Take, TakesTile, frame
<1>3. /\ u \in TileIds /\ tile \in [Workers -> TileIds]
      /\ pc \in [Workers -> {"idle", "take", "tile"}]
  BY DEF IInv, TypeOK
<1>4. /\ phase \in {"launch", "handler"} /\ w \in 1..started
      /\ verdict # "accepted"
  BY <1>2, AtWork
<1>5. \A v \in Workers, t \in TileIds :
        Holds(v, t)' <=> IF v = w THEN t = u ELSE Holds(v, t)
  BY <1>2, <1>3 DEF Holds
<1>6. \A v \in Workers : ~Holds(v, u)
  BY <1>3 DEF IInv, PlaceInv
<1>7. \A t \in TileIds : ~Holds(w, t)
  BY <1>2 DEF Holds
<1>8. BusyInv'
  BY <1>2, <1>3, <1>4 DEF IInv, BusyInv
<1>9. PlaceInv'
  BY <1>2, <1>5, <1>6 DEF IInv, PlaceInv
<1>10. Stained => Stained'
  BY <1>2, <1>3 DEF Stained
<1>11. \A t \in TileIds : (times[t] + InQueue(t) + InHands(t))'
                            = times[t] + InQueue(t) + InHands(t)
  <2> TAKE t \in TileIds
  <2>1. CASE t = u
    <3>1. InQueue(t) = 1 /\ InQueue(t)' = 0 /\ InHands(t) = 0 /\ InHands(t)' = 1
      BY <1>2, <1>5, <1>6, <2>1 DEF InQueue, InHands
    <3>2. times[t] \in Nat
      BY BooksType DEF IInv
    <3>3. QED
      BY <1>2, <3>1, <3>2
  <2>2. CASE t # u
    <3>1. InQueue(t)' = InQueue(t)
      BY <1>2, <2>2 DEF InQueue
    <3>2. InHands(t)' = InHands(t)
      BY <1>5, <1>7, <2>2 DEF InHands
    <3>3. QED
      BY <1>2, <3>1, <3>2
  <2>3. QED
    BY <2>1, <2>2
<1>12. BooksInv'
  BY <1>2, <1>4, <1>10, <1>11, BalanceKept
<1>13. DamageInv'
  BY <1>2, <1>4, <1>10 DEF IInv, DamageInv, Open
<1>14. EmptyInv'
  BY <1>1, <1>2, <1>3 DEF IInv, EmptyInv, Open
<1>15. QED
  BY <1>2, <1>4, <1>8, <1>9, <1>12, <1>13, <1>14, StillOpen DEF Rest

\* A worker that returns holds no tile, and its stain, if it had one, shows in
\* had_error.
LEMMA ReturnsKeeps ==
  ASSUME IInv, NEW w \in Workers, pc[w] = "take", Returns(w)
  PROVE  /\ \A v \in Workers : \A t : Holds(v, t)' <=> Holds(v, t)
         /\ \A t : InHands(t)' = InHands(t)
         /\ BusyInv' /\ (Stained => Stained')
         /\ (w \in corrupted => Stained')
         /\ VerdictInv' /\ AcceptedIsDecoded' /\ Open' = Open
<1>1. /\ pc' = [pc EXCEPT ![w] = "idle"] /\ tile' = tile
      /\ phase' = phase /\ started' = started /\ made' = made
      /\ corrupted' = corrupted /\ verdict' = verdict
      /\ hadError \subseteq hadError' /\ (w \in corrupted => w \in hadError')
  BY DEF Returns
<1>2. pc \in [Workers -> {"idle", "take", "tile"}]
  BY DEF IInv, TypeOK
<1>3. /\ phase \in {"launch", "handler"} /\ w \in 1..started
      /\ verdict # "accepted" /\ started \in Nat
  BY AtWork
<1>4. \A v \in Workers : \A t : Holds(v, t)' <=> Holds(v, t)
  BY <1>1, <1>2 DEF Holds
<1>5. \A t : InHands(t)' = InHands(t)
  BY <1>4 DEF InHands
<1>6. BusyInv'
  BY <1>1, <1>2, <1>3 DEF IInv, BusyInv
<1>7. w \in corrupted => Stained'
  BY <1>1, <1>3 DEF Stained
<1>8. Stained => Stained'
  <2>1. SUFFICES ASSUME NEW v \in 1..started,
                        v \in hadError \/ (v \in corrupted /\ pc[v] # "idle")
                 PROVE  Stained'
    BY DEF Stained
  <2>2. CASE v \in hadError
    BY <1>1, <2>2 DEF Stained
  <2>3. CASE v = w
    BY <1>1, <1>7, <2>1, <2>3 DEF Stained
  <2>4. CASE v # w /\ v \in corrupted /\ pc[v] # "idle"
    <3>1. pc'[v] = pc[v]
      BY <1>1, <1>2, <2>4
    <3>2. QED
      BY <1>1, <2>4, <3>1 DEF Stained
  <2>5. QED
    BY <2>1, <2>2, <2>3, <2>4
<1>9. QED
  BY <1>1, <1>3, <1>4, <1>5, <1>6, <1>7, <1>8, StillOpen

LEMMA EmptiesKeeps ==
  ASSUME IInv, TypeOK', NEW w \in Workers, Empties(w)
  PROVE  Rest'
<1>1. /\ pc[w] = "take" /\ Returns(w) /\ todo = {} /\ todo' = {}
      /\ phase' = phase /\ times' = times /\ asked' = asked
      /\ damaged' = damaged
  BY DEF Empties, Returns, frame
<1>2. /\ \A v \in Workers : \A t : Holds(v, t)' <=> Holds(v, t)
      /\ \A t : InHands(t)' = InHands(t)
      /\ BusyInv' /\ (Stained => Stained')
      /\ VerdictInv' /\ AcceptedIsDecoded' /\ Open' = Open
  BY <1>1, ReturnsKeeps
<1>3. phase \in {"launch", "handler"}
  BY <1>1, AtWork
<1>4. PlaceInv'
  BY <1>1, <1>2 DEF IInv, PlaceInv
<1>5. \A t \in TileIds : (times[t] + InQueue(t) + InHands(t))'
                           = times[t] + InQueue(t) + InHands(t)
  BY <1>1, <1>2 DEF InQueue
<1>6. BooksInv'
  BY <1>1, <1>2, <1>3, <1>5, BalanceKept
<1>7. DamageInv' /\ EmptyInv'
  BY <1>1, <1>2 DEF IInv, DamageInv, EmptyInv, Open
<1>8. QED
  BY <1>2, <1>4, <1>6, <1>7 DEF Rest

LEMMA DropsKeeps ==
  ASSUME IInv, TypeOK', NEW w \in Workers, Drops(w)
  PROVE  Rest'
<1>1. PICK u \in todo : todo' = todo \ {u}
  BY DEF Drops
<1>2. /\ pc[w] = "take" /\ w \in corrupted /\ Returns(w)
      /\ pc' = [pc EXCEPT ![w] = "idle"] /\ hadError' = hadError \cup {w}
      /\ phase' = phase /\ started' = started
      /\ times' = times /\ asked' = asked
  BY DEF Drops, Returns
<1>3. /\ \A v \in Workers : \A t : Holds(v, t)' <=> Holds(v, t)
      /\ \A t : InHands(t)' = InHands(t)
      /\ BusyInv' /\ Stained'
      /\ VerdictInv' /\ AcceptedIsDecoded' /\ Open' = Open
  BY <1>2, ReturnsKeeps
<1>4. phase \in {"launch", "handler"}
  BY <1>2, AtWork
<1>5. PlaceInv'
  BY <1>1, <1>3 DEF IInv, PlaceInv
<1>6. \A t \in TileIds : (times[t] + InQueue(t) + InHands(t) <= asked[t])'
  <2> TAKE t \in TileIds
  <2>1. /\ times[t] \in Nat /\ asked[t] \in Nat
        /\ InQueue(t) \in {0, 1} /\ InHands(t) \in {0, 1}
    BY BooksType DEF IInv
  <2>2. InQueue(t)' \in {0, 1} /\ InQueue(t)' <= InQueue(t)
    BY <1>1 DEF InQueue
  <2>3. times[t] + InQueue(t) + InHands(t) <= asked[t]
    BY <1>4 DEF IInv, BooksInv
  <2>4. QED
    BY <1>2, <1>3, <2>1, <2>2, <2>3
<1>7. BooksInv'
  BY <1>2, <1>3, <1>4, <1>6 DEF BooksInv
<1>8. DamageInv'
  BY <1>2, <1>3, <1>4 DEF DamageInv
<1>9. EmptyInv'
  <2>1. SUFFICES ASSUME Open, NEW v \in 1..started, pc'[v] = "idle",
                        v \notin hadError'
                 PROVE  FALSE
    BY <1>2, <1>3 DEF EmptyInv
  <2>2. v # w /\ v \notin hadError
    BY <1>2, <2>1
  <2>3. pc \in [Workers -> {"idle", "take", "tile"}]
    BY DEF IInv, TypeOK
  <2>4. pc[v] = "idle"
    BY <1>2, <2>1, <2>2, <2>3
  <2>5. todo = {}
    BY <2>1, <2>2, <2>4 DEF IInv, EmptyInv
  <2>6. QED
    BY <1>1, <2>5
<1>10. QED
  BY <1>3, <1>5, <1>7, <1>8, <1>9 DEF Rest

LEMMA DecodeKeeps ==
  ASSUME IInv, TypeOK', NEW w \in Workers, Decode(w)
  PROVE  Rest'
<1> DEFINE u == tile[w]
<1>1. /\ pc[w] = "tile" /\ pc' = [pc EXCEPT ![w] = "take"] /\ tile' = tile
      /\ times' = Counted(times, {u}) /\ asked' = asked /\ Marks(w, u)
      /\ phase' = phase /\ started' = started /\ made' = made
      /\ todo' = todo /\ hadError' = hadError /\ damaged' = damaged
      /\ verdict' = verdict
  BY DEF Decode, frame
<1>2. /\ u \in TileIds /\ tile \in [Workers -> TileIds]
      /\ pc \in [Workers -> {"idle", "take", "tile"}]
      /\ times \in [TileIds -> Nat] /\ damaged \subseteq TileIds
  BY DEF IInv, TypeOK
<1>3. /\ phase \in {"launch", "handler"} /\ w \in 1..started
      /\ verdict # "accepted"
  BY <1>1, AtWork
<1>4. w \notin corrupted
  BY <1>1 DEF IInv, BusyInv
<1>5. /\ \A v \in Workers : v # w => (v \in corrupted' <=> v \in corrupted)
      /\ w \in corrupted' <=> u \in damaged
      /\ corrupted \subseteq corrupted'
  BY <1>1, <1>4 DEF Marks
<1>6. \A v \in Workers, t \in TileIds :
        Holds(v, t)' <=> v # w /\ Holds(v, t)
  BY <1>1, <1>2 DEF Holds
<1>7. \A t \in TileIds : Holds(w, t) <=> t = u
  BY <1>1 DEF Holds
<1>8. \A v \in Workers : Holds(v, u) => v = w
  BY <1>2, <1>7 DEF IInv, PlaceInv
<1>9. BusyInv'
  BY <1>1, <1>2, <1>3, <1>5 DEF IInv, BusyInv
<1>10. PlaceInv'
  BY <1>1, <1>6 DEF IInv, PlaceInv
<1>11. Stained => Stained'
  BY <1>1, <1>2, <1>5 DEF Stained
<1>12. u \in damaged => Stained'
  <2>1. pc'[w] # "idle"
    BY <1>1, <1>2
  <2>2. QED
    BY <1>1, <1>3, <1>5, <2>1 DEF Stained
<1>13. \A t \in TileIds : (times[t] + InQueue(t) + InHands(t))'
                            = times[t] + InQueue(t) + InHands(t)
  <2> TAKE t \in TileIds
  <2>1. /\ times[t] \in Nat /\ InQueue(t) \in {0, 1}
        /\ InQueue(t)' = InQueue(t)
    BY <1>1, BooksType DEF IInv, InQueue
  <2>2. CASE t = u
    <3>1. InHands(t) = 1 /\ InHands(t)' = 0
      BY <1>2, <1>6, <1>7, <1>8, <2>2 DEF InHands
    <3>2. times'[t] = times[t] + 1
      BY <1>1, <1>2, <2>2, CountedType
    <3>3. QED
      BY <2>1, <3>1, <3>2
  <2>3. CASE t # u
    <3>1. InHands(t)' = InHands(t)
      BY <1>6, <1>7, <2>3 DEF InHands
    <3>2. times'[t] = times[t]
      BY <1>1, <1>2, <2>3, CountedType
    <3>3. QED
      BY <2>1, <3>1, <3>2
  <2>4. QED
    BY <2>2, <2>3
<1>14. BooksInv'
  BY <1>1, <1>3, <1>11, <1>13, BalanceKept
<1>15. DamageInv'
  <2>1. SUFFICES ASSUME Open', ~Stained', NEW t \in damaged
                 PROVE  times'[t] = 0
    BY <1>1, <1>3 DEF DamageInv
  <2>2. times[t] = 0
    BY <1>1, <1>11, <2>1 DEF IInv, DamageInv, Open
  <2>3. t # u
    BY <1>12, <2>1
  <2>4. QED
    BY <1>1, <1>2, <2>2, <2>3, CountedType
<1>16. EmptyInv'
  BY <1>1, <1>2 DEF IInv, EmptyInv, Open
<1>17. QED
  BY <1>1, <1>3, <1>9, <1>10, <1>14, <1>15, <1>16, StillOpen DEF Rest

-----------------------------------------------------------------------------
(* The theorems.                                                           *)

LEMMA StutterKeeps ==
  ASSUME IInv, UNCHANGED vars
  PROVE  Rest'
<1>1. Rest
  BY DEF IInv, Rest
<1>2. QED
  BY <1>1 DEF Rest, vars, frame, jobs, threads, BusyInv, PlaceInv, Holds, BooksInv,
              InQueue, InHands, DamageInv, EmptyInv, Open, Stained, VerdictInv,
              AcceptedIsDecoded

LEMMA StepIInv == IInv /\ [Next]_vars => IInv'
<1>1. SUFFICES ASSUME IInv, [Next]_vars, TypeOK' PROVE Rest'
  BY StepType DEF IInv, Rest
<1>2. CASE \E n \in 1..MaxTiles : \E bad \in SUBSET (0..n - 1) : StartFrame(n, bad)
  BY <1>1, <1>2, StartFrameKeeps
<1>3. CASE \E t \in TileIds : SingleTile(t)
  BY <1>1, <1>3, SingleTileKeeps
<1>4. CASE Groups \/ NoMoreGroups \/ CreateFails \/ SetupFails \/ AllocFails
  BY <1>1, <1>4, StartGroupKeeps, LeavesKeep DEF Groups
<1>5. CASE Caller \/ Jumps
  BY <1>1, <1>5, LaunchKeeps, MergeKeeps, HandlerKeeps, JumpsKeeps DEF Caller
<1>6. CASE \E w \in Workers : Worker(w)
  BY <1>1, <1>6, TakeKeeps, EmptiesKeeps, DropsKeeps, DecodeKeeps DEF Worker
<1>7. CASE UNCHANGED vars
  BY <1>1, <1>7, StutterKeeps
<1>8. QED
  BY <1>1, <1>2, <1>3, <1>4, <1>5, <1>6, <1>7 DEF Next

\* IInv holds in every reachable state of decode_tiles_mt() and its workers, with
\* any number of threads, tiles, tile groups and frames.
THEOREM Inductive == Spec => []IInv
<1>1. Init => IInv
  BY InitIInv
<1>2. IInv /\ [Next]_vars => IInv'
  BY StepIInv
<1>3. QED
  BY <1>1, <1>2, PTL DEF Spec

\* The variables have their types; so num_workers never exceeds the threads, and
\* no job names a tile that does not exist.
THEOREM TypeCorrect == Spec => []TypeOK
<1>1. IInv => TypeOK
  BY DEF IInv
<1>2. QED
  BY <1>1, Inductive, PTL

\* get_dec_job_info() hands no job to two threads.
THEOREM Once == Spec => []TilesOnce
<1>1. IInv => TilesOnce
  BY TimesBelow DEF IInv, TilesOnce
<1>2. QED
  BY <1>1, Inductive, PTL

\* A frame is accepted only if all its tiles were decoded without an error of any
\* thread.
THEOREM Accepted == Spec => []AcceptedIsDecoded
<1>1. IInv => AcceptedIsDecoded
  BY DEF IInv
<1>2. QED
  BY <1>1, Inductive, PTL

\* Nobody works on tiles when the decoder has returned or is between two groups.
THEOREM NobodyLeft == Spec => []NobodyWorksOn
<1>1. IInv => NobodyWorksOn
  BY DEF IInv, BusyInv, NobodyWorksOn
<1>2. QED
  BY <1>1, Inductive, PTL
=============================================================================
