-------------------------- MODULE EncoderQueue_proof --------------------------
(***************************************************************************)
(* Proofs about EncoderQueue for every lag and any number of pictures: the *)
(* pointer to the alternate reference, room for the next picture, nothing  *)
(* left behind by a drained encoder, and the queue that the ring stands    *)
(* for.                                                                    *)
(***************************************************************************)
EXTENDS EncoderQueue, SequenceTheorems, TLAPS

(***************************************************************************)
(* Going round the ring.                                                   *)
(***************************************************************************)

LEMMA Sizes ==
  /\ Lag \in Nat \ {0} /\ MaxSz = Lag + 1 /\ Slots = 0..Lag
  /\ MaxPushes \in Nat /\ MaxPending \in Nat
BY QueueAssumption DEF MaxSz, PRE, Slots

\* Up to once round, every entry is met, and met once.
LEMMA WrapSlot ==
  ASSUME NEW r \in Slots, NEW i \in 0..Lag + 1
  PROVE  Wrap(r + i) \in Slots
BY Sizes DEF Wrap

LEMMA WrapApart ==
  ASSUME NEW r \in Slots, NEW i \in 0..Lag, NEW j \in 0..Lag,
         Wrap(r + i) = Wrap(r + j)
  PROVE  i = j
BY Sizes DEF Wrap

\* One entry further on, the same entries are one nearer.
LEMMA WrapNext ==
  ASSUME NEW r \in Slots, NEW i \in 0..Lag
  PROVE  Wrap(Wrap(r + 1) + i) = Wrap(r + (i + 1))
BY Sizes DEF Wrap

\* The entry before the oldest is the last of a whole round.
LEMMA LastOfRound ==
  ASSUME readIdx \in Slots
  PROVE  PeekLast = Wrap(readIdx + Lag)
BY Sizes DEF Wrap, PeekLast

LEMMA WrapHere == ASSUME NEW r \in Slots PROVE Wrap(r) = r /\ Wrap(r + 0) = r
BY Sizes DEF Wrap

(***************************************************************************)
(* What pushing and taking out do to the ring.                             *)
(***************************************************************************)

LEMMA RingTypes ==
  ASSUME TypeOK
  PROVE  /\ sz \in 0..Lag /\ readIdx \in Slots /\ writeIdx \in Slots
         /\ buf \in [Slots -> [frame : 0..MaxPushes, key : BOOLEAN]]
         /\ pushed \in 0..MaxPushes /\ popped \in 0..MaxPushes
BY DEF TypeOK

\* A push writes to an entry that is not queued, and not the one taken out last.
LEMMA PushRing ==
  ASSUME TypeOK, RingInv, HasRoom, pushed < MaxPushes,
         NEW key \in BOOLEAN, NEW fails \in BOOLEAN, Push(key, fails)
  PROVE  /\ sz' \in 0..Lag /\ sz' = sz + 1 /\ sz < Lag
         /\ readIdx' = readIdx /\ writeIdx' \in Slots /\ RingInv'
         /\ buf' \in [Slots -> [frame : 0..MaxPushes, key : BOOLEAN]]
         /\ \A i \in 0..Lag : i # sz =>
              buf'[Wrap(readIdx + i)] = buf[Wrap(readIdx + i)]
<1>1. /\ writeIdx' = Wrap(writeIdx + 1) /\ sz' = sz + 1 /\ readIdx' = readIdx
      /\ writeIdx = Wrap(readIdx + sz)
  BY DEF Push, RingInv
<1>2. /\ sz \in 0..Lag /\ readIdx \in Slots /\ writeIdx \in Slots
      /\ pushed \in 0..MaxPushes
      /\ buf \in [Slots -> [frame : 0..MaxPushes, key : BOOLEAN]]
  BY RingTypes
<1>3. sz < Lag
  BY <1>2, Sizes DEF HasRoom, PRE
<1>4. sz' \in 0..Lag
  BY <1>1, <1>2, <1>3, Sizes
<1>5. writeIdx' \in Slots
  BY <1>1, <1>2, WrapSlot, Sizes
<1>6. RingInv'
  <2>1. Wrap(Wrap(readIdx + sz) + 1) = Wrap(readIdx + (sz + 1))
    BY <1>2, Sizes DEF Wrap
  <2>2. QED
    BY <1>1, <2>1 DEF RingInv
<1>7. DEFINE new == [frame |-> pushed + 1, key |-> key]
<1>8. buf' = buf \/ buf' = [buf EXCEPT ![writeIdx] = new]
  BY Zenon DEF Push
<1>9. new \in [frame : 0..MaxPushes, key : BOOLEAN]
  BY <1>2, Sizes
<1> HIDE DEF new
<1>10. buf' \in [Slots -> [frame : 0..MaxPushes, key : BOOLEAN]]
  BY <1>2, <1>8, <1>9
<1>11. ASSUME NEW i \in 0..Lag, i # sz
       PROVE  buf'[Wrap(readIdx + i)] = buf[Wrap(readIdx + i)]
  <2>1. Wrap(readIdx + i) # writeIdx
    BY <1>1, <1>2, <1>11, WrapApart
  <2>2. \A s \in Slots : s # writeIdx => buf'[s] = buf[s]
    BY <1>2, <1>8
  <2>3. Wrap(readIdx + i) \in Slots
    BY <1>2, WrapSlot, Sizes
  <2>4. QED
    BY <2>1, <2>2, <2>3
<1>12. QED
  BY <1>1, <1>3, <1>4, <1>5, <1>6, <1>10, <1>11

\* Taking out moves on by one entry, and leaves it where PeekLast finds it.
LEMMA PopRing ==
  ASSUME TypeOK, RingInv, sz > 0, Pop
  PROVE  /\ sz' \in 0..Lag - 1 /\ sz' = sz - 1
         /\ readIdx' \in Slots /\ writeIdx' \in Slots /\ RingInv'
         /\ buf' = buf /\ popped' = buf[readIdx].frame
         /\ popped' \in 0..MaxPushes
         /\ \A i \in 0..Lag : Wrap(readIdx' + i) = Wrap(readIdx + (i + 1))
<1>1. /\ readIdx' = Wrap(readIdx + 1) /\ sz' = sz - 1 /\ writeIdx' = writeIdx
      /\ buf' = buf /\ popped' = buf[readIdx].frame
  BY DEF Pop
<1>2. /\ sz \in 0..Lag /\ readIdx \in Slots /\ writeIdx \in Slots
      /\ buf \in [Slots -> [frame : 0..MaxPushes, key : BOOLEAN]]
  BY RingTypes
<1>3. sz' \in 0..Lag - 1
  BY <1>1, <1>2, Sizes
<1>4. readIdx' \in Slots
  BY <1>1, <1>2, WrapSlot, Sizes
<1>5. \A i \in 0..Lag : Wrap(readIdx' + i) = Wrap(readIdx + (i + 1))
  BY <1>1, <1>2, WrapNext
<1>6. RingInv'
  <2>1. sz' \in 0..Lag /\ sz' + 1 = sz
    BY <1>1, <1>2, <1>3, Sizes
  <2>2. Wrap(readIdx' + sz') = Wrap(readIdx + sz)
    BY <1>5, <2>1
  <2>3. QED
    BY <1>1, <2>2 DEF RingInv
<1>7. buf[readIdx].frame \in 0..MaxPushes
  BY <1>2
<1>8. QED
  BY <1>1, <1>2, <1>3, <1>4, <1>5, <1>6, <1>7

(***************************************************************************)
(* The inductive invariant.                                                *)
(***************************************************************************)

LEMMA InitIInv == Init => IInv
<1> SUFFICES ASSUME Init PROVE IInv
  OBVIOUS
<1>1. /\ sz = 0 /\ readIdx = 0 /\ writeIdx = 0 /\ altRef = -1 /\ altFrame = 0
      /\ buf = [i \in Slots |-> [frame |-> 0, key |-> FALSE]]
      /\ pass \in Passes /\ phase = "ready" /\ pending = 0
      /\ pushed = 0 /\ popped = 0 /\ ending = "none"
  BY DEF Init
<1>2. drain \in BOOLEAN /\ arfDue \in BOOLEAN /\ failed \in BOOLEAN
  BY Zenon DEF Init
<1>3. buf \in [Slots -> [frame : 0..MaxPushes, key : BOOLEAN]]
  BY <1>1, Sizes
<1>4. TypeOK
  BY <1>1, <1>2, <1>3, Sizes DEF TypeOK
<1>5. RingInv
  BY <1>1, Sizes DEF RingInv, Wrap
<1>6. AltRefIntact /\ RoomAfterCall /\ FlushEmpties
  BY <1>1, Sizes DEF AltRefIntact, RoomAfterCall, HasRoom, PRE, FlushEmpties
<1>7. QED
  BY <1>4, <1>5, <1>6 DEF IInv

Endings == {"none", "ok", "packet", "lost", "starved", "short", "error"}

\* An entry that is queued, as a number of steps from the oldest.
LEMMA AltQueued ==
  ASSUME IInv, pass = 0, altRef # -1
  PROVE  /\ \E i \in 0..sz - 1 : altRef = Wrap(readIdx + i)
         /\ buf[altRef].frame = altFrame
BY DEF IInv, AltRefIntact, Queued

\* A call begins: RoomAfterCall and FlushEmpties are about its end.
LEMMA SubmitIInv ==
  ASSUME IInv, NEW key \in BOOLEAN, NEW fails \in BOOLEAN, Submit(key, fails)
  PROVE  IInv'
<1>1. /\ pushed < MaxPushes /\ pushed' = pushed + 1
      /\ \/ phase' = "loop" /\ ending' = "none"
         \/ phase' = "ready" /\ ending' = "error"
      /\ UNCHANGED <<altRef, pass, pending, altFrame, popped>>
  BY DEF Submit, Begin, Return
<1>2. drain' \in BOOLEAN /\ arfDue' \in BOOLEAN /\ failed' \in BOOLEAN
  <2>1. arfDue \in BOOLEAN /\ failed \in BOOLEAN
    BY Zenon DEF IInv, TypeOK
  <2>2. drain' = FALSE /\ arfDue' = arfDue /\ (failed' = FALSE \/ failed' = failed)
    BY Zenon DEF Submit, Begin
  <2>3. QED
    BY Zenon, <2>1, <2>2
<1>3. \/ HasRoom /\ Push(key, fails)
      \/ UNCHANGED <<sz, readIdx, writeIdx, buf>>
  BY Zenon DEF Submit, ring
<1>4. TypeOK /\ RingInv
  BY DEF IInv
<1>5. /\ sz' \in 0..Lag /\ readIdx' \in Slots /\ writeIdx' \in Slots /\ RingInv'
      /\ buf' \in [Slots -> [frame : 0..MaxPushes, key : BOOLEAN]]
      /\ readIdx' = readIdx /\ (sz' = sz \/ sz' = sz + 1)
      /\ \A i \in 0..sz - 1 : buf'[Wrap(readIdx + i)] = buf[Wrap(readIdx + i)]
  <2>1. CASE HasRoom /\ Push(key, fails)
    <3>1. /\ sz' \in 0..Lag /\ sz' = sz + 1 /\ sz < Lag
          /\ readIdx' = readIdx /\ writeIdx' \in Slots /\ RingInv'
          /\ buf' \in [Slots -> [frame : 0..MaxPushes, key : BOOLEAN]]
          /\ \A i \in 0..Lag : i # sz =>
               buf'[Wrap(readIdx + i)] = buf[Wrap(readIdx + i)]
      BY <1>1, <1>4, <2>1, PushRing
    <3>2. \A i \in 0..sz - 1 : i \in 0..Lag /\ i # sz
      BY <1>4, RingTypes, Sizes
    <3>3. QED
      BY <1>4, <3>1, <3>2, RingTypes
  <2>2. CASE UNCHANGED <<sz, readIdx, writeIdx, buf>>
    BY <1>4, <2>2, RingTypes DEF RingInv
  <2>3. QED
    BY <1>3, <2>1, <2>2
<1>6. TypeOK'
  <2>1. pushed' \in 0..MaxPushes
    BY <1>1, <1>4, RingTypes, Sizes
  <2>2. QED
    BY <1>1, <1>2, <1>4, <1>5, <2>1 DEF TypeOK
<1>7. AltRefIntact'
  <2>1. SUFFICES ASSUME pass' = 0, altRef' # -1
                 PROVE  altRef' \in Queued' /\ buf'[altRef'].frame = altFrame'
    BY DEF AltRefIntact
  <2>2. PICK i \in 0..sz - 1 : altRef = Wrap(readIdx + i)
    BY <1>1, <2>1, AltQueued
  <2>3. i \in 0..sz' - 1
    <3>1. sz \in 0..Lag /\ (sz' = sz \/ sz' = sz + 1)
      BY <1>4, <1>5, RingTypes
    <3>2. QED
      BY <3>1, Sizes
  <2>4. buf'[altRef] = buf[altRef]
    BY <1>5, <2>2
  <2>5. buf[altRef].frame = altFrame
    BY <1>1, <2>1, AltQueued
  <2>6. QED
    BY <1>1, <1>5, <2>2, <2>3, <2>4, <2>5 DEF Queued
<1>8. RoomAfterCall' /\ FlushEmpties'
  BY <1>1 DEF RoomAfterCall, FlushEmpties
<1>9. QED
  BY <1>5, <1>6, <1>7, <1>8 DEF IInv

LEMMA FlushIInv == ASSUME IInv, Flush PROVE IInv'
<1>1. /\ phase' = "loop" /\ ending' = "none"
      /\ UNCHANGED <<sz, readIdx, writeIdx, buf, altRef, pass, pending, pushed,
                     altFrame, popped>>
  BY DEF Flush, Begin, ring
<1>2. drain' \in BOOLEAN /\ arfDue' \in BOOLEAN /\ failed' \in BOOLEAN
  <2>1. arfDue \in BOOLEAN /\ arfDue' = arfDue /\ drain' = TRUE /\ failed' = FALSE
    BY Zenon DEF IInv, TypeOK, Flush, Begin
  <2>2. QED
    BY Zenon, <2>1
<1>3. TypeOK' /\ RingInv' /\ AltRefIntact'
  BY <1>1, <1>2 DEF IInv, TypeOK, RingInv, AltRefIntact, Queued
<1>4. RoomAfterCall' /\ FlushEmpties'
  BY <1>1 DEF RoomAfterCall, FlushEmpties
<1>5. QED
  BY <1>3, <1>4 DEF IInv

LEMMA BufferShortIInv == ASSUME IInv, BufferShort PROVE IInv'
<1>1. /\ phase' = "ready" /\ ending' = "short"
      /\ UNCHANGED <<sz, readIdx, writeIdx, buf, altRef, arfDue, pass, drain,
                     pending, pushed, altFrame, popped, failed>>
  BY DEF BufferShort, Return, ring
<1>2. TypeOK' /\ RingInv' /\ AltRefIntact'
  BY <1>1 DEF IInv, TypeOK, RingInv, AltRefIntact, Queued
<1>3. RoomAfterCall' /\ FlushEmpties'
  BY <1>1 DEF RoomAfterCall, FlushEmpties
<1>4. QED
  BY <1>2, <1>3 DEF IInv

\* A frame is coded that stays in the queue: the pointer may move to any entry
\* queued, and the call goes on, or ends in an error or for want of a buffer.
LEMMA HiddenIInv ==
  ASSUME IInv, phase = "loop", pending < MaxPending, Hidden,
         UNCHANGED <<sz, readIdx, writeIdx, buf, pass, drain, pushed, popped>>,
         altRef' \in Slots \cup {-1}, altFrame' \in 0..MaxPushes, AltRefIntact',
         arfDue' \in BOOLEAN
  PROVE  IInv'
<1>1. \/ /\ pending' = pending + 1 \/ pending' = pending
         /\ phase' = phase /\ ending' = ending
      \/ /\ phase' = "ready" /\ ending' \in {"error", "starved"}
         /\ pending' = pending
  BY DEF Hidden, Return
<1>2. TypeOK'
  <2>1. pending' \in 0..MaxPending
    BY <1>1, Sizes DEF IInv, TypeOK
  <2>2. phase' \in {"ready", "loop"} /\ ending' \in Endings
    BY <1>1 DEF IInv, TypeOK, Endings
  <2>3. failed' \in BOOLEAN
    <3>1. failed \in BOOLEAN /\ (failed' = failed \/ failed' = ~failed)
      BY Zenon DEF IInv, TypeOK, Hidden, PackFails
    <3>2. QED
      BY Zenon, <3>1
  <2>4. QED
    BY <2>1, <2>2, <2>3 DEF IInv, TypeOK, Endings
<1>3. RingInv'
  BY DEF IInv, RingInv
<1>4. RoomAfterCall' /\ FlushEmpties'
  BY <1>1 DEF RoomAfterCall, FlushEmpties
<1>5. QED
  BY <1>2, <1>3, <1>4 DEF IInv

\* The oldest frame is taken out: then there is room, and the pointer is gone if
\* it pointed to it.
LEMMA PoppedIInv ==
  ASSUME IInv, phase = "loop", sz > 0, Pop, NEW due \in BOOLEAN, Visible(due),
         UNCHANGED <<pass, drain, pushed>>,
         \/ altRef' = -1 /\ altFrame' = 0
         \/ /\ altRef' = altRef /\ altFrame' = altFrame
            /\ pass = 0 => altRef # readIdx
  PROVE  IInv'
<1>1. TypeOK /\ RingInv
  BY DEF IInv
<1>2. /\ sz' \in 0..Lag - 1 /\ sz' = sz - 1
      /\ readIdx' \in Slots /\ writeIdx' \in Slots /\ RingInv'
      /\ buf' = buf /\ popped' \in 0..MaxPushes
      /\ \A i \in 0..Lag : Wrap(readIdx' + i) = Wrap(readIdx + (i + 1))
  BY <1>1, PopRing
<1>3. \/ phase' = "ready" /\ ending' = "packet" /\ pending' = 0
      \/ phase' = "loop" /\ ending' = ending /\ pending' = pending
      \/ /\ phase' = "ready" /\ ending' \in {"error", "lost"}
         /\ pending' = pending
  BY DEF Visible, Return
<1>4. TypeOK'
  <2>1. pending' \in 0..MaxPending /\ phase' \in {"ready", "loop"}
        /\ ending' \in Endings
    BY <1>1, <1>3, Sizes DEF TypeOK, Endings
  <2>2. altRef' \in Slots \cup {-1} /\ altFrame' \in 0..MaxPushes
    BY <1>1, Sizes DEF TypeOK
  <2>3. sz' \in 0..Lag
    BY <1>2, Sizes
  <2>4. arfDue' \in BOOLEAN /\ failed' \in BOOLEAN
    <3>1. failed' = failed /\ failed \in BOOLEAN
      BY Zenon DEF IInv, TypeOK, Visible
    <3>2. arfDue' = due \/ arfDue' = (pass = 0)
      BY Zenon DEF Visible, MayAskForArf
    <3>3. QED
      BY Zenon, <3>1, <3>2
  <2>5. QED
    BY <1>1, <1>2, <2>1, <2>2, <2>3, <2>4 DEF TypeOK, Endings
<1>5. AltRefIntact'
  <2>1. SUFFICES ASSUME pass' = 0, altRef' # -1
                 PROVE  altRef' \in Queued' /\ buf'[altRef'].frame = altFrame'
    BY DEF AltRefIntact
  <2>2. pass = 0 /\ altRef' = altRef /\ altFrame' = altFrame /\ altRef # readIdx
    BY <2>1
  <2>3. PICK i \in 0..sz - 1 : altRef = Wrap(readIdx + i)
    BY <2>1, <2>2, AltQueued
  <2>4. i # 0
    BY <1>1, <2>2, <2>3, RingTypes, WrapHere
  <2>5. i - 1 \in 0..sz' - 1 /\ i - 1 \in 0..Lag /\ (i - 1) + 1 = i
    <3>1. sz \in 0..Lag /\ sz' = sz - 1
      BY <1>1, <1>2, RingTypes
    <3>2. QED
      BY <2>3, <2>4, <3>1, Sizes
  <2>6. altRef = Wrap(readIdx' + (i - 1))
    BY <1>2, <2>3, <2>5
  <2>7. buf[altRef].frame = altFrame
    BY <2>1, <2>2, AltQueued
  <2>8. QED
    BY <1>2, <2>2, <2>5, <2>6, <2>7 DEF Queued
<1>6. RoomAfterCall'
  BY <1>2, Sizes DEF RoomAfterCall, HasRoom, PRE
<1>7. FlushEmpties'
  BY <1>3 DEF FlushEmpties
<1>8. QED
  BY <1>2, <1>4, <1>5, <1>6, <1>7 DEF IInv

\* There is nothing to be had, and the call is over: the queue is not full, and
\* empty if it is being drained.
LEMMA NoSourceIInv ==
  ASSUME IInv, NEW d \in BOOLEAN, drain => d, ~MayPop(d),
         NEW due \in BOOLEAN, NoSource(due), UNCHANGED <<pass, drain, pushed>>
  PROVE  IInv'
<1>1. /\ phase' = "ready" /\ ending' = "ok"
      /\ UNCHANGED <<sz, readIdx, writeIdx, buf, altRef, altFrame, popped, pending,
                     failed>>
  BY DEF NoSource, Return, ring
<1>2. arfDue' \in BOOLEAN
  BY Zenon DEF NoSource
<1>3. ~(sz > 0 /\ sz = MaxSz - PRE) /\ (drain => ~(sz > 0))
  BY Zenon DEF MayPop
<1>4. TypeOK' /\ RingInv' /\ AltRefIntact'
  BY <1>1, <1>2 DEF IInv, TypeOK, RingInv, AltRefIntact, Queued
<1>5. sz \in 0..Lag
  BY RingTypes DEF IInv
<1>6. RoomAfterCall'
  BY <1>1, <1>3, <1>5, Sizes DEF RoomAfterCall, HasRoom, PRE
<1>7. FlushEmpties'
  <2>1. drain => sz = 0
    <3>1. ~(sz > 0) => sz = 0
      BY <1>5, Sizes
    <3>2. QED
      BY Zenon, <1>3, <3>1
  <2>2. sz' = sz /\ drain' = drain
    BY Zenon, <1>1
  <2>3. QED
    <3>1. ASSUME drain' PROVE sz' = 0
      <4>1. drain
        BY Zenon, <2>2, <3>1
      <4>2. sz = 0
        BY Zenon, <2>1, <4>1
      <4>3. QED
        BY Zenon, <2>2, <4>2
    <3>2. QED
      BY Zenon, <3>1 DEF FlushEmpties
<1>8. QED
  BY <1>4, <1>6, <1>7 DEF IInv

LEMMA TakeSourceIInv ==
  ASSUME IInv, phase = "loop", NEW d \in BOOLEAN, drain => d,
         NEW due \in BOOLEAN, TakeSource(d, due), UNCHANGED <<pass, drain, pushed>>
  PROVE  IInv'
<1>1. CASE MayPop(d)
  <2>1. Pop /\ Overlay /\ Visible(due)
    BY Zenon, <1>1 DEF TakeSource
  <2>2. sz > 0
    BY Zenon, <1>1 DEF MayPop
  <2>3. \/ altRef' = -1 /\ altFrame' = 0
        \/ /\ altRef' = altRef /\ altFrame' = altFrame
           /\ pass = 0 => altRef # readIdx
    BY <2>1 DEF Overlay
  <2>4. QED
    BY <2>1, <2>2, <2>3, PoppedIInv
<1>2. CASE ~MayPop(d)
  <2>1. NoSource(due)
    BY Zenon, <1>2 DEF TakeSource
  <2>2. QED
    BY <1>2, <2>1, NoSourceIInv
<1>3. QED
  BY <1>1, <1>2

LEMMA CodeNextIInv == ASSUME IInv, CodeNext PROVE IInv'
<1>1. /\ phase = "loop" /\ TakeSource(drain, arfDue)
      /\ UNCHANGED <<pass, drain, pushed>>
  BY Zenon DEF CodeNext
<1>2. drain \in BOOLEAN /\ arfDue \in BOOLEAN
  BY DEF IInv, TypeOK
<1>3. QED
  BY Zenon, <1>1, <1>2, TakeSourceIInv

LEMMA CodeAltRefIInv ==
  ASSUME IInv, NEW k \in 1..MaxSz, CodeAltRef(k) PROVE IInv'
<1>1. /\ phase = "loop" /\ pending < MaxPending
      /\ UNCHANGED <<pass, drain, pushed>>
  BY Zenon DEF CodeAltRef
<1>2. drain \in BOOLEAN /\ arfDue \in BOOLEAN
  BY DEF IInv, TypeOK
<1>3. CASE TakeSource(TRUE, arfDue)
  BY Zenon, <1>1, <1>2, <1>3, TakeSourceIInv
<1>4. CASE TakeSource(drain, FALSE)
  BY Zenon, <1>1, <1>2, <1>4, TakeSourceIInv
<1>5. CASE /\ Peek(k) # -1
           /\ altRef' = Peek(k) /\ altFrame' = buf[Peek(k)].frame
           /\ DueOver /\ Hidden
           /\ UNCHANGED <<sz, readIdx, writeIdx, buf, popped>>
  <2>1. /\ sz \in 0..Lag /\ readIdx \in Slots
        /\ buf \in [Slots -> [frame : 0..MaxPushes, key : BOOLEAN]]
    BY RingTypes DEF IInv
  <2>2. k < sz /\ Peek(k) = Wrap(readIdx + k)
    BY <1>5 DEF Peek
  <2>3. k \in 0..sz - 1 /\ k \in 0..Lag + 1
    BY <2>1, <2>2, Sizes
  <2>4. Peek(k) \in Slots
    BY <2>1, <2>2, <2>3, WrapSlot
  <2>5. buf[Peek(k)].frame \in 0..MaxPushes
    BY <2>1, <2>4
  <2>6. Peek(k) \in Queued
    BY <2>2, <2>3 DEF Queued
  <2>7. AltRefIntact'
    BY <1>5, <2>6 DEF AltRefIntact, Queued
  <2>8. altRef' \in Slots \cup {-1} /\ altFrame' \in 0..MaxPushes
    BY <1>5, <2>4, <2>5
  <2>9. arfDue' \in BOOLEAN
    BY Zenon, <1>5 DEF DueOver
  <2>10. QED
    BY <1>1, <1>5, <2>7, <2>8, <2>9, HiddenIInv
<1>6. QED
  BY Zenon, <1>3, <1>4, <1>5 DEF CodeAltRef, ring

LEMMA CodeBwdRefIInv ==
  ASSUME IInv, NEW k \in 1..MaxSz, CodeBwdRef(k) PROVE IInv'
<1>1. /\ phase = "loop" /\ pending < MaxPending
      /\ UNCHANGED <<pass, drain, pushed>>
  BY Zenon DEF CodeBwdRef
<1>2. drain \in BOOLEAN /\ arfDue \in BOOLEAN
  BY DEF IInv, TypeOK
<1>3. CASE TakeSource(drain, arfDue)
  BY Zenon, <1>1, <1>2, <1>3, TakeSourceIInv
<1>4. CASE Hidden /\ UNCHANGED <<sz, readIdx, writeIdx, buf, altRef, arfDue, altFrame,
                                 popped>>
  <2>1. AltRefIntact'
    BY <1>1, <1>4 DEF IInv, AltRefIntact, Queued
  <2>2. altRef' \in Slots \cup {-1} /\ altFrame' \in 0..MaxPushes
    BY <1>4 DEF IInv, TypeOK
  <2>3. arfDue' \in BOOLEAN
    BY Zenon, <1>2, <1>4
  <2>4. QED
    BY <1>1, <1>4, <2>1, <2>2, <2>3, HiddenIInv
<1>5. QED
  BY Zenon, <1>3, <1>4 DEF CodeBwdRef, ring

LEMMA ShowExistingIInv == ASSUME IInv, ShowExisting PROVE IInv'
<1>1. phase = "loop" /\ pass = 2 /\ UNCHANGED <<pass, drain, pushed>>
  BY Zenon DEF ShowExisting
<1>2. drain \in BOOLEAN /\ arfDue \in BOOLEAN
  BY DEF IInv, TypeOK
<1>3. CASE /\ MayPop(drain) /\ Pop /\ Visible(arfDue)
           /\ UNCHANGED <<altRef, altFrame>>
  <2>1. sz > 0
    BY Zenon, <1>3 DEF MayPop
  <2>2. QED
    BY <1>1, <1>2, <1>3, <2>1, PoppedIInv
<1>4. CASE ~MayPop(drain) /\ NoSource(arfDue)
  BY Zenon, <1>1, <1>2, <1>4, NoSourceIInv
<1>5. QED
  BY Zenon, <1>3, <1>4 DEF ShowExisting

LEMMA StepIInv == IInv /\ [Next]_vars => IInv'
<1> SUFFICES ASSUME IInv, [Next]_vars PROVE IInv'
  OBVIOUS
<1>1. ASSUME NEW key \in BOOLEAN, NEW fails \in BOOLEAN, Submit(key, fails)
      PROVE  IInv'
  BY <1>1, SubmitIInv
<1>2. CASE Flush \/ BufferShort
  BY <1>2, FlushIInv, BufferShortIInv
<1>3. CASE Code
  BY Zenon, <1>3, CodeNextIInv, ShowExistingIInv, CodeAltRefIInv, CodeBwdRefIInv
  DEF Code
<1>4. CASE UNCHANGED vars
  <2>1. UNCHANGED <<sz, readIdx, writeIdx, buf, altRef, arfDue, pass, phase, drain,
                    pending, pushed, altFrame, popped, failed, ending>>
    BY Zenon, <1>4 DEF vars, ring
  <2>2. QED
    BY <2>1 DEF IInv, TypeOK, RingInv, AltRefIntact, Queued, RoomAfterCall,
                HasRoom, FlushEmpties
<1>5. QED
  BY Zenon, <1>1, <1>2, <1>3, <1>4 DEF Next

\* The inductive invariant: the indices agree with the count, and the pointer with
\* the queue.
THEOREM Inductive == Spec => []IInv
BY InitIInv, StepIInv, PTL DEF Spec

\* Every variable keeps its type; in particular the queue never takes the entry of
\* the last frame.
THEOREM TypeCorrect == Spec => []TypeOK
<1>1. IInv => TypeOK
  BY DEF IInv
<1>2. QED
  BY <1>1, Inductive, PTL

\* check_src_altref(): in one pass alt_ref_source always points to a queued entry
\* that holds the frame it was set for.
THEOREM PointerIntact == Spec => []AltRefIntact
<1>1. IInv => AltRefIntact
  BY DEF IInv
<1>2. QED
  BY <1>1, Inductive, PTL

\* encoder_encode(): a call leaves room for a picture, unless it was cut short, ended in
\* an error, or had no buffer for a hidden frame.
THEOREM RoomLeft == Spec => []RoomAfterCall
<1>1. IInv => RoomAfterCall
  BY DEF IInv
<1>2. QED
  BY <1>1, Inductive, PTL

\* A flush that ends because av1_lookahead_pop() gives nothing leaves no frame behind.
THEOREM Drained == Spec => []FlushEmpties
<1>1. IInv => FlushEmpties
  BY DEF IInv
<1>2. QED
  BY <1>1, Inductive, PTL

(***************************************************************************)
(* The ring implements FrameQueue.                                         *)
(***************************************************************************)

Numbers == 0..MaxPushes

\* The entries from r on, in the two ways of counting them.
LEMMA FramesThere ==
  ASSUME NEW n \in 0..Lag, NEW r \in Slots, NEW i \in 1..n,
         NEW b \in [Slots -> [frame : 0..MaxPushes, key : BOOLEAN]]
  PROVE  /\ b[Wrap(r + (i - 1))].frame \in Numbers
         /\ r + i - 1 = r + (i - 1)
<1>1. i - 1 \in 0..Lag + 1 /\ r + i - 1 = r + (i - 1)
  BY Sizes
<1>2. Wrap(r + (i - 1)) \in Slots
  BY <1>1, WrapSlot
<1>3. QED
  BY <1>1, <1>2 DEF Numbers

LEMMA QueueSeq ==
  ASSUME TypeOK
  PROVE  /\ Queue \in Seq(Numbers) /\ Len(Queue) = sz
         /\ \A i \in 1..sz : Queue[i] = buf[Wrap(readIdx + (i - 1))].frame
<1>1. /\ sz \in 0..Lag /\ readIdx \in Slots
      /\ buf \in [Slots -> [frame : 0..MaxPushes, key : BOOLEAN]]
  BY RingTypes
<1>2. Queue = [i \in 1..sz |-> buf[Wrap(readIdx + i - 1)].frame]
  BY DEF Queue
<1>3. \A i \in 1..sz : /\ buf[Wrap(readIdx + (i - 1))].frame \in Numbers
                        /\ readIdx + i - 1 = readIdx + (i - 1)
  BY <1>1, FramesThere
<1>4. /\ \A i \in 1..sz : Queue[i] = buf[Wrap(readIdx + (i - 1))].frame
      /\ Queue \in [1..sz -> Numbers]
  BY <1>2, <1>3
<1>5. sz \in Nat
  BY <1>1, Sizes
<1>6. Queue \in Seq(Numbers)
  BY <1>4, <1>5, SeqDef
<1>7. Len(Queue) = sz
  BY <1>4, <1>5, <1>6, LenProperties
<1>8. QED
  BY <1>4, <1>6, <1>7

LEMMA QueueSeqNext ==
  ASSUME TypeOK'
  PROVE  /\ Queue' \in Seq(Numbers) /\ Len(Queue') = sz'
         /\ \A i \in 1..sz' : Queue'[i] = buf'[Wrap(readIdx' + (i - 1))].frame
<1>1. /\ sz' \in 0..Lag /\ readIdx' \in Slots
      /\ buf' \in [Slots -> [frame : 0..MaxPushes, key : BOOLEAN]]
  BY DEF TypeOK
<1>2. Queue' = [i \in 1..sz' |-> buf'[Wrap(readIdx' + i - 1)].frame]
  BY DEF Queue
<1>3. \A i \in 1..sz' : /\ buf'[Wrap(readIdx' + (i - 1))].frame \in Numbers
                        /\ readIdx' + i - 1 = readIdx' + (i - 1)
  BY <1>1, FramesThere
<1>4. /\ \A i \in 1..sz' : Queue'[i] = buf'[Wrap(readIdx' + (i - 1))].frame
      /\ Queue' \in [1..sz' -> Numbers]
  BY <1>2, <1>3
<1>5. sz' \in Nat
  BY <1>1, Sizes
<1>6. Queue' \in Seq(Numbers)
  BY <1>4, <1>5, SeqDef
<1>7. Len(Queue') = sz'
  BY <1>4, <1>5, <1>6, LenProperties
<1>8. QED
  BY <1>4, <1>6, <1>7

LEMMA RefineInit == Init => Abstract!QInit
<1> SUFFICES ASSUME Init PROVE Abstract!QInit
  OBVIOUS
<1>1. TypeOK
  BY InitIInv DEF IInv
<1>2. sz = 0 /\ popped = 0
  BY DEF Init
<1>3. Queue = <<>>
  BY <1>1, <1>2, QueueSeq, EmptySeq
<1>4. LastFrame = 0
  BY <1>2 DEF LastFrame
<1>5. QED
  BY <1>3, <1>4 DEF Abstract!QInit

\* A push appends what the entry holds afterwards, and leaves the last frame.
LEMMA PushRefines ==
  ASSUME IInv, IInv', HasRoom, pushed < MaxPushes, popped' = popped,
         NEW key \in BOOLEAN, NEW fails \in BOOLEAN, Push(key, fails)
  PROVE  Abstract!Push
<1>1. TypeOK /\ TypeOK' /\ RingInv
  BY DEF IInv
<1>2. /\ sz' = sz + 1 /\ sz < Lag /\ readIdx' = readIdx
      /\ \A i \in 0..Lag : i # sz =>
           buf'[Wrap(readIdx + i)] = buf[Wrap(readIdx + i)]
  BY <1>1, PushRing
<1>3. sz \in 0..Lag /\ readIdx \in Slots
  BY <1>1, RingTypes
<1>4. /\ Queue \in Seq(Numbers) /\ Len(Queue) = sz
      /\ \A i \in 1..sz : Queue[i] = buf[Wrap(readIdx + (i - 1))].frame
  BY <1>1, QueueSeq
<1>5. /\ Queue' \in Seq(Numbers) /\ Len(Queue') = sz'
      /\ \A i \in 1..sz' : Queue'[i] = buf'[Wrap(readIdx' + (i - 1))].frame
  BY <1>1, QueueSeqNext
<1> DEFINE f == Queue'[sz']
<1>6. f \in Numbers /\ f \in (1..MaxPushes) \cup {0}
  <2>1. f \in Numbers
    BY <1>2, <1>3, <1>5, ElementOfSeq, Sizes
  <2>2. QED
    BY <2>1, Sizes DEF Numbers
<1> HIDE DEF f
<1>7. Queue' = Append(Queue, f)
  <2>1. /\ Append(Queue, f) \in Seq(Numbers) /\ Len(Append(Queue, f)) = sz + 1
        /\ \A i \in 1..sz : Append(Queue, f)[i] = Queue[i]
        /\ Append(Queue, f)[sz + 1] = f
    BY <1>4, <1>6, AppendProperties
  <2>2. ASSUME NEW i \in 1..sz' PROVE Queue'[i] = Append(Queue, f)[i]
    <3>1. CASE i = sz'
      BY <1>2, <2>1, <3>1 DEF f
    <3>2. CASE i # sz'
      <4>1. i \in 1..sz /\ i - 1 \in 0..Lag /\ i - 1 # sz
        BY <1>2, <1>3, <3>2, Sizes
      <4>2. Queue'[i] = buf[Wrap(readIdx + (i - 1))].frame
        BY <1>2, <1>5, <4>1
      <4>3. QED
        BY <1>4, <2>1, <4>1, <4>2
    <3>3. QED
      BY <3>1, <3>2
  <2>3. Len(Queue') = Len(Append(Queue, f))
    BY <1>2, <1>5, <2>1
  <2>4. QED
    BY <1>5, <2>1, <2>2, <2>3, SeqEqual
<1>8. LastFrame' = LastFrame
  <2>1. PeekLast = Wrap(readIdx + Lag)
    BY <1>3, LastOfRound
  <2>2. PeekLast' = PeekLast
    BY <1>2 DEF PeekLast
  <2>3. buf'[PeekLast] = buf[PeekLast]
    BY <1>2, <1>3, <2>1, Sizes
  <2>4. QED
    BY <2>2, <2>3 DEF LastFrame
<1>9. Len(Queue) < Lag
  BY <1>2, <1>4
<1>10. QED
  BY <1>6, <1>7, <1>8, <1>9 DEF Abstract!Push

\* What is taken out is the head, and then the last frame.
LEMMA PopRefines ==
  ASSUME IInv, IInv', sz > 0, Pop
  PROVE  Abstract!Pop
<1>1. TypeOK /\ TypeOK' /\ RingInv
  BY DEF IInv
<1>2. /\ sz' = sz - 1 /\ buf' = buf /\ popped' = buf[readIdx].frame
      /\ readIdx' \in Slots
      /\ \A i \in 0..Lag : Wrap(readIdx' + i) = Wrap(readIdx + (i + 1))
  BY <1>1, PopRing
<1>3. sz \in 0..Lag /\ readIdx \in Slots
  BY <1>1, RingTypes
<1>4. /\ Queue \in Seq(Numbers) /\ Len(Queue) = sz
      /\ \A i \in 1..sz : Queue[i] = buf[Wrap(readIdx + (i - 1))].frame
  BY <1>1, QueueSeq
<1>5. /\ Queue' \in Seq(Numbers) /\ Len(Queue') = sz'
      /\ \A i \in 1..sz' : Queue'[i] = buf'[Wrap(readIdx' + (i - 1))].frame
  BY <1>1, QueueSeqNext
<1>6. Queue # <<>>
  BY <1>4, EmptySeq
<1>7. Queue' = Tail(Queue)
  <2>1. /\ Tail(Queue) \in Seq(Numbers) /\ Len(Tail(Queue)) = sz - 1
        /\ \A i \in 1..sz - 1 : Tail(Queue)[i] = Queue[i + 1]
    BY <1>4, <1>6, HeadTailProperties
  <2>2. ASSUME NEW i \in 1..sz' PROVE Queue'[i] = Tail(Queue)[i]
    <3>1. /\ i - 1 \in 0..Lag /\ (i - 1) + 1 = i /\ i + 1 \in 1..sz
          /\ (i + 1) - 1 = i /\ i \in 1..sz - 1
      BY <1>2, <1>3, Sizes
    <3>2. Wrap(readIdx' + (i - 1)) = Wrap(readIdx + i)
      BY <1>2, <3>1
    <3>3. Queue'[i] = buf[Wrap(readIdx + i)].frame
      BY <1>2, <1>5, <3>2
    <3>4. Queue[i + 1] = buf[Wrap(readIdx + i)].frame
      BY <1>4, <3>1
    <3>5. QED
      BY <2>1, <3>1, <3>3, <3>4
  <2>3. Len(Queue') = Len(Tail(Queue))
    BY <1>2, <1>5, <2>1
  <2>4. QED
    BY <1>5, <2>1, <2>2, <2>3, SeqEqual
<1>8. Head(Queue) = buf[readIdx].frame
  <2>1. Head(Queue) = Queue[1]
    BY <1>4
  <2>2. 1 \in 1..sz /\ 1 - 1 = 0
    BY <1>3, Sizes
  <2>3. Queue[1] = buf[Wrap(readIdx + 0)].frame
    BY <1>4, <2>2
  <2>4. QED
    BY <1>3, <2>1, <2>3, WrapHere
<1>9. LastFrame' = Head(Queue)
  <2>1. PeekLast' = readIdx
    <3>1. readIdx' = Wrap(readIdx + 1)
      BY DEF Pop
    <3>2. QED
      BY <1>3, <3>1, Sizes DEF PeekLast, Wrap
  <2>2. LastFrame' = IF popped' = 0 THEN 0 ELSE buf'[PeekLast'].frame
    BY DEF LastFrame
  <2>3. QED
    BY <1>2, <1>8, <2>1, <2>2
<1>10. QED
  BY <1>6, <1>7, <1>9 DEF Abstract!Pop

\* Every step pushes, takes out or leaves the queue alone.
LEMMA RefineStep ==
  IInv /\ IInv' /\ [Next]_vars
    => [Abstract!Push \/ Abstract!Pop]_(Abstract!qvars)
<1> SUFFICES ASSUME IInv, IInv', [Next]_vars
             PROVE  [Abstract!Push \/ Abstract!Pop]_(Abstract!qvars)
  OBVIOUS
<1> DEFINE Step == [Abstract!Push \/ Abstract!Pop]_(Abstract!qvars)
<1>1. ASSUME UNCHANGED <<sz, readIdx, writeIdx, buf, popped>> PROVE Step
  <2>1. Queue' = Queue /\ LastFrame' = LastFrame
    BY <1>1 DEF Queue, LastFrame, PeekLast
  <2>2. QED
    BY <2>1 DEF Abstract!qvars
<1>2. ASSUME NEW d \in BOOLEAN, MayPop(d), Pop PROVE Step
  <2>1. sz > 0
    BY Zenon, <1>2 DEF MayPop
  <2>2. QED
    BY <1>2, <2>1, PopRefines
<1>3. ASSUME NEW key \in BOOLEAN, NEW fails \in BOOLEAN, Submit(key, fails)
      PROVE  Step
  <2>1. pushed < MaxPushes /\ popped' = popped
    BY <1>3 DEF Submit
  <2>2. CASE HasRoom /\ Push(key, fails)
    BY <2>1, <2>2, PushRefines
  <2>3. CASE UNCHANGED ring
    <3>1. UNCHANGED <<sz, readIdx, writeIdx, buf, popped>>
      BY Zenon, <2>1, <2>3 DEF ring
    <3>2. QED
      BY <1>1, <3>1
  <2>4. QED
    BY Zenon, <1>3, <2>2, <2>3 DEF Submit
<1>4. drain \in BOOLEAN /\ arfDue \in BOOLEAN
  BY DEF IInv, TypeOK
<1> HIDE DEF Step
<1>5. ASSUME NEW d \in BOOLEAN, NEW due \in BOOLEAN, TakeSource(d, due) PROVE Step
  <2>1. CASE MayPop(d)
    BY Zenon, <1>2, <1>5, <2>1 DEF TakeSource
  <2>2. CASE ~MayPop(d)
    <3>1. UNCHANGED <<sz, readIdx, writeIdx, buf, popped>>
      BY Zenon, <1>5, <2>2 DEF TakeSource, NoSource, ring
    <3>2. QED
      BY <1>1, <3>1
  <2>3. QED
    BY <2>1, <2>2
<1>6. ASSUME Flush \/ BufferShort PROVE Step
  <2>1. UNCHANGED <<sz, readIdx, writeIdx, buf, popped>>
    BY <1>6 DEF Flush, BufferShort, ring
  <2>2. QED
    BY <1>1, <2>1
<1>7. ASSUME Code PROVE Step
  <2>1. ASSUME CodeNext PROVE Step
    BY Zenon, <1>4, <1>5, <2>1 DEF CodeNext
  <2>2. ASSUME ShowExisting PROVE Step
    BY Zenon, <1>1, <1>2, <1>4, <2>2 DEF ShowExisting, NoSource, ring
  <2>3. ASSUME NEW k \in 1..MaxSz, CodeAltRef(k) PROVE Step
    BY Zenon, <1>1, <1>4, <1>5, <2>3 DEF CodeAltRef, ring
  <2>4. ASSUME NEW k \in 1..MaxSz, CodeBwdRef(k) PROVE Step
    BY Zenon, <1>1, <1>4, <1>5, <2>4 DEF CodeBwdRef, ring
  <2>5. QED
    BY Zenon, <1>7, <2>1, <2>2, <2>3, <2>4 DEF Code
<1>8. ASSUME UNCHANGED vars PROVE Step
  <2>1. UNCHANGED <<sz, readIdx, writeIdx, buf, popped>>
    BY <1>8 DEF vars, ring
  <2>2. QED
    BY <1>1, <2>1
<1>9. Step
  BY Zenon, <1>3, <1>6, <1>7, <1>8 DEF Next
<1>10. QED
  BY <1>9 DEF Step

\* av1_lookahead_pop() and av1_lookahead_peek(): frames come out in the order in
\* which they were pushed, and the frame taken out last stays readable.
THEOREM Implements == Spec => QueueRefinement
BY RefineInit, RefineStep, Inductive, PTL
DEF Spec, QueueRefinement, Abstract!QSpec
==============================================================================
