---------------------------- MODULE EncoderQueue -----------------------------
(***************************************************************************)
(* av1/encoder/lookahead.c and the calls that drive it: encoder_encode()   *)
(* in av1_cx_iface.c pushes the picture it is given and asks for coded     *)
(* frames until one is visible; av1_get_compressed_data() in encoder.c     *)
(* codes an alternate reference out of the middle of the queue, which is   *)
(* not visible and stays in it, or takes the oldest frame out.             *)
(*                                                                         *)
(* The queue is a ring of maxSz entries, one of which keeps the frame that *)
(* was taken out last.  alt_ref_source is a pointer into the ring that is  *)
(* compared with what is taken out later.  What rate control decides is a  *)
(* choice, and so is the size of a coded frame and whether there is a      *)
(* buffer to code it into.  A step is one push or one coded frame.         *)
(***************************************************************************)
EXTENDS Integers, Sequences

CONSTANTS Lag,        \* g_lag_in_frames, clamped to 1..MAX_LAG_BUFFERS
          Passes,     \* which of g_pass = 0 (one pass) and 2 (second pass)
          MaxPushes,  \* bound: pictures submitted
          MaxPending  \* bound: frames that fit into half of the output buffer

\* MAX_PRE_FRAMES
PRE == 1
MaxSz == Lag + PRE

ASSUME QueueAssumption == /\ Lag \in 1..25 /\ Passes \subseteq {0, 2}
                          /\ MaxPushes \in Nat /\ MaxPending \in Nat

Slots == 0..MaxSz - 1

VARIABLES sz, readIdx, writeIdx,
          buf,       \* the entries: the number of a frame, whether it is to be a key
                     \* frame
          altRef,    \* the slot that alt_ref_source points to, or -1
          arfDue,    \* in one pass: source_alt_ref_pending
          pass,      \* oxcf->pass
          phase,     \* "ready", or "loop" inside encoder_encode()
          drain,     \* no picture was given
          pending,   \* ctx->pending_frame_count
          pushed,    \* history: pictures submitted
          altFrame,  \* history: the frame altRef was set for
          popped,    \* history: the frame taken out last
          failed,    \* history: flips whenever a hidden frame is not packed
          ending     \* history: how the last call ended; "none" inside a call

ring == <<sz, readIdx, writeIdx, buf>>
vars == <<ring, altRef, arfDue, pass, phase, drain, pending, pushed, altFrame,
          popped, failed, ending>>

Init == /\ sz = 0 /\ readIdx = 0 /\ writeIdx = 0
        /\ buf = [i \in Slots |-> [frame |-> 0, key |-> FALSE]]
        /\ altRef = -1 /\ altFrame = 0 /\ arfDue = FALSE
        /\ pass \in Passes
        /\ phase = "ready" /\ drain = FALSE /\ pending = 0
        /\ pushed = 0 /\ popped = 0
        /\ failed = FALSE /\ ending = "none"

-----------------------------------------------------------------------------
(* The ring buffer.                                                        *)

\* An index that has moved past the end of the ring.
Wrap(i) == IF i >= MaxSz THEN i - MaxSz ELSE i

\* Defect: the entry of the last frame is taken for free.
HasRoomFull == sz + 1 <= MaxSz

HasRoom == sz + 1 + PRE <= MaxSz

\* Defect: a queue that is drained keeps what does not fill it.
MayPopFull(d) == sz > 0 /\ sz = MaxSz - PRE

MayPop(d) == sz > 0 /\ (d \/ sz = MaxSz - PRE)

\* Defect: the frame that was taken out is still counted.
PopIndexOnly == /\ readIdx' = Wrap(readIdx + 1)
                /\ popped' = buf[readIdx].frame
                /\ UNCHANGED <<sz, writeIdx, buf>>

\* av1_lookahead_pop(), where it may.
Pop == /\ readIdx' = Wrap(readIdx + 1)
       /\ sz' = sz - 1
       /\ popped' = buf[readIdx].frame
       /\ UNCHANGED <<writeIdx, buf>>

\* av1_lookahead_peek() forward: the slot, or -1
Peek(i) == IF i < sz THEN Wrap(readIdx + i) ELSE -1

\* ... and backward.
PeekLast == IF readIdx - 1 < 0 THEN readIdx - 1 + MaxSz ELSE readIdx - 1

\* Entries are taken and indices moved before a larger picture is allocated: when
\* that fails the entry is in the queue with what it held before.
Push(key, fails) ==
  /\ writeIdx' = Wrap(writeIdx + 1)
  /\ sz' = sz + 1
  /\ buf' = IF fails THEN buf
            ELSE [buf EXCEPT ![writeIdx] = [frame |-> pushed + 1, key |-> key]]
  /\ UNCHANGED readIdx

-----------------------------------------------------------------------------
(* encoder_encode(): a call begins.                                        *)

Begin == phase' = "loop" /\ failed' = FALSE /\ ending' = "none"

Return(how) == phase' = "ready" /\ ending' = how

\* With a picture; there may be no room for it, which does not end the call.  An
\* error does, on either side of the push.
Submit(key, fails) ==
  /\ phase = "ready" /\ pushed < MaxPushes
  /\ \/ IF HasRoom THEN Push(key, fails) ELSE UNCHANGED ring
     \/ UNCHANGED ring /\ Return("error")
  /\ \/ Begin
     \/ Return("error") /\ UNCHANGED failed
  /\ pushed' = pushed + 1 /\ drain' = FALSE
  /\ UNCHANGED <<altRef, arfDue, pass, pending, altFrame, popped>>

\* Without one, to drain the queue.
Flush == /\ phase = "ready"
         /\ Begin /\ drain' = TRUE
         /\ UNCHANGED <<ring, altRef, arfDue, pass, pending, pushed, altFrame,
                        popped>>

\* Half of the output buffer is taken by invisible frames of this call, which
\* ends the loop, or of earlier ones, which is an error.
BufferShort == /\ phase = "loop" /\ pending > 0
               /\ Return("short")
               /\ UNCHANGED <<ring, altRef, arfDue, pass, drain, pending, pushed,
                              altFrame, popped, failed>>

-----------------------------------------------------------------------------
(* av1_get_compressed_data(): one more frame.  When get_free_fb() has no   *)
(* buffer for it the loop ends, and the caller is told that all is well.   *)

\* av1_pack_bitstream() has failed, or the frame was dropped: size is 0, the
\* result is not -1, and the loop goes on with nothing pending.
PackFails == failed' = ~failed

\* An invisible frame: it has been coded, an error has left through longjmp, there
\* was no buffer for it, or it could not be packed.
Hidden == \/ pending' = pending + 1 /\ UNCHANGED <<phase, failed, ending>>
          \/ Return("error") /\ UNCHANGED <<pending, failed>>
          \/ Return("starved") /\ UNCHANGED <<pending, failed>>
          \/ PackFails /\ UNCHANGED <<phase, pending, ending>>

\* av1_rc_get_one_pass_vbr_params(): in one pass a golden frame, which is coded when
\* rate control says so, asks for an alternate reference after it.
MayAskForArf(due) == arfDue' \in {due, pass = 0}

\* The frame taken out has been coded and goes out with those pending, was dropped
\* by rate control or could not be packed, or an error has left through longjmp; or
\* there was no buffer for it.
Visible(due) ==
  /\ \/ /\ MayAskForArf(due)
        /\ \/ Return("packet") /\ pending' = 0
           \/ UNCHANGED <<phase, ending, pending>>
           \/ Return("error") /\ UNCHANGED pending
     \/ Return("lost") /\ arfDue' = due /\ UNCHANGED pending
  /\ UNCHANGED failed

\* Defect: the pointer survives the frame it points to.
OverlayKept == UNCHANGED <<altRef, altFrame>>

\* check_src_altref(): in one pass the frame at the pointer clears it, in two
\* passes rate control says so.
Overlay == IF pass = 0 /\ altRef # readIdx THEN UNCHANGED <<altRef, altFrame>>
           ELSE \/ altRef' = -1 /\ altFrame' = 0
                \/ pass = 2 /\ UNCHANGED <<altRef, altFrame>>

\* Nothing can be taken out: the call is over.
NoSource(due) == /\ Return("ok") /\ arfDue' = due
                 /\ UNCHANGED <<ring, altRef, altFrame, popped, pending, failed>>

\* The oldest frame, if there is one to be had.
TakeSource(d, due) == IF MayPop(d) THEN Pop /\ Overlay /\ Visible(due)
                                   ELSE NoSource(due)

\* The first of the entries 0..k that is not there or to be a key frame.
Stops(k) == {i \in 0..k : Peek(i) = -1 \/ buf[Peek(i)].key}
KeyAhead(k) == \E i \in Stops(k) : /\ \A j \in Stops(k) : i <= j
                                   /\ Peek(i) # -1

\* Defect: an alternate reference that fails is asked for again.
DueKept == UNCHANGED arfDue

\* Whatever comes of it, in one pass an alternate reference is asked for once.
DueOver == arfDue' = FALSE

\* Nothing but the oldest frame is wanted.
CodeNext == /\ phase = "loop"
            /\ TakeSource(drain, arfDue)
            /\ UNCHANGED <<pass, drain, pushed>>

\* An alternate reference k frames ahead is wanted.  A key frame on the way
\* prevents it and lets the queue drain; past the end there is none.
CodeAltRef(k) ==
  /\ phase = "loop" /\ pending < MaxPending
  /\ pass = 0 => arfDue
  /\ IF KeyAhead(k) THEN TakeSource(TRUE, arfDue)
     ELSE IF Peek(k) = -1 THEN TakeSource(drain, FALSE)
     ELSE /\ altRef' = Peek(k) /\ altFrame' = buf[Peek(k)].frame
          /\ DueOver
          /\ Hidden
          /\ UNCHANGED <<ring, popped>>
  /\ UNCHANGED <<pass, drain, pushed>>

\* A backward reference k frames ahead: of that no pointer is kept.
CodeBwdRef(k) ==
  /\ phase = "loop" /\ pass = 2 /\ pending < MaxPending
  /\ IF Peek(k) = -1 THEN TakeSource(drain, arfDue)
     ELSE Hidden /\ UNCHANGED <<ring, altRef, arfDue, altFrame, popped>>
  /\ UNCHANGED <<pass, drain, pushed>>

\* show_existing_frame: the frame that an alternate reference was made for is
\* taken out and shown as it is.
ShowExisting ==
  /\ phase = "loop" /\ pass = 2
  /\ IF MayPop(drain)
     THEN Pop /\ Visible(arfDue) /\ UNCHANGED <<altRef, altFrame>>
     ELSE NoSource(arfDue)
  /\ UNCHANGED <<pass, drain, pushed>>

Code == CodeNext \/ ShowExisting \/ \E k \in 1..MaxSz : CodeAltRef(k) \/ CodeBwdRef(k)

Next == \/ \E key, fails \in BOOLEAN : Submit(key, fails)
        \/ Flush \/ BufferShort \/ Code

\* A call goes on until it returns.
Spec == Init /\ [][Next]_vars /\ WF_vars(Code \/ BufferShort)

-----------------------------------------------------------------------------
(* Properties.                                                             *)

TypeOK == /\ sz \in 0..Lag /\ readIdx \in Slots /\ writeIdx \in Slots
          /\ buf \in [Slots -> [frame : 0..MaxPushes, key : BOOLEAN]]
          /\ altRef \in Slots \cup {-1} /\ pass \in Passes
          /\ phase \in {"ready", "loop"} /\ drain \in BOOLEAN
          /\ pending \in 0..MaxPending /\ pushed \in 0..MaxPushes
          /\ altFrame \in 0..MaxPushes /\ popped \in 0..MaxPushes
          /\ arfDue \in BOOLEAN /\ failed \in BOOLEAN
          /\ ending \in {"none", "ok", "packet", "lost", "starved", "short", "error"}

Queued == {Wrap(readIdx + i) : i \in 0..sz - 1}

\* In one pass alt_ref_source, as long as it points anywhere, points to an entry
\* that is still queued and holds the frame it was set for, so that the frame
\* taken for its overlay later is the right one, whatever failed in between.
AltRefIntact == pass = 0 /\ altRef # -1 =>
                  altRef \in Queued /\ buf[altRef].frame = altFrame

\* After a call there is room for the next picture, also when the frame it took out
\* was lost for want of a buffer.  To leave none a call must have been cut short, have
\* ended in an error, or have had no buffer for a hidden frame, which takes nothing
\* out.
RoomAfterCall == phase = "ready" /\ ending \in {"ok", "packet", "lost"} => HasRoom

\* A caller drains the encoder until a call gives no packet.  Frames are left behind
\* then only if get_free_fb() found no buffer or the output buffer was short; the
\* end av1_lookahead_pop() itself brings about leaves none.
FlushEmpties == phase = "ready" /\ drain /\ ending = "ok" => sz = 0

\* The entries between the indices are those that are counted.
RingInv == writeIdx = Wrap(readIdx + sz)

\* The inductive invariant.
IInv == TypeOK /\ RingInv /\ AltRefIntact /\ RoomAfterCall /\ FlushEmpties

\* The frames in the queue, and last_source of the next frame.
Queue     == [i \in 1..sz |-> buf[Wrap(readIdx + i - 1)].frame]
LastFrame == IF popped = 0 THEN 0 ELSE buf[PeekLast].frame

\* The ring implements the queue: frames come out in order, and last_source of
\* the next frame is the frame that was taken out last.
Abstract == INSTANCE FrameQueue WITH
              Frames <- 1..MaxPushes, Depth <- Lag,
              queue  <- Queue, last <- LastFrame
QueueRefinement == Abstract!QSpec

\* Every call returns in one pass.  In two passes a hidden frame that cannot be packed
\* is chosen again, since gf_group.index stays; every call returns if that ends.
CallReturns == (pass = 0 \/ <>[][~PackFails]_vars)
                 => ((phase = "loop") ~> (phase = "ready"))
=============================================================================
