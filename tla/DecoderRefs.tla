----------------------------- MODULE DecoderRefs -----------------------------
(***************************************************************************)
(* The frame buffers of the decoder and their reference counts: get_free_fb*)
(* and ref_cnt_fb (onyxc_int.h), decrease_ref_count (decoder.h), the       *)
(* frame header (decodeframe.c), av1_receive_compressed_data and           *)
(* swap_frame_buffers (decoder.c), the OBU loop (obu.c) and                *)
(* decoder_decode (av1_dx_iface.c).                                        *)
(*                                                                         *)
(* A buffer is referenced by the slots of ref_frame_map, by the output     *)
(* queue, by the frame being decoded (new_fb_idx) and, from the end of its *)
(* header on, by the old map once more (hold_ref_buf) and by               *)
(* next_ref_frame_map for the slots that the frame refreshes.              *)
(*                                                                         *)
(* One thread runs all of this, and a step is a stretch of its code.  The  *)
(* contents of the stream are choices.  With Malformed, the stream may be  *)
(* damaged and an allocation may fail: a longjmp to the handler in         *)
(* av1_receive_compressed_data (Abandon), an error_code without longjmp    *)
(* (Reject), or a stray temporal delimiter.  Large-scale tile coding       *)
(* (camera_frame_header_ready) is left out.                                *)
(***************************************************************************)
EXTENDS Integers, Sequences, FiniteSets

CONSTANTS NumBufs,    \* FRAME_BUFFERS
          NumSlots,   \* REF_FRAMES
          MaxOutput,  \* MAX_NUM_SPATIAL_LAYERS
          OutputAll,  \* output_all_layers
          Malformed,  \* damaged streams and failing allocations
          MaxFrames   \* bound: how many frames are started

ASSUME RefsAssumption == /\ NumSlots \in Nat \ {0} /\ MaxOutput \in Nat \ {0}
                         /\ NumBufs \in Nat /\ NumBufs > NumSlots + MaxOutput
                         /\ OutputAll \in BOOLEAN /\ Malformed \in BOOLEAN
                         /\ MaxFrames \in Nat

VARIABLES phase,      \* where the decoder is
          moreData,   \* data_start < data_end in decoder_decode()
          ok,         \* no had_error of the frame worker
          count,      \* frame_bufs[].ref_count
          isKey,      \* frame_bufs[].frame_type = KEY_FRAME
          map,        \* ref_frame_map
          nextMap,    \* next_ref_frame_map
          newFb,      \* new_fb_idx
          hold,       \* hold_ref_buf
          refresh,    \* refresh_frame_flags, as a set of slots
          needResync, \* need_resync of AV1Decoder
          seen,       \* seen_frame_header
          header,     \* what the header says of the frame
          slot,       \* the slot whose order hint is read next
          outs,       \* output_frame_index
          frames,     \* history: frames started
          content,    \* history: the frame in each buffer ...
          current,    \* ... the frame being decoded or shown again ...
          stored,     \* ... the frame last stored in each slot ...
          shown       \* ... and the frames shown, as they were then

pool   == <<count, isKey>>
refs   == <<map, nextMap, hold, refresh>>
client == <<outs, shown>>
ghosts == <<content, current, stored>>
vars == <<phase, moreData, ok, pool, refs, newFb, needResync, seen, header,
          slot, client, frames, ghosts>>

Bufs  == 0..NumBufs - 1
Slots == 0..NumSlots - 1
NoBuf == -1                    \* INVALID_IDX
NoFrame == -1
Grey  == 0
Kinds == {"key", "intra", "inter"}
NoHeader == [existing |-> FALSE, reset |-> FALSE, show |-> FALSE, kind |-> "key"]
EmptyMap == [i \in Slots |-> NoBuf]
Empty    == [i \in Slots |-> NoFrame]

Init == /\ phase = "idle" /\ moreData = FALSE /\ ok = TRUE
        /\ count = [b \in Bufs |-> 0] /\ isKey = [b \in Bufs |-> FALSE]
        /\ map = EmptyMap /\ nextMap = EmptyMap
        /\ newFb = 0 /\ hold = FALSE /\ refresh = {} /\ needResync = TRUE
        /\ seen = FALSE /\ header = NoHeader /\ slot = 0
        /\ outs = <<>> /\ shown = <<>>
        /\ frames = 0 /\ content = [b \in Bufs |-> Grey] /\ current = NoFrame
        /\ stored = Empty

-----------------------------------------------------------------------------
(* Counting.                                                               *)

\* How many slots of S a map m fills with buffer b.
UsesIn(m, S, b) == Cardinality({i \in S : m[i] = b})
Uses(m, b)      == UsesIn(m, Slots, b)
TimesIn(s, b)   == Cardinality({k \in DOMAIN s : s[k] = b})
OutUses(b)      == TimesIn(outs, b)
One(condition)  == IF condition THEN 1 ELSE 0

Free == {b \in Bufs : count[b] = 0}

\* Defect: a buffer that one other party references is taken for a free one.
FirstFreeShared(cnt) == CHOOSE b \in Bufs : cnt[b] \in {0, 1}

\* get_free_fb(): the first buffer that nobody references.
FirstFree(cnt) == CHOOSE b \in Bufs : /\ cnt[b] = 0
                                      /\ \A c \in Bufs : cnt[c] = 0 => b <= c

\* decrease_ref_count(); an index that is not one of a buffer is ignored.
Decrease(cnt, b) == [c \in Bufs |-> cnt[c] - One(c = b)]

\* Defect: next_ref_frame_map does not count.
WithHoldsOnly(cnt, m, S, b) == [c \in Bufs |-> cnt[c] + Uses(m, c)]

\* The counts once the thread holds the map m and next_ref_frame_map the buffer
\* b in the slots S.
WithHolds(cnt, m, S, b) ==
  [c \in Bufs |-> cnt[c] + Uses(m, c) + (IF c = b THEN Cardinality(S) ELSE 0)]

\* Defect: the slots refreshed keep their reference to the old buffer.
WithoutHoldsOnly(cnt, m) == [c \in Bufs |-> cnt[c] - Uses(m, c)]

\* The counts once the holds of the map m, and its references from the slots
\* refreshed, are given back: a frame that shows an existing one, unless that
\* is a key frame, has not taken any.
GivesBack == ~header.existing \/ header.reset
WithoutHolds(cnt, m) ==
  [c \in Bufs |-> cnt[c] - UsesIn(m, refresh, c)
                         - (IF GivesBack THEN Uses(m, c) ELSE 0)]

\* next_ref_frame_map for a frame in buffer b that refreshes the slots S.
NextMap(m, S, b) == [i \in Slots |-> IF i \in S THEN b ELSE m[i]]

-----------------------------------------------------------------------------
(* decoder_decode(): the call of the application.                          *)

\* The call releases the frames that the last one put out.
Decode ==
  /\ phase = "idle"
  /\ count' = [b \in Bufs |-> count[b] - OutUses(b)]
  /\ outs' = <<>> /\ shown' = <<>>
  /\ moreData' \in IF frames < MaxFrames THEN BOOLEAN ELSE {FALSE}
  /\ phase' = "next"
  /\ UNCHANGED <<ok, isKey, refs, newFb, needResync, seen, header, slot, frames,
                 ghosts>>

Return == /\ phase = "next" /\ ~moreData
          /\ phase' = "idle"
          /\ UNCHANGED <<moreData, ok, pool, refs, newFb, needResync, seen,
                         header, slot, client, frames, ghosts>>

\* The next frame gets a buffer.
StartFrame ==
  /\ phase = "next" /\ moreData /\ Free # {}
  /\ newFb' = FirstFree(count)
  /\ count' = [count EXCEPT ![FirstFree(count)] = 1]
  /\ hold' = FALSE /\ seen' = FALSE /\ ok' = TRUE
  /\ frames' = frames + 1
  /\ phase' = "obus"
  /\ UNCHANGED <<moreData, isKey, map, nextMap, refresh, needResync, header,
                 slot, client, ghosts>>

\* No buffer is free.  av1_receive_compressed_data() returns an error with
\* error_code = AOM_CODEC_OK, which is what decode_one() then returns, and no
\* data is consumed: decoder_decode() goes on.
StartFails ==
  /\ phase = "next" /\ moreData /\ Free = {}
  /\ newFb' = NoBuf /\ needResync' = TRUE /\ ok' = FALSE
  /\ UNCHANGED <<phase, moreData, pool, refs, seen, header, slot, client, frames,
                 ghosts>>

\* The frame worker reports an error and the call returns.
Failed == /\ phase' = "idle" /\ moreData' = FALSE
          /\ ok' = FALSE /\ needResync' = TRUE

\* The frame is done with; there may be another one in the data.
Succeeded == /\ phase' = "next"
             /\ moreData' \in IF frames < MaxFrames THEN BOOLEAN ELSE {FALSE}
             /\ UNCHANGED <<ok, needResync>>

-----------------------------------------------------------------------------
(* The frame header: read_uncompressed_header().                           *)

\* Defect: one frame too many.
FullLate == OutputAll /\ Len(outs) > MaxOutput

\* The output queue has no place left for a frame.
Full == OutputAll /\ Len(outs) >= MaxOutput

InFrame == {"obus", "fill", "rest", "done"}
ReadsHeader == phase = "obus" /\ ~seen

\* What a sound stream keeps to: it shows no more frames in a call than can be
\* put out, starts with a frame that resyncs, and names references that exist.
Sound(show, kind, resilient) ==
  Malformed \/ /\ show => ~Full
               /\ kind = "inter" =>
                    ~needResync /\ (resilient \/ \E i \in Slots : map[i] # NoBuf)

\* Defect: ref_frame_map survives.
ResyncedKept(m, empty) == m

\* need_resync is left at a key or intra-only frame: ref_frame_map is cleared.
Resynced(m, empty) == IF needResync THEN empty ELSE m

\* show_existing_frame of slot i: ref_cnt_fb() replaces the new buffer by that
\* of the slot.  A key frame also resets the decoder (show_existing_frame_reset).
ShowExisting(i) ==
  LET b == map[i]
      dropped == [count EXCEPT ![newFb] = IF @ > 0 THEN @ - 1 ELSE @]
      shownFb == [dropped EXCEPT ![b] = @ + 1]
      emptied == Resynced(map, EmptyMap)
  IN /\ ReadsHeader /\ Sound(TRUE, "key", FALSE)
     /\ b # NoBuf /\ count[b] >= 1
     /\ newFb' = b /\ current' = content[b]
     /\ header' = [existing |-> TRUE, reset |-> isKey[b], show |-> TRUE,
                   kind |-> "key"]
     /\ IF isKey[b]
        THEN /\ refresh' = Slots
             /\ map' = emptied /\ stored' = Resynced(stored, Empty)
             /\ needResync' = FALSE
             /\ nextMap' = NextMap(emptied, Slots, b)
             /\ count' = WithHolds(shownFb, emptied, Slots, b)
             /\ hold' = TRUE
        ELSE /\ refresh' = {} /\ count' = shownFb
             /\ UNCHANGED <<map, stored, needResync, nextMap, hold>>
     /\ phase' = "done"
     /\ UNCHANGED <<moreData, ok, isKey, seen, slot, client, frames, content>>

\* The slots that a frame may refresh; those of an inter frame are not read
\* while need_resync is set.
MayRefresh(kind, show) ==
  CASE kind = "key" /\ show   -> {Slots}
    [] kind = "key" /\ ~show  -> SUBSET Slots
    [] kind = "intra"         -> SUBSET Slots \ {Slots}
    [] kind = "inter"         -> IF needResync THEN {refresh} ELSE SUBSET Slots

\* The header of a coded frame, up to the references it brings along.
CodedHeader(kind, show, resilient) ==
  /\ ReadsHeader /\ Sound(show, kind, resilient)
  /\ header' = [existing |-> FALSE, reset |-> FALSE, show |-> show, kind |-> kind]
  /\ refresh' \in MayRefresh(kind, show)
  /\ IF kind = "inter"
     THEN UNCHANGED <<map, stored, needResync>>
     ELSE /\ map' = Resynced(map, EmptyMap) /\ stored' = Resynced(stored, Empty)
          /\ needResync' = FALSE
  /\ phase' = IF resilient /\ (kind = "inter" \/ refresh' # Slots)
              THEN "fill" ELSE "rest"
  /\ slot' = 0
  /\ UNCHANGED <<moreData, ok, pool, nextMap, newFb, hold, seen, client, frames,
                 content, current>>

\* In error-resilient mode the header has the order hint of every slot: one
\* that agrees with the buffer in the slot ...
FillKeeps == /\ phase = "fill" /\ slot < NumSlots
             /\ map[slot] # NoBuf
             /\ slot' = slot + 1
             /\ UNCHANGED <<phase, moreData, ok, pool, refs, newFb, needResync,
                            seen, header, client, frames, ghosts>>

\* ... or one that does not: the slot gets a grey frame in a buffer of its own.
FillGrey ==
  LET released == Decrease(count, map[slot])
      b == FirstFree(released)
  IN /\ phase = "fill" /\ slot < NumSlots
     /\ \E c \in Bufs : released[c] = 0
     /\ count' = [released EXCEPT ![b] = 1]
     /\ map' = [map EXCEPT ![slot] = b]
     /\ content' = [content EXCEPT ![b] = Grey]
     /\ stored' = [stored EXCEPT ![slot] = Grey]
     /\ slot' = slot + 1
     /\ UNCHANGED <<phase, moreData, ok, isKey, nextMap, newFb, hold, refresh,
                    needResync, seen, header, client, frames, current>>

FillEnds == /\ phase = "fill" /\ slot = NumSlots
            /\ phase' = "rest"
            /\ UNCHANGED <<moreData, ok, pool, refs, newFb, needResync, seen,
                           header, slot, client, frames, ghosts>>

\* The rest of the header.  An inter frame needs a reference to predict from,
\* and none passes while need_resync is set.  From here on the buffer is written.
HeaderDone ==
  /\ phase = "rest" /\ ~needResync
  /\ header.kind = "inter" => \E i \in Slots : map[i] # NoBuf
  /\ isKey' = [isKey EXCEPT ![newFb] = header.kind = "key"]
  /\ nextMap' = NextMap(map, refresh, newFb)
  /\ count' = WithHolds(count, map, refresh, newFb)
  /\ hold' = TRUE /\ seen' = TRUE
  /\ content' = [content EXCEPT ![newFb] = frames] /\ current' = frames
  /\ phase' = "obus"
  /\ UNCHANGED <<moreData, ok, map, newFb, refresh, needResync, header, slot,
                 client, frames, stored>>

\* The last tile group, loop filters included.
TilesDone == /\ phase = "obus" /\ seen
             /\ phase' = "done" /\ seen' = FALSE
             /\ UNCHANGED <<moreData, ok, pool, refs, newFb, needResync, header,
                            slot, client, frames, ghosts>>

-----------------------------------------------------------------------------
(* swap_frame_buffers() and the ways out of a frame.                       *)

Shows == header.existing \/ header.show

\* Defect: a frame that is not shown keeps its reference.
OutputStepKeeps(cnt) ==
  IF Shows /\ ~Full
  THEN IF OutputAll
       THEN /\ outs' = Append(outs, newFb) /\ shown' = Append(shown, current)
            /\ count' = cnt
       ELSE /\ outs' = <<newFb>> /\ shown' = <<current>>
            /\ count' = IF outs = <<>> THEN cnt ELSE Decrease(cnt, outs[1])
  ELSE count' = cnt /\ UNCHANGED client

\* The new buffer goes to the output queue, replacing what is there unless all
\* layers are put out, or its reference is dropped.
OutputStep(cnt) ==
  IF Shows /\ ~Full
  THEN IF OutputAll
       THEN /\ outs' = Append(outs, newFb) /\ shown' = Append(shown, current)
            /\ count' = cnt
       ELSE /\ outs' = <<newFb>> /\ shown' = <<current>>
            /\ count' = IF outs = <<>> THEN cnt ELSE Decrease(cnt, outs[1])
  ELSE count' = Decrease(cnt, newFb) /\ UNCHANGED client

Finish ==
  /\ phase = "done"
  /\ IF GivesBack
     THEN /\ map' = nextMap
          /\ stored' = [i \in Slots |-> IF i \in refresh THEN current
                                                         ELSE stored[i]]
     ELSE UNCHANGED <<map, stored>>
  /\ OutputStep(WithoutHolds(count, map))
  /\ hold' = FALSE
  /\ IF Shows /\ Full THEN Failed ELSE Succeeded
  /\ UNCHANGED <<isKey, nextMap, refresh, newFb, seen, header, slot, frames,
                 content, current>>

\* The data ended without a frame.
NoFrameFound == /\ ReadsHeader
                /\ count' = Decrease(count, newFb)
                /\ hold' = FALSE
                /\ Succeeded
                /\ UNCHANGED <<isKey, map, nextMap, refresh, newFb, seen, header,
                               slot, client, frames, ghosts>>

\* aom_internal_error(): the error handler gives back the references held,
\* those of the slots to be refreshed and that of the new buffer, starting from
\* counts cnt.
Handler(cnt) == /\ count' = Decrease(IF hold THEN WithoutHolds(cnt, map) ELSE cnt,
                                     newFb)
                /\ hold' = FALSE
                /\ Failed
                /\ UNCHANGED <<isKey, map, nextMap, refresh, newFb, seen, header,
                               slot, client, frames, ghosts>>

Abandon == Malformed /\ phase \in InFrame /\ Handler(count)

\* No buffer for a grey frame, or no memory for its pixels.
FillFails ==
  LET released == Decrease(count, map[slot])
      b == FirstFree(released)
  IN /\ Malformed /\ phase = "fill" /\ slot < NumSlots
     /\ IF \E c \in Bufs : released[c] = 0
        THEN Handler([released EXCEPT ![b] = 1])
        ELSE Handler(released)

\* error_code is set without longjmp: nothing is given back.
Reject == /\ Malformed /\ phase \in {"obus", "done"}
          /\ Failed
          /\ UNCHANGED <<pool, refs, newFb, seen, header, slot, client, frames,
                         ghosts>>

\* A temporal delimiter between the header and the tiles of a frame.
StrayDelimiter == /\ Malformed /\ phase = "obus" /\ seen
                  /\ frames < MaxFrames /\ frames' = frames + 1
                  /\ seen' = FALSE
                  /\ UNCHANGED <<phase, moreData, ok, pool, refs, newFb,
                                 needResync, header, slot, client, ghosts>>

-----------------------------------------------------------------------------
Headers == \/ \E i \in Slots : ShowExisting(i)
           \/ \E kind \in Kinds, show, resilient \in BOOLEAN :
                CodedHeader(kind, show, resilient)
           \/ FillKeeps \/ FillGrey \/ FillEnds \/ HeaderDone

Work == \/ Return \/ StartFrame \/ StartFails
        \/ Headers \/ TilesDone \/ Finish \/ NoFrameFound
        \/ Abandon \/ FillFails \/ Reject \/ StrayDelimiter

Next == Decode \/ Work

\* The decoder runs on once it has been called.
Spec == Init /\ [][Next]_vars /\ WF_vars(Work)

-----------------------------------------------------------------------------
(* Properties.                                                             *)

Frames == Int

TypeOK ==
  /\ phase \in {"idle", "next"} \cup InFrame
  /\ moreData \in BOOLEAN /\ ok \in BOOLEAN
  /\ count \in [Bufs -> Int] /\ isKey \in [Bufs -> BOOLEAN]
  /\ map \in [Slots -> Bufs \cup {NoBuf}]
  /\ nextMap \in [Slots -> Bufs \cup {NoBuf}]
  /\ newFb \in Bufs \cup {NoBuf}
  /\ phase \in InFrame => newFb \in Bufs
  /\ hold \in BOOLEAN /\ refresh \subseteq Slots /\ needResync \in BOOLEAN
  /\ seen \in BOOLEAN
  /\ header \in [existing : BOOLEAN, reset : BOOLEAN, show : BOOLEAN, kind : Kinds]
  /\ slot \in 0..NumSlots
  /\ outs \in Seq(Bufs) /\ shown \in Seq(Frames) /\ Len(shown) = Len(outs)
  /\ Len(outs) <= MaxOutput /\ (~OutputAll => Len(outs) <= 1)
  /\ frames \in Nat
  /\ content \in [Bufs -> Frames] /\ current \in Frames
  /\ stored \in [Slots -> Frames]

\* The references to a buffer that somebody will use: ref_frame_map, unless it
\* is going to be cleared, the output queue, and the frame being decoded.
MapUses(b)   == IF needResync THEN 0 ELSE Uses(map, b)
FrameUses(b) == IF phase \in InFrame /\ newFb = b THEN 1 ELSE 0
HoldUses(b)  == IF hold /\ phase \in InFrame
                THEN Uses(map, b) + (IF newFb = b THEN Cardinality(refresh) ELSE 0)
                ELSE 0

\* For a sound stream ref_count is exactly the number of references to the
\* buffer, between calls and at every step of a frame.
RefsExact ==
  Malformed \/ \A b \in Bufs :
    count[b] = Uses(map, b) + OutUses(b) + FrameUses(b) + HoldUses(b)

\* For a sound stream get_free_fb() always finds a buffer, because FRAME_BUFFERS
\* exceeds the slots and the output queue by one.
PoolSuffices ==
  Malformed \/ /\ phase = "next" => Free # {}
               /\ phase = "fill" /\ slot < NumSlots =>
                    \E c \in Bufs : Decrease(count, map[slot])[c] = 0

(* The inductive invariant behind them; the conjuncts after TypeOK are about   *)
(* sound streams.                                                          *)

\* A frame holds references from the end of its header until it is finished,
\* unless it shows an existing one, and what it will put into ref_frame_map is
\* settled while it does.
HoldInv ==
  /\ seen => phase = "obus"
  /\ hold => (phase = "obus" /\ seen) \/ (phase = "done" /\ GivesBack)
  /\ phase = "obus" /\ seen => hold
  /\ phase = "done" /\ GivesBack => hold
  /\ phase = "done" /\ ~GivesBack => refresh = {}
  /\ phase \in {"fill", "rest"} \/ seen => header.existing = FALSE
  /\ hold => nextMap = NextMap(map, refresh, newFb)

\* Out of sync, there are no references, and no header gets past its start.
ResyncInv == /\ needResync => map = EmptyMap
             /\ phase \in {"fill", "rest"} \/ hold => ~needResync

\* A frame that will be shown has a place in the output queue.
ShowInv == /\ phase \in {"fill", "rest", "done"} \/ seen => (Shows => ~Full)
           /\ header.existing => header.show

\* All of it together: what the functions between get_free_fb() and
\* swap_frame_buffers() leave to each other, for a sound stream.
IInv == TypeOK /\ (Malformed \/ (HoldInv /\ ResyncInv /\ ShowInv /\ RefsExact))

\* Whatever errors came before, a frame put out by a call that succeeded keeps
\* its buffer and its picture until the next call.
OutputsIntact == phase = "idle" /\ ok =>
                   \A k \in DOMAIN outs : /\ content[outs[k]] = shown[k]
                                          /\ count[outs[k]] >= 1

\* Whatever errors came before, once the decoder is in sync again every slot has
\* the frame that was last stored in it, not one that was decoded over it.
SlotsIntact == ~needResync => \A i \in Slots :
                 IF map[i] = NoBuf THEN stored[i] = NoFrame
                 ELSE stored[i] = content[map[i]] /\ count[map[i]] >= 1

(* The inductive invariant behind the two, and behind StoreRefinement.         *)

\* Nothing has gone wrong in this call, and the header does not go through slots
\* whose references are no longer counted, which only an error can follow.
Certain == ok /\ ~(needResync /\ phase \in {"fill", "rest"})

\* The references of a frame that will be given back when it is finished.
Holding == (phase = "obus" /\ seen) \/ (phase = "done" /\ GivesBack)
HoldClaims(b) ==
  IF Holding
  THEN Uses(map, b) + (IF newFb = b THEN Cardinality(refresh) ELSE 0) ELSE 0

\* A buffer that is in use has at least the references that are going to be used
\* or given back; one that is not may have any number, even a negative one.
Claims(b) == MapUses(b) + OutUses(b) + FrameUses(b) + HoldClaims(b)
ClaimInv == Certain => \A b \in Bufs : Claims(b) = 0 \/ count[b] >= Claims(b)

\* An error leaves the decoder out of sync, and no frame goes on after it.
ErrorInv == /\ ~ok => needResync
            /\ phase \in InFrame => ok
            /\ phase = "next" /\ ~ok => outs = <<>> \/ Free = {}
            /\ Holding => ~needResync /\ nextMap = NextMap(map, refresh, newFb)

\* A frame that shows an existing one refreshes all slots or none.
HeaderInv == /\ phase \in {"fill", "rest"} \/ (phase = "obus" /\ seen)
                  => header.existing = FALSE
             /\ phase = "done" /\ ~GivesBack => refresh = {}

\* The buffer of a frame that is not written yet, or just being, is nobody else's.
FreshInv == Certain /\ phase \in {"obus", "fill", "rest"} =>
              /\ ~needResync => \A i \in Slots : map[i] # newFb
              /\ \A k \in DOMAIN outs : outs[k] # newFb

\* Pictures are where they are remembered to be.
PictureInv == /\ Certain => \A k \in DOMAIN outs : content[outs[k]] = shown[k]
              /\ ~needResync => \A i \in Slots :
                   stored[i] = IF map[i] = NoBuf THEN NoFrame ELSE content[map[i]]
              /\ (phase = "obus" /\ seen) \/ phase = "done"
                   => current = content[newFb]

KeepInv == TypeOK /\ ErrorInv /\ HeaderInv /\ ClaimInv /\ FreshInv /\ PictureInv

(* And, for a sound stream, of StoreRefinement.                                *)

\* The frame being decoded is newer than any stored, one that is shown again is
\* stored, and nothing fails.
Pending == phase \in {"obus", "fill", "rest"} \/ (phase = "done" /\ ~header.existing)
StoreInv ==
  /\ ok /\ (needResync => stored = Empty)
  /\ frames <= MaxFrames /\ (phase = "next" /\ moreData => frames < MaxFrames)
  /\ phase \in InFrame => frames >= 1
  /\ \A b \in Bufs : content[b] >= Grey
  /\ \A i \in Slots : stored[i] <= frames - One(Pending)
  /\ (phase = "obus" /\ seen) \/ (phase = "done" /\ ~header.existing)
       => current = frames
  /\ phase = "done" /\ header.existing =>
       /\ current # NoFrame /\ (header.reset => refresh = Slots)
       /\ \E i \in Slots : stored[i] = current

\* A call of decoder_decode() returns.
DecodeReturns == (phase # "idle") ~> (phase = "idle")

\* `Return error if can not find any': a call for which no buffer is free returns.
ExhaustionReturns == (phase = "next" /\ moreData /\ Free = {}) ~> (phase = "idle")

\* For a sound stream the decoder implements RefStore.
Abstract == INSTANCE RefStore WITH
              FrameIds <- 1..MaxFrames,
              slots <- [i \in Slots |-> IF map[i] = NoBuf THEN NoFrame
                                        ELSE content[map[i]]],
              out   <- [k \in DOMAIN outs |-> content[outs[k]]]
StoreRefinement == Abstract!ASpec
=============================================================================
