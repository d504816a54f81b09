# Formal models of libaom

libaom is an AV1 encoder and decoder library. Its bulk is numerical code on
pixels, which TLA+ has little to say about. What is hard to test in it is what
goes on around the pixels: threads that wait for each other, buffers that are
counted by hand across error paths, queues and lists that are reused from frame
to frame, and the order in which an application may call. This directory models
that part.

## Inventory

| Component (source) | State | Operations | Interacts with | What is hard | What makes it correct |
|---|---|---|---|---|---|
| Worker threads (`aom_util/aom_thread.c`) | `impl_`, `status_`, `hook`, `data1/2`, `had_error` | init, reset, sync, launch, execute, end; the thread's loop | every multithreaded part | one condition variable for two waiters, arguments written without the lock, join and free | no lost wakeup; sync really waits; a hook sees its own arguments |
| Multithreaded deblocking (`av1/common/thread_common.c`) | job queue, `cur_sb_col` per plane and row, mutex and condition per row, arrays kept between frames | loop_filter_rows_mt, enqueue, get job, sync_read, sync_write, row worker | workers; decoder and encoder call it | workers block inside jobs; groups of columns; reallocation | filter order, all rows done on return, no deadlock |
| Multithreaded loop restoration (same file) | the same, unit rows, line buffers | enqueue (even rows first), sync modes, copy back | workers | a row's copy back against its neighbours' reads | source rows unmodified when read, no deadlock |
| Decoder reference buffers (`onyxc_int.h`, `decoder.c`, `decoder.h`) | `frame_bufs[].ref_count`, `ref_frame_map`, `next_ref_frame_map`, `new_fb_idx`, `hold_ref_buf`, output queue | get_free_fb, ref_cnt_fb, decrease_ref_count, swap_frame_buffers, error handler | header, OBU loop, application | hand-made counting over four functions, longjmp | exact counts, no live buffer reused, pool never exhausted |
| Frame header (`decodeframe.c`) | `refresh_frame_flags`, `need_resync`, `show_existing_frame`, `reset_decoder_state` | read_uncompressed_header | reference buffers | resync, missing references, repeated key frames | slots hold what the stream stored |
| Tile threads of the decoder (`decodeframe.c`) | job queue, per-worker `corrupted`, `had_error`, worker array | decode_tiles_mt, tile_worker_hook | workers | errors in one worker, flags that survive a frame, partial creation | every tile once; an error is reported for the frame it belongs to |
| OBU loop (`obu.c`) | `seen_frame_header`, sequence header, operating point | aom_decode_frame_from_obus and one reader per OBU type | header, tiles | order of OBUs, repeated headers | a frame is decoded against one header |
| Decoder interface (`av1_dx_iface.c`) | frame worker, output lists, grain buffers | decode, get_frame, flush, controls | application, decoder | loop over the data, output released by the next call | every call returns; output intact until the next |
| Frame buffer list (`frame_buffers.c`) | `in_use`, `size`, `data` | get, release | reference buffers | failed growth | a buffer in use is not handed out |
| Dormant row synchronisation (`dthread.c`) | - | nothing calls it | - | - | - |
| Tile threads of the encoder (`ethread.c`) | worker array, per-worker counts, `num_workers` | av1_encode_tiles_mt, hook | workers | stride against number launched, the caller as a worker | every tile encoded once, counts added once |
| Lookahead (`lookahead.c`) | ring buffer, read and write index, size | init, push, pop, peek, depth | encoder | backward peek, failing push | FIFO order; the last popped frame stays readable |
| Encoder reference buffers (`encoder.c`) | `frame_bufs`, reference map, golden/alternate roles | update_reference_frames, recode loop | lookahead, rate control | counts, show_existing | as in the decoder; encoder and decoder agree |
| Rate control, two-pass (`ratectrl.c`, `firstpass.c`) | buffer level, statistics | per-frame updates | encoder | floating point | - |
| Mode search (`rdopt.c`, ...) | - | - | - | numerical | - |
| Encoder interface (`av1_cx_iface.c`) | pending packet data, flags | encode, get_cx_data, flush | application | partial frames pending | no packet lost |
| Codec API (`aom/src`) | `iface`, `priv`, `err`, init flags | init, decode, get_frame, destroy, ... | application | misuse in any order | errors reported, no use after destroy |
| LEB128 (`aom_integer.c`), entropy coder, bit I/O, grain table, tile layout, timing | small or none | pure | everywhere | boundaries | decoding inverts encoding; bounds |
| Memory, pixel kernels, tables, tools, tests, vendored code | - | - | - | - | not modelled |

The same list, with the status of each part, is in `PROJECT.json` under
`components`; `hazards` there names the lines where each difficulty bites.

## Modules

| Module | Models | Run by | Proofs |
|---|---|---|---|
| `WorkerSpec` | what a worker promises: submit, perform once, with its own arguments | (abstract) | |
| `AVxWorker` | `aom_thread.c` | `MCAVxWorker` | `AVxWorker_proof` |
| `FrameFilter` | what filtering a frame promises: vertical before horizontal, all blocks | (abstract) | |
| `LfRowMT` | `thread_common.c` up to line 384 | `MCPostFilter` | `PostFilter_proof` |
| `LrRowMT` | the rest of `thread_common.c`, with the walk over units in `restoration.c` | `MCPostFilter` | `LrRowMT_proof` |
| `PostFilter` | both stages, one after the other over one picture (composes the two) | `MCPostFilter` | `PostFilter_proof` |
| `TileJobsMT` | decode_tiles_mt and tile_worker_hook in `decodeframe.c` | `MCTileJobsMT` | `TileJobsMT_proof` |
| `RefStore` | what reference buffers promise: slots and output hold the frames decoded | (abstract) | |
| `DecoderRefs` | buffers and counts through header, OBU loop, error handler and application calls | `MCDecoderRefs` | `DecoderRefs_proof` |
| `EncTileMT` | `ethread.c` and the choice of threads in `encodeframe.c` | `MCEncTileMT` | `EncTileMT_proof` |
| `FrameQueue` | what the lookahead promises: a queue, and the frame taken out last | (abstract) | |
| `EncoderQueue` | `lookahead.c`, driven as `av1_cx_iface.c` and `encoder.c` drive it | `MCEncoderQueue` | `EncoderQueue_proof` |
| `EntropyCoder` | `entenc.c` and `entdec.c`, a message through both | `MCEntropyCoder` | `EntropyCoder_proof` |

### AVxWorker

One owner and one worker thread. `status`, `impl`, `hadError` are the fields of
the struct, `args` stands for hook, data1 and data2 together, `job` and `ran`
are history. A method that takes the mutex is `Enter` (the call, up to the
lock), then `OwnerWaits` and `OwnerProceeds` (the two outcomes of the loop in
change_state), and for end() `Join`. The thread is at the lock, in the wait, in
the hook, or done; a step of it is one stretch under the mutex. The hook is
called with the mutex held, as in the code, so `ThreadStarts` and
`ThreadFinishes` exclude the owner in between. `Spurious` wakes either waiter
for no reason. `ResetFails` covers each of the three failures of creation.
The owner is assumed to follow the header: it writes arguments only when the
last sync returned. Fairness: weak fairness of the thread and of an owner inside
a call, which is what a fair scheduler and a mutex that is released in the end
give; calls themselves are never forced.

### LfRowMT

`job` queue, cursors `cur` (`cur_sb_col`) and the per-row waits are per plane.
A worker takes the first job in the order of enqueue_lf_jobs (`Before`), filters
column by column in the vertical direction and publishes its cursor (`Write`),
or waits for the row above (`ReadAbove`) and the row itself (`ReadOwn`), then
filters horizontally (`Horz`). The caller is the last worker. `vertDone` and
`horzDone` count the superblocks filtered in each row: they are what the
properties are about. A frame is chosen by its rows, columns and planes to
filter; `NewFrame` reallocates when the code does, or fails half way
(`BeginFails`), which a longjmp makes the end of that frame. Weak fairness of
every worker and of the caller.

### LrRowMT and PostFilter

A job of loop restoration is a row of units of one plane. `todo` is the queue with
the even rows in front of the odd ones, `cur` the columns published per plane and
row, and a worker goes through the units of its row: it waits for the row above
(`ReadAbove`) and below (`ReadBelow`) if its row is odd, filters the unit
(`Filter`), publishes the column (`Write`), and when the row is done copies lines
of the result back to the frame (`Copy`). Rows are measured in lines: `VStart`,
`VEnd` are v_start and v_end with the offset of eight luma lines, `CopyLines` the
lines that come back and `UsedLines` those the filter of a unit looks at, three
above and below, as far as they are not taken from the saved stripe boundaries.
`filtered` and `copied` are history: the units filtered, and the lines of the
frame that are no longer input. `PostFilter` lets the calling thread run the
deblocking of LfRowMT and the restoration of LrRowMT in turn, each several times
or not at all; `StagesApart` says what that relies on. Weak fairness of every
worker and of the caller inside a stage.

### EncTileMT

Workers are created for the first frame with more than one tile column, as many as
that frame needs (`numWorkers`); `staff` says what each has. `CreateFails` leaves
the encoder by longjmp with the worker counted: with its thread missing, which
later frames survive since the last worker counted is executed by the caller, or
with its data missing, which `UsesNoData` marks and where a behaviour stops.
`Launch` starts one worker, the hook goes from tile to tile by `Stride`, `Merge` adds
up. `encoded` counts how often each tile of the frame was encoded. g_threads may
change between frames (`Reconfigure`), upwards only unless `ThreadsShrink`. Weak
fairness of each worker and of the caller inside a frame.

### EncoderQueue

The ring is `buf` with `readIdx`, `writeIdx` and `sz`; an entry holds the number of a
frame and whether it is to be a key frame. A call of encoder_encode() is `Submit`
or `Flush`, then frames coded one by one until one is visible, nothing can be taken
out, or the output buffer is half full (`BufferShort`). What rate control asks for
next - the oldest frame, an alternate reference k frames ahead, a backward
reference, a frame shown as it is - is a choice, and so is whether a frame is
dropped or an error leaves by longjmp. A push may fail after the indices have
moved. `arfDue` is source_alt_ref_pending, which matters in one pass: there an
alternate reference is asked for once, whatever comes of it, and again only when a
frame has been taken out.

Two exits of av1_get_compressed_data() are easily overlooked. It returns -1 not only
when there is no source but also when get_free_fb() finds no buffer (`encoder.c:5682`,
`encoder.c:5868`); the model lets that happen at every frame. By then the source may
have been taken out (`ending` "lost") or, for a hidden frame, nothing has (`ending`
"starved"). And it returns AOM_CODEC_ERROR when a frame cannot be packed
(`encoder.c:5693`, `encoder.c:5936`), which is not -1: encoder_encode() goes round
again with nothing pending (`PackFails`; for a frame taken out this looks like one that
was dropped). RoomAfterCall and FlushEmpties say what a call that ends in the one
way or the other leaves in the queue. `ending` is history and keeps apart what the
caller cannot: "ok", "lost", "starved" and one kind of "short" are all AOM_CODEC_OK
without a packet (see the findings). CallReturns holds without a condition in one pass. In
two passes a hidden frame that cannot be packed is chosen again, since Pass2Encode()
leaves before av1_twopass_postencode_update() moves gf_group.index on; if it fails
every time the call does not return, which TLC finds when the condition of CallReturns
is taken away.

`altFrame`, `popped` and `failed`, which flips at every failure so that it is a step,
are history too. FrameQueue is refined with the queue as
the frames between the indices and `last` as what a peek at -1 finds. Weak fairness
of the call; an application is never forced to call.

### EntropyCoder

`low`, `rng`, `cnt` and `precarry` are the fields of od_ec_enc at their own width;
`hi` and `lo` are the two halves of the 32-bit window of od_ec_dec, since TLC has no
unsigned 32-bit numbers. Exclusive or with bits that are all ones is subtraction. A
message is encoded symbol by symbol, `Done` closes the encoder and opens the
decoder, which is given the same probabilities. `tells` is history: the encoder's
count of bits before every symbol.

### TileJobsMT

The calling thread goes through `phase`: `groups` (a frame header has been read;
tile groups follow), `launch` (decode_tiles_mt from the first launch to the
last sync), `handler` (it left its own hook by longjmp), `ready`. A group of one
tile is decoded without threads unless row_mt is set (`SingleTile`); any other
makes the queue (`todo`) and launches `nw` workers, the last of which is the
caller. A worker is `idle`, about to `take` a job or at a `tile`. `corrupted` is
the set of workers whose td->xd.corrupted is set, `hadError` those with had_error.
`SetupFails`, `CreateFails` and `AllocFails` are the ways to the error handler
before a launch; after the last two the code may go on with data that does not
exist, which `UsesNoWorkers` and `UsesNoQueue` mark and where a behaviour stops.
launch() and sync() are those of WorkerSpec, which AVxWorker implements: the hook
runs once and sync() waits for it. `asked` and `times` count how often the groups
of a frame name a tile and how often it was decoded. Fairness: weak fairness of
each worker and of the calling thread inside a group; groups and frames are
never forced to come.

### DecoderRefs

One thread, so a step is a stretch of code between two points where the stream
decides. `phase` is where it is: `idle` (outside decoder_decode), `next` (the
head of its loop), `obus`, `fill` (missing references of an error-resilient
frame), `rest` (of the header), `done` (before swap_frame_buffers). `content`
says which frame's picture a buffer has, `stored` and `shown` which frame a slot
or the output queue ought to have. With `Malformed` the stream may be damaged
and allocations may fail; without it the stream keeps to `Sound`. NumBufs,
NumSlots and MaxOutput stand for FRAME_BUFFERS (15), REF_FRAMES (8) and
MAX_NUM_SPATIAL_LAYERS (4). The pool has at least one buffer more than slots and
output together, which is all the proofs of sufficiency ask for. Fairness: the
thread runs on once it has been called.

## Runs

| Run | Properties | Expected | Shows |
|---|---|---|---|
| `AVxWorker` | TypeOK, NeverBothAsleep, SyncedMeansIdle, JobKeepsItsArgs, ThreadHasImpl, CallsReturn, WorkerRefinement | pass | One worker thread and its owner through every interleaving of reset, launch, sync, execute and end: no wakeup is lost, sync() really synchronises, and the pair implements WorkerSpec. |
| `PostFilter` | StagesTypeOK, FilterOrder, FrameComplete, RowsAllocated, LrInputIntact, LrOutputComplete, LrRowsThere, StagesApart, StagesEnd, FilterRefinement | pass | Two workers and two calls of either stage, with allocation failures between them: order of the deblocking filters, its completeness and the implementation of FrameFilter; restoration out of untouched input, its completeness and allocation; the stages never overlap and each one ends. |
| `DecoderRefs` | TypeOK, RefsExact, PoolSuffices, StoreRefinement, DecodeReturns | pass | Sound streams, all layers put out: the reference counts are exact at every step, a buffer is free whenever one is asked for, every call returns, and slots and output queue implement RefStore. |
| `DecoderRefsErrors` | OutputsIntact, SlotsIntact | pass | Damaged streams and failing allocations: counts go wrong, and still no frame that is put out or referenced after resynchronisation loses its buffer. |
| `DecoderRefsExhausted` | ExhaustionReturns | violation | Buffers lost to rejected frames exhaust the pool, and the call that finds none free does not return. |
| `TileJobsMT` | TypeOK, TilesOnce, AcceptedIsDecoded, NobodyWorksOn, GroupEnds | pass | Three threads, frames of up to three tiles in up to two tile groups, one of which may be of a single tile, with failing allocations and failing creation of threads: each job goes to one thread, no error gets lost, nobody works on after the call, and every group ends. |
| `TileJobsMTSticky` | OwnErrorsOnly | violation | A worker that has met a damaged tile reports an error for sound frames that follow. |
| `EncoderQueue` | TypeOK, AltRefIntact, RoomAfterCall, FlushEmpties, QueueRefinement, CallReturns | pass | A ring of four entries gone round more than once, in one pass and in two, with alternate references, forced key frames, dropped frames, failing pushes, missing buffers and errors in between: the ring implements FrameQueue, the pointer to the alternate reference stays good, a flush that ends for want of a frame has emptied the queue, and every call returns, in two passes if hidden frames do not fail for ever. |
| `EncTileMT` | TypeOK, TilesOnce, CountsExact | pass | Three frames of one to five tile columns on up to three threads, of which more may come between frames and some may fail to be created: each tile is encoded exactly once, and its counts are added exactly once. |
| `EntropyCoder` | RoundTrip, TellsAgree | pass | Every message of up to five symbols, binary and of three values, of a table with equal neighbours too, with nothing or zeros behind its bytes: it is decoded as it was encoded, and both sides count the same bits. |
| `EncTileMTMissed` | TilesOnce | violation | When g_threads is reduced between frames, fewer workers are launched than the stride of the tile loop counts, and tiles are never encoded. |
| `EncTileMTIntrabc` | IntrabcReported | violation | Of the tiles of a worker only the last decides whether intra block copy is reported as used. |

Bounds. AVxWorker: launches are capped at MaxCalls, enough for a
launch after a failure, after an end and after a reset. PostFilter: two frames, so
that the second may be larger, smaller or follow a failed allocation; two rows and
three columns in groups of two leave a remainder and a row that waits;
restoration has three or four rows of units, so that an odd row lies between two
even ones and the last is cut short. EncTileMT: five columns on three threads, so
that a worker has up to three tiles; three frames, so that one may fail to create
workers and the next two use what is left. EncoderQueue: five pictures through a
ring of four entries. EntropyCoder: five symbols; the
probabilities are chosen so that some messages carry through a byte of 255 (the
mutant of RoundTrip needs one), and one table is what update_cdf() comes to when it
sees one symbol for long, with equal neighbours and symbols that have EC_MIN_PROB
only. DecoderRefs: two slots are
enough to refresh one and keep the other; three or four frames are enough to
fill, overwrite, and show again. TileJobsMT: three threads on three tiles, so that
somebody may find the queue empty, drop a job or be at work while the caller
jumps; two groups, so that one may be threaded and the other not; two frames,
so that flags, workers and queue are used again. Frame counters are bounded by
MaxFrames.

## Findings

1. A frame for which no buffer is free does not end the call of the application:
   the error is returned where nobody reads it (`decoder.c:417`,
   `av1_dx_iface.c:294`) and decoder_decode repeats on the same data. It takes
   earlier frames whose buffers were lost to get there: rejected ones
   (`decoder.c:477`), or those the error handler leaves with the references that
   next_ref_frame_map took to the new buffer (`decoder.c:440`). Run
   `DecoderRefsExhausted`.
2. A worker that has met a damaged tile is of no more use: `xd.corrupted` is reset
   only inside a job (`decodeframe.c:2757`), and a worker whose flag is set takes
   none (`decodeframe.c:2750`), so that every later frame it takes part in is
   rejected, while `aom_codec.h:137` lets an application go on after a corrupt
   frame. Run `TileJobsMTSticky`.
3. When g_threads is reduced between two frames, the workers that were created
   stay, fewer are launched, and the stride of the tile loop still counts all of
   them (`ethread.c:40`, `ethread.c:124`): some tiles are never encoded. Run
   `EncTileMTMissed`.
4. `intrabc_used_this_tile` is reset per tile and looked at once per worker
   (`ethread.c:176`), so that allow_intrabc may be reset although a tile uses it,
   against `encodeframe.c:4786`. Run `EncTileMTIntrabc`.

Met on the way, without a run:

- `had_error` is documented as the return value of the last call of the hook
  (`aom_thread.h:385`) but accumulates (`aom_thread.c:135`).
- A failed allocation in alloc_dec_jobs leaves the layout recorded and the queue
  null (`decodeframe.c:2827`); the next frame of that layout uses it. TileJobsMT
  reaches that state (`UsesNoQueue`).
- The restoration queue is sized by superblock rows (`thread_common.c:720`), but
  the units of a subsampled plane may be half as high: a frame of 95 lines in 4:2:0
  with chroma units of 32 lines has five jobs for three places. TLC finds it with
  the format `Tight` of MCPostFilter; the run uses the formats for which the
  array is large enough.
- A failed push leaves the error code at AOM_CODEC_OK (`encoder.c:5186`), so that
  encoder_encode() reports success for a picture that is lost.
- `aom/aom_encoder.h:871` tells an application to call aom_codec_encode() without a picture
  until there is no data. A call that finds no buffer (`encoder.c:5682`,
  `encoder.c:5868`), or whose hidden frames fill half of the output buffer
  (`av1_cx_iface.c:1271`), gives no data and returns AOM_CODEC_OK as well, with frames
  still queued; the application cannot tell. EncoderQueue reaches these states
  (`ending` "lost", "starved" and "short").
- av1_loop_restoration_dealloc() is given the number of workers to come, not that of
  the arrays it frees (`thread_common.c:732`). It does no harm as long as the number
  does not change, and no caller changes it: both codecs create their workers once.
  For the same reason LfRowMT and LrRowMT leave out the test for more workers
  than before (`thread_common.c:327`, `thread_common.c:731`).
- The comment on od_ec_enc_done() (`entenc.c:298`) promises that the symbols are
  decoded correctly "regardless of the bits that follow". They are if nothing or
  zeros follow, which is all that a tile meets; with the trailer <<255>> TLC finds
  a message of four symbols whose last one is read wrongly, and the compiled coder
  does the same.
- `previous_index` (`encoder.c:5949`) is an absolute index of the ring but is given
  to a peek relative to its read index (`encoder.c:5918`).
- aom_film_grain_table_lookup() is to erase the beginning of the ranges that follow
  (`grain_table.c:243`), but goes on from `entry->end_time` (`grain_table.c:246`), which
  by then is the end of the shortened range, or belongs to an entry that is gone, and
  not from the end it has saved. Nothing in the library erases.

## Proofs

`AVxWorker_proof` proves, for any set of arguments and any MaxCalls, that `IInv`
is inductive and the four safety properties follow. IInv adds to the properties
who may be where for each `status_` (StatusInv, OwnerInv) and the count of
launches against runs (CountInv): NeverBothAsleep alone is not inductive, since
it does not say that an owner waits only for a job outstanding. `Implements`
shows every step to be one of WorkerSpec or a stutter.

The first part of `PostFilter_proof` is about LfRowMT alone and proves, for any number
of workers, planes, rows, columns and any
group length, the inductive invariant IInv and from it FilterOrder,
FrameComplete and RowsAllocated. IInv relates three things that the code keeps
apart: the jobs still queued and the workers' jobs (together each row has one
owner), the number of superblocks filtered in each row, and the published
cursor, which never promises more than has been filtered (CurInv) - with the
group rounding of sync_read and sync_write (WaitInv).
`PostFilter_proof!Implements` is the safety part of the refinement of FrameFilter: the
superblocks filtered, as a set, grow by one at a time and in the order FrameFilter
allows (`OrderFollows`), and are all there when the call returns (`CompleteFollows`).

`LrRowMT_proof` proves, for any number of workers and of frames of any height, unit
size and number of columns, InputIntact and OutputComplete of the restoration, from
FormatsAssumption alone. One half is geometry, case by case over the four unit sizes:
rows that are not neighbours are more than two borders apart (`RowsApart`), and an
even row copies back nothing that an odd neighbour reads (`EvenKeepsOff`). The other
half is progress: an odd row has seen both neighbours two units ahead when it filters
(WaitInv) and so is always one unit behind them (OddInv), since the cursor that it
read does not run ahead of what is filtered (CurInv). An odd row copies its borders'
lines only when it is done, and then its neighbours are (`OddLast`). That no unit of a
neighbour is in the filter at the same or the next column follows from the two.
`PostFilter_proof` carries both stages' invariants over to their composition and adds
the one fact that keeps them apart: the calling thread is inside one stage at most,
and the workers of the other are idle (OneStage).

That the jobs have their places (LrRowsThere) depends on the formats: it fails for a
frame of 95 lines (see the findings). `LrRowMT_proof!JobsHaveRows` and
`PostFilter_proof!RestoreHasRows` prove it under UnitsFit, which every format meets
whose units are in every plane at least as high as a superblock, or, in a plane of
half the lines, half as high, if the frame then has an even number of lines. Rows are allocated for the plane with the
most of them (`AllocLeast`); a plane has no more rows of units than that
(`UnitRowsFit`, which is where rounding the height of a chroma plane up breaks the
bound for odd heights); and jobs, being pairs of a plane and a row, are no more than
the product (`JobsCount`).

`TileJobsMT_proof` proves, for any number of threads, tiles, groups and frames
and with failures or without, that `IInv` is inductive, and TilesOnce,
AcceptedIsDecoded and NobodyWorksOn from it. Neither of the first two is inductive
alone: that a tile is decoded once rests on its being in one place at a time, in
the queue or with one worker (PlaceInv, BooksInv), and that an error is not lost
rests on the stain it leaves (Stained): while no worker of the group is stained,
the books balance exactly and no damaged tile has been decoded (DamageInv), and a
worker that returns unstained leaves an empty queue (EmptyInv), so that at the
merge all tiles are done. There is one lemma per action (`TakeKeeps`,
`DropsKeeps`, ...).

`DecoderRefs_proof` proves, for any number of buffers, slots, layers and frames,
type correctness for every stream, and for sound streams (`Malformed` false) that
RefsExact and PoolSuffices always hold. RefsExact alone is not inductive: that the
end of a frame gives back what its header took needs to know that
next_ref_frame_map is still what the header made of ref_frame_map, and that holds
are there exactly from the end of the header on (HoldInv); that resynchronisation
does not drop counted references needs an empty map whenever need_resync is set
(ResyncInv); and that no frame fails at its very end needs its place in the output
queue (ShowInv). The counts are cardinalities of sets of slots and of positions in
the queue; the lemmas `UsesSplit`, `UsesNext`, `TimesAppend` say how each step
changes them. PoolSuffices follows from RefsExact by a pigeonhole argument
(`SomeoneElse`) from the assumption NumBufs > NumSlots + MaxOutput, which 15, 8 and
4 satisfy. The theorems rest on RefsAssumption only. For damaged streams the counts
do go wrong (finding 1), but not where it shows: `KeepInductive`, `OutputsKept` and
`SlotsKept` hold for every stream. The invariant KeepInv says so with an inequality:
as long as the call has not failed, a buffer that some slot, the queue or the frame
claims has at least as many references as claims (ClaimInv), where slots claim nothing
while need_resync is set, and a buffer that nobody claims may have any count. That is
enough for get_free_fb() never to hand out a claimed buffer (FreshInv), hence for no
picture to be written over (PictureInv), because a failed frame always sets
need_resync and so gives all claims of the slots up (ErrorInv). Finally
`DecoderRefs_proof!Implements` shows, for sound streams, that the decoder implements
RefStore: by KeepInv the slots and the queue hold what the decoder is remembered to
have stored and shown (`Mirrored`), and StoreInv says that a frame being decoded is
newer than every stored one and a frame shown again is stored.

`EncTileMT_proof` proves, for any number of threads, tile columns and frames and with
workers whose creation failed, type correctness, TilesOnce and CountsExact, under the
one condition that g_threads never becomes less (`~ThreadsShrink`; without it
TilesOnce fails, finding 3). TilesOnce alone is not
inductive: at the end of a call it needs that every tile has an owner (the lemma
`HasUsedOwner`, from the existence of a remainder, proved by well-founded choice in
`Division`), that no tile has two (`MineApart`), that the stride passes over none of
the owner's (`MineNext`), that a worker returns only behind its last tile (PlaceInv),
and that what lies behind a worker, and nothing else, is encoded and counted (WorkInv,
CountInv). That the owner is among the workers used rests on UsedInv: either all
workers are used or there are as many of them as tiles, which is what a smaller
g_threads breaks. StaffInv says why no sum is lost or doubled although the last worker
is left out: it has the data of the encoder itself.

`EncoderQueue_proof` proves, for every lag and any number of pictures, the four
invariants of the lookahead and, as `Implements`, that the ring implements
FrameQueue. The invariant adds only RingInv, that the write index is as many entries
behind the read index as are counted. From it follows that a push writes neither to a
queued entry nor to the one that last_source is read from (`PushRing`, with
`WrapApart`: going round no more than once meets no entry twice), which is what
PRE, the one entry kept free, is for. AltRefIntact rests on the test for the source
frame in check_src_altref() (`PoppedIInv`), RoomAfterCall and FlushEmpties on the two
ways av1_lookahead_pop() has of giving nothing (`NoSourceIInv`), and RoomAfterCall for
a frame that is lost on its having been taken out before it gets a buffer
(`PoppedIInv`). They do not cover a call that ends for want of a buffer for a hidden
frame (`ending` "starved"), which takes nothing out: after it neither holds.

`EntropyCoder_proof` proves, for messages of any length and any tables that do not
increase and end in 0, that they are decoded as they were encoded and that both sides count the same bits, if
nothing or zeros follow the bytes (`ZerosFollow`; with other bytes the last symbol may
be read wrongly, see the findings). The invariant CoderInv leaves the
registers for whole numbers. Every symbol narrows an interval; L[k] and R[k] are its
bottom and size after k symbols, in units of the last of the bits counted by then
(Chain, Link). The encoder keeps, spread over bytes of nine bits and low, exactly the
bottom of the last interval (Enc, Bottom): od_ec_enc_normalize() only moves bits from
one to the other (`NormalizeOK`). od_ec_enc_done() picks a number inside the interval whose last bits are
zeros, so that dropping them costs nothing (`FinalLowOK`, `LastOne`, `LastTwo`), and
carries do not change the number that bytes make (`Carries`). Since intervals are
nested, this number is in the part of every symbol of the message (Code, `DoneCode`). The decoder's
window is the distance from that number to the top of the interval, exact as far as
there are bits, with ones below (Window, Core): because of the ones a byte is
subtracted by exclusive or without a borrow (`OnesBelow`, `FillStep`), a shift keeps
them (`ShiftCore`), and comparing the upper half with a part of the range is
comparing the whole number (`Compare`: the bits that are not there cannot change the
outcome). So the symbol found is the one encoded (`FoundBool`, `FoundCdf`), and tell,
which the window relates to the bits used, agrees. The same invariant gives the
asserts of the decoder (`WindowStaysInRange`).

The recursive functions of the model, and its symbols, bits and bytes in sequence, need
induction. The induction theorems of the library take an operator, but that every
set of natural numbers has a least element does not (`Least`); induction over a set
(`Induct`) and functions defined by recursion (`PrimRec`) follow from it.

What the prover cannot do stays with TLC: liveness (CallsReturn, StagesEnd,
GroupEnds, DecodeReturns, CallReturns and the fairness part of the abstract
specifications). Every safety invariant that a passing run checks is also a theorem,
some of them under the condition named above: DecoderRefs' counts for sound streams,
EncTileMT while g_threads does not become less, LrRowsThere for the formats of
UnitsFit, EntropyCoder with zeros behind the bytes and tables that do not increase.

## Not modelled, and what is left

By far the largest part of the library is arithmetic on pixels, tables and search:
predictors, transforms, filters, rate control in floating point, the mode decision
of the encoder. It keeps no state between calls that is not data, and no model
that is shorter than the code would say anything about it. Of the rest:

1. A composition of TileJobsMT and EncTileMT with WorkerSpec, so that the launches of
   the one are steps of the other.
2. `ObuSequence`, with sequence header, operating point, repeated headers and the
   order of tile groups, which nothing checks (`obu.c:359`); `DxIface` around it:
   get_frame, flush, output and grain buffers.
3. `EncoderRefs` and the agreement of encoder and decoder maps; `FrameBufferList`
   (a grown buffer whose allocation fails, `frame_buffers.c:61`).
4. The codec interface and the short algorithms (LEB128, bit I/O, grain table, tile
   layout): sequential code without interplay, most of it with a unit test.
5. An aom_internal_error in a background worker: its macroblock data point to the
   error context of the calling thread (`onyxc_int.h:736`), and what follows is
   undefined.
