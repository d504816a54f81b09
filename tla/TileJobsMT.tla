----------------------------- MODULE TileJobsMT ------------------------------
(***************************************************************************)
(* The tiles of a frame decoded by several threads: decode_tiles_mt and    *)
(* tile_worker_hook (decodeframe.c), as av1_decode_tg_tiles_and_wrapup     *)
(* calls it for each tile group, with the error handler of                 *)
(* av1_receive_compressed_data (decoder.c).                                *)
(*                                                                         *)
(* A launch and a sync() are those of WorkerSpec: the hook runs once, and  *)
(* sync() waits for it.  The calling thread is the last worker of a group. *)
(* Jobs are sorted by size, which the stream chooses, so that any job may  *)
(* be the next.  Tile groups come as the stream says; nothing checks that  *)
(* they follow each other.                                                 *)
(*                                                                         *)
(* Left out: large-scale tiles, and aom_internal_error() in a background   *)
(* worker, which would longjmp() to the stack of another thread.           *)
(***************************************************************************)
EXTENDS Integers

CONSTANTS MaxThreads,  \* max_threads
          RowMt,       \* row_mt: groups of one tile go to the workers, too
          Failures,    \* allocations and the creation of threads may fail
          MaxTiles,    \* bound: tiles of a frame
          MaxGroups,   \* bound: tile groups of a frame
          MaxFrames    \* bound: frames

ASSUME TileAssumption == /\ MaxThreads \in Nat \ {0, 1}
                         /\ RowMt \in BOOLEAN /\ Failures \in BOOLEAN
                         /\ MaxTiles \in Nat \ {0}
                         /\ MaxGroups \in Nat /\ MaxFrames \in Nat

VARIABLES phase,     \* where the calling thread is
          tiles,     \* tile_rows * tile_cols
          damaged,   \* the tiles whose data does not decode
          last,      \* end_tile of the group
          todo,      \* job_queue from jobs_dequeued on
          nw,        \* num_workers of the group
          started,   \* workers of the group launched so far
          pc,        \* where each worker is
          tile,      \* cur_job_info of each worker
          corrupted, \* the workers with td->xd.corrupted set
          hadError,  \* the workers with had_error set
          made,      \* num_workers of AV1Decoder: workers created
          layout,    \* alloc_tile_rows and alloc_tile_cols, 0 for none
          queue,     \* the jobs that job_queue has room for, 0 for a null pointer
          verdict,   \* what became of the frame
          groups,    \* history: groups of the frame
          frames,    \* history: frames
          asked,     \* history: how many groups named a tile ...
          times      \* ... and how often it was decoded

frame   == <<tiles, damaged, groups, frames>>
jobs    == <<last, nw, layout, queue>>
threads == <<pc, tile, corrupted, hadError>>
vars == <<phase, frame, jobs, todo, started, threads, made, verdict, asked, times>>

Workers == 1..MaxThreads
TileIds == 0..MaxTiles - 1

Init == /\ phase = "ready" /\ tiles = 1 /\ damaged = {} /\ last = 0 /\ todo = {}
        /\ nw = 1 /\ started = 0
        /\ pc = [w \in Workers |-> "idle"] /\ tile = [w \in Workers |-> 0]
        /\ corrupted = {} /\ hadError = {}
        /\ made = 0 /\ layout = 0 /\ queue = 0
        /\ verdict = "none" /\ groups = 0 /\ frames = 0
        /\ asked = [t \in TileIds |-> 0] /\ times = [t \in TileIds |-> 0]

-----------------------------------------------------------------------------
(* The frame.                                                              *)

\* A frame header: it says how many tiles there are.
StartFrame(n, bad) ==
  /\ phase = "ready" /\ frames < MaxFrames
  /\ frames' = frames + 1 /\ tiles' = n /\ damaged' = bad /\ groups' = 0
  /\ asked' = [t \in TileIds |-> 0] /\ times' = [t \in TileIds |-> 0]
  /\ verdict' = "none" /\ phase' = "groups"
  /\ UNCHANGED <<jobs, todo, started, threads, made>>

\* The handler has let the workers finish, and the frame is lost.
Rejected == phase' = "ready" /\ verdict' = "rejected"

\* The group was decoded; the one with the last tile ends the frame.
Passed(end) == IF end = tiles - 1 THEN phase' = "ready" /\ verdict' = "accepted"
                                  ELSE phase' = "groups" /\ UNCHANGED verdict

\* Data without further tile groups, or something else that is wrong with it.
NoMoreGroups == /\ phase = "groups"
                /\ \/ Rejected
                   \/ phase' = "ready" /\ UNCHANGED verdict
                /\ UNCHANGED <<frame, jobs, todo, started, threads, made, asked,
                               times>>

Group(s, e) == s..e
Threaded(s, e) == RowMt \/ s < e
ReadsGroup(s, e) == phase = "groups" /\ groups < MaxGroups /\ s <= e /\ e < tiles
Counted(f, S) == [t \in TileIds |-> IF t \in S THEN f[t] + 1 ELSE f[t]]

\* xd.corrupted of a worker after a tile.
Marks(w, t) == corrupted' = IF t \in damaged THEN corrupted \cup {w}
                                             ELSE corrupted \ {w}

\* A tile that is damaged may be left before the flag is set.
Leaves(w) == corrupted' \in {corrupted \cup {w}, corrupted \ {w}}

\* decode_tiles(): the calling thread decodes the only tile of the group, with
\* the thread data that the last worker has when all of them are needed.
SingleTile(t) ==
  /\ ReadsGroup(t, t) /\ ~Threaded(t, t)
  /\ groups' = groups + 1
  /\ asked' = Counted(asked, {t}) /\ times' = Counted(times, {t})
  /\ Marks(MaxThreads, t) \/ (t \in damaged /\ Leaves(MaxThreads))
  /\ IF t \in damaged THEN Rejected ELSE Passed(t)
  /\ UNCHANGED <<tiles, damaged, frames, jobs, todo, started, pc, tile, hadError,
                 made>>

-----------------------------------------------------------------------------
(* decode_tiles_mt().                                                      *)

\* num_workers of a group.
NumWorkers(s, e) == IF e - s + 1 < MaxThreads THEN e - s + 1 ELSE MaxThreads

\* The workers exist, or are created now.
Staffed == made \in {0, MaxThreads}

\* The workers, with their data, have become ready for the group, and the jobs
\* are in the queue.
StartGroup(s, e) ==
  /\ ReadsGroup(s, e) /\ Threaded(s, e) /\ Staffed
  /\ layout = tiles => queue > 0
  /\ made' = MaxThreads
  /\ layout' = tiles /\ queue' = tiles
  /\ groups' = groups + 1
  /\ last' = e /\ todo' = Group(s, e)
  /\ nw' = NumWorkers(s, e)
  /\ started' = 0
  /\ asked' = Counted(asked, Group(s, e))
  /\ phase' = "launch"
  /\ UNCHANGED <<tiles, damaged, frames, threads, verdict, times>>

\* A worker is counted before its thread and its data exist.
CreateFails == /\ Failures
               /\ phase = "groups" /\ made = 0
               /\ made' \in 0..MaxThreads - 1
               /\ Rejected
               /\ UNCHANGED <<frame, jobs, todo, started, threads, asked, times>>

\* The workers exist, and then the tile sizes of the group are wrong, or there is
\* no memory for the buffers of a worker or for the tiles.
SetupFails == /\ phase = "groups" /\ Staffed
              /\ made' = MaxThreads
              /\ Rejected
              /\ UNCHANGED <<frame, jobs, todo, started, threads, asked, times>>

\* The new layout is recorded before the allocations.
AllocFails == /\ Failures
              /\ phase = "groups" /\ layout # tiles /\ Staffed
              /\ made' = MaxThreads
              /\ layout' = tiles /\ queue' = 0
              /\ Rejected
              /\ UNCHANGED <<frame, last, nw, todo, started, threads, asked, times>>

\* What follows after these failures is undefined: data of workers that were
\* never created is used ...
UsesNoWorkers(s, e) ==
  /\ ReadsGroup(s, e) /\ Threaded(s, e) /\ ~Staffed
  /\ phase' = "no workers"
  /\ UNCHANGED <<frame, jobs, todo, started, threads, made, verdict, asked, times>>

\* ... or jobs are stored through a null pointer.
UsesNoQueue(s, e) ==
  /\ ReadsGroup(s, e) /\ Threaded(s, e) /\ Staffed
  /\ layout = tiles /\ queue = 0
  /\ phase' = "no queue"
  /\ UNCHANGED <<frame, jobs, todo, started, threads, made, verdict, asked, times>>

\* Defect: the loop over the workers goes one too far.
LaunchOneMore == /\ phase = "launch" /\ started <= nw
                 /\ started' = started + 1
                 /\ pc' = [pc EXCEPT ![started + 1] = "take"]
                 /\ hadError' = hadError \ {started + 1}
                 /\ UNCHANGED <<phase, frame, jobs, todo, tile, corrupted, made,
                                verdict, asked, times>>

\* The next worker is launched; the last one is executed.
Launch == /\ phase = "launch" /\ started < nw
          /\ started' = started + 1
          /\ pc' = [pc EXCEPT ![started + 1] = "take"]
          /\ hadError' = hadError \ {started + 1}
          /\ UNCHANGED <<phase, frame, jobs, todo, tile, corrupted, made, verdict,
                         asked, times>>

\* Defect: the flag of the last worker is left out.
SpoiltFew == \E w \in 1..nw - 1 : w \in hadError

\* The flags that the workers leave, merged.
Spoilt == \E w \in 1..nw : w \in hadError

\* sync() on every worker, and the verdict on the group.
Merge == /\ phase = "launch" /\ started = nw
         /\ \A w \in 1..nw : pc[w] = "idle"
         /\ IF Spoilt THEN Rejected ELSE Passed(last)
         /\ UNCHANGED <<frame, jobs, todo, started, threads, made, asked, times>>

\* Defect: no sync() in the handler.
HandlerHurries == /\ phase = "handler"
                  /\ Rejected
                  /\ UNCHANGED <<frame, jobs, todo, started, threads, made, asked,
                                 times>>

\* The error handler synchronises all threads.
Handler == /\ phase = "handler"
           /\ \A w \in 1..made : pc[w] = "idle"
           /\ Rejected
           /\ UNCHANGED <<frame, jobs, todo, started, threads, made, asked, times>>

-----------------------------------------------------------------------------
(* tile_worker_hook().                                                     *)

\* Defect: the job stays in the queue.
TakesTileOnly(w, t) == /\ tile' = [tile EXCEPT ![w] = t]
                       /\ UNCHANGED todo

\* get_dec_job_info(): a job leaves the queue.
TakesTile(w, t) == /\ todo' = todo \ {t}
                   /\ tile' = [tile EXCEPT ![w] = t]

\* A worker without a stain takes a job.
Take(w) == /\ pc[w] = "take" /\ w \notin corrupted
           /\ \E t \in todo : TakesTile(w, t)
           /\ pc' = [pc EXCEPT ![w] = "tile"]
           /\ UNCHANGED <<phase, frame, jobs, started, corrupted, hadError, made,
                          verdict, asked, times>>

\* The hook returns !corrupted.
Returns(w) == /\ pc' = [pc EXCEPT ![w] = "idle"]
              /\ hadError' = IF w \in corrupted THEN hadError \cup {w} ELSE hadError
              /\ UNCHANGED <<phase, frame, jobs, started, corrupted, tile, made,
                             verdict, asked, times>>

\* No job is left.
Empties(w) == /\ pc[w] = "take" /\ todo = {}
              /\ Returns(w)
              /\ UNCHANGED todo

\* Defect: the worker waits for the stain to go away.
DropsNothing(w) == pc[w] = "take" /\ w \in corrupted /\ UNCHANGED vars

\* A worker that has met a damaged tile drops the job it gets and returns.
Drops(w) == /\ pc[w] = "take" /\ w \in corrupted
            /\ \E t \in todo : todo' = todo \ {t}
            /\ Returns(w)

\* decode_tile().
Decode(w) == /\ pc[w] = "tile"
             /\ times' = Counted(times, {tile[w]})
             /\ Marks(w, tile[w])
             /\ pc' = [pc EXCEPT ![w] = "take"]
             /\ UNCHANGED <<phase, frame, jobs, todo, started, tile, hadError, made,
                            verdict, asked>>

\* A damaged tile makes the calling thread leave for the handler.
Jumps == /\ phase = "launch" /\ started = nw
         /\ pc[nw] = "tile" /\ tile[nw] \in damaged
         /\ pc' = [pc EXCEPT ![nw] = "idle"]
         /\ Leaves(nw)
         /\ phase' = "handler"
         /\ UNCHANGED <<frame, jobs, todo, started, tile, hadError, made, verdict,
                        asked, times>>

-----------------------------------------------------------------------------
Worker(w) == Take(w) \/ Empties(w) \/ Drops(w) \/ Decode(w)

Groups == \E s, e \in TileIds : \/ StartGroup(s, e)
                                \/ UsesNoWorkers(s, e) \/ UsesNoQueue(s, e)

Caller == Launch \/ Merge \/ Handler

Next == \/ \E n \in 1..MaxTiles : \E bad \in SUBSET (0..n - 1) : StartFrame(n, bad)
        \/ \E t \in TileIds : SingleTile(t)
        \/ Groups \/ NoMoreGroups \/ CreateFails \/ SetupFails \/ AllocFails
        \/ Caller \/ Jumps
        \/ \E w \in Workers : Worker(w)

\* Threads run on once launched, and the caller does until the group is done.
Fairness == WF_vars(Caller) /\ \A w \in Workers : WF_vars(Worker(w))

Spec == Init /\ [][Next]_vars /\ Fairness

-----------------------------------------------------------------------------
(* Properties.                                                             *)

TypeOK ==
  /\ phase \in {"ready", "groups", "launch", "handler", "no workers", "no queue"}
  /\ tiles \in 1..MaxTiles /\ damaged \subseteq TileIds
  /\ last \in 0..tiles - 1 \/ phase # "launch"
  /\ todo \subseteq TileIds
  /\ nw \in Workers /\ started \in 0..nw
  /\ pc \in [Workers -> {"idle", "take", "tile"}] /\ tile \in [Workers -> TileIds]
  /\ corrupted \subseteq Workers /\ hadError \subseteq Workers
  /\ made \in 0..MaxThreads
  /\ layout \in 0..MaxTiles /\ queue \in 0..MaxTiles
  /\ verdict \in {"none", "accepted", "rejected"}
  /\ groups \in Nat /\ frames \in Nat
  /\ asked \in [TileIds -> Nat] /\ times \in [TileIds -> Nat]

\* No tile is decoded more often than the tile groups name it: no two threads
\* take the same job, whatever became of the group.
TilesOnce == \A t \in TileIds : times[t] <= asked[t]

\* A frame is accepted only if every tile that its groups name has been decoded
\* and none of them was damaged: no error of a thread gets lost, and no job that
\* a worker in error dropped is taken for done.
AcceptedIsDecoded ==
  verdict = "accepted" =>
    \A t \in TileIds : times[t] = asked[t] /\ (t \in damaged => asked[t] = 0)

\* When the call has returned, also through the error handler, no worker is at
\* work any more: the next frame may reallocate what they use.
NobodyWorksOn == phase \in {"ready", "groups"} => \A w \in Workers : pc[w] = "idle"

(* The inductive invariant behind them.                                    *)

\* How often tile t is in the queue or with a worker.
InQueue(t) == IF t \in todo THEN 1 ELSE 0
Holds(w, t) == pc[w] = "tile" /\ tile[w] = t
InHands(t) == IF \E w \in Workers : Holds(w, t) THEN 1 ELSE 0

\* A worker of the group has met a damaged tile, or dropped a job.
Stained == \E w \in 1..started : w \in hadError \/ (w \in corrupted /\ pc[w] # "idle")

Open == phase = "launch"

\* Workers are busy only in a group, and only those launched.
BusyInv == /\ phase \in {"ready", "groups", "no workers", "no queue"} =>
                \A w \in Workers : pc[w] = "idle"
           /\ \A w \in Workers : pc[w] # "idle" => w <= started
           /\ \A w \in Workers : pc[w] = "tile" => w \notin corrupted
           /\ phase \in {"launch", "handler"} => made = MaxThreads

\* A tile is in one place, and the queue has what the group named and is not yet
\* decoded, or taken, or dropped.
PlaceInv == /\ \A v, w \in Workers, t \in TileIds :
                 Holds(v, t) /\ Holds(w, t) => v = w
            /\ \A w \in Workers, t \in TileIds : Holds(w, t) => t \notin todo

\* The books balance: exactly, while nothing has gone wrong.
BooksInv ==
  /\ \A t \in TileIds :
       IF phase \in {"launch", "handler"}
       THEN times[t] + InQueue(t) + InHands(t) <= asked[t]
       ELSE times[t] <= asked[t]
  /\ Open /\ ~Stained =>
       \A t \in TileIds : times[t] + InQueue(t) + InHands(t) = asked[t]
  /\ phase = "groups" => \A t \in TileIds : times[t] = asked[t]

\* No damaged tile is decoded without a stain.
DamageInv ==
  /\ Open /\ ~Stained => \A t \in damaged : times[t] = 0
  /\ phase = "groups" => \A t \in damaged : times[t] = 0

\* A worker that returns without an error leaves an empty queue.
EmptyInv == Open => \A w \in 1..started : pc[w] = "idle" /\ w \notin hadError => todo = {}

\* A verdict is one on the last frame.
VerdictInv == verdict = "accepted" => phase = "ready"

\* Every job of a group is in the queue, in one worker's hands, dropped or done,
\* and every error has left its stain: the inductive invariant behind the
\* properties.
IInv == /\ TypeOK /\ BusyInv /\ PlaceInv /\ BooksInv /\ DamageInv /\ EmptyInv
        /\ VerdictInv /\ AcceptedIsDecoded

\* The group ends: no thread waits for another one.
GroupEnds == (phase \in {"launch", "handler"}) ~> (phase \in {"ready", "groups"})

\* AOM_CODEC_CORRUPT_FRAME says that decoding may go on after it: then a group
\* is rejected only for a damaged tile of its own frame.
OwnErrorsOnly == [][(phase = "launch" /\ phase' = "ready" /\ verdict' = "rejected")
                      => \E t \in damaged : asked[t] > 0]_vars
=============================================================================
