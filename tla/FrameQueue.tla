----------------------------- MODULE FrameQueue ------------------------------
(***************************************************************************)
(* What the lookahead of the encoder owes its callers, without a ring      *)
(* buffer: frames come out in the order in which they were pushed, a frame *)
(* that is taken out stays readable until the next one is, and unless it   *)
(* is drained the queue keeps as many frames as it is deep.  A push that   *)
(* fails half-way leaves an earlier frame in the queue a second time.      *)
(***************************************************************************)
EXTENDS Naturals, Sequences

CONSTANTS Frames,  \* the frames there may be, numbers from one on
          Depth    \* how many frames the queue holds

VARIABLES queue,   \* the frames in it, oldest first
          last     \* the frame taken out last; 0 if there is none

qvars == <<queue, last>>

QInit == queue = <<>> /\ last = 0

Push == /\ Len(queue) < Depth
        /\ \E f \in Frames \cup {0} : queue' = Append(queue, f)
        /\ UNCHANGED last

Pop == /\ queue # <<>>
       /\ last' = Head(queue) /\ queue' = Tail(queue)

QSpec == QInit /\ [][Push \/ Pop]_qvars
=============================================================================
