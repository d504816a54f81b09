------------------------------ MODULE RefStore ------------------------------
(***************************************************************************)
(* What the reference buffers of the decoder owe the bitstream and the     *)
(* application, without buffers or reference counts: every slot holds the  *)
(* frame that was last stored in it, a stored frame does not change, and   *)
(* the frames shown are handed out as they were decoded until the          *)
(* application takes the next ones.                                        *)
(***************************************************************************)
EXTENDS Integers, Sequences

CONSTANTS NumSlots,   \* REF_FRAMES
          MaxOutput,  \* MAX_NUM_SPATIAL_LAYERS
          OutputAll,  \* output_all_layers
          FrameIds,   \* the frames of the stream
          NoFrame,    \* an empty slot
          Grey        \* the frame of neutral grey that stands for a missing one

VARIABLES slots,      \* the frame in each slot
          out         \* the frames shown, not yet released

avars == <<slots, out>>

Slots == 0..NumSlots - 1

AInit == slots = [i \in Slots |-> NoFrame] /\ out = <<>>

Shown(f) == IF OutputAll THEN Append(out, f) ELSE <<f>>

\* A decoded frame is stored in the slots that it refreshes, and shown or not.
Store == \E f \in FrameIds, refresh \in SUBSET Slots :
           /\ \A i \in Slots : slots[i] # f
           /\ slots' = [i \in Slots |-> IF i \in refresh THEN f ELSE slots[i]]
           /\ out' \in {out, Shown(f)}

\* A stored frame is shown again; a key frame is then stored in every slot.
ShowAgain == \E i \in Slots :
               /\ slots[i] # NoFrame
               /\ slots' \in {slots, [j \in Slots |-> slots[i]]}
               /\ out' = Shown(slots[i])

\* A reference that the stream names and the decoder does not have.
Substitute == \E i \in Slots : /\ slots' = [slots EXCEPT ![i] = Grey]
                               /\ UNCHANGED out

Release == out' = <<>> /\ UNCHANGED slots

ASpec == AInit /\ [][Store \/ ShowAgain \/ Substitute \/ Release]_avars
=============================================================================
