----------------------------- MODULE WorkerSpec -----------------------------
(***************************************************************************)
(* What an AVxWorker (aom_util/aom_thread.h) promises to the code that     *)
(* uses it, without its thread, mutex and condition variable: a slot for   *)
(* one job at a time.  The owner starts the worker, fills in the job       *)
(* (hook, data1, data2), launches it and later asks for its result; the    *)
(* job runs exactly once, with the arguments it was launched with.         *)
(***************************************************************************)
EXTENDS Naturals

CONSTANTS Data,    \* the values of the triple (hook, data1, data2)
          NoHook   \* the triple whose hook is NULL (memset in init())

VARIABLES phase,   \* "down", "idle" or "busy"
          args,    \* the triple the owner has written
          job,     \* the triple of the latest launch
          ran,     \* how many times execute() was called
          last     \* the triple of the latest call of execute()

avars == <<phase, args, job, ran, last>>

ATypeOK == /\ phase \in {"down", "idle", "busy"}
           /\ {args, job, last} \subseteq Data \cup {NoHook}
           /\ ran \in Nat

AInit == /\ phase = "down"
         /\ args = NoHook /\ job = NoHook /\ last = NoHook
         /\ ran = 0

Start == /\ phase = "down"
         /\ phase' = "idle"
         /\ UNCHANGED <<args, job, ran, last>>

Stop == /\ phase = "idle"
        /\ phase' = "down"
        /\ UNCHANGED <<args, job, ran, last>>

Fill(d) == /\ phase # "busy"
           /\ args' = d
           /\ UNCHANGED <<phase, job, ran, last>>

Submit == /\ phase = "idle"
          /\ phase' = "busy"
          /\ job' = args
          /\ UNCHANGED <<args, ran, last>>

\* The job runs with what it was launched with, whatever args holds by then.
Perform == /\ phase = "busy"
           /\ phase' = "idle"
           /\ ran' = ran + 1
           /\ last' = job
           /\ UNCHANGED <<args, job>>

\* execute(): the owner calls the hook itself.
PerformDirect == /\ phase # "busy"
                 /\ ran' = ran + 1
                 /\ last' = args
                 /\ UNCHANGED <<phase, args, job>>

ANext == \/ Start \/ Stop \/ Submit \/ Perform \/ PerformDirect
         \/ \E d \in Data : Fill(d)

ASpec == AInit /\ [][ANext]_avars /\ WF_avars(Perform)

=============================================================================
