---------------------------- MODULE MCAVxWorker -----------------------------
(***************************************************************************)
(* One worker, the thread that owns it, two different jobs.  The inductive *)
(* invariant of AVxWorker_proof is checked here as an invariant too.       *)
(***************************************************************************)
EXTENDS AVxWorker
=============================================================================
