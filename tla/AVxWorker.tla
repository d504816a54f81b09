----------------------------- MODULE AVxWorker ------------------------------
(***************************************************************************)
(* aom_util/aom_thread.c: one AVxWorker, the thread that owns it and the   *)
(* thread it spawns.  Both sides share status_ and one condition variable, *)
(* which either may wait on; pthread_cond_signal wakes at most one waiter. *)
(*                                                                         *)
(* A step is a stretch of code that runs under impl_->mutex_ or touches    *)
(* nothing shared.  The thread keeps the mutex while it runs the hook, so  *)
(* the mutex is free exactly when the thread is not in "exec": every other *)
(* critical section is one step.  A thread that was woken has to take the  *)
(* mutex and test status_ again, as one that arrives does: both are in     *)
(* "lock".                                                                 *)
(*                                                                         *)
(* The owner is a client that keeps to the contract of aom_thread.h: it    *)
(* writes hook, data1, data2 and had_error only when no launched job is    *)
(* outstanding, which is what `synced' remembers.                          *)
(***************************************************************************)
EXTENDS Naturals

CONSTANTS Data,      \* values of the triple (hook, data1, data2)
          NoHook,    \* the triple with a NULL hook, set by init()
          MaxCalls   \* bound: how often the owner calls launch() and execute()

ASSUME WorkerAssumption == NoHook \notin Data /\ MaxCalls \in Nat

VARIABLES impl,      \* impl_ != NULL
          status,    \* status_
          args,      \* hook, data1, data2
          hadError,  \* had_error
          ownerPc,   \* where the owner is in change_state()
          call,      \* the call the owner is in
          synced,    \* no launch since the owner's last sync()
          threadPc,  \* where the spawned thread is in thread_loop()
          loaded,    \* had_error as loaded before the hook was called
          job,       \* history: the triple of the latest launch
          launched,  \* history: effective launch() and execute() calls
          ran,       \* history: calls of execute()
          last       \* history: the triple of the latest of them

vars == <<impl, status, args, hadError, ownerPc, call, synced, threadPc,
          loaded, job, launched, ran, last>>

ownerVars == <<args, call, synced, job, launched>>
history   == <<ran, last>>

Triples == Data \cup {NoHook}

TypeOK == /\ impl \in BOOLEAN
          /\ status \in {"NOT_OK", "OK", "WORK"}
          /\ args \in Triples /\ job \in Triples /\ last \in Triples
          /\ hadError \in BOOLEAN /\ loaded \in BOOLEAN
          /\ ownerPc \in {"idle", "lock", "wait", "join"}
          /\ call \in {"none", "launch", "sync", "reset", "end"}
          /\ synced \in BOOLEAN
          /\ threadPc \in {"none", "lock", "wait", "exec", "done"}
          /\ launched \in Nat /\ ran \in Nat

\* init(): memset and status_ = NOT_OK.
Init == /\ impl = FALSE /\ status = "NOT_OK"
        /\ args = NoHook /\ job = NoHook /\ last = NoHook
        /\ hadError = FALSE /\ loaded = FALSE
        /\ ownerPc = "idle" /\ call = "none" /\ synced = TRUE
        /\ threadPc = "none"
        /\ launched = 0 /\ ran = 0

-----------------------------------------------------------------------------
MutexFree == threadPc # "exec"

\* Defects: the signal is forgotten.
NoSignalThread == UNCHANGED threadPc
NoSignalOwner  == UNCHANGED ownerPc

\* pthread_cond_signal() by one side: of the other side, if it waits.
SignalThread == threadPc' = IF threadPc = "wait" THEN "lock" ELSE threadPc
SignalOwner  == ownerPc'  = IF ownerPc = "wait" THEN "lock" ELSE ownerPc

\* Defect: the name of the call is passed on for the status it asks for.
CallAsStatus == call

\* The status change_state() is asked for.
Requested == CASE call = "launch" -> "WORK"
               [] call = "end"    -> "NOT_OK"
               [] OTHER           -> "OK"

-----------------------------------------------------------------------------
(* The owner.                                                              *)

\* Defect: the triple is rewritten without the sync() that precedes it.
SetArgsUnsynced(d) ==
              /\ ownerPc = "idle"
              /\ args' = d
              /\ UNCHANGED <<impl, status, hadError, ownerPc, call, synced,
                             threadPc, loaded, job, launched, history>>

\* worker->hook, data1 and data2, which the callers fill in after a sync().
SetArgs(d) == /\ ownerPc = "idle" /\ synced
              /\ args' = d
              /\ UNCHANGED <<impl, status, hadError, ownerPc, call, synced,
                             threadPc, loaded, job, launched, history>>

\* worker->had_error = 0 before a launch or an execute.
ClearError == /\ ownerPc = "idle" /\ synced
              /\ hadError' = FALSE
              /\ UNCHANGED <<impl, status, ownerPc, threadPc, loaded,
                             ownerVars, history>>

\* reset() of a worker without a thread.  The thread is created with the mutex
\* held, so it first runs when status_ is OK.
ResetSpawn == /\ ownerPc = "idle" /\ status = "NOT_OK"
              /\ hadError' = FALSE
              /\ impl' = TRUE /\ status' = "OK" /\ threadPc' = "lock"
              /\ UNCHANGED <<ownerPc, loaded, ownerVars, history>>

\* calloc, mutex_init, cond_init or pthread_create fails: impl_ is freed.
ResetFails == /\ ownerPc = "idle" /\ status = "NOT_OK"
              /\ hadError' = FALSE
              /\ UNCHANGED <<impl, status, ownerPc, threadPc, loaded,
                             ownerVars, history>>

\* reset() of a live worker clears had_error and reads status_ without the
\* mutex, and goes on to sync() only when it reads WORK.
ResetLive == /\ ownerPc = "idle" /\ status # "NOT_OK"
             /\ hadError' = FALSE
             /\ IF status = "WORK"
                THEN ownerPc' = "lock" /\ call' = "reset" /\ UNCHANGED synced
                ELSE UNCHANGED <<ownerPc, call>> /\ synced' = TRUE
             /\ UNCHANGED <<impl, status, args, threadPc, loaded, job,
                            launched, history>>

\* A call that goes through change_state(); it returns at once without impl_.
Enter(c) == /\ ownerPc = "idle"
            /\ IF impl
               THEN ownerPc' = "lock" /\ call' = c
               ELSE UNCHANGED <<ownerPc, call>>
            /\ UNCHANGED <<impl, status, args, hadError, synced, threadPc,
                           loaded, job, launched, history>>

Launch == launched < MaxCalls /\ Enter("launch")
Sync   == Enter("sync")
End    == Enter("end")

\* execute(): the owner calls the hook itself, which nothing keeps from
\* overlapping a launched job but the owner.
Execute == /\ ownerPc = "idle" /\ synced /\ launched < MaxCalls
           /\ \E ok \in IF args = NoHook THEN {TRUE} ELSE BOOLEAN :
                hadError' = IF ok THEN hadError ELSE TRUE
           /\ launched' = launched + 1 /\ ran' = ran + 1 /\ last' = args
           /\ UNCHANGED <<impl, status, args, ownerPc, call, synced, threadPc,
                          loaded, job>>

\* change_state() under the mutex: wait while the thread is busy ...
OwnerWaits == /\ ownerPc = "lock" /\ MutexFree /\ status = "WORK"
              /\ ownerPc' = "wait"
              /\ UNCHANGED <<impl, status, hadError, threadPc, loaded,
                             ownerVars, history>>

\* ... and then hand over the new status.
OwnerProceeds ==
  /\ ownerPc = "lock" /\ MutexFree /\ status # "WORK"
  /\ IF status = "OK" /\ Requested # "OK"
     THEN status' = Requested /\ SignalThread
     ELSE UNCHANGED <<status, threadPc>>
  /\ ownerPc' = IF call = "end" THEN "join" ELSE "idle"
  /\ call' = IF call = "end" THEN "end" ELSE "none"
  /\ synced' = IF call = "launch" THEN FALSE ELSE TRUE
  /\ IF call = "launch"
     THEN job' = args /\ launched' = launched + 1
     ELSE UNCHANGED <<job, launched>>
  /\ UNCHANGED <<impl, args, hadError, loaded, history>>

\* Defect: end() without pthread_join.
JoinTooEarly ==
        /\ ownerPc = "join"
        /\ impl' = FALSE
        /\ ownerPc' = "idle" /\ call' = "none"
        /\ UNCHANGED <<status, args, hadError, synced, threadPc, loaded, job,
                       launched, history>>

\* end(): pthread_join and free impl_.
Join == /\ ownerPc = "join" /\ threadPc = "done"
        /\ threadPc' = "none" /\ impl' = FALSE
        /\ ownerPc' = "idle" /\ call' = "none"
        /\ UNCHANGED <<status, args, hadError, synced, loaded, job, launched,
                       history>>

-----------------------------------------------------------------------------
(* The spawned thread.                                                     *)

ThreadWaits == /\ threadPc = "lock" /\ status = "OK"
               /\ threadPc' = "wait"
               /\ UNCHANGED <<impl, status, hadError, ownerPc, loaded,
                              ownerVars, history>>

\* Defect: status_ is set back before the hook is called.
ThreadStartsIdle ==
                /\ threadPc = "lock" /\ status = "WORK"
                /\ threadPc' = "exec" /\ status' = "OK"
                /\ loaded' = hadError
                /\ UNCHANGED <<impl, hadError, ownerPc, ownerVars, history>>

\* execute() in the thread: the hook is called, the mutex stays locked.
ThreadStarts == /\ threadPc = "lock" /\ status = "WORK"
                /\ threadPc' = "exec"
                /\ loaded' = hadError
                /\ UNCHANGED <<impl, status, hadError, ownerPc, ownerVars,
                               history>>

\* The hook returns.  had_error |= !hook(...): the old value may have been loaded
\* before the hook ran or after it, which differs when reset() cleared it
\* meanwhile.  The hook uses data1 and data2 up to here.
ThreadFinishes ==
  /\ threadPc = "exec"
  /\ \E ok \in IF args = NoHook THEN {TRUE} ELSE BOOLEAN :
       \E old \in {loaded, hadError} : hadError' = IF ok THEN old ELSE TRUE
  /\ status' = "OK" /\ ran' = ran + 1 /\ last' = args
  /\ SignalOwner
  /\ threadPc' = "lock"
  /\ UNCHANGED <<impl, loaded, ownerVars>>

ThreadExits == /\ threadPc = "lock" /\ status = "NOT_OK"
               /\ threadPc' = "done"
               /\ SignalOwner
               /\ UNCHANGED <<impl, status, hadError, loaded, ownerVars,
                              history>>

\* Defect: `if' for `while' around the owner's wait.
SpuriousReturns ==
            /\ ownerPc = "wait" /\ call = "sync"
            /\ ownerPc' = "idle" /\ call' = "none" /\ synced' = TRUE
            /\ UNCHANGED <<impl, status, args, hadError, threadPc, loaded,
                           job, launched, history>>

\* pthread_cond_wait may return without a signal.
Spurious == /\ \/ /\ threadPc = "wait" /\ threadPc' = "lock"
                  /\ UNCHANGED ownerPc
               \/ /\ ownerPc = "wait" /\ ownerPc' = "lock"
                  /\ UNCHANGED threadPc
            /\ UNCHANGED <<impl, status, hadError, loaded, ownerVars, history>>

-----------------------------------------------------------------------------
OwnerCalls == \/ \E d \in Data : SetArgs(d)
              \/ ClearError \/ ResetSpawn \/ ResetFails \/ ResetLive
              \/ Launch \/ Sync \/ End \/ Execute
OwnerSteps == OwnerWaits \/ OwnerProceeds \/ Join
ThreadSteps == ThreadWaits \/ ThreadStarts \/ ThreadFinishes \/ ThreadExits

Next == OwnerCalls \/ OwnerSteps \/ ThreadSteps \/ Spurious

\* Nothing obliges the owner to call; a call once made, and the thread, run
\* on whenever they can, and hooks return.
Fairness == WF_vars(ThreadSteps) /\ WF_vars(OwnerSteps)

Spec == Init /\ [][Next]_vars /\ Fairness

-----------------------------------------------------------------------------
(* Properties.                                                             *)

\* Owner and thread never sleep on condition_ at the same time: one signal,
\* which wakes one waiter, is then enough everywhere (thread_loop() and
\* change_state() share one condition variable and never broadcast).
NeverBothAsleep == ~(ownerPc = "wait" /\ threadPc = "wait")

\* When sync() has returned nothing runs in the background: every job that
\* was launched has run, and the hook's data may be touched again.
SyncedMeansIdle == (ownerPc = "idle" /\ synced) =>
                     /\ status # "WORK" /\ threadPc # "exec"
                     /\ ran = launched

\* A job outstanding runs with the arguments it was launched with.
JobKeepsItsArgs == (status = "WORK") => (args = job /\ ran + 1 = launched)

\* end() frees impl_ only when the thread is past its last use of it, and no
\* thread is left without one (a second reset() would spawn another).
ThreadHasImpl == (threadPc # "none") => impl

\* The inductive invariant behind them: who may be where for each status_.
StatusInv == /\ impl <=> threadPc # "none"
             /\ status = "NOT_OK" => threadPc \in {"none", "lock", "done"}
             /\ status = "OK" => threadPc \in {"lock", "wait"}
             /\ status = "WORK" => threadPc \in {"lock", "exec"}
OwnerInv  == /\ ownerPc = "idle" <=> call = "none"
             /\ ownerPc = "wait" => status = "WORK"
             /\ ownerPc \in {"lock", "wait"} => status # "NOT_OK"
             /\ ownerPc = "join" <=> (status = "NOT_OK" /\ impl)
             /\ ownerPc = "join" => call = "end"
CountInv  == /\ synced => status # "WORK"
             /\ status = "WORK" => (args = job /\ launched = ran + 1)
             /\ status # "WORK" => launched = ran

\* What status_ says of owner and thread at every point of aom_thread.c: the
\* inductive invariant behind the properties.
IInv == TypeOK /\ StatusInv /\ OwnerInv /\ CountInv

\* change_state() and end() return: no lost wakeup leaves the owner asleep.
CallsReturn == (ownerPc # "idle") ~> (ownerPc = "idle")

\* What sync(), launch(), execute() and end() promise (WorkerSpec).
phase == CASE status = "NOT_OK" -> "down"
           [] status = "OK"     -> "idle"
           [] status = "WORK"   -> "busy"

Abstract == INSTANCE WorkerSpec
WorkerRefinement == Abstract!ASpec

=============================================================================
