-------------------------- MODULE AVxWorker_proof ---------------------------
(***************************************************************************)
(* Proofs about AVxWorker, for any set of jobs and any number of calls:    *)
(* its safety invariants and the safety part of what WorkerSpec promises.  *)
(***************************************************************************)
EXTENDS AVxWorker, TLAPS

USE DEF Triples, ownerVars, history

\* Initially there is no thread and no job.
LEMMA InitIInv == Init => IInv
<1> SUFFICES ASSUME Init PROVE IInv
  OBVIOUS
<1> USE DEF Init
<1>1. TypeOK
  BY DEF TypeOK
<1>2. StatusInv
  BY DEF StatusInv
<1>3. OwnerInv /\ CountInv
  BY DEF OwnerInv, CountInv
<1>4. QED
  BY <1>1, <1>2, <1>3 DEF IInv

\* Every step of the owner and of the thread keeps the inductive invariant.
LEMMA StepIInv == IInv /\ [Next]_vars => IInv'
<1> SUFFICES ASSUME IInv, [Next]_vars PROVE IInv'
  OBVIOUS
<1> USE WorkerAssumption DEF IInv, TypeOK, StatusInv, OwnerInv, CountInv
<1>1. ASSUME NEW d \in Data, SetArgs(d) PROVE IInv'
  BY <1>1 DEF SetArgs
<1>2. CASE ClearError
  BY <1>2 DEF ClearError
<1>3. CASE ResetSpawn
  BY <1>3 DEF ResetSpawn
<1>4. CASE ResetFails
  BY <1>4 DEF ResetFails
<1>5. CASE ResetLive
  BY <1>5 DEF ResetLive
<1>6. CASE Launch \/ Sync \/ End
  BY <1>6 DEF Launch, Sync, End, Enter
<1>7. CASE Execute
  <2>1. hadError' \in BOOLEAN
    BY <1>7 DEF Execute
  <2>2. /\ UNCHANGED <<impl, status, args, ownerPc, call, synced, threadPc,
                       loaded, job>>
        /\ launched' = launched + 1 /\ ran' = ran + 1 /\ last' = args
        /\ synced
    BY <1>7 DEF Execute
  <2>3. QED
    BY <2>1, <2>2
<1>8. CASE OwnerWaits
  BY <1>8 DEF OwnerWaits, MutexFree
<1>9. CASE OwnerProceeds
  <2> USE <1>9 DEF OwnerProceeds, MutexFree, Requested, SignalThread
  <2>1. TypeOK'
    OBVIOUS
  <2>2. StatusInv'
    OBVIOUS
  <2>3. OwnerInv'
    OBVIOUS
  <2>4. CountInv'
    OBVIOUS
  <2>5. QED
    BY <2>1, <2>2, <2>3, <2>4
<1>10. CASE Join
  BY <1>10 DEF Join
<1>11. CASE ThreadSteps
  <2>1. CASE ThreadWaits \/ ThreadStarts
    BY <2>1 DEF ThreadWaits, ThreadStarts
  <2>2. CASE ThreadFinishes
    BY <2>2 DEF ThreadFinishes, SignalOwner
  <2>3. CASE ThreadExits
    BY <2>3 DEF ThreadExits, SignalOwner
  <2>4. QED
    BY <1>11, <2>1, <2>2, <2>3 DEF ThreadSteps
<1>12. CASE Spurious
  BY <1>12 DEF Spurious
<1>13. CASE UNCHANGED vars
  BY <1>13 DEF vars
<1>14. QED
  BY <1>1, <1>2, <1>3, <1>4, <1>5, <1>6, <1>7, <1>8, <1>9, <1>10, <1>11,
     <1>12, <1>13 DEF Next, OwnerCalls, OwnerSteps

THEOREM Inductive == Spec => []IInv
BY InitIInv, StepIInv, PTL DEF Spec

\* The types of the worker's fields and of the model's program counters.
THEOREM TypeCorrect == Spec => []TypeOK
<1>1. IInv => TypeOK
  BY DEF IInv
<1>2. QED
  BY <1>1, Inductive, PTL

\* One condition variable and one-waiter signals are enough.
THEOREM NoDoubleSleep == Spec => []NeverBothAsleep
<1>1. IInv => NeverBothAsleep
  BY DEF IInv, StatusInv, OwnerInv, NeverBothAsleep
<1>2. QED
  BY <1>1, Inductive, PTL

\* sync() returns only when every launched job has run and none is running.
THEOREM SyncIsComplete == Spec => []SyncedMeansIdle
<1>1. IInv => SyncedMeansIdle
  BY DEF IInv, TypeOK, StatusInv, CountInv, SyncedMeansIdle
<1>2. QED
  BY <1>1, Inductive, PTL

\* A job runs with the arguments it was launched with.
THEOREM ArgsStable == Spec => []JobKeepsItsArgs
<1>1. IInv => JobKeepsItsArgs
  BY DEF IInv, TypeOK, CountInv, JobKeepsItsArgs
<1>2. QED
  BY <1>1, Inductive, PTL

\* end() frees the mutex and condition variable only after the thread is gone.
THEOREM NoOrphanThread == Spec => []ThreadHasImpl
<1>1. IInv => ThreadHasImpl
  BY DEF IInv, StatusInv, ThreadHasImpl
<1>2. QED
  BY <1>1, Inductive, PTL

-----------------------------------------------------------------------------
\* The initial state is one of WorkerSpec's.
LEMMA RefineInit == Init => Abstract!AInit
BY DEF Init, Abstract!AInit, phase

\* Every step is a step of WorkerSpec or leaves its variables alone.
LEMMA RefineStep == IInv /\ [Next]_vars => [Abstract!ANext]_(Abstract!avars)
<1> SUFFICES ASSUME IInv, [Next]_vars
             PROVE  Abstract!ANext \/ UNCHANGED Abstract!avars
  OBVIOUS
<1> USE DEF IInv, TypeOK, StatusInv, OwnerInv, CountInv, Abstract!avars, phase
<1>1. ASSUME NEW d \in Data, SetArgs(d) PROVE Abstract!ANext
  BY <1>1 DEF SetArgs, Abstract!ANext, Abstract!Fill
<1>2. CASE ClearError \/ ResetFails \/ ResetLive \/ Launch \/ Sync \/ End
  BY <1>2 DEF ClearError, ResetFails, ResetLive, Launch, Sync, End, Enter
<1>3. CASE ResetSpawn
  BY <1>3 DEF ResetSpawn, Abstract!ANext, Abstract!Start
<1>4. CASE Execute
  BY <1>4 DEF Execute, Abstract!ANext, Abstract!PerformDirect
<1>5. CASE OwnerProceeds
  BY <1>5 DEF OwnerProceeds, Requested, SignalThread, Abstract!ANext,
              Abstract!Submit, Abstract!Stop
<1>6. CASE OwnerWaits \/ Join
  BY <1>6 DEF OwnerWaits, Join
<1>7. CASE ThreadFinishes
  BY <1>7 DEF ThreadFinishes, Abstract!ANext, Abstract!Perform
<1>8. CASE ThreadWaits \/ ThreadStarts \/ ThreadExits
  BY <1>8 DEF ThreadWaits, ThreadStarts, ThreadExits
<1>9. CASE Spurious
  BY <1>9 DEF Spurious
<1>10. CASE UNCHANGED vars
  BY <1>10 DEF vars
<1>11. QED
  BY <1>1, <1>2, <1>3, <1>4, <1>5, <1>6, <1>7, <1>8, <1>9, <1>10
     DEF Next, OwnerCalls, OwnerSteps, ThreadSteps

\* The worker implements the safety part of WorkerSpec.
THEOREM Implements ==
  Spec => Abstract!AInit /\ [][Abstract!ANext]_(Abstract!avars)
BY RefineInit, RefineStep, Inductive, PTL DEF Spec
=============================================================================
