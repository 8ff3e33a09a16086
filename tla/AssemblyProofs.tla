--------------------------- MODULE AssemblyProofs ---------------------------
(***************************************************************************)
(* Theorems about the assembly: the worker side (AssemblyWorker), for any  *)
(* number of workers and events, any lease length and any number of        *)
(* faults; and the runs (AutoAssembly), for any stream, any seeds and any  *)
(* number of runners.                                                      *)
(***************************************************************************)
EXTENDS AssemblyWorker, AutoAssembly, TLAPS

(* ---- the queue, the lease and the worker processes ----------------------- *)
(* Every step keeps the types: one step of the proof per action. *)
LEMMA TypeStep == WorkerTypeOK /\ [WorkerNext]_assemblyVars => WorkerTypeOK'
<1> SUFFICES ASSUME WorkerTypeOK, [WorkerNext]_assemblyVars PROVE WorkerTypeOK'
  OBVIOUS
<1> USE LeaseTtlAssumption, EventsAssumption, NamesAreNotWorkers
        DEF WorkerTypeOK, QueueTypeOK, EventStates, WorkerStates, MoveTo
<1>1. ASSUME NEW e \in Arrivals, StoreEvent(e) PROVE WorkerTypeOK'
  BY <1>1 DEF StoreEvent, queueVars, workerVars
<1>2. ASSUME NEW e \in Arrivals, AfterIngest(e) PROVE WorkerTypeOK'
  BY <1>2 DEF AfterIngest, NoteHits, queueVars, workerVars
<1>3. CASE ApiKilled
  BY <1>3 DEF ApiKilled, Fault, queueVars, workerVars
<1>4. ASSUME NEW w \in Workers, NEW code \in Int, Exit(w, code)
      PROVE  /\ pc' \in [Workers -> WorkerStates]
             /\ taken' \in [Workers -> Nat]
             /\ sees' \in [Workers -> SUBSET Arrivals]
             /\ stopping' \subseteq Workers
  BY <1>4 DEF Exit, AfterExit
<1>5. ASSUME NEW w \in Workers, Launch(w) \/ OperatorStart(w) \/ Terminate(w)
      PROVE  WorkerTypeOK'
  BY <1>5 DEF Launch, OperatorStart, Terminate, Fault, queueVars
<1>6. ASSUME NEW w \in Workers, BootRefused(w) PROVE WorkerTypeOK'
  <2>1. Exit(w, 4) \/ Exit(w, 3)
    BY <1>6 DEF BootRefused
  <2>2. QueueTypeOK'
    BY <1>6 DEF BootRefused, ReleaseLease
  <2>3. QED
    BY <1>6, <2>1, <2>2, <1>4 DEF BootRefused
<1>7. ASSUME NEW w \in Workers, BootAcquired(w) PROVE WorkerTypeOK'
  BY <1>7 DEF BootAcquired, AcquireLease
<1>8. ASSUME NEW w \in Workers, RenewLease(w) PROVE WorkerTypeOK'
  BY <1>8 DEF RenewLease, AcquireLease, AcquireRefused, queueVars
<1>9. ASSUME NEW w \in Workers, StopRequested(w) PROVE WorkerTypeOK'
  <2>1. QueueTypeOK'
    BY <1>9 DEF StopRequested, ReleaseLease
  <2>2. QED
    BY <1>9, <2>1, <1>4 DEF StopRequested
<1>10. ASSUME NEW w \in Workers, RunOnceTake(w) PROVE WorkerTypeOK'
  BY <1>10 DEF RunOnceTake, TakePending
<1>11. ASSUME NEW w \in Workers, RunOnceRead(w) PROVE WorkerTypeOK'
  BY <1>11 DEF RunOnceRead, Accepted, queueVars
<1>12. ASSUME NEW w \in Workers, RunOnceDone(w) PROVE WorkerTypeOK'
  BY <1>12 DEF RunOnceDone, queueVars
<1>13. ASSUME NEW w \in Workers, RunOnceRaised(w) PROVE WorkerTypeOK'
  BY <1>13 DEF RunOnceRaised, Fault, queueVars
<1>14. ASSUME NEW w \in Workers, RunOnceRequeue(w) PROVE WorkerTypeOK'
  BY <1>14 DEF RunOnceRequeue, NoteHits
<1>15. ASSUME NEW w \in Workers, EndCycle(w) PROVE WorkerTypeOK'
  <2>1. CASE ReleaseLease(w) /\ Exit(w, 0)
    <3>1. QueueTypeOK'
      BY <2>1 DEF ReleaseLease
    <3>2. QED
      BY <1>15, <2>1, <3>1, <1>4 DEF EndCycle
  <2>2. CASE MoveTo(w, "loop") /\ UNCHANGED <<queueVars, taken, sees, stopping>>
    BY <1>15, <2>2 DEF EndCycle, queueVars
  <2>3. QED
    BY <1>15, <2>1, <2>2 DEF EndCycle
<1>16. ASSUME NEW w \in Workers, QueueFailure(w) \/ Killed(w) PROVE WorkerTypeOK'
  <2>1. QueueTypeOK'
    BY <1>16 DEF QueueFailure, Killed, ReleaseLease, LeaseKeptByTheDead
  <2>2. Exit(w, 1) \/ Exit(w, 137)
    BY <1>16 DEF QueueFailure, Killed
  <2>3. lostBy' \subseteq Workers /\ faults' \in 0..MaxFaults /\ UNCHANGED <<evt, assembled>>
    BY <1>16 DEF QueueFailure, Killed, Fault
  <2>4. QED
    BY <2>1, <2>2, <2>3, <1>4
<1>17. CASE Tick
  BY <1>17 DEF Tick, workerVars
<1>18. CASE UNCHANGED assemblyVars
  BY <1>18 DEF assemblyVars, queueVars, workerVars
<1>19. QED
  BY <1>1, <1>2, <1>3, <1>5, <1>6, <1>7, <1>8, <1>9, <1>10, <1>11, <1>12, <1>13,
     <1>14, <1>15, <1>16, <1>17, <1>18 DEF WorkerNext, Ingest, Step, Environment

(* The state of the module never leaves its types: a counter of signals that *)
(* cannot go negative, a lease row with a known owner, one control state per *)
(* process.                                                                   *)
THEOREM WorkersTyped == WorkerSpec => []WorkerTypeOK
<1>1. WorkerInit => WorkerTypeOK
  BY LeaseTtlAssumption, EventsAssumption
     DEF WorkerInit, QueueInit, WorkerTypeOK, QueueTypeOK, EventStates, WorkerStates
<1>2. QED
  BY <1>1, TypeStep, PTL DEF WorkerSpec

-----------------------------------------------------------------------------
(* The strengthening of the invariants, one lemma per conjunct of IInv.      *)

(* A process holds signals exactly between taking and giving them back. *)
LEMMA TakenStep == WorkerTypeOK /\ TakenInv /\ [WorkerNext]_assemblyVars => TakenInv'
<1> SUFFICES ASSUME WorkerTypeOK, TakenInv, [WorkerNext]_assemblyVars, NEW v \in Workers
             PROVE  /\ pc'[v] \in Holding => taken'[v] > 0
                    /\ pc'[v] \notin Holding => taken'[v] = 0
  BY DEF TakenInv
<1> USE DEF WorkerTypeOK, QueueTypeOK, WorkerStates, TakenInv, Holding, MoveTo
<1>1. ASSUME NEW w \in Workers, NEW code, Exit(w, code)
      PROVE  /\ pc'[v] \in Holding => taken'[v] > 0
             /\ pc'[v] \notin Holding => taken'[v] = 0
  BY <1>1 DEF Exit, AfterExit
<1>2. ASSUME NEW e \in Arrivals, Ingest(e) PROVE UNCHANGED <<pc, taken>>
  BY <1>2 DEF Ingest, StoreEvent, AfterIngest, workerVars
<1>3. CASE ApiKilled \/ Tick \/ UNCHANGED assemblyVars
  BY <1>3 DEF ApiKilled, Tick, assemblyVars, workerVars
<1>4. ASSUME NEW w \in Workers, Launch(w) \/ OperatorStart(w) \/ Terminate(w)
      PROVE  /\ pc'[v] \in Holding => taken'[v] > 0
             /\ pc'[v] \notin Holding => taken'[v] = 0
  BY <1>4 DEF Launch, OperatorStart, Terminate
<1>5. ASSUME NEW w \in Workers, BootAcquired(w) \/ RenewLease(w)
      PROVE  /\ pc'[v] \in Holding => taken'[v] > 0
             /\ pc'[v] \notin Holding => taken'[v] = 0
  BY <1>5 DEF BootAcquired, RenewLease
<1>6. ASSUME NEW w \in Workers, RunOnceTake(w)
      PROVE  /\ pc'[v] \in Holding => taken'[v] > 0
             /\ pc'[v] \notin Holding => taken'[v] = 0
  BY <1>6 DEF RunOnceTake
<1>7. ASSUME NEW w \in Workers,
             RunOnceRead(w) \/ RunOnceDone(w) \/ RunOnceRaised(w) \/ RunOnceRequeue(w)
      PROVE  /\ pc'[v] \in Holding => taken'[v] > 0
             /\ pc'[v] \notin Holding => taken'[v] = 0
  BY <1>7 DEF RunOnceRead, RunOnceDone, RunOnceRaised, RunOnceRequeue
<1>8. ASSUME NEW w \in Workers, EndCycle(w)
      PROVE  /\ pc'[v] \in Holding => taken'[v] > 0
             /\ pc'[v] \notin Holding => taken'[v] = 0
  BY <1>8, <1>1 DEF EndCycle
<1>9. ASSUME NEW w \in Workers,
             BootRefused(w) \/ StopRequested(w) \/ QueueFailure(w) \/ Killed(w)
      PROVE  \E code \in {0, 1, 3, 4, 137} : Exit(w, code)
  BY <1>9 DEF BootRefused, StopRequested, QueueFailure, Killed
<1>10. QED
  BY <1>1, <1>2, <1>3, <1>4, <1>5, <1>6, <1>7, <1>8, <1>9
     DEF WorkerNext, Step, Environment

(* Accepted events stay accepted. *)
LEMMA AcceptedGrows == WorkerTypeOK /\ [WorkerNext]_assemblyVars => Accepted \subseteq Accepted'
<1> SUFFICES ASSUME WorkerTypeOK, [WorkerNext]_assemblyVars, NEW e \in Arrivals, evt[e] # "absent"
             PROVE  evt'[e] # "absent"
  BY DEF Accepted
<1> USE DEF WorkerTypeOK
<1>1. ASSUME NEW d \in Arrivals, Ingest(d) PROVE evt'[e] # "absent"
  BY <1>1 DEF Ingest, StoreEvent, AfterIngest
<1>2. CASE ApiKilled
  BY <1>2 DEF ApiKilled
<1>3. CASE Tick \/ UNCHANGED assemblyVars
  BY <1>3 DEF Tick, assemblyVars
<1>4. ASSUME NEW w \in Workers, Launch(w) \/ Step(w) \/ Environment(w)
      PROVE  evt' = evt
  BY <1>4 DEF Launch, Step, Environment, BootRefused, BootAcquired, RenewLease,
     StopRequested, RunOnceTake, RunOnceRead, RunOnceDone, RunOnceRequeue, EndCycle,
     OperatorStart, Terminate, RunOnceRaised, QueueFailure, Killed
<1>5. QED
  BY <1>1, <1>2, <1>3, <1>4 DEF WorkerNext

(* What a run has read are accepted events. *)
LEMMA SeesStep == WorkerTypeOK /\ SeesInv /\ [WorkerNext]_assemblyVars => SeesInv'
<1> SUFFICES ASSUME WorkerTypeOK, SeesInv, [WorkerNext]_assemblyVars, NEW v \in Workers
             PROVE  sees'[v] \subseteq Accepted'
  BY DEF SeesInv
<1>1. sees'[v] \subseteq sees[v] \/ sees'[v] = Accepted
  <2> USE DEF WorkerTypeOK
  <2>1. CASE \E e \in Arrivals : Ingest(e)
    BY <2>1 DEF Ingest, StoreEvent, AfterIngest, workerVars
  <2>2. CASE ApiKilled \/ Tick \/ UNCHANGED assemblyVars
    BY <2>2 DEF ApiKilled, Tick, assemblyVars, workerVars
  <2>3. ASSUME NEW w \in Workers, NEW code, Exit(w, code)
        PROVE  sees'[v] \subseteq sees[v]
    BY <2>3 DEF Exit
  <2>4. ASSUME NEW w \in Workers,
               BootRefused(w) \/ StopRequested(w) \/ QueueFailure(w) \/ Killed(w)
        PROVE  \E code \in {0, 1, 3, 4, 137} : Exit(w, code)
    BY <2>4 DEF BootRefused, StopRequested, QueueFailure, Killed
  <2>5. ASSUME NEW w \in Workers,
               \/ Launch(w) \/ OperatorStart(w) \/ Terminate(w) \/ BootAcquired(w)
               \/ RenewLease(w) \/ RunOnceTake(w) \/ RunOnceRequeue(w)
        PROVE  sees' = sees
    BY <2>5 DEF Launch, OperatorStart, Terminate, BootAcquired, RenewLease,
       RunOnceTake, RunOnceRequeue
  <2>6. ASSUME NEW w \in Workers, RunOnceRead(w) \/ RunOnceDone(w) \/ RunOnceRaised(w)
        PROVE  sees'[v] \subseteq sees[v] \/ sees'[v] = Accepted
    BY <2>6 DEF RunOnceRead, RunOnceDone, RunOnceRaised
  <2>7. ASSUME NEW w \in Workers, EndCycle(w)
        PROVE  sees'[v] \subseteq sees[v]
    BY <2>7, <2>3 DEF EndCycle
  <2>8. QED
    BY <2>1, <2>2, <2>3, <2>4, <2>5, <2>6, <2>7 DEF WorkerNext, Step, Environment
<1>2. QED
  BY <1>1, AcceptedGrows DEF SeesInv

(* As long as cycles are shorter than the lease, a process in its cycle      *)
(* holds a lease that has not run out.                                       *)
LEMMA LeaseStep == WorkerTypeOK /\ LeaseInv /\ [WorkerNext]_assemblyVars => LeaseInv'
<1> SUFFICES ASSUME WorkerTypeOK, LeaseInv, [WorkerNext]_assemblyVars, ~SlowRuns,
                    NEW v \in Workers, Active(v)'
             PROVE  leaseOwner' = v /\ leaseLeft' > 0
  BY DEF LeaseInv
<1> USE LeaseTtlAssumption, NamesAreNotWorkers
        DEF WorkerTypeOK, QueueTypeOK, WorkerStates, LeaseInv, Active, Cycle, MoveTo
<1>1. CASE UNCHANGED <<pc, leaseOwner, leaseLeft>>
  BY <1>1
<1>2. ASSUME NEW e \in Arrivals, Ingest(e) PROVE UNCHANGED <<pc, leaseOwner, leaseLeft>>
  BY <1>2 DEF Ingest, StoreEvent, AfterIngest, NoteHits, workerVars, queueVars
<1>3. CASE ApiKilled \/ UNCHANGED assemblyVars
  BY <1>3, <1>1 DEF ApiKilled, assemblyVars, workerVars, queueVars
<1>4. CASE Tick
  BY <1>4 DEF Tick, workerVars
<1>5. ASSUME NEW w \in Workers, Launch(w) \/ OperatorStart(w) \/ Terminate(w)
      PROVE  leaseOwner' = v /\ leaseLeft' > 0
  BY <1>5 DEF Launch, OperatorStart, Terminate, queueVars
<1>6. ASSUME NEW w \in Workers, LeaseFree(w), Active(v)
      PROVE  w = v
  BY <1>6 DEF LeaseFree
<1>7. ASSUME NEW w \in Workers, BootAcquired(w)
      PROVE  leaseOwner' = v /\ leaseLeft' > 0
  BY <1>7, <1>6 DEF BootAcquired, AcquireLease
<1>8. ASSUME NEW w \in Workers, RenewLease(w)
      PROVE  leaseOwner' = v /\ leaseLeft' > 0
  BY <1>8, <1>6 DEF RenewLease, AcquireLease, AcquireRefused, queueVars
<1>9. ASSUME NEW w \in Workers, NEW code, Exit(w, code)
      PROVE  Active(v) /\ v # w
  BY <1>9 DEF Exit, AfterExit
<1>10. ASSUME NEW w \in Workers, ReleaseLease(w) \/ LeaseKeptByTheDead(w), Active(v), v # w
       PROVE  leaseOwner' = v /\ leaseLeft' > 0
  BY <1>10 DEF ReleaseLease, LeaseKeptByTheDead
<1>11. ASSUME NEW w \in Workers,
              BootRefused(w) \/ StopRequested(w) \/ QueueFailure(w) \/ Killed(w)
       PROVE  leaseOwner' = v /\ leaseLeft' > 0
  <2>1. \E code \in {0, 1, 3, 4, 137} : Exit(w, code)
    BY <1>11 DEF BootRefused, StopRequested, QueueFailure, Killed
  <2>2. ReleaseLease(w) \/ LeaseKeptByTheDead(w)
    BY <1>11 DEF BootRefused, StopRequested, QueueFailure, Killed
  <2>3. QED
    BY <2>1, <2>2, <1>9, <1>10
<1>12. ASSUME NEW w \in Workers,
              \/ RunOnceTake(w) \/ RunOnceRead(w) \/ RunOnceDone(w)
              \/ RunOnceRaised(w) \/ RunOnceRequeue(w)
       PROVE  leaseOwner' = v /\ leaseLeft' > 0
  <2>1. UNCHANGED <<leaseOwner, leaseLeft>>
    BY <1>12 DEF RunOnceTake, TakePending, RunOnceRead, RunOnceDone, RunOnceRaised,
       RunOnceRequeue, NoteHits, queueVars
  <2>2. Active(v)
    BY <1>12 DEF RunOnceTake, RunOnceRead, RunOnceDone, RunOnceRaised, RunOnceRequeue
  <2>3. QED
    BY <2>1, <2>2
<1>13. ASSUME NEW w \in Workers, EndCycle(w)
       PROVE  leaseOwner' = v /\ leaseLeft' > 0
  <2>1. CASE ReleaseLease(w) /\ Exit(w, 0)
    BY <2>1, <1>9, <1>10
  <2>2. CASE MoveTo(w, "loop") /\ UNCHANGED queueVars
    BY <1>13, <2>2 DEF EndCycle, queueVars
  <2>3. QED
    BY <1>13, <2>1, <2>2 DEF EndCycle
<1>14. QED
  BY <1>1, <1>2, <1>3, <1>4, <1>5, <1>7, <1>8, <1>11, <1>12, <1>13
     DEF WorkerNext, Step, Environment

(* No step leaves a signalled hit without a run that will read it, unless a  *)
(* process dies holding signals.                                             *)
LEMMA CoverStep ==
  WorkerTypeOK /\ TakenInv /\ NoSignalLost /\ [WorkerNext]_assemblyVars => NoSignalLost'
<1> SUFFICES ASSUME WorkerTypeOK, TakenInv, NoSignalLost, [WorkerNext]_assemblyVars,
                    lostBy' = {}, NEW e \in Alarms, evt'[e] = "done"
             PROVE  Covered(e)'
  BY DEF NoSignalLost
<1> USE EventsAssumption
        DEF WorkerTypeOK, QueueTypeOK, WorkerStates, TakenInv, Holding, Covered, MoveTo
<1>1. ASSUME evt[e] = "done", lostBy = {} PROVE Covered(e)
  BY <1>1 DEF NoSignalLost
<1>2. ASSUME NEW d \in Arrivals, Ingest(d) PROVE Covered(e)'
  <2>1. CASE StoreEvent(d)
    BY <2>1, <1>1 DEF StoreEvent, queueVars, workerVars
  <2>2. CASE AfterIngest(d) /\ d \in Alarms
    BY <2>2 DEF AfterIngest, NoteHits
  <2>3. CASE AfterIngest(d) /\ d \notin Alarms
    BY <2>3, <1>1 DEF AfterIngest, queueVars, workerVars
  <2>4. QED
    BY <1>2, <2>1, <2>2, <2>3 DEF Ingest
<1>3. CASE ApiKilled
  BY <1>3, <1>1 DEF ApiKilled, queueVars, workerVars
<1>4. CASE Tick
  BY <1>4, <1>1 DEF Tick, workerVars
<1>5. CASE UNCHANGED assemblyVars
  BY <1>5, <1>1 DEF assemblyVars, queueVars, workerVars
<1>6. ASSUME NEW w \in Workers, Launch(w) \/ OperatorStart(w) \/ Terminate(w)
      PROVE  Covered(e)'
  BY <1>6, <1>1 DEF Launch, OperatorStart, Terminate, queueVars
<1>7. ASSUME NEW w \in Workers, NEW code, Exit(w, code), pc[w] \notin Holding,
             UNCHANGED <<pending, assembled, evt>>, lostBy = {}
      PROVE  Covered(e)'
  BY <1>7, <1>1 DEF Exit
<1>8. ASSUME NEW w \in Workers, BootRefused(w) \/ StopRequested(w) PROVE Covered(e)'
  <2>1. UNCHANGED <<pending, assembled, evt, lostBy>> /\ pc[w] \notin Holding
    BY <1>8 DEF BootRefused, StopRequested, ReleaseLease
  <2>2. \E code \in {0, 3, 4} : Exit(w, code)
    BY <1>8 DEF BootRefused, StopRequested
  <2>3. QED
    BY <2>1, <2>2, <1>7
<1>9. ASSUME NEW w \in Workers, BootAcquired(w) \/ RenewLease(w) PROVE Covered(e)'
  BY <1>9, <1>1 DEF BootAcquired, RenewLease, AcquireLease, AcquireRefused, queueVars
<1>10. ASSUME NEW w \in Workers, RunOnceTake(w) PROVE Covered(e)'
  BY <1>10, <1>1 DEF RunOnceTake, TakePending
<1>11. ASSUME NEW w \in Workers, RunOnceRead(w) PROVE Covered(e)'
  BY <1>11, <1>1 DEF RunOnceRead, Accepted, queueVars
<1>12. ASSUME NEW w \in Workers, RunOnceDone(w) PROVE Covered(e)'
  BY <1>12, <1>1 DEF RunOnceDone, queueVars
<1>13. ASSUME NEW w \in Workers, RunOnceRaised(w) PROVE Covered(e)'
  BY <1>13, <1>1 DEF RunOnceRaised, queueVars
<1>14. ASSUME NEW w \in Workers, RunOnceRequeue(w) PROVE Covered(e)'
  <2>1. taken[w] > 0
    BY <1>14 DEF RunOnceRequeue
  <2>2. pending' > 0
    BY <1>14, <2>1 DEF RunOnceRequeue, NoteHits
  <2>3. QED
    BY <2>2
<1>15. ASSUME NEW w \in Workers, EndCycle(w) PROVE Covered(e)'
  <2>1. CASE ReleaseLease(w) /\ Exit(w, 0)
    BY <1>15, <2>1, <1>7 DEF EndCycle, ReleaseLease
  <2>2. CASE MoveTo(w, "loop") /\ UNCHANGED <<queueVars, taken, sees, stopping>>
    BY <1>15, <2>2, <1>1 DEF EndCycle, queueVars
  <2>3. QED
    BY <1>15, <2>1, <2>2 DEF EndCycle
<1>16. ASSUME NEW w \in Workers, QueueFailure(w) \/ Killed(w) PROVE Covered(e)'
  <2>1. UNCHANGED <<pending, assembled, evt>>
    BY <1>16 DEF QueueFailure, Killed, ReleaseLease, LeaseKeptByTheDead
  <2>2. pc[w] \notin Holding /\ lostBy = {}
    BY <1>16 DEF QueueFailure, Killed
  <2>3. Exit(w, 1) \/ Exit(w, 137)
    BY <1>16 DEF QueueFailure, Killed
  <2>4. QED
    BY <2>1, <2>2, <2>3, <1>7
<1>17. QED
  BY <1>2, <1>3, <1>4, <1>5, <1>6, <1>8, <1>9, <1>10, <1>11, <1>12, <1>13, <1>14,
     <1>15, <1>16 DEF WorkerNext, Step, Environment

(* The inductive invariant: the types, who holds signals, what runs have     *)
(* read, who holds the lease, and which hits a run is owed for.              *)
THEOREM Inductive == WorkerSpec => []IInv
<1>1. WorkerInit => IInv
  BY LeaseTtlAssumption, EventsAssumption
     DEF WorkerInit, QueueInit, IInv, WorkerTypeOK, QueueTypeOK, EventStates, WorkerStates,
         TakenInv, Holding, SeesInv, LeaseInv, Active, Cycle, NoSignalLost
<1>2. IInv /\ [WorkerNext]_assemblyVars => IInv'
  BY TypeStep, TakenStep, SeesStep, LeaseStep, CoverStep DEF IInv
<1>3. QED
  BY <1>1, <1>2, PTL DEF WorkerSpec

(* Signals are not lost: take_pending, the read of the stores, failures and  *)
(* refused or relaunched processes never leave a signalled hit that neither  *)
(* is assembled nor will be read, except when a process dies holding signals.*)
THEOREM SignalsAreNotLost == WorkerSpec => []NoSignalLost
<1>1. IInv => NoSignalLost
  BY DEF IInv
<1>2. QED
  BY <1>1, Inductive, PTL

(* The lease excludes: while no cycle outlasts the lease, two processes are  *)
(* never in their cycles together.                                           *)
THEOREM LeaseIsExclusive == WorkerSpec => []LeaseExcludes
<1>1. IInv => LeaseExcludes
  BY DEF IInv, LeaseInv, LeaseExcludes
<1>2. QED
  BY <1>1, Inductive, PTL

(* A lease that has not run out is ended by nobody but its owner: the finally *)
(* clause of a refused process and the acquire_lease of the others leave it. *)
THEOREM LeaseIsOnlyLeft == WorkerSpec => LeaseOnlyLeavesItsOwner
<1>1. ASSUME WorkerTypeOK, [WorkerNext]_assemblyVars PROVE LeaseLeftByItsOwner
  <2> SUFFICES ASSUME NEW v \in Workers, leaseOwner = v, leaseLeft > 0, leaseOwner' # v
               PROVE  pc'[v] # pc[v]
    BY DEF LeaseLeftByItsOwner
  <2> USE <1>1, NamesAreNotWorkers DEF WorkerTypeOK, QueueTypeOK, WorkerStates, MoveTo
  <2>1. ASSUME NEW e \in Arrivals, Ingest(e) PROVE leaseOwner' = leaseOwner
    BY <2>1 DEF Ingest, StoreEvent, AfterIngest, NoteHits, queueVars
  <2>2. CASE ApiKilled \/ Tick \/ UNCHANGED assemblyVars
    BY <2>2 DEF ApiKilled, Tick, assemblyVars, queueVars
  <2>3. ASSUME NEW w \in Workers, AcquireLease(w) \/ AcquireRefused(w)
        PROVE  FALSE
    BY <2>3 DEF AcquireLease, AcquireRefused, LeaseFree, queueVars
  <2>4. ASSUME NEW w \in Workers, BootAcquired(w) \/ RenewLease(w) PROVE FALSE
    BY <2>4, <2>3 DEF BootAcquired, RenewLease
  <2>5. ASSUME NEW w \in Workers, ReleaseLease(w) \/ LeaseKeptByTheDead(w)
        PROVE  w = v
    BY <2>5 DEF ReleaseLease, LeaseKeptByTheDead
  <2>6. ASSUME NEW w \in Workers,
               \/ Launch(w) \/ OperatorStart(w) \/ Terminate(w) \/ RunOnceTake(w)
               \/ RunOnceRead(w) \/ RunOnceDone(w) \/ RunOnceRaised(w)
               \/ RunOnceRequeue(w)
        PROVE  leaseOwner' = leaseOwner
    BY <2>6 DEF Launch, OperatorStart, Terminate, RunOnceTake, TakePending, RunOnceRead,
       RunOnceDone, RunOnceRaised, RunOnceRequeue, NoteHits, queueVars
  <2>7. ASSUME NEW code, Exit(v, code), pc[v] \in Cycle \cup {"boot"}
        PROVE  pc'[v] # pc[v]
    BY <2>7 DEF Exit, AfterExit, Cycle
  <2>8. ASSUME NEW w \in Workers,
               BootRefused(w) \/ StopRequested(w) \/ QueueFailure(w) \/ Killed(w)
        PROVE  pc'[v] # pc[v]
    <3>1. ReleaseLease(w) \/ LeaseKeptByTheDead(w)
      BY <2>8 DEF BootRefused, StopRequested, QueueFailure, Killed
    <3>2. \E code \in {0, 1, 3, 4, 137} : Exit(w, code)
      BY <2>8 DEF BootRefused, StopRequested, QueueFailure, Killed
    <3>3. pc[w] \in Cycle \cup {"boot"}
      BY <2>8 DEF BootRefused, StopRequested, QueueFailure, Killed, Cycle
    <3>4. QED
      BY <3>1, <3>2, <3>3, <2>5, <2>7
  <2>9. ASSUME NEW w \in Workers, EndCycle(w) PROVE pc'[v] # pc[v]
    <3>1. CASE ReleaseLease(w) /\ Exit(w, 0)
      BY <2>9, <3>1, <2>5, <2>7 DEF EndCycle, Cycle
    <3>2. CASE MoveTo(w, "loop") /\ UNCHANGED queueVars
      BY <3>2 DEF queueVars
    <3>3. QED
      BY <2>9, <3>1, <3>2 DEF EndCycle
  <2>10. QED
    BY <2>1, <2>2, <2>4, <2>6, <2>8, <2>9 DEF WorkerNext, Step, Environment
<1>2. QED
  BY <1>1, WorkersTyped, PTL DEF WorkerSpec, LeaseOnlyLeavesItsOwner

(* The queue and its workers implement the promise of AssemblyPromise: each  *)
(* step of the processes is an Accept, a Signal, a Build, a Break or no step *)
(* of the promise.                                                           *)
THEOREM ImplementsPromise == WorkerSpec => PromiseSafety
<1>1. ASSUME WorkerInit PROVE Promise!Init
  <2>1. \A e \in Arrivals : evt[e] = "absent"
    BY <1>1 DEF WorkerInit
  <2>2. Accepted = {}
    BY <2>1 DEF Accepted
  <2>3. {e \in Alarms : evt[e] = "done"} = {}
    BY <2>1, EventsAssumption
  <2>4. assembled = {} /\ (lostBy # {}) = FALSE
    BY <1>1 DEF WorkerInit
  <2>5. QED
    BY <2>2, <2>3, <2>4, Zenon DEF Promise!Init
<1>2. ASSUME IInv, [WorkerNext]_assemblyVars PROVE [Promise!Next]_(Promise!vars)
  <2> DEFINE Signalled == {e \in Alarms : evt[e] = "done"}
  <2> USE <1>2, EventsAssumption DEF IInv, WorkerTypeOK, MoveTo
  <2>1. CASE UNCHANGED <<evt, assembled, lostBy>>
    BY <2>1 DEF Promise!vars, Accepted
  <2>2. ASSUME NEW e \in Arrivals, StoreEvent(e) PROVE Promise!Accept(e)
    BY <2>2 DEF StoreEvent, Promise!Accept, Accepted
  <2>3. ASSUME NEW e \in Arrivals, AfterIngest(e)
        PROVE  Promise!Signal(e) \/ UNCHANGED Promise!vars
    <3>1. CASE e \in Alarms
      <4>1. Accepted' = Accepted /\ assembled' = assembled /\ lostBy' = {}
        BY <2>3, <3>1 DEF AfterIngest, Accepted
      <4>2. Signalled' = Signalled \cup {e} /\ e \in Accepted \ Signalled
        BY <2>3, <3>1 DEF AfterIngest, Accepted
      <4>3. QED
        BY <4>1, <4>2 DEF Promise!Signal
    <3>2. CASE e \notin Alarms
      <4>1. Accepted' = Accepted /\ assembled' = assembled /\ lostBy' = lostBy
        BY <2>3, <3>2 DEF AfterIngest, Accepted
      <4>2. Signalled' = Signalled
        BY <2>3, <3>2 DEF AfterIngest
      <4>3. QED
        BY <4>1, <4>2 DEF Promise!vars
    <3>3. QED
      BY <3>1, <3>2
  <2>4. CASE ApiKilled
    <3>1. Accepted' = Accepted /\ Signalled' = Signalled
      BY <2>4 DEF ApiKilled, Accepted
    <3>2. assembled' = assembled /\ lostBy' = lostBy
      BY <2>4 DEF ApiKilled
    <3>3. QED
      BY <3>1, <3>2 DEF Promise!vars
  <2>5. ASSUME NEW w \in Workers, RunOnceDone(w) PROVE Promise!Build
    <3>1. sees[w] \in SUBSET Accepted
      BY DEF SeesInv
    <3>2. QED
      BY <2>5, <3>1 DEF RunOnceDone, Promise!Build, Accepted
  <2>6. ASSUME NEW w \in Workers, QueueFailure(w) \/ Killed(w)
        PROVE  Promise!Break \/ UNCHANGED Promise!vars
    <3>1. UNCHANGED <<evt, assembled>>
      BY <2>6 DEF QueueFailure, Killed
    <3>2. lostBy \subseteq lostBy' /\ (lostBy' = lostBy \/ lostBy' # {})
      BY <2>6 DEF QueueFailure, Killed
    <3>3. CASE lostBy' = lostBy
      BY <3>1, <3>3 DEF Promise!vars, Accepted
    <3>4. CASE lostBy' # {}
      BY <3>1, <3>4 DEF Promise!Break, Accepted
    <3>5. QED
      BY <3>2, <3>3, <3>4
  <2>7. ASSUME NEW w \in Workers,
               \/ Launch(w) \/ OperatorStart(w) \/ Terminate(w) \/ RunOnceRaised(w)
               \/ BootRefused(w) \/ BootAcquired(w) \/ RenewLease(w)
               \/ StopRequested(w) \/ RunOnceTake(w) \/ RunOnceRead(w)
               \/ RunOnceRequeue(w) \/ EndCycle(w)
        PROVE  UNCHANGED <<evt, assembled, lostBy>>
    BY <2>7 DEF Launch, OperatorStart, Terminate, RunOnceRaised, BootRefused,
       BootAcquired, RenewLease, StopRequested, RunOnceTake, RunOnceRead,
       RunOnceRequeue, EndCycle
  <2>8. CASE Tick \/ UNCHANGED assemblyVars
    BY <2>1, <2>8 DEF Tick, assemblyVars
  <2>9. QED
    BY <2>1, <2>2, <2>3, <2>4, <2>5, <2>6, <2>7, <2>8
       DEF WorkerNext, Ingest, Step, Environment, Promise!Next
<1>3. QED
  BY <1>1, <1>2, Inductive, PTL DEF WorkerSpec, PromiseSafety, Promise!Safety

(* ---- the runs and the cards they write ----------------------------------- *)
PairwiseDisjoint(S) == \A g, h \in S : g.events \cap h.events # {} => g = h

(* One round of _merge_overlapping keeps groups pairwise disjoint, whatever  *)
(* group comes next: a group that meets two of them joins both.              *)
LEMMA MergeKeepsDisjoint ==
  ASSUME NEW S, NEW new, PairwiseDisjoint(S)
  PROVE  PairwiseDisjoint(MergeOverlapping(S, new))
<1> DEFINE met    == {g \in S : g.events \cap new.events # {}}
           joined == [seeds  |-> new.seeds \cup UNION {g.seeds : g \in met},
                      events |-> new.events \cup UNION {g.events : g \in met}]
<1>1. MergeOverlapping(S, new) = (S \ met) \cup {joined}
  BY DEF MergeOverlapping
<1>2. joined.events = new.events \cup UNION {g.events : g \in met}
  OBVIOUS
<1>3. ASSUME NEW g \in S \ met PROVE g.events \cap joined.events = {}
  <2>1. g.events \cap new.events = {}
    OBVIOUS
  <2>2. ASSUME NEW h \in met PROVE g.events \cap h.events = {}
    BY DEF PairwiseDisjoint
  <2>3. QED
    BY <1>2, <2>1, <2>2
<1> HIDE DEF joined
<1>4. \A g, h \in S \ met : g.events \cap h.events # {} => g = h
  BY DEF PairwiseDisjoint
<1>5. QED
  BY <1>1, <1>3, <1>4 DEF PairwiseDisjoint

(* In every run, at every moment of its planning, each event lies in at most *)
(* one group.                                                                *)
THEOREM GroupsStayDisjoint == Spec => []GroupsDisjoint
<1> DEFINE Inv == DOMAIN groups = Runners /\ GroupsDisjoint
<1>1. Init => Inv
  BY DEF Init, GroupsDisjoint
<1>2. Inv /\ [Next]_vars => Inv'
  <2> SUFFICES ASSUME Inv, [Next]_vars PROVE Inv'
    OBVIOUS
  <2>1. ASSUME UNCHANGED groups PROVE Inv'
    BY <2>1 DEF GroupsDisjoint
  <2>2. ASSUME NEW r \in Runners, groups' = [groups EXCEPT ![r] = {}] PROVE Inv'
    BY <2>2 DEF GroupsDisjoint
  <2>3. ASSUME NEW r \in Runners, NEW hitEvents, PlanCase(r, hitEvents) PROVE Inv'
    <3>1. PICK S : /\ groups' = [groups EXCEPT ![r] = S]
                   /\ S = groups[r] \/ \E g : S = MergeOverlapping(groups[r], g)
      <4> DEFINE Counted == [s \in Seeds |->
                   IF s \notin CandidateSeeds(hitEvents) \/ rarity[r][s] # "unknown"
                   THEN rarity[r][s]
                   ELSE IF Occurrences(s) <= MaxOccurrences THEN "rare" ELSE "common"]
                 Rare == {s \in CandidateSeeds(hitEvents) : Counted[s] = "rare"}
                 Found == IF CoreFor(Rare) = {} THEN groups[r]
                          ELSE MergeOverlapping(groups[r],
                                 [seeds |-> Rare, events |-> CoreFor(Rare)])
      <4>1. groups' = [groups EXCEPT ![r] = Found]
        BY <2>3 DEF PlanCase
      <4>2. Found = groups[r] \/ \E g : Found = MergeOverlapping(groups[r], g)
        OBVIOUS
      <4>3. QED
        BY <4>1, <4>2
    <3>2. PairwiseDisjoint(groups[r])
      BY DEF GroupsDisjoint, PairwiseDisjoint
    <3>3. PairwiseDisjoint(S)
      BY <3>1, <3>2, MergeKeepsDisjoint
    <3>4. QED
      BY <3>1, <3>3 DEF GroupsDisjoint, PairwiseDisjoint
  <2>4. ASSUME NEW r \in Runners, Run(r) PROVE Inv'
    <3>1. CASE Begin(r) \/ Finish(r) \/ CutOff(r)
      BY <3>1, <2>2 DEF Begin, Finish, CutOff, Over
    <3>2. CASE PlanDone(r) \/ SavesDone(r) \/ RetireRead(r)
      BY <3>2, <2>1 DEF PlanDone, SavesDone, RetireRead
    <3>3. CASE \E g \in groups[r] : SaveCard(r, g)
      BY <3>3, <2>1 DEF SaveCard
    <3>4. CASE \E id \in Ids : SaveMarked(r, id) \/ SupersedeRead(r, id)
                                 \/ SupersedeSave(r, id) \/ RetireSave(r, id)
      BY <3>4, <2>1 DEF SaveMarked, SupersedeRead, SupersedeSave, RetireSave
    <3>5. QED
      BY <2>3, <2>4, <3>1, <3>2, <3>3, <3>4 DEF Run
  <2>5. CASE \/ \E e \in Events : ProcessEvent(e) \/ AddRecentEvent(e)
             \/ \E c \in Cases : CloseCase(c)
             \/ \E id \in Ids : WorkOnCard(id)
    BY <2>5, <2>1 DEF ProcessEvent, AddRecentEvent, CloseCase, WorkOnCard, runVars
  <2>6. CASE UNCHANGED vars
    BY <2>6, <2>1 DEF vars, runVars
  <2>7. QED
    BY <2>4, <2>5, <2>6 DEF Next
<1>3. Inv => GroupsDisjoint
  OBVIOUS
<1>4. QED
  BY <1>1, <1>2, <1>3, PTL DEF Spec

-----------------------------------------------------------------------------
(* Types, and that no group and no open card is without events.              *)

LEMMA NoCardIsCard == NoCard \in Card /\ Empty \in Hands
  BY DEF NoCard, Card, Empty, Hands

LEMMA CardFields ==
  ASSUME NEW c \in Card
  PROVE  /\ c.status \in {"none", "triage", "merged", "closed"}
         /\ c.events \subseteq Events /\ c.hits \subseteq Events
         /\ c.marks \subseteq {"auto", "analyst"}
  BY DEF Card

LEMMA Closed ==
  ASSUME NEW c \in Card
  PROVE  LET new == [c EXCEPT !.status = "merged"]
         IN  new \in Card /\ new.status = "merged" /\ new.events = c.events
             /\ new.marks = c.marks /\ new # NoCard
  BY DEF Card, NoCard

(* One card is put into one hand.                                            *)
LEMMA Handed ==
  ASSUME hand \in [Runners -> Hands], NEW r \in Runners, NEW id \in Ids, NEW c \in Card,
         hand' = [hand EXCEPT ![r][id] = c]
  PROVE  /\ hand' \in [Runners -> Hands] /\ hand'[r][id] = c
         /\ \A other \in Ids : other # id => hand'[r][other] = hand[r][other]
         /\ \A q \in Runners : q # r => hand'[q] = hand[q]
  <1> DEFINE h == [hand[r] EXCEPT ![id] = c]
  <1>1. hand[r] \in Hands OBVIOUS
  <1>2. /\ h \in Hands /\ h[id] = c
        /\ \A other \in Ids : other # id => h[other] = hand[r][other]
    BY <1>1 DEF Hands
  <1>3. hand' = [hand EXCEPT ![r] = h] OBVIOUS
  <1> HIDE DEF h
  <1>4. /\ hand' \in [Runners -> Hands] /\ hand'[r] = h
        /\ \A q \in Runners : q # r => hand'[q] = hand[q]
    BY <1>2, <1>3
  <1> QED BY <1>2, <1>4

LEMMA MergeTyped ==
  ASSUME NEW S \in SUBSET Group, NEW new \in Group
  PROVE  MergeOverlapping(S, new) \in SUBSET Group
  <1> DEFINE met    == {g \in S : g.events \cap new.events # {}}
             joined == [seeds  |-> new.seeds \cup UNION {g.seeds : g \in met},
                        events |-> new.events \cup UNION {g.events : g \in met}]
  <1>1. MergeOverlapping(S, new) = (S \ met) \cup {joined} BY DEF MergeOverlapping
  <1>2. \A g \in S : g.seeds \subseteq Seeds /\ g.events \subseteq Events BY DEF Group
  <1>3. new.seeds \subseteq Seeds /\ new.events \subseteq Events BY DEF Group
  <1>4. /\ new.seeds \cup UNION {g.seeds : g \in met} \subseteq Seeds
        /\ new.events \cup UNION {g.events : g \in met} \subseteq Events
    BY <1>2, <1>3
  <1>5. joined \in Group BY <1>4 DEF Group
  <1> QED BY <1>1, <1>5

(* Of the seed cases and what is counted in them.                            *)
LEMMA SeedsTyped ==
  ASSUME TypeOK
  PROVE  /\ Stored \subseteq Events /\ Cased \subseteq Events
         /\ \A S : CoreFor(S) \subseteq Stored
         /\ \A h : CandidateSeeds(h) \subseteq Seeds
         /\ SeedCases \subseteq SUBSET Events
  <1>1. Stored \subseteq Events /\ Cased \subseteq Events BY DEF Stored, Cased
  <1>2. \A S : CoreFor(S) \subseteq Stored BY DEF CoreFor
  <1>3. \A h : CandidateSeeds(h) \subseteq Seeds
    BY <1>1, AutoAssemblyAssumption DEF CandidateSeeds
  <1>4. \A id \in HalfSaved : card[id].hits \subseteq Events BY CardFields DEF HalfSaved, TypeOK
  <1>5. SeedCases \subseteq SUBSET Events BY <1>1, <1>4 DEF SeedCases
  <1> QED BY <1>1, <1>2, <1>3, <1>5

(* What is stored stays.                                                     *)
LEMMA CoreGrows ==
  ASSUME ingest' = ingest \/ \E e \in Events : ingest[e] # "stored" /\ \E s : ingest' = [ingest EXCEPT ![e] = s],
         TypeOK
  PROVE  \A S : CoreFor(S) # {} => CoreFor(S)' # {}
  <1>1. \A e \in Events : ingest[e] = "stored" => ingest'[e] = "stored"
    BY DEF TypeOK
  <1>2. Stored \subseteq Stored' BY <1>1 DEF Stored
  <1> QED BY <1>2 DEF CoreFor

LEMMA TInit == Init => TInv
  <1> SUFFICES ASSUME Init PROVE TInv
    OBVIOUS
  <1>1. TypeOK
    <2>1. /\ card \in [Ids -> Card] /\ hand \in [Runners -> Hands]
          /\ runs \in 0..MaxRuns /\ acts \in 0..MaxAnalyst /\ crashes \in 0..MaxCrashes
      BY NoCardIsCard, AutoAssemblyAssumption DEF Init, Hands
    <2>2. /\ ingest \in [Events -> {"absent", "cased", "stored"}] /\ shut \subseteq Cases
          /\ step \in [Runners -> Steps] /\ calm \subseteq Runners /\ aim \subseteq Ids
      BY DEF Init, Steps
    <2>3. /\ prev \in [Runners -> [Ids -> SUBSET Events]] /\ seen \in [Runners -> SUBSET Events]
          /\ todo \in [Runners -> SUBSET SUBSET Events]
          /\ rarity \in [Runners -> [Seeds -> {"unknown", "rare", "common"}]]
          /\ groups \in [Runners -> SUBSET Group] /\ fresh \in [Runners -> SUBSET Ids]
      BY DEF Init
    <2> QED BY <2>1, <2>2, <2>3 DEF TypeOK
  <1>2. NothingHollow BY DEF Init, NothingHollow, IsOpen, Empty, NoCard
  <1> QED BY <1>1, <1>2 DEF TInv

(* The stream and the analysts.                                              *)
LEMMA TStream ==
  ASSUME TInv, NEW e \in Events, ProcessEvent(e) \/ AddRecentEvent(e)
  PROVE  TInv'
  <1>1. PICK s \in {"cased", "stored"} : ingest' = [ingest EXCEPT ![e] = s] /\ ingest[e] # "stored"
    BY DEF ProcessEvent, AddRecentEvent
  <1>2. UNCHANGED <<shut, card, runVars, counters, aim>> /\ calm' = {}
    BY DEF ProcessEvent, AddRecentEvent
  <1>3. ingest' \in [Events -> {"absent", "cased", "stored"}] BY <1>1 DEF TInv, TypeOK
  <1>4. TypeOK' BY <1>2, <1>3 DEF TInv, TypeOK, runVars, counters
  <1>5. \A S : CoreFor(S) # {} => CoreFor(S)' # {} BY <1>1, CoreGrows DEF TInv
  <1>6. NothingHollow' BY <1>2, <1>5 DEF TInv, NothingHollow, runVars, IsOpen
  <1> QED BY <1>4, <1>6 DEF TInv

LEMMA TAnalyst ==
  ASSUME TInv, (\E c \in Cases : CloseCase(c)) \/ (\E id \in Ids : WorkOnCard(id))
  PROVE  TInv'
  <1>1. /\ UNCHANGED <<ingest, runVars, runs, crashes, aim>> /\ calm' = {}
        /\ acts < MaxAnalyst /\ acts' = acts + 1
    BY DEF CloseCase, WorkOnCard, AnalystActs, envVars
  <1>2. acts' \in 0 .. MaxAnalyst BY <1>1, AutoAssemblyAssumption DEF TInv, TypeOK
  <1>3. \A S : CoreFor(S)' = CoreFor(S) BY <1>1 DEF CoreFor, Stored
  <1>4. CASE \E c \in Cases : CloseCase(c)
    <2>1. shut' \subseteq Cases /\ card' = card BY <1>4 DEF CloseCase, TInv, TypeOK
    <2>2. TypeOK' BY <1>1, <1>2, <2>1 DEF TInv, TypeOK, runVars
    <2>3. NothingHollow' BY <1>1, <1>3, <2>1 DEF TInv, NothingHollow, runVars, IsOpen
    <2> QED BY <2>2, <2>3 DEF TInv
  <1>5. ASSUME NEW id \in Ids, WorkOnCard(id) PROVE TInv'
    <2>1. PICK status \in {"triage", "closed"} :
            card' = [card EXCEPT ![id].status = status, ![id].marks = @ \cup {"analyst"}]
      BY <1>5 DEF WorkOnCard
    <2> DEFINE c == [card[id] EXCEPT !.status = status, !.marks = @ \cup {"analyst"}]
    <2>2. card[id] \in Card /\ card[id].status = "triage"
      BY <1>5 DEF WorkOnCard, IsOpen, TInv, TypeOK
    <2>3. c \in Card /\ c.events = card[id].events BY <2>2 DEF Card
    <2>4. card' = [card EXCEPT ![id] = c] BY <2>1, <2>2
    <2>5. card[id].events # {} BY <2>2 DEF TInv, NothingHollow, IsOpen
    <2> HIDE DEF c
    <2>6. card' \in [Ids -> Card] /\ \A i \in Ids : card'[i] = card[i] \/ card'[i] = c
      BY <2>3, <2>4 DEF TInv, TypeOK
    <2>7. shut' = shut BY <1>5 DEF WorkOnCard, envVars
    <2>8. TypeOK' BY <1>1, <1>2, <2>6, <2>7 DEF TInv, TypeOK, runVars
    <2>9. NothingHollow'
      BY <1>1, <1>3, <2>3, <2>5, <2>6 DEF TInv, NothingHollow, runVars, IsOpen
    <2> QED BY <2>8, <2>9 DEF TInv
  <1> QED BY <1>4, <1>5

-----------------------------------------------------------------------------
(* The steps of a run.                                                       *)

LEMMA SameCores ==
  ASSUME ingest' = ingest
  PROVE  /\ \A S : CoreFor(S)' = CoreFor(S)
         /\ \A h : CandidateSeeds(h)' = CandidateSeeds(h)
         /\ \A s : Occurrences(s)' = Occurrences(s)
  <1>1. Stored' = Stored BY DEF Stored
  <1> QED BY <1>1 DEF CoreFor, CandidateSeeds, Occurrences

LEMMA BeginTyped ==
  ASSUME TInv, NEW r \in Runners, Begin(r)
  PROVE  TInv'
  <1> DEFINE editions == [id \in Ids |-> IF id \in OpenAuto THEN card[id].events ELSE {}]
  <1>1. /\ runs < MaxRuns /\ runs' = runs + 1 /\ step' = [step EXCEPT ![r] = "plan"]
        /\ prev' = [prev EXCEPT ![r] = editions] /\ seen' = [seen EXCEPT ![r] = Cased]
        /\ todo' = [todo EXCEPT ![r] = SeedCases \ {{}}]
        /\ rarity' = [rarity EXCEPT ![r] = [s \in Seeds |-> "unknown"]]
        /\ groups' = [groups EXCEPT ![r] = {}] /\ fresh' = [fresh EXCEPT ![r] = {}]
        /\ hand' = [hand EXCEPT ![r] = Empty] /\ aim' = BatchIds(SeedCases)
        /\ UNCHANGED <<ingest, shut, card, acts, crashes>>
    BY DEF Begin, GoTo, envVars
  <1>2. calm' \in {{}, calm \cup {r}} BY DEF Begin
  <1>3. TypeOK BY DEF TInv
  <1>4. editions \in [Ids -> SUBSET Events] BY <1>3, CardFields DEF TypeOK
  <1>5. aim' \subseteq Ids
    <2>1. ASSUME NEW S \in Clusters(SeedCases) PROVE UNION {RareSeeds(h) : h \in S} \in Ids
      <3>1. S \subseteq SeededCases(SeedCases) /\ S # {} BY DEF Clusters
      <3>2. PICK h \in S : CoreFor(RareSeeds(h)) # {} BY <3>1 DEF SeededCases
      <3>3. RareSeeds(h) # {} BY <3>2 DEF CoreFor
      <3>4. \A g \in S : RareSeeds(g) \subseteq Seeds BY <1>3, SeedsTyped DEF RareSeeds
      <3> DEFINE all == UNION {RareSeeds(g) : g \in S}
      <3>5. all \subseteq Seeds /\ all # {} BY <3>2, <3>3, <3>4
      <3> QED BY <3>5 DEF Ids
    <2> QED BY <1>1, <2>1 DEF BatchIds
  <1> HIDE DEF editions
  <1>6. /\ prev' \in [Runners -> [Ids -> SUBSET Events]] /\ seen' \in [Runners -> SUBSET Events]
        /\ todo' \in [Runners -> SUBSET SUBSET Events] /\ step' \in [Runners -> Steps]
    BY <1>1, <1>3, <1>4, SeedsTyped DEF TypeOK, Steps
  <1>7. /\ rarity' \in [Runners -> [Seeds -> {"unknown", "rare", "common"}]]
        /\ groups' \in [Runners -> SUBSET Group] /\ fresh' \in [Runners -> SUBSET Ids]
        /\ hand' \in [Runners -> Hands]
    BY <1>1, <1>3, NoCardIsCard DEF TypeOK
  <1>8. runs' \in 0 .. MaxRuns /\ calm' \subseteq Runners
    BY <1>1, <1>2, <1>3, AutoAssemblyAssumption DEF TypeOK
  <1>9. TypeOK' BY <1>1, <1>3, <1>5, <1>6, <1>7, <1>8 DEF TypeOK
  <1>10. \A q \in Runners : /\ groups'[q] = groups[q] \/ groups'[q] = {}
                            /\ hand'[q] = hand[q] \/ hand'[q] = Empty
    BY <1>1, <1>3 DEF TypeOK
  <1>11. NothingHollow'
    <2>1. \A id \in Ids : Empty[id].status # "triage" BY DEF Empty, NoCard
    <2> QED BY <1>1, <1>10, <2>1, SameCores DEF TInv, NothingHollow, IsOpen
  <1> QED BY <1>9, <1>11 DEF TInv

(* What PlanCase makes of one seed case.                                     *)
Counts(r, h) == [s \in Seeds |->
  IF s \notin CandidateSeeds(h) \/ rarity[r][s] # "unknown" THEN rarity[r][s]
  ELSE IF Occurrences(s) <= MaxOccurrences THEN "rare" ELSE "common"]

Distinctive(r, h) == {s \in CandidateSeeds(h) : Counts(r, h)[s] = "rare"}

NewGroup(r, h) == [seeds |-> Distinctive(r, h), events |-> CoreFor(Distinctive(r, h))]

NewGroups(r, h) == IF CoreFor(Distinctive(r, h)) = {} THEN groups[r]
                   ELSE MergeOverlapping(groups[r], NewGroup(r, h))

LEMMA PlanCaseIs ==
  ASSUME NEW r \in Runners, NEW h, PlanCase(r, h)
  PROVE  /\ step[r] = "plan" /\ h \in todo[r] /\ todo' = [todo EXCEPT ![r] = @ \ {h}]
         /\ rarity' = [rarity EXCEPT ![r] = Counts(r, h)]
         /\ groups' = [groups EXCEPT ![r] = NewGroups(r, h)]
         /\ UNCHANGED <<ingest, shut, card, step, prev, seen, fresh, hand,
                        runs, acts, crashes, calm, aim>>
  BY DEF PlanCase, Counts, Distinctive, NewGroup, NewGroups, envVars, counters, history

LEMMA PlanCaseTyped ==
  ASSUME TInv, NEW r \in Runners, NEW h \in todo[r], PlanCase(r, h)
  PROVE  TInv'
  <1> DEFINE new == NewGroup(r, h)
  <1>1. /\ todo' = [todo EXCEPT ![r] = @ \ {h}]
        /\ rarity' = [rarity EXCEPT ![r] = Counts(r, h)]
        /\ groups' = [groups EXCEPT ![r] = NewGroups(r, h)]
        /\ UNCHANGED <<ingest, shut, card, step, prev, seen, fresh, hand,
                       runs, acts, crashes, calm, aim>>
    BY PlanCaseIs
  <1>2. TypeOK BY DEF TInv
  <1>3. Counts(r, h) \in [Seeds -> {"unknown", "rare", "common"}]
    BY <1>2 DEF Counts, TypeOK
  <1>4. new \in Group
    <2>1. Distinctive(r, h) \subseteq Seeds BY <1>2, SeedsTyped DEF Distinctive
    <2>2. CoreFor(Distinctive(r, h)) \subseteq Events BY <1>2, SeedsTyped
    <2> QED BY <2>1, <2>2 DEF NewGroup, Group
  <1>5. groups[r] \in SUBSET Group BY <1>2 DEF TypeOK
  <1>6. NewGroups(r, h) \in SUBSET Group BY <1>4, <1>5, MergeTyped DEF NewGroups
  <1>7. TypeOK' BY <1>1, <1>2, <1>3, <1>6 DEF TypeOK
  <1>8. ASSUME NEW g \in NewGroups(r, h) PROVE CoreFor(g.seeds) # {}
    <2>1. CASE g \in groups[r] BY <2>1 DEF TInv, NothingHollow
    <2>2. CASE g \notin groups[r]
      <3>1. CoreFor(Distinctive(r, h)) # {} /\ g \in MergeOverlapping(groups[r], new)
        BY <1>8, <2>2 DEF NewGroups
      <3>2. Distinctive(r, h) \subseteq g.seeds
        BY <2>2, <3>1 DEF MergeOverlapping, NewGroup
      <3> QED BY <3>1, <3>2 DEF CoreFor
    <2> QED BY <2>1, <2>2
  <1>9. NothingHollow'
    <2>1. groups'[r] = NewGroups(r, h) /\ \A q \in Runners : q # r => groups'[q] = groups[q]
      BY <1>1, <1>2 DEF TypeOK
    <2> QED BY <1>1, <1>8, <2>1, SameCores DEF TInv, NothingHollow, IsOpen
  <1> QED BY <1>7, <1>9 DEF TInv

(* A run goes on, its hand is filled anew.                                   *)
LEMMA HandTyped ==
  ASSUME TInv, NEW r \in Runners, NEW s \in Steps, step' = [step EXCEPT ![r] = s],
         hand' \in [Runners -> Hands],
         UNCHANGED <<ingest, shut, card, prev, seen, todo, rarity, groups, fresh,
                     runs, acts, crashes, calm, aim>>,
         \A q \in Runners, id \in Ids : \/ hand'[q][id] \in {hand[q][id], card[id]}
                                        \/ hand'[q][id].status # "triage"
  PROVE  TInv'
  <1>1. step' \in [Runners -> Steps] BY DEF TInv, TypeOK
  <1>2. TypeOK' BY <1>1 DEF TInv, TypeOK
  <1>3. \A q \in Runners, id \in Ids :
          hand'[q][id].status = "triage" => hand'[q][id].events # {}
    BY DEF TInv, NothingHollow, IsOpen
  <1>4. NothingHollow' BY <1>3, SameCores DEF TInv, NothingHollow, IsOpen
  <1> QED BY <1>2, <1>4 DEF TInv

LEMMA TurnsTyped ==
  ASSUME TInv, NEW r \in Runners, PlanDone(r) \/ SavesDone(r) \/ RetireRead(r)
  PROVE  TInv'
  <1> USE DEF GoTo, envVars, counters, history, Steps
  <1>1. CASE PlanDone(r)
    <2>1. hand' = hand /\ hand \in [Runners -> Hands] BY <1>1 DEF PlanDone, TInv, TypeOK
    <2> QED BY <1>1, <2>1, HandTyped DEF PlanDone
  <1>2. CASE SavesDone(r)
    <2> DEFINE h == [id \in Ids |-> IF id \in fresh[r] THEN card[id] ELSE NoCard]
    <2>1. hand' = [hand EXCEPT ![r] = h] BY <1>2 DEF SavesDone
    <2>2. h \in Hands BY NoCardIsCard DEF Hands, TInv, TypeOK
    <2>3. \A id \in Ids : h[id] = card[id] \/ h[id].status # "triage" BY DEF NoCard
    <2> HIDE DEF h
    <2>4. /\ hand' \in [Runners -> Hands] /\ hand'[r] = h
          /\ \A q \in Runners : q # r => hand'[q] = hand[q]
      BY <2>1, <2>2 DEF TInv, TypeOK
    <2>5. \A q \in Runners, id \in Ids : \/ hand'[q][id] \in {hand[q][id], card[id]}
                                         \/ hand'[q][id].status # "triage"
      BY <2>3, <2>4
    <2> QED BY <1>2, <2>4, <2>5, HandTyped DEF SavesDone
  <1>3. CASE RetireRead(r)
    <2> DEFINE h == [id \in Ids |-> IF prev[r][id] # {} /\ id \notin fresh[r] /\ Retires(id)
                                    THEN [card[id] EXCEPT !.status = "merged"] ELSE NoCard]
    <2>1. hand' = [hand EXCEPT ![r] = h] BY <1>3 DEF RetireRead
    <2>2. \A id \in Ids : card[id] \in Card BY DEF TInv, TypeOK
    <2>3. \A id \in Ids : h[id] \in Card /\ h[id].status # "triage"
      BY <2>2, Closed, NoCardIsCard DEF NoCard
    <2>4. h \in Hands BY <2>3 DEF Hands
    <2> HIDE DEF h
    <2>5. /\ hand' \in [Runners -> Hands] /\ hand'[r] = h
          /\ \A q \in Runners : q # r => hand'[q] = hand[q]
      BY <2>1, <2>4 DEF TInv, TypeOK
    <2>6. \A q \in Runners, id \in Ids : \/ hand'[q][id] \in {hand[q][id], card[id]}
                                         \/ hand'[q][id].status # "triage"
      BY <2>3, <2>5
    <2> QED BY <1>3, <2>5, <2>6, HandTyped DEF RetireRead
  <1> QED BY <1>1, <1>2, <1>3

(* One card is saved.                                                        *)
LEMMA CardTyped ==
  ASSUME TInv, NEW r \in Runners, NEW id \in Ids, NEW c \in Card, NEW s \in Steps,
         card' = [card EXCEPT ![id] = c], c.status = "triage" => c.events # {},
         step' = [step EXCEPT ![r] = s], hand' \in [Runners -> Hands],
         \A q \in Runners, i \in Ids : \/ hand'[q][i] \in {hand[q][i], c}
                                       \/ hand'[q][i].status # "triage",
         prev' \in [Runners -> [Ids -> SUBSET Events]], fresh' \in [Runners -> SUBSET Ids],
         UNCHANGED <<ingest, shut, seen, todo, rarity, groups, runs, acts, crashes, calm, aim>>
  PROVE  TInv'
  <1>1. /\ step' \in [Runners -> Steps] /\ card' \in [Ids -> Card]
        /\ \A i \in Ids : card'[i] = card[i] \/ card'[i] = c
    BY DEF TInv, TypeOK
  <1>2. TypeOK' BY <1>1 DEF TInv, TypeOK
  <1>3. \A q \in Runners, i \in Ids :
          hand'[q][i].status = "triage" => hand'[q][i].events # {}
    BY DEF TInv, NothingHollow
  <1>4. NothingHollow' BY <1>1, <1>3, SameCores DEF TInv, NothingHollow, IsOpen
  <1> QED BY <1>2, <1>4 DEF TInv

(* The card a run builds for a group.                                        *)
Built(r, id) == [status |-> "triage", events |-> CoreFor(id), marks |-> {},
                 hits |-> CoreFor(id) \cap Triggering \cap seen[r]]

LEMMA SaveCardIs ==
  ASSUME TInv, NEW r \in Runners, NEW g \in groups[r], SaveCard(r, g)
  PROVE  /\ step[r] = "save" /\ g.seeds \in Ids \ fresh[r]
         /\ Built(r, g.seeds) \in Card /\ CoreFor(g.seeds) # {} /\ Built(r, g.seeds) # NoCard
         /\ card' = [card EXCEPT ![g.seeds] = Built(r, g.seeds)]
         /\ hand' \in [Runners -> Hands] /\ hand'[r][g.seeds] = Built(r, g.seeds)
         /\ \A id \in Ids : id # g.seeds => hand'[r][id] = NoCard
         /\ \A q \in Runners : q # r => hand'[q] = hand[q]
         /\ fresh' = [fresh EXCEPT ![r] = @ \cup {g.seeds}]
         /\ step' = [step EXCEPT ![r] = "mark"]
         /\ UNCHANGED <<ingest, shut, prev, seen, todo, rarity, groups,
                        runs, acts, crashes, calm, aim>>
  <1> DEFINE id == g.seeds
             h  == [Empty EXCEPT ![id] = Built(r, id)]
  <1>1. /\ step[r] = "save" /\ id \notin fresh[r]
        /\ card' = [card EXCEPT ![id] = Built(r, id)] /\ hand' = [hand EXCEPT ![r] = h]
        /\ fresh' = [fresh EXCEPT ![r] = @ \cup {id}] /\ step' = [step EXCEPT ![r] = "mark"]
        /\ UNCHANGED <<ingest, shut, prev, seen, todo, rarity, groups,
                       runs, acts, crashes, calm, aim>>
    BY DEF SaveCard, Built, GoTo, envVars, counters, history
  <1>2. CoreFor(id) # {} /\ id \in Ids
    <2>1. CoreFor(id) # {} BY DEF TInv, NothingHollow
    <2>2. id # {} BY <2>1 DEF CoreFor
    <2>3. id \subseteq Seeds BY DEF TInv, TypeOK, Group
    <2> QED BY <2>1, <2>2, <2>3 DEF Ids
  <1>3. Built(r, id) \in Card /\ Built(r, id) # NoCard
    <2>1. CoreFor(id) \subseteq Events BY SeedsTyped DEF TInv
    <2> QED BY <2>1 DEF Built, Card, NoCard
  <1>4. h \in Hands /\ h[id] = Built(r, id) /\ \A i \in Ids : i # id => h[i] = NoCard
    BY <1>2, <1>3, NoCardIsCard DEF Empty, Hands
  <1> HIDE DEF h
  <1>5. /\ hand' \in [Runners -> Hands] /\ hand'[r] = h
        /\ \A q \in Runners : q # r => hand'[q] = hand[q]
    BY <1>1, <1>4 DEF TInv, TypeOK
  <1> QED BY <1>1, <1>2, <1>3, <1>4, <1>5

LEMMA SaveCardTyped ==
  ASSUME TInv, NEW r \in Runners, NEW g \in groups[r], SaveCard(r, g)
  PROVE  TInv'
  <1> DEFINE id == g.seeds
  <1>1. /\ id \in Ids /\ Built(r, id) \in Card /\ CoreFor(id) # {}
        /\ card' = [card EXCEPT ![id] = Built(r, id)] /\ hand' \in [Runners -> Hands]
        /\ hand'[r][id] = Built(r, id) /\ \A i \in Ids : i # id => hand'[r][i] = NoCard
        /\ \A q \in Runners : q # r => hand'[q] = hand[q]
        /\ fresh' = [fresh EXCEPT ![r] = @ \cup {id}] /\ step' = [step EXCEPT ![r] = "mark"]
        /\ UNCHANGED <<ingest, shut, prev, seen, todo, rarity, groups,
                       runs, acts, crashes, calm, aim>>
    BY SaveCardIs
  <1>2. /\ Built(r, id).events # {} /\ NoCard.status # "triage" /\ "mark" \in Steps
        /\ prev' \in [Runners -> [Ids -> SUBSET Events]] /\ fresh' \in [Runners -> SUBSET Ids]
    BY <1>1 DEF Built, NoCard, Steps, TInv, TypeOK
  <1>3. \A q \in Runners, i \in Ids : \/ hand'[q][i] \in {hand[q][i], Built(r, id)}
                                      \/ hand'[q][i].status # "triage"
    BY <1>1, <1>2
  <1> HIDE DEF id
  <1> QED BY <1>1, <1>2, <1>3, CardTyped

LEMMA SaveMarkedIs ==
  ASSUME TInv, NEW r \in Runners, NEW id \in Ids, SaveMarked(r, id)
  PROVE  \E c \in Card :
         /\ step[r] = "mark" /\ hand[r][id] # NoCard
         /\ c.status = hand[r][id].status /\ c.events = hand[r][id].events /\ c.marks = {"auto"}
         /\ card' = [card EXCEPT ![id] = c] /\ hand' \in [Runners -> Hands]
         /\ hand'[r] = Empty /\ \A q \in Runners : q # r => hand'[q] = hand[q]
         /\ step' = [step EXCEPT ![r] = "save"]
         /\ UNCHANGED <<ingest, shut, prev, seen, todo, rarity, groups, fresh,
                        runs, acts, crashes, calm, aim>>
  <1> DEFINE c == [hand[r][id] EXCEPT !.marks = {"auto"}]
  <1>1. hand[r][id] \in Card BY DEF TInv, TypeOK, Hands
  <1>2. /\ c \in Card /\ c.marks = {"auto"}
        /\ c.status = hand[r][id].status /\ c.events = hand[r][id].events
    BY <1>1 DEF Card
  <1>3. /\ step[r] = "mark" /\ hand[r][id] # NoCard
        /\ card' = [card EXCEPT ![id] = c] /\ hand' = [hand EXCEPT ![r] = Empty]
        /\ step' = [step EXCEPT ![r] = "save"]
        /\ UNCHANGED <<ingest, shut, prev, seen, todo, rarity, groups, fresh,
                       runs, acts, crashes, calm, aim>>
    BY DEF SaveMarked, GoTo, envVars, counters, history
  <1> HIDE DEF c
  <1>4. /\ hand' \in [Runners -> Hands] /\ hand'[r] = Empty
        /\ \A q \in Runners : q # r => hand'[q] = hand[q]
    BY <1>3, NoCardIsCard DEF TInv, TypeOK
  <1> QED BY <1>2, <1>3, <1>4

LEMMA SaveMarkedTyped ==
  ASSUME TInv, NEW r \in Runners, NEW id \in Ids, SaveMarked(r, id)
  PROVE  TInv'
  <1>1. PICK c \in Card :
         /\ c.status = hand[r][id].status /\ c.events = hand[r][id].events
         /\ card' = [card EXCEPT ![id] = c] /\ hand' \in [Runners -> Hands]
         /\ hand'[r] = Empty /\ \A q \in Runners : q # r => hand'[q] = hand[q]
         /\ step' = [step EXCEPT ![r] = "save"]
         /\ UNCHANGED <<ingest, shut, prev, seen, todo, rarity, groups, fresh,
                        runs, acts, crashes, calm, aim>>
    BY SaveMarkedIs
  <1>2. /\ c.status = "triage" => c.events # {}
        /\ \A i \in Ids : Empty[i].status # "triage"
        /\ "save" \in Steps /\ prev' \in [Runners -> [Ids -> SUBSET Events]]
        /\ fresh' \in [Runners -> SUBSET Ids]
    BY <1>1 DEF TInv, NothingHollow, TypeOK, Empty, NoCard, Steps
  <1>3. \A q \in Runners, i \in Ids : \/ hand'[q][i] \in {hand[q][i], c}
                                      \/ hand'[q][i].status # "triage"
    BY <1>1, <1>2
  <1> QED BY <1>1, <1>2, <1>3, CardTyped

LEMMA SupersedeReadIs ==
  ASSUME TInv, NEW r \in Runners, NEW id \in Ids, SupersedeRead(r, id)
  PROVE  \E c \in Card :
         /\ step[r] = "supersede" /\ Overlapped(r, id) /\ c.status = "merged"
         /\ hand' \in [Runners -> Hands] /\ hand'[r][id] = c
         /\ \A i \in Ids : i # id => hand'[r][i] = hand[r][i]
         /\ \A q \in Runners : q # r => hand'[q] = hand[q]
         /\ step' = [step EXCEPT ![r] = "close"]
         /\ UNCHANGED <<ingest, shut, card, prev, seen, todo, rarity, groups, fresh,
                        runs, acts, crashes, calm, aim>>
  <1> DEFINE c == [card[id] EXCEPT !.status = "merged"]
  <1>1. c \in Card /\ c.status = "merged" BY Closed DEF TInv, TypeOK
  <1>2. /\ step[r] = "supersede" /\ Overlapped(r, id) /\ hand' = [hand EXCEPT ![r][id] = c]
        /\ step' = [step EXCEPT ![r] = "close"]
        /\ UNCHANGED <<ingest, shut, card, prev, seen, todo, rarity, groups, fresh,
                       runs, acts, crashes, calm, aim>>
    BY DEF SupersedeRead, GoTo, envVars, counters, history
  <1>3. hand \in [Runners -> Hands] BY DEF TInv, TypeOK
  <1> HIDE DEF c
  <1>4. /\ hand' \in [Runners -> Hands] /\ hand'[r][id] = c
        /\ \A i \in Ids : i # id => hand'[r][i] = hand[r][i]
        /\ \A q \in Runners : q # r => hand'[q] = hand[q]
    BY <1>1, <1>2, <1>3, Handed
  <1> QED BY <1>1, <1>2, <1>4

(* What SupersedeSave and RetireSave have in common.                         *)
HandSaved(r, id) ==
  /\ card' = [card EXCEPT ![id] = hand[r][id]]
  /\ hand' \in [Runners -> Hands] /\ hand'[r][id] = NoCard
  /\ \A i \in Ids : i # id => hand'[r][i] = hand[r][i]
  /\ \A q \in Runners : q # r => hand'[q] = hand[q]
  /\ UNCHANGED <<ingest, shut, seen, todo, rarity, groups, fresh, runs, acts, crashes, calm, aim>>

LEMMA Forgotten ==
  ASSUME prev \in [Runners -> [Ids -> SUBSET Events]], NEW r \in Runners, NEW id \in Ids,
         prev' = [prev EXCEPT ![r][id] = {}]
  PROVE  /\ prev' \in [Runners -> [Ids -> SUBSET Events]]
         /\ \A i \in Ids : i # id => prev'[r][i] = prev[r][i]
  <1> DEFINE p == [prev[r] EXCEPT ![id] = {}]
  <1>1. p \in [Ids -> SUBSET Events] /\ \A i \in Ids : i # id => p[i] = prev[r][i]
    OBVIOUS
  <1>2. prev' = [prev EXCEPT ![r] = p] OBVIOUS
  <1> HIDE DEF p
  <1>3. prev' \in [Runners -> [Ids -> SUBSET Events]] /\ prev'[r] = p BY <1>1, <1>2
  <1> QED BY <1>1, <1>3

LEMMA SupersedeSaveIs ==
  ASSUME TInv, NEW r \in Runners, NEW id \in Ids, SupersedeSave(r, id)
  PROVE  /\ step[r] = "close" /\ hand[r][id].status = "merged" /\ HandSaved(r, id)
         /\ prev' = [prev EXCEPT ![r][id] = {}] /\ step' = [step EXCEPT ![r] = "supersede"]
  <1>1. /\ step[r] = "close" /\ hand[r][id].status = "merged"
        /\ card' = [card EXCEPT ![id] = hand[r][id]] /\ hand' = [hand EXCEPT ![r][id] = NoCard]
        /\ prev' = [prev EXCEPT ![r][id] = {}] /\ step' = [step EXCEPT ![r] = "supersede"]
        /\ UNCHANGED <<ingest, shut, seen, todo, rarity, groups, fresh,
                       runs, acts, crashes, calm, aim>>
    BY DEF SupersedeSave, GoTo, envVars, counters, history
  <1>2. hand \in [Runners -> Hands] /\ NoCard \in Card BY NoCardIsCard DEF TInv, TypeOK
  <1>3. /\ hand' \in [Runners -> Hands] /\ hand'[r][id] = NoCard
        /\ \A i \in Ids : i # id => hand'[r][i] = hand[r][i]
        /\ \A q \in Runners : q # r => hand'[q] = hand[q]
    BY <1>1, <1>2, Handed
  <1> QED BY <1>1, <1>3 DEF HandSaved

LEMMA RetireSaveIs ==
  ASSUME TInv, NEW r \in Runners, NEW id \in Ids, RetireSave(r, id)
  PROVE  /\ step[r] = "retire" /\ hand[r][id] # NoCard /\ HandSaved(r, id)
         /\ UNCHANGED <<prev, step>>
  <1>1. /\ step[r] = "retire" /\ hand[r][id] # NoCard
        /\ card' = [card EXCEPT ![id] = hand[r][id]] /\ hand' = [hand EXCEPT ![r][id] = NoCard]
        /\ UNCHANGED <<ingest, shut, step, prev, seen, todo, rarity, groups, fresh,
                       runs, acts, crashes, calm, aim>>
    BY DEF RetireSave, envVars, counters, history
  <1>2. hand \in [Runners -> Hands] /\ NoCard \in Card BY NoCardIsCard DEF TInv, TypeOK
  <1>3. /\ hand' \in [Runners -> Hands] /\ hand'[r][id] = NoCard
        /\ \A i \in Ids : i # id => hand'[r][i] = hand[r][i]
        /\ \A q \in Runners : q # r => hand'[q] = hand[q]
    BY <1>1, <1>2, Handed
  <1> QED BY <1>1, <1>3 DEF HandSaved

LEMMA ReviewTyped ==
  ASSUME TInv, NEW r \in Runners, NEW id \in Ids,
         SupersedeRead(r, id) \/ SupersedeSave(r, id) \/ RetireSave(r, id)
  PROVE  TInv'
  <1>1. CASE SupersedeRead(r, id)
    <2>1. PICK c \in Card :
         /\ c.status = "merged" /\ hand' \in [Runners -> Hands] /\ hand'[r][id] = c
         /\ \A i \in Ids : i # id => hand'[r][i] = hand[r][i]
         /\ \A q \in Runners : q # r => hand'[q] = hand[q]
         /\ step' = [step EXCEPT ![r] = "close"]
         /\ UNCHANGED <<ingest, shut, card, prev, seen, todo, rarity, groups, fresh,
                        runs, acts, crashes, calm, aim>>
      BY <1>1, SupersedeReadIs
    <2>2. \A q \in Runners, i \in Ids : \/ hand'[q][i] \in {hand[q][i], card[i]}
                                        \/ hand'[q][i].status # "triage"
      BY <2>1
    <2>3. "close" \in Steps BY DEF Steps
    <2> QED BY <2>1, <2>2, <2>3, HandTyped
  <1>2. CASE SupersedeSave(r, id) \/ RetireSave(r, id)
    <2>1. PICK s \in Steps :
            /\ HandSaved(r, id) /\ step' = [step EXCEPT ![r] = s]
            /\ prev' = prev \/ prev' = [prev EXCEPT ![r][id] = {}]
      <3>1. CASE SupersedeSave(r, id)
        <4>1. "supersede" \in Steps BY DEF Steps
        <4> QED BY <3>1, <4>1, SupersedeSaveIs
      <3>2. CASE RetireSave(r, id)
        <4>1. step' = [step EXCEPT ![r] = step[r]] /\ step[r] \in Steps
          BY <3>2, RetireSaveIs DEF TInv, TypeOK
        <4> QED BY <3>2, <4>1, RetireSaveIs
      <3> QED BY <1>2, <3>1, <3>2
    <2>2. prev' \in [Runners -> [Ids -> SUBSET Events]] BY <2>1, Forgotten DEF TInv, TypeOK
    <2>3. hand[r][id] \in Card BY DEF TInv, TypeOK, Hands
    <2>4. hand[r][id].status = "triage" => hand[r][id].events # {} BY DEF TInv, NothingHollow
    <2>5. \A q \in Runners, i \in Ids : \/ hand'[q][i] \in {hand[q][i], hand[r][id]}
                                        \/ hand'[q][i].status # "triage"
      BY <2>1 DEF HandSaved, NoCard
    <2>6. fresh' \in [Runners -> SUBSET Ids] BY <2>1 DEF HandSaved, TInv, TypeOK
    <2> QED BY <2>1, <2>2, <2>3, <2>4, <2>5, <2>6, CardTyped DEF HandSaved
  <1> QED BY <1>1, <1>2

LEMMA OverTyped ==
  ASSUME TInv, NEW r \in Runners, Finish(r) \/ CutOff(r)
  PROVE  TInv'
  <1>1. /\ step' = [step EXCEPT ![r] = "idle"]
        /\ prev' = [prev EXCEPT ![r] = [id \in Ids |-> {}]]
        /\ seen' = [seen EXCEPT ![r] = {}] /\ todo' = [todo EXCEPT ![r] = {}]
        /\ groups' = [groups EXCEPT ![r] = {}] /\ fresh' = [fresh EXCEPT ![r] = {}]
        /\ hand' = [hand EXCEPT ![r] = Empty]
        /\ UNCHANGED <<ingest, shut, card, rarity, runs, acts, aim>>
    BY DEF Finish, CutOff, Over, GoTo, envVars, counters
  <1>2. calm' \in {{}, calm} BY DEF Finish, CutOff
  <1>3. crashes' \in 0 .. MaxCrashes
    <2>1. crashes' = crashes \/ (crashes < MaxCrashes /\ crashes' = crashes + 1)
      BY DEF Finish, CutOff, counters
    <2> QED BY <2>1, AutoAssemblyAssumption DEF TInv, TypeOK
  <1>4. TypeOK BY DEF TInv
  <1>5. /\ step' \in [Runners -> Steps] /\ prev' \in [Runners -> [Ids -> SUBSET Events]]
        /\ seen' \in [Runners -> SUBSET Events] /\ todo' \in [Runners -> SUBSET SUBSET Events]
    BY <1>1, <1>4 DEF TypeOK, Steps
  <1>6. /\ groups' \in [Runners -> SUBSET Group] /\ fresh' \in [Runners -> SUBSET Ids]
        /\ hand' \in [Runners -> Hands]
    BY <1>1, <1>4, NoCardIsCard DEF TypeOK
  <1>7. TypeOK' BY <1>1, <1>2, <1>3, <1>4, <1>5, <1>6 DEF TypeOK
  <1>8. \A q \in Runners : /\ groups'[q] = groups[q] \/ groups'[q] = {}
                           /\ hand'[q] = hand[q] \/ hand'[q] = Empty
    BY <1>1, <1>4 DEF TypeOK
  <1>9. NothingHollow'
    <2>1. \A id \in Ids : Empty[id].status # "triage" BY DEF Empty, NoCard
    <2> QED BY <1>1, <1>8, <2>1, SameCores DEF TInv, NothingHollow, IsOpen
  <1> QED BY <1>7, <1>9 DEF TInv

LEMMA TNext == TInv /\ [Next]_vars => TInv'
  <1> SUFFICES ASSUME TInv, [Next]_vars PROVE TInv'
    OBVIOUS
  <1>1. ASSUME NEW r \in Runners, Run(r) PROVE TInv'
    <2>1. CASE Begin(r) BY <2>1, BeginTyped
    <2>2. CASE PlanDone(r) \/ SavesDone(r) \/ RetireRead(r) BY <2>2, TurnsTyped
    <2>3. CASE Finish(r) \/ CutOff(r) BY <2>3, OverTyped
    <2>4. CASE \E h \in todo[r] : PlanCase(r, h) BY <2>4, PlanCaseTyped
    <2>5. CASE \E g \in groups[r] : SaveCard(r, g) BY <2>5, SaveCardTyped
    <2>6. CASE \E id \in Ids : SaveMarked(r, id) BY <2>6, SaveMarkedTyped
    <2>7. CASE \E id \in Ids : SupersedeRead(r, id) \/ SupersedeSave(r, id) \/ RetireSave(r, id)
      BY <2>7, ReviewTyped
    <2> QED BY <1>1, <2>1, <2>2, <2>3, <2>4, <2>5, <2>6, <2>7 DEF Run
  <1>2. CASE \E e \in Events : ProcessEvent(e) \/ AddRecentEvent(e) BY <1>2, TStream
  <1>3. CASE (\E c \in Cases : CloseCase(c)) \/ (\E id \in Ids : WorkOnCard(id))
    BY <1>3, TAnalyst
  <1>4. CASE UNCHANGED vars
    <2>1. TypeOK' BY <1>4 DEF vars, envVars, runVars, counters, history, TInv, TypeOK
    <2>2. NothingHollow'
      BY <1>4, SameCores DEF vars, envVars, runVars, TInv, NothingHollow, IsOpen
    <2> QED BY <2>1, <2>2 DEF TInv
  <1> QED BY <1>1, <1>2, <1>3, <1>4 DEF Next

(* What the types rest on: what a group and an open card were found by has    *)
(* been stored and stays (the inductive invariant).                          *)
THEOREM TInductive == Spec => []TInv
  <1> QED BY TInit, TNext, PTL DEF Spec

(* Every variable of the assembly keeps its type, and with it: an assembled   *)
(* incident is named by at least one seed, for every run and any overlap.    *)
THEOREM TypeCorrect == Spec => []TypeOK
  <1>1. TInv => TypeOK BY DEF TInv
  <1> QED BY <1>1, TInductive, PTL

-----------------------------------------------------------------------------
(* The groups of a run over a stream at rest are the clusters of its seed    *)
(* cases.                                                                    *)

LEMMA LinksBothWays == \A g, h : Linked(g, h) <=> Linked(h, g)
  BY DEF Linked

(* What is linked in itself and with nothing outside is a cluster, and there  *)
(* is no other.                                                              *)
LEMMA BlocksAreClusters ==
  ASSUME NEW cases, NEW P, Blocks(P, cases)
  PROVE  P = Clusters(cases)
  <1> DEFINE all == SeededCases(cases)
  <1>1. UNION P = all BY DEF Blocks
  <1>2. ASSUME NEW B \in P, NEW g \in B, NEW h \in all, Linked(g, h) PROVE h \in B
    <2>1. PICK C \in P : h \in C BY <1>1
    <2>2. C = B BY <1>2, <2>1 DEF Blocks
    <2> QED BY <2>1, <2>2
  <1>3. ASSUME NEW B \in P PROVE B \in Clusters(cases)
    <2>1. Connected(B) /\ B \subseteq all BY <1>1 DEF Blocks
    <2>2. ClosedUnderLinks(B, cases) BY <1>2 DEF ClosedUnderLinks
    <2>3. ASSUME NEW T \in (SUBSET B) \ {{}, B} PROVE ~ClosedUnderLinks(T, cases)
      <3>1. PICK g \in T, h \in B \ T : Linked(g, h) BY <2>1 DEF Connected
      <3> QED BY <2>1, <3>1 DEF ClosedUnderLinks
    <2> QED BY <2>1, <2>2, <2>3 DEF Clusters, Connected
  <1>4. ASSUME NEW S \in Clusters(cases) PROVE S \in P
    <2>1. /\ S \subseteq all /\ S # {} /\ ClosedUnderLinks(S, cases)
          /\ \A T \in (SUBSET S) \ {{}, S} : ~ClosedUnderLinks(T, cases)
      BY DEF Clusters
    <2>2. PICK s \in S : s \in all BY <2>1
    <2>3. PICK B \in P : s \in B BY <1>1, <2>2
    <2>4. ClosedUnderLinks(S \cap B, cases) BY <1>2, <2>1, <2>3 DEF ClosedUnderLinks
    <2>5. S \cap B = S BY <2>1, <2>2, <2>3, <2>4
    <2>6. S \subseteq B BY <2>5
    <2>7. Connected(B) /\ B \subseteq all BY <1>1 DEF Blocks
    <2>8. S = B
      <3>1. SUFFICES ASSUME S # B PROVE FALSE
        OBVIOUS
      <3>2. S \in (SUBSET B) \ {{}, B} BY <2>1, <2>6, <3>1
      <3>3. PICK g \in S, h \in B \ S : Linked(g, h) BY <2>7, <3>2 DEF Connected
      <3> QED BY <2>1, <2>7, <3>3 DEF ClosedUnderLinks
    <2> QED BY <2>8
  <1> QED BY <1>3, <1>4

(* Blocks that are linked to the same seed case make one block with it.       *)
LEMMA LinkedTogether ==
  ASSUME NEW h, NEW met, \A B \in met : Connected(B) /\ \E g \in B : Linked(g, h)
  PROVE  Connected({h} \cup UNION met)
  <1> DEFINE N == {h} \cup UNION met
  <1>1. N # {} OBVIOUS
  <1>2. ASSUME NEW T \in (SUBSET N) \ {{}, N} PROVE \E g \in T, x \in N \ T : Linked(g, x)
    <2>1. ASSUME NEW B \in met, B \cap T # {}, ~(B \subseteq T)
          PROVE  \E g \in T, x \in N \ T : Linked(g, x)
      <3>1. B \cap T \in (SUBSET B) \ {{}, B} BY <2>1
      <3>2. PICK g \in B \cap T, x \in B \ (B \cap T) : Linked(g, x) BY <3>1 DEF Connected
      <3> QED BY <3>2
    <2>2. CASE h \in T
      <3>1. PICK y \in N \ T : TRUE BY <1>2
      <3>2. PICK B \in met : y \in B BY <2>2, <3>1
      <3>3. CASE B \cap T = {}
        <4>1. PICK g \in B : Linked(g, h) OBVIOUS
        <4>2. g \in N \ T /\ Linked(h, g) BY <3>3, <4>1, LinksBothWays
        <4> QED BY <2>2, <4>2
      <3>4. CASE B \cap T # {} BY <2>1, <3>1, <3>2, <3>4
      <3> QED BY <3>3, <3>4
    <2>3. CASE h \notin T
      <3>1. PICK y \in T : TRUE BY <1>2
      <3>2. PICK B \in met : y \in B BY <1>2, <2>3, <3>1
      <3>3. CASE B \subseteq T
        <4>1. PICK g \in B : Linked(g, h) OBVIOUS
        <4> QED BY <2>3, <3>3, <4>1
      <3>4. CASE ~(B \subseteq T) BY <2>1, <3>1, <3>2, <3>4
      <3> QED BY <3>3, <3>4
    <2> QED BY <2>2, <2>3
  <1> QED BY <1>1, <1>2 DEF Connected

Met(P, h) == {B \in P : \E g \in B : Linked(g, h)}

LEMMA BlocksMerge ==
  ASSUME NEW cases, NEW P, Blocks(P, cases), NEW h, CoreFor(RareSeeds(h)) # {}
  PROVE  Blocks((P \ Met(P, h)) \cup {{h} \cup UNION Met(P, h)}, cases \cup {h})
  <1> DEFINE met == Met(P, h)
             N   == {h} \cup UNION met
             Q   == (P \ met) \cup {N}
  <1>1. UNION Q = SeededCases(cases \cup {h})
    <2>1. UNION P = SeededCases(cases) BY DEF Blocks
    <2>2. SeededCases(cases \cup {h}) = SeededCases(cases) \cup {h} BY DEF SeededCases
    <2>3. ASSUME NEW B \in Q, NEW x \in B PROVE x \in (UNION P) \cup {h}
      <3>1. CASE B \in P \ met BY <2>3, <3>1
      <3>2. CASE B = N
        <4>1. x = h \/ \E C \in met : x \in C BY <2>3, <3>2
        <4> QED BY <4>1 DEF Met
      <3> QED BY <2>3, <3>1, <3>2
    <2>4. ASSUME NEW B \in P, NEW x \in B PROVE \E C \in Q : x \in C
      <3>1. CASE B \in met BY <2>4, <3>1
      <3>2. CASE B \notin met BY <2>4, <3>2
      <3> QED BY <3>1, <3>2
    <2>5. \E C \in Q : h \in C OBVIOUS
    <2> HIDE DEF Q, N, met
    <2>6. UNION Q = (UNION P) \cup {h} BY <2>3, <2>4, <2>5
    <2> QED BY <2>1, <2>2, <2>6 DEF Q
  <1>2. \A B \in met : Connected(B) /\ \E g \in B : Linked(g, h) BY DEF Met, Blocks
  <1>3. Connected(N) BY <1>2, LinkedTogether
  <1>4. \A B \in Q : Connected(B) BY <1>3 DEF Blocks
  <1>5. ASSUME NEW B \in P \ met, NEW g \in B, NEW x \in N, Linked(g, x) PROVE FALSE
    <2>1. x # h BY <1>5 DEF Met
    <2>2. PICK C \in met : x \in C BY <2>1
    <2>3. B = C BY <1>5, <2>2 DEF Blocks, Met
    <2> QED BY <2>2, <2>3
  <1>6. ASSUME NEW B \in Q, NEW C \in Q, NEW g \in B, NEW x \in C, Linked(g, x) PROVE B = C
    <2>1. CASE B \in P \ met /\ C \in P \ met BY <1>6, <2>1 DEF Blocks
    <2>2. CASE B \in P \ met /\ C = N BY <1>5, <1>6, <2>2
    <2>3. CASE B = N /\ C \in P \ met
      <3>1. Linked(x, g) BY <1>6, LinksBothWays
      <3> QED BY <1>5, <2>3, <3>1
    <2> QED BY <2>1, <2>2, <2>3
  <1> QED BY <1>1, <1>4, <1>6 DEF Blocks

(* And what _merge_overlapping does is to join exactly those blocks.          *)
LEMMA MergeJoins ==
  ASSUME NEW P, NEW h, NEW new,
         new = [seeds |-> RareSeeds(h), events |-> CoreFor(RareSeeds(h))]
  PROVE  MergeOverlapping({Joined(B) : B \in P}, new)
           = {Joined(B) : B \in (P \ Met(P, h)) \cup {{h} \cup UNION Met(P, h)}}
  <1> DEFINE met  == Met(P, h)
             N    == {h} \cup UNION met
             S    == {Joined(B) : B \in P}
             over == {g \in S : g.events \cap new.events # {}}
             joined == [seeds  |-> new.seeds \cup UNION {g.seeds : g \in over},
                        events |-> new.events \cup UNION {g.events : g \in over}]
  <1>1. MergeOverlapping(S, new) = (S \ over) \cup {joined} BY DEF MergeOverlapping
  <1>2. ASSUME NEW B
        PROVE  /\ Joined(B).seeds = UNION {RareSeeds(x) : x \in B}
               /\ Joined(B).events = UNION {CoreFor(RareSeeds(x)) : x \in B}
    BY DEF Joined
  <1>3. new.seeds = RareSeeds(h) /\ new.events = CoreFor(RareSeeds(h)) OBVIOUS
  <1>4. ASSUME NEW B \in P PROVE Joined(B).events \cap new.events # {} <=> B \in met
    BY <1>2, <1>3 DEF Met, Linked
  <1>5. over = {Joined(B) : B \in met} BY <1>4 DEF Met
  <1>6. S \ over = {Joined(B) : B \in P \ met} BY <1>4
  <1>7. UNION {g.seeds : g \in over} = UNION {RareSeeds(x) : x \in UNION met}
    BY <1>2, <1>5
  <1>8. UNION {g.events : g \in over} = UNION {CoreFor(RareSeeds(x)) : x \in UNION met}
    BY <1>2, <1>5
  <1>9. /\ new.seeds \cup UNION {g.seeds : g \in over} = UNION {RareSeeds(x) : x \in N}
        /\ new.events \cup UNION {g.events : g \in over} = UNION {CoreFor(RareSeeds(x)) : x \in N}
    BY <1>3, <1>7, <1>8
  <1>10. joined = Joined(N) BY <1>9 DEF Joined
  <1> HIDE DEF joined, over, met, N, S
  <1>11. (S \ over) \cup {joined} = {Joined(B) : B \in (P \ met) \cup {N}}
    BY <1>6, <1>10
  <1> QED BY <1>1, <1>11 DEF S, met, N

LEMMA JoinedIds ==
  ASSUME NEW cases, NEW P, Blocks(P, cases)
  PROVE  /\ {g.seeds : g \in {Joined(B) : B \in P}} = BatchIds(cases)
         /\ \A B \in P : Joined(B).events = CoreFor(Joined(B).seeds)
  <1>1. \A B : /\ Joined(B).seeds = UNION {RareSeeds(h) : h \in B}
               /\ Joined(B).events = UNION {CoreFor(RareSeeds(h)) : h \in B}
    BY DEF Joined
  <1>2. P = Clusters(cases) BY BlocksAreClusters
  <1>3. {g.seeds : g \in {Joined(B) : B \in P}} = BatchIds(cases)
    BY <1>1, <1>2 DEF BatchIds
  <1>4. \A B \in P : Joined(B).events = CoreFor(Joined(B).seeds)
    BY <1>1 DEF CoreFor
  <1> QED BY <1>3, <1>4

-----------------------------------------------------------------------------
(* What a run that overlaps no other has reached.                            *)

(* Nothing is stored, no card saved: the seed cases and their clusters stay.  *)
LEMMA Unmoved ==
  ASSUME ingest' = ingest
  PROVE  /\ \A h : RareSeeds(h)' = RareSeeds(h)
         /\ \A h : CoreFor(RareSeeds(h))' = CoreFor(RareSeeds(h))
         /\ \A g, h : Linked(g, h)' <=> Linked(g, h)
         /\ \A C : SeededCases(C)' = SeededCases(C)
         /\ \A B : Connected(B)' <=> Connected(B)
         /\ \A B : Joined(B)' = Joined(B)
         /\ \A P, C : Blocks(P, C)' <=> Blocks(P, C)
         /\ \A C : BatchIds(C)' = BatchIds(C)
  <1>1. Stored' = Stored BY DEF Stored
  <1>2. \A h : CoreFor(RareSeeds(h))' = CoreFor(RareSeeds(h))
    BY <1>1 DEF CoreFor, RareSeeds, CandidateSeeds, Occurrences
  <1>3. \A h : RareSeeds(h)' = RareSeeds(h)
    BY <1>1 DEF RareSeeds, CandidateSeeds, Occurrences
  <1>4. \A g, h : Linked(g, h)' <=> Linked(g, h) BY <1>2 DEF Linked
  <1>5. \A C : SeededCases(C)' = SeededCases(C) BY <1>2 DEF SeededCases
  <1>6. \A B : Connected(B)' <=> Connected(B) BY <1>4 DEF Connected
  <1>7. \A B : Joined(B)' = Joined(B) BY <1>2, <1>3 DEF Joined
  <1>8. \A P, C : Blocks(P, C)' <=> Blocks(P, C) BY <1>4, <1>5, <1>6 DEF Blocks
  <1>9. \A S, C : ClosedUnderLinks(S, C)' <=> ClosedUnderLinks(S, C)
    BY <1>4, <1>5 DEF ClosedUnderLinks
  <1>10. \A C : Clusters(C)' = Clusters(C) BY <1>5, <1>9 DEF Clusters
  <1>11. \A C : BatchIds(C)' = BatchIds(C) BY <1>3, <1>10 DEF BatchIds
  <1> QED BY <1>2, <1>3, <1>4, <1>5, <1>6, <1>7, <1>8, <1>11

LEMMA Sighted ==
  ASSUME UNCHANGED <<ingest, shut, card>>
  PROVE  /\ SeedCases' = SeedCases /\ OpenAuto' = OpenAuto
         /\ BatchIds(SeedCases)' = BatchIds(SeedCases)
  <1>1. SeedCases' = SeedCases /\ OpenAuto' = OpenAuto
    BY DEF SeedCases, HalfSaved, OpenAuto, Cased, IsOpen, IsAuto
  <1>2. BatchIds(SeedCases)' = BatchIds(SeedCases) BY <1>1, Unmoved
  <1> QED BY <1>1, <1>2

(* The cache of a run over a stream at rest says what the batch says.         *)
CacheHolds(r) ==
  \A s \in Seeds : rarity[r][s] # "unknown" =>
    (rarity[r][s] = "rare" <=> Occurrences(s) <= MaxOccurrences)

LEMMA DistinctiveAreRare ==
  ASSUME TypeOK, NEW r \in Runners, CacheHolds(r), NEW h
  PROVE  /\ Distinctive(r, h) = RareSeeds(h)
         /\ \A s \in Seeds : Counts(r, h)[s] # "unknown" =>
              (Counts(r, h)[s] = "rare" <=> Occurrences(s) <= MaxOccurrences)
  <1>1. CandidateSeeds(h) \subseteq Seeds BY SeedsTyped
  <1>2. ASSUME NEW s \in Seeds
        PROVE  Counts(r, h)[s] =
                 IF s \notin CandidateSeeds(h) \/ rarity[r][s] # "unknown" THEN rarity[r][s]
                 ELSE IF Occurrences(s) <= MaxOccurrences THEN "rare" ELSE "common"
    BY DEF Counts
  <1>3. \A s \in Seeds : Counts(r, h)[s] # "unknown" =>
          (Counts(r, h)[s] = "rare" <=> Occurrences(s) <= MaxOccurrences)
    BY <1>2 DEF CacheHolds
  <1>4. \A s \in CandidateSeeds(h) : Counts(r, h)[s] # "unknown" BY <1>1, <1>2
  <1> QED BY <1>1, <1>3, <1>4 DEF Distinctive, RareSeeds

(* The step of one run leaves the others where they are, at rest.             *)
LEMMA OnlyOneActs ==
  ASSUME CInv, TInv', RunsApart', NEW r \in Runners, NEW s \in Steps, s # "idle",
         step' = [step EXCEPT ![r] = s], calm' = calm, r \in calm => Undisturbed(r)'
  PROVE  CInv'
  <1>1. step'[r] = s /\ \A q \in Runners : q # r => step'[q] = "idle"
    <2>1. step'[r] = s BY DEF CInv, TInv, TypeOK
    <2> QED BY <2>1 DEF RunsApart
  <1>2. Converged' BY <1>1 DEF Converged
  <1>3. \A q \in calm' : step'[q] # "idle" => Undisturbed(q)'
    <2>1. calm' \subseteq Runners BY DEF TInv, TypeOK
    <2> QED BY <1>1, <2>1
  <1> QED BY <1>2, <1>3 DEF CInv

LEMMA PlanGrows ==
  ASSUME TypeOK, NEW r \in Runners, NEW h \in todo[r], Planned(r)
  PROVE  \E Q \in SUBSET SUBSET SeedCases :
           /\ Blocks(Q, (SeedCases \ todo[r]) \cup {h})
           /\ NewGroups(r, h) = {Joined(B) : B \in Q}
  <1> DEFINE done == SeedCases \ todo[r]
  <1>1. PICK P \in SUBSET SUBSET SeedCases :
          Blocks(P, done) /\ groups[r] = {Joined(B) : B \in P}
    BY DEF Planned
  <1>2. Distinctive(r, h) = RareSeeds(h)
    BY DistinctiveAreRare DEF Planned, CacheHolds
  <1>3. h \in SeedCases BY DEF Planned
  <1>4. CASE CoreFor(RareSeeds(h)) = {}
    <2>1. SeededCases(done \cup {h}) = SeededCases(done) BY <1>4 DEF SeededCases
    <2>2. Blocks(P, done \cup {h}) BY <1>1, <2>1 DEF Blocks
    <2>3. NewGroups(r, h) = groups[r] BY <1>2, <1>4 DEF NewGroups
    <2> QED BY <1>1, <2>2, <2>3
  <1>5. CASE CoreFor(RareSeeds(h)) # {}
    <2> DEFINE Q == (P \ Met(P, h)) \cup {{h} \cup UNION Met(P, h)}
    <2>1. Blocks(Q, done \cup {h}) BY <1>1, <1>5, BlocksMerge
    <2>2. NewGroup(r, h) = [seeds |-> RareSeeds(h), events |-> CoreFor(RareSeeds(h))]
      BY <1>2 DEF NewGroup
    <2>3. MergeOverlapping({Joined(B) : B \in P}, NewGroup(r, h)) = {Joined(B) : B \in Q}
      BY <2>2, MergeJoins
    <2>4. NewGroups(r, h) = {Joined(B) : B \in Q}
      BY <1>1, <1>2, <1>5, <2>3 DEF NewGroups
    <2>5. Q \in SUBSET SUBSET SeedCases BY <1>1, <1>3 DEF Met
    <2> HIDE DEF Q
    <2> QED BY <2>1, <2>4, <2>5
  <1> QED BY <1>4, <1>5

LEMMA PlanCaseConverges ==
  ASSUME CInv, TInv', RunsApart', NEW r \in Runners, NEW h \in todo[r], PlanCase(r, h)
  PROVE  CInv'
  <1>1. /\ step[r] = "plan" /\ todo' = [todo EXCEPT ![r] = @ \ {h}]
        /\ rarity' = [rarity EXCEPT ![r] = Counts(r, h)]
        /\ groups' = [groups EXCEPT ![r] = NewGroups(r, h)]
        /\ UNCHANGED <<ingest, shut, card, step, prev, fresh, calm, aim>>
    BY PlanCaseIs
  <1>2. TypeOK BY DEF CInv, TInv
  <1>3. step' = [step EXCEPT ![r] = "plan"] /\ "plan" \in Steps
    BY <1>1, <1>2 DEF TypeOK, Steps
  <1>4. ASSUME r \in calm PROVE Undisturbed(r)'
    <2>1. Planned(r) /\ SnapshotHolds(r) BY <1>1, <1>4 DEF CInv, Undisturbed
    <2>2. SnapshotHolds(r)' BY <1>1, <2>1, Sighted DEF SnapshotHolds
    <2>3. /\ todo'[r] = todo[r] \ {h} /\ groups'[r] = NewGroups(r, h)
          /\ rarity'[r] = Counts(r, h)
      BY <1>1, <1>2 DEF TypeOK
    <2>4. SeedCases' = SeedCases /\ BatchIds(SeedCases)' = BatchIds(SeedCases)
      BY <1>1, Sighted
    <2>5. PICK Q \in SUBSET SUBSET SeedCases :
            /\ Blocks(Q, (SeedCases \ todo[r]) \cup {h})
            /\ NewGroups(r, h) = {Joined(B) : B \in Q}
      BY <1>2, <2>1, PlanGrows
    <2>6. (SeedCases \ todo[r]) \cup {h} = SeedCases' \ todo'[r]
      BY <2>1, <2>3, <2>4 DEF Planned
    <2>7. Blocks(Q, SeedCases \ todo[r])' BY <1>1, <2>5, <2>6, Unmoved
    <2>8. groups'[r] = {Joined(B)' : B \in Q} BY <1>1, <2>3, <2>5, Unmoved
    <2>9. \A s \in Seeds : rarity'[r][s] # "unknown" =>
            (rarity'[r][s] = "rare" <=> Occurrences(s)' <= MaxOccurrences)
      BY <1>1, <1>2, <2>1, <2>3, SameCores, DistinctiveAreRare DEF Planned, CacheHolds
    <2>10. todo'[r] \subseteq SeedCases' /\ aim' = BatchIds(SeedCases)' /\ fresh'[r] = {}
      BY <1>1, <2>1, <2>3, <2>4 DEF Planned
    <2>11. Planned(r)' BY <2>4, <2>5, <2>7, <2>8, <2>9, <2>10 DEF Planned
    <2>12. step'[r] = "plan" BY <1>1
    <2> QED BY <2>2, <2>11, <2>12 DEF Undisturbed
  <1> QED BY <1>1, <1>3, <1>4, OnlyOneActs

(* Only the half-saved incident of another run in progress disturbs a run     *)
(* from its start, and there is no other.                                    *)
LEMMA BeginConverges ==
  ASSUME CInv, TInv', RunsApart', NEW r \in Runners, Begin(r)
  PROVE  CInv'
  <1> DEFINE editions == [id \in Ids |-> IF id \in OpenAuto THEN card[id].events ELSE {}]
  <1>1. /\ step[r] = "idle" /\ step' = [step EXCEPT ![r] = "plan"]
        /\ prev' = [prev EXCEPT ![r] = editions]
        /\ todo' = [todo EXCEPT ![r] = SeedCases \ {{}}]
        /\ rarity' = [rarity EXCEPT ![r] = [s \in Seeds |-> "unknown"]]
        /\ groups' = [groups EXCEPT ![r] = {}] /\ fresh' = [fresh EXCEPT ![r] = {}]
        /\ aim' = BatchIds(SeedCases) /\ UNCHANGED <<ingest, shut, card>>
    BY DEF Begin, GoTo, envVars
  <1>2. TypeOK BY DEF CInv, TInv
  <1>3. step'[r] = "plan" /\ \A q \in Runners : q # r => step'[q] = "idle" /\ step[q] = "idle"
    <2>1. step'[r] = "plan" /\ \A q \in Runners : q # r => step'[q] = step[q]
      BY <1>1, <1>2 DEF TypeOK
    <2> QED BY <2>1 DEF RunsApart
  <1>4. calm' = calm \cup {r} BY <1>3 DEF Begin, TakesHalfSaved
  <1>5. /\ prev'[r] = editions /\ todo'[r] = SeedCases \ {{}} /\ groups'[r] = {}
        /\ rarity'[r] = [s \in Seeds |-> "unknown"] /\ fresh'[r] = {}
    BY <1>1, <1>2 DEF TypeOK
  <1>6. SeedCases' = SeedCases /\ BatchIds(SeedCases)' = BatchIds(SeedCases) /\ OpenAuto' = OpenAuto
    BY <1>1, Sighted
  <1>7. Blocks({}, SeedCases \ todo[r])'
    <2>1. ASSUME NEW C, C \subseteq {{}} PROVE Blocks({}, C)
      <3>1. RareSeeds({}) = {} BY DEF RareSeeds, CandidateSeeds
      <3>2. CoreFor(RareSeeds({})) = {} BY <3>1 DEF CoreFor
      <3>3. SeededCases(C) = {} BY <2>1, <3>2 DEF SeededCases
      <3> QED BY <3>3 DEF Blocks
    <2>2. SeedCases' \ todo'[r] \subseteq {{}} BY <1>5, <1>6
    <2> QED BY <1>1, <2>1, <2>2, Unmoved
  <1>8. Planned(r)'
    <2>1. todo'[r] \subseteq SeedCases' /\ aim' = BatchIds(SeedCases)' /\ fresh'[r] = {}
      BY <1>1, <1>5, <1>6
    <2>2. {} \in SUBSET SUBSET SeedCases' /\ groups'[r] = {Joined(B)' : B \in {}} BY <1>5
    <2>3. \A s \in Seeds : rarity'[r][s] = "unknown" BY <1>5
    <2> QED BY <1>7, <2>1, <2>2, <2>3 DEF Planned
  <1>9. SnapshotHolds(r)'
    <2>1. \A id \in OpenAuto : editions[id] = card[id].events BY DEF OpenAuto
    <2> QED BY <1>1, <1>5, <1>6, <2>1 DEF SnapshotHolds
  <1>10. Undisturbed(r)' BY <1>3, <1>8, <1>9 DEF Undisturbed
  <1>11. Converged' BY <1>3 DEF Converged
  <1>12. \A q \in calm' : step'[q] # "idle" => q = r
    BY <1>3, <1>4, <1>2 DEF TypeOK
  <1> QED BY <1>10, <1>11, <1>12 DEF CInv

LEMMA PlanDoneConverges ==
  ASSUME CInv, TInv', RunsApart', NEW r \in Runners, PlanDone(r)
  PROVE  CInv'
  <1>1. /\ step[r] = "plan" /\ todo[r] = {} /\ step' = [step EXCEPT ![r] = "save"]
        /\ UNCHANGED <<ingest, shut, card, prev, groups, fresh, calm, aim>>
    BY DEF PlanDone, GoTo, envVars, history
  <1>2. "save" \in Steps /\ step'[r] = "save" BY <1>1 DEF Steps, CInv, TInv, TypeOK
  <1>3. ASSUME r \in calm PROVE Undisturbed(r)'
    <2>1. Planned(r) /\ SnapshotHolds(r) BY <1>1, <1>3 DEF CInv, Undisturbed
    <2>2. SnapshotHolds(r)' BY <1>1, <2>1, Sighted DEF SnapshotHolds
    <2>3. PICK P \in SUBSET SUBSET SeedCases :
            Blocks(P, SeedCases) /\ groups[r] = {Joined(B) : B \in P}
      <3>1. SeedCases \ todo[r] = SeedCases BY <1>1
      <3> QED BY <2>1, <3>1 DEF Planned
    <2>4. aim = {g.seeds : g \in groups[r]}
      BY <2>1, <2>3, JoinedIds DEF Planned
    <2>5. fresh[r] = {} BY <2>1 DEF Planned
    <2> QED BY <1>1, <1>2, <2>2, <2>4, <2>5 DEF Undisturbed
  <1> QED BY <1>1, <1>2, <1>3, OnlyOneActs

LEMMA SaveCardConverges ==
  ASSUME CInv, TInv', RunsApart', NEW r \in Runners, NEW g \in groups[r], SaveCard(r, g)
  PROVE  CInv'
  <1> DEFINE id == g.seeds
  <1>1. /\ step[r] = "save" /\ id \in Ids \ fresh[r]
        /\ card' = [card EXCEPT ![id] = Built(r, id)] /\ hand'[r][id] = Built(r, id)
        /\ \A i \in Ids : i # id => hand'[r][i] = NoCard
        /\ fresh' = [fresh EXCEPT ![r] = @ \cup {id}] /\ step' = [step EXCEPT ![r] = "mark"]
        /\ UNCHANGED <<ingest, prev, groups, calm, aim>>
    BY SaveCardIs DEF CInv
  <1>2. "mark" \in Steps /\ step'[r] = "mark" /\ fresh'[r] = fresh[r] \cup {id}
    BY <1>1 DEF Steps, CInv, TInv, TypeOK
  <1>3. \A i \in Ids : i # id => card'[i] = card[i] BY <1>1 DEF CInv, TInv, TypeOK
  <1>4. ASSUME r \in calm PROVE Undisturbed(r)'
    <2>1. /\ SnapshotHolds(r) /\ fresh[r] \subseteq aim /\ aim = {x.seeds : x \in groups[r]}
          /\ \A i \in fresh[r] : Assembled(i)
      BY <1>1, <1>4 DEF CInv, Undisturbed
    <2>2. fresh'[r] \subseteq aim' BY <1>1, <1>2, <2>1
    <2>3. \A i \in Ids : i # id => (i \in OpenAuto' <=> i \in OpenAuto)
      BY <1>3 DEF OpenAuto, IsOpen, IsAuto
    <2>4. SnapshotHolds(r)'
      <3> SUFFICES ASSUME NEW i \in OpenAuto' \ fresh'[r] PROVE prev'[r][i] = card'[i].events
        BY DEF SnapshotHolds
      <3>1. i \in Ids /\ i # id BY <1>2 DEF OpenAuto
      <3> HIDE DEF id
      <3> QED BY <1>1, <1>2, <1>3, <2>1, <2>3, <3>1 DEF SnapshotHolds
    <2>5. InHand(r, id)' BY <1>1, SameCores DEF InHand, Built
    <2>6. \A i \in fresh'[r] \ {id} : Assembled(i)'
      <3> SUFFICES ASSUME NEW i \in fresh[r], i # id PROVE Assembled(i)'
        BY <1>2
      <3>1. Assembled(i) /\ i \in Ids BY <2>1 DEF Assembled, OpenAuto
      <3> HIDE DEF id
      <3> QED BY <1>1, <1>3, <2>3, <3>1, SameCores DEF Assembled
    <2>7. id \in fresh'[r] BY <1>2
    <2> HIDE DEF id
    <2> QED BY <1>1, <1>2, <2>1, <2>2, <2>4, <2>5, <2>6, <2>7 DEF Undisturbed
  <1> HIDE DEF id
  <1> QED BY <1>1, <1>2, <1>4, OnlyOneActs

LEMMA SaveMarkedConverges ==
  ASSUME CInv, TInv', RunsApart', NEW r \in Runners, NEW id \in Ids, SaveMarked(r, id)
  PROVE  CInv'
  <1>1. PICK c \in Card :
         /\ step[r] = "mark" /\ hand[r][id] # NoCard
         /\ c.status = hand[r][id].status /\ c.events = hand[r][id].events /\ c.marks = {"auto"}
         /\ card' = [card EXCEPT ![id] = c] /\ hand' \in [Runners -> Hands]
         /\ hand'[r] = Empty /\ \A q \in Runners : q # r => hand'[q] = hand[q]
         /\ step' = [step EXCEPT ![r] = "save"]
         /\ UNCHANGED <<ingest, shut, prev, seen, todo, rarity, groups, fresh,
                        runs, acts, crashes, calm, aim>>
    <2>1. TInv BY DEF CInv
    <2> QED BY <2>1, SaveMarkedIs
  <1>2. "save" \in Steps /\ step'[r] = "save" BY <1>1 DEF Steps, CInv, TInv, TypeOK
  <1>3. card'[id] = c /\ \A i \in Ids : i # id => card'[i] = card[i]
    BY <1>1 DEF CInv, TInv, TypeOK
  <1>4. ASSUME r \in calm PROVE Undisturbed(r)'
    <2>1. /\ SnapshotHolds(r) /\ fresh[r] \subseteq aim /\ aim = {x.seeds : x \in groups[r]}
      BY <1>1, <1>4 DEF CInv, Undisturbed
    <2>2. PICK new \in fresh[r] :
            /\ InHand(r, new) /\ \A i \in Ids \ {new} : hand[r][i] = NoCard
            /\ \A i \in fresh[r] \ {new} : Assembled(i)
      BY <1>1, <1>4 DEF CInv, Undisturbed
    <2>3. id = new BY <1>1, <2>2
    <2>4. \A i \in Ids : i # id => (i \in OpenAuto' <=> i \in OpenAuto)
      BY <1>3 DEF OpenAuto, IsOpen, IsAuto
    <2>5. Assembled(id)'
      BY <1>1, <1>3, <2>2, <2>3, SameCores DEF InHand, Assembled, OpenAuto, IsOpen, IsAuto
    <2>6. \A i \in fresh'[r] : Assembled(i)'
      <3> SUFFICES ASSUME NEW i \in fresh[r], i # id PROVE Assembled(i)'
        BY <1>1, <2>5
      <3>1. Assembled(i) /\ i \in Ids BY <2>2, <2>3 DEF Assembled, OpenAuto
      <3> QED BY <1>1, <1>3, <2>4, <3>1, SameCores DEF Assembled
    <2>7. SnapshotHolds(r)'
      <3> SUFFICES ASSUME NEW i \in OpenAuto' \ fresh'[r] PROVE prev'[r][i] = card'[i].events
        BY DEF SnapshotHolds
      <3>1. i \in Ids /\ i # id BY <1>1, <2>2, <2>3 DEF OpenAuto
      <3> QED BY <1>1, <1>3, <2>1, <2>4, <3>1 DEF SnapshotHolds
    <2> QED BY <1>1, <1>2, <2>1, <2>6, <2>7 DEF Undisturbed
  <1> QED BY <1>1, <1>2, <1>4, OnlyOneActs

LEMMA SavesDoneConverges ==
  ASSUME CInv, TInv', RunsApart', NEW r \in Runners, SavesDone(r)
  PROVE  CInv'
  <1> DEFINE h == [id \in Ids |-> IF id \in fresh[r] THEN card[id] ELSE NoCard]
  <1>1. /\ step[r] = "save" /\ \A g \in groups[r] : g.seeds \in fresh[r]
        /\ hand' = [hand EXCEPT ![r] = h] /\ step' = [step EXCEPT ![r] = "supersede"]
        /\ UNCHANGED <<ingest, shut, card, prev, fresh, calm, aim>>
    BY DEF SavesDone, GoTo, envVars, history
  <1>2. "supersede" \in Steps /\ step'[r] = "supersede" /\ hand'[r] = h
    BY <1>1 DEF Steps, CInv, TInv, TypeOK
  <1>3. ASSUME r \in calm PROVE Undisturbed(r)'
    <2>1. /\ SnapshotHolds(r) /\ fresh[r] \subseteq aim /\ aim = {x.seeds : x \in groups[r]}
          /\ \A i \in fresh[r] : Assembled(i)
      BY <1>1, <1>3 DEF CInv, Undisturbed
    <2>2. fresh[r] = aim BY <1>1, <2>1
    <2>3. SnapshotHolds(r)' BY <1>1, <2>1, Sighted DEF SnapshotHolds
    <2>4. ASSUME NEW id \in aim PROVE Assembled(id)' /\ InHand(r, id)'
      <3>1. Assembled(id) /\ id \in Ids BY <2>1, <2>2 DEF Assembled, OpenAuto
      <3>2. h[id] = card[id] BY <2>2, <3>1
      <3> HIDE DEF h
      <3>3. hand'[r][id] = card[id] BY <1>2, <3>2
      <3>4. card[id].status = "triage" BY <3>1 DEF Assembled, OpenAuto, IsOpen
      <3>5. Assembled(id)' BY <1>1, <3>1, Sighted, SameCores DEF Assembled
      <3>6. InHand(r, id)' BY <1>1, <3>1, <3>3, <3>4, SameCores DEF InHand, Assembled
      <3> QED BY <3>5, <3>6
    <2> HIDE DEF h
    <2> QED BY <1>1, <1>2, <2>2, <2>3, <2>4 DEF Undisturbed
  <1> HIDE DEF h
  <1> QED BY <1>1, <1>2, <1>3, OnlyOneActs

LEMMA SupersedeReadConverges ==
  ASSUME CInv, TInv', RunsApart', NEW r \in Runners, NEW id \in Ids, SupersedeRead(r, id)
  PROVE  CInv'
  <1>1. PICK c \in Card :
         /\ step[r] = "supersede" /\ Overlapped(r, id)
         /\ \A i \in Ids : i # id => hand'[r][i] = hand[r][i]
         /\ step' = [step EXCEPT ![r] = "close"]
         /\ UNCHANGED <<ingest, shut, card, prev, fresh, calm, aim>>
    BY SupersedeReadIs DEF CInv
  <1>2. "close" \in Steps /\ step'[r] = "close" BY <1>1 DEF Steps, CInv, TInv, TypeOK
  <1>3. ASSUME r \in calm PROVE Undisturbed(r)'
    <2>1. /\ SnapshotHolds(r) /\ fresh[r] = aim
          /\ \A i \in aim : Assembled(i) /\ InHand(r, i)
      BY <1>1, <1>3 DEF CInv, Undisturbed
    <2>2. SnapshotHolds(r)' BY <1>1, <2>1, Sighted DEF SnapshotHolds
    <2>3. id \notin aim BY <1>1, <2>1 DEF Overlapped
    <2>4. \A i \in aim : Assembled(i)' BY <1>1, <2>1, Sighted, SameCores DEF Assembled
    <2>5. \A i \in aim : InHand(r, i)'
      <3>1. aim \subseteq Ids BY DEF CInv, TInv, TypeOK
      <3> QED BY <1>1, <2>1, <2>3, <3>1, SameCores DEF InHand
    <2> QED BY <1>1, <1>2, <2>1, <2>2, <2>4, <2>5 DEF Undisturbed
  <1> QED BY <1>1, <1>2, <1>3, OnlyOneActs

(* A card saved as merged is none of the open ones; the others stay.          *)
LEMMA OthersStay ==
  ASSUME TInv, NEW r \in Runners, NEW id \in Ids, HandSaved(r, id), hand[r][id].status = "merged"
  PROVE  /\ OpenAuto' \subseteq OpenAuto \ {id}
         /\ \A i \in Ids : i # id => card'[i] = card[i] /\ (Assembled(i) => Assembled(i)')
  <1>1. /\ card'[id].status = "merged" /\ ingest' = ingest
        /\ \A i \in Ids : i # id => card'[i] = card[i]
    BY DEF HandSaved, TInv, TypeOK
  <1>2. OpenAuto' \subseteq OpenAuto \ {id} BY <1>1 DEF OpenAuto, IsOpen, IsAuto
  <1>3. \A i \in Ids : i # id => (Assembled(i) => Assembled(i)')
    BY <1>1, SameCores DEF Assembled, OpenAuto, IsOpen, IsAuto
  <1> QED BY <1>1, <1>2, <1>3

LEMMA SupersedeSaveConverges ==
  ASSUME CInv, TInv', RunsApart', NEW r \in Runners, NEW id \in Ids, SupersedeSave(r, id)
  PROVE  CInv'
  <1>1. /\ step[r] = "close" /\ hand[r][id].status = "merged" /\ HandSaved(r, id)
        /\ prev' = [prev EXCEPT ![r][id] = {}] /\ step' = [step EXCEPT ![r] = "supersede"]
        /\ UNCHANGED <<ingest, fresh, calm, aim>>
    BY SupersedeSaveIs DEF CInv, HandSaved
  <1>2. "supersede" \in Steps /\ step'[r] = "supersede"
    BY <1>1 DEF Steps, CInv, TInv, TypeOK
  <1>3. /\ OpenAuto' \subseteq OpenAuto \ {id}
        /\ \A i \in Ids : i # id => card'[i] = card[i] /\ (Assembled(i) => Assembled(i)')
    BY <1>1, OthersStay DEF CInv
  <1>4. \A i \in Ids : i # id => prev'[r][i] = prev[r][i]
    BY <1>1, Forgotten DEF CInv, TInv, TypeOK
  <1>5. ASSUME r \in calm PROVE Undisturbed(r)'
    <2>1. /\ SnapshotHolds(r) /\ fresh[r] = aim
          /\ \A i \in aim : Assembled(i) /\ InHand(r, i)
      BY <1>1, <1>5 DEF CInv, Undisturbed
    <2>2. id \notin aim BY <1>1, <2>1 DEF InHand
    <2>3. SnapshotHolds(r)'
      <3> SUFFICES ASSUME NEW i \in OpenAuto' \ fresh'[r] PROVE prev'[r][i] = card'[i].events
        BY DEF SnapshotHolds
      <3>1. i \in OpenAuto \ fresh[r] /\ i \in Ids /\ i # id BY <1>1, <1>3 DEF OpenAuto
      <3> QED BY <1>3, <1>4, <2>1, <3>1 DEF SnapshotHolds
    <2>4. aim \subseteq Ids BY DEF CInv, TInv, TypeOK
    <2>5. \A i \in aim : Assembled(i)' BY <1>3, <2>1, <2>2, <2>4
    <2>6. \A i \in aim : InHand(r, i)'
      BY <1>1, <2>1, <2>2, <2>4, SameCores DEF InHand, HandSaved
    <2> QED BY <1>1, <1>2, <2>1, <2>3, <2>5, <2>6 DEF Undisturbed
  <1> QED BY <1>1, <1>2, <1>5, OnlyOneActs

LEMMA RetireReadConverges ==
  ASSUME CInv, TInv', RunsApart', NEW r \in Runners, RetireRead(r)
  PROVE  CInv'
  <1> DEFINE h == [id \in Ids |-> IF prev[r][id] # {} /\ id \notin fresh[r] /\ Retires(id)
                                  THEN [card[id] EXCEPT !.status = "merged"] ELSE NoCard]
  <1>1. /\ step[r] = "supersede" /\ \A id \in Ids : ~Overlapped(r, id)
        /\ hand' = [hand EXCEPT ![r] = h] /\ step' = [step EXCEPT ![r] = "retire"]
        /\ UNCHANGED <<ingest, shut, card, prev, fresh, calm, aim>>
    BY DEF RetireRead, GoTo, envVars, history
  <1>2. "retire" \in Steps /\ step'[r] = "retire" /\ hand'[r] = h
    BY <1>1 DEF Steps, CInv, TInv, TypeOK
  <1>3. ASSUME NEW id \in Ids
        PROVE  IF prev[r][id] # {} /\ id \notin fresh[r] /\ Retires(id)
               THEN h[id].status = "merged" /\ h[id] # NoCard ELSE h[id] = NoCard
    <2>1. card[id] \in Card BY DEF CInv, TInv, TypeOK
    <2> QED BY <2>1, Closed
  <1> HIDE DEF h
  <1>4. ASSUME r \in calm PROVE Undisturbed(r)'
    <2>1. /\ SnapshotHolds(r) /\ fresh[r] = aim /\ aim \subseteq Ids
          /\ \A i \in aim : Assembled(i) /\ InHand(r, i)
      BY <1>1, <1>4 DEF CInv, Undisturbed, TInv, TypeOK
    <2>2. \A i \in aim : Assembled(i)' /\ hand'[r][i] = NoCard
      BY <1>1, <1>2, <1>3, <2>1, Sighted, SameCores DEF Assembled
    <2>3. \A i \in Ids : hand'[r][i] = NoCard \/ hand'[r][i].status = "merged"
      BY <1>2, <1>3
    <2>4. ASSUME NEW id \in OpenAuto \ aim
          PROVE  /\ AnalystTouched(card[id]) \/ hand'[r][id] # NoCard
                 /\ \A new \in aim : card[id].events \cap card[new].events = {}
      <3>1. id \in Ids /\ IsOpen(id) /\ IsAuto(id) BY DEF OpenAuto
      <3>2. prev[r][id] = card[id].events /\ prev[r][id] # {}
        BY <2>1, <3>1 DEF SnapshotHolds, CInv, TInv, NothingHollow
      <3>3. AnalystTouched(card[id]) \/ hand'[r][id] # NoCard
        BY <1>2, <1>3, <2>1, <3>1, <3>2 DEF Retires
      <3>4. ASSUME NEW new \in aim PROVE card[id].events \cap card[new].events = {}
        <4>1. prev[r][id] \cap hand[r][new].events = {}
          BY <1>1, <2>1, <3>1 DEF Overlapped
        <4>2. hand[r][new].events = card[new].events BY <2>1 DEF Assembled, InHand
        <4> QED BY <3>2, <4>1, <4>2
      <3> QED BY <3>3, <3>4
    <2>5. \A id \in OpenAuto' \ aim' :
            /\ AnalystTouched(card'[id]) \/ hand'[r][id] # NoCard
            /\ \A new \in aim' : card'[id].events \cap card'[new].events = {}
      BY <1>1, <2>4, Sighted
    <2> QED BY <1>1, <1>2, <2>2, <2>3, <2>5 DEF Undisturbed
  <1> QED BY <1>1, <1>2, <1>4, OnlyOneActs

LEMMA RetireSaveConverges ==
  ASSUME CInv, TInv', RunsApart', NEW r \in Runners, NEW id \in Ids, RetireSave(r, id)
  PROVE  CInv'
  <1>1. /\ step[r] = "retire" /\ hand[r][id] # NoCard /\ HandSaved(r, id) /\ step' = step
        /\ UNCHANGED <<ingest, fresh, calm, aim>>
    BY RetireSaveIs DEF CInv, HandSaved
  <1>2. step' = [step EXCEPT ![r] = "retire"] /\ "retire" \in Steps
    BY <1>1 DEF Steps, CInv, TInv, TypeOK
  <1>3. ASSUME r \in calm PROVE Undisturbed(r)'
    <2>1. /\ aim \subseteq Ids /\ \A i \in aim : Assembled(i) /\ hand[r][i] = NoCard
          /\ \A i \in Ids : hand[r][i] = NoCard \/ hand[r][i].status = "merged"
          /\ \A i \in OpenAuto \ aim :
               /\ AnalystTouched(card[i]) \/ hand[r][i] # NoCard
               /\ \A new \in aim : card[i].events \cap card[new].events = {}
      BY <1>1, <1>3 DEF CInv, Undisturbed, TInv, TypeOK
    <2>2. id \notin aim /\ hand[r][id].status = "merged" BY <1>1, <2>1
    <2>3. /\ OpenAuto' \subseteq OpenAuto \ {id}
          /\ \A i \in Ids : i # id => card'[i] = card[i] /\ (Assembled(i) => Assembled(i)')
      BY <1>1, <2>2, OthersStay DEF CInv
    <2>4. hand'[r][id] = NoCard /\ \A i \in Ids : i # id => hand'[r][i] = hand[r][i]
      BY <1>1 DEF HandSaved
    <2>5. \A i \in aim : Assembled(i)' /\ hand'[r][i] = NoCard BY <2>1, <2>2, <2>3, <2>4
    <2>6. \A i \in Ids : hand'[r][i] = NoCard \/ hand'[r][i].status = "merged"
      BY <2>1, <2>4
    <2>7. \A i \in OpenAuto' \ aim :
            /\ AnalystTouched(card'[i]) \/ hand'[r][i] # NoCard
            /\ \A new \in aim : card'[i].events \cap card'[new].events = {}
      <3> SUFFICES ASSUME NEW i \in OpenAuto' \ aim
                   PROVE  /\ AnalystTouched(card'[i]) \/ hand'[r][i] # NoCard
                          /\ \A new \in aim : card'[i].events \cap card'[new].events = {}
        OBVIOUS
      <3>1. i \in OpenAuto \ aim /\ i # id /\ i \in Ids BY <2>3 DEF OpenAuto
      <3>2. \A new \in aim : card'[new] = card[new] BY <2>1, <2>2, <2>3
      <3> QED BY <2>1, <2>3, <2>4, <3>1, <3>2
    <2> QED BY <1>1, <2>5, <2>6, <2>7 DEF Undisturbed
  <1> QED BY <1>1, <1>2, <1>3, OnlyOneActs

(* Where the run ends, what it has reached is what Converged says.            *)
LEMMA FinishConverges ==
  ASSUME CInv, TInv', RunsApart, NEW r \in Runners, Finish(r)
  PROVE  CInv'
  <1>1. /\ step[r] = "retire" /\ hand[r] = Empty /\ step' = [step EXCEPT ![r] = "idle"]
        /\ calm' = (IF r \in calm THEN calm ELSE {})
        /\ UNCHANGED <<ingest, shut, card, aim>>
    BY DEF Finish, Over, GoTo, envVars
  <1>2. \A q \in Runners : step'[q] = "idle"
    BY <1>1 DEF RunsApart, CInv, TInv, TypeOK
  <1>3. \A q \in calm' : step'[q] = "idle" BY <1>2 DEF TInv, TypeOK
  <1>4. Converged'
    <2>1. SUFFICES ASSUME r \in calm PROVE Converged'
      BY <1>1 DEF Converged
    <2>2. /\ \A i \in aim : Assembled(i)
          /\ \A i \in OpenAuto \ aim :
               /\ AnalystTouched(card[i]) \/ hand[r][i] # NoCard
               /\ \A new \in aim : card[i].events \cap card[new].events = {}
      BY <1>1, <2>1 DEF CInv, Undisturbed
    <2>3. \A i \in Ids : hand[r][i] = NoCard BY <1>1 DEF Empty
    <2>4. \A i \in OpenAuto \ aim : AnalystTouched(card[i]) BY <2>2, <2>3 DEF OpenAuto
    <2>5. OpenAuto' = OpenAuto /\ aim \subseteq OpenAuto BY <1>1, <2>2, Sighted DEF Assembled
    <2>6. \A i \in aim : card[i].events = CoreFor(i)' BY <1>1, <2>2, SameCores DEF Assembled
    <2> QED BY <1>1, <2>2, <2>4, <2>5, <2>6 DEF Converged
  <1> QED BY <1>3, <1>4 DEF CInv

LEMMA CNext ==
  ASSUME CInv, RunsApart, RunsApart', [Next]_vars
  PROVE  CInv'
  <1>1. TInv' BY TNext DEF CInv
  <1>2. ASSUME calm' = {} PROVE CInv' BY <1>1, <1>2 DEF CInv, Converged
  <1>3. ASSUME NEW r \in Runners, Run(r) PROVE CInv'
    <2> USE <1>1
    <2>1. CASE Begin(r) BY <2>1, BeginConverges
    <2>2. CASE PlanDone(r) BY <2>2, PlanDoneConverges
    <2>3. CASE SavesDone(r) BY <2>3, SavesDoneConverges
    <2>4. CASE RetireRead(r) BY <2>4, RetireReadConverges
    <2>5. CASE Finish(r) BY <2>5, FinishConverges
    <2>6. CASE CutOff(r) BY <2>6, <1>2 DEF CutOff
    <2>7. CASE \E h \in todo[r] : PlanCase(r, h) BY <2>7, PlanCaseConverges
    <2>8. CASE \E g \in groups[r] : SaveCard(r, g) BY <2>8, SaveCardConverges
    <2>9. CASE \E id \in Ids : SaveMarked(r, id) BY <2>9, SaveMarkedConverges
    <2>10. CASE \E id \in Ids : SupersedeRead(r, id) BY <2>10, SupersedeReadConverges
    <2>11. CASE \E id \in Ids : SupersedeSave(r, id) BY <2>11, SupersedeSaveConverges
    <2>12. CASE \E id \in Ids : RetireSave(r, id) BY <2>12, RetireSaveConverges
    <2> QED BY <1>3, <2>1, <2>2, <2>3, <2>4, <2>5, <2>6, <2>7, <2>8, <2>9, <2>10, <2>11, <2>12
           DEF Run
  <1>4. CASE \/ \E e \in Events : ProcessEvent(e) \/ AddRecentEvent(e)
             \/ \E c \in Cases : CloseCase(c)
             \/ \E id \in Ids : WorkOnCard(id)
    BY <1>2, <1>4 DEF ProcessEvent, AddRecentEvent, CloseCase, WorkOnCard
  <1>5. CASE UNCHANGED vars
    <2>1. UNCHANGED <<ingest, shut, card, step, prev, todo, rarity, groups, fresh, hand, calm, aim>>
      BY <1>5 DEF vars, envVars, runVars, history
    <2>2. Converged' BY <2>1, Sighted, SameCores DEF CInv, Converged
    <2>3. ASSUME NEW r \in calm, step[r] # "idle" PROVE Undisturbed(r)'
      <3>1. Undisturbed(r) BY <2>3 DEF CInv
      <3>2. SnapshotHolds(r) => SnapshotHolds(r)' BY <2>1, Sighted DEF SnapshotHolds
      <3>3. \A i : Assembled(i) => Assembled(i)' BY <2>1, Sighted, SameCores DEF Assembled
      <3>4. \A i : InHand(r, i) => InHand(r, i)' BY <2>1, SameCores DEF InHand
      <3>5. Planned(r) => Planned(r)'
        <4> SUFFICES ASSUME Planned(r) PROVE Planned(r)'
          OBVIOUS
        <4>1. PICK P \in SUBSET SUBSET SeedCases :
                Blocks(P, SeedCases \ todo[r]) /\ groups[r] = {Joined(B) : B \in P}
          BY DEF Planned
        <4>2. SeedCases' = SeedCases /\ BatchIds(SeedCases)' = BatchIds(SeedCases)
          BY <2>1, Sighted
        <4>3. Blocks(P, SeedCases \ todo[r])' BY <2>1, <4>1, <4>2, Unmoved
        <4>4. groups'[r] = {Joined(B)' : B \in P} BY <2>1, <4>1, Unmoved
        <4> QED BY <2>1, <4>1, <4>2, <4>3, <4>4, SameCores DEF Planned
      <3>6. OpenAuto' = OpenAuto BY <2>1, Sighted
      <3> QED BY <2>1, <3>1, <3>2, <3>3, <3>4, <3>5, <3>6 DEF Undisturbed
    <2> QED BY <1>1, <2>1, <2>2, <2>3 DEF CInv
  <1> QED BY <1>3, <1>4, <1>5 DEF Next

(* Incremental assembly equals one run at the end (docstring of              *)
(* assembly_on_ingest.py): for any stream, any seeds and threshold, any      *)
(* number of analysts' actions and of runs cut off, as long as no run begins *)
(* before another has ended.  What overlapping runs do is model-checked.     *)
THEOREM AssemblyConverges == Spec /\ []RunsApart => []Converged
  <1>1. Init => CInv
    <2>1. Init => Converged BY DEF Init, Converged
    <2>2. Init => \A r \in calm : FALSE BY DEF Init
    <2> QED BY <2>1, <2>2, TInit DEF CInv
  <1>2. CInv /\ RunsApart /\ RunsApart' /\ [Next]_vars => CInv' BY CNext
  <1>3. CInv => Converged BY DEF CInv
  <1> QED BY <1>1, <1>2, <1>3, PTL DEF Spec
=============================================================================
