--------------------------- MODULE AssemblyWorker ---------------------------
(***************************************************************************)
(* Assembly taken out of ingest (incident_assembly.mode: worker).  Ingest  *)
(* threads of the API process store an event and leave a signal in the     *)
(* queue; worker processes hold a lease, take the signals and run the      *)
(* assembly; a supervisor (systemd or docker) relaunches processes.        *)
(*                                                                         *)
(* One worker process is one run() of tools/assembly_worker.py.  Its       *)
(* control state pc[w] is                                                  *)
(*   "launch"   the supervisor is about to start the process               *)
(*   "boot"     settings are read, the lease is not held yet               *)
(*   "loop"     top of the while loop                                      *)
(*   "take"     the lease was renewed, take_pending comes next             *)
(*   "snapshot" signals taken, execute() has not read the stores yet       *)
(*   "run"      execute() works on the snapshot it has read                *)
(*   "requeue"  execute() raised, the signals go back next                 *)
(*   "sleep"    time.sleep between two cycles                              *)
(*   "off"      stopped by the operator, or a unit that exited for good    *)
(*   "refused"  exited with a code the supervisor does not restart after   *)
(***************************************************************************)
EXTENDS AssemblyQueue, FiniteSets

CONSTANTS Arrivals,      \* events the API may accept
          Alarms,        \* those an invariant or a detection tool fires on
          Supervisor,    \* "systemd" or "docker"
          ConfigAgrees,  \* workers whose settings agree with those of the API
          OnceWorkers,   \* workers launched with --once
          SlowRuns,      \* may a cycle outlast the lease?
          OperatorStops, \* does the operator stop workers (SIGTERM)?
          MaxFaults      \* bound on kills, failures and stops in one behaviour

ASSUME EventsAssumption ==
  /\ Alarms \subseteq Arrivals
  /\ ConfigAgrees \subseteq Workers
  /\ OnceWorkers \subseteq Workers
  /\ Supervisor \in {"systemd", "docker"}
  /\ SlowRuns \in BOOLEAN
  /\ OperatorStops \in BOOLEAN
  /\ MaxFaults \in Nat

VARIABLES evt,        \* evt[e]: progress of the ingest thread that handles e
          pc,         \* control state of each worker process
          taken,      \* taken[w]: signals held in the local variable of run_once
          sees,       \* sees[w]: events in the stores when execute() read them
          stopping,   \* workers that received SIGTERM (_StopSignal.requested)
          assembled,  \* events covered by a completed run
          lostBy,     \* history: processes that died holding signals, since the
                      \* last signal
          faults      \* faults injected so far

workerVars == <<pc, taken, sees, stopping>>
assemblyVars == <<queueVars, evt, workerVars, assembled, lostBy, faults>>

EventStates  == {"absent", "stored", "done", "dropped"}
WorkerStates == {"launch", "boot", "loop", "take", "snapshot", "run",
                 "requeue", "sleep", "off", "refused"}

Cycle   == {"loop", "take", "snapshot", "run", "requeue", "sleep"}
Holding == {"snapshot", "run", "requeue"}
Active(w) == pc[w] \in Cycle

Accepted == {e \in Arrivals : evt[e] # "absent"}

WorkerTypeOK ==
  /\ QueueTypeOK
  /\ evt \in [Arrivals -> EventStates]
  /\ pc \in [Workers -> WorkerStates]
  /\ taken \in [Workers -> Nat]
  /\ sees \in [Workers -> SUBSET Arrivals]
  /\ stopping \subseteq Workers
  /\ assembled \subseteq Arrivals
  /\ lostBy \subseteq Workers
  /\ faults \in 0..MaxFaults

WorkerInit ==
  /\ QueueInit
  /\ evt = [e \in Arrivals |-> "absent"]
  /\ pc = [w \in Workers |-> "launch"]
  /\ taken = [w \in Workers |-> 0]
  /\ sees = [w \in Workers |-> {}]
  /\ stopping = {}
  /\ assembled = {}
  /\ lostBy = {}
  /\ faults = 0

Fault == faults < MaxFaults /\ faults' = faults + 1
MoveTo(w, state) == pc' = [pc EXCEPT ![w] = state]

-----------------------------------------------------------------------------
(* Ingest: the case and the event are saved, then after_ingest is called.   *)

StoreEvent(e) ==
  /\ evt[e] = "absent"
  /\ evt' = [evt EXCEPT ![e] = "stored"]
  /\ UNCHANGED <<queueVars, workerVars, assembled, lostBy, faults>>

(* Mutated form: the hook may run before the event is stored. *)
AfterIngestTooEarly(e) ==
  /\ evt[e] \in {"absent", "stored"}
  /\ evt' = [evt EXCEPT ![e] = "done"]
  /\ \/ e \in Alarms /\ NoteHits(1) /\ lostBy' = {}
     \/ e \notin Alarms /\ UNCHANGED queueVars /\ UNCHANGED lostBy
  /\ UNCHANGED <<workerVars, assembled, faults>>

(* DeferAssemblyToWorker: a signal only if an invariant fired.  A new signal *)
(* makes the next run read everything again, which ends a loss.              *)
AfterIngest(e) ==
  /\ evt[e] = "stored"
  /\ evt' = [evt EXCEPT ![e] = "done"]
  /\ \/ e \in Alarms /\ NoteHits(1) /\ lostBy' = {}
     \/ e \notin Alarms /\ UNCHANGED queueVars /\ UNCHANGED lostBy
  /\ UNCHANGED <<workerVars, assembled, faults>>

(* The API process dies, and its ingest threads with it. *)
ApiKilled ==
  /\ Fault
  /\ \E e \in Arrivals : evt[e] = "stored"
  /\ evt' = [e \in Arrivals |-> IF evt[e] = "stored" THEN "dropped" ELSE evt[e]]
  /\ UNCHANGED <<queueVars, workerVars, assembled, lostBy>>

-----------------------------------------------------------------------------
(* The supervisor and the operator.                                          *)

(* Mutated form: no restart policy at all. *)
NoRestart(code) == FALSE

(* systemd: Restart=on-failure, RestartPreventExitStatus=3 4.               *)
(* docker: restart: unless-stopped.                                          *)
RestartsAfter(code) == IF Supervisor = "docker" THEN TRUE ELSE code \notin {0, 3, 4}

(* Where an exited process ends up. *)
AfterExit(w, code) ==
  IF w \notin stopping /\ RestartsAfter(code) THEN "launch"
  ELSE IF w \in stopping \/ code = 0 THEN "off" ELSE "refused"

Exit(w, code) ==
  /\ MoveTo(w, AfterExit(w, code))
  /\ taken' = [taken EXCEPT ![w] = 0]
  /\ sees' = [sees EXCEPT ![w] = {}]
  /\ stopping' = stopping \ {w}

(* owner is host:pid.  A relaunched container has the same host and pid 1;   *)
(* a relaunched unit has a new pid, and nobody answers to the old name.      *)
LeaseKeptByTheDead(w) ==
  /\ leaseOwner' = IF leaseOwner = w /\ Supervisor = "systemd" THEN DeadName ELSE leaseOwner
  /\ UNCHANGED <<pending, leaseLeft>>

Launch(w) ==
  /\ pc[w] = "launch"
  /\ MoveTo(w, "boot")
  /\ UNCHANGED <<queueVars, evt, taken, sees, stopping, assembled, lostBy, faults>>

OperatorStart(w) ==
  /\ pc[w] \in {"off", "refused"}
  /\ MoveTo(w, "launch")
  /\ UNCHANGED <<queueVars, evt, taken, sees, stopping, assembled, lostBy, faults>>

(* SIGTERM: _handle only sets the flag, the cycle is worked off. *)
Terminate(w) ==
  /\ OperatorStops
  /\ pc[w] \in Cycle \cup {"boot"}
  /\ w \notin stopping
  /\ Fault
  /\ stopping' = stopping \cup {w}
  /\ UNCHANGED <<queueVars, evt, pc, taken, sees, assembled, lostBy>>

-----------------------------------------------------------------------------
(* run(): start-up.  Every return passes through the finally clause, which   *)
(* calls release_lease(owner) whether or not the lease was taken.            *)

BootRefused(w) ==
  /\ pc[w] = "boot"
  /\ \/ w \notin ConfigAgrees /\ Exit(w, 4)
     \/ w \in ConfigAgrees /\ ~LeaseFree(w) /\ Exit(w, 3)
  /\ ReleaseLease(w)
  /\ UNCHANGED <<evt, assembled, lostBy, faults>>

BootAcquired(w) ==
  /\ pc[w] = "boot"
  /\ w \in ConfigAgrees
  /\ AcquireLease(w)
  /\ MoveTo(w, "loop")
  /\ UNCHANGED <<evt, taken, sees, stopping, assembled, lostBy, faults>>

-----------------------------------------------------------------------------
(* run(): one cycle.                                                         *)

(* The lease is renewed if it can be; the loop goes on in either case, the   *)
(* result of acquire_lease is not looked at.                                 *)
RenewLease(w) ==
  /\ pc[w] = "loop"
  /\ w \notin stopping
  /\ AcquireLease(w) \/ AcquireRefused(w)
  /\ MoveTo(w, "take")
  /\ UNCHANGED <<evt, taken, sees, stopping, assembled, lostBy, faults>>

StopRequested(w) ==
  /\ pc[w] = "loop"
  /\ w \in stopping
  /\ ReleaseLease(w)
  /\ Exit(w, 0)
  /\ UNCHANGED <<evt, assembled, lostBy, faults>>

(* run_once: taken = queue.take_pending(); nothing taken, no run. *)
RunOnceTake(w) ==
  /\ pc[w] = "take"
  /\ TakePending
  /\ taken' = [taken EXCEPT ![w] = pending]
  /\ MoveTo(w, IF pending = 0 THEN "sleep" ELSE "snapshot")
  /\ UNCHANGED <<evt, sees, stopping, assembled, lostBy, faults>>

(* execute() reads the case store: the run works on what is there now. *)
RunOnceRead(w) ==
  /\ pc[w] = "snapshot"
  /\ sees' = [sees EXCEPT ![w] = Accepted]
  /\ MoveTo(w, "run")
  /\ UNCHANGED <<queueVars, evt, taken, stopping, assembled, lostBy, faults>>

(* Mutated form: the counter is zeroed when the run is over. *)
RunOnceDoneZeroes(w) ==
  /\ pc[w] = "run"
  /\ assembled' = assembled \cup sees[w]
  /\ taken' = [taken EXCEPT ![w] = 0]
  /\ sees' = [sees EXCEPT ![w] = {}]
  /\ MoveTo(w, "sleep")
  /\ TakePending
  /\ UNCHANGED <<evt, stopping, lostBy, faults>>

RunOnceDone(w) ==
  /\ pc[w] = "run"
  /\ assembled' = assembled \cup sees[w]
  /\ taken' = [taken EXCEPT ![w] = 0]
  /\ sees' = [sees EXCEPT ![w] = {}]
  /\ MoveTo(w, "sleep")
  /\ UNCHANGED <<queueVars, evt, stopping, lostBy, faults>>

RunOnceRaised(w) ==
  /\ pc[w] \in {"snapshot", "run"}
  /\ Fault
  /\ sees' = [sees EXCEPT ![w] = {}]
  /\ MoveTo(w, "requeue")
  /\ UNCHANGED <<queueVars, evt, taken, stopping, assembled, lostBy>>

(* Mutated form: the except clause only reports the error. *)
RunOnceForgets(w) ==
  /\ pc[w] = "requeue"
  /\ taken' = [taken EXCEPT ![w] = 0]
  /\ MoveTo(w, "sleep")
  /\ UNCHANGED <<queueVars, evt, sees, stopping, assembled, lostBy, faults>>

(* The except clause: the signals go back, they are added to new ones. *)
RunOnceRequeue(w) ==
  /\ pc[w] = "requeue"
  /\ NoteHits(taken[w])
  /\ taken' = [taken EXCEPT ![w] = 0]
  /\ MoveTo(w, "sleep")
  /\ UNCHANGED <<evt, sees, stopping, assembled, lostBy, faults>>

(* End of the cycle: --once leaves the loop, otherwise time.sleep ends. *)
EndCycle(w) ==
  /\ pc[w] = "sleep"
  /\ \/ w \in OnceWorkers /\ ReleaseLease(w) /\ Exit(w, 0)
     \/ /\ w \notin OnceWorkers
        /\ MoveTo(w, "loop")
        /\ UNCHANGED <<queueVars, taken, sees, stopping>>
  /\ UNCHANGED <<evt, assembled, lostBy, faults>>

-----------------------------------------------------------------------------
(* Faults of a worker.                                                       *)

(* A queue operation of the loop raises; the finally clause releases the     *)
(* lease, or raises as well.                                                 *)
QueueFailure(w) ==
  /\ pc[w] \in {"boot", "loop", "take", "requeue"}
  /\ Fault
  /\ ReleaseLease(w) \/ LeaseKeptByTheDead(w)
  /\ lostBy' = lostBy \cup (IF pc[w] = "requeue" THEN {w} ELSE {})
  /\ Exit(w, 1)
  /\ UNCHANGED <<evt, assembled>>

(* SIGKILL, OOM, power: no finally clause. *)
Killed(w) ==
  /\ pc[w] \in Cycle \cup {"boot"}
  /\ Fault
  /\ LeaseKeptByTheDead(w)
  /\ lostBy' = lostBy \cup (IF pc[w] \in Holding THEN {w} ELSE {})
  /\ Exit(w, 137)
  /\ UNCHANGED <<evt, assembled>>

(* Time passes.  Unless SlowRuns, a cycle is shorter than the lease: the     *)
(* lease of a process that is in its cycle is renewed before it ends.        *)
Tick ==
  /\ leaseLeft > 0
  /\ ~SlowRuns /\ leaseLeft = 1 =>
       ~\E w \in Workers : leaseOwner = w /\ Active(w)
  /\ leaseLeft' = leaseLeft - 1
  /\ UNCHANGED <<pending, leaseOwner, evt, workerVars, assembled, lostBy, faults>>

-----------------------------------------------------------------------------
Ingest(e) == StoreEvent(e) \/ AfterIngest(e)

Step(w) ==
  \/ BootRefused(w) \/ BootAcquired(w)
  \/ RenewLease(w) \/ StopRequested(w) \/ RunOnceTake(w) \/ RunOnceRead(w)
  \/ RunOnceDone(w) \/ RunOnceRequeue(w) \/ EndCycle(w)

Environment(w) ==
  \/ OperatorStart(w) \/ Terminate(w)
  \/ RunOnceRaised(w) \/ QueueFailure(w) \/ Killed(w)

WorkerNext ==
  \/ \E e \in Arrivals : Ingest(e)
  \/ ApiKilled
  \/ \E w \in Workers : Launch(w) \/ Step(w) \/ Environment(w)
  \/ Tick

WorkerSpec == WorkerInit /\ [][WorkerNext]_assemblyVars

(* The API finishes a request it has begun, a process that can run runs, the *)
(* supervisor launches what it owes a launch, the clock does not stand still.*)
(* Nothing is assumed of the operator, and faults need not happen.           *)
Fairness ==
  /\ \A e \in Arrivals : WF_assemblyVars(AfterIngest(e))
  /\ \A w \in Workers : WF_assemblyVars(Launch(w)) /\ WF_assemblyVars(Step(w))
  /\ WF_assemblyVars(Tick)

FairSpec == WorkerSpec /\ Fairness

-----------------------------------------------------------------------------
(* Properties.                                                               *)

(* Event e is in a completed run, or a run that will read it is owed:        *)
(* signals wait, or a process that holds signals has not read the stores,    *)
(* has read e, or is about to return its signals.                            *)
Covered(e) ==
  \/ e \in assembled
  \/ pending > 0
  \/ \E w \in Workers :
       \/ pc[w] \in {"snapshot", "requeue"}
       \/ pc[w] = "run" /\ e \in sees[w]

(* Unless a process died holding signals and no hit came since, every event  *)
(* whose signal reached the queue is assembled or will be read by a run that *)
(* is owed: take_pending, the order "take, then read", the requeue of a      *)
(* failed run and new signals during a run never leave a hit uncovered.      *)
NoSignalLost ==
  lostBy = {} => \A e \in Alarms : evt[e] = "done" => Covered(e)

(* The same without the exemption: a signal survives the restart of the      *)
(* worker (docstring of sqlite_assembly_queue.py).                           *)
SignalSurvivesRestart ==
  \A e \in Alarms : evt[e] = "done" => Covered(e)

(* As long as no cycle outlasts its lease, two processes are never in their  *)
(* cycles together: refused processes, their finally clauses, expired leases *)
(* of dead processes and restarts included.                                  *)
LeaseExcludes ==
  ~SlowRuns => \A v, w \in Workers : Active(v) /\ Active(w) => v = w

(* The same with no assumption on the length of a cycle: the lease keeps two *)
(* workers from executing a run at the same time (docstring of               *)
(* sqlite_assembly_queue.py).                                                *)
ExclusiveRuns ==
  \A v, w \in Workers : pc[v] = "run" /\ pc[w] = "run" => v = w

(* A lease that has not run out leaves its owner only by a step of that      *)
(* owner: nobody else's acquire_lease or release_lease ends it.              *)
LeaseLeftByItsOwner ==
  \A w \in Workers :
    leaseOwner = w /\ leaseLeft > 0 /\ leaseOwner' # w => pc'[w] # pc[w]

LeaseOnlyLeavesItsOwner == [][LeaseLeftByItsOwner]_assemblyVars

(* A hit whose signal is in the queue is assembled in the end, unless its    *)
(* signal dies with a process.                                               *)
SignalAssembled ==
  \A e \in Alarms :
    evt[e] = "done" ~> (e \in assembled \/ lostBy # {})

(* A worker that is to be launched, after a crash for instance, is not left  *)
(* without a successor: some process gets into its cycle.  A dead process    *)
(* frees the assembly without anybody removing its lease by hand (docstring  *)
(* of tools/assembly_worker.py).                                             *)
AssemblyComesBack ==
  (\E w \in Workers : pc[w] = "launch") ~> (\E w \in Workers : Active(w))

(* The worker side implements the promise the assembly makes to the stream.  *)
Promise == INSTANCE AssemblyPromise WITH
  Events    <- Arrivals,
  accepted  <- Accepted,
  signalled <- {e \in Alarms : evt[e] = "done"},
  built     <- assembled,
  broken    <- lostBy # {}

PromiseSafety == Promise!Safety
PromiseSpec == Promise!Spec

-----------------------------------------------------------------------------
(* The inductive invariant of the safety theorems.                           *)

(* A process holds signals exactly while it is between taking and returning  *)
(* or working them off. *)
TakenInv ==
  \A w \in Workers :
    /\ pc[w] \in Holding => taken[w] > 0
    /\ pc[w] \notin Holding => taken[w] = 0

(* What a run has read was accepted. *)
SeesInv == \A w \in Workers : sees[w] \subseteq Accepted

(* A process in its cycle holds a lease that has not run out. *)
LeaseInv ==
  ~SlowRuns => \A w \in Workers : Active(w) => leaseOwner = w /\ leaseLeft > 0

IInv == WorkerTypeOK /\ TakenInv /\ SeesInv /\ LeaseInv /\ NoSignalLost
=============================================================================
