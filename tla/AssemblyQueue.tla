--------------------------- MODULE AssemblyQueue ---------------------------
(***************************************************************************)
(* The single row of table assembly_queue, shared by the API process and   *)
(* by the assembly workers (SqliteAssemblyQueue).  Each operator below is  *)
(* one SQL statement or one BEGIN IMMEDIATE ... COMMIT of the source, hence *)
(* one atomic step on the row.                                             *)
(*                                                                         *)
(* The source keeps the deadline of the lease as a UTC timestamp and       *)
(* compares it with the wall clock.  Only the distance matters, so the row *)
(* keeps leaseLeft, the time that remains until lease_until:               *)
(* lease_until <= now is leaseLeft = 0, and time passing decreases it.     *)
(***************************************************************************)
EXTENDS Integers

CONSTANTS Workers,   \* worker processes that may be launched on this database
          LeaseTtl   \* lease_ttl in clock ticks

ASSUME WorkersNonEmpty == Workers # {}
ASSUME LeaseTtlAssumption == LeaseTtl \in Nat \ {0}

(* lease_owner = ''; and the name of a process that no longer exists *)
NoOwner  == "none"
DeadName == "dead"

ASSUME NamesAreNotWorkers == {NoOwner, DeadName} \cap Workers = {}

VARIABLES pending,     \* column pending: signals that wait for a run
          leaseOwner,  \* column lease_owner
          leaseLeft    \* time left until lease_until

queueVars == <<pending, leaseOwner, leaseLeft>>

QueueTypeOK ==
  /\ pending \in Nat
  /\ leaseOwner \in Workers \cup {NoOwner, DeadName}
  /\ leaseLeft \in 0..LeaseTtl

QueueInit ==
  /\ pending = 0
  /\ leaseOwner = NoOwner
  /\ leaseLeft = 0

NoteHits(count) ==
  /\ pending' = IF count <= 0 THEN pending ELSE pending + count
  /\ UNCHANGED <<leaseOwner, leaseLeft>>

(* Mutated form: SET pending = pending - 1 in place of SET pending = 0. *)
TakeOneSignal ==
  /\ pending' = pending - 1
  /\ UNCHANGED <<leaseOwner, leaseLeft>>

(* Reading and zeroing are one transaction; the caller keeps the old value. *)
TakePending ==
  /\ pending' = 0
  /\ UNCHANGED <<leaseOwner, leaseLeft>>

(* Free, expired, or already held by this owner. *)
LeaseFree(owner) == leaseOwner \in {NoOwner, owner} \/ leaseLeft = 0

AcquireLease(owner) ==
  /\ LeaseFree(owner)
  /\ leaseOwner' = owner
  /\ leaseLeft' = LeaseTtl
  /\ UNCHANGED pending

AcquireRefused(owner) ==
  /\ ~LeaseFree(owner)
  /\ UNCHANGED queueVars

(* Mutated form: the WHERE clause does not name the owner. *)
ReleaseAnyLease(owner) ==
  /\ leaseOwner' = NoOwner
  /\ leaseLeft' = 0
  /\ UNCHANGED pending

(* UPDATE ... WHERE lease_owner = ?: somebody else's lease is not touched. *)
ReleaseLease(owner) ==
  /\ leaseOwner' = IF leaseOwner = owner THEN NoOwner ELSE leaseOwner
  /\ leaseLeft' = IF leaseOwner = owner THEN 0 ELSE leaseLeft
  /\ UNCHANGED pending
=============================================================================
