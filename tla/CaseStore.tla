------------------------------ MODULE CaseStore ------------------------------
(***************************************************************************)
(* The cases and their journals in SQLite (SqliteCaseStore), as the requests *)
(* of several threads of several processes read and save them.             *)
(*                                                                         *)
(* A process has one connection, shared by its threads under a lock.  A     *)
(* save holds that lock over its statements, but the statements commit one  *)
(* by one: another process may write between them.  save_all puts the saves  *)
(* of several cases into one transaction, and holds the lock only over each  *)
(* single save: the saves of other threads that come in between belong to    *)
(* the transaction as well, because it is the connection that is in one.     *)
(*                                                                         *)
(* Of a card only its log is kept, one line for each request whose change    *)
(* the card contains.  case_audit_ledger repeats the lines in a chain: an    *)
(* entry names what it follows.  SHA-256 is taken to be injective, and the   *)
(* hash of a chain stands for the lines hashed into it.                    *)
(***************************************************************************)
EXTENDS Integers, FiniteSets, Sequences, Functions

CONSTANTS Cases, Requests, Threads, Procs,
          NoOne,      \* no thread
          ProcOf,     \* ProcOf[t]: the process of thread t
          Home,       \* Home[r]: the process that serves request r
          Touches,    \* Touches[r]: the cases r reads, changes and saves
          Rebuilds,   \* requests that replace the card instead of changing it
          FaultKinds, \* which faults may happen, each at most once
          MaxFaults   \* bound: faults in one behaviour

ASSUME CaseStoreAssumption ==
  /\ NoOne \notin Threads
  /\ ProcOf \in [Threads -> Procs] /\ Home \in [Requests -> Procs]
  /\ DOMAIN Touches = Requests
  /\ \A r \in Requests : Touches[r] \in Seq(Cases) /\ Touches[r] # <<>>
  /\ Rebuilds \subseteq Requests
  /\ FaultKinds \subseteq {"timeout", "failure", "death"}
  /\ MaxFaults \in Nat

Entry == [line : Requests, prev : Seq(Requests)]
Store == [rows : [Cases -> Seq(Requests)], ledger : [Cases -> Seq(Entry)]]

VARIABLES db,      \* what is committed
          draft,   \* what the open transaction sees, else db
          owner,   \* the thread that opened the transaction, or NoOne
          lock,    \* lock[p]: the thread that holds the lock of p's store, or NoOne
          thr,     \* thr[t]: the request in the hands of thread t
          state,   \* state[r]: how far request r has come
          raced,   \* cases that two requests had in hand at the same time
          faulted  \* faults that have happened

vars == <<db, draft, owner, lock, thr, state, raced, faulted>>

(* hand are the logs of the cards read, n the card at hand, old and tail what *)
(* the save in progress has read of the journal.                           *)
Idle == [pc |-> "idle"]
Busy == [pc : {"read", "begin", "save", "upsert", "tail", "insert", "commit", "rollback"},
         req : Requests, hand : Seq(Seq(Requests)), n : Nat \ {0}, old : Nat,
         tail : Seq(Requests)]

(* Every variable keeps its type, and a transaction differs from what is     *)
(* committed only while it is open.                                        *)
TypeOK ==
  /\ db \in Store /\ draft \in Store
  /\ owner \in Threads \cup {NoOne}
  /\ owner = NoOne => draft = db
  /\ lock \in [Procs -> Threads \cup {NoOne}]
  /\ thr \in [Threads -> {Idle} \cup Busy]
  /\ state \in [Requests -> {"new", "running", "answered", "failed"}]
  /\ raced \subseteq Cases
  /\ faulted \subseteq FaultKinds

InTransaction(p) == owner # NoOne /\ ProcOf[owner] = p
View(p) == IF InTransaction(p) THEN draft ELSE db
Unlocked(t) == lock[ProcOf[t]] = NoOne
Touched(r) == Range(Touches[r])

(* SQLite lets one connection write at a time.                              *)
CanWrite(t) == owner # NoOne => ProcOf[owner] = ProcOf[t]

(* Mutated form: a statement in a transaction is committed at once. *)
WriteThrough(t, store) == draft' = store /\ db' = store

Write(t, store) ==
  /\ draft' = store
  /\ db' = IF InTransaction(ProcOf[t]) THEN db ELSE store

Release(t) == lock' = [lock EXCEPT ![ProcOf[t]] = NoOne]

(* The line of the chain that a new entry follows.                          *)
Chain(ledger) ==
  IF ledger = <<>> THEN <<>>
  ELSE Append(ledger[Len(ledger)].prev, ledger[Len(ledger)].line)

Answer(t) ==
  /\ thr' = [thr EXCEPT ![t] = Idle]
  /\ state' = [state EXCEPT ![thr[t].req] = "answered"]

Refuse(t) ==
  /\ thr' = [thr EXCEPT ![t] = Idle]
  /\ state' = [state EXCEPT ![thr[t].req] = "failed"]

(***************************************************************************)
(* A request reads its cases one by one.                                    *)
(***************************************************************************)
Start(t, r) ==
  /\ thr[t] = Idle /\ state[r] = "new" /\ Home[r] = ProcOf[t]
  /\ thr' = [thr EXCEPT ![t] = [pc |-> "read", req |-> r, hand |-> <<>>, n |-> 1,
                                old |-> 0, tail |-> <<>>]]
  /\ state' = [state EXCEPT ![r] = "running"]
  /\ raced' = raced \cup {c \in Touched(r) :
                            \E u \in Threads : thr[u] # Idle /\ c \in Touched(thr[u].req)}
  /\ UNCHANGED <<db, draft, owner, lock, faulted>>

Changed(r, log) == IF r \in Rebuilds THEN <<r>> ELSE Append(log, r)

ReadCard(t) ==
  LET h == thr[t] IN
  /\ h.pc = "read" /\ Unlocked(t)
  /\ LET hand == Append(h.hand, Changed(h.req, View(ProcOf[t]).rows[Touches[h.req][h.n]]))
         read == Len(hand) = Len(Touches[h.req])
     IN  thr' = [thr EXCEPT ![t].hand = hand, ![t].n = IF read THEN 1 ELSE @ + 1,
                            ![t].pc = IF ~read THEN "read"
                                      ELSE IF Len(hand) > 1 THEN "begin" ELSE "save"]
  /\ UNCHANGED <<db, draft, owner, lock, state, raced, faulted>>

(***************************************************************************)
(* save_all: BEGIN IMMEDIATE, the saves, COMMIT.                            *)
(***************************************************************************)
Begin(t) ==
  /\ thr[t].pc = "begin" /\ Unlocked(t) /\ owner = NoOne
  /\ owner' = t
  /\ thr' = [thr EXCEPT ![t].pc = "save"]
  /\ UNCHANGED <<db, draft, lock, state, raced, faulted>>

(* A transaction within a transaction of the same connection is an error.   *)
NestedBegin(t) ==
  /\ thr[t].pc = "begin" /\ Unlocked(t) /\ InTransaction(ProcOf[t])
  /\ Refuse(t)
  /\ UNCHANGED <<db, draft, owner, lock, raced, faulted>>

Commit(t) ==
  /\ thr[t].pc = "commit" /\ Unlocked(t)
  /\ db' = draft /\ owner' = NoOne
  /\ Answer(t)
  /\ UNCHANGED <<draft, lock, raced, faulted>>

(* Mutated form: the connection keeps what the transaction wrote. *)
RollbackKept(t) ==
  /\ thr[t].pc = "rollback" /\ Unlocked(t)
  /\ owner' = NoOne
  /\ Refuse(t)
  /\ UNCHANGED <<db, draft, lock, raced, faulted>>

Rollback(t) ==
  /\ thr[t].pc = "rollback" /\ Unlocked(t)
  /\ draft' = db /\ owner' = NoOne
  /\ Refuse(t)
  /\ UNCHANGED <<db, lock, raced, faulted>>

(***************************************************************************)
(* save: the statements of one card under the lock of the process.           *)
(***************************************************************************)
At(h) == Touches[h.req][h.n]

(* Mutated form: the lock is not taken. *)
ReadExistingUnlocked(t) ==
  /\ thr[t].pc = "save" /\ Unlocked(t)
  /\ thr' = [thr EXCEPT ![t].pc = "upsert",
                        ![t].old = Len(View(ProcOf[t]).rows[At(thr[t])])]
  /\ UNCHANGED <<db, draft, owner, lock, state, raced, faulted>>

(* Mutated form: the journal is one line behind. *)
ReadExistingShort(t) ==
  /\ thr[t].pc = "save" /\ Unlocked(t)
  /\ lock' = [lock EXCEPT ![ProcOf[t]] = t]
  /\ thr' = [thr EXCEPT ![t].pc = "upsert",
                        ![t].old = Len(View(ProcOf[t]).rows[At(thr[t])]) + 1]
  /\ UNCHANGED <<db, draft, owner, state, raced, faulted>>

ReadExisting(t) ==
  /\ thr[t].pc = "save" /\ Unlocked(t)
  /\ lock' = [lock EXCEPT ![ProcOf[t]] = t]
  /\ thr' = [thr EXCEPT ![t].pc = "upsert",
                        ![t].old = Len(View(ProcOf[t]).rows[At(thr[t])])]
  /\ UNCHANGED <<db, draft, owner, state, raced, faulted>>

(* The save is over, or goes on with the next line of the journal.           *)
Continue(t, old) ==
  LET h == thr[t] IN
  IF Len(h.hand[h.n]) > old
  THEN /\ thr' = [thr EXCEPT ![t].pc = "tail", ![t].old = old]
       /\ UNCHANGED <<lock, state>>
  ELSE /\ Release(t)
       /\ IF h.n < Len(h.hand)
          THEN thr' = [thr EXCEPT ![t].pc = "save", ![t].n = @ + 1] /\ UNCHANGED state
          ELSE IF Len(h.hand) > 1
          THEN thr' = [thr EXCEPT ![t].pc = "commit"] /\ UNCHANGED state
          ELSE Answer(t)

Upsert(t) ==
  LET h == thr[t] IN
  /\ h.pc = "upsert" /\ CanWrite(t)
  /\ Write(t, [View(ProcOf[t]) EXCEPT !.rows[At(h)] = h.hand[h.n]])
  /\ Continue(t, h.old)
  /\ UNCHANGED <<owner, raced, faulted>>

ReadTail(t) ==
  /\ thr[t].pc = "tail"
  /\ thr' = [thr EXCEPT ![t].pc = "insert",
                        ![t].tail = Chain(View(ProcOf[t]).ledger[At(thr[t])])]
  /\ UNCHANGED <<db, draft, owner, lock, state, raced, faulted>>

Insert(t) ==
  LET h == thr[t]
      entry == [line |-> h.hand[h.n][h.old + 1], prev |-> h.tail]
  IN
  /\ h.pc = "insert" /\ CanWrite(t)
  /\ Write(t, [View(ProcOf[t]) EXCEPT !.ledger[At(h)] = Append(@, entry)])
  /\ Continue(t, h.old + 1)
  /\ UNCHANGED <<owner, raced, faulted>>

(***************************************************************************)
(* Faults.                                                                 *)
(***************************************************************************)
MayFault(kind) == kind \in FaultKinds \ faulted /\ Cardinality(faulted) < MaxFaults

(* busy_timeout runs out while another process is in a transaction.          *)
TimedOut(t) ==
  /\ MayFault("timeout")
  /\ thr[t].pc \in {"begin", "upsert", "insert"} /\ ~CanWrite(t)
  /\ Refuse(t)
  /\ lock' = IF lock[ProcOf[t]] = t THEN [lock EXCEPT ![ProcOf[t]] = NoOne] ELSE lock
  /\ faulted' = faulted \cup {"timeout"}
  /\ UNCHANGED <<db, draft, owner, raced>>

(* Mutated form: the lock stays with the request that failed. *)
FailedLocked(t) ==
  /\ MayFault("failure")
  /\ thr[t].pc \in {"upsert", "insert"} /\ CanWrite(t)
  /\ IF owner = t THEN thr' = [thr EXCEPT ![t].pc = "rollback"] /\ UNCHANGED state
     ELSE Refuse(t)
  /\ faulted' = faulted \cup {"failure"}
  /\ UNCHANGED <<db, draft, owner, lock, raced>>

(* A statement raises: the disk is full, the file cannot be written.         *)
Failed(t) ==
  /\ MayFault("failure")
  /\ thr[t].pc \in {"upsert", "insert"} /\ CanWrite(t)
  /\ Release(t)
  /\ IF owner = t THEN thr' = [thr EXCEPT ![t].pc = "rollback"] /\ UNCHANGED state
     ELSE Refuse(t)
  /\ faulted' = faulted \cup {"failure"}
  /\ UNCHANGED <<db, draft, owner, raced>>

(* A process dies: its transaction was never committed.                     *)
Died(p) ==
  /\ MayFault("death")
  /\ \E t \in Threads : ProcOf[t] = p /\ thr[t] # Idle
  /\ thr' = [t \in Threads |-> IF ProcOf[t] = p THEN Idle ELSE thr[t]]
  /\ lock' = [lock EXCEPT ![p] = NoOne]
  /\ IF InTransaction(p) THEN draft' = db /\ owner' = NoOne ELSE UNCHANGED <<draft, owner>>
  /\ faulted' = faulted \cup {"death"}
  /\ UNCHANGED <<db, state, raced>>

Init ==
  /\ db = [rows |-> [c \in Cases |-> <<>>], ledger |-> [c \in Cases |-> <<>>]]
  /\ draft = db
  /\ owner = NoOne
  /\ lock = [p \in Procs |-> NoOne]
  /\ thr = [t \in Threads |-> Idle]
  /\ state = [r \in Requests |-> "new"]
  /\ raced = {} /\ faulted = {}

Proceed(t) ==
  \/ ReadCard(t)
  \/ Begin(t) \/ NestedBegin(t) \/ Commit(t) \/ Rollback(t)
  \/ ReadExisting(t) \/ Upsert(t) \/ ReadTail(t) \/ Insert(t)

Next ==
  \/ \E t \in Threads : \/ \E r \in Requests : Start(t, r)
                        \/ Proceed(t) \/ TimedOut(t) \/ Failed(t)
  \/ \E p \in Procs : Died(p)

Spec == Init /\ [][Next]_vars

(* A thread that can go on does; nothing is assumed of arrivals and faults.  *)
FairSpec == Spec /\ \A t \in Threads : WF_vars(Proceed(t))

(***************************************************************************)
(* Properties.                                                             *)
(***************************************************************************)
(* verify_case_audit_ledger: each entry follows the one before it.           *)
Verified(ledger) ==
  \A i \in 1 .. Len(ledger) :
     ledger[i].prev = IF i = 1 THEN <<>> ELSE Append(ledger[i - 1].prev, ledger[i - 1].line)

(* Only requests of process p touch case c.                                 *)
SavedBy(p, c) == \A r \in Requests : c \in Touched(r) => Home[r] = p

(* The journal of a case that one process saves can be verified at any time, *)
(* whatever its threads do at once and whatever fails.                      *)
ChainVerifies ==
  \A c \in Cases, p \in Procs : SavedBy(p, c) => Verified(db.ledger[c])

(***************************************************************************)
(* Why ChainVerifies holds: the inductive invariant.                        *)
(***************************************************************************)
Saving == {"upsert", "tail", "insert"}

(* What a busy thread has in hand fits its request.                         *)
HandInv(t) ==
  LET h == thr[t] IN
  /\ Home[h.req] = ProcOf[t] /\ h.n \in 1 .. Len(Touches[h.req])
  /\ IF h.pc = "read" THEN Len(h.hand) = h.n - 1 ELSE Len(h.hand) = Len(Touches[h.req])
  /\ h.pc = "begin" => h.n = 1
  /\ h.pc \in {"tail", "insert"} => h.old < Len(h.hand[h.n])

(* A thread that saves holds the lock, one that saves several cards is in the *)
(* transaction it opened.                                                  *)
LockInv(t) == thr[t].pc \in Saving => lock[ProcOf[t]] = t

OwnerInv(t) ==
  \/ thr[t].pc \in {"commit", "rollback"}
  \/ thr[t].pc \in {"save"} \cup Saving /\ Len(thr[t].hand) > 1
  => owner = t

(* What a thread has read of the journal it is about to extend still holds.   *)
TailInv(t) ==
  thr[t].pc = "insert" /\ SavedBy(ProcOf[t], At(thr[t])) =>
     thr[t].tail = Chain(View(ProcOf[t]).ledger[At(thr[t])])

(* The transaction of another process does not touch the journal.            *)
ChainInv ==
  \A p \in Procs, c \in Cases : SavedBy(p, c) =>
     /\ Verified(db.ledger[c]) /\ Verified(draft.ledger[c])
     /\ ~InTransaction(p) => draft.ledger[c] = db.ledger[c]

ThreadInv(t) == thr[t] # Idle => HandInv(t) /\ LockInv(t) /\ OwnerInv(t) /\ TailInv(t)

IInv == TypeOK /\ ChainInv /\ \A t \in Threads : ThreadInv(t)

(* The journal of every case can be verified.                               *)
ChainNeverForks == \A c \in Cases : Verified(db.ledger[c])

(* Cards changed by one request at a time, and never replaced.               *)
Orderly(c) == c \notin raced /\ \A r \in Rebuilds : c \notin Touched(r)

BeingSaved(c) ==
  \E t \in Threads : thr[t].pc \in Saving /\ At(thr[t]) = c

Lines(ledger) == [i \in 1 .. Len(ledger) |-> ledger[i].line]

(* As long as nothing fails, the journal of a case that one process saves and *)
(* that is changed by one request at a time holds the lines of its log and no *)
(* others.  With two processes it may not: what one saves within the          *)
(* transaction of another thread is read by the other without it.            *)
JournalMatchesLog ==
  faulted = {} =>
    \A c \in Cases, p \in Procs : SavedBy(p, c) /\ Orderly(c) /\ ~BeingSaved(c) =>
       db.rows[c] = Lines(db.ledger[c])

(* save_all changes all its cases or none, whatever fails.                   *)
PairIsWhole ==
  \A r \in Requests : Len(Touches[r]) > 1 =>
     \A c, d \in Touched(r) : Orderly(c) /\ Orderly(d) =>
        (r \in Range(db.rows[c]) <=> r \in Range(db.rows[d]))

(***************************************************************************)
(* Why PairIsWhole and JournalMatchesLog hold: their inductive invariants.    *)
(***************************************************************************)
Pairs == {r \in Requests : Len(Touches[r]) > 1}

(* A case that two threads have in hand at once has been raced.               *)
RacedInv ==
  \A t, u \in Threads : t # u /\ thr[t] # Idle /\ thr[u] # Idle =>
     Touched(thr[t].req) \cap Touched(thr[u].req) \subseteq raced

(* Nobody knows of a request that has not come.                             *)
NewInv ==
  \A r \in Requests : state[r] = "new" =>
     /\ \A c \in Cases : r \notin Range(db.rows[c]) /\ r \notin Range(draft.rows[c])
     /\ \A t \in Threads : thr[t] # Idle =>
          thr[t].req # r /\ \A i \in DOMAIN thr[t].hand : r \notin Range(thr[t].hand[i])

(* A transaction changes no pair but that of the thread that opened it.       *)
SettledInv ==
  \A r \in Pairs : (\A t \in Threads : owner = t /\ thr[t] # Idle => thr[t].req # r) =>
     \A c \in Touched(r) : Orderly(c) =>
        (r \in Range(draft.rows[c]) <=> r \in Range(db.rows[c]))

(* Of the other pairs, a card in hand bears what is committed; its own line it *)
(* bears in any case.                                                      *)
CardInv(t) ==
  \A i \in DOMAIN thr[t].hand :
     /\ thr[t].req \in Range(thr[t].hand[i])
     /\ \A r \in Pairs \ {thr[t].req} : LET c == Touches[thr[t].req][i] IN
          c \in Touched(r) /\ Orderly(c) =>
             (r \in Range(thr[t].hand[i]) <=> r \in Range(db.rows[c]))

(* A pair under way is not committed, and what it has saved is in the         *)
(* transaction.                                                            *)
ProgressInv(t) ==
  LET h == thr[t] IN
  h.req \in Pairs => \A i \in 1 .. Len(Touches[h.req]) : LET c == Touches[h.req][i] IN
     Orderly(c) =>
        /\ h.req \notin Range(db.rows[c])
        /\ h.pc \in {"read", "begin"} => h.req \notin Range(draft.rows[c])
        /\ \/ h.pc \in {"save"} \cup Saving /\ i < h.n
           \/ h.pc \in {"tail", "insert"} /\ i = h.n
           \/ h.pc = "commit"
           => h.req \in Range(draft.rows[c])

PairInv ==
  /\ RacedInv /\ NewInv /\ SettledInv /\ PairIsWhole
  /\ \A t \in Threads : thr[t] # Idle => CardInv(t) /\ ProgressInv(t)

(* A card in hand of a case that only this process saves is the log of the    *)
(* draft with the line of its request at the end, which the log may have       *)
(* already.  Within a save the journal is one line behind at most.            *)
JournalInv(t) ==
  LET h == thr[t] IN
  /\ h.pc # "rollback"
  /\ \A i \in 1 .. Len(Touches[h.req]) : LET c == Touches[h.req][i] IN
       Orderly(c) /\ SavedBy(ProcOf[t], c) =>
          /\ h.pc = "read" => h.req \notin Range(draft.rows[c])
          /\ i \in DOMAIN h.hand =>
               h.hand[i] = IF h.req \in Range(draft.rows[c]) THEN draft.rows[c]
                           ELSE Append(draft.rows[c], h.req)
  /\ h.pc \in Saving => LET c == At(h) IN
       Orderly(c) /\ SavedBy(ProcOf[t], c) =>
          IF h.pc = "upsert"
          THEN draft.rows[c] = Lines(draft.ledger[c]) /\ h.old = Len(draft.rows[c])
          ELSE /\ draft.rows[c] = h.hand[h.n] /\ h.old = Len(draft.ledger[c])
               /\ h.hand[h.n] = Append(Lines(draft.ledger[c]), h.req)

LogInv ==
  faulted = {} =>
    /\ \A p \in Procs, c \in Cases : SavedBy(p, c) /\ Orderly(c) =>
         /\ InTransaction(p) \/ ~BeingSaved(c) => db.rows[c] = Lines(db.ledger[c])
         /\ ~BeingSaved(c) => draft.rows[c] = Lines(draft.ledger[c])
         /\ ~InTransaction(p) => draft.rows[c] = db.rows[c]
    /\ \A t \in Threads : thr[t] # Idle => JournalInv(t)

(* What a request answered is in the store, whatever fails.                  *)
AnsweredIsDurable ==
  \A r \in Requests : state[r] = "answered" =>
     \A c \in Touched(r) : Orderly(c) => r \in Range(db.rows[c])

(* Every line that a request answered is in the journal, as long as nothing   *)
(* fails and no transaction is open.                                        *)
EveryActionIsChained ==
  faulted = {} /\ owner = NoOne =>
     \A r \in Requests : state[r] = "answered" =>
        \A c \in Touched(r) : \E i \in 1 .. Len(db.ledger[c]) : db.ledger[c][i].line = r

(* No request waits for ever for the lock or for the write lock of SQLite.    *)
RequestEnds == \A t \in Threads : thr[t] # Idle ~> thr[t] = Idle
=============================================================================
