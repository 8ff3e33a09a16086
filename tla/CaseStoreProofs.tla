--------------------------- MODULE CaseStoreProofs ---------------------------
(***************************************************************************)
(* Machine-checked safety of CaseStore for any number of processes, threads, *)
(* requests and cases, and whatever faults happen.                          *)
(***************************************************************************)
EXTENDS CaseStore, TLAPS

(* An entry that follows the last one extends a journal that can be verified. *)
LEMMA AppendVerified ==
  ASSUME NEW ledger \in Seq(Entry), NEW e \in Entry,
         Verified(ledger), e.prev = Chain(ledger)
  PROVE  Verified(Append(ledger, e))
<1> DEFINE longer == Append(ledger, e)
<1>1. /\ Len(longer) = Len(ledger) + 1
      /\ \A i \in 1 .. Len(ledger) : longer[i] = ledger[i]
      /\ longer[Len(ledger) + 1] = e
  OBVIOUS
<1>2. SUFFICES ASSUME NEW i \in 1 .. Len(longer)
               PROVE  longer[i].prev = IF i = 1 THEN <<>>
                                       ELSE Append(longer[i - 1].prev, longer[i - 1].line)
  BY DEF Verified
<1> HIDE DEF longer
<1>3. CASE i \in 1 .. Len(ledger)
  BY <1>1, <1>3 DEF Verified
<1>4. CASE i = Len(ledger) + 1
  <2>1. CASE ledger = <<>>
    BY <1>1, <1>4, <2>1 DEF Chain
  <2>2. CASE ledger # <<>>
    <3>1. Len(ledger) \in Nat \ {0}
      BY <2>2
    <3>2. longer[i] = e /\ longer[i - 1] = ledger[Len(ledger)] /\ i # 1
      BY <1>1, <1>4, <3>1
    <3>3. QED
      BY <2>2, <3>2 DEF Chain
  <2>3. QED
    BY <2>1, <2>2
<1>5. QED
  BY <1>1, <1>2, <1>3, <1>4

(* The chain of a journal is a sequence of lines. *)
LEMMA ChainTyped == \A ledger \in Seq(Entry) : Chain(ledger) \in Seq(Requests)
<1>1. SUFFICES ASSUME NEW ledger \in Seq(Entry), ledger # <<>>
               PROVE  Append(ledger[Len(ledger)].prev, ledger[Len(ledger)].line) \in Seq(Requests)
  BY DEF Chain
<1>2. ledger[Len(ledger)] \in Entry
  BY <1>1
<1>3. QED
  BY <1>2 DEF Entry

(* A write leaves the committed data and the transaction of the right type,  *)
(* and what the process sees is what was written.                           *)
LEMMA WriteTyped ==
  ASSUME TypeOK, NEW t \in Threads, NEW store \in Store, CanWrite(t), Write(t, store),
         UNCHANGED owner
  PROVE  /\ db' \in Store /\ draft' \in Store /\ (owner' = NoOne => draft' = db')
         /\ View(ProcOf[t])' = store
         /\ \A p \in Procs : p # ProcOf[t] => View(p)' \in {View(p), store}
BY CaseStoreAssumption DEF TypeOK, CanWrite, Write, View, InTransaction

LEMMA ViewTyped == TypeOK => \A p \in Procs : View(p) \in Store
BY DEF TypeOK, View
(***************************************************************************)
(* The threads.                                                            *)
(***************************************************************************)
(* A busy thread is at a case of its request, and from its reads on has the   *)
(* card of that case in hand.                                              *)
LEMMA AtTyped ==
  ASSUME TypeOK, NEW t \in Threads, thr[t] # Idle, HandInv(t)
  PROVE  /\ thr[t] \in Busy /\ thr[t].req \in Requests /\ thr[t].n \in Nat \ {0}
         /\ thr[t].old \in Nat /\ thr[t].hand \in Seq(Seq(Requests))
         /\ thr[t].tail \in Seq(Requests)
         /\ Touches[thr[t].req] \in Seq(Cases)
         /\ At(thr[t]) \in Cases /\ At(thr[t]) \in Touched(thr[t].req)
         /\ thr[t].pc # "read" => thr[t].hand[thr[t].n] \in Seq(Requests)
<1>1. thr[t] \in Busy
  BY DEF TypeOK
<1>2. /\ thr[t].req \in Requests /\ thr[t].n \in Nat \ {0}
      /\ thr[t].old \in Nat /\ thr[t].hand \in Seq(Seq(Requests))
      /\ thr[t].tail \in Seq(Requests)
  BY <1>1 DEF Busy
<1>3. Touches[thr[t].req] \in Seq(Cases) /\ thr[t].n \in 1 .. Len(Touches[thr[t].req])
  BY <1>2, CaseStoreAssumption DEF HandInv
<1>4. At(thr[t]) \in Cases /\ At(thr[t]) \in Touched(thr[t].req)
  BY <1>3 DEF At, Touched, Range
<1>5. thr[t].pc # "read" => thr[t].hand[thr[t].n] \in Seq(Requests)
  BY <1>2, <1>3 DEF HandInv
<1>6. QED
  BY <1>1, <1>2, <1>3, <1>4, <1>5

(* A thread that saves becomes idle, or keeps its request and its cards.      *)
LEMMA ContinueKeeps ==
  ASSUME TypeOK, NEW t \in Threads, thr[t].pc \in {"upsert", "insert"},
         HandInv(t), LockInv(t), OwnerInv(t), NEW old \in Nat, Continue(t, old),
         UNCHANGED owner
  PROVE  /\ thr' \in [Threads -> {Idle} \cup Busy]
         /\ state' \in [Requests -> {"new", "running", "answered", "failed"}]
         /\ lock' \in [Procs -> Threads \cup {NoOne}]
         /\ \A u \in Threads : u # t => thr'[u] = thr[u]
         /\ ThreadInv(t)'
         /\ \A p \in Procs : p # ProcOf[t] => lock'[p] = lock[p]
<1> DEFINE h == thr[t]
<1>1. h # Idle /\ h \in Busy
  BY DEF TypeOK, Idle
<1>2. /\ h.req \in Requests /\ h.n \in Nat \ {0} /\ h.hand \in Seq(Seq(Requests))
      /\ h.n \in 1 .. Len(Touches[h.req]) /\ Len(h.hand) = Len(Touches[h.req])
      /\ Len(h.hand) \in Nat /\ Len(Touches[h.req]) \in Nat
  BY <1>1, AtTyped DEF HandInv
<1>3. CASE Len(h.hand[h.n]) > old
  <2> DEFINE g == [h EXCEPT !.pc = "tail", !.old = old]
  <2>1. thr' = [thr EXCEPT ![t] = g] /\ UNCHANGED <<lock, state>>
    BY <1>3 DEF Continue
  <2>2. g \in Busy /\ g # Idle /\ g.pc = "tail" /\ g.req = h.req /\ g.n = h.n
        /\ g.hand = h.hand /\ g.old = old
    BY <1>1 DEF Busy, Idle
  <2> HIDE DEF g
  <2>3. thr'[t] = g
    BY <2>1 DEF TypeOK
  <2>4. QED
    BY <1>2, <1>3, <2>1, <2>2, <2>3
       DEF TypeOK, ThreadInv, HandInv, LockInv, OwnerInv, TailInv, Saving
<1>4. CASE ~(Len(h.hand[h.n]) > old) /\ h.n < Len(h.hand)
  <2> DEFINE f == [h EXCEPT !.pc = "save"]
             g == [f EXCEPT !.n = h.n + 1]
  <2>1. thr' = [thr EXCEPT ![t] = g] /\ Release(t) /\ UNCHANGED state
    <3>1. thr' = [thr EXCEPT ![t].pc = "save", ![t].n = @ + 1] /\ Release(t) /\ UNCHANGED state
      BY <1>4 DEF Continue
    <3>2. QED
      BY <3>1, <1>1 DEF Busy
  <2>2. g \in Busy /\ g # Idle /\ g.pc = "save" /\ g.req = h.req /\ g.n = h.n + 1
        /\ g.hand = h.hand
    <3>1. f \in Busy /\ f.pc = "save" /\ f.req = h.req /\ f.hand = h.hand
      BY <1>1 DEF Busy
    <3>2. h.n + 1 \in Nat \ {0}
      BY <1>2
    <3> HIDE DEF f
    <3>3. QED
      BY <3>1, <3>2 DEF Busy, Idle
  <2>a. h.n + 1 \in 1 .. Len(Touches[h.req])
    BY <1>2, <1>4
  <2> HIDE DEF g
  <2>3. thr'[t] = g
    BY <2>1 DEF TypeOK
  <2>4. HandInv(t)' /\ LockInv(t)' /\ OwnerInv(t)' /\ TailInv(t)'
    BY <1>2, <1>4, <2>a, <2>2, <2>3 DEF HandInv, LockInv, OwnerInv, TailInv, Saving
  <2>5. QED
    BY <2>1, <2>2, <2>4, CaseStoreAssumption DEF TypeOK, ThreadInv, Release
<1>5. CASE ~(Len(h.hand[h.n]) > old) /\ ~(h.n < Len(h.hand)) /\ Len(h.hand) > 1
  <2> DEFINE g == [h EXCEPT !.pc = "commit"]
  <2>1. thr' = [thr EXCEPT ![t] = g] /\ Release(t) /\ UNCHANGED state
    BY <1>5 DEF Continue
  <2>2. g \in Busy /\ g # Idle /\ g.pc = "commit" /\ g.req = h.req /\ g.n = h.n
        /\ g.hand = h.hand
    BY <1>1 DEF Busy, Idle
  <2> HIDE DEF g
  <2>3. thr'[t] = g
    BY <2>1 DEF TypeOK
  <2>4. HandInv(t)' /\ LockInv(t)' /\ OwnerInv(t)' /\ TailInv(t)'
    BY <1>2, <1>5, <2>2, <2>3 DEF HandInv, LockInv, OwnerInv, TailInv, Saving
  <2>5. QED
    BY <2>1, <2>2, <2>4, CaseStoreAssumption DEF TypeOK, ThreadInv, Release
<1>6. CASE ~(Len(h.hand[h.n]) > old) /\ ~(h.n < Len(h.hand)) /\ ~(Len(h.hand) > 1)
  <2>1. Answer(t) /\ Release(t)
    BY <1>6 DEF Continue
  <2>2. QED
    BY <1>2, <2>1, CaseStoreAssumption DEF TypeOK, ThreadInv, Release, Answer
<1>7. QED
  BY <1>3, <1>4, <1>5, <1>6

(* A thread that does not move stays consistent, if it keeps what it holds    *)
(* and the journal it is about to extend.                                   *)
LEMMA OthersKeep ==
  ASSUME IInv, NEW u \in Threads, thr'[u] = thr[u],
         lock[ProcOf[u]] = u => lock'[ProcOf[u]] = u,
         owner = u => owner' = u,
         thr[u].pc = "insert" /\ lock[ProcOf[u]] = u /\ At(thr[u]) \in Cases
            /\ Home[thr[u].req] = ProcOf[u] /\ At(thr[u]) \in Touched(thr[u].req)
            /\ SavedBy(ProcOf[u], At(thr[u]))
         => View(ProcOf[u])'.ledger[At(thr[u])] = View(ProcOf[u]).ledger[At(thr[u])]
  PROVE  ThreadInv(u)'
<1>1. SUFFICES ASSUME thr[u] # Idle
               PROVE  HandInv(u)' /\ LockInv(u)' /\ OwnerInv(u)' /\ TailInv(u)'
  BY DEF ThreadInv
<1>2. TypeOK /\ HandInv(u) /\ LockInv(u) /\ OwnerInv(u) /\ TailInv(u)
  BY <1>1 DEF IInv, ThreadInv
<1>3. HandInv(u)' /\ LockInv(u)' /\ OwnerInv(u)'
  BY <1>2 DEF HandInv, LockInv, OwnerInv
<1>4. ASSUME thr[u].pc = "insert", SavedBy(ProcOf[u], At(thr[u]))
      PROVE  thr[u].tail = Chain(View(ProcOf[u])'.ledger[At(thr[u])])
  <2>1. lock[ProcOf[u]] = u /\ At(thr[u]) \in Cases /\ At(thr[u]) \in Touched(thr[u].req)
        /\ Home[thr[u].req] = ProcOf[u]
    BY <1>1, <1>2, <1>4, AtTyped DEF LockInv, Saving, HandInv
  <2>2. thr[u].tail = Chain(View(ProcOf[u]).ledger[At(thr[u])])
    BY <1>2, <1>4 DEF TailInv
  <2>3. QED
    BY <1>4, <2>1, <2>2
<1>5. TailInv(u)'
  BY <1>4 DEF TailInv, At
<1>6. QED
  BY <1>3, <1>5

(***************************************************************************)
(* The actions, one lemma for those that write and one for the others.       *)
(***************************************************************************)
(* What only one thread does, without a write, keeps the invariant.          *)
LEMMA QuietStep ==
  ASSUME IInv, NEW t \in Threads, UNCHANGED <<db, draft, owner>>,
         TypeOK', ThreadInv(t)',
         \A u \in Threads \ {t} : /\ thr'[u] = thr[u]
                                  /\ lock[ProcOf[u]] = u => lock'[ProcOf[u]] = u
  PROVE  IInv'
<1>1. ChainInv'
  <2>1. ChainInv
    BY DEF IInv
  <2>2. QED
    BY <2>1 DEF ChainInv, InTransaction
<1>2. \A p \in Procs : View(p)' = View(p)
  BY DEF View, InTransaction
<1>3. ASSUME NEW u \in Threads, u # t PROVE ThreadInv(u)'
  <2>1. View(ProcOf[u])' = View(ProcOf[u])
    BY <1>2, CaseStoreAssumption
  <2>2. QED
    BY <1>3, <2>1, OthersKeep
<1>4. QED
  BY <1>1, <1>3 DEF IInv

LEMMA StartStep ==
  ASSUME IInv, NEW t \in Threads, NEW r \in Requests, Start(t, r)
  PROVE  IInv'
<1> DEFINE h == [pc |-> "read", req |-> r, hand |-> <<>>, n |-> 1, old |-> 0, tail |-> <<>>]
<1>1. TypeOK
  BY DEF IInv
<1>2. h \in Busy /\ h.pc = "read" /\ h.req = r /\ h.n = 1 /\ Len(h.hand) = 0
  BY DEF Busy
<1>3. Touches[r] \in Seq(Cases) /\ Len(Touches[r]) \in Nat /\ Len(Touches[r]) >= 1
  <2>1. Touches[r] \in Seq(Cases) /\ Touches[r] # <<>>
    BY CaseStoreAssumption
  <2>2. QED
    BY <2>1
<1>4. thr' = [thr EXCEPT ![t] = h]
  BY DEF Start
<1> HIDE DEF h
<1>5. thr'[t] = h
  BY <1>1, <1>4 DEF TypeOK
<1>6. TypeOK'
  <2>1. Touched(r) \subseteq Cases
    BY <1>3 DEF Touched, Range
  <2>2. QED
    BY <1>1, <1>2, <1>4, <2>1 DEF TypeOK, Start
<1>7. ThreadInv(t)'
  BY <1>2, <1>3, <1>5 DEF ThreadInv, HandInv, LockInv, OwnerInv, TailInv, Saving, Start
<1>8. QED
  BY <1>1, <1>4, <1>6, <1>7, QuietStep DEF TypeOK, Start

LEMMA ReadCardStep ==
  ASSUME IInv, NEW t \in Threads, ReadCard(t)
  PROVE  IInv'
<1> DEFINE h == thr[t]
           hand == Append(h.hand, Changed(h.req, View(ProcOf[t]).rows[Touches[h.req][h.n]]))
           read == Len(hand) = Len(Touches[h.req])
           n == IF read THEN 1 ELSE h.n + 1
           pc == IF ~read THEN "read" ELSE IF Len(hand) > 1 THEN "begin" ELSE "save"
           g1 == [h EXCEPT !.hand = hand]
           g2 == [g1 EXCEPT !.n = n]
           g == [g2 EXCEPT !.pc = pc]
<1>1. TypeOK /\ ThreadInv(t) /\ h.pc = "read"
  BY DEF IInv, ReadCard
<1>2. h # Idle /\ h \in Busy /\ HandInv(t)
  BY <1>1 DEF Idle, TypeOK, ThreadInv
<1>3. h.req \in Requests /\ h.n \in Nat \ {0} /\ At(h) \in Cases
      /\ h.hand \in Seq(Seq(Requests)) /\ h.old \in Nat /\ h.tail \in Seq(Requests)
  BY <1>1, <1>2, AtTyped
<1>4. h.n \in 1 .. Len(Touches[h.req]) /\ Len(h.hand) = h.n - 1 /\ Len(Touches[h.req]) \in Nat
  <2>1. Touches[h.req] \in Seq(Cases)
    BY <1>3, CaseStoreAssumption
  <2>2. QED
    BY <1>1, <1>2, <2>1 DEF HandInv
<1>5. Changed(h.req, View(ProcOf[t]).rows[Touches[h.req][h.n]]) \in Seq(Requests)
  <2>1. View(ProcOf[t]).rows[Touches[h.req][h.n]] \in Seq(Requests)
    <3>1. View(ProcOf[t]) \in Store
      BY <1>1, ViewTyped, CaseStoreAssumption
    <3>2. Touches[h.req][h.n] \in Cases
      BY <1>3 DEF At
    <3>3. View(ProcOf[t]).rows \in [Cases -> Seq(Requests)]
      BY <3>1 DEF Store
    <3>4. QED
      BY <3>2, <3>3
  <2>2. QED
    BY <1>3, <2>1 DEF Changed
<1>6. hand \in Seq(Seq(Requests)) /\ Len(hand) = h.n
  BY <1>3, <1>4, <1>5
<1>7. thr' = [thr EXCEPT ![t] = g] /\ UNCHANGED <<db, draft, owner, lock, state, raced, faulted>>
  BY <1>2 DEF ReadCard, Busy
<1>8. n \in Nat \ {0} /\ pc \in {"read", "begin", "save"}
  BY <1>3
<1> HIDE DEF hand, n, pc
<1>9. /\ g \in Busy /\ g # Idle
      /\ g.pc = pc /\ g.req = h.req /\ g.hand = hand /\ g.n = n
  <2>1. g1 \in Busy /\ g1.req = h.req /\ g1.hand = hand
    BY <1>2, <1>6 DEF Busy
  <2> HIDE DEF g1
  <2>2. g2 \in Busy /\ g2.req = h.req /\ g2.hand = hand /\ g2.n = n
    BY <1>8, <2>1 DEF Busy
  <2> HIDE DEF g2
  <2>3. QED
    BY <1>8, <2>2 DEF Busy, Idle
<1> HIDE DEF g
<1>10. thr'[t] = g
  BY <1>1, <1>7 DEF TypeOK
<1>11. TypeOK'
  BY <1>1, <1>7, <1>9 DEF TypeOK
<1>12. ThreadInv(t)'
  <2>1. HandInv(t)'
    <3>1. Home[g.req] = ProcOf[t] /\ g.n \in 1 .. Len(Touches[g.req])
      BY <1>2, <1>4, <1>6, <1>9 DEF HandInv, n
    <3>2. IF g.pc = "read" THEN Len(g.hand) = g.n - 1 ELSE Len(g.hand) = Len(Touches[g.req])
      BY <1>4, <1>6, <1>9 DEF n, pc
    <3>3. g.pc \notin {"tail", "insert"} /\ (g.pc = "begin" => g.n = 1)
      BY <1>8, <1>9 DEF n, pc
    <3>4. QED
      BY <1>10, <3>1, <3>2, <3>3 DEF HandInv
  <2>2. g.pc \in {"read", "begin", "save"} /\ (g.pc = "save" => ~(Len(g.hand) > 1))
    BY <1>9 DEF pc
  <2>3. LockInv(t)' /\ OwnerInv(t)' /\ TailInv(t)'
    BY <1>9, <1>10, <2>2 DEF LockInv, OwnerInv, TailInv, Saving
  <2>4. QED
    BY <2>1, <2>3 DEF ThreadInv
<1>13. QED
  BY <1>1, <1>7, <1>11, <1>12, QuietStep DEF TypeOK, ReadCard

(* A request that is refused leaves its thread idle. *)
LEMMA RefuseTyped ==
  ASSUME IInv, NEW t \in Threads, thr[t] # Idle, Refuse(t) \/ Answer(t)
  PROVE  /\ thr' \in [Threads -> {Idle} \cup Busy] /\ thr'[t] = Idle
         /\ \A u \in Threads : u # t => thr'[u] = thr[u]
         /\ state' \in [Requests -> {"new", "running", "answered", "failed"}]
<1>1. TypeOK /\ thr[t].req \in Requests
  BY AtTyped DEF IInv, ThreadInv
<1>2. QED
  BY <1>1 DEF TypeOK, Refuse, Answer

(* A busy thread that only changes its pc keeps the rest of its record. *)
LEMMA PcTyped ==
  ASSUME TypeOK, NEW t \in Threads, thr[t] \in Busy,
         NEW pc \in {"read", "begin", "save", "upsert", "tail", "insert", "commit", "rollback"},
         thr' = [thr EXCEPT ![t].pc = pc]
  PROVE  /\ thr' \in [Threads -> {Idle} \cup Busy] /\ thr'[t] # Idle /\ thr'[t].pc = pc
         /\ thr'[t].req = thr[t].req /\ thr'[t].hand = thr[t].hand /\ thr'[t].n = thr[t].n
         /\ thr'[t].old = thr[t].old /\ thr'[t].tail = thr[t].tail
         /\ \A u \in Threads : u # t => thr'[u] = thr[u]
<1> DEFINE g == [thr[t] EXCEPT !.pc = pc]
<1>1. g \in Busy /\ g # Idle /\ g.pc = pc /\ g.req = thr[t].req /\ g.hand = thr[t].hand
      /\ g.n = thr[t].n /\ g.old = thr[t].old /\ g.tail = thr[t].tail
  BY DEF Busy, Idle
<1>2. thr' = [thr EXCEPT ![t] = g]
  OBVIOUS
<1> HIDE DEF g
<1>3. QED
  BY <1>1, <1>2 DEF TypeOK

LEMMA BeginStep ==
  ASSUME IInv, NEW t \in Threads, Begin(t)
  PROVE  IInv'
<1>1. TypeOK /\ ChainInv /\ ThreadInv(t) /\ thr[t].pc = "begin" /\ draft = db /\ owner = NoOne
  BY DEF IInv, Begin, TypeOK
<1>2. thr[t] \in Busy /\ HandInv(t)
  BY <1>1 DEF TypeOK, Idle, ThreadInv
<1>3. /\ thr' \in [Threads -> {Idle} \cup Busy] /\ thr'[t] # Idle /\ thr'[t].pc = "save"
      /\ thr'[t].req = thr[t].req /\ thr'[t].hand = thr[t].hand /\ thr'[t].n = thr[t].n
      /\ \A u \in Threads : u # t => thr'[u] = thr[u]
  BY <1>1, <1>2, PcTyped DEF Begin
<1>4. TypeOK'
  BY <1>1, <1>3, CaseStoreAssumption DEF TypeOK, Begin
<1>5. \A p \in Procs : View(p)' = View(p)
  BY <1>1 DEF View, InTransaction, Begin
<1>6. ChainInv'
  BY <1>1 DEF ChainInv, InTransaction, Begin
<1>7. ThreadInv(t)'
  BY <1>1, <1>2, <1>3 DEF ThreadInv, HandInv, LockInv, OwnerInv, TailInv, Saving, Begin
<1>8. ASSUME NEW u \in Threads, u # t PROVE ThreadInv(u)'
  <2>1. View(ProcOf[u])' = View(ProcOf[u]) /\ owner # u /\ UNCHANGED lock
    BY <1>1, <1>5, CaseStoreAssumption DEF Begin
  <2>2. QED
    BY <1>3, <1>8, <2>1, OthersKeep
<1>9. QED
  BY <1>4, <1>6, <1>7, <1>8 DEF IInv

LEMMA NestedBeginStep ==
  ASSUME IInv, NEW t \in Threads, NestedBegin(t)
  PROVE  IInv'
<1>1. TypeOK /\ thr[t] # Idle /\ UNCHANGED <<db, draft, owner, lock, raced, faulted>> /\ Refuse(t)
  BY DEF IInv, NestedBegin, Idle
<1>2. TypeOK'
  BY <1>1, RefuseTyped DEF TypeOK
<1>3. thr'[t] = Idle /\ \A u \in Threads : u # t => thr'[u] = thr[u]
  BY <1>1, RefuseTyped
<1>4. QED
  BY <1>1, <1>2, <1>3, QuietStep DEF ThreadInv

LEMMA CommitStep ==
  ASSUME IInv, NEW t \in Threads, Commit(t)
  PROVE  IInv'
<1>1. TypeOK /\ ChainInv /\ thr[t] # Idle /\ Answer(t) /\ db' = draft /\ owner' = NoOne
      /\ UNCHANGED <<draft, lock, raced, faulted>>
  BY DEF IInv, Commit, Idle
<1>2. owner = t
  BY <1>1 DEF IInv, ThreadInv, OwnerInv, Commit
<1>3. TypeOK'
  BY <1>1, RefuseTyped DEF TypeOK
<1>4. thr'[t] = Idle /\ \A u \in Threads : u # t => thr'[u] = thr[u]
  BY <1>1, RefuseTyped
<1>5. ChainInv'
  BY <1>1 DEF ChainInv
<1>6. ASSUME NEW u \in Threads, u # t PROVE ThreadInv(u)'
  <2>1. ASSUME NEW c \in Cases, SavedBy(ProcOf[u], c)
        PROVE  View(ProcOf[u])'.ledger[c] = View(ProcOf[u]).ledger[c]
    <3>1. View(ProcOf[u])' = draft
      BY <1>1 DEF View, InTransaction
    <3>2. ~InTransaction(ProcOf[u]) => draft.ledger[c] = db.ledger[c]
      BY <1>1, <2>1, CaseStoreAssumption DEF ChainInv
    <3>3. QED
      BY <3>1, <3>2 DEF View
  <2>2. QED
    BY <1>1, <1>2, <1>4, <1>6, <2>1, OthersKeep
<1>7. QED
  BY <1>3, <1>4, <1>5, <1>6 DEF IInv, ThreadInv

LEMMA RollbackStep ==
  ASSUME IInv, NEW t \in Threads, Rollback(t)
  PROVE  IInv'
<1>1. TypeOK /\ ChainInv /\ thr[t] # Idle /\ Refuse(t) /\ draft' = db /\ owner' = NoOne
      /\ UNCHANGED <<db, lock, raced, faulted>> /\ Unlocked(t)
  BY DEF IInv, Rollback, Idle
<1>2. owner = t
  BY <1>1 DEF IInv, ThreadInv, OwnerInv, Rollback
<1>3. TypeOK'
  BY <1>1, RefuseTyped DEF TypeOK
<1>4. thr'[t] = Idle /\ \A u \in Threads : u # t => thr'[u] = thr[u]
  BY <1>1, RefuseTyped
<1>5. ChainInv'
  BY <1>1 DEF ChainInv
<1>6. ASSUME NEW u \in Threads, u # t PROVE ThreadInv(u)'
  <2>1. lock[ProcOf[u]] = u => View(ProcOf[u])' = View(ProcOf[u])
    <3>1. lock[ProcOf[u]] = u => ProcOf[u] # ProcOf[t]
      BY <1>1, CaseStoreAssumption DEF Unlocked
    <3>2. QED
      BY <1>1, <1>2, <3>1 DEF View, InTransaction
  <2>2. QED
    BY <1>1, <1>2, <1>4, <1>6, <2>1, OthersKeep
<1>7. QED
  BY <1>3, <1>4, <1>5, <1>6 DEF IInv, ThreadInv

LEMMA ReadExistingStep ==
  ASSUME IInv, NEW t \in Threads, ReadExisting(t)
  PROVE  IInv'
<1> DEFINE old == Len(View(ProcOf[t]).rows[At(thr[t])])
           f == [thr[t] EXCEPT !.pc = "upsert"]
           g == [f EXCEPT !.old = old]
<1>1. TypeOK /\ ThreadInv(t) /\ thr[t].pc = "save" /\ Unlocked(t)
      /\ lock' = [lock EXCEPT ![ProcOf[t]] = t]
      /\ UNCHANGED <<db, draft, owner, state, raced, faulted>>
  BY DEF IInv, ReadExisting
<1>2. thr[t] # Idle /\ thr[t] \in Busy /\ HandInv(t) /\ OwnerInv(t)
  BY <1>1 DEF TypeOK, Idle, ThreadInv
<1>3. old \in Nat
  <2>1. View(ProcOf[t]).rows[At(thr[t])] \in Seq(Requests)
    BY <1>1, <1>2, AtTyped, ViewTyped, CaseStoreAssumption DEF Store
  <2>2. QED
    BY <2>1
<1>4. thr' = [thr EXCEPT ![t] = g]
  BY <1>2 DEF ReadExisting, Busy
<1> HIDE DEF old
<1>5. g \in Busy /\ g # Idle /\ g.pc = "upsert" /\ g.req = thr[t].req /\ g.n = thr[t].n
      /\ g.hand = thr[t].hand
  <2>1. f \in Busy /\ f.pc = "upsert" /\ f.req = thr[t].req /\ f.n = thr[t].n
        /\ f.hand = thr[t].hand
    BY <1>2 DEF Busy
  <2> HIDE DEF f
  <2>2. QED
    BY <1>3, <2>1 DEF Busy, Idle
<1> HIDE DEF g
<1>6. thr'[t] = g
  BY <1>1, <1>4 DEF TypeOK
<1>7. TypeOK'
  BY <1>1, <1>4, <1>5, CaseStoreAssumption DEF TypeOK
<1>8. lock'[ProcOf[t]] = t
  BY <1>1, CaseStoreAssumption DEF TypeOK
<1>9. ThreadInv(t)'
  BY <1>1, <1>2, <1>5, <1>6, <1>8 DEF ThreadInv, HandInv, LockInv, OwnerInv, TailInv, Saving
<1>10. ASSUME NEW u \in Threads \ {t}
       PROVE  thr'[u] = thr[u] /\ (lock[ProcOf[u]] = u => lock'[ProcOf[u]] = u)
  BY <1>1, <1>4, CaseStoreAssumption DEF TypeOK, Unlocked
<1>11. QED
  BY <1>1, <1>7, <1>9, <1>10, QuietStep

LEMMA ReadTailStep ==
  ASSUME IInv, NEW t \in Threads, ReadTail(t)
  PROVE  IInv'
<1> DEFINE tail == Chain(View(ProcOf[t]).ledger[At(thr[t])])
           f == [thr[t] EXCEPT !.pc = "insert"]
           g == [f EXCEPT !.tail = tail]
<1>1. TypeOK /\ ThreadInv(t) /\ thr[t].pc = "tail"
      /\ UNCHANGED <<db, draft, owner, lock, state, raced, faulted>>
  BY DEF IInv, ReadTail
<1>2. thr[t] # Idle /\ thr[t] \in Busy /\ HandInv(t) /\ LockInv(t) /\ OwnerInv(t)
  BY <1>1 DEF TypeOK, Idle, ThreadInv
<1>3. tail \in Seq(Requests)
  <2>1. View(ProcOf[t]).ledger[At(thr[t])] \in Seq(Entry)
    BY <1>1, <1>2, AtTyped, ViewTyped, CaseStoreAssumption DEF Store
  <2>2. QED
    BY <2>1, ChainTyped
<1>4. thr' = [thr EXCEPT ![t] = g]
  BY <1>2 DEF ReadTail, Busy
<1> HIDE DEF tail
<1>5. g \in Busy /\ g # Idle /\ g.pc = "insert" /\ g.req = thr[t].req /\ g.n = thr[t].n
      /\ g.hand = thr[t].hand /\ g.old = thr[t].old /\ g.tail = tail
  <2>1. f \in Busy /\ f.pc = "insert" /\ f.req = thr[t].req /\ f.n = thr[t].n
        /\ f.hand = thr[t].hand /\ f.old = thr[t].old
    BY <1>2 DEF Busy
  <2> HIDE DEF f
  <2>2. QED
    BY <1>3, <2>1 DEF Busy, Idle
<1> HIDE DEF g
<1>6. thr'[t] = g
  BY <1>1, <1>4 DEF TypeOK
<1>7. TypeOK'
  BY <1>1, <1>4, <1>5 DEF TypeOK
<1>8. TailInv(t)'
  <2>1. At(g) = At(thr[t])
    BY <1>5 DEF At
  <2>2. View(ProcOf[t])' = View(ProcOf[t])
    BY <1>1 DEF View, InTransaction
  <2>3. QED
    BY <1>5, <1>6, <2>1, <2>2 DEF TailInv, tail
<1>9. HandInv(t)' /\ LockInv(t)' /\ OwnerInv(t)'
  BY <1>1, <1>2, <1>5, <1>6 DEF HandInv, LockInv, OwnerInv, Saving
<1>10. \A u \in Threads \ {t} : thr'[u] = thr[u]
  BY <1>1, <1>4 DEF TypeOK
<1>11. QED
  BY <1>1, <1>7, <1>8, <1>9, <1>10, QuietStep DEF ThreadInv

(* A write changes the journal of no case but the one at hand, and leaves     *)
(* that one as it should be: then the invariant holds on.                   *)
LEMMA WriteStep ==
  ASSUME IInv, NEW t \in Threads, thr[t].pc \in {"upsert", "insert"}, CanWrite(t),
         NEW store \in Store, Write(t, store), NEW old \in Nat, Continue(t, old),
         UNCHANGED <<owner, raced, faulted>>,
         \A c \in Cases : \/ store.ledger[c] = View(ProcOf[t]).ledger[c]
                          \/ /\ c = At(thr[t])
                             /\ SavedBy(ProcOf[t], c) => Verified(store.ledger[c])
  PROVE  IInv'
<1> DEFINE h == thr[t]
<1>1. TypeOK /\ ChainInv /\ h # Idle /\ HandInv(t) /\ LockInv(t) /\ OwnerInv(t)
  BY DEF IInv, ThreadInv, Idle
<1>2. /\ thr' \in [Threads -> {Idle} \cup Busy]
      /\ state' \in [Requests -> {"new", "running", "answered", "failed"}]
      /\ lock' \in [Procs -> Threads \cup {NoOne}]
      /\ \A u \in Threads : u # t => thr'[u] = thr[u]
      /\ ThreadInv(t)'
      /\ \A p \in Procs : p # ProcOf[t] => lock'[p] = lock[p]
  BY <1>1, ContinueKeeps
<1>3. TypeOK'
  BY <1>1, <1>2, WriteTyped DEF TypeOK
<1>4. h.req \in Requests /\ At(h) \in Touched(h.req) /\ Home[h.req] = ProcOf[t]
  BY <1>1, AtTyped DEF HandInv
<1>5. \A p \in Procs : SavedBy(p, At(h)) => p = ProcOf[t]
  BY <1>4 DEF SavedBy
<1>6. \/ /\ InTransaction(ProcOf[t]) /\ View(ProcOf[t]) = draft
         /\ draft' = store /\ db' = db
      \/ owner = NoOne /\ View(ProcOf[t]) = db /\ draft = db /\ draft' = store /\ db' = store
  BY <1>1 DEF TypeOK, CanWrite, InTransaction, View, Write
<1>7. ChainInv'
  <2>1. SUFFICES ASSUME NEW p \in Procs, NEW c \in Cases, SavedBy(p, c)
                 PROVE  /\ Verified(db'.ledger[c]) /\ Verified(draft'.ledger[c])
                        /\ ~InTransaction(p)' => draft'.ledger[c] = db'.ledger[c]
    BY DEF ChainInv, SavedBy
  <2>2. /\ Verified(db.ledger[c]) /\ Verified(draft.ledger[c])
        /\ ~InTransaction(p) => draft.ledger[c] = db.ledger[c]
    BY <1>1, <2>1 DEF ChainInv
  <2>3. InTransaction(p)' = InTransaction(p)
    BY DEF InTransaction
  <2>4. CASE store.ledger[c] = View(ProcOf[t]).ledger[c]
    BY <1>6, <2>2, <2>3, <2>4
  <2>5. CASE c = At(h) /\ (SavedBy(ProcOf[t], c) => Verified(store.ledger[c]))
    BY <1>5, <1>6, <2>1, <2>2, <2>3, <2>5
  <2>6. QED
    BY <2>4, <2>5
<1>8. ASSUME NEW u \in Threads, u # t PROVE ThreadInv(u)'
  <2>1. lock[ProcOf[u]] = u => ProcOf[u] # ProcOf[t]
    BY <1>1, <1>8 DEF LockInv, Saving
  <2>2. ASSUME lock[ProcOf[u]] = u, NEW c \in Cases, SavedBy(ProcOf[u], c)
        PROVE  View(ProcOf[u])'.ledger[c] = View(ProcOf[u]).ledger[c]
    <3>1. ProcOf[u] \in Procs /\ ProcOf[u] # ProcOf[t]
      BY <2>1, <2>2, CaseStoreAssumption
    <3>2. store.ledger[c] = View(ProcOf[t]).ledger[c]
      BY <1>5, <2>2, <3>1
    <3>3. CASE InTransaction(ProcOf[t]) /\ db' = db
      <4>1. View(ProcOf[u]) = db /\ View(ProcOf[u])' = db'
        BY <3>1, <3>3 DEF View, InTransaction
      <4>2. QED
        BY <3>3, <4>1
    <3>4. CASE owner = NoOne /\ View(ProcOf[t]) = db /\ db' = store
      <4>1. View(ProcOf[u]) = db /\ View(ProcOf[u])' = db'
        BY <3>4 DEF View, InTransaction
      <4>2. QED
        BY <3>2, <3>4, <4>1
    <3>5. QED
      BY <1>6, <3>3, <3>4
  <2>3. lock[ProcOf[u]] = u => lock'[ProcOf[u]] = u
    BY <1>2, <2>1, CaseStoreAssumption
  <2>4. owner = u => owner' = u
    OBVIOUS
  <2>5. QED
    BY <1>2, <1>8, <2>2, <2>3, <2>4, OthersKeep
<1>9. QED
  BY <1>2, <1>3, <1>7, <1>8 DEF IInv

LEMMA UpsertStep ==
  ASSUME IInv, NEW t \in Threads, Upsert(t)
  PROVE  IInv'
<1> DEFINE h == thr[t]
           view == View(ProcOf[t])
           store == [view EXCEPT !.rows = [view.rows EXCEPT ![At(h)] = h.hand[h.n]]]
<1>1. TypeOK /\ h.pc = "upsert" /\ CanWrite(t) /\ Continue(t, h.old)
      /\ UNCHANGED <<owner, raced, faulted>>
  BY DEF IInv, Upsert
<1>2. h # Idle /\ HandInv(t)
  BY <1>1 DEF IInv, ThreadInv, Idle
<1>3. view \in Store /\ At(h) \in Cases /\ h.hand[h.n] \in Seq(Requests) /\ h.old \in Nat
  BY <1>1, <1>2, AtTyped, ViewTyped, CaseStoreAssumption
<1>4. Write(t, store)
  BY <1>3 DEF Upsert, Store
<1> HIDE DEF view
<1>5. store \in Store /\ store.ledger = view.ledger
  BY <1>3 DEF Store
<1> HIDE DEF store
<1>6. \A c \in Cases : store.ledger[c] = View(ProcOf[t]).ledger[c]
  BY <1>5 DEF view
<1>7. QED
  BY <1>1, <1>3, <1>4, <1>5, <1>6, WriteStep

LEMMA InsertStep ==
  ASSUME IInv, NEW t \in Threads, Insert(t)
  PROVE  IInv'
<1> DEFINE h == thr[t]
           view == View(ProcOf[t])
           entry == [line |-> h.hand[h.n][h.old + 1], prev |-> h.tail]
           longer == Append(view.ledger[At(h)], entry)
           store == [view EXCEPT !.ledger = [view.ledger EXCEPT ![At(h)] = longer]]
<1>1. TypeOK /\ ChainInv /\ h.pc = "insert" /\ CanWrite(t) /\ Continue(t, h.old + 1)
      /\ UNCHANGED <<owner, raced, faulted>>
  BY DEF IInv, Insert
<1>2. h # Idle /\ HandInv(t) /\ TailInv(t)
  BY <1>1 DEF IInv, ThreadInv, Idle
<1>3. /\ view \in Store /\ At(h) \in Cases /\ h.hand[h.n] \in Seq(Requests) /\ h.old \in Nat
      /\ h.tail \in Seq(Requests) /\ h.old < Len(h.hand[h.n])
  BY <1>1, <1>2, AtTyped, ViewTyped, CaseStoreAssumption DEF HandInv
<1>4. h.hand[h.n][h.old + 1] \in Requests
  BY <1>3
<1>5. entry \in Entry
  BY <1>3, <1>4 DEF Entry
<1>6. Write(t, store)
  BY <1>3 DEF Insert, Store
<1>7. view.ledger \in [Cases -> Seq(Entry)]
  BY <1>3 DEF Store
<1>8. SavedBy(ProcOf[t], At(h)) => Verified(longer)
  <2>1. SUFFICES ASSUME SavedBy(ProcOf[t], At(h)) PROVE Verified(longer)
    OBVIOUS
  <2>2. h.tail = Chain(view.ledger[At(h)])
    BY <1>1, <1>2, <2>1 DEF TailInv
  <2>3. Verified(view.ledger[At(h)])
    BY <1>1, <1>3, <2>1, CaseStoreAssumption DEF ChainInv, View
  <2>4. view.ledger[At(h)] \in Seq(Entry) /\ entry.prev = h.tail
    BY <1>3, <1>7
  <2> HIDE DEF view, entry
  <2>5. QED
    BY <1>5, <2>2, <2>3, <2>4, AppendVerified
<1>9. longer \in Seq(Entry)
  BY <1>3, <1>5, <1>7
<1> HIDE DEF view, longer
<1>10. store \in Store /\ \A c \in Cases : store.ledger[c] = IF c = At(h) THEN longer
                                                             ELSE view.ledger[c]
  BY <1>3, <1>7, <1>9 DEF Store
<1> HIDE DEF store
<1>11. \A c \in Cases : \/ store.ledger[c] = View(ProcOf[t]).ledger[c]
                        \/ /\ c = At(h)
                           /\ SavedBy(ProcOf[t], c) => Verified(store.ledger[c])
  BY <1>8, <1>10 DEF view
<1>12. h.old + 1 \in Nat
  BY <1>3
<1>13. QED
  BY <1>1, <1>6, <1>10, <1>11, <1>12, WriteStep

(***************************************************************************)
(* Faults.                                                                 *)
(***************************************************************************)
LEMMA TimedOutStep ==
  ASSUME IInv, NEW t \in Threads, TimedOut(t)
  PROVE  IInv'
<1>1. TypeOK /\ thr[t] # Idle /\ Refuse(t) /\ UNCHANGED <<db, draft, owner, raced>>
      /\ faulted' = faulted \cup {"timeout"} /\ "timeout" \in FaultKinds
  BY DEF IInv, TimedOut, Idle, MayFault
<1>2. lock' = IF lock[ProcOf[t]] = t THEN [lock EXCEPT ![ProcOf[t]] = NoOne] ELSE lock
  BY DEF TimedOut
<1>3. /\ thr' \in [Threads -> {Idle} \cup Busy] /\ thr'[t] = Idle
      /\ \A u \in Threads : u # t => thr'[u] = thr[u]
      /\ state' \in [Requests -> {"new", "running", "answered", "failed"}]
  BY <1>1, RefuseTyped
<1>4. lock' \in [Procs -> Threads \cup {NoOne}]
  BY <1>1, <1>2 DEF TypeOK
<1>5. TypeOK'
  BY <1>1, <1>3, <1>4 DEF TypeOK
<1>6. ASSUME NEW u \in Threads \ {t}
      PROVE  thr'[u] = thr[u] /\ (lock[ProcOf[u]] = u => lock'[ProcOf[u]] = u)
  BY <1>1, <1>2, <1>3, CaseStoreAssumption DEF TypeOK
<1>7. QED
  BY <1>1, <1>3, <1>5, <1>6, QuietStep DEF ThreadInv

LEMMA FailedStep ==
  ASSUME IInv, NEW t \in Threads, Failed(t)
  PROVE  IInv'
<1>1. TypeOK /\ ThreadInv(t) /\ thr[t].pc \in Saving /\ Release(t)
      /\ UNCHANGED <<db, draft, owner, raced>>
      /\ faulted' = faulted \cup {"failure"} /\ "failure" \in FaultKinds
  BY DEF IInv, Failed, MayFault, Saving
<1>2. thr[t] # Idle /\ thr[t] \in Busy /\ HandInv(t) /\ LockInv(t)
  BY <1>1 DEF TypeOK, Idle, ThreadInv, Saving
<1>3. lock' \in [Procs -> Threads \cup {NoOne}]
  BY <1>1 DEF TypeOK, Release
<1>4. /\ thr' \in [Threads -> {Idle} \cup Busy]
      /\ \A u \in Threads : u # t => thr'[u] = thr[u]
      /\ state' \in [Requests -> {"new", "running", "answered", "failed"}]
      /\ ThreadInv(t)'
  <2>1. CASE owner = t
    <3>1. thr' = [thr EXCEPT ![t].pc = "rollback"] /\ UNCHANGED state
      BY <2>1 DEF Failed
    <3>2. /\ thr' \in [Threads -> {Idle} \cup Busy] /\ thr'[t] # Idle
          /\ thr'[t].pc = "rollback" /\ thr'[t].req = thr[t].req
          /\ thr'[t].hand = thr[t].hand /\ thr'[t].n = thr[t].n
          /\ \A u \in Threads : u # t => thr'[u] = thr[u]
      BY <1>1, <1>2, <3>1, PcTyped
    <3>3. ThreadInv(t)'
      BY <1>1, <1>2, <2>1, <3>2
         DEF ThreadInv, HandInv, LockInv, OwnerInv, TailInv, Saving
    <3>4. QED
      BY <1>1, <3>1, <3>2, <3>3 DEF TypeOK
  <2>2. CASE owner # t
    <3>1. Refuse(t)
      BY <2>2 DEF Failed
    <3>2. QED
      BY <1>2, <3>1, RefuseTyped DEF ThreadInv
  <2>3. QED
    BY <2>1, <2>2
<1>5. TypeOK'
  BY <1>1, <1>3, <1>4 DEF TypeOK
<1>6. ASSUME NEW u \in Threads \ {t}
      PROVE  thr'[u] = thr[u] /\ (lock[ProcOf[u]] = u => lock'[ProcOf[u]] = u)
  BY <1>1, <1>2, <1>4, CaseStoreAssumption DEF TypeOK, LockInv, Release
<1>7. QED
  BY <1>1, <1>4, <1>5, <1>6, QuietStep

(* What a dead process held of the transaction is as if it had never been.    *)
LEMMA DiedStep ==
  ASSUME IInv, NEW p \in Procs, Died(p)
  PROVE  IInv'
<1>1. TypeOK /\ ChainInv /\ UNCHANGED <<db, state, raced>>
      /\ thr' = [t \in Threads |-> IF ProcOf[t] = p THEN Idle ELSE thr[t]]
      /\ lock' = [lock EXCEPT ![p] = NoOne]
      /\ faulted' = faulted \cup {"death"} /\ "death" \in FaultKinds
  BY DEF IInv, Died, MayFault
<1>2. \/ InTransaction(p) /\ draft' = db /\ owner' = NoOne
      \/ ~InTransaction(p) /\ UNCHANGED <<draft, owner>>
  BY DEF Died
<1>3. TypeOK'
  BY <1>1, <1>2 DEF TypeOK
<1>4. ChainInv'
  <2>1. CASE InTransaction(p) /\ draft' = db /\ owner' = NoOne
    BY <1>1, <2>1 DEF ChainInv
  <2>2. CASE UNCHANGED <<draft, owner>>
    BY <1>1, <2>2 DEF ChainInv, InTransaction
  <2>3. QED
    BY <1>2, <2>1, <2>2
<1>5. ASSUME NEW u \in Threads, ProcOf[u] = p PROVE ThreadInv(u)'
  BY <1>1, <1>5 DEF ThreadInv
<1>6. ASSUME NEW u \in Threads, ProcOf[u] # p PROVE ThreadInv(u)'
  <2>1. View(ProcOf[u])' = View(ProcOf[u])
    BY <1>1, <1>2, <1>6 DEF View, InTransaction
  <2>2. thr'[u] = thr[u] /\ lock'[ProcOf[u]] = lock[ProcOf[u]]
    BY <1>1, <1>6, CaseStoreAssumption DEF TypeOK
  <2>3. owner = u => owner' = u
    BY <1>2, <1>6 DEF InTransaction
  <2>4. QED
    BY <1>6, <2>1, <2>2, <2>3, OthersKeep
<1>7. QED
  BY <1>3, <1>4, <1>5, <1>6 DEF IInv

(***************************************************************************)
(* The theorems.                                                           *)
(***************************************************************************)
LEMMA InitStep == Init => IInv
<1>1. SUFFICES ASSUME Init PROVE IInv
  OBVIOUS
<1>2. TypeOK
  <2>1. [rows |-> [c \in Cases |-> <<>>], ledger |-> [c \in Cases |-> <<>>]] \in Store
    BY DEF Store
  <2>2. QED
    BY <1>1, <2>1, CaseStoreAssumption DEF Init, TypeOK
<1>3. ChainInv
  BY <1>1 DEF Init, ChainInv, Verified
<1>4. \A t \in Threads : ThreadInv(t)
  BY <1>1 DEF Init, ThreadInv
<1>5. QED
  BY <1>2, <1>3, <1>4 DEF IInv

LEMMA NextStep == IInv /\ [Next]_vars => IInv'
<1>1. SUFFICES ASSUME IInv, [Next]_vars PROVE IInv'
  OBVIOUS
<1>2. ASSUME NEW t \in Threads, NEW r \in Requests, Start(t, r) PROVE IInv'
  BY <1>1, <1>2, StartStep
<1>3. ASSUME NEW t \in Threads, Proceed(t) PROVE IInv'
  <2>1. CASE ReadCard(t)
    BY <1>1, <2>1, ReadCardStep
  <2>2. CASE Begin(t)
    BY <1>1, <2>2, BeginStep
  <2>3. CASE NestedBegin(t)
    BY <1>1, <2>3, NestedBeginStep
  <2>4. CASE Commit(t)
    BY <1>1, <2>4, CommitStep
  <2>5. CASE Rollback(t)
    BY <1>1, <2>5, RollbackStep
  <2>6. CASE ReadExisting(t)
    BY <1>1, <2>6, ReadExistingStep
  <2>7. CASE Upsert(t)
    BY <1>1, <2>7, UpsertStep
  <2>8. CASE ReadTail(t)
    BY <1>1, <2>8, ReadTailStep
  <2>9. CASE Insert(t)
    BY <1>1, <2>9, InsertStep
  <2>10. QED
    BY <1>3, <2>1, <2>2, <2>3, <2>4, <2>5, <2>6, <2>7, <2>8, <2>9 DEF Proceed
<1>4. ASSUME NEW t \in Threads, TimedOut(t) \/ Failed(t) PROVE IInv'
  BY <1>1, <1>4, TimedOutStep, FailedStep
<1>5. ASSUME NEW p \in Procs, Died(p) PROVE IInv'
  BY <1>1, <1>5, DiedStep
<1>6. CASE UNCHANGED vars
  BY <1>1, <1>6 DEF vars, IInv, TypeOK, ChainInv, ThreadInv, HandInv, LockInv, OwnerInv,
                    TailInv, InTransaction, View, SavedBy
<1>7. QED
  BY <1>1, <1>2, <1>3, <1>4, <1>5, <1>6 DEF Next

(* The invariant that carries the properties of the store is inductive:       *)
(* SqliteCaseStore keeps it whatever its threads and processes do.          *)
THEOREM Inductive == Spec => []IInv
BY InitStep, NextStep, PTL DEF Spec

(* Every variable keeps its type, and what a transaction wrote is apart from  *)
(* what is committed only while a thread has it open.                       *)
THEOREM TypeCorrect == Spec => []TypeOK
<1>1. IInv => TypeOK
  BY DEF IInv
<1>2. QED
  BY <1>1, Inductive, PTL

(* The journal of a case that one process saves passes                      *)
(* verify_case_audit_ledger at any time, with any number of threads, through *)
(* busy timeouts, failed statements, rollbacks and deaths.                  *)
THEOREM ChainIsVerifiable == Spec => []ChainVerifies
<1>1. IInv => ChainVerifies
  BY DEF IInv, ChainInv, ChainVerifies
<1>2. QED
  BY <1>1, Inductive, PTL

(***************************************************************************)
(* Pairs are whole: save_all.                                               *)
(***************************************************************************)
LEMMA RangeAppend ==
  \A S : \A s \in Seq(S) : \A x \in S : Range(Append(s, x)) = Range(s) \cup {x}
<1>1. SUFFICES ASSUME NEW S, NEW s \in Seq(S), NEW x \in S
               PROVE  Range(Append(s, x)) = Range(s) \cup {x}
  OBVIOUS
<1>2. /\ DOMAIN Append(s, x) = 1 .. (Len(s) + 1) /\ DOMAIN s = 1 .. Len(s) /\ Len(s) \in Nat
      /\ \A i \in 1 .. Len(s) : Append(s, x)[i] = s[i]
      /\ Append(s, x)[Len(s) + 1] = x
  OBVIOUS
<1>3. QED
  BY <1>2 DEF Range

LEMMA RangeOne == \A S : \A x \in S : <<x>> \in Seq(S) /\ Range(<<x>>) = {x}
<1>1. SUFFICES ASSUME NEW S, NEW x \in S PROVE <<x>> \in Seq(S) /\ Range(<<x>>) = {x}
  OBVIOUS
<1>2. <<x>> \in Seq(S) /\ DOMAIN <<x>> = {1} /\ <<x>>[1] = x
  OBVIOUS
<1>3. QED
  BY <1>2 DEF Range

LEMMA RowsTyped ==
  ASSUME TypeOK
  PROVE  /\ db.rows \in [Cases -> Seq(Requests)] /\ draft.rows \in [Cases -> Seq(Requests)]
         /\ \A p \in Procs : View(p).rows \in [Cases -> Seq(Requests)]
BY DEF TypeOK, Store, View

(* A request of several cases has several cards, and touches cases only.      *)
LEMMA TouchesTyped ==
  ASSUME NEW r \in Requests
  PROVE  /\ Touches[r] \in Seq(Cases) /\ Len(Touches[r]) \in Nat \ {0}
         /\ \A i \in 1 .. Len(Touches[r]) : Touches[r][i] \in Touched(r)
         /\ \A c \in Touched(r) : \E i \in 1 .. Len(Touches[r]) : Touches[r][i] = c
         /\ Touched(r) \subseteq Cases
<1>1. Touches[r] \in Seq(Cases) /\ Touches[r] # <<>>
  BY CaseStoreAssumption
<1>2. QED
  BY <1>1 DEF Touched, Range

(* Two threads that have an orderly case in hand are one.                    *)
LEMMA OneHand ==
  ASSUME RacedInv, NEW t \in Threads, NEW u \in Threads, thr[t] # Idle, thr[u] # Idle,
         NEW c, c \in Touched(thr[t].req), c \in Touched(thr[u].req), Orderly(c)
  PROVE  t = u
BY DEF RacedInv, Orderly

(* What changes no log, and starts no request, keeps what was known of logs;  *)
(* what is left is how far the threads have come.                            *)
LEMMA LogsKeep ==
  ASSUME IInv, PairInv, db'.rows = db.rows, UNCHANGED raced,
         draft'.rows \in {draft.rows, db.rows},
         \A r \in Requests : state'[r] = "new" => state[r] = "new",
         \A u \in Threads : thr'[u] # Idle => /\ thr[u] # Idle
                                              /\ thr'[u].req = thr[u].req
                                              /\ thr'[u].hand = thr[u].hand
                                              /\ ProgressInv(u)',
         SettledInv'
  PROVE  PairInv'
<1>1. RacedInv' /\ PairIsWhole'
  BY DEF PairInv, RacedInv, PairIsWhole, Orderly
<1>2. NewInv'
  BY DEF PairInv, NewInv
<1>3. ASSUME NEW u \in Threads, thr'[u] # Idle PROVE CardInv(u)'
  BY <1>3 DEF PairInv, CardInv, Orderly
<1>4. QED
  BY <1>1, <1>2, <1>3 DEF PairInv

(* Only thread t moves, and no log changes. *)
LEMMA QuietPairs ==
  ASSUME IInv, PairInv, NEW t \in Threads, thr[t] # Idle,
         db'.rows = db.rows, draft'.rows = draft.rows, UNCHANGED raced,
         \A r \in Requests : state'[r] = "new" => state[r] = "new",
         owner' = owner \/ owner = NoOne,
         \A u \in Threads : u # t => thr'[u] = thr[u],
         thr'[t] # Idle => /\ thr'[t].req = thr[t].req /\ thr'[t].hand = thr[t].hand
                           /\ ProgressInv(t)',
         thr'[t] = Idle => owner # t \/ thr[t].req \notin Pairs \/ thr[t].pc = "begin"
  PROVE  PairInv'
<1>1. ASSUME NEW u \in Threads, u # t, thr'[u] # Idle PROVE ProgressInv(u)'
  BY <1>1 DEF PairInv, ProgressInv, Orderly
<1>2. SettledInv'
  <2>1. SUFFICES ASSUME NEW r \in Pairs,
                        \A u \in Threads : owner' = u /\ thr'[u] # Idle => thr'[u].req # r,
                        NEW c \in Touched(r), Orderly(c)
                 PROVE  r \in Range(draft.rows[c]) <=> r \in Range(db.rows[c])
    BY DEF SettledInv, Orderly
  <2>2. CASE \A u \in Threads : owner = u /\ thr[u] # Idle => thr[u].req # r
    BY <2>1, <2>2 DEF PairInv, SettledInv
  <2>3. CASE owner = t /\ thr[t].req = r
    <3>1. thr'[t] = Idle
      BY <2>1, <2>3, CaseStoreAssumption
    <3>2. thr[t].pc = "begin"
      BY <2>3, <3>1
    <3>3. r \in Requests
      BY DEF Pairs
    <3>4. PICK i \in 1 .. Len(Touches[r]) : Touches[r][i] = c
      BY <3>3, TouchesTyped
    <3>5. r \notin Range(draft.rows[c]) /\ r \notin Range(db.rows[c])
      BY <2>1, <2>3, <3>2, <3>4 DEF PairInv, ProgressInv
    <3>6. QED
      BY <3>5
  <2>4. QED
    BY <2>1, <2>2, <2>3, CaseStoreAssumption
<1>3. QED
  BY <1>1, <1>2, LogsKeep

LEMMA StartPairs ==
  ASSUME IInv, PairInv, NEW t \in Threads, NEW r \in Requests, Start(t, r)
  PROVE  PairInv'
<1> DEFINE h == [pc |-> "read", req |-> r, hand |-> <<>>, n |-> 1, old |-> 0, tail |-> <<>>]
<1>1. /\ thr[t] = Idle /\ state[r] = "new" /\ thr' = [thr EXCEPT ![t] = h]
      /\ state' = [state EXCEPT ![r] = "running"]
      /\ raced' = raced \cup {c \in Touched(r) :
                    \E u \in Threads : thr[u] # Idle /\ c \in Touched(thr[u].req)}
      /\ UNCHANGED <<db, draft, owner>>
  BY DEF Start
<1>2. h # Idle /\ h.pc = "read" /\ h.req = r /\ h.hand = <<>>
  BY DEF Idle
<1> HIDE DEF h
<1>3. TypeOK
  BY DEF IInv
<1>4. thr'[t] = h /\ \A u \in Threads : u # t => thr'[u] = thr[u]
  BY <1>1, <1>3 DEF TypeOK
<1>5. \A c : Orderly(c)' => Orderly(c)
  BY <1>1 DEF Orderly
<1>6. RacedInv'
  <2>1. SUFFICES ASSUME NEW u \in Threads, NEW w \in Threads, u # w,
                        thr'[u] # Idle, thr'[w] # Idle,
                        NEW c \in Touched(thr'[u].req), c \in Touched(thr'[w].req)
                 PROVE  c \in raced'
    BY DEF RacedInv
  <2>2. CASE u # t /\ w # t
    BY <1>1, <1>4, <2>1, <2>2 DEF PairInv, RacedInv
  <2>3. CASE u = t \/ w = t
    BY <1>1, <1>2, <1>4, <2>1, <2>3
  <2>4. QED
    BY <2>2, <2>3
<1>7. NewInv'
  <2>1. SUFFICES ASSUME NEW q \in Requests, state'[q] = "new"
                 PROVE  /\ \A c \in Cases : q \notin Range(db.rows[c]) /\ q \notin Range(draft.rows[c])
                        /\ \A u \in Threads : thr'[u] # Idle =>
                             /\ thr'[u].req # q
                             /\ \A i \in DOMAIN thr'[u].hand : q \notin Range(thr'[u].hand[i])
    BY <1>1 DEF NewInv
  <2>2. state[q] = "new" /\ q # r
    BY <1>1, <1>3, <2>1 DEF TypeOK
  <2>3. QED
    BY <1>2, <1>4, <2>2 DEF PairInv, NewInv
<1>8. SettledInv'
  BY <1>1, <1>4, <1>5 DEF PairInv, SettledInv
<1>9. PairIsWhole'
  BY <1>1, <1>5 DEF PairInv, PairIsWhole
<1>10. ASSUME NEW u \in Threads, thr'[u] # Idle PROVE CardInv(u)'
  <2>1. CASE u = t
    BY <1>2, <1>4, <2>1 DEF CardInv
  <2>2. CASE u # t
    BY <1>1, <1>4, <1>5, <1>10, <2>2 DEF PairInv, CardInv
  <2>3. QED
    BY <2>1, <2>2
<1>11. ASSUME NEW u \in Threads, thr'[u] # Idle PROVE ProgressInv(u)'
  <2>1. CASE u = t
    <3>1. \A c \in Cases : r \notin Range(db.rows[c]) /\ r \notin Range(draft.rows[c])
      BY <1>1 DEF PairInv, NewInv
    <3>2. \A i \in 1 .. Len(Touches[r]) : Touches[r][i] \in Cases
      BY TouchesTyped
    <3>3. QED
      BY <1>1, <1>2, <1>4, <2>1, <3>1, <3>2 DEF ProgressInv, Saving
  <2>2. CASE u # t
    BY <1>1, <1>4, <1>5, <1>11, <2>2 DEF PairInv, ProgressInv
  <2>3. QED
    BY <2>1, <2>2
<1>12. QED
  BY <1>6, <1>7, <1>8, <1>9, <1>10, <1>11 DEF PairInv

(* What a process sees of a card that it may save bears the same committed    *)
(* pairs as the committed card, but for the pair its owner is at.            *)
LEMMA ReadCardPairs ==
  ASSUME IInv, PairInv, NEW t \in Threads, ReadCard(t)
  PROVE  PairInv'
<1> DEFINE h == thr[t]
           c == Touches[h.req][h.n]
           log == View(ProcOf[t]).rows[c]
           card == Changed(h.req, log)
           hand == Append(h.hand, card)
           read == Len(hand) = Len(Touches[h.req])
           g1 == [h EXCEPT !.hand = hand]
           g2 == [g1 EXCEPT !.n = IF read THEN 1 ELSE h.n + 1]
           g == [g2 EXCEPT !.pc = IF ~read THEN "read"
                                  ELSE IF Len(hand) > 1 THEN "begin" ELSE "save"]
<1>1. TypeOK /\ ThreadInv(t) /\ h.pc = "read" /\ UNCHANGED <<db, draft, owner, lock, state, raced>>
  BY DEF IInv, ReadCard
<1>2. h # Idle /\ h \in Busy /\ HandInv(t) /\ CardInv(t) /\ ProgressInv(t)
  BY <1>1 DEF Idle, TypeOK, ThreadInv, PairInv
<1>3. h.req \in Requests /\ h.n \in Nat \ {0} /\ c \in Cases /\ c \in Touched(h.req)
      /\ h.hand \in Seq(Seq(Requests)) /\ Touches[h.req] \in Seq(Cases)
  BY <1>1, <1>2, AtTyped DEF At
<1>4. h.n \in 1 .. Len(Touches[h.req]) /\ Len(h.hand) = h.n - 1 /\ Len(Touches[h.req]) \in Nat
  BY <1>1, <1>2, <1>3 DEF HandInv
<1>5. log \in Seq(Requests)
  BY <1>1, <1>3, RowsTyped, CaseStoreAssumption
<1> HIDE DEF log
<1>6. /\ card \in Seq(Requests) /\ h.req \in Range(card)
      /\ \A r \in Range(card) : r = h.req \/ r \in Range(log)
      /\ h.req \notin Rebuilds => Range(card) = Range(log) \cup {h.req}
  <2>1. CASE h.req \in Rebuilds
    <3>1. card = <<h.req>>
      BY <2>1 DEF Changed
    <3>2. card \in Seq(Requests) /\ Range(card) = {h.req}
      BY <1>3, <3>1, RangeOne
    <3>3. QED
      BY <2>1, <3>2
  <2>2. CASE h.req \notin Rebuilds
    <3>1. card = Append(log, h.req)
      BY <2>2 DEF Changed
    <3>2. card \in Seq(Requests) /\ Range(Append(log, h.req)) = Range(log) \cup {h.req}
      BY <1>3, <1>5, <3>1, RangeAppend
    <3>3. QED
      BY <3>1, <3>2
  <2>3. QED
    BY <2>1, <2>2
<1>7. thr' = [thr EXCEPT ![t] = g]
  BY <1>2 DEF ReadCard, Busy, card, log
<1> HIDE DEF card
<1>8. /\ hand \in Seq(Seq(Requests)) /\ Len(hand) = h.n /\ DOMAIN hand = 1 .. h.n
      /\ DOMAIN h.hand = 1 .. (h.n - 1)
      /\ \A i \in 1 .. (h.n - 1) : hand[i] = h.hand[i]
      /\ hand[h.n] = card
  BY <1>3, <1>4, <1>6
<1> HIDE DEF hand
<1>9. /\ g # Idle /\ g.req = h.req /\ g.hand = hand
      /\ g.pc = IF ~read THEN "read" ELSE IF Len(hand) > 1 THEN "begin" ELSE "save"
  <2>1. g1 = [pc |-> h.pc, req |-> h.req, hand |-> hand, n |-> h.n, old |-> h.old, tail |-> h.tail]
    BY <1>2 DEF Busy
  <2>2. QED
    BY <2>1 DEF Idle
<1> HIDE DEF g
<1>10. thr'[t] = g /\ \A u \in Threads : u # t => thr'[u] = thr[u]
  BY <1>1, <1>7 DEF TypeOK
<1>11. RacedInv'
  BY <1>1, <1>2, <1>9, <1>10 DEF PairInv, RacedInv
<1>12. NewInv'
  <2>1. SUFFICES ASSUME NEW q \in Requests, state[q] = "new"
                 PROVE  /\ \A d \in Cases : q \notin Range(db.rows[d]) /\ q \notin Range(draft.rows[d])
                        /\ \A u \in Threads : thr'[u] # Idle =>
                             /\ thr'[u].req # q
                             /\ \A i \in DOMAIN thr'[u].hand : q \notin Range(thr'[u].hand[i])
    BY <1>1 DEF NewInv
  <2>2. /\ \A d \in Cases : q \notin Range(db.rows[d]) /\ q \notin Range(draft.rows[d])
        /\ \A u \in Threads : thr[u] # Idle =>
             /\ thr[u].req # q
             /\ \A i \in DOMAIN thr[u].hand : q \notin Range(thr[u].hand[i])
    BY <2>1 DEF PairInv, NewInv
  <2>3. q \notin Range(card)
    BY <1>2, <1>3, <1>6, <2>2 DEF View, log
  <2>4. \A i \in 1 .. h.n : q \notin Range(hand[i])
    BY <1>2, <1>4, <1>8, <2>2, <2>3
  <2>5. ASSUME NEW u \in Threads, thr'[u] # Idle
        PROVE  thr'[u].req # q /\ \A i \in DOMAIN thr'[u].hand : q \notin Range(thr'[u].hand[i])
    <3>1. CASE u = t
      BY <1>2, <1>8, <1>9, <1>10, <2>2, <2>4, <3>1
    <3>2. CASE u # t
      BY <1>10, <2>2, <2>5, <3>2
    <3>3. QED
      BY <3>1, <3>2
  <2>6. QED
    BY <2>2, <2>5
<1>13. SettledInv'
  BY <1>1, <1>2, <1>9, <1>10 DEF PairInv, SettledInv, Orderly
<1>14. PairIsWhole'
  BY <1>1 DEF PairInv, PairIsWhole, Orderly
<1>15. ASSUME NEW r \in Pairs \ {h.req}, c \in Touched(r), Orderly(c)
       PROVE  r \in Range(card) <=> r \in Range(db.rows[c])
  <2>1. h.req \notin Rebuilds
    BY <1>3, <1>15 DEF Orderly
  <2>2. r \in Range(card) <=> r \in Range(log)
    BY <1>6, <2>1, <1>15
  <2>3. CASE InTransaction(ProcOf[t])
    <3>1. \A u \in Threads : owner = u /\ thr[u] # Idle => thr[u].req # r
      BY <1>2, <1>3, <1>15, OneHand DEF PairInv
    <3>2. r \in Range(draft.rows[c]) <=> r \in Range(db.rows[c])
      BY <1>15, <3>1 DEF PairInv, SettledInv
    <3>3. log = draft.rows[c]
      BY <2>3 DEF log, View
    <3>4. QED
      BY <2>2, <3>2, <3>3
  <2>4. CASE ~InTransaction(ProcOf[t])
    BY <2>2, <2>4 DEF log, View
  <2>5. QED
    BY <2>3, <2>4
<1>16. ASSUME NEW u \in Threads, thr'[u] # Idle PROVE CardInv(u)'
  <2>1. CASE u # t
    BY <1>1, <1>10, <1>16, <2>1 DEF PairInv, CardInv, Orderly
  <2>2. CASE u = t
    <3>1. SUFFICES ASSUME NEW i \in 1 .. h.n
                   PROVE  /\ h.req \in Range(hand[i])
                          /\ \A r \in Pairs \ {h.req} :
                               Touches[h.req][i] \in Touched(r) /\ Orderly(Touches[h.req][i]) =>
                                 (r \in Range(hand[i]) <=> r \in Range(db.rows[Touches[h.req][i]]))
      BY <1>1, <1>8, <1>9, <1>10, <2>2 DEF CardInv, Orderly
    <3>2. CASE i = h.n
      BY <1>6, <1>8, <1>15, <3>2
    <3>3. CASE i \in 1 .. (h.n - 1)
      BY <1>2, <1>8, <3>3 DEF CardInv
    <3>4. QED
      BY <1>4, <3>2, <3>3
  <2>3. QED
    BY <2>1, <2>2
<1>17. ASSUME NEW u \in Threads, thr'[u] # Idle PROVE ProgressInv(u)'
  <2>1. CASE u # t
    BY <1>1, <1>10, <1>17, <2>1 DEF PairInv, ProgressInv, Orderly
  <2>2. CASE u = t
    <3>1. SUFFICES ASSUME h.req \in Pairs, NEW i \in 1 .. Len(Touches[h.req]),
                          Orderly(Touches[h.req][i])
                   PROVE  /\ h.req \notin Range(db.rows[Touches[h.req][i]])
                          /\ h.req \notin Range(draft.rows[Touches[h.req][i]])
                          /\ g.pc \in {"read", "begin"}
      BY <1>1, <1>9, <1>10, <2>2 DEF ProgressInv, Orderly, Saving
    <3>2. g.pc \in {"read", "begin"}
      BY <1>4, <1>8, <1>9, <3>1 DEF Pairs
    <3>3. QED
      BY <1>1, <1>2, <3>1, <3>2 DEF ProgressInv
  <2>3. QED
    BY <2>1, <2>2
<1>18. QED
  BY <1>11, <1>12, <1>13, <1>14, <1>16, <1>17 DEF PairInv

(* A thread that goes on after a statement of its save keeps its cards; it     *)
(* ends its request only if that has one case.                             *)
LEMMA ContinuePairs ==
  ASSUME IInv, NEW t \in Threads, thr[t].pc \in {"upsert", "insert"},
         NEW old \in Nat, Continue(t, old)
  PROVE  /\ thr'[t] = Idle => thr[t].req \notin Pairs
         /\ thr'[t] # Idle =>
              /\ thr'[t].req = thr[t].req /\ thr'[t].hand = thr[t].hand
              /\ \/ thr'[t].pc = "tail" /\ thr'[t].n = thr[t].n
                 \/ thr'[t].pc = "save" /\ thr'[t].n = thr[t].n + 1
                 \/ thr'[t].pc = "commit" /\ thr[t].n = Len(Touches[thr[t].req])
              /\ thr'[t].pc = "tail" => thr'[t].old = old /\ Len(thr[t].hand[thr[t].n]) > old
         /\ Len(thr[t].hand[thr[t].n]) > old => thr'[t] # Idle /\ thr'[t].pc = "tail"
         /\ \A u \in Threads : u # t => thr'[u] = thr[u]
         /\ \A r \in Requests : state'[r] = "new" => state[r] = "new"
<1> DEFINE h == thr[t]
<1>1. h # Idle /\ h \in Busy /\ TypeOK /\ HandInv(t)
  BY DEF IInv, TypeOK, Idle, ThreadInv
<1>2. /\ h.req \in Requests /\ h.n \in Nat \ {0} /\ h.hand \in Seq(Seq(Requests))
      /\ h.n \in 1 .. Len(Touches[h.req]) /\ Len(h.hand) = Len(Touches[h.req])
      /\ Len(h.hand) \in Nat
  BY <1>1, AtTyped DEF HandInv
<1>3. CASE Len(h.hand[h.n]) > old
  <2> DEFINE g == [h EXCEPT !.pc = "tail", !.old = old]
  <2>1. thr' = [thr EXCEPT ![t] = g] /\ UNCHANGED state
    BY <1>3 DEF Continue
  <2>2. g # Idle /\ g.pc = "tail" /\ g.req = h.req /\ g.n = h.n /\ g.hand = h.hand /\ g.old = old
    BY <1>1 DEF Busy, Idle
  <2> HIDE DEF g
  <2>3. thr'[t] = g
    BY <1>1, <2>1 DEF TypeOK
  <2>4. QED
    BY <1>1, <1>3, <2>1, <2>2, <2>3 DEF TypeOK
<1>4. CASE ~(Len(h.hand[h.n]) > old) /\ h.n < Len(h.hand)
  <2> DEFINE g == [h EXCEPT !.pc = "save", !.n = h.n + 1]
  <2>1. thr' = [thr EXCEPT ![t] = g] /\ UNCHANGED state
    <3>1. thr' = [thr EXCEPT ![t].pc = "save", ![t].n = @ + 1] /\ UNCHANGED state
      BY <1>4 DEF Continue
    <3>2. QED
      BY <3>1, <1>1 DEF Busy
  <2>2. g # Idle /\ g.pc = "save" /\ g.req = h.req /\ g.n = h.n + 1 /\ g.hand = h.hand
    BY <1>1 DEF Busy, Idle
  <2> HIDE DEF g
  <2>3. thr'[t] = g
    BY <1>1, <2>1 DEF TypeOK
  <2>4. QED
    BY <1>1, <1>4, <2>1, <2>2, <2>3 DEF TypeOK
<1>5. CASE ~(Len(h.hand[h.n]) > old) /\ ~(h.n < Len(h.hand)) /\ Len(h.hand) > 1
  <2> DEFINE g == [h EXCEPT !.pc = "commit"]
  <2>1. thr' = [thr EXCEPT ![t] = g] /\ UNCHANGED state
    BY <1>5 DEF Continue
  <2>2. g # Idle /\ g.pc = "commit" /\ g.req = h.req /\ g.hand = h.hand
    BY <1>1 DEF Busy, Idle
  <2> HIDE DEF g
  <2>3. thr'[t] = g
    BY <1>1, <2>1 DEF TypeOK
  <2>4. QED
    BY <1>1, <1>2, <1>5, <2>1, <2>2, <2>3 DEF TypeOK
<1>6. CASE ~(Len(h.hand[h.n]) > old) /\ ~(h.n < Len(h.hand)) /\ ~(Len(h.hand) > 1)
  <2>1. Answer(t)
    BY <1>6 DEF Continue
  <2>2. QED
    BY <1>1, <1>2, <1>6, <2>1 DEF Answer, TypeOK, Pairs
<1>7. QED
  BY <1>3, <1>4, <1>5, <1>6

(* The log of one case is replaced by the card in hand. *)
LEMMA UpsertPairs ==
  ASSUME IInv, PairInv, NEW t \in Threads, Upsert(t)
  PROVE  PairInv'
<1> DEFINE h == thr[t]
           c == At(h)
           card == h.hand[h.n]
<1>1. TypeOK /\ ThreadInv(t) /\ h.pc = "upsert" /\ CanWrite(t) /\ UNCHANGED <<owner, raced, faulted>>
      /\ Continue(t, h.old)
  BY DEF IInv, Upsert
<1>2. h # Idle /\ h \in Busy /\ HandInv(t) /\ OwnerInv(t) /\ CardInv(t) /\ ProgressInv(t)
  BY <1>1 DEF Idle, TypeOK, ThreadInv, PairInv
<1>3. /\ h.req \in Requests /\ h.n \in Nat /\ c \in Cases /\ c \in Touched(h.req)
      /\ card \in Seq(Requests) /\ h.old \in Nat /\ Touches[h.req] \in Seq(Cases)
      /\ h.n \in 1 .. Len(Touches[h.req]) /\ h.n \in DOMAIN h.hand
      /\ Len(h.hand) = Len(Touches[h.req]) /\ c = Touches[h.req][h.n]
  BY <1>1, <1>2, AtTyped DEF At, HandInv
<1>4. /\ thr'[t] = Idle => h.req \notin Pairs
      /\ thr'[t] # Idle =>
           /\ thr'[t].req = h.req /\ thr'[t].hand = h.hand
           /\ \/ thr'[t].pc = "tail" /\ thr'[t].n = h.n
              \/ thr'[t].pc = "save" /\ thr'[t].n = h.n + 1
              \/ thr'[t].pc = "commit" /\ h.n = Len(Touches[h.req])
      /\ \A u \in Threads : u # t => thr'[u] = thr[u]
      /\ \A r \in Requests : state'[r] = "new" => state[r] = "new"
  BY <1>1, <1>3, ContinuePairs
<1>5. /\ draft'.rows = [draft.rows EXCEPT ![c] = card]
      /\ db' = db \/ (owner = NoOne /\ draft = db /\ db' = draft')
  <2>1. View(ProcOf[t]) = draft
    BY <1>1 DEF View, CanWrite, InTransaction, TypeOK
  <2>2. draft' = [draft EXCEPT !.rows = [draft.rows EXCEPT ![c] = card]]
    BY <1>1, <2>1 DEF Upsert, Write, TypeOK, Store
  <2>3. draft'.rows = [draft.rows EXCEPT ![c] = card]
    BY <1>1, <2>2 DEF TypeOK, Store
  <2>4. db' = db \/ (owner = NoOne /\ draft = db /\ db' = draft')
    <3>1. PICK store : Write(t, store)
      BY DEF Upsert
    <3>2. ~InTransaction(ProcOf[t]) => owner = NoOne /\ draft = db
      BY <1>1 DEF TypeOK, CanWrite, InTransaction
    <3>3. QED
      BY <3>1, <3>2 DEF Write
  <2>5. QED
    BY <2>3, <2>4
<1> HIDE DEF card
<1>6. /\ \A d \in Cases : draft'.rows[d] = IF d = c THEN card ELSE draft.rows[d]
      /\ \A d \in Cases : db'.rows[d] = db.rows[d] \/ (d = c /\ db'.rows[d] = card)
  <2>1. \A d \in Cases : draft'.rows[d] = IF d = c THEN card ELSE draft.rows[d]
    BY <1>1, <1>5, RowsTyped
  <2>2. CASE db' = db
    BY <2>1, <2>2
  <2>3. CASE owner = NoOne /\ draft = db /\ db' = draft'
    BY <2>1, <2>3
  <2>4. QED
    BY <1>5, <2>1, <2>2, <2>3
<1>7. h.req \in Pairs => owner = t /\ db' = db
  <2>1. h.req \in Pairs => owner = t
    BY <1>1, <1>2, <1>3 DEF OwnerInv, Saving, Pairs
  <2>2. QED
    BY <1>5, <2>1, CaseStoreAssumption
<1>8. h.req \in Range(card) /\ \A r \in Pairs \ {h.req} : c \in Touched(r) /\ Orderly(c) =>
        (r \in Range(card) <=> r \in Range(db.rows[c]))
  BY <1>2, <1>3 DEF CardInv, card
<1>9. ASSUME NEW r \in Pairs, NEW d \in Touched(r), Orderly(d)
      PROVE  r \in Range(db'.rows[d]) <=> r \in Range(db.rows[d])
  <2>1. d \in Cases
    BY TouchesTyped DEF Pairs
  <2>2. CASE r = h.req
    BY <1>7, <2>2
  <2>3. CASE r # h.req
    BY <1>6, <1>8, <1>9, <2>1, <2>3
  <2>4. QED
    BY <2>2, <2>3
<1>10. \A d : Orderly(d)' <=> Orderly(d)
  BY <1>1 DEF Orderly
<1>11. RacedInv'
  BY <1>1, <1>2, <1>4 DEF PairInv, RacedInv
<1>12. NewInv'
  <2>1. SUFFICES ASSUME NEW q \in Requests, state'[q] = "new"
                 PROVE  /\ \A d \in Cases : q \notin Range(db'.rows[d]) /\ q \notin Range(draft'.rows[d])
                        /\ \A u \in Threads : thr'[u] # Idle =>
                             /\ thr'[u].req # q
                             /\ \A i \in DOMAIN thr'[u].hand : q \notin Range(thr'[u].hand[i])
    BY DEF NewInv
  <2>2. /\ \A d \in Cases : q \notin Range(db.rows[d]) /\ q \notin Range(draft.rows[d])
        /\ \A u \in Threads : thr[u] # Idle =>
             /\ thr[u].req # q
             /\ \A i \in DOMAIN thr[u].hand : q \notin Range(thr[u].hand[i])
    BY <1>4, <2>1 DEF PairInv, NewInv
  <2>3. q \notin Range(card)
    BY <1>2, <1>3, <2>2 DEF card
  <2>4. \A d \in Cases : q \notin Range(db'.rows[d]) /\ q \notin Range(draft'.rows[d])
    BY <1>6, <2>2, <2>3
  <2>5. ASSUME NEW u \in Threads, thr'[u] # Idle
        PROVE  thr'[u].req # q /\ \A i \in DOMAIN thr'[u].hand : q \notin Range(thr'[u].hand[i])
    BY <1>2, <1>4, <2>2, <2>5
  <2>6. QED
    BY <2>4, <2>5
<1>13. SettledInv'
  <2>1. SUFFICES ASSUME NEW r \in Pairs,
                        \A u \in Threads : owner = u /\ thr'[u] # Idle => thr'[u].req # r,
                        NEW d \in Touched(r), Orderly(d)
                 PROVE  r \in Range(draft'.rows[d]) <=> r \in Range(db'.rows[d])
    BY <1>1, <1>10 DEF SettledInv
  <2>2. r # h.req
    BY <1>4, <1>7, <2>1
  <2>3. \A u \in Threads : owner = u /\ thr[u] # Idle => thr[u].req # r
    BY <1>4, <2>1, <2>2
  <2>4. r \in Range(draft.rows[d]) <=> r \in Range(db.rows[d])
    BY <2>1, <2>3 DEF PairInv, SettledInv
  <2>5. d \in Cases
    BY TouchesTyped DEF Pairs
  <2>6. QED
    BY <1>6, <1>8, <1>9, <2>1, <2>2, <2>4, <2>5
<1>14. PairIsWhole'
  <2>1. SUFFICES ASSUME NEW r \in Pairs, NEW d \in Touched(r), NEW e \in Touched(r),
                        Orderly(d), Orderly(e)
                 PROVE  r \in Range(db'.rows[d]) <=> r \in Range(db'.rows[e])
    BY <1>10 DEF PairIsWhole, Pairs
  <2>2. r \in Range(db.rows[d]) <=> r \in Range(db.rows[e])
    BY <2>1 DEF PairInv, PairIsWhole, Pairs
  <2>3. QED
    BY <1>9, <2>1, <2>2
<1>15. ASSUME NEW u \in Threads, thr'[u] # Idle PROVE CardInv(u)'
  <2>1. thr[u] # Idle /\ thr'[u].req = thr[u].req /\ thr'[u].hand = thr[u].hand /\ CardInv(u)
    BY <1>2, <1>4, <1>15 DEF PairInv
  <2>2. QED
    BY <1>9, <1>10, <2>1 DEF CardInv
<1>16. ASSUME NEW u \in Threads, thr'[u] # Idle PROVE ProgressInv(u)'
  <2>1. CASE u # t
    <3>1. thr[u] # Idle /\ thr'[u] = thr[u] /\ ProgressInv(u) /\ thr[u].req \in Requests
      BY <1>1, <1>4, <1>16, <2>1, AtTyped DEF PairInv, IInv, ThreadInv
    <3>2. SUFFICES ASSUME thr[u].req \in Pairs, NEW i \in 1 .. Len(Touches[thr[u].req]),
                          Orderly(Touches[thr[u].req][i])
                   PROVE  LET d == Touches[thr[u].req][i] IN
                          /\ thr[u].req \in Range(db'.rows[d]) <=> thr[u].req \in Range(db.rows[d])
                          /\ draft'.rows[d] = draft.rows[d]
      BY <1>10, <3>1 DEF ProgressInv
    <3>3. Touches[thr[u].req][i] \in Touched(thr[u].req) /\ Touches[thr[u].req][i] \in Cases
      BY <3>1, TouchesTyped
    <3>4. Touches[thr[u].req][i] # c
      BY <1>2, <1>3, <2>1, <3>1, <3>2, <3>3, OneHand DEF PairInv
    <3>5. QED
      BY <1>6, <1>9, <3>2, <3>3, <3>4
  <2>2. CASE u = t
    <3>1. SUFFICES ASSUME h.req \in Pairs, NEW i \in 1 .. Len(Touches[h.req]),
                          Orderly(Touches[h.req][i])
                   PROVE  LET d == Touches[h.req][i] IN
                          /\ h.req \notin Range(db'.rows[d])
                          /\ thr'[t].pc \notin {"read", "begin"}
                          /\ \/ i < thr'[t].n
                             \/ thr'[t].pc = "tail" /\ i = thr'[t].n
                             \/ thr'[t].pc = "commit"
                             => h.req \in Range(draft'.rows[d])
      <4>1. thr'[t].req = h.req /\ thr'[t].pc \in {"tail", "save", "commit"}
        BY <1>4, <1>16, <2>2
      <4>2. QED
        BY <1>10, <2>2, <4>1 DEF ProgressInv
    <3>2. h.req \notin Range(db.rows[Touches[h.req][i]])
      BY <1>2, <3>1 DEF ProgressInv
    <3>3. i < h.n => h.req \in Range(draft.rows[Touches[h.req][i]])
      BY <1>1, <1>2, <3>1 DEF ProgressInv, Saving
    <3>4. Touches[h.req][i] \in Cases
      BY <1>3, TouchesTyped
    <3>5. i <= h.n => h.req \in Range(draft'.rows[Touches[h.req][i]])
      BY <1>3, <1>6, <1>8, <3>3, <3>4
    <3>6. \/ i < thr'[t].n
          \/ thr'[t].pc = "tail" /\ i = thr'[t].n
          \/ thr'[t].pc = "commit"
          => i <= h.n
      BY <1>3, <1>4, <1>16, <2>2
    <3>7. thr'[t].pc \notin {"read", "begin"} /\ db' = db
      BY <1>4, <1>7, <1>16, <2>2, <3>1
    <3>8. QED
      BY <3>2, <3>5, <3>6, <3>7
  <2>3. QED
    BY <2>1, <2>2
<1>17. QED
  BY <1>11, <1>12, <1>13, <1>14, <1>15, <1>16 DEF PairInv

(* A thread that only goes on to another place of its request. *)
LEMMA AdvancePairs ==
  ASSUME IInv, PairInv, NEW t \in Threads, thr[t] # Idle,
         db'.rows = db.rows, draft'.rows = draft.rows, UNCHANGED <<raced, state>>,
         owner' = owner \/ owner = NoOne,
         \A u \in Threads : u # t => thr'[u] = thr[u],
         thr'[t] # Idle, thr'[t].req = thr[t].req, thr'[t].hand = thr[t].hand,
         thr'[t].pc \notin {"read", "begin"},
         \A i \in 1 .. Len(Touches[thr[t].req]) :
            \/ thr'[t].pc \in {"save"} \cup Saving /\ i < thr'[t].n
            \/ thr'[t].pc \in {"tail", "insert"} /\ i = thr'[t].n
            \/ thr'[t].pc = "commit"
            => \/ thr[t].pc \in {"save"} \cup Saving /\ i < thr[t].n
               \/ thr[t].pc \in {"tail", "insert"} /\ i = thr[t].n
               \/ thr[t].pc = "commit"
  PROVE  PairInv'
<1>1. ProgressInv(t)
  BY DEF PairInv
<1>2. ProgressInv(t)'
  BY <1>1 DEF ProgressInv, Orderly
<1>3. QED
  BY <1>2, QuietPairs

LEMMA BeginPairs ==
  ASSUME IInv, PairInv, NEW t \in Threads, Begin(t)
  PROVE  PairInv'
<1>1. TypeOK /\ HandInv(t) /\ thr[t].pc = "begin" /\ thr[t] \in Busy
  BY DEF IInv, Begin, TypeOK, Idle, ThreadInv
<1>2. /\ thr'[t] # Idle /\ thr'[t].pc = "save"
      /\ thr'[t].req = thr[t].req /\ thr'[t].hand = thr[t].hand /\ thr'[t].n = thr[t].n
      /\ \A u \in Threads : u # t => thr'[u] = thr[u]
  BY <1>1, PcTyped DEF Begin
<1>3. ProgressInv(t)'
  <2>1. ProgressInv(t) /\ thr[t] # Idle
    BY <1>1 DEF PairInv, Idle
  <2>2. thr[t].n = 1
    BY <1>1 DEF HandInv
  <2>3. QED
    BY <1>2, <2>1, <2>2 DEF ProgressInv, Orderly, Saving, Begin
<1>4. QED
  BY <1>1, <1>2, <1>3, QuietPairs DEF Begin, Idle

LEMMA NestedBeginPairs ==
  ASSUME IInv, PairInv, NEW t \in Threads, NestedBegin(t)
  PROVE  PairInv'
<1>1. /\ TypeOK /\ thr[t].pc = "begin" /\ thr[t] # Idle /\ Refuse(t)
      /\ UNCHANGED <<db, draft, owner, lock, raced>>
  BY DEF IInv, NestedBegin, Idle
<1>2. thr'[t] = Idle /\ \A u \in Threads : u # t => thr'[u] = thr[u]
  BY <1>1, RefuseTyped
<1>3. \A r \in Requests : state'[r] = "new" => state[r] = "new"
  BY <1>1 DEF Refuse, TypeOK
<1>4. QED
  BY <1>1, <1>2, <1>3, QuietPairs

(* All lines of the pair become visible at once. *)
LEMMA CommitPairs ==
  ASSUME IInv, PairInv, NEW t \in Threads, Commit(t)
  PROVE  PairInv'
<1> DEFINE h == thr[t]
<1>1. /\ TypeOK /\ ThreadInv(t) /\ h.pc = "commit" /\ h # Idle /\ Answer(t)
      /\ db' = draft /\ draft' = draft /\ owner' = NoOne /\ UNCHANGED raced
  BY DEF IInv, Commit, Idle
<1>2. owner = t /\ HandInv(t) /\ ProgressInv(t) /\ h.req \in Requests
  BY <1>1, AtTyped DEF ThreadInv, OwnerInv, PairInv
<1>3. thr'[t] = Idle /\ \A u \in Threads : u # t => thr'[u] = thr[u]
  BY <1>1, RefuseTyped
<1>4. \A r \in Requests : state'[r] = "new" => state[r] = "new"
  BY <1>1 DEF Answer, TypeOK
<1>5. \A d : Orderly(d)' <=> Orderly(d)
  BY <1>1 DEF Orderly
<1>6. \A r \in Pairs \ {h.req} : \A d \in Touched(r) : Orderly(d) =>
        (r \in Range(draft.rows[d]) <=> r \in Range(db.rows[d]))
  BY <1>2 DEF PairInv, SettledInv
<1>7. h.req \in Pairs => \A d \in Touched(h.req) : Orderly(d) => h.req \in Range(draft.rows[d])
  <2>1. SUFFICES ASSUME h.req \in Pairs, NEW d \in Touched(h.req), Orderly(d)
                 PROVE  h.req \in Range(draft.rows[d])
    OBVIOUS
  <2>2. PICK i \in 1 .. Len(Touches[h.req]) : Touches[h.req][i] = d
    BY <1>2, TouchesTyped
  <2>3. QED
    BY <1>1, <1>2, <2>1, <2>2 DEF ProgressInv
<1>8. RacedInv'
  BY <1>1, <1>3 DEF PairInv, RacedInv
<1>9. NewInv'
  BY <1>1, <1>3, <1>4 DEF PairInv, NewInv
<1>10. SettledInv'
  BY <1>1 DEF SettledInv
<1>11. PairIsWhole'
  <2>1. SUFFICES ASSUME NEW r \in Pairs, NEW d \in Touched(r), NEW e \in Touched(r),
                        Orderly(d), Orderly(e)
                 PROVE  r \in Range(draft.rows[d]) <=> r \in Range(draft.rows[e])
    BY <1>1, <1>5 DEF PairIsWhole, Pairs
  <2>2. CASE r = h.req
    BY <1>7, <2>1, <2>2
  <2>3. CASE r # h.req
    <3>1. r \in Range(db.rows[d]) <=> r \in Range(db.rows[e])
      BY <2>1 DEF PairInv, PairIsWhole, Pairs
    <3>2. QED
      BY <1>6, <2>1, <2>3, <3>1
  <2>4. QED
    BY <2>2, <2>3
<1>12. ASSUME NEW u \in Threads, thr'[u] # Idle
       PROVE  /\ thr[u] # Idle /\ thr'[u] = thr[u] /\ u # t
              /\ CardInv(u) /\ ProgressInv(u) /\ OwnerInv(u) /\ HandInv(u)
              /\ thr[u].req \in Requests /\ Len(thr[u].hand) \in Nat
              /\ DOMAIN thr[u].hand = 1 .. Len(thr[u].hand)
              /\ \A d \in Touched(thr[u].req) : d \in Touched(h.req) => ~Orderly(d)
  <2>1. thr[u] # Idle /\ thr'[u] = thr[u] /\ u # t
    BY <1>3, <1>12
  <2>2. CardInv(u) /\ ProgressInv(u) /\ OwnerInv(u) /\ HandInv(u)
    BY <2>1 DEF IInv, ThreadInv, PairInv
  <2>3. thr[u].req \in Requests /\ thr[u].hand \in Seq(Seq(Requests))
    BY <1>1, <2>1, <2>2, AtTyped
  <2>4. QED
    BY <1>1, <2>1, <2>2, <2>3, OneHand DEF PairInv
<1>13. ASSUME NEW u \in Threads, thr'[u] # Idle PROVE CardInv(u)'
  <2>1. SUFFICES ASSUME NEW i \in DOMAIN thr[u].hand, NEW r \in Pairs \ {thr[u].req},
                        Touches[thr[u].req][i] \in Touched(r), Orderly(Touches[thr[u].req][i])
                 PROVE  LET d == Touches[thr[u].req][i] IN
                        r \in Range(draft.rows[d]) <=> r \in Range(db.rows[d])
    BY <1>1, <1>5, <1>12, <1>13 DEF CardInv
  <2>2. i \in 1 .. Len(Touches[thr[u].req])
    BY <1>12, <1>13, TouchesTyped DEF HandInv
  <2>3. Touches[thr[u].req][i] \in Touched(thr[u].req)
    BY <1>12, <1>13, <2>2, TouchesTyped
  <2>4. r # h.req
    BY <1>12, <1>13, <2>1, <2>3
  <2>5. QED
    BY <1>6, <2>1, <2>4
<1>14. ASSUME NEW u \in Threads, thr'[u] # Idle PROVE ProgressInv(u)'
  <2>1. SUFFICES ASSUME thr[u].req \in Pairs, NEW i \in 1 .. Len(Touches[thr[u].req]),
                        Orderly(Touches[thr[u].req][i])
                 PROVE  thr[u].req \notin Range(draft.rows[Touches[thr[u].req][i]])
    BY <1>1, <1>5, <1>12, <1>14 DEF ProgressInv
  <2>2. Touches[thr[u].req][i] \in Touched(thr[u].req)
    BY <1>12, <1>14, TouchesTyped
  <2>3. thr[u].req # h.req
    BY <1>12, <1>14, <2>1, <2>2
  <2>4. thr[u].req \notin Range(db.rows[Touches[thr[u].req][i]])
    BY <1>12, <1>14, <2>1 DEF ProgressInv
  <2>5. QED
    BY <1>6, <2>1, <2>2, <2>3, <2>4
<1>15. QED
  BY <1>8, <1>9, <1>10, <1>11, <1>13, <1>14 DEF PairInv

(* What the transaction of a process wrote is taken back; its threads but for *)
(* those that may go on are idle.                                           *)
LEMMA UndonePairs ==
  ASSUME IInv, PairInv, draft' = db, db' = db, UNCHANGED raced, owner \in Threads, thr'[owner] = Idle,
         \A r \in Requests : state'[r] = "new" => state[r] = "new",
         \A u \in Threads : thr'[u] = Idle \/ thr'[u] = thr[u]
  PROVE  PairInv'
<1>1. SettledInv'
  BY DEF SettledInv
<1>2. ASSUME NEW u \in Threads, thr'[u] # Idle PROVE ProgressInv(u)'
  <2>1. thr[u] # Idle /\ thr'[u] = thr[u] /\ owner # u
    BY <1>2
  <2>2. ProgressInv(u) /\ OwnerInv(u) /\ HandInv(u) /\ thr[u] \in Busy
    BY <2>1 DEF IInv, TypeOK, ThreadInv, PairInv
  <2>3. thr[u].req \in Pairs => thr[u].pc \in {"read", "begin", "rollback"}
    BY <2>1, <2>2 DEF OwnerInv, HandInv, Pairs, Saving, Busy
  <2>4. QED
    BY <2>1, <2>2, <2>3 DEF ProgressInv, Orderly, Saving
<1>3. QED
  BY <1>1, <1>2, LogsKeep

LEMMA RollbackPairs ==
  ASSUME IInv, PairInv, NEW t \in Threads, Rollback(t)
  PROVE  PairInv'
<1>1. /\ TypeOK /\ ThreadInv(t) /\ thr[t].pc = "rollback" /\ thr[t] # Idle /\ Refuse(t)
      /\ db' = db /\ draft' = db /\ UNCHANGED raced
  BY DEF IInv, Rollback, Idle
<1>2. owner = t
  BY <1>1 DEF ThreadInv, OwnerInv
<1>3. thr'[t] = Idle /\ \A u \in Threads : u # t => thr'[u] = thr[u]
  BY <1>1, RefuseTyped
<1>4. \A r \in Requests : state'[r] = "new" => state[r] = "new"
  BY <1>1 DEF Refuse, TypeOK
<1>5. QED
  BY <1>1, <1>2, <1>3, <1>4, UndonePairs

LEMMA ReadExistingPairs ==
  ASSUME IInv, PairInv, NEW t \in Threads, ReadExisting(t)
  PROVE  PairInv'
<1> DEFINE g == [thr[t] EXCEPT !.pc = "upsert", !.old = Len(View(ProcOf[t]).rows[At(thr[t])])]
<1>1. TypeOK /\ thr[t].pc = "save" /\ thr' = [thr EXCEPT ![t] = g]
      /\ UNCHANGED <<db, draft, owner, state, raced>>
  BY DEF IInv, ReadExisting
<1>2. thr[t] # Idle /\ thr[t] \in Busy
  BY <1>1 DEF TypeOK, Idle
<1>3. g # Idle /\ g.pc = "upsert" /\ g.req = thr[t].req /\ g.n = thr[t].n /\ g.hand = thr[t].hand
  BY <1>2 DEF Busy, Idle
<1> HIDE DEF g
<1>4. thr'[t] = g /\ \A u \in Threads : u # t => thr'[u] = thr[u]
  BY <1>1 DEF TypeOK
<1>5. QED
  BY <1>1, <1>2, <1>3, <1>4, AdvancePairs DEF Saving

LEMMA ReadTailPairs ==
  ASSUME IInv, PairInv, NEW t \in Threads, ReadTail(t)
  PROVE  PairInv'
<1> DEFINE g == [thr[t] EXCEPT !.pc = "insert",
                               !.tail = Chain(View(ProcOf[t]).ledger[At(thr[t])])]
<1>1. TypeOK /\ thr[t].pc = "tail" /\ thr' = [thr EXCEPT ![t] = g]
      /\ UNCHANGED <<db, draft, owner, state, raced>>
  BY DEF IInv, ReadTail
<1>2. thr[t] # Idle /\ thr[t] \in Busy
  BY <1>1 DEF TypeOK, Idle
<1>3. g # Idle /\ g.pc = "insert" /\ g.req = thr[t].req /\ g.n = thr[t].n /\ g.hand = thr[t].hand
  BY <1>2 DEF Busy, Idle
<1> HIDE DEF g
<1>4. thr'[t] = g /\ \A u \in Threads : u # t => thr'[u] = thr[u]
  BY <1>1 DEF TypeOK
<1>5. QED
  BY <1>1, <1>2, <1>3, <1>4, AdvancePairs DEF Saving

LEMMA InsertPairs ==
  ASSUME IInv, PairInv, NEW t \in Threads, Insert(t)
  PROVE  PairInv'
<1> DEFINE h == thr[t]
<1>1. /\ TypeOK /\ ThreadInv(t) /\ h.pc = "insert" /\ CanWrite(t) /\ Continue(t, h.old + 1)
      /\ UNCHANGED <<owner, raced>>
  BY DEF IInv, Insert
<1>2. h # Idle /\ HandInv(t)
  BY <1>1 DEF Idle, ThreadInv
<1>3. h.old + 1 \in Nat /\ h.n \in 1 .. Len(Touches[h.req]) /\ Len(Touches[h.req]) \in Nat
  BY <1>1, <1>2, AtTyped DEF HandInv
<1>4. db'.rows = db.rows /\ draft'.rows = draft.rows
  <2>1. PICK ledger : Write(t, [View(ProcOf[t]) EXCEPT !.ledger = ledger])
    BY DEF Insert
  <2>2. View(ProcOf[t]) = draft /\ (InTransaction(ProcOf[t]) \/ db = draft)
    BY <1>1 DEF View, CanWrite, InTransaction, TypeOK
  <2>3. QED
    BY <1>1, <2>1, <2>2 DEF Write, TypeOK, Store
<1>5. /\ thr'[t] = Idle => h.req \notin Pairs
      /\ thr'[t] # Idle =>
           /\ thr'[t].req = h.req /\ thr'[t].hand = h.hand
           /\ \/ thr'[t].pc = "tail" /\ thr'[t].n = h.n
              \/ thr'[t].pc = "save" /\ thr'[t].n = h.n + 1
              \/ thr'[t].pc = "commit" /\ h.n = Len(Touches[h.req])
      /\ \A u \in Threads : u # t => thr'[u] = thr[u]
      /\ \A r \in Requests : state'[r] = "new" => state[r] = "new"
  BY <1>1, <1>3, ContinuePairs
<1>6. ASSUME thr'[t] # Idle PROVE ProgressInv(t)'
  <2>1. ProgressInv(t)
    BY <1>2 DEF PairInv
  <2>2. /\ thr'[t].req = h.req /\ thr'[t].pc \notin {"read", "begin", "insert"}
        /\ \A i \in 1 .. Len(Touches[h.req]) :
             \/ thr'[t].pc \in {"save"} \cup Saving /\ i < thr'[t].n
             \/ thr'[t].pc \in {"tail", "insert"} /\ i = thr'[t].n
             \/ thr'[t].pc = "commit"
             => i < h.n \/ i = h.n
    BY <1>3, <1>5, <1>6 DEF Saving
  <2>3. QED
    BY <1>1, <1>4, <2>1, <2>2 DEF ProgressInv, Orderly, Saving
<1>7. QED
  BY <1>1, <1>2, <1>4, <1>5, <1>6, QuietPairs

LEMMA TimedOutPairs ==
  ASSUME IInv, PairInv, NEW t \in Threads, TimedOut(t)
  PROVE  PairInv'
<1>1. /\ TypeOK /\ thr[t] # Idle /\ Refuse(t) /\ UNCHANGED <<db, draft, owner, raced>>
      /\ ~CanWrite(t)
  BY DEF IInv, TimedOut, Idle
<1>2. thr'[t] = Idle /\ \A u \in Threads : u # t => thr'[u] = thr[u]
  BY <1>1, RefuseTyped
<1>3. \A r \in Requests : state'[r] = "new" => state[r] = "new"
  BY <1>1 DEF Refuse, TypeOK
<1>4. owner # t
  BY <1>1 DEF CanWrite
<1>5. QED
  BY <1>1, <1>2, <1>3, <1>4, QuietPairs

LEMMA FailedPairs ==
  ASSUME IInv, PairInv, NEW t \in Threads, Failed(t)
  PROVE  PairInv'
<1>1. /\ TypeOK /\ thr[t].pc \in {"upsert", "insert"} /\ UNCHANGED <<db, draft, owner, raced>>
  BY DEF IInv, Failed
<1>2. thr[t] # Idle /\ thr[t] \in Busy
  BY <1>1 DEF TypeOK, Idle
<1>3. CASE owner = t
  <2>1. thr' = [thr EXCEPT ![t].pc = "rollback"] /\ UNCHANGED state
    BY <1>3 DEF Failed
  <2>2. /\ thr'[t] # Idle /\ thr'[t].pc = "rollback" /\ thr'[t].req = thr[t].req
        /\ thr'[t].hand = thr[t].hand
        /\ \A u \in Threads : u # t => thr'[u] = thr[u]
    BY <1>1, <1>2, <2>1, PcTyped
  <2>3. QED
    BY <1>1, <1>2, <2>1, <2>2, AdvancePairs DEF Saving
<1>4. CASE owner # t
  <2>1. Refuse(t)
    BY <1>4 DEF Failed
  <2>2. thr'[t] = Idle /\ \A u \in Threads : u # t => thr'[u] = thr[u]
    BY <1>2, <2>1, RefuseTyped
  <2>3. \A r \in Requests : state'[r] = "new" => state[r] = "new"
    BY <1>1, <2>1 DEF Refuse, TypeOK
  <2>4. QED
    BY <1>1, <1>2, <1>4, <2>2, <2>3, QuietPairs
<1>5. QED
  BY <1>3, <1>4

LEMMA DiedPairs ==
  ASSUME IInv, PairInv, NEW p \in Procs, Died(p)
  PROVE  PairInv'
<1>1. /\ TypeOK /\ UNCHANGED <<db, state, raced>>
      /\ thr' = [t \in Threads |-> IF ProcOf[t] = p THEN Idle ELSE thr[t]]
  BY DEF IInv, Died
<1>2. \A u \in Threads : thr'[u] = IF ProcOf[u] = p THEN Idle ELSE thr[u]
  BY <1>1
<1>3. CASE InTransaction(p)
  <2>1. draft' = db /\ owner \in Threads /\ ProcOf[owner] = p
    BY <1>1, <1>3 DEF Died, InTransaction, TypeOK
  <2>2. QED
    BY <1>1, <1>2, <2>1, UndonePairs
<1>4. CASE ~InTransaction(p)
  <2>1. UNCHANGED <<draft, owner>> /\ \A u \in Threads : owner = u => thr'[u] = thr[u]
    BY <1>2, <1>4, CaseStoreAssumption DEF Died, InTransaction
  <2>2. SettledInv'
    BY <1>1, <2>1 DEF PairInv, SettledInv, Orderly
  <2>3. \A u \in Threads : thr'[u] # Idle => ProgressInv(u)'
    BY <1>1, <1>2, <2>1 DEF PairInv, ProgressInv, Orderly
  <2>4. QED
    BY <1>1, <1>2, <2>1, <2>2, <2>3, LogsKeep
<1>5. QED
  BY <1>3, <1>4

LEMMA InitPairs == Init => PairInv
<1>1. SUFFICES ASSUME Init PROVE PairInv
  OBVIOUS
<1>2. /\ \A t \in Threads : thr[t] = Idle
      /\ draft = db /\ \A c \in Cases : db.rows[c] = <<>> /\ Range(db.rows[c]) = {}
  BY <1>1 DEF Init, Range
<1>3. RacedInv /\ NewInv /\ SettledInv
  BY <1>2 DEF RacedInv, NewInv, SettledInv
<1>4. PairIsWhole
  BY <1>2, TouchesTyped DEF PairIsWhole
<1>5. QED
  BY <1>2, <1>3, <1>4 DEF PairInv

LEMMA NextPairs == IInv /\ PairInv /\ [Next]_vars => PairInv'
<1>1. SUFFICES ASSUME IInv, PairInv, [Next]_vars PROVE PairInv'
  OBVIOUS
<1>2. ASSUME NEW t \in Threads, NEW r \in Requests, Start(t, r) PROVE PairInv'
  BY <1>1, <1>2, StartPairs
<1>3. ASSUME NEW t \in Threads, Proceed(t) PROVE PairInv'
  <2>1. CASE ReadCard(t)
    BY <1>1, <2>1, ReadCardPairs
  <2>2. CASE Begin(t)
    BY <1>1, <2>2, BeginPairs
  <2>3. CASE NestedBegin(t)
    BY <1>1, <2>3, NestedBeginPairs
  <2>4. CASE Commit(t)
    BY <1>1, <2>4, CommitPairs
  <2>5. CASE Rollback(t)
    BY <1>1, <2>5, RollbackPairs
  <2>6. CASE ReadExisting(t)
    BY <1>1, <2>6, ReadExistingPairs
  <2>7. CASE Upsert(t)
    BY <1>1, <2>7, UpsertPairs
  <2>8. CASE ReadTail(t)
    BY <1>1, <2>8, ReadTailPairs
  <2>9. CASE Insert(t)
    BY <1>1, <2>9, InsertPairs
  <2>10. QED
    BY <1>3, <2>1, <2>2, <2>3, <2>4, <2>5, <2>6, <2>7, <2>8, <2>9 DEF Proceed
<1>4. ASSUME NEW t \in Threads, TimedOut(t) \/ Failed(t) PROVE PairInv'
  BY <1>1, <1>4, TimedOutPairs, FailedPairs
<1>5. ASSUME NEW p \in Procs, Died(p) PROVE PairInv'
  BY <1>1, <1>5, DiedPairs
<1>6. CASE UNCHANGED vars
  BY <1>1, <1>6 DEF vars, PairInv, RacedInv, NewInv, SettledInv, PairIsWhole, CardInv,
                    ProgressInv, Orderly
<1>7. QED
  BY <1>1, <1>2, <1>3, <1>4, <1>5, <1>6 DEF Next

(* What save_all writes is in all its cases or in none, if these are changed  *)
(* by one request at a time: with any number of processes and threads, saves  *)
(* that join the transaction of another thread, and whatever fails when.      *)
THEOREM SaveAllIsWhole == Spec => []PairIsWhole
<1>1. PairInv => PairIsWhole
  BY DEF PairInv
<1>2. QED
  BY <1>1, Inductive, InitPairs, NextPairs, PTL DEF Spec
(***************************************************************************)
(* Journals repeat logs.                                                    *)
(***************************************************************************)
LEMMA LinesTyped ==
  \A ledger \in Seq(Entry) :
     /\ Lines(ledger) \in Seq(Requests) /\ Len(Lines(ledger)) = Len(ledger)
     /\ \A e \in Entry : Lines(Append(ledger, e)) = Append(Lines(ledger), e.line)
<1>1. SUFFICES ASSUME NEW ledger \in Seq(Entry)
               PROVE  /\ Lines(ledger) \in Seq(Requests) /\ Len(Lines(ledger)) = Len(ledger)
                      /\ \A e \in Entry : Lines(Append(ledger, e)) = Append(Lines(ledger), e.line)
  OBVIOUS
<1>2. Len(ledger) \in Nat /\ \A i \in 1 .. Len(ledger) : ledger[i].line \in Requests
  <2>1. \A i \in 1 .. Len(ledger) : ledger[i] \in Entry
    OBVIOUS
  <2>2. QED
    BY <2>1 DEF Entry
<1>3. Lines(ledger) \in Seq(Requests) /\ Len(Lines(ledger)) = Len(ledger)
  BY <1>2 DEF Lines
<1>4. ASSUME NEW e \in Entry PROVE Lines(Append(ledger, e)) = Append(Lines(ledger), e.line)
  <2>1. e.line \in Requests
    BY DEF Entry
  <2>2. /\ Append(ledger, e) \in Seq(Entry) /\ Len(Append(ledger, e)) = Len(ledger) + 1
        /\ \A i \in 1 .. Len(ledger) : Append(ledger, e)[i] = ledger[i]
        /\ Append(ledger, e)[Len(ledger) + 1] = e
    OBVIOUS
  <2>3. /\ Append(Lines(ledger), e.line) \in Seq(Requests)
        /\ Len(Append(Lines(ledger), e.line)) = Len(ledger) + 1
        /\ \A i \in 1 .. Len(ledger) : Append(Lines(ledger), e.line)[i] = ledger[i].line
        /\ Append(Lines(ledger), e.line)[Len(ledger) + 1] = e.line
    BY <1>2, <1>3, <2>1 DEF Lines
  <2>4. /\ Lines(Append(ledger, e)) \in Seq(Requests)
        /\ Len(Lines(Append(ledger, e))) = Len(ledger) + 1
        /\ \A i \in 1 .. Len(ledger) : Lines(Append(ledger, e))[i] = ledger[i].line
        /\ Lines(Append(ledger, e))[Len(ledger) + 1] = e.line
    <3> DEFINE longer == Append(ledger, e)
    <3>1. \A i \in 1 .. Len(longer) : longer[i].line \in Requests
      <4>1. \A i \in 1 .. Len(longer) : longer[i] \in Entry
        BY <2>2
      <4>2. QED
        BY <4>1 DEF Entry
    <3> HIDE DEF longer
    <3>2. /\ Lines(longer) \in Seq(Requests) /\ Len(Lines(longer)) = Len(longer)
          /\ \A i \in 1 .. Len(longer) : Lines(longer)[i] = longer[i].line
      BY <2>2, <3>1 DEF Lines, longer
    <3>3. QED
      BY <1>2, <2>2, <3>2 DEF longer
  <2>5. QED
    BY <1>2, <2>3, <2>4
<1>5. QED
  BY <1>3, <1>4

LEMMA LedgersTyped ==
  ASSUME TypeOK
  PROVE  /\ db.ledger \in [Cases -> Seq(Entry)] /\ draft.ledger \in [Cases -> Seq(Entry)]
BY DEF TypeOK, Store

(* A thread that saves a case which one process saves is of that process and  *)
(* holds its lock.                                                         *)
LEMMA SaverKnown ==
  ASSUME IInv, NEW t \in Threads, thr[t].pc \in Saving
  PROVE  /\ thr[t] # Idle /\ thr[t].req \in Requests /\ At(thr[t]) \in Cases
         /\ At(thr[t]) \in Touched(thr[t].req) /\ lock[ProcOf[t]] = t
         /\ \A p \in Procs : SavedBy(p, At(thr[t])) => p = ProcOf[t]
<1>1. thr[t] # Idle /\ TypeOK /\ HandInv(t) /\ LockInv(t)
  BY DEF IInv, ThreadInv, Idle, Saving
<1>2. /\ thr[t].req \in Requests /\ At(thr[t]) \in Cases /\ At(thr[t]) \in Touched(thr[t].req)
      /\ Home[thr[t].req] = ProcOf[t] /\ lock[ProcOf[t]] = t
  BY <1>1, AtTyped DEF HandInv, LockInv
<1>3. QED
  BY <1>1, <1>2 DEF SavedBy

(* What writes nothing and ends no save keeps what was known of logs and       *)
(* journals.                                                               *)
LEMMA QuietLogs ==
  ASSUME IInv, LogInv, faulted = {}, UNCHANGED <<db, draft, owner>>,
         \A c : Orderly(c)' => Orderly(c),
         \A c \in Cases : BeingSaved(c) => BeingSaved(c)',
         NEW t \in Threads, \A u \in Threads : u # t => thr'[u] = thr[u],
         thr'[t] # Idle => JournalInv(t)'
  PROVE  LogInv'
<1>1. ASSUME NEW p \in Procs, NEW c \in Cases, SavedBy(p, c), Orderly(c)'
      PROVE  /\ InTransaction(p) \/ ~BeingSaved(c)' => db.rows[c] = Lines(db.ledger[c])
             /\ ~BeingSaved(c)' => draft.rows[c] = Lines(draft.ledger[c])
             /\ ~InTransaction(p) => draft.rows[c] = db.rows[c]
  BY <1>1 DEF LogInv
<1>2. ASSUME NEW u \in Threads, thr'[u] # Idle PROVE JournalInv(u)'
  <2>1. CASE u = t
    BY <1>2, <2>1
  <2>2. CASE u # t
    <3>1. thr[u] # Idle /\ thr'[u] = thr[u] /\ JournalInv(u)
      BY <1>2, <2>2 DEF LogInv
    <3>2. QED
      BY <3>1 DEF JournalInv, At, SavedBy
  <2>3. QED
    BY <2>1, <2>2
<1>3. \A p : InTransaction(p)' <=> InTransaction(p)
  BY DEF InTransaction
<1>4. \A p, c : SavedBy(p, c)' <=> SavedBy(p, c)
  BY DEF SavedBy
<1>5. QED
  BY <1>1, <1>2, <1>3, <1>4 DEF LogInv

LEMMA StartLogs ==
  ASSUME IInv, PairInv, LogInv, faulted = {}, NEW t \in Threads, NEW r \in Requests, Start(t, r)
  PROVE  LogInv'
<1> DEFINE h == [pc |-> "read", req |-> r, hand |-> <<>>, n |-> 1, old |-> 0, tail |-> <<>>]
<1>1. /\ TypeOK /\ thr[t] = Idle /\ state[r] = "new" /\ thr' = [thr EXCEPT ![t] = h]
      /\ UNCHANGED <<db, draft, owner>> /\ raced \subseteq raced'
  BY DEF Start, IInv
<1>2. h.pc = "read" /\ h.req = r /\ h.hand = <<>>
  OBVIOUS
<1> HIDE DEF h
<1>3. thr'[t] = h /\ \A u \in Threads : u # t => thr'[u] = thr[u]
  BY <1>1 DEF TypeOK
<1>4. JournalInv(t)'
  <2>1. \A c \in Cases : r \notin Range(draft.rows[c])
    BY <1>1 DEF PairInv, NewInv
  <2>2. \A i \in 1 .. Len(Touches[r]) : Touches[r][i] \in Cases
    BY TouchesTyped
  <2>3. QED
    BY <1>1, <1>2, <1>3, <2>1, <2>2 DEF JournalInv, Saving
<1>5. \A c \in Cases : BeingSaved(c) => BeingSaved(c)'
  BY <1>1, <1>3 DEF BeingSaved, Idle, Saving
<1>6. \A c : Orderly(c)' => Orderly(c)
  BY <1>1 DEF Orderly
<1>7. QED
  BY <1>1, <1>3, <1>4, <1>5, <1>6, QuietLogs

LEMMA ReadCardLogs ==
  ASSUME IInv, PairInv, LogInv, faulted = {}, NEW t \in Threads, ReadCard(t)
  PROVE  LogInv'
<1> DEFINE h == thr[t]
           c == Touches[h.req][h.n]
           card == Changed(h.req, View(ProcOf[t]).rows[c])
           hand == Append(h.hand, card)
           read == Len(hand) = Len(Touches[h.req])
           g1 == [h EXCEPT !.hand = hand]
           g2 == [g1 EXCEPT !.n = IF read THEN 1 ELSE h.n + 1]
           g == [g2 EXCEPT !.pc = IF ~read THEN "read"
                                  ELSE IF Len(hand) > 1 THEN "begin" ELSE "save"]
<1>1. TypeOK /\ ThreadInv(t) /\ h.pc = "read" /\ UNCHANGED <<db, draft, owner, raced>>
  BY DEF IInv, ReadCard
<1>2. h # Idle /\ h \in Busy /\ HandInv(t) /\ JournalInv(t)
  BY <1>1 DEF Idle, TypeOK, ThreadInv, LogInv
<1>3. h.req \in Requests /\ h.n \in Nat \ {0} /\ c \in Cases /\ c \in Touched(h.req)
      /\ h.hand \in Seq(Seq(Requests)) /\ Touches[h.req] \in Seq(Cases)
  BY <1>1, <1>2, AtTyped DEF At
<1>4. h.n \in 1 .. Len(Touches[h.req]) /\ Len(h.hand) = h.n - 1 /\ Len(Touches[h.req]) \in Nat
  BY <1>1, <1>2, <1>3 DEF HandInv
<1>5. card \in Seq(Requests)
  <2>1. View(ProcOf[t]).rows[c] \in Seq(Requests)
    BY <1>1, <1>3, RowsTyped, CaseStoreAssumption
  <2>2. QED
    BY <1>3, <2>1 DEF Changed
<1>6. Orderly(c) /\ SavedBy(ProcOf[t], c) => card = Append(draft.rows[c], h.req)
  <2>1. SUFFICES ASSUME Orderly(c), SavedBy(ProcOf[t], c)
                 PROVE  card = Append(draft.rows[c], h.req)
    OBVIOUS
  <2>2. h.req \notin Rebuilds
    BY <1>3, <2>1 DEF Orderly
  <2>3. View(ProcOf[t]).rows[c] = draft.rows[c]
    BY <1>3, <2>1, CaseStoreAssumption DEF LogInv, View
  <2>4. QED
    BY <2>2, <2>3 DEF Changed
<1>7. thr' = [thr EXCEPT ![t] = g]
  BY <1>2 DEF ReadCard, Busy
<1> HIDE DEF card
<1>8. /\ hand \in Seq(Seq(Requests)) /\ Len(hand) = h.n /\ DOMAIN hand = 1 .. h.n
      /\ DOMAIN h.hand = 1 .. (h.n - 1)
      /\ \A i \in 1 .. (h.n - 1) : hand[i] = h.hand[i]
      /\ hand[h.n] = card
  BY <1>3, <1>4, <1>5
<1> HIDE DEF hand
<1>9. g # Idle /\ g.req = h.req /\ g.hand = hand /\ g.pc \in {"read", "begin", "save"}
  <2>1. g1 = [pc |-> h.pc, req |-> h.req, hand |-> hand, n |-> h.n, old |-> h.old, tail |-> h.tail]
    BY <1>2 DEF Busy
  <2>2. QED
    BY <2>1 DEF Idle
<1> HIDE DEF g
<1>10. thr'[t] = g /\ \A u \in Threads : u # t => thr'[u] = thr[u]
  BY <1>1, <1>7 DEF TypeOK
<1>11. JournalInv(t)'
  <2>1. SUFFICES ASSUME NEW i \in 1 .. Len(Touches[h.req]), Orderly(Touches[h.req][i]),
                        SavedBy(ProcOf[t], Touches[h.req][i])
                 PROVE  LET d == Touches[h.req][i] IN
                        /\ h.req \notin Range(draft.rows[d])
                        /\ i \in DOMAIN hand => hand[i] = Append(draft.rows[d], h.req)
    BY <1>1, <1>9, <1>10 DEF JournalInv, Orderly, SavedBy, Saving
  <2>2. h.req \notin Range(draft.rows[Touches[h.req][i]])
    BY <1>1, <1>2, <2>1 DEF JournalInv
  <2>3. CASE i \in 1 .. (h.n - 1)
    BY <1>1, <1>2, <1>8, <2>1, <2>2, <2>3 DEF JournalInv
  <2>4. CASE i = h.n
    BY <1>6, <1>8, <2>1, <2>2, <2>4
  <2>5. CASE i \notin 1 .. h.n
    BY <1>8, <2>2, <2>5
  <2>6. i \in 1 .. (h.n - 1) \/ i = h.n \/ i \notin 1 .. h.n
    BY <1>3, <1>4
  <2>7. QED
    BY <2>3, <2>4, <2>5, <2>6
<1>12. \A d \in Cases : BeingSaved(d) => BeingSaved(d)'
  BY <1>1, <1>10 DEF BeingSaved, Saving
<1>13. \A d : Orderly(d)' => Orderly(d)
  BY <1>1 DEF Orderly
<1>14. QED
  BY <1>1, <1>10, <1>11, <1>12, <1>13, QuietLogs

LEMMA BeginLogs ==
  ASSUME IInv, LogInv, faulted = {}, NEW t \in Threads, Begin(t)
  PROVE  LogInv'
<1>1. /\ TypeOK /\ thr[t].pc = "begin" /\ thr[t] \in Busy /\ thr[t] # Idle /\ Unlocked(t)
      /\ owner = NoOne /\ owner' = t /\ UNCHANGED <<db, draft, raced>>
  BY DEF IInv, Begin, TypeOK, Idle
<1>2. /\ thr'[t] # Idle /\ thr'[t].pc = "save"
      /\ thr'[t].req = thr[t].req /\ thr'[t].hand = thr[t].hand
      /\ \A u \in Threads : u # t => thr'[u] = thr[u]
  BY <1>1, PcTyped DEF Begin
<1>3. \A c \in Cases : SavedBy(ProcOf[t], c) => ~BeingSaved(c)
  <2>1. SUFFICES ASSUME NEW c \in Cases, SavedBy(ProcOf[t], c),
                        NEW u \in Threads, thr[u].pc \in Saving, At(thr[u]) = c
                 PROVE  FALSE
    BY DEF BeingSaved
  <2>2. lock[ProcOf[t]] = u
    BY <2>1, SaverKnown, CaseStoreAssumption
  <2>3. QED
    BY <1>1, <2>2, CaseStoreAssumption DEF Unlocked
<1>4. \A c \in Cases : BeingSaved(c)' <=> BeingSaved(c)
  BY <1>1, <1>2 DEF BeingSaved, Saving
<1>5. ASSUME NEW p \in Procs, NEW c \in Cases, SavedBy(p, c), Orderly(c)
      PROVE  /\ InTransaction(p)' \/ ~BeingSaved(c) => db.rows[c] = Lines(db.ledger[c])
             /\ ~BeingSaved(c) => draft.rows[c] = Lines(draft.ledger[c])
             /\ draft.rows[c] = db.rows[c]
  <2>1. ~InTransaction(p) /\ (InTransaction(p)' => p = ProcOf[t])
    BY <1>1 DEF InTransaction
  <2>2. QED
    BY <1>3, <1>5, <2>1 DEF LogInv
<1>6. ASSUME NEW u \in Threads, thr'[u] # Idle PROVE JournalInv(u)'
  <2>1. thr[u] # Idle /\ JournalInv(u)
    BY <1>1, <1>2, <1>6 DEF LogInv
  <2>2. CASE u = t
    BY <1>1, <1>2, <2>1, <2>2 DEF JournalInv, Orderly, Saving
  <2>3. CASE u # t
    BY <1>1, <1>2, <2>1, <2>3 DEF JournalInv, Orderly
  <2>4. QED
    BY <2>2, <2>3
<1>7. \A c : Orderly(c)' <=> Orderly(c)
  BY <1>1 DEF Orderly
<1>8. QED
  BY <1>1, <1>4, <1>5, <1>6, <1>7 DEF LogInv, SavedBy

LEMMA NestedBeginLogs ==
  ASSUME IInv, LogInv, faulted = {}, NEW t \in Threads, NestedBegin(t)
  PROVE  LogInv'
<1>1. /\ TypeOK /\ thr[t].pc = "begin" /\ thr[t] # Idle /\ Refuse(t)
      /\ UNCHANGED <<db, draft, owner, raced>>
  BY DEF IInv, NestedBegin, Idle
<1>2. thr'[t] = Idle /\ \A u \in Threads : u # t => thr'[u] = thr[u]
  BY <1>1, RefuseTyped
<1>3. \A c \in Cases : BeingSaved(c) => BeingSaved(c)'
  BY <1>1, <1>2 DEF BeingSaved, Saving
<1>4. \A c : Orderly(c)' => Orderly(c)
  BY <1>1 DEF Orderly
<1>5. QED
  BY <1>1, <1>2, <1>3, <1>4, QuietLogs

LEMMA CommitLogs ==
  ASSUME IInv, LogInv, faulted = {}, NEW t \in Threads, Commit(t)
  PROVE  LogInv'
<1>1. /\ TypeOK /\ thr[t].pc = "commit" /\ thr[t] # Idle /\ Answer(t)
      /\ db' = draft /\ owner' = NoOne /\ UNCHANGED <<draft, raced>>
  BY DEF IInv, Commit, Idle
<1>2. thr'[t] = Idle /\ \A u \in Threads : u # t => thr'[u] = thr[u]
  BY <1>1, RefuseTyped
<1>3. \A c \in Cases : BeingSaved(c)' <=> BeingSaved(c)
  BY <1>1, <1>2 DEF BeingSaved, Saving, Idle
<1>4. \A c : Orderly(c)' <=> Orderly(c)
  BY <1>1 DEF Orderly
<1>5. ASSUME NEW p \in Procs, NEW c \in Cases, SavedBy(p, c), Orderly(c), ~BeingSaved(c)
      PROVE  draft.rows[c] = Lines(draft.ledger[c])
  BY <1>5 DEF LogInv
<1>6. \A p \in Procs : ~InTransaction(p)'
  BY <1>1 DEF InTransaction
<1>7. ASSUME NEW u \in Threads, thr'[u] # Idle PROVE JournalInv(u)'
  <2>1. thr[u] # Idle /\ thr'[u] = thr[u] /\ JournalInv(u)
    BY <1>2, <1>7 DEF LogInv
  <2>2. QED
    BY <1>1, <1>4, <2>1 DEF JournalInv, At, SavedBy
<1>8. QED
  BY <1>1, <1>3, <1>4, <1>5, <1>6, <1>7 DEF LogInv, SavedBy

LEMMA ReadExistingLogs ==
  ASSUME IInv, PairInv, LogInv, faulted = {}, NEW t \in Threads, ReadExisting(t)
  PROVE  LogInv'
<1> DEFINE h == thr[t]
           c == At(h)
           old == Len(View(ProcOf[t]).rows[c])
           g == [h EXCEPT !.pc = "upsert", !.old = old]
<1>1. /\ TypeOK /\ ThreadInv(t) /\ h.pc = "save" /\ thr' = [thr EXCEPT ![t] = g]
      /\ UNCHANGED <<db, draft, owner, state, raced>>
  BY DEF IInv, ReadExisting
<1>2. h # Idle /\ h \in Busy /\ HandInv(t) /\ JournalInv(t)
  BY <1>1 DEF TypeOK, Idle, ThreadInv, LogInv
<1>3. c \in Cases /\ c \in Touched(h.req)
  BY <1>1, <1>2, AtTyped
<1>4. Orderly(c) /\ SavedBy(ProcOf[t], c) =>
        draft.rows[c] = Lines(draft.ledger[c]) /\ old = Len(draft.rows[c])
  <2>1. SUFFICES ASSUME Orderly(c), SavedBy(ProcOf[t], c)
                 PROVE  draft.rows[c] = Lines(draft.ledger[c]) /\ old = Len(draft.rows[c])
    OBVIOUS
  <2>2. ~BeingSaved(c)
    <3>1. SUFFICES ASSUME NEW u \in Threads, thr[u].pc \in Saving, At(thr[u]) = c PROVE FALSE
      BY DEF BeingSaved
    <3>2. u = t
      BY <1>2, <1>3, <2>1, <3>1, SaverKnown, OneHand DEF PairInv
    <3>3. QED
      BY <1>1, <3>1, <3>2 DEF Saving
  <2>3. draft.rows[c] = Lines(draft.ledger[c])
    BY <1>3, <2>1, <2>2, CaseStoreAssumption DEF LogInv
  <2>4. View(ProcOf[t]).rows[c] = draft.rows[c]
    BY <1>3, <2>1, CaseStoreAssumption DEF LogInv, View
  <2>5. QED
    BY <2>3, <2>4
<1> HIDE DEF old
<1>5. /\ g # Idle /\ g.pc = "upsert" /\ g.req = h.req /\ g.n = h.n /\ g.hand = h.hand
      /\ g.old = old
  BY <1>2 DEF Busy, Idle
<1> HIDE DEF g
<1>6. thr'[t] = g /\ (\A u \in Threads : u # t => thr'[u] = thr[u]) /\ At(g) = c
  BY <1>1, <1>5 DEF TypeOK, At
<1>7. JournalInv(t)'
  BY <1>1, <1>2, <1>4, <1>5, <1>6 DEF JournalInv, Orderly, Saving, SavedBy
<1>8. \A d \in Cases : BeingSaved(d) => BeingSaved(d)'
  BY <1>1, <1>6 DEF BeingSaved, Saving
<1>9. \A d : Orderly(d)' => Orderly(d)
  BY <1>1 DEF Orderly
<1>10. QED
  BY <1>1, <1>6, <1>7, <1>8, <1>9, QuietLogs

LEMMA ReadTailLogs ==
  ASSUME IInv, LogInv, faulted = {}, NEW t \in Threads, ReadTail(t)
  PROVE  LogInv'
<1> DEFINE h == thr[t]
           tail == Chain(View(ProcOf[t]).ledger[At(h)])
           g == [h EXCEPT !.pc = "insert", !.tail = tail]
<1>1. /\ TypeOK /\ ThreadInv(t) /\ h.pc = "tail" /\ thr' = [thr EXCEPT ![t] = g]
      /\ UNCHANGED <<db, draft, owner, state, raced>>
  BY DEF IInv, ReadTail
<1>2. h # Idle /\ h \in Busy /\ JournalInv(t)
  BY <1>1 DEF TypeOK, Idle, LogInv
<1> HIDE DEF tail
<1>3. /\ g # Idle /\ g.pc = "insert" /\ g.req = h.req /\ g.n = h.n /\ g.hand = h.hand
      /\ g.old = h.old
  BY <1>2 DEF Busy, Idle
<1> HIDE DEF g
<1>4. thr'[t] = g /\ (\A u \in Threads : u # t => thr'[u] = thr[u]) /\ At(g) = At(h)
  BY <1>1, <1>3 DEF TypeOK, At
<1>5. JournalInv(t)'
  <2> HIDE DEF h
  <2>1. /\ h.pc = "tail" /\ thr'[t].pc = "insert" /\ thr'[t].req = h.req /\ thr'[t].n = h.n
        /\ thr'[t].hand = h.hand /\ thr'[t].old = h.old /\ At(thr'[t]) = At(h)
    BY <1>1, <1>3, <1>4
  <2>2. QED
    BY <1>1, <1>2, <2>1 DEF h, JournalInv, Orderly, Saving, SavedBy
<1>6. \A d \in Cases : BeingSaved(d) => BeingSaved(d)'
  BY <1>1, <1>3, <1>4 DEF BeingSaved, Saving
<1>7. \A d : Orderly(d)' => Orderly(d)
  BY <1>1 DEF Orderly
<1>8. QED
  BY <1>1, <1>4, <1>5, <1>6, <1>7, QuietLogs

(* The statement that a save is at writes of an orderly case of one process   *)
(* its row or its journal, and nothing of the others.  A save that ends        *)
(* leaves them equal.                                                      *)
LEMMA SavedLogs ==
  ASSUME IInv, PairInv, LogInv, faulted = {}, NEW t \in Threads, thr[t].pc \in Saving,
         UNCHANGED <<owner, raced>>,
         IF InTransaction(ProcOf[t]) THEN db' = db ELSE draft = db /\ db' = draft',
         owner = NoOne => draft = db /\ db' = draft',
         \A d \in Cases : d # At(thr[t]) => /\ draft'.rows[d] = draft.rows[d]
                                            /\ draft'.ledger[d] = draft.ledger[d],
         \A u \in Threads : u # t => thr'[u] = thr[u],
         thr'[t] # Idle => JournalInv(t)' /\ (thr'[t].pc \in Saving => At(thr'[t]) = At(thr[t])),
         /\ Orderly(At(thr[t])) /\ SavedBy(ProcOf[t], At(thr[t]))
         /\ ~(thr'[t] # Idle /\ thr'[t].pc \in Saving)
         => draft'.rows[At(thr[t])] = Lines(draft'.ledger[At(thr[t])])
  PROVE  LogInv'
<1> DEFINE c == At(thr[t])
<1>1. /\ thr[t] # Idle /\ thr[t].req \in Requests /\ c \in Cases /\ c \in Touched(thr[t].req)
      /\ \A p \in Procs : SavedBy(p, c) => p = ProcOf[t]
  BY SaverKnown
<1>2. \A d : Orderly(d)' <=> Orderly(d)
  BY DEF Orderly
<1>3. \A p : InTransaction(p)' <=> InTransaction(p)
  BY DEF InTransaction
<1>4. BeingSaved(c) /\ \A d \in Cases : d # c => (BeingSaved(d)' <=> BeingSaved(d))
  BY DEF BeingSaved, Idle, Saving
<1>5. BeingSaved(c)' \/ ~(thr'[t] # Idle /\ thr'[t].pc \in Saving)
  BY DEF BeingSaved
<1> HIDE DEF c
<1>6. ASSUME NEW p \in Procs, NEW d \in Cases, SavedBy(p, d), Orderly(d)
      PROVE  /\ InTransaction(p) \/ ~BeingSaved(d)' => db'.rows[d] = Lines(db'.ledger[d])
             /\ ~BeingSaved(d)' => draft'.rows[d] = Lines(draft'.ledger[d])
             /\ ~InTransaction(p) => draft'.rows[d] = db'.rows[d]
  <2>1. /\ InTransaction(p) \/ ~BeingSaved(d) => db.rows[d] = Lines(db.ledger[d])
        /\ ~BeingSaved(d) => draft.rows[d] = Lines(draft.ledger[d])
        /\ ~InTransaction(p) => draft.rows[d] = db.rows[d]
    BY <1>6 DEF LogInv
  <2>2. CASE d # c
    <3>1. draft'.rows[d] = draft.rows[d] /\ draft'.ledger[d] = draft.ledger[d]
      BY <2>2 DEF c
    <3>2. db' = db \/ (draft = db /\ db' = draft')
      OBVIOUS
    <3>3. db'.rows[d] = db.rows[d] /\ db'.ledger[d] = db.ledger[d]
      BY <3>1, <3>2
    <3>4. QED
      BY <1>4, <2>1, <2>2, <3>1, <3>3
  <2>3. CASE d = c
    <3>1. p = ProcOf[t] /\ BeingSaved(d)
      BY <1>1, <1>4, <1>6, <2>3
    <3>2. ~BeingSaved(d)' => draft'.rows[d] = Lines(draft'.ledger[d])
      BY <1>5, <1>6, <2>3, <3>1 DEF c
    <3>3. CASE InTransaction(p)
      BY <2>1, <3>1, <3>2, <3>3
    <3>4. CASE ~InTransaction(p)
      BY <3>1, <3>2, <3>4
    <3>5. QED
      BY <3>3, <3>4
  <2>4. QED
    BY <2>2, <2>3
<1>7. ASSUME NEW u \in Threads, thr'[u] # Idle PROVE JournalInv(u)'
  <2>1. CASE u = t
    BY <1>7, <2>1
  <2>2. CASE u # t
    <3>1. thr[u] # Idle /\ thr'[u] = thr[u] /\ JournalInv(u) /\ HandInv(u) /\ TypeOK
      BY <1>7, <2>2 DEF LogInv, IInv, ThreadInv
    <3>2. /\ thr[u].req \in Requests /\ At(thr[u]) \in Touched(thr[u].req)
      BY <3>1, AtTyped
    <3>3. \A d \in Touched(thr[u].req) : Orderly(d) =>
             draft'.rows[d] = draft.rows[d] /\ draft'.ledger[d] = draft.ledger[d]
      <4>1. SUFFICES ASSUME NEW d \in Touched(thr[u].req), Orderly(d)
                     PROVE  d \in Cases /\ d # c
        BY DEF c
      <4>2. d \in Cases
        BY <3>2, TouchesTyped
      <4>3. QED
        BY <1>1, <2>2, <3>1, <4>1, <4>2, OneHand DEF PairInv
    <3>4. \A i \in 1 .. Len(Touches[thr[u].req]) : Touches[thr[u].req][i] \in Touched(thr[u].req)
      BY <3>2, TouchesTyped
    <3> DEFINE v == thr[u]
    <3>5. /\ v.pc # "rollback"
          /\ \A i \in 1 .. Len(Touches[v.req]) :
               Orderly(Touches[v.req][i]) /\ SavedBy(ProcOf[u], Touches[v.req][i]) =>
                 /\ v.pc = "read" => v.req \notin Range(draft'.rows[Touches[v.req][i]])
                 /\ i \in DOMAIN v.hand =>
                      v.hand[i] = IF v.req \in Range(draft'.rows[Touches[v.req][i]])
                                  THEN draft'.rows[Touches[v.req][i]]
                                  ELSE Append(draft'.rows[Touches[v.req][i]], v.req)
      <4>1. SUFFICES ASSUME NEW i \in 1 .. Len(Touches[v.req]), Orderly(Touches[v.req][i]),
                            SavedBy(ProcOf[u], Touches[v.req][i])
                     PROVE  /\ v.pc = "read" => v.req \notin Range(draft'.rows[Touches[v.req][i]])
                            /\ i \in DOMAIN v.hand =>
                                 v.hand[i] = IF v.req \in Range(draft'.rows[Touches[v.req][i]])
                                             THEN draft'.rows[Touches[v.req][i]]
                                             ELSE Append(draft'.rows[Touches[v.req][i]], v.req)
        BY <1>2, <3>1 DEF JournalInv
      <4>2. draft'.rows[Touches[v.req][i]] = draft.rows[Touches[v.req][i]]
        BY <3>3, <3>4, <4>1
      <4>3. QED
        BY <3>1, <4>1, <4>2 DEF JournalInv
    <3>6. v.pc \in Saving /\ Orderly(At(v)) /\ SavedBy(ProcOf[u], At(v)) =>
             IF v.pc = "upsert"
             THEN draft'.rows[At(v)] = Lines(draft'.ledger[At(v)]) /\ v.old = Len(draft'.rows[At(v)])
             ELSE /\ draft'.rows[At(v)] = v.hand[v.n] /\ v.old = Len(draft'.ledger[At(v)])
                  /\ v.hand[v.n] = Append(Lines(draft'.ledger[At(v)]), v.req)
      BY <1>2, <3>1, <3>2, <3>3 DEF JournalInv
    <3>7. v = thr'[u]
      BY <3>1
    <3> HIDE DEF v
    <3>8. QED
      BY <3>5, <3>6, <3>7 DEF JournalInv, At, SavedBy, Orderly
  <2>3. QED
    BY <2>1, <2>2
<1>8. QED
  BY <1>2, <1>3, <1>6, <1>7 DEF LogInv, SavedBy

(* What a writing thread writes goes into the draft.                         *)
LEMMA WritesDraft ==
  ASSUME TypeOK, NEW t \in Threads, CanWrite(t), NEW store,
         Write(t, store)
  PROVE  /\ View(ProcOf[t]) = draft /\ draft' = store
         /\ IF InTransaction(ProcOf[t]) THEN db' = db ELSE draft = db /\ db' = draft'
         /\ owner = NoOne => draft = db /\ db' = draft'
BY DEF TypeOK, CanWrite, InTransaction, View, Write

LEMMA UpsertLogs ==
  ASSUME IInv, PairInv, LogInv, faulted = {}, NEW t \in Threads, Upsert(t)
  PROVE  LogInv'
<1> DEFINE h == thr[t]
           c == At(h)
           card == h.hand[h.n]
<1>1. /\ TypeOK /\ ThreadInv(t) /\ h.pc = "upsert" /\ CanWrite(t) /\ UNCHANGED <<owner, raced>>
      /\ Continue(t, h.old)
      /\ Write(t, [View(ProcOf[t]) EXCEPT !.rows[c] = card])
  BY DEF IInv, Upsert
<1>2. h # Idle /\ HandInv(t) /\ CardInv(t) /\ JournalInv(t) /\ h.pc \in Saving
  BY <1>1 DEF Idle, ThreadInv, PairInv, LogInv, Saving
<1>3. /\ h.req \in Requests /\ h.n \in 1 .. Len(Touches[h.req]) /\ c \in Cases
      /\ card \in Seq(Requests) /\ h.old \in Nat /\ h.n \in DOMAIN h.hand
      /\ c = Touches[h.req][h.n]
  BY <1>1, <1>2, AtTyped DEF At, HandInv
<1>4. /\ thr'[t] # Idle =>
           /\ thr'[t].req = h.req /\ thr'[t].hand = h.hand
           /\ \/ thr'[t].pc = "tail" /\ thr'[t].n = h.n
              \/ thr'[t].pc \in {"save", "commit"}
           /\ thr'[t].pc = "tail" => thr'[t].old = h.old /\ Len(card) > h.old
      /\ Len(card) > h.old => thr'[t] # Idle /\ thr'[t].pc = "tail"
      /\ \A u \in Threads : u # t => thr'[u] = thr[u]
  BY <1>1, <1>3, ContinuePairs
<1>5. /\ IF InTransaction(ProcOf[t]) THEN db' = db ELSE draft = db /\ db' = draft'
      /\ owner = NoOne => draft = db /\ db' = draft'
      /\ draft' = [draft EXCEPT !.rows[c] = card]
  BY <1>1, WritesDraft
<1> HIDE DEF card
<1>6. /\ \A d \in Cases : draft'.rows[d] = IF d = c THEN card ELSE draft.rows[d]
      /\ draft'.ledger = draft.ledger
  BY <1>1, <1>3, <1>5 DEF TypeOK, Store
<1> HIDE DEF c
<1>7. h.req \in Range(card)
  BY <1>2, <1>3 DEF CardInv, card
<1>8. Orderly(c) /\ SavedBy(ProcOf[t], c) =>
        IF Len(card) > h.old THEN card = Append(Lines(draft.ledger[c]), h.req)
        ELSE card = Lines(draft.ledger[c])
  <2>1. SUFFICES ASSUME Orderly(c), SavedBy(ProcOf[t], c)
                 PROVE  IF Len(card) > h.old THEN card = Append(Lines(draft.ledger[c]), h.req)
                        ELSE card = Lines(draft.ledger[c])
    OBVIOUS
  <2>2. draft.rows[c] = Lines(draft.ledger[c]) /\ h.old = Len(draft.rows[c])
    BY <1>1, <1>2, <2>1 DEF JournalInv, c
  <2>3. card = draft.rows[c] \/ card = Append(draft.rows[c], h.req)
    BY <1>2, <1>3, <2>1 DEF JournalInv, card
  <2>4. draft.rows[c] \in Seq(Requests)
    BY <1>1, <1>3, RowsTyped
  <2>5. Len(Append(draft.rows[c], h.req)) = Len(draft.rows[c]) + 1 /\ Len(draft.rows[c]) \in Nat
    <3>1. \A s \in Seq(Requests), r \in Requests : Len(Append(s, r)) = Len(s) + 1 /\ Len(s) \in Nat
      OBVIOUS
    <3>2. QED
      BY <1>3, <2>4, <3>1
  <2>6. QED
    BY <2>2, <2>3, <2>5
<1>9. ASSUME thr'[t] # Idle PROVE JournalInv(t)'
  <2> DEFINE g == thr'[t]
  <2>1. /\ g.req = h.req /\ g.hand = h.hand /\ g.pc \in {"tail", "save", "commit"}
        /\ g.pc = "tail" => g.n = h.n /\ g.old = h.old /\ Len(card) > h.old /\ At(g) = c
    BY <1>4, <1>9 DEF At, c
  <2> HIDE DEF g
  <2>2. ASSUME NEW i \in 1 .. Len(Touches[h.req]), Orderly(Touches[h.req][i]),
               SavedBy(ProcOf[t], Touches[h.req][i]), i \in DOMAIN h.hand
        PROVE  LET d == Touches[h.req][i] IN
               h.hand[i] = IF h.req \in Range(draft'.rows[d]) THEN draft'.rows[d]
                           ELSE Append(draft'.rows[d], h.req)
    <3>1. \A j \in {i, h.n} : Orderly(Touches[h.req][j]) /\ SavedBy(ProcOf[t], Touches[h.req][j]) =>
             h.hand[j] = IF h.req \in Range(draft.rows[Touches[h.req][j]])
                         THEN draft.rows[Touches[h.req][j]]
                         ELSE Append(draft.rows[Touches[h.req][j]], h.req)
      BY <1>2, <1>3, <2>2 DEF JournalInv
    <3>2. Touches[h.req][i] \in Cases
      BY <1>3, TouchesTyped
    <3>3. CASE Touches[h.req][i] = c
      BY <1>3, <1>6, <1>7, <2>2, <3>1, <3>3 DEF card
    <3>4. CASE Touches[h.req][i] # c
      BY <1>6, <2>2, <3>1, <3>2, <3>4
    <3>5. QED
      BY <3>3, <3>4
  <2>3. ASSUME g.pc = "tail", Orderly(c), SavedBy(ProcOf[t], c)
        PROVE  /\ draft'.rows[c] = card /\ h.old = Len(draft'.ledger[c])
               /\ card = Append(Lines(draft'.ledger[c]), h.req)
    <3>1. draft.rows[c] = Lines(draft.ledger[c]) /\ h.old = Len(draft.rows[c])
      BY <1>1, <1>2, <2>3 DEF JournalInv, c
    <3>2. Len(Lines(draft.ledger[c])) = Len(draft.ledger[c])
      BY <1>1, <1>3, LedgersTyped, LinesTyped
    <3>3. QED
      BY <1>3, <1>6, <1>8, <2>1, <2>3, <3>1, <3>2
  <2>4. \A d : Orderly(d)' <=> Orderly(d)
    BY <1>1 DEF Orderly
  <2>5. g.pc = "tail" => g.hand[g.n] = card
    BY <2>1 DEF card
  <2>6. QED
    BY <2>1, <2>2, <2>3, <2>4, <2>5 DEF JournalInv, Saving, SavedBy, g
<1>10. Orderly(c) /\ SavedBy(ProcOf[t], c) /\ ~(thr'[t] # Idle /\ thr'[t].pc \in Saving)
         => draft'.rows[c] = Lines(draft'.ledger[c])
  BY <1>3, <1>4, <1>6, <1>8 DEF Saving
<1>11. thr'[t] # Idle /\ thr'[t].pc \in Saving => At(thr'[t]) = c
  BY <1>4 DEF At, Saving, c
<1>12. QED
  BY <1>1, <1>2, <1>4, <1>5, <1>6, <1>9, <1>10, <1>11, SavedLogs DEF c

LEMMA InsertLogs ==
  ASSUME IInv, PairInv, LogInv, faulted = {}, NEW t \in Threads, Insert(t)
  PROVE  LogInv'
<1> DEFINE h == thr[t]
           c == At(h)
           card == h.hand[h.n]
           entry == [line |-> card[h.old + 1], prev |-> h.tail]
<1>1. /\ TypeOK /\ ThreadInv(t) /\ h.pc = "insert" /\ CanWrite(t) /\ UNCHANGED <<owner, raced>>
      /\ Continue(t, h.old + 1)
      /\ Write(t, [View(ProcOf[t]) EXCEPT !.ledger[c] = Append(@, entry)])
  BY DEF IInv, Insert
<1>2. h # Idle /\ HandInv(t) /\ JournalInv(t) /\ h.pc \in Saving
  BY <1>1 DEF Idle, ThreadInv, LogInv, Saving
<1>3. /\ h.req \in Requests /\ c \in Cases /\ card \in Seq(Requests) /\ h.old \in Nat
      /\ h.old + 1 \in Nat /\ h.old + 1 \in 1 .. Len(card) /\ h.tail \in Seq(Requests)
      /\ c = Touches[h.req][h.n]
  <2>1. /\ h.req \in Requests /\ c \in Cases /\ card \in Seq(Requests) /\ h.old \in Nat
        /\ h.tail \in Seq(Requests)
    BY <1>1, <1>2, AtTyped
  <2>2. h.old < Len(card)
    BY <1>1, <1>2 DEF HandInv
  <2> HIDE DEF card
  <2>3. QED
    BY <2>1, <2>2 DEF At
<1>4. /\ thr'[t] # Idle =>
           /\ thr'[t].req = h.req /\ thr'[t].hand = h.hand
           /\ \/ thr'[t].pc = "tail" /\ thr'[t].n = h.n
              \/ thr'[t].pc \in {"save", "commit"}
           /\ thr'[t].pc = "tail" => Len(card) > h.old + 1
      /\ Len(card) > h.old + 1 => thr'[t] # Idle /\ thr'[t].pc = "tail"
      /\ \A u \in Threads : u # t => thr'[u] = thr[u]
  BY <1>1, <1>3, ContinuePairs
<1>5. /\ IF InTransaction(ProcOf[t]) THEN db' = db ELSE draft = db /\ db' = draft'
      /\ owner = NoOne => draft = db /\ db' = draft'
      /\ draft' = [draft EXCEPT !.ledger[c] = Append(@, entry)]
  <2>1. View(ProcOf[t]) = draft
    BY <1>1 DEF View, CanWrite, InTransaction, TypeOK
  <2>2. QED
    BY <1>1, <2>1, WritesDraft
<1>6. entry \in Entry /\ entry.line = card[h.old + 1]
  BY <1>3 DEF Entry
<1> HIDE DEF card, entry
<1>7. /\ draft'.ledger[c] = Append(draft.ledger[c], entry)
      /\ \A d \in Cases : d # c => draft'.ledger[d] = draft.ledger[d]
      /\ draft'.rows = draft.rows
  BY <1>1, <1>3, <1>5 DEF TypeOK, Store
<1> HIDE DEF c
<1>8. Orderly(c) /\ SavedBy(ProcOf[t], c) =>
        draft.rows[c] = Lines(draft'.ledger[c]) /\ Len(card) = h.old + 1
  <2>1. SUFFICES ASSUME Orderly(c), SavedBy(ProcOf[t], c)
                 PROVE  draft.rows[c] = Lines(draft'.ledger[c]) /\ Len(card) = h.old + 1
    OBVIOUS
  <2>2. /\ draft.rows[c] = card /\ h.old = Len(draft.ledger[c])
        /\ card = Append(Lines(draft.ledger[c]), h.req)
    BY <1>1, <1>2, <2>1 DEF JournalInv, c, card
  <2>3. /\ Lines(draft.ledger[c]) \in Seq(Requests)
        /\ Len(Lines(draft.ledger[c])) = Len(draft.ledger[c])
        /\ Lines(draft'.ledger[c]) = Append(Lines(draft.ledger[c]), entry.line)
    BY <1>1, <1>3, <1>6, <1>7, LedgersTyped, LinesTyped
  <2>4. \A s \in Seq(Requests), r \in Requests :
           Len(Append(s, r)) = Len(s) + 1 /\ Append(s, r)[Len(s) + 1] = r
    OBVIOUS
  <2>5. entry.line = h.req
    <3>1. Append(Lines(draft.ledger[c]), h.req)[Len(Lines(draft.ledger[c])) + 1] = h.req
      BY <1>3, <2>3, <2>4
    <3>2. QED
      BY <1>6, <2>2, <2>3, <3>1
  <2>6. QED
    BY <1>3, <2>2, <2>3, <2>4, <2>5
<1>9. ASSUME thr'[t] # Idle PROVE JournalInv(t)'
  <2> DEFINE g == thr'[t]
  <2>1. /\ g.req = h.req /\ g.hand = h.hand /\ g.pc \in {"tail", "save", "commit"}
        /\ g.pc = "tail" => Len(card) > h.old + 1 /\ At(g) = c
    BY <1>4, <1>9 DEF At, c
  <2> HIDE DEF g
  <2>2. \A i \in 1 .. Len(Touches[h.req]) :
          Orderly(Touches[h.req][i]) /\ SavedBy(ProcOf[t], Touches[h.req][i]) =>
            (i \in DOMAIN h.hand =>
               h.hand[i] = IF h.req \in Range(draft'.rows[Touches[h.req][i]])
                           THEN draft'.rows[Touches[h.req][i]]
                           ELSE Append(draft'.rows[Touches[h.req][i]], h.req))
    BY <1>2, <1>7 DEF JournalInv
  <2>3. g.pc = "tail" => ~(Orderly(c) /\ SavedBy(ProcOf[t], c))
    BY <1>3, <1>8, <2>1
  <2>4. \A d : Orderly(d)' <=> Orderly(d)
    BY <1>1 DEF Orderly
  <2>5. QED
    BY <2>1, <2>2, <2>3, <2>4 DEF JournalInv, Saving, SavedBy, g
<1>10. Orderly(c) /\ SavedBy(ProcOf[t], c) /\ ~(thr'[t] # Idle /\ thr'[t].pc \in Saving)
         => draft'.rows[c] = Lines(draft'.ledger[c])
  BY <1>7, <1>8
<1>11. thr'[t] # Idle /\ thr'[t].pc \in Saving => At(thr'[t]) = c
  BY <1>4 DEF At, Saving, c
<1>12. QED
  BY <1>1, <1>2, <1>4, <1>5, <1>7, <1>9, <1>10, <1>11, SavedLogs DEF c

LEMMA InitLogs == Init => LogInv
<1>1. SUFFICES ASSUME Init PROVE LogInv
  OBVIOUS
<1>2. /\ \A c \in Cases : db.rows[c] = <<>> /\ db.ledger[c] = <<>>
      /\ draft = db /\ \A t \in Threads : thr[t] = Idle /\ thr[t].pc \notin Saving
  <2>1. db = [rows |-> [c \in Cases |-> <<>>], ledger |-> [c \in Cases |-> <<>>]] /\ draft = db
    BY <1>1 DEF Init
  <2>2. \A t \in Threads : thr[t] = Idle /\ thr[t].pc \notin Saving
    BY <1>1 DEF Init, Idle, Saving
  <2>3. QED
    BY <2>1, <2>2
<1>3. Lines(<<>>) = <<>>
  BY DEF Lines
<1>4. QED
  BY <1>2, <1>3 DEF LogInv, BeingSaved

LEMMA NextLogs == IInv /\ PairInv /\ LogInv /\ [Next]_vars => LogInv'
<1>1. SUFFICES ASSUME IInv, PairInv, LogInv, [Next]_vars, faulted' = {} PROVE LogInv'
  BY DEF LogInv
<1>2. ASSUME NEW t \in Threads, NEW r \in Requests, Start(t, r) PROVE LogInv'
  BY <1>1, <1>2, StartLogs DEF Start
<1>3. ASSUME NEW t \in Threads, Proceed(t) PROVE LogInv'
  <2>1. faulted = {}
    BY <1>1, <1>3 DEF Proceed, ReadCard, Begin, NestedBegin, Commit, Rollback, ReadExisting,
                      Upsert, ReadTail, Insert
  <2>2. CASE ReadCard(t)
    BY <1>1, <2>1, <2>2, ReadCardLogs
  <2>3. CASE Begin(t)
    BY <1>1, <2>1, <2>3, BeginLogs
  <2>4. CASE NestedBegin(t)
    BY <1>1, <2>1, <2>4, NestedBeginLogs
  <2>5. CASE Commit(t)
    BY <1>1, <2>1, <2>5, CommitLogs
  <2>6. CASE Rollback(t)
    BY <1>1, <2>1, <2>6 DEF Rollback, LogInv, JournalInv, Idle
  <2>7. CASE ReadExisting(t)
    BY <1>1, <2>1, <2>7, ReadExistingLogs
  <2>8. CASE Upsert(t)
    BY <1>1, <2>1, <2>8, UpsertLogs
  <2>9. CASE ReadTail(t)
    BY <1>1, <2>1, <2>9, ReadTailLogs
  <2>10. CASE Insert(t)
    BY <1>1, <2>1, <2>10, InsertLogs
  <2>11. QED
    BY <1>3, <2>2, <2>3, <2>4, <2>5, <2>6, <2>7, <2>8, <2>9, <2>10 DEF Proceed
<1>4. ASSUME NEW t \in Threads, TimedOut(t) \/ Failed(t) PROVE LogInv'
  BY <1>1, <1>4 DEF TimedOut, Failed
<1>5. ASSUME NEW p \in Procs, Died(p) PROVE LogInv'
  BY <1>1, <1>5 DEF Died
<1>6. CASE UNCHANGED vars
  <2>1. UNCHANGED <<db, draft, owner, thr, raced, faulted>>
    BY <1>6 DEF vars
  <2>2. /\ \A t : JournalInv(t)' <=> JournalInv(t)
        /\ \A c : (BeingSaved(c)' <=> BeingSaved(c)) /\ (Orderly(c)' <=> Orderly(c))
        /\ \A p, c : SavedBy(p, c)' <=> SavedBy(p, c)
        /\ \A p : InTransaction(p)' <=> InTransaction(p)
    BY <2>1 DEF JournalInv, BeingSaved, Orderly, SavedBy, InTransaction, At
  <2>3. QED
    BY <1>1, <2>1, <2>2 DEF LogInv
<1>7. QED
  BY <1>1, <1>2, <1>3, <1>4, <1>5, <1>6 DEF Next

(* As long as nothing fails, the journal of a case that one process saves and *)
(* that is changed by one request at a time repeats its log, line for line,   *)
(* whenever no save of it is under way: with any number of processes and       *)
(* threads, and saves that join the transaction of another thread.           *)
THEOREM JournalRepeatsLog == Spec => []JournalMatchesLog
<1>1. LogInv => JournalMatchesLog
  BY DEF LogInv, JournalMatchesLog
<1>2. QED
  BY <1>1, Inductive, InitPairs, NextPairs, InitLogs, NextLogs, PTL DEF Spec
=============================================================================
