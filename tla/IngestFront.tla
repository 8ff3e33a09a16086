----------------------------- MODULE IngestFront -----------------------------
(* The way of a request with events through the API: the Idempotency-Key is  *)
(* looked up, each event is assessed, stored with the registry of entities   *)
(* and the window of recent events, counted towards the next assembly        *)
(* (incident_assembly.mode: on_ingest), and the answer is recorded under the *)
(* key.  POST /events and /events/batch are served by the event loop, one    *)
(* after the other, because nothing is awaited in between; the routes of the *)
(* integrations take no key and run on threads of the pool.                  *)
EXTENDS Integers, SequencesExt, FiniteSetsExt

CONSTANTS
  IdemKeys,      \* idempotency keys that clients use
  NoKey,         \* a request without one
  Bodies,        \* sequences of events: [id, who, hour, hit]
  PoolThreads,   \* threads of the pool that ingest
  Ids, Who,      \* ids of events, entities (hosts, users, processes)
  Hours,         \* hours of observation
  Ttl,           \* lifetime of a recorded answer
  RecentMax,     \* events the window keeps; none is kept if 0
  HitsBetween,   \* incident_assembly.hits_between_runs
  MaxClock, MaxSends, MaxTroubles  \* bounds: time, requests, deaths and failures

Loop == "loop"
Lanes == {Loop} \cup PoolThreads

ASSUME IngestFrontAssumption ==
  /\ NoKey \notin IdemKeys /\ Loop \notin PoolThreads
  /\ IsFiniteSet(PoolThreads) /\ IsFiniteSet(Hours)
  /\ {Ttl, RecentMax, MaxClock, MaxSends, MaxTroubles} \subseteq Nat /\ HitsBetween \in Int
  /\ \A body \in Bodies :
       body \in Seq([id : Ids, who : Seq(Who), hour : Hours, hit : BOOLEAN]) /\ body # <<>>

VARIABLES
  clock,     \* time, in units of the lifetime of keys
  answers,   \* table idempotency_keys: [IdemKeys -> row or NoRow]
  db,        \* tables events, entity_registry, entity_activity, recent_events
  pending,   \* hits counted since the last run of the assembly, in memory
  lane,      \* [Lanes -> the request that is being served]
  runs,      \* history: the requests processed, in their order
  answer,    \* history: the last answer that was sent from a recorded one
  unseen,    \* history: hits whose event no run of the assembly has looked at
  failed,    \* history: a run of the assembly has failed
  troubles   \* deaths and failures so far

frontVars == <<clock, answers, db, pending, lane, runs, answer, unseen, failed, troubles>>

NoRow == [body |-> <<>>]
NoEvent == [who |-> <<>>]
Idle == [at |-> "idle"]

(* ---- the event store: one statement after the other, each commits -------- *)
Statements(event) ==
  LET about(i) == [do |-> IF i % 2 = 1 THEN "registry" ELSE "activity",
                   who |-> event.who[(i + 1) \div 2], event |-> event]
      other(do) == [do |-> do, who |-> "", event |-> event]
  IN <<other("event")>> \o [i \in 1..2 * Len(event.who) |-> about(i)]
       \o IF RecentMax = 0 THEN <<>> ELSE <<other("recent"), other("trim")>>

Executed(tables, s) ==
  CASE s.do = "event" -> [tables EXCEPT !.rows[s.event.id] = s.event]
    [] s.do = "registry" -> [tables EXCEPT !.count[s.who] = @ + 1]
    [] s.do = "activity" -> [tables EXCEPT !.activity[s.who][s.event.hour] = @ + 1]
    [] s.do = "recent" -> [tables EXCEPT !.recent = Append(@, s.event.id)]
    [] s.do = "trim" -> [tables EXCEPT !.recent = SubSeq(@, Max({1, Len(@) - RecentMax + 1}), Len(@))]

(* The first n statements of add_recent_event; the lock of the store is held *)
(* over all of them, but a transaction is not.                               *)
Persisted(tables, event, n) == FoldLeft(Executed, tables, SubSeq(Statements(event), 1, n))

(* What the card of an entity says of it.                                    *)
Typicality(tables, who) ==
  LET hours == {h \in Hours : tables.activity[who][h] > 0}
  IN CASE tables.count[who] = 1 -> "first_seen"
       [] tables.count[who] < 3 -> "rare"
       [] Cardinality(hours) <= 1 -> "burst"
       [] OTHER -> "typical"

(* ---- the key ------------------------------------------------------------- *)
(* Mutated form: the row expires one moment too early.                       *)
ValidBefore(key) == answers[key] # NoRow /\ clock < answers[key].until

Valid(key) == answers[key] # NoRow /\ clock <= answers[key].until

(* Expired rows are deleted by every request with a key.                     *)
Unexpired == [k \in IdemKeys |-> IF Valid(k) THEN answers[k] ELSE NoRow]

(* A request is taken up: its recorded answer is sent, it is refused because *)
(* its key was used for another body (409), or its processing begins.        *)
Take(l, key, body) ==
  /\ lane[l] = Idle /\ Len(runs) < MaxSends
  /\ l # Loop => key = NoKey
  /\ answers' = IF key = NoKey THEN answers ELSE Unexpired
  /\ IF key # NoKey /\ Valid(key)
     THEN /\ answer' = IF answers[key].body = body
                       THEN [key |-> key, body |-> body, of |-> answers[key].of] ELSE answer
          /\ UNCHANGED <<lane, runs>>
     ELSE /\ runs' = Append(runs, [key |-> key, body |-> body, from |-> clock, recorded |-> -1])
          /\ lane' = [lane EXCEPT ![l] = [at |-> "assess", run |-> Len(runs) + 1, i |-> 1]]
          /\ UNCHANGED answer
  /\ UNCHANGED <<clock, db, pending, unseen, failed, troubles>>

EventOf(l) == runs[lane[l].run].body[lane[l].i]

(* The case of the event is saved (EventProcessing has it in detail).        *)
AssessEvent(l) ==
  /\ lane[l].at = "assess"
  /\ lane' = [lane EXCEPT ![l].at = "store"]
  /\ UNCHANGED <<clock, answers, db, pending, runs, answer, unseen, failed, troubles>>

StoreEvent(l) ==
  /\ lane[l].at = "store"
  /\ db' = Persisted(db, EventOf(l), Len(Statements(EventOf(l))))
  /\ unseen' = IF EventOf(l).hit THEN unseen + 1 ELSE unseen
  /\ lane' = [lane EXCEPT ![l].at = "after"]
  /\ UNCHANGED <<clock, answers, pending, runs, answer, failed, troubles>>

(* Mutated form: the threshold itself is still waited for.                   *)
ReachedLate(n) == n > Max({1, HitsBetween})

Reached(n) == n >= Max({1, HitsBetween})

(* after_ingest: the counter is set back before the run, whose failure is    *)
(* reported and forgotten; then the next event of the body, or the answer.   *)
AfterIngest(l, ok) ==
  /\ lane[l].at = "after"
  /\ LET counts  == EventOf(l).hit
         reached == counts /\ Reached(pending + 1)
     IN /\ ok \/ reached
        /\ pending' = IF reached THEN 0 ELSE IF counts THEN pending + 1 ELSE pending
        /\ unseen' = IF reached /\ ok THEN 0 ELSE unseen
        /\ failed' = IF reached THEN ~ok ELSE failed
  /\ lane' = [lane EXCEPT ![l] = IF lane[l].i < Len(runs[lane[l].run].body)
                                 THEN [lane[l] EXCEPT !.i = lane[l].i + 1, !.at = "assess"]
                                 ELSE [lane[l] EXCEPT !.at = "answer"]]
  /\ UNCHANGED <<clock, answers, db, runs, answer, troubles>>

(* The answer is recorded, and sent.                                         *)
RecordSuccess(l) ==
  /\ lane[l].at = "answer"
  /\ LET run == runs[lane[l].run]
     IN IF run.key = NoKey THEN UNCHANGED <<answers, runs>>
        ELSE /\ answers' = [answers EXCEPT ![run.key] =
                              [body |-> run.body, of |-> lane[l].run, until |-> clock + Ttl]]
             /\ runs' = [runs EXCEPT ![lane[l].run].recorded = clock]
  /\ lane' = [lane EXCEPT ![l] = Idle]
  /\ UNCHANGED <<clock, db, pending, answer, unseen, failed, troubles>>

(* An exception on the way (500), in the middle of the statements as well:   *)
(* nothing is recorded under the key.                                        *)
Fail(l, n) ==
  /\ lane[l].at \in {"assess", "store"} /\ troubles < MaxTroubles
  /\ n < Len(Statements(EventOf(l))) /\ (lane[l].at = "assess" => n = 0)
  /\ db' = Persisted(db, EventOf(l), n)
  /\ lane' = [lane EXCEPT ![l] = Idle]
  /\ troubles' = troubles + 1
  /\ UNCHANGED <<clock, answers, pending, runs, answer, unseen, failed>>

(* The process dies; one lane may be among the statements of the store.      *)
Crash(l, n) ==
  /\ troubles < MaxTroubles
  /\ IF lane[l].at = "store" THEN n < Len(Statements(EventOf(l))) ELSE n = 0
  /\ db' = IF lane[l].at = "store" THEN Persisted(db, EventOf(l), n) ELSE db
  /\ lane' = [m \in Lanes |-> Idle]
  /\ pending' = 0
  /\ failed' = (failed \/ unseen > 0)
  /\ troubles' = troubles + 1
  /\ UNCHANGED <<clock, answers, runs, answer, unseen>>

Tick ==
  /\ clock < MaxClock
  /\ clock' = clock + 1
  /\ UNCHANGED <<answers, db, pending, lane, runs, answer, unseen, failed, troubles>>

FrontInit ==
  /\ clock = 0 /\ pending = 0 /\ unseen = 0 /\ troubles = 0 /\ failed = FALSE
  /\ answers = [k \in IdemKeys |-> NoRow]
  /\ db = [rows |-> [e \in Ids |-> NoEvent], count |-> [w \in Who |-> 0],
           activity |-> [w \in Who |-> [h \in Hours |-> 0]], recent |-> <<>>]
  /\ lane = [l \in Lanes |-> Idle]
  /\ runs = <<>>
  /\ answer = [key |-> NoKey]

FrontNext ==
  \/ \E l \in Lanes, key \in IdemKeys \cup {NoKey}, body \in Bodies : Take(l, key, body)
  \/ \E l \in Lanes : AssessEvent(l) \/ StoreEvent(l) \/ RecordSuccess(l)
  \/ \E l \in Lanes, ok \in BOOLEAN : AfterIngest(l, ok)
  \/ \E l \in Lanes, n \in 0..8 : Fail(l, n) \/ Crash(l, n)
  \/ Tick

FrontSpec == FrontInit /\ [][FrontNext]_frontVars

-----------------------------------------------------------------------------
FrontTypeOK ==
  /\ clock \in 0..MaxClock /\ troubles \in 0..MaxTroubles /\ Len(runs) <= MaxSends
  /\ \A l \in Lanes : lane[l].at \in {"idle", "assess", "store", "after", "answer"}
  /\ Range(db.recent) \subseteq Ids

(* Between the recording of an answer and its expiry no request with that    *)
(* key is processed; what is sent instead is the answer to this very body.   *)
(* A request whose processing failed or died before the record is processed  *)
(* again: the code promises once per answer, not once per event.             *)
OncePerKey ==
  /\ \A i, j \in DOMAIN runs :
       i < j /\ runs[i].key = runs[j].key /\ runs[i].key # NoKey /\ runs[i].recorded >= 0
         => runs[j].from > runs[i].recorded + Ttl
  /\ answer.key # NoKey => /\ runs[answer.of].key = answer.key /\ runs[answer.of].body = answer.body
                           /\ runs[answer.of].recorded >= 0

RowsAbout(who) == {e \in Ids : \E i \in DOMAIN db.rows[e].who : db.rows[e].who[i] = who}

(* The counters of an entity add up: with every death or failure at most one *)
(* count is lost; without any, an entity that is shown as seen once has at   *)
(* most one event, and the hours sum up to the count.  The window never      *)
(* names an event that is not stored, and each trouble makes it too long by  *)
(* one id at most.                                                           *)
RegistryAddsUp ==
  /\ \A w \in Who :
       LET hours == MapThenSumSet(LAMBDA h : db.activity[w][h], Hours)
       IN /\ Cardinality(RowsAbout(w)) - troubles <= db.count[w]
          /\ hours <= db.count[w] /\ db.count[w] <= hours + troubles
          /\ troubles = 0 /\ Typicality(db, w) = "first_seen" => Cardinality(RowsAbout(w)) <= 1
  /\ \A i \in DOMAIN db.recent : db.rows[db.recent[i]] # NoEvent
  /\ Len(db.recent) <= RecentMax + troubles

(* The events whose request is between storing and counting.                 *)
Between == {l \in Lanes : lane[l].at = "after" /\ EventOf(l).hit}

(* Fewer hits than a run needs are waiting, besides those whose request is   *)
(* just between storing and counting, unless a run failed or the process     *)
(* died: then nothing owes their assembly until the next hits are enough.    *)
FewHitsWait ==
  ~failed => unseen < Max({1, HitsBetween}) + Cardinality(Between)

-----------------------------------------------------------------------------
(* Why OncePerKey and FewHitsWait hold, and the types: the inductive         *)
(* invariants.                                                               *)

Request == [key : IdemKeys \cup {NoKey}, body : Bodies, from : Nat, recorded : Int]
Answer  == [body : Bodies, of : Nat, until : Int]
Flight  == [at : {"assess", "store", "after", "answer"}, run : Nat, i : Nat]

FlightsFit ==
  /\ clock \in Nat /\ runs \in Seq(Request) /\ lane \in [Lanes -> Flight \cup {Idle}]
  /\ \A l \in Lanes : lane[l] # Idle => lane[l].run \in DOMAIN runs

(* Only the event loop serves keys, one request after the other: since it    *)
(* began the one it serves, none with a key has begun.                       *)
LoopIsSerial ==
  /\ \A l \in PoolThreads : lane[l] # Idle => runs[lane[l].run].key = NoKey
  /\ lane[Loop] # Idle => \A j \in DOMAIN runs : j > lane[Loop].run => runs[j].key = NoKey

(* A recorded answer is the answer of a run, and it is kept for its lifetime  *)
(* from the last of the runs with its key that were recorded.                *)
AnswersTell ==
  /\ answers \in [IdemKeys -> Answer \cup {NoRow}]
  /\ \A k \in IdemKeys : answers[k] # NoRow =>
       /\ answers[k].of \in DOMAIN runs /\ runs[answers[k].of].recorded >= 0
       /\ runs[answers[k].of].key = k /\ runs[answers[k].of].body = answers[k].body
  /\ \A i \in DOMAIN runs : runs[i].key # NoKey /\ runs[i].recorded >= 0 =>
       /\ runs[i].recorded <= clock
       /\ \/ clock > runs[i].recorded + Ttl
          \/ /\ answers[runs[i].key] # NoRow
             /\ answers[runs[i].key].until >= runs[i].recorded + Ttl
  /\ answer.key # NoKey => answer.of \in DOMAIN runs

KeysInv == FlightsFit /\ LoopIsSerial /\ AnswersTell /\ OncePerKey

(* Every hit no run has looked at is counted or about to be.                 *)
HitsInv ==
  /\ pending \in Nat /\ unseen \in Nat /\ failed \in BOOLEAN
  /\ pending < Max({1, HitsBetween})
  /\ ~failed => unseen <= pending + Cardinality(Between)

(* A lane has an event of its body in hand until it has come to its end, and *)
(* the window names ids.                                                     *)
BodiesInHand ==
  \A l \in Lanes : lane[l].at \in {"assess", "store", "after"} =>
    lane[l].i \in DOMAIN runs[lane[l].run].body

WindowFits == DOMAIN db = {"rows", "count", "activity", "recent"} /\ db.recent \in Seq(Ids)

RangesInv == FrontTypeOK /\ BodiesInHand /\ WindowFits
=============================================================================
