--------------------------- MODULE EventProcessing ---------------------------
(***************************************************************************)
(* An event becomes part of a case (ProcessEventUseCase.execute behind     *)
(* IngestAssessmentFacade): the open cases that share a key with it are     *)
(* looked up one key at a time, the first survives and takes over the       *)
(* others, the absorbed cases are saved before the survivor, and the raw    *)
(* evidence is attached by one more save of the same card.  No lock spans   *)
(* these steps; each lookup and each save holds the lock of the store.      *)
(*                                                                         *)
(* The event loop of the API (POST /events, /events/batch) is one thread,   *)
(* every handler of the thread pool (/integrations/ingest/...) another.     *)
(* Analysts decide on cases meanwhile.  A case is named after the event     *)
(* that opened it.                                                         *)
(*                                                                         *)
(* The index of keys is a set of pairs <<key, case>>: the rows of           *)
(* case_correlation_keys under "sqlite", the dictionary _open_by_fingerprint *)
(* (at most one pair for a key) under "memory".                            *)
(***************************************************************************)
EXTENDS Integers, FiniteSets, Sequences, Functions

CONSTANTS Events,      \* events that may arrive
          Threads,     \* threads of the API that ingest
          KeysOf,      \* KeysOf[e]: correlation keys of e, in their order
          BurstOf,     \* BurstOf[e]: the burst key of e
          BornAt,      \* BornAt[e]: observed_at of e, created_at of its case
          Hitting,     \* events on which an invariant fires
          WithEvidence,\* events that come with a raw payload to keep
          Backends,    \* what storage.backend may be: "sqlite", "memory"
          Targets,     \* statuses that analysts set
          MaxDecisions,\* bound: decisions of analysts
          MaxCrashes   \* bound: deaths of the API process

Keys == UNION {Range(KeysOf[e]) : e \in Events}
BurstKeys == {BurstOf[e] : e \in Events}

ASSUME EventProcessingAssumption ==
  /\ DOMAIN KeysOf = Events /\ \A e \in Events : KeysOf[e] \in Seq(Range(KeysOf[e]))
  /\ DOMAIN BurstOf = Events
  /\ Keys \cap BurstKeys = {}  \* corr:<rule>:<digest> and asset|operation|bucket
  /\ BornAt \in [Events -> Nat]
  /\ Hitting \subseteq Events /\ WithEvidence \subseteq Events
  /\ Backends \subseteq {"sqlite", "memory"}
  /\ Targets \subseteq {"TRIAGE", "CONFIRMED", "FALSE_POSITIVE", "EXPECTED_BEHAVIOR"}
  /\ MaxDecisions \in Nat /\ MaxCrashes \in Nat

OpenStatuses == {"NEW", "TRIAGE"}
Decided == {"CONFIRMED", "FALSE_POSITIVE", "EXPECTED_BEHAVIOR"}
Statuses == {"none", "MERGED"} \cup OpenStatuses \cup Decided

Card == [status : Statuses, events : SUBSET Events, hits : SUBSET Events,
         evidence : SUBSET Events, keys : SUBSET Keys, related : SUBSET Events]

NoCard == [status |-> "none", events |-> {}, hits |-> {}, evidence |-> {},
           keys |-> {}, related |-> {}]

VARIABLES cases,     \* cases[c]: the card of the case that event c opened
          index,     \* pairs <<key, case>>
          hand,      \* hand[t]: what thread t is doing
          done,      \* events whose request has been answered
          decisions, crashes,
          backend    \* storage.backend of the configuration: never changes

vars == <<cases, index, hand, done, decisions, crashes, backend>>

(* pc "find": todo are the keys to look up, found the cards met so far, each *)
(* [id, card]; "save": found[n] is the next absorbed card to save, then the  *)
(* survivor; "attach": found[1] is the saved card, still in memory.          *)
Idle == [pc |-> "idle"]
Busy == [pc : {"find", "save", "attach"}, event : Events, todo : Seq(Keys),
         found : Seq([id : Events, card : Card]), n : Nat]

(* Every variable keeps its type.                                           *)
TypeOK ==
  /\ cases \in [Events -> Card]
  /\ index \subseteq (Keys \cup BurstKeys) \X Events
  /\ hand \in [Threads -> {Idle} \cup Busy]
  /\ done \subseteq Events
  /\ decisions \in 0 .. MaxDecisions
  /\ crashes \in 0 .. MaxCrashes
  /\ backend \in Backends

Stored(c) == cases[c].status # "none"
Open(c) == cases[c].status \in OpenStatuses

(***************************************************************************)
(* The store.                                                              *)
(***************************************************************************)
Newest(found) == {c \in found : \A d \in found : BornAt[d] <= BornAt[c]}

(* The open cases that find_open_by_fingerprints of one key chooses from.   *)
OpenByKey(key) == {c \in Events : <<key, c>> \in index /\ Open(c)}

(* Those of find_open_by_fingerprint: SQLite reads the column of the case,   *)
(* the store in memory its index.                                          *)
OpenByBurst(key) ==
  IF backend = "sqlite" THEN {c \in Events : BurstOf[c] = key /\ Open(c)}
  ELSE OpenByKey(key)

CardKeys(id, card) == card.keys \cup {BurstOf[id]}

(* Mutated form: keys that a stored case gains are not indexed. *)
ReindexNewCases(id, card) ==
  IF Stored(id) THEN index ELSE index \cup (CardKeys(id, card) \X {id})

(* Rows of the difference between the keys of the card and those before.    *)
ReindexDelta(id, card) ==
  LET before == IF Stored(id) THEN CardKeys(id, cases[id]) ELSE {}
      after  == CardKeys(id, card)
  IN  (index \ ((before \ after) \X {id})) \cup ((after \ before) \X {id})

(* One case for a key: an open card takes a key that is free or that an     *)
(* older case holds, a closed card gives up the keys it holds.              *)
ReindexMemory(id, card) ==
  LET own     == CardKeys(id, card)
      open    == card.status \in OpenStatuses
      Newer(key) == \A d \in Events \ {id} : <<key, d>> \in index => BornAt[d] <= BornAt[id]
      taken   == {key \in own : open /\ Newer(key)}
  IN  {p \in index : p[1] \notin own \/ (p[2] # id /\ p[1] \notin taken)} \cup (taken \X {id})

Save(id, card) ==
  /\ cases' = [cases EXCEPT ![id] = card]
  /\ index' = IF backend = "sqlite" THEN ReindexDelta(id, card) ELSE ReindexMemory(id, card)

(***************************************************************************)
(* Processing of one event.                                                *)
(***************************************************************************)
NewCard(e) ==
  [status |-> "NEW", events |-> {e}, hits |-> {e} \cap Hitting, evidence |-> {},
   keys |-> Range(KeysOf[e]), related |-> {}]

(* Mutated form: a status that the store does not know. *)
AbsorbedCardUntyped(card, survivor) ==
  [card EXCEPT !.status = "ABSORBED", !.related = @ \cup {survivor}]

(* Mutated form: the absorbed card does not name the survivor. *)
AbsorbedCardUnlinked(card, survivor) == [card EXCEPT !.status = "MERGED"]

(* Mutated form: the contents move instead of being copied. *)
AbsorbedCardEmptied(card, survivor) ==
  [card EXCEPT !.status = "MERGED", !.related = @ \cup {survivor},
               !.events = {}, !.hits = {}, !.evidence = {}]

(* absorb_correlated_case: what is left of the absorbed card.               *)
AbsorbedCard(card, survivor) ==
  [card EXCEPT !.status = "MERGED", !.related = @ \cup {survivor}]

(* Mutated form: the keys of the absorbed cards stay behind. *)
SurvivorWithoutTheirKeys(e, found) ==
  [found[1].card EXCEPT
     !.events   = {e} \cup UNION {m.card.events : m \in Range(found)},
     !.hits     = ({e} \cap Hitting) \cup UNION {m.card.hits : m \in Range(found)},
     !.evidence = UNION {m.card.evidence : m \in Range(found)},
     !.keys     = @ \cup Range(KeysOf[e]),
     !.related  = @ \cup {found[i].id : i \in 2 .. Len(found)}]

(* Mutated form: the hits of the absorbed cards stay behind. *)
SurvivorWithoutTheirHits(e, found) ==
  [found[1].card EXCEPT
     !.events   = {e} \cup UNION {m.card.events : m \in Range(found)},
     !.hits     = @ \cup ({e} \cap Hitting),
     !.evidence = UNION {m.card.evidence : m \in Range(found)},
     !.keys     = Range(KeysOf[e]) \cup UNION {m.card.keys : m \in Range(found)},
     !.related  = @ \cup {found[i].id : i \in 2 .. Len(found)}]

(* The first card found takes over the event with its keys and hits, and    *)
(* the contents of the other cards.                                        *)
SurvivorCard(e, found) ==
  [found[1].card EXCEPT
     !.events   = {e} \cup UNION {m.card.events : m \in Range(found)},
     !.hits     = ({e} \cap Hitting) \cup UNION {m.card.hits : m \in Range(found)},
     !.evidence = UNION {m.card.evidence : m \in Range(found)},
     !.keys     = Range(KeysOf[e]) \cup UNION {m.card.keys : m \in Range(found)},
     !.related  = @ \cup {found[i].id : i \in 2 .. Len(found)}]

(* A request arrives; one that died before it saved anything may be sent    *)
(* again.                                                                  *)
Receive(t, e) ==
  /\ hand[t] = Idle
  /\ e \notin done /\ \A c \in Events : e \notin cases[c].events
  /\ \A u \in Threads : hand[u] # Idle => hand[u].event # e
  /\ hand' = [hand EXCEPT ![t] = [pc |-> "find", event |-> e, todo |-> KeysOf[e],
                                  found |-> <<>>, n |-> 2]]
  /\ UNCHANGED <<cases, index, done, decisions, crashes>>

(* Mutated form: the card is taken again for every key. *)
MetAgain(found, c) == Append(found, [id |-> c, card |-> cases[c]])

(* found, with the card of c unless it is there already.                    *)
Met(found, c) ==
  IF \E i \in DOMAIN found : found[i].id = c THEN found
  ELSE Append(found, [id |-> c, card |-> cases[c]])

(* One correlation key is looked up.                                        *)
LookUpKey(t) ==
  LET h == hand[t] IN
  /\ h.pc = "find" /\ h.todo # <<>>
  /\ \/ /\ OpenByKey(Head(h.todo)) = {}
        /\ hand' = [hand EXCEPT ![t].todo = Tail(@)]
     \/ \E c \in Newest(OpenByKey(Head(h.todo))) :
          hand' = [hand EXCEPT ![t].todo = Tail(@), ![t].found = Met(@, c)]
  /\ UNCHANGED <<cases, index, done, decisions, crashes>>

(* The burst key comes last.                                                *)
LookUpBurst(t) ==
  LET h == hand[t] IN
  /\ h.pc = "find" /\ h.todo = <<>>
  /\ \/ /\ OpenByBurst(BurstOf[h.event]) = {}
        /\ hand' = [hand EXCEPT ![t].pc = "save"]
     \/ \E c \in Newest(OpenByBurst(BurstOf[h.event])) :
          hand' = [hand EXCEPT ![t].pc = "save", ![t].found = Met(@, c)]
  /\ UNCHANGED <<cases, index, done, decisions, crashes>>

(* Mutated form: the survivor is saved before the cards it absorbs. *)
WrittenSurvivorFirst(h) ==
  IF h.found = <<>> THEN [id |-> h.event, card |-> NewCard(h.event)]
  ELSE IF h.n = 2 THEN [id |-> h.found[1].id, card |-> SurvivorCard(h.event, h.found)]
  ELSE [id   |-> h.found[h.n - 1].id,
        card |-> AbsorbedCard(h.found[h.n - 1].card, h.found[1].id)]

(* What the next save of the thread writes.                                 *)
Written(h) ==
  IF h.found = <<>> THEN [id |-> h.event, card |-> NewCard(h.event)]
  ELSE IF h.n <= Len(h.found)
  THEN [id |-> h.found[h.n].id, card |-> AbsorbedCard(h.found[h.n].card, h.found[1].id)]
  ELSE [id |-> h.found[1].id, card |-> SurvivorCard(h.event, h.found)]

(* The absorbed cards are saved one by one, before the survivor.            *)
SaveAbsorbed(t) ==
  LET h == hand[t] IN
  /\ h.pc = "save" /\ h.n <= Len(h.found)
  /\ Save(Written(h).id, Written(h).card)
  /\ hand' = [hand EXCEPT ![t].n = @ + 1]
  /\ UNCHANGED <<done, decisions, crashes>>

(* The survivor, or the new case, is saved last.                            *)
SaveCase(t) ==
  LET h == hand[t] IN
  /\ h.pc = "save" /\ h.n > Len(h.found)
  /\ Save(Written(h).id, Written(h).card)
  /\ IF h.event \in WithEvidence
     THEN /\ hand' = [hand EXCEPT ![t].pc = "attach", ![t].found = <<Written(h)>>]
          /\ UNCHANGED done
     ELSE /\ hand' = [hand EXCEPT ![t] = Idle]
          /\ done' = done \cup {h.event}
  /\ UNCHANGED <<decisions, crashes>>

Attached(h) == [h.found[1].card EXCEPT !.evidence = @ \cup {h.event}]

(* attach_raw_evidence: the card in memory is saved once more.              *)
AttachRawEvidence(t) ==
  LET h == hand[t] IN
  /\ h.pc = "attach"
  /\ Save(h.found[1].id, Attached(h))
  /\ hand' = [hand EXCEPT ![t] = Idle]
  /\ done' = done \cup {h.event}
  /\ UNCHANGED <<decisions, crashes>>

(***************************************************************************)
(* Analysts and faults.                                                    *)
(***************************************************************************)
AllowedTransitions(status) ==
  CASE status = "NEW"               -> {"TRIAGE"} \cup Decided
    [] status = "TRIAGE"            -> Decided
    [] status = "EXPECTED_BEHAVIOR" -> {"TRIAGE"}
    [] OTHER                        -> {}

(* SubmitCaseDecisionUseCase, as one step.                                  *)
Decide(c) ==
  /\ decisions < MaxDecisions
  /\ \E status \in Targets \cap AllowedTransitions(cases[c].status) :
       Save(c, [cases[c] EXCEPT !.status = status])
  /\ decisions' = decisions + 1
  /\ UNCHANGED <<hand, done, crashes>>

(* The process of the API dies between two statements.                      *)
Died ==
  /\ backend = "sqlite" /\ crashes < MaxCrashes
  /\ \E t \in Threads : hand[t] # Idle
  /\ hand' = [t \in Threads |-> Idle]
  /\ crashes' = crashes + 1
  /\ UNCHANGED <<cases, index, done, decisions>>

(* It dies inside save: the statements of one save commit one by one, the   *)
(* card first, so that some keys of the card may be missing in the index.   *)
DiedInSave(t) ==
  LET h == hand[t] IN
  /\ backend = "sqlite" /\ crashes < MaxCrashes
  /\ h.pc = "save"
  /\ cases' = [cases EXCEPT ![Written(h).id] = Written(h).card]
  /\ \E rows \in SUBSET (ReindexDelta(Written(h).id, Written(h).card) \ index) :
       index' = index \cup rows
  /\ hand' = [u \in Threads |-> Idle]
  /\ crashes' = crashes + 1
  /\ UNCHANGED <<done, decisions>>

Init ==
  /\ cases = [c \in Events |-> NoCard]
  /\ index = {}
  /\ hand = [t \in Threads |-> Idle]
  /\ done = {}
  /\ decisions = 0 /\ crashes = 0
  /\ backend \in Backends

Process(t) ==
  \/ \E e \in Events : Receive(t, e)
  \/ LookUpKey(t) \/ LookUpBurst(t)
  \/ SaveAbsorbed(t) \/ SaveCase(t) \/ AttachRawEvidence(t)

Next ==
  /\ \/ \E t \in Threads : Process(t) \/ DiedInSave(t)
     \/ \E c \in Events : Decide(c)
     \/ Died
  /\ UNCHANGED backend

Spec == Init /\ [][Next]_vars

(***************************************************************************)
(* Properties.                                                             *)
(***************************************************************************)
Bears(card, e) ==
  /\ e \in card.events
  /\ e \in Hitting => e \in card.hits
  /\ e \in WithEvidence => e \in card.evidence

(* What thread t is about to save last.                                     *)
InHand(t, e) ==
  /\ hand[t] # Idle /\ hand[t].pc = "save" /\ hand[t].found # <<>>
  /\ Bears(SurvivorCard(hand[t].event, hand[t].found), e)

(* No event, hit or evidence of an answered request is lost while the        *)
(* process lives: a case that was not absorbed bears it, or a thread is      *)
(* about to save one that does.                                            *)
EventsHeld ==
  crashes = 0 =>
    \A e \in done : \/ \E c \in Events : cases[c].status # "MERGED" /\ Bears(cases[c], e)
                    \/ \E t \in Threads : InHand(t, e)

(* Whatever dies when: what an answered request brought is in the store, be  *)
(* it in an absorbed card.                                                 *)
AnsweredIsKept ==
  \A e \in done : \E c \in Events : Bears(cases[c], e)

(* The absorbed case c names the case that took it over.                     *)
Traced(c) ==
  \E d \in cases[c].related : /\ cases[c].events \subseteq cases[d].events
                             /\ c \in cases[d].related

(* Once no request is under way, and none has died, an absorbed case names   *)
(* a case that holds all it held: the composition can be traced.            *)
MergedIsTraceable ==
  crashes = 0 /\ (\A t \in Threads : hand[t] = Idle) =>
     \A c \in Events : cases[c].status = "MERGED" => Traced(c)

(* Two open cases have no correlation key in common: events that share a    *)
(* key, directly or through others, are in one case.                        *)
OneOpenCaseForKey ==
  crashes = 0 =>
    \A c, d \in Events : Open(c) /\ Open(d) /\ c # d =>
       \A e \in cases[c].events, f \in cases[d].events :
          Range(KeysOf[e]) \cap Range(KeysOf[f]) = {}

(***************************************************************************)
(* Why OneOpenCaseForKey and OpenCaseIsFound hold for one thread that        *)
(* ingests, as long as nothing has died and no final decision is taken back:  *)
(* the inductive invariant of that case.                                    *)
(***************************************************************************)
Alone == \A t, u \in Threads : t = u

Serial == Alone /\ "EXPECTED_BEHAVIOR" \notin Targets

Undisturbed == crashes = 0

(* The index of SQLite holds the keys of the stored cards and nothing else,   *)
(* that of the store in memory the correlation keys of the open cards.       *)
IndexExact ==
  \A c \in Events :
     IF backend = "sqlite"
     THEN \A key \in Keys \cup BurstKeys :
            <<key, c>> \in index <=> (Stored(c) /\ key \in CardKeys(c, cases[c]))
     ELSE \A key \in Keys : <<key, c>> \in index <=> (Open(c) /\ key \in cases[c].keys)

(* A case is found by all its events, the one it is named after included.   *)
KeysCovered ==
  \A c \in Events : /\ Stored(c) => c \in cases[c].events
                    /\ \A e \in cases[c].events : Range(KeysOf[e]) \subseteq cases[c].keys

NoKeyShared ==
  \A c, d \in Events : Open(c) /\ Open(d) /\ c # d => cases[c].keys \cap cases[d].keys = {}

(* A card in the hand of t has gone stale in its status only, and no other   *)
(* open case shares a key with it.                                         *)
FoundIsCurrent(t) ==
  \A i \in DOMAIN hand[t].found :
     LET m == hand[t].found[i] IN
     /\ m.card.keys = cases[m.id].keys /\ m.card.events = cases[m.id].events
     /\ m.card.status \in OpenStatuses /\ Stored(m.id)
     /\ \A c \in Events : Open(c) /\ cases[c].keys \cap m.card.keys # {} => c = m.id

(* Every open case with a key looked up so far has been found.               *)
FoundIsComplete(t) ==
  \A key \in Range(KeysOf[hand[t].event]) \ Range(hand[t].todo), c \in Events :
     Open(c) /\ key \in cases[c].keys => \E i \in DOMAIN hand[t].found : hand[t].found[i].id = c

FoundOnce(t) ==
  \A i, j \in DOMAIN hand[t].found : hand[t].found[i].id = hand[t].found[j].id => i = j

HandInv(t) ==
  /\ FoundIsCurrent(t)
  /\ hand[t].pc = "attach" => Len(hand[t].found) = 1
  /\ hand[t].pc \in {"find", "save"} =>
       /\ FoundIsComplete(t) /\ FoundOnce(t)
       /\ ~Stored(hand[t].event)
       /\ hand[t].n >= 2 /\ (hand[t].pc = "find" => hand[t].n = 2)
  /\ hand[t].pc = "save" =>
       /\ hand[t].todo = <<>>
       /\ \A i \in 2 .. (hand[t].n - 1) :
            i \in DOMAIN hand[t].found => cases[hand[t].found[i].id].status = "MERGED"

(* The inductive invariant.                                                *)
SerialInv ==
  /\ TypeOK /\ IndexExact /\ KeysCovered /\ NoKeyShared
  /\ \A c \in Events : cases[c].status # "EXPECTED_BEHAVIOR"
  /\ \A t \in Threads : hand[t] # Idle => HandInv(t)

(* SerialInv holds until the first death of the API.                       *)
Orderly == Undisturbed => SerialInv

(***************************************************************************)
(* Why AnsweredIsKept, EventsHeld and MergedIsTraceable hold for one thread   *)
(* that ingests, into either store, whatever the analysts decide.           *)
(***************************************************************************)
SameContents(card, other) ==
  card.events = other.events /\ card.hits = other.hits /\ card.evidence = other.evidence

(* A card in hand has the contents of the stored one.  It is stale in what    *)
(* the analysts set, and once absorbed in what names the survivor.           *)
HeldInv(t) ==
  LET h == hand[t] IN
  /\ \A i \in DOMAIN h.found : LET m == h.found[i] IN
       /\ SameContents(m.card, cases[m.id]) /\ Stored(m.id) /\ m.card.status \in OpenStatuses
       /\ IF h.pc = "save" /\ i \in 2 .. (h.n - 1)
          THEN cases[m.id].status = "MERGED" /\ h.found[1].id \in cases[m.id].related
          ELSE cases[m.id].status # "MERGED" /\ m.card.related = cases[m.id].related
  /\ FoundOnce(t) /\ h.n >= 2 /\ (h.pc = "find" => h.n = 2)
  /\ IF h.pc = "attach"
     THEN /\ Len(h.found) = 1 /\ h.event \in h.found[1].card.events
          /\ h.event \in Hitting => h.event \in h.found[1].card.hits
     ELSE \A c \in Events : h.event \notin cases[c].events

(* Thread t has absorbed case c and is about to save the survivor.           *)
Absorbing(t, c) ==
  /\ hand[t] # Idle /\ hand[t].pc = "save"
  /\ \E i \in 2 .. (hand[t].n - 1) : i \in DOMAIN hand[t].found /\ hand[t].found[i].id = c

KeepInv ==
  /\ TypeOK /\ AnsweredIsKept /\ EventsHeld
  /\ \A c \in Events : IF Stored(c) THEN c \in cases[c].events ELSE cases[c] = NoCard
  /\ crashes = 0 => \A c \in Events : cases[c].status = "MERGED" =>
                       Traced(c) \/ \E t \in Threads : Absorbing(t, c)
  /\ \A t \in Threads : hand[t] # Idle => HeldInv(t)

(* A key of an open case finds an open case, until the API dies in a save.   *)
OpenCaseIsFound ==
  crashes = 0 =>
    \A c \in Events : Open(c) => \A key \in cases[c].keys : OpenByKey(key) # {}

(* A save that completes leaves the index with the keys of the card, as a    *)
(* rewrite of all its rows would.                                          *)
DeltaEqualsRewrite ==
  [][backend = "sqlite" /\ crashes' = 0 =>
       \A c \in Events : cases'[c] # cases[c] =>
          {p \in index' : p[2] = c} = CardKeys(c, cases'[c]) \X {c}]_vars

(* Processing events never takes a case out of a final status.              *)
DecisionStands ==
  [][\A c \in Events : cases[c].status \in {"CONFIRMED", "FALSE_POSITIVE"} =>
        cases'[c].status = cases[c].status]_vars
=============================================================================
